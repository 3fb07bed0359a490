----------------------------- MODULE PoolProofs -----------------------------
(***************************************************************************)
(* The pool's accounting, for any number of callers and redialers and any  *)
(* sizes: count is exactly the connections and reservations there are, it  *)
(* stays within MaxSize, and so no send on the free list ever blocks.      *)
(*                                                                         *)
(* SlotsCounted is not inductive by itself: what is put on the free list   *)
(* must be a connection (Held), and nobody may be at work once Close has   *)
(* drained the list (Quiet).                                               *)
(***************************************************************************)
EXTENDS Pool, FiniteSetTheorems, SequenceTheorems, TLAPS

Owning    == {"dial", "release", "calling", "checkin", "evict", "redial", "giveup"}
Redialing == {"dial", "release", "send"}

\* Whoever is about to use or return a connection has one.
Held ==
    /\ \A g \in Caller : pc[g] \in {"calling", "checkin"} => conn[g] # None
    /\ \A r \in Redialer : redial[r] = "send" => rconn[r] # None
    /\ sweep \in {"decide", "return"} => econn # None

\* Close finds the callers idle and drains the list once the others are gone.
Quiet ==
    /\ closing # "open" => \A g \in Caller : pc[g] = "idle"
    /\ closing = "closed" => /\ \A r \in Redialer : redial[r] = "none"
                             /\ sweep = "done" /\ free = <<>>

\* The inductive invariant.
PoolInv == TypeOK /\ SlotsCounted /\ Held /\ Quiet

\* The numbers that make up the slots.
LEMMA Counts ==
    ASSUME TypeOK
    PROVE  /\ Cardinality(CallOwners) \in Nat /\ Cardinality(RedialOwners) \in Nat
           /\ SweepOwners \in {0, 1}
           /\ CallOwners = {g \in Caller : pc[g] \in Owning}
           /\ RedialOwners = {r \in Redialer : redial[r] \in Redialing}
<1>1. CallOwners \subseteq Caller /\ RedialOwners \subseteq Redialer
  BY DEF CallOwners, RedialOwners
<1>2. Cardinality(CallOwners) \in Nat /\ Cardinality(RedialOwners) \in Nat
  BY <1>1, GoroutineAssumption, FS_Subset, FS_CardinalityType
<1> QED BY <1>2 DEF CallOwners, RedialOwners, SweepOwners, Owning, Redialing

\* A caller moves to another place.
LEMMA CallMoves ==
    ASSUME TypeOK, NEW g \in Caller, NEW x \in CallPC, Goto(g, x)
    PROVE  /\ Cardinality(CallOwners') \in Nat
           /\ (pc[g] \in Owning) = (x \in Owning) =>
                  Cardinality(CallOwners') = Cardinality(CallOwners)
           /\ pc[g] \notin Owning /\ x \in Owning =>
                  Cardinality(CallOwners') = Cardinality(CallOwners) + 1
           /\ pc[g] \in Owning /\ x \notin Owning =>
                  Cardinality(CallOwners') = Cardinality(CallOwners) - 1
           /\ pc' \in [Caller -> CallPC]
           /\ pc'[g] = x /\ \A h \in Caller : h # g => pc'[h] = pc[h]
<1>1. pc \in [Caller -> CallPC] /\ pc' = [pc EXCEPT ![g] = x]
  BY DEF TypeOK, Goto
<1>2. /\ CallOwners = {h \in Caller : pc[h] \in Owning}
      /\ CallOwners' = {h \in Caller : pc'[h] \in Owning}
  BY DEF CallOwners, Owning
<1>3. pc' \in [Caller -> CallPC] /\ pc'[g] = x /\ \A h \in Caller : h # g => pc'[h] = pc[h]
  BY <1>1
<1>4. IsFiniteSet(CallOwners) /\ IsFiniteSet(CallOwners')
  BY <1>2, GoroutineAssumption, FS_Subset
<1>5. Cardinality(CallOwners) \in Nat /\ Cardinality(CallOwners') \in Nat
  BY <1>4, FS_CardinalityType
<1>6. ASSUME (pc[g] \in Owning) = (x \in Owning)
      PROVE  Cardinality(CallOwners') = Cardinality(CallOwners)
  <2>1. CallOwners' = CallOwners
    BY <1>2, <1>3, <1>6
  <2> QED BY <2>1
<1>7. ASSUME pc[g] \notin Owning, x \in Owning
      PROVE  Cardinality(CallOwners') = Cardinality(CallOwners) + 1
  <2>1. CallOwners' = CallOwners \cup {g} /\ g \notin CallOwners
    BY <1>2, <1>3, <1>7
  <2> QED BY <1>4, <2>1, FS_AddElement
<1>8. ASSUME pc[g] \in Owning, x \notin Owning
      PROVE  Cardinality(CallOwners') = Cardinality(CallOwners) - 1
  <2>1. CallOwners' = CallOwners \ {g} /\ g \in CallOwners
    BY <1>2, <1>3, <1>8
  <2> QED BY <1>4, <2>1, FS_RemoveElement
<1> QED BY <1>3, <1>5, <1>6, <1>7, <1>8

\* Redialer r moves to place x.
RGoto(r, x) == redial' = [redial EXCEPT ![r] = x]

\* A redialer moves to another place.
LEMMA RedialMoves ==
    ASSUME TypeOK, NEW r \in Redialer, NEW x \in RedialPC, RGoto(r, x)
    PROVE  /\ Cardinality(RedialOwners') \in Nat
           /\ (redial[r] \in Redialing) = (x \in Redialing) =>
                  Cardinality(RedialOwners') = Cardinality(RedialOwners)
           /\ redial[r] \notin Redialing /\ x \in Redialing =>
                  Cardinality(RedialOwners') = Cardinality(RedialOwners) + 1
           /\ redial[r] \in Redialing /\ x \notin Redialing =>
                  Cardinality(RedialOwners') = Cardinality(RedialOwners) - 1
           /\ redial' \in [Redialer -> RedialPC]
           /\ redial'[r] = x /\ \A h \in Redialer : h # r => redial'[h] = redial[h]
<1>1. redial \in [Redialer -> RedialPC] /\ redial' = [redial EXCEPT ![r] = x]
  BY DEF TypeOK, RGoto
<1>2. /\ RedialOwners = {h \in Redialer : redial[h] \in Redialing}
      /\ RedialOwners' = {h \in Redialer : redial'[h] \in Redialing}
  BY DEF RedialOwners, Redialing
<1>3. redial' \in [Redialer -> RedialPC] /\ redial'[r] = x
      /\ \A h \in Redialer : h # r => redial'[h] = redial[h]
  BY <1>1
<1>4. IsFiniteSet(RedialOwners) /\ IsFiniteSet(RedialOwners')
  BY <1>2, GoroutineAssumption, FS_Subset
<1>5. Cardinality(RedialOwners) \in Nat /\ Cardinality(RedialOwners') \in Nat
  BY <1>4, FS_CardinalityType
<1>6. ASSUME (redial[r] \in Redialing) = (x \in Redialing)
      PROVE  Cardinality(RedialOwners') = Cardinality(RedialOwners)
  <2>1. RedialOwners' = RedialOwners
    BY <1>2, <1>3, <1>6
  <2> QED BY <2>1
<1>7. ASSUME redial[r] \notin Redialing, x \in Redialing
      PROVE  Cardinality(RedialOwners') = Cardinality(RedialOwners) + 1
  <2>1. RedialOwners' = RedialOwners \cup {r} /\ r \notin RedialOwners
    BY <1>2, <1>3, <1>7
  <2> QED BY <1>4, <2>1, FS_AddElement
<1>8. ASSUME redial[r] \in Redialing, x \notin Redialing
      PROVE  Cardinality(RedialOwners') = Cardinality(RedialOwners) - 1
  <2>1. RedialOwners' = RedialOwners \ {r} /\ r \in RedialOwners
    BY <1>2, <1>3, <1>8
  <2> QED BY <1>4, <2>1, FS_RemoveElement
<1> QED BY <1>3, <1>5, <1>6, <1>7, <1>8

\* A caller, a redialer or a sweep that owns a slot is counted.
LEMMA OwnerCounted ==
    ASSUME TypeOK
    PROVE  /\ \A g \in Caller : pc[g] \in Owning => Cardinality(CallOwners) >= 1
           /\ \A r \in Redialer : redial[r] \in Redialing => Cardinality(RedialOwners) >= 1
<1>1. IsFiniteSet(CallOwners) /\ IsFiniteSet(RedialOwners)
  BY GoroutineAssumption, FS_Subset DEF CallOwners, RedialOwners
<1>2. ASSUME NEW S, IsFiniteSet(S), S # {} PROVE Cardinality(S) >= 1
  BY <1>2, FS_EmptySet, FS_CardinalityType
<1>3. /\ \A g \in Caller : pc[g] \in Owning => CallOwners # {}
      /\ \A r \in Redialer : redial[r] \in Redialing => RedialOwners # {}
  BY DEF CallOwners, RedialOwners, Owning, Redialing
<1> QED BY <1>1, <1>2, <1>3

\* Receiving from and sending to the channel.
LEMMA Channel ==
    ASSUME NEW S, NEW q \in Seq(S)
    PROVE  /\ Len(q) \in Nat
           /\ q # <<>> => Head(q) \in S /\ Tail(q) \in Seq(S) /\ Len(Tail(q)) = Len(q) - 1
           /\ \A x \in S : Append(q, x) \in Seq(S) /\ Len(Append(q, x)) = Len(q) + 1
  OBVIOUS


\* One slot for a place that owns one.
Own(x)  == IF x \in Owning THEN 1 ELSE 0
ROwn(x) == IF x \in Redialing THEN 1 ELSE 0
SOwn(x) == IF x \in {"decide", "return"} THEN 1 ELSE 0

\* The slots on both sides of a step: c counted, l on the free list, and a, b
\* and d owned, of which one changes by what is entered (o2) and left (o).
Balanced(c, c2, l, l2, a, a2, b, b2, d, d2, o, o2) ==
    /\ c = l + a + b + d
    /\ c2 - l2 - o2 = c - l - o
    /\ \/ a2 = a + o2 - o /\ b2 = b /\ d2 = d
       \/ a2 = a /\ b2 = b + o2 - o /\ d2 = d
       \/ a2 = a /\ b2 = b /\ d = o /\ d2 = o2
    => c2 = l2 + a2 + b2 + d2

\* Slots that are moved are neither lost nor invented.
LEMMA Balance ==
    \A c, c2, l, l2, a, a2, b, b2, d, d2, o, o2 \in Int :
        Balanced(c, c2, l, l2, a, a2, b, b2, d, d2, o, o2)
  BY DEF Balanced

\* A step of one caller in an open pool that moves as many slots as it says.
LEMMA CallerStep ==
    ASSUME PoolInv, closing = "open", NEW g \in Caller, NEW x \in CallPC, Goto(g, x),
           UNCHANGED <<serverVars, redialVars, sweepVars, closing>>,
           free' \in Seq(Nat \ {0}), count' \in Int, count' <= MaxSize,
           conn' \in [Caller -> Nat], \A h \in Caller : h # g => conn'[h] = conn[h],
           x \in {"calling", "checkin"} => conn'[g] # None,
           count' - Len(free') - Own(x) = count - Len(free) - Own(pc[g])
    PROVE  PoolInv'
<1>0. TypeOK
  BY DEF PoolInv
<1>1. /\ redial' = redial /\ rconn' = rconn /\ sweep' = sweep /\ swept' = swept
      /\ econn' = econn /\ closing' = "open"
      /\ up' = up /\ incarnation' = incarnation /\ crashes' = crashes
  BY DEF serverVars, redialVars, sweepVars
<1>2. /\ RedialOwners' = RedialOwners /\ SweepOwners' = SweepOwners
  BY <1>1 DEF RedialOwners, SweepOwners
<1>3. count' = Len(free') + Cardinality(CallOwners') + Cardinality(RedialOwners')
                          + SweepOwners'
  <2>1. count = Len(free) + Cardinality(CallOwners) + Cardinality(RedialOwners) + SweepOwners
    BY DEF PoolInv, SlotsCounted
  <2>2. Cardinality(CallOwners') = Cardinality(CallOwners) + Own(x) - Own(pc[g])
    <3>1. pc[g] \in CallPC
      BY <1>0 DEF TypeOK
    <3> QED BY <1>0, CallMoves, Counts DEF Own
  <2>3. Len(free) \in Nat /\ Len(free') \in Nat /\ count \in Nat
    BY <1>0 DEF TypeOK
  <2>4. Own(x) \in {0, 1} /\ Own(pc[g]) \in {0, 1}
    BY DEF Own
  <2>5. /\ Cardinality(CallOwners) \in Nat /\ Cardinality(CallOwners') \in Nat
        /\ Cardinality(RedialOwners) \in Nat /\ SweepOwners \in {0, 1}
    BY <1>0, Counts, CallMoves
  <2>6. /\ count \in Int /\ count' \in Int /\ Len(free) \in Int /\ Len(free') \in Int
        /\ Cardinality(CallOwners) \in Int /\ Cardinality(CallOwners') \in Int
        /\ Cardinality(RedialOwners) \in Int /\ Cardinality(RedialOwners') \in Int
        /\ SweepOwners \in Int /\ SweepOwners' \in Int /\ Own(pc[g]) \in Int /\ Own(x) \in Int
    BY <1>2, <2>3, <2>4, <2>5
  <2>7. Balanced(count, count', Len(free), Len(free'), Cardinality(CallOwners),
                 Cardinality(CallOwners'), Cardinality(RedialOwners),
                 Cardinality(RedialOwners'), SweepOwners, SweepOwners', Own(pc[g]), Own(x))
    BY ONLY <2>6, Balance
  <2> QED BY <1>2, <2>1, <2>2, <2>7, Zenon DEF Balanced
<1>4. count' \in Nat
  <2>1. /\ Len(free') \in Nat /\ Cardinality(CallOwners') \in Nat
        /\ Cardinality(RedialOwners') \in Nat /\ SweepOwners' \in {0, 1}
    BY <1>0, <1>2, Counts, CallMoves
  <2> QED BY <1>3, <2>1
<1>5. pc' \in [Caller -> CallPC] /\ pc'[g] = x /\ \A h \in Caller : h # g => pc'[h] = pc[h]
  BY <1>0, CallMoves
<1>6. TypeOK'
  BY <1>0, <1>1, <1>4, <1>5 DEF TypeOK
<1>7. Held'
  BY <1>1, <1>5 DEF PoolInv, Held
<1>8. Quiet'
  BY <1>1 DEF Quiet
<1> QED BY <1>1, <1>3, <1>6, <1>7, <1>8 DEF PoolInv, SlotsCounted

\* A step of one redialer that moves as many slots as it says.
LEMMA RedialerStep ==
    ASSUME PoolInv, NEW r \in Redialer, NEW x \in RedialPC, redial[r] # "none",
           RGoto(r, x),
           UNCHANGED <<serverVars, callVars, sweepVars, closing>>,
           free' \in Seq(Nat \ {0}), count' \in Int, count' <= MaxSize,
           rconn' \in [Redialer -> Nat], \A h \in Redialer : h # r => rconn'[h] = rconn[h],
           x = "send" => rconn'[r] # None,
           count' - Len(free') - ROwn(x) = count - Len(free) - ROwn(redial[r])
    PROVE  PoolInv'
<1>0. TypeOK
  BY DEF PoolInv
<1>1. /\ pc' = pc /\ conn' = conn /\ sweep' = sweep /\ swept' = swept
      /\ econn' = econn /\ closing' = closing
      /\ up' = up /\ incarnation' = incarnation /\ crashes' = crashes
  BY DEF serverVars, callVars, sweepVars
<1>2. /\ CallOwners' = CallOwners /\ SweepOwners' = SweepOwners
  BY <1>1 DEF CallOwners, SweepOwners
<1>a. closing # "closed"
  BY DEF PoolInv, Quiet
<1>3. count' = Len(free') + Cardinality(CallOwners') + Cardinality(RedialOwners')
                          + SweepOwners'
  <2>1. count = Len(free) + Cardinality(CallOwners) + Cardinality(RedialOwners) + SweepOwners
    BY <1>a DEF PoolInv, SlotsCounted
  <2>2. Cardinality(RedialOwners') = Cardinality(RedialOwners) + ROwn(x) - ROwn(redial[r])
    <3>1. redial[r] \in RedialPC
      BY <1>0 DEF TypeOK
    <3> QED BY <1>0, RedialMoves, Counts DEF ROwn
  <2>3. Len(free) \in Nat /\ Len(free') \in Nat /\ count \in Nat
    BY <1>0 DEF TypeOK
  <2>4. ROwn(x) \in {0, 1} /\ ROwn(redial[r]) \in {0, 1}
    BY DEF ROwn
  <2>5. /\ Cardinality(RedialOwners) \in Nat /\ Cardinality(RedialOwners') \in Nat
        /\ Cardinality(CallOwners) \in Nat /\ SweepOwners \in {0, 1}
    BY <1>0, Counts, RedialMoves
  <2>6. /\ count \in Int /\ count' \in Int /\ Len(free) \in Int /\ Len(free') \in Int
        /\ Cardinality(CallOwners) \in Int /\ Cardinality(CallOwners') \in Int
        /\ Cardinality(RedialOwners) \in Int /\ Cardinality(RedialOwners') \in Int
        /\ SweepOwners \in Int /\ SweepOwners' \in Int /\ ROwn(redial[r]) \in Int /\ ROwn(x) \in Int
    BY <1>2, <2>3, <2>4, <2>5
  <2>7. Balanced(count, count', Len(free), Len(free'), Cardinality(CallOwners),
                 Cardinality(CallOwners'), Cardinality(RedialOwners),
                 Cardinality(RedialOwners'), SweepOwners, SweepOwners', ROwn(redial[r]), ROwn(x))
    BY ONLY <2>6, Balance
  <2> QED BY <1>2, <2>1, <2>2, <2>7, Zenon DEF Balanced
<1>4. count' \in Nat
  <2>1. /\ Len(free') \in Nat /\ Cardinality(CallOwners') \in Nat
        /\ Cardinality(RedialOwners') \in Nat /\ SweepOwners' \in {0, 1}
    BY <1>0, <1>2, Counts, RedialMoves
  <2> QED BY <1>3, <2>1
<1>5. redial' \in [Redialer -> RedialPC] /\ redial'[r] = x
      /\ \A h \in Redialer : h # r => redial'[h] = redial[h]
  BY <1>0, RedialMoves
<1>6. TypeOK'
  BY <1>0, <1>1, <1>4, <1>5 DEF TypeOK
<1>7. Held'
  BY <1>1, <1>5 DEF PoolInv, Held
<1>8. Quiet'
  BY <1>1, <1>a DEF PoolInv, Quiet
<1> QED BY <1>3, <1>6, <1>7, <1>8 DEF PoolInv, SlotsCounted

\* A step of the evictor that moves as many slots as it says.
LEMMA EvictorStep ==
    ASSUME PoolInv, sweep # "done", sweep' \in SweepPC,
           UNCHANGED <<serverVars, callVars, redialVars, closing>>,
           free' \in Seq(Nat \ {0}), count' \in Int, count' <= MaxSize,
           econn' \in Nat, swept' \in 0 .. MaxSize,
           sweep' \in {"decide", "return"} => econn' # None,
           count' - Len(free') - SOwn(sweep') = count - Len(free) - SOwn(sweep)
    PROVE  PoolInv'
<1>0. TypeOK
  BY DEF PoolInv
<1>1. /\ pc' = pc /\ conn' = conn /\ redial' = redial /\ rconn' = rconn
      /\ closing' = closing
      /\ up' = up /\ incarnation' = incarnation /\ crashes' = crashes
  BY DEF serverVars, callVars, redialVars
<1>2. CallOwners' = CallOwners /\ RedialOwners' = RedialOwners
  BY <1>1 DEF CallOwners, RedialOwners
<1>a. closing # "closed"
  BY DEF PoolInv, Quiet
<1>3. SweepOwners = SOwn(sweep) /\ SweepOwners' = SOwn(sweep')
      /\ SOwn(sweep) \in {0, 1} /\ SOwn(sweep') \in {0, 1}
  BY DEF SweepOwners, SOwn
<1>4. /\ count' = Len(free') + Cardinality(CallOwners') + Cardinality(RedialOwners')
                             + SweepOwners'
      /\ count' \in Nat
  <2>1. count = Len(free) + Cardinality(CallOwners) + Cardinality(RedialOwners) + SweepOwners
    BY <1>a DEF PoolInv, SlotsCounted
  <2>3. Len(free) \in Nat /\ Len(free') \in Nat /\ count \in Nat
    BY <1>0 DEF TypeOK
  <2>5. Cardinality(RedialOwners) \in Nat /\ Cardinality(CallOwners) \in Nat
    BY <1>0, Counts
  <2>6. /\ count \in Int /\ count' \in Int /\ Len(free) \in Int /\ Len(free') \in Int
        /\ Cardinality(CallOwners) \in Int /\ Cardinality(CallOwners') \in Int
        /\ Cardinality(RedialOwners) \in Int /\ Cardinality(RedialOwners') \in Int
        /\ SweepOwners \in Int /\ SweepOwners' \in Int /\ SOwn(sweep) \in Int /\ SOwn(sweep') \in Int
    BY <1>2, <1>3, <2>3, <2>5
  <2>7. Balanced(count, count', Len(free), Len(free'), Cardinality(CallOwners),
                 Cardinality(CallOwners'), Cardinality(RedialOwners),
                 Cardinality(RedialOwners'), SweepOwners, SweepOwners', SOwn(sweep), SOwn(sweep'))
    BY ONLY <2>6, Balance
  <2>8. count' = Len(free') + Cardinality(CallOwners') + Cardinality(RedialOwners')
                            + SweepOwners'
    BY <1>2, <1>3, <2>1, <2>7, Zenon DEF Balanced
  <2>9. /\ Len(free') \in Nat /\ Cardinality(CallOwners') \in Nat
        /\ Cardinality(RedialOwners') \in Nat /\ SweepOwners' \in {0, 1}
    BY <1>2, <1>3, <2>3, <2>5
  <2> QED BY <2>8, <2>9
<1>6. TypeOK'
  BY <1>0, <1>1, <1>4 DEF TypeOK
<1>7. Held'
  BY <1>1 DEF PoolInv, Held
<1>8. Quiet'
  BY <1>1, <1>a DEF PoolInv, Quiet
<1> QED BY <1>4, <1>6, <1>7, <1>8 DEF PoolInv, SlotsCounted

\* What the invariant says of the free list and of the counter.
LEMMA Room ==
    ASSUME PoolInv
    PROVE  /\ free \in Seq(Nat \ {0}) /\ Len(free) \in 0 .. MaxSize
           /\ count \in Nat /\ conn \in [Caller -> Nat] /\ rconn \in [Redialer -> Nat]
           /\ closing # "closed" =>
                 /\ count <= MaxSize
                 /\ \A g \in Caller : pc[g] \in Owning => Len(free) < count
                 /\ \A r \in Redialer : redial[r] \in Redialing => Len(free) < count
                 /\ SOwn(sweep) = 1 => Len(free) < count
<1>0. TypeOK
  BY DEF PoolInv
<1>1. free \in Seq(Nat \ {0}) /\ count \in Nat /\ Len(free) \in Nat
      /\ conn \in [Caller -> Nat] /\ rconn \in [Redialer -> Nat]
  BY <1>0 DEF TypeOK
<1>2. /\ Cardinality(CallOwners) \in Nat /\ Cardinality(RedialOwners) \in Nat
      /\ SweepOwners \in {0, 1} /\ SweepOwners = SOwn(sweep)
  BY <1>0, Counts DEF SweepOwners, SOwn
<1>3. MaxSize \in Nat
  BY SizeAssumption
<1>4. CASE closing = "closed"
  <2>1. free = <<>>
    BY <1>4 DEF PoolInv, Quiet
  <2> QED BY <1>1, <1>3, <1>4, <2>1
<1>5. CASE closing # "closed"
  <2>1. /\ count = Len(free) + Cardinality(CallOwners) + Cardinality(RedialOwners)
                             + SweepOwners
        /\ count <= MaxSize
    BY <1>5 DEF PoolInv, SlotsCounted
  <2>2. /\ \A g \in Caller : pc[g] \in Owning => Cardinality(CallOwners) >= 1
        /\ \A r \in Redialer : redial[r] \in Redialing => Cardinality(RedialOwners) >= 1
    BY <1>0, OwnerCounted
  <2>3. Len(free) \in 0 .. MaxSize
    BY <1>1, <1>2, <1>3, <2>1
  <2>4. ASSUME NEW g \in Caller, pc[g] \in Owning PROVE Len(free) < count
    <3>1. Cardinality(CallOwners) >= 1
      BY <2>2, <2>4
    <3> QED BY <1>1, <1>2, <2>1, <3>1
  <2>5. ASSUME NEW r \in Redialer, redial[r] \in Redialing PROVE Len(free) < count
    <3>1. Cardinality(RedialOwners) >= 1
      BY <2>2, <2>5
    <3> QED BY <1>1, <1>2, <2>1, <3>1
  <2>6. SOwn(sweep) = 1 => Len(free) < count
    BY <1>1, <1>2, <2>1
  <2> QED BY <1>1, <2>1, <2>3, <2>4, <2>5, <2>6
<1> QED BY <1>4, <1>5

\* A caller that is within Call keeps the pool open.
LEMMA InCall ==
    ASSUME PoolInv, NEW g \in Caller, pc[g] # "idle"
    PROVE  closing = "open"
  BY DEF PoolInv, Quiet

\* checkout preserves the invariant.
LEMMA checkoutInv ==
    ASSUME PoolInv, NEW g \in Caller, checkout(g)
    PROVE  PoolInv'
<1>0. TypeOK /\ closing = "open"
  BY InCall DEF PoolInv, checkout
<1>r. /\ free \in Seq(Nat \ {0}) /\ Len(free) \in Nat /\ Len(free) \in 0 .. MaxSize
      /\ count \in Nat /\ conn \in [Caller -> Nat]
      /\ count <= MaxSize /\ MaxSize \in Nat /\ MinSize \in Nat
      /\ pc[g] \in Owning => Len(free) < count
  BY <1>0, Room, SizeAssumption
<1>u. UNCHANGED <<serverVars, sweepVars, closing>>
  BY DEF checkout
<1>b1. CASE free # <<>>
  <2>1. /\ Goto(g, "calling") /\ free' = Tail(free) /\ conn' = [conn EXCEPT ![g] = Head(free)]
        /\ count' = count /\ pc[g] = "idle"
        /\ UNCHANGED redialVars
    BY <1>b1 DEF checkout, reserve, releaseGrowthReservation, redialVars
  <2>2. Own("calling") = 1 /\ Own(pc[g]) = 0
    BY <2>1 DEF Own, Owning
  <2>3. /\ free' \in Seq(Nat \ {0}) /\ Len(free') = Len(free) - 1
        /\ Head(free) \in Nat \ {0}
    BY <1>b1, <1>0, <1>r, <2>1, Channel
  <2>4. /\ conn' \in [Caller -> Nat] /\ \A h \in Caller : h # g => conn'[h] = conn[h]
        /\ conn'[g] # None
    BY <1>r, <2>1, <2>3 DEF None
  <2>5. count' \in Int /\ count' <= MaxSize
    BY <1>b1, <1>r, <2>1
  <2>6. count' - Len(free') - Own("calling") = count - Len(free) - Own(pc[g])
    BY <1>r, <2>1, <2>2, <2>3
  <2>7. "calling" \in CallPC
    BY DEF CallPC
  <2> QED BY <1>0, <1>u, <2>1, <2>3, <2>4, <2>5, <2>6, <2>7, CallerStep
<1>b2. CASE free = <<>>
  <2>1. /\ Goto(g, "grow") /\ free' = free /\ conn' = conn
        /\ count' = count /\ pc[g] = "idle"
        /\ UNCHANGED redialVars
    BY <1>b2 DEF checkout, reserve, releaseGrowthReservation, redialVars
  <2>2. Own("grow") = 0 /\ Own(pc[g]) = 0
    BY <2>1 DEF Own, Owning
  <2>3. /\ free' \in Seq(Nat \ {0}) /\ Len(free') = Len(free)
    BY <1>b2, <1>0, <1>r, <2>1, Channel
  <2>4. /\ conn' \in [Caller -> Nat] /\ \A h \in Caller : h # g => conn'[h] = conn[h]
    BY <1>r, <2>1, <2>3 DEF None
  <2>5. count' \in Int /\ count' <= MaxSize
    BY <1>b2, <1>r, <2>1
  <2>6. count' - Len(free') - Own("grow") = count - Len(free) - Own(pc[g])
    BY <1>r, <2>1, <2>2, <2>3
  <2>7. "grow" \in CallPC
    BY DEF CallPC
  <2> QED BY <1>0, <1>u, <2>1, <2>3, <2>4, <2>5, <2>6, <2>7, CallerStep
<1> QED BY <1>b1, <1>b2 DEF checkout

\* tryReserveGrowth preserves the invariant.
LEMMA tryReserveGrowthInv ==
    ASSUME PoolInv, NEW g \in Caller, tryReserveGrowth(g)
    PROVE  PoolInv'
<1>0. TypeOK /\ closing = "open"
  BY InCall DEF PoolInv, tryReserveGrowth
<1>r. /\ free \in Seq(Nat \ {0}) /\ Len(free) \in Nat /\ Len(free) \in 0 .. MaxSize
      /\ count \in Nat /\ conn \in [Caller -> Nat]
      /\ count <= MaxSize /\ MaxSize \in Nat /\ MinSize \in Nat
      /\ pc[g] \in Owning => Len(free) < count
  BY <1>0, Room, SizeAssumption
<1>u. UNCHANGED <<serverVars, sweepVars, closing>>
  BY DEF tryReserveGrowth
<1>b1. CASE MayGrow
  <2>1. /\ Goto(g, "dial") /\ free' = free /\ conn' = conn
        /\ count' = count + 1 /\ pc[g] = "grow"
        /\ UNCHANGED redialVars
    BY <1>b1 DEF tryReserveGrowth, reserve, releaseGrowthReservation, redialVars
  <2>2. Own("dial") = 1 /\ Own(pc[g]) = 0
    BY <2>1 DEF Own, Owning
  <2>3. /\ free' \in Seq(Nat \ {0}) /\ Len(free') = Len(free)
    BY <1>b1, <1>0, <1>r, <2>1, Channel
  <2>4. /\ conn' \in [Caller -> Nat] /\ \A h \in Caller : h # g => conn'[h] = conn[h]
    BY <1>r, <2>1, <2>3 DEF None
  <2>5. count' \in Int /\ count' <= MaxSize
    BY <1>b1, <1>r, <2>1 DEF MayGrow
  <2>6. count' - Len(free') - Own("dial") = count - Len(free) - Own(pc[g])
    BY <1>r, <2>1, <2>2, <2>3
  <2>7. "dial" \in CallPC
    BY DEF CallPC
  <2> QED BY <1>0, <1>u, <2>1, <2>3, <2>4, <2>5, <2>6, <2>7, CallerStep
<1>b2. CASE ~MayGrow
  <2>1. /\ Goto(g, "wait") /\ free' = free /\ conn' = conn
        /\ count' = count /\ pc[g] = "grow"
        /\ UNCHANGED redialVars
    BY <1>b2 DEF tryReserveGrowth, reserve, releaseGrowthReservation, redialVars
  <2>2. Own("wait") = 0 /\ Own(pc[g]) = 0
    BY <2>1 DEF Own, Owning
  <2>3. /\ free' \in Seq(Nat \ {0}) /\ Len(free') = Len(free)
    BY <1>b2, <1>0, <1>r, <2>1, Channel
  <2>4. /\ conn' \in [Caller -> Nat] /\ \A h \in Caller : h # g => conn'[h] = conn[h]
    BY <1>r, <2>1, <2>3 DEF None
  <2>5. count' \in Int /\ count' <= MaxSize
    BY <1>b2, <1>r, <2>1
  <2>6. count' - Len(free') - Own("wait") = count - Len(free) - Own(pc[g])
    BY <1>r, <2>1, <2>2, <2>3
  <2>7. "wait" \in CallPC
    BY DEF CallPC
  <2> QED BY <1>0, <1>u, <2>1, <2>3, <2>4, <2>5, <2>6, <2>7, CallerStep
<1> QED BY <1>b1, <1>b2 DEF tryReserveGrowth

\* release preserves the invariant.
LEMMA releaseInv ==
    ASSUME PoolInv, NEW g \in Caller, release(g)
    PROVE  PoolInv'
<1>0. TypeOK /\ closing = "open"
  BY InCall DEF PoolInv, release
<1>r. /\ free \in Seq(Nat \ {0}) /\ Len(free) \in Nat /\ Len(free) \in 0 .. MaxSize
      /\ count \in Nat /\ conn \in [Caller -> Nat]
      /\ count <= MaxSize /\ MaxSize \in Nat /\ MinSize \in Nat
      /\ pc[g] \in Owning => Len(free) < count
  BY <1>0, Room, SizeAssumption
<1>u. UNCHANGED <<serverVars, sweepVars, closing>>
  BY DEF release
<1>1. /\ Goto(g, "wait") /\ free' = free /\ conn' = conn
      /\ count' = count - 1 /\ pc[g] = "release"
      /\ UNCHANGED redialVars
  BY DEF release, reserve, releaseGrowthReservation, redialVars
<1>2. Own("wait") = 0 /\ Own(pc[g]) = 1
  BY <1>1 DEF Own, Owning
<1>3. /\ free' \in Seq(Nat \ {0}) /\ Len(free') = Len(free)
  BY <1>0, <1>r, <1>1, Channel
<1>4. /\ conn' \in [Caller -> Nat] /\ \A h \in Caller : h # g => conn'[h] = conn[h]
  BY <1>r, <1>1, <1>3 DEF None
<1>5. count' \in Int /\ count' <= MaxSize
  BY <1>r, <1>1
<1>6. count' - Len(free') - Own("wait") = count - Len(free) - Own(pc[g])
  BY <1>r, <1>1, <1>2, <1>3
<1>7. "wait" \in CallPC
  BY DEF CallPC
<1> QED BY <1>0, <1>u, <1>1, <1>3, <1>4, <1>5, <1>6, <1>7, CallerStep

\* receive preserves the invariant.
LEMMA receiveInv ==
    ASSUME PoolInv, NEW g \in Caller, receive(g)
    PROVE  PoolInv'
<1>0. TypeOK /\ closing = "open"
  BY InCall DEF PoolInv, receive
<1>r. /\ free \in Seq(Nat \ {0}) /\ Len(free) \in Nat /\ Len(free) \in 0 .. MaxSize
      /\ count \in Nat /\ conn \in [Caller -> Nat]
      /\ count <= MaxSize /\ MaxSize \in Nat /\ MinSize \in Nat
      /\ pc[g] \in Owning => Len(free) < count
  BY <1>0, Room, SizeAssumption
<1>u. UNCHANGED <<serverVars, sweepVars, closing>>
  BY DEF receive
<1>b1. CASE free # <<>>
  <2>1. /\ Goto(g, "calling") /\ free' = Tail(free) /\ conn' = [conn EXCEPT ![g] = Head(free)]
        /\ count' = count /\ pc[g] = "wait"
        /\ UNCHANGED redialVars
    BY <1>b1 DEF receive, reserve, releaseGrowthReservation, redialVars
  <2>2. Own("calling") = 1 /\ Own(pc[g]) = 0
    BY <2>1 DEF Own, Owning
  <2>3. /\ free' \in Seq(Nat \ {0}) /\ Len(free') = Len(free) - 1
        /\ Head(free) \in Nat \ {0}
    BY <1>b1, <1>0, <1>r, <2>1, Channel
  <2>4. /\ conn' \in [Caller -> Nat] /\ \A h \in Caller : h # g => conn'[h] = conn[h]
        /\ conn'[g] # None
    BY <1>r, <2>1, <2>3 DEF None
  <2>5. count' \in Int /\ count' <= MaxSize
    BY <1>b1, <1>r, <2>1
  <2>6. count' - Len(free') - Own("calling") = count - Len(free) - Own(pc[g])
    BY <1>r, <2>1, <2>2, <2>3
  <2>7. "calling" \in CallPC
    BY DEF CallPC
  <2> QED BY <1>0, <1>u, <2>1, <2>3, <2>4, <2>5, <2>6, <2>7, CallerStep
<1> QED BY <1>b1 DEF receive

\* exhausted preserves the invariant.
LEMMA exhaustedInv ==
    ASSUME PoolInv, NEW g \in Caller, exhausted(g)
    PROVE  PoolInv'
<1>0. TypeOK /\ closing = "open"
  BY InCall DEF PoolInv, exhausted
<1>r. /\ free \in Seq(Nat \ {0}) /\ Len(free) \in Nat /\ Len(free) \in 0 .. MaxSize
      /\ count \in Nat /\ conn \in [Caller -> Nat]
      /\ count <= MaxSize /\ MaxSize \in Nat /\ MinSize \in Nat
      /\ pc[g] \in Owning => Len(free) < count
  BY <1>0, Room, SizeAssumption
<1>u. UNCHANGED <<serverVars, sweepVars, closing>>
  BY DEF exhausted
<1>1. /\ Goto(g, "idle") /\ free' = free /\ conn' = conn
      /\ count' = count /\ pc[g] = "wait"
      /\ UNCHANGED redialVars
  BY DEF exhausted, reserve, releaseGrowthReservation, redialVars
<1>2. Own("idle") = 0 /\ Own(pc[g]) = 0
  BY <1>1 DEF Own, Owning
<1>3. /\ free' \in Seq(Nat \ {0}) /\ Len(free') = Len(free)
  BY <1>0, <1>r, <1>1, Channel
<1>4. /\ conn' \in [Caller -> Nat] /\ \A h \in Caller : h # g => conn'[h] = conn[h]
  BY <1>r, <1>1, <1>3 DEF None
<1>5. count' \in Int /\ count' <= MaxSize
  BY <1>r, <1>1
<1>6. count' - Len(free') - Own("idle") = count - Len(free) - Own(pc[g])
  BY <1>r, <1>1, <1>2, <1>3
<1>7. "idle" \in CallPC
  BY DEF CallPC
<1> QED BY <1>0, <1>u, <1>1, <1>3, <1>4, <1>5, <1>6, <1>7, CallerStep

\* Call preserves the invariant.
LEMMA CallInv ==
    ASSUME PoolInv, NEW g \in Caller, Call(g)
    PROVE  PoolInv'
<1>0. TypeOK /\ closing = "open"
  BY InCall DEF PoolInv, Call
<1>r. /\ free \in Seq(Nat \ {0}) /\ Len(free) \in Nat /\ Len(free) \in 0 .. MaxSize
      /\ count \in Nat /\ conn \in [Caller -> Nat]
      /\ count <= MaxSize /\ MaxSize \in Nat /\ MinSize \in Nat
      /\ pc[g] \in Owning => Len(free) < count
  BY <1>0, Room, SizeAssumption
<1>u. UNCHANGED <<serverVars, sweepVars, closing>>
  BY DEF Call
<1>b1. CASE Works(conn[g])
  <2>1. /\ Goto(g, "checkin") /\ free' = free /\ conn' = conn
        /\ count' = count /\ pc[g] = "calling"
        /\ UNCHANGED redialVars
    BY <1>b1 DEF Call, reserve, releaseGrowthReservation, redialVars
  <2>2. Own("checkin") = 1 /\ Own(pc[g]) = 1
    BY <2>1 DEF Own, Owning
  <2>3. /\ free' \in Seq(Nat \ {0}) /\ Len(free') = Len(free)
    BY <1>b1, <1>0, <1>r, <2>1, Channel
  <2>4. /\ conn' \in [Caller -> Nat] /\ \A h \in Caller : h # g => conn'[h] = conn[h]
        /\ conn'[g] # None
    BY <1>r, <2>1, <2>3 DEF None, PoolInv, Held
  <2>5. count' \in Int /\ count' <= MaxSize
    BY <1>b1, <1>r, <2>1
  <2>6. count' - Len(free') - Own("checkin") = count - Len(free) - Own(pc[g])
    BY <1>r, <2>1, <2>2, <2>3
  <2>7. "checkin" \in CallPC
    BY DEF CallPC
  <2> QED BY <1>0, <1>u, <2>1, <2>3, <2>4, <2>5, <2>6, <2>7, CallerStep
<1>b2. CASE ~Works(conn[g])
  <2>1. /\ Goto(g, "evict") /\ free' = free /\ conn' = [conn EXCEPT ![g] = None]
        /\ count' = count /\ pc[g] = "calling"
        /\ UNCHANGED redialVars
    BY <1>b2 DEF Call, reserve, releaseGrowthReservation, redialVars
  <2>2. Own("evict") = 1 /\ Own(pc[g]) = 1
    BY <2>1 DEF Own, Owning
  <2>3. /\ free' \in Seq(Nat \ {0}) /\ Len(free') = Len(free)
    BY <1>b2, <1>0, <1>r, <2>1, Channel
  <2>4. /\ conn' \in [Caller -> Nat] /\ \A h \in Caller : h # g => conn'[h] = conn[h]
    BY <1>r, <2>1, <2>3 DEF None
  <2>5. count' \in Int /\ count' <= MaxSize
    BY <1>b2, <1>r, <2>1
  <2>6. count' - Len(free') - Own("evict") = count - Len(free) - Own(pc[g])
    BY <1>r, <2>1, <2>2, <2>3
  <2>7. "evict" \in CallPC
    BY DEF CallPC
  <2> QED BY <1>0, <1>u, <2>1, <2>3, <2>4, <2>5, <2>6, <2>7, CallerStep
<1> QED BY <1>b1, <1>b2 DEF Call

\* checkin preserves the invariant.
LEMMA checkinInv ==
    ASSUME PoolInv, NEW g \in Caller, checkin(g)
    PROVE  PoolInv'
<1>0. TypeOK /\ closing = "open"
  BY InCall DEF PoolInv, checkin
<1>r. /\ free \in Seq(Nat \ {0}) /\ Len(free) \in Nat /\ Len(free) \in 0 .. MaxSize
      /\ count \in Nat /\ conn \in [Caller -> Nat]
      /\ count <= MaxSize /\ MaxSize \in Nat /\ MinSize \in Nat
      /\ pc[g] \in Owning => Len(free) < count
  BY <1>0, Room, SizeAssumption
<1>u. UNCHANGED <<serverVars, sweepVars, closing>>
  BY DEF checkin
<1>1. /\ Goto(g, "idle") /\ free' = Append(free, conn[g]) /\ conn' = [conn EXCEPT ![g] = None]
      /\ count' = count /\ pc[g] = "checkin"
      /\ UNCHANGED redialVars
  BY DEF checkin, reserve, releaseGrowthReservation, redialVars
<1>2. Own("idle") = 0 /\ Own(pc[g]) = 1
  BY <1>1 DEF Own, Owning
<1>3. /\ free' \in Seq(Nat \ {0}) /\ Len(free') = Len(free) + 1
  BY <1>0, <1>r, <1>1, Channel DEF TypeOK, PoolInv, Held, None
<1>4. /\ conn' \in [Caller -> Nat] /\ \A h \in Caller : h # g => conn'[h] = conn[h]
  BY <1>r, <1>1, <1>3 DEF None
<1>5. count' \in Int /\ count' <= MaxSize
  BY <1>r, <1>1
<1>6. count' - Len(free') - Own("idle") = count - Len(free) - Own(pc[g])
  BY <1>r, <1>1, <1>2, <1>3
<1>7. "idle" \in CallPC
  BY DEF CallPC
<1> QED BY <1>0, <1>u, <1>1, <1>3, <1>4, <1>5, <1>6, <1>7, CallerStep

\* evict preserves the invariant.
LEMMA evictInv ==
    ASSUME PoolInv, NEW g \in Caller, evict(g)
    PROVE  PoolInv'
<1>0. TypeOK /\ closing = "open"
  BY InCall DEF PoolInv, evict
<1>r. /\ free \in Seq(Nat \ {0}) /\ Len(free) \in Nat /\ Len(free) \in 0 .. MaxSize
      /\ count \in Nat /\ conn \in [Caller -> Nat]
      /\ count <= MaxSize /\ MaxSize \in Nat /\ MinSize \in Nat
      /\ pc[g] \in Owning => Len(free) < count
  BY <1>0, Room, SizeAssumption
<1>u. UNCHANGED <<serverVars, sweepVars, closing>>
  BY DEF evict
<1>1. /\ Goto(g, "restore") /\ free' = free /\ conn' = conn
      /\ count' = count - 1 /\ pc[g] = "evict"
      /\ UNCHANGED redialVars
  BY DEF evict, reserve, releaseGrowthReservation, redialVars
<1>2. Own("restore") = 0 /\ Own(pc[g]) = 1
  BY <1>1 DEF Own, Owning
<1>3. /\ free' \in Seq(Nat \ {0}) /\ Len(free') = Len(free)
  BY <1>0, <1>r, <1>1, Channel
<1>4. /\ conn' \in [Caller -> Nat] /\ \A h \in Caller : h # g => conn'[h] = conn[h]
  BY <1>r, <1>1, <1>3 DEF None
<1>5. count' \in Int /\ count' <= MaxSize
  BY <1>r, <1>1
<1>6. count' - Len(free') - Own("restore") = count - Len(free) - Own(pc[g])
  BY <1>r, <1>1, <1>2, <1>3
<1>7. "restore" \in CallPC
  BY DEF CallPC
<1> QED BY <1>0, <1>u, <1>1, <1>3, <1>4, <1>5, <1>6, <1>7, CallerStep

\* tryReserveRestore preserves the invariant.
LEMMA tryReserveRestoreInv ==
    ASSUME PoolInv, NEW g \in Caller, tryReserveRestore(g)
    PROVE  PoolInv'
<1>0. TypeOK /\ closing = "open"
  BY InCall DEF PoolInv, tryReserveRestore
<1>r. /\ free \in Seq(Nat \ {0}) /\ Len(free) \in Nat /\ Len(free) \in 0 .. MaxSize
      /\ count \in Nat /\ conn \in [Caller -> Nat]
      /\ count <= MaxSize /\ MaxSize \in Nat /\ MinSize \in Nat
      /\ pc[g] \in Owning => Len(free) < count
  BY <1>0, Room, SizeAssumption
<1>u. UNCHANGED <<serverVars, sweepVars, closing>>
  BY DEF tryReserveRestore
<1>b1. CASE MayRestore
  <2>1. /\ Goto(g, "redial") /\ free' = free /\ conn' = conn
        /\ count' = count + 1 /\ pc[g] = "restore"
        /\ UNCHANGED redialVars
    BY <1>b1 DEF tryReserveRestore, reserve, releaseGrowthReservation, redialVars
  <2>2. Own("redial") = 1 /\ Own(pc[g]) = 0
    BY <2>1 DEF Own, Owning
  <2>3. /\ free' \in Seq(Nat \ {0}) /\ Len(free') = Len(free)
    BY <1>b1, <1>0, <1>r, <2>1, Channel
  <2>4. /\ conn' \in [Caller -> Nat] /\ \A h \in Caller : h # g => conn'[h] = conn[h]
    BY <1>r, <2>1, <2>3 DEF None
  <2>5. count' \in Int /\ count' <= MaxSize
    BY <1>b1, <1>r, <2>1 DEF MayRestore
  <2>6. count' - Len(free') - Own("redial") = count - Len(free) - Own(pc[g])
    BY <1>r, <2>1, <2>2, <2>3
  <2>7. "redial" \in CallPC
    BY DEF CallPC
  <2> QED BY <1>0, <1>u, <2>1, <2>3, <2>4, <2>5, <2>6, <2>7, CallerStep
<1>b2. CASE ~MayRestore
  <2>1. /\ Goto(g, "idle") /\ free' = free /\ conn' = conn
        /\ count' = count /\ pc[g] = "restore"
        /\ UNCHANGED redialVars
    BY <1>b2 DEF tryReserveRestore, reserve, releaseGrowthReservation, redialVars
  <2>2. Own("idle") = 0 /\ Own(pc[g]) = 0
    BY <2>1 DEF Own, Owning
  <2>3. /\ free' \in Seq(Nat \ {0}) /\ Len(free') = Len(free)
    BY <1>b2, <1>0, <1>r, <2>1, Channel
  <2>4. /\ conn' \in [Caller -> Nat] /\ \A h \in Caller : h # g => conn'[h] = conn[h]
    BY <1>r, <2>1, <2>3 DEF None
  <2>5. count' \in Int /\ count' <= MaxSize
    BY <1>b2, <1>r, <2>1
  <2>6. count' - Len(free') - Own("idle") = count - Len(free) - Own(pc[g])
    BY <1>r, <2>1, <2>2, <2>3
  <2>7. "idle" \in CallPC
    BY DEF CallPC
  <2> QED BY <1>0, <1>u, <2>1, <2>3, <2>4, <2>5, <2>6, <2>7, CallerStep
<1> QED BY <1>b1, <1>b2 DEF tryReserveRestore

\* dial preserves the invariant.
LEMMA dialInv ==
    ASSUME PoolInv, NEW g \in Caller, dial(g)
    PROVE  PoolInv'
<1>0. TypeOK /\ closing = "open"
  BY InCall DEF PoolInv, dial
<1>r. /\ free \in Seq(Nat \ {0}) /\ Len(free) \in Nat /\ Len(free) \in 0 .. MaxSize
      /\ count \in Nat /\ conn \in [Caller -> Nat]
      /\ count <= MaxSize /\ MaxSize \in Nat /\ MinSize \in Nat
      /\ pc[g] \in Owning => Len(free) < count
  BY <1>0, Room, SizeAssumption
<1>u. UNCHANGED <<serverVars, sweepVars, closing>>
  BY DEF dial
<1>b1. CASE up /\ pc[g] = "dial"
  <2>1. /\ Goto(g, "calling") /\ free' = free /\ conn' = [conn EXCEPT ![g] = incarnation]
        /\ count' = count /\ pc[g] = "dial"
        /\ UNCHANGED redialVars
    BY <1>b1 DEF dial, reserve, releaseGrowthReservation, redialVars
  <2>2. Own("calling") = 1 /\ Own(pc[g]) = 1
    BY <2>1 DEF Own, Owning
  <2>3. /\ free' \in Seq(Nat \ {0}) /\ Len(free') = Len(free)
        /\ incarnation \in Nat \ {0}
    BY <1>b1, <1>0, <1>r, <2>1, Channel DEF TypeOK, PoolInv, Held, None
  <2>4. /\ conn' \in [Caller -> Nat] /\ \A h \in Caller : h # g => conn'[h] = conn[h]
        /\ conn'[g] # None
    BY <1>r, <2>1, <2>3 DEF None
  <2>5. count' \in Int /\ count' <= MaxSize
    BY <1>b1, <1>r, <2>1
  <2>6. count' - Len(free') - Own("calling") = count - Len(free) - Own(pc[g])
    BY <1>r, <2>1, <2>2, <2>3
  <2>7. "calling" \in CallPC
    BY DEF CallPC
  <2> QED BY <1>0, <1>u, <2>1, <2>3, <2>4, <2>5, <2>6, <2>7, CallerStep
<1>b2. CASE up /\ pc[g] = "redial"
  <2>1. /\ Goto(g, "checkin") /\ free' = free /\ conn' = [conn EXCEPT ![g] = incarnation]
        /\ count' = count /\ pc[g] = "redial"
        /\ UNCHANGED redialVars
    BY <1>b2 DEF dial, reserve, releaseGrowthReservation, redialVars
  <2>2. Own("checkin") = 1 /\ Own(pc[g]) = 1
    BY <2>1 DEF Own, Owning
  <2>3. /\ free' \in Seq(Nat \ {0}) /\ Len(free') = Len(free)
        /\ incarnation \in Nat \ {0}
    BY <1>b2, <1>0, <1>r, <2>1, Channel DEF TypeOK, PoolInv, Held, None
  <2>4. /\ conn' \in [Caller -> Nat] /\ \A h \in Caller : h # g => conn'[h] = conn[h]
        /\ conn'[g] # None
    BY <1>r, <2>1, <2>3 DEF None
  <2>5. count' \in Int /\ count' <= MaxSize
    BY <1>b2, <1>r, <2>1
  <2>6. count' - Len(free') - Own("checkin") = count - Len(free) - Own(pc[g])
    BY <1>r, <2>1, <2>2, <2>3
  <2>7. "checkin" \in CallPC
    BY DEF CallPC
  <2> QED BY <1>0, <1>u, <2>1, <2>3, <2>4, <2>5, <2>6, <2>7, CallerStep
<1>b3. CASE ~up /\ pc[g] = "dial"
  <2>1. /\ Goto(g, "release") /\ free' = free /\ conn' = conn
        /\ count' = count /\ pc[g] = "dial"
        /\ UNCHANGED redialVars
    BY <1>b3 DEF dial, reserve, releaseGrowthReservation, redialVars
  <2>2. Own("release") = 1 /\ Own(pc[g]) = 1
    BY <2>1 DEF Own, Owning
  <2>3. /\ free' \in Seq(Nat \ {0}) /\ Len(free') = Len(free)
    BY <1>b3, <1>0, <1>r, <2>1, Channel
  <2>4. /\ conn' \in [Caller -> Nat] /\ \A h \in Caller : h # g => conn'[h] = conn[h]
    BY <1>r, <2>1, <2>3 DEF None
  <2>5. count' \in Int /\ count' <= MaxSize
    BY <1>b3, <1>r, <2>1
  <2>6. count' - Len(free') - Own("release") = count - Len(free) - Own(pc[g])
    BY <1>r, <2>1, <2>2, <2>3
  <2>7. "release" \in CallPC
    BY DEF CallPC
  <2> QED BY <1>0, <1>u, <2>1, <2>3, <2>4, <2>5, <2>6, <2>7, CallerStep
<1>b4. CASE ~up /\ pc[g] = "redial"
  <2>1. /\ Goto(g, "giveup") /\ free' = free /\ conn' = conn
        /\ count' = count /\ pc[g] = "redial"
        /\ UNCHANGED redialVars
    BY <1>b4 DEF dial, reserve, releaseGrowthReservation, redialVars
  <2>2. Own("giveup") = 1 /\ Own(pc[g]) = 1
    BY <2>1 DEF Own, Owning
  <2>3. /\ free' \in Seq(Nat \ {0}) /\ Len(free') = Len(free)
    BY <1>b4, <1>0, <1>r, <2>1, Channel
  <2>4. /\ conn' \in [Caller -> Nat] /\ \A h \in Caller : h # g => conn'[h] = conn[h]
    BY <1>r, <2>1, <2>3 DEF None
  <2>5. count' \in Int /\ count' <= MaxSize
    BY <1>b4, <1>r, <2>1
  <2>6. count' - Len(free') - Own("giveup") = count - Len(free) - Own(pc[g])
    BY <1>r, <2>1, <2>2, <2>3
  <2>7. "giveup" \in CallPC
    BY DEF CallPC
  <2> QED BY <1>0, <1>u, <2>1, <2>3, <2>4, <2>5, <2>6, <2>7, CallerStep
<1> QED BY <1>b1, <1>b2, <1>b3, <1>b4 DEF dial

\* redialTick preserves the invariant.
LEMMA redialTickInv ==
    ASSUME PoolInv, NEW r \in Redialer, redialTick(r)
    PROVE  PoolInv'
<1>0. TypeOK /\ redial[r] # "none" /\ closing # "closed"
  BY DEF PoolInv, Quiet, redialTick
<1>r. /\ free \in Seq(Nat \ {0}) /\ Len(free) \in Nat /\ Len(free) \in 0 .. MaxSize
      /\ count \in Nat /\ rconn \in [Redialer -> Nat]
      /\ count <= MaxSize /\ MaxSize \in Nat /\ MinSize \in Nat
      /\ redial[r] \in Redialing => Len(free) < count
  BY <1>0, Room, SizeAssumption
<1>u. UNCHANGED <<serverVars, callVars, sweepVars, closing>>
  BY DEF redialTick
<1>b1. CASE MayRestore
  <2>1. /\ RGoto(r, "dial") /\ free' = free /\ rconn' = rconn
        /\ count' = count + 1 /\ redial[r] = "tick"
    BY <1>b1 DEF redialTick, RGoto, reserve, releaseGrowthReservation
  <2>2. ROwn("dial") = 1 /\ ROwn(redial[r]) = 0
    BY <2>1 DEF ROwn, Redialing
  <2>3. /\ free' \in Seq(Nat \ {0}) /\ Len(free') = Len(free)
        /\ incarnation \in Nat \ {0}
    BY <1>0, <1>r, <2>1, Channel DEF TypeOK, PoolInv, Held, None
  <2>4. /\ rconn' \in [Redialer -> Nat] /\ \A h \in Redialer : h # r => rconn'[h] = rconn[h]
    BY <1>r, <2>1, <2>3 DEF None
  <2>5. count' \in Int /\ count' <= MaxSize
    BY <1>b1, <1>r, <2>1 DEF MayRestore
  <2>6. count' - Len(free') - ROwn("dial") = count - Len(free) - ROwn(redial[r])
    BY <1>r, <2>1, <2>2, <2>3
  <2>7. "dial" \in RedialPC
    BY DEF RedialPC
  <2> QED BY <1>0, <1>u, <2>1, <2>3, <2>4, <2>5, <2>6, <2>7, RedialerStep
<1>b2. CASE ~MayRestore
  <2>1. /\ RGoto(r, "none") /\ free' = free /\ rconn' = rconn
        /\ count' = count /\ redial[r] = "tick"
    BY <1>b2 DEF redialTick, RGoto, reserve, releaseGrowthReservation
  <2>2. ROwn("none") = 0 /\ ROwn(redial[r]) = 0
    BY <2>1 DEF ROwn, Redialing
  <2>3. /\ free' \in Seq(Nat \ {0}) /\ Len(free') = Len(free)
        /\ incarnation \in Nat \ {0}
    BY <1>0, <1>r, <2>1, Channel DEF TypeOK, PoolInv, Held, None
  <2>4. /\ rconn' \in [Redialer -> Nat] /\ \A h \in Redialer : h # r => rconn'[h] = rconn[h]
    BY <1>r, <2>1, <2>3 DEF None
  <2>5. count' \in Int /\ count' <= MaxSize
    BY <1>b2, <1>r, <2>1
  <2>6. count' - Len(free') - ROwn("none") = count - Len(free) - ROwn(redial[r])
    BY <1>r, <2>1, <2>2, <2>3
  <2>7. "none" \in RedialPC
    BY DEF RedialPC
  <2> QED BY <1>0, <1>u, <2>1, <2>3, <2>4, <2>5, <2>6, <2>7, RedialerStep
<1> QED BY <1>b1, <1>b2 DEF redialTick

\* redialDial preserves the invariant.
LEMMA redialDialInv ==
    ASSUME PoolInv, NEW r \in Redialer, redialDial(r)
    PROVE  PoolInv'
<1>0. TypeOK /\ redial[r] # "none" /\ closing # "closed"
  BY DEF PoolInv, Quiet, redialDial
<1>r. /\ free \in Seq(Nat \ {0}) /\ Len(free) \in Nat /\ Len(free) \in 0 .. MaxSize
      /\ count \in Nat /\ rconn \in [Redialer -> Nat]
      /\ count <= MaxSize /\ MaxSize \in Nat /\ MinSize \in Nat
      /\ redial[r] \in Redialing => Len(free) < count
  BY <1>0, Room, SizeAssumption
<1>u. UNCHANGED <<serverVars, callVars, sweepVars, closing>>
  BY DEF redialDial
<1>b1. CASE up
  <2>1. /\ RGoto(r, "send") /\ free' = free /\ rconn' = [rconn EXCEPT ![r] = incarnation]
        /\ count' = count /\ redial[r] = "dial"
    BY <1>b1 DEF redialDial, RGoto, reserve, releaseGrowthReservation
  <2>2. ROwn("send") = 1 /\ ROwn(redial[r]) = 1
    BY <2>1 DEF ROwn, Redialing
  <2>3. /\ free' \in Seq(Nat \ {0}) /\ Len(free') = Len(free)
        /\ incarnation \in Nat \ {0}
    BY <1>0, <1>r, <2>1, Channel DEF TypeOK, PoolInv, Held, None
  <2>4. /\ rconn' \in [Redialer -> Nat] /\ \A h \in Redialer : h # r => rconn'[h] = rconn[h]
        /\ rconn'[r] # None
    BY <1>r, <2>1, <2>3 DEF None
  <2>5. count' \in Int /\ count' <= MaxSize
    BY <1>b1, <1>r, <2>1
  <2>6. count' - Len(free') - ROwn("send") = count - Len(free) - ROwn(redial[r])
    BY <1>r, <2>1, <2>2, <2>3
  <2>7. "send" \in RedialPC
    BY DEF RedialPC
  <2> QED BY <1>0, <1>u, <2>1, <2>3, <2>4, <2>5, <2>6, <2>7, RedialerStep
<1>b2. CASE ~up
  <2>1. /\ RGoto(r, "release") /\ free' = free /\ rconn' = rconn
        /\ count' = count /\ redial[r] = "dial"
    BY <1>b2 DEF redialDial, RGoto, reserve, releaseGrowthReservation
  <2>2. ROwn("release") = 1 /\ ROwn(redial[r]) = 1
    BY <2>1 DEF ROwn, Redialing
  <2>3. /\ free' \in Seq(Nat \ {0}) /\ Len(free') = Len(free)
        /\ incarnation \in Nat \ {0}
    BY <1>0, <1>r, <2>1, Channel DEF TypeOK, PoolInv, Held, None
  <2>4. /\ rconn' \in [Redialer -> Nat] /\ \A h \in Redialer : h # r => rconn'[h] = rconn[h]
    BY <1>r, <2>1, <2>3 DEF None
  <2>5. count' \in Int /\ count' <= MaxSize
    BY <1>b2, <1>r, <2>1
  <2>6. count' - Len(free') - ROwn("release") = count - Len(free) - ROwn(redial[r])
    BY <1>r, <2>1, <2>2, <2>3
  <2>7. "release" \in RedialPC
    BY DEF RedialPC
  <2> QED BY <1>0, <1>u, <2>1, <2>3, <2>4, <2>5, <2>6, <2>7, RedialerStep
<1> QED BY <1>b1, <1>b2 DEF redialDial

\* redialRelease preserves the invariant.
LEMMA redialReleaseInv ==
    ASSUME PoolInv, NEW r \in Redialer, redialRelease(r)
    PROVE  PoolInv'
<1>0. TypeOK /\ redial[r] # "none" /\ closing # "closed"
  BY DEF PoolInv, Quiet, redialRelease
<1>r. /\ free \in Seq(Nat \ {0}) /\ Len(free) \in Nat /\ Len(free) \in 0 .. MaxSize
      /\ count \in Nat /\ rconn \in [Redialer -> Nat]
      /\ count <= MaxSize /\ MaxSize \in Nat /\ MinSize \in Nat
      /\ redial[r] \in Redialing => Len(free) < count
  BY <1>0, Room, SizeAssumption
<1>u. UNCHANGED <<serverVars, callVars, sweepVars, closing>>
  BY DEF redialRelease
<1>b1. CASE redial[r] = "release"
  <2>1. /\ RGoto(r, "tick") /\ free' = free /\ rconn' = rconn
        /\ count' = count - 1 /\ redial[r] = "release"
    BY <1>b1 DEF redialRelease, RGoto, reserve, releaseGrowthReservation
  <2>2. ROwn("tick") = 0 /\ ROwn(redial[r]) = 1
    BY <2>1 DEF ROwn, Redialing
  <2>3. /\ free' \in Seq(Nat \ {0}) /\ Len(free') = Len(free)
        /\ incarnation \in Nat \ {0}
    BY <1>0, <1>r, <2>1, Channel DEF TypeOK, PoolInv, Held, None
  <2>4. /\ rconn' \in [Redialer -> Nat] /\ \A h \in Redialer : h # r => rconn'[h] = rconn[h]
    BY <1>r, <2>1, <2>3 DEF None
  <2>5. count' \in Int /\ count' <= MaxSize
    BY <1>b1, <1>r, <2>1
  <2>6. count' - Len(free') - ROwn("tick") = count - Len(free) - ROwn(redial[r])
    BY <1>r, <2>1, <2>2, <2>3
  <2>7. "tick" \in RedialPC
    BY DEF RedialPC
  <2> QED BY <1>0, <1>u, <2>1, <2>3, <2>4, <2>5, <2>6, <2>7, RedialerStep
<1> QED BY <1>b1 DEF redialRelease

\* redialSend preserves the invariant.
LEMMA redialSendInv ==
    ASSUME PoolInv, NEW r \in Redialer, redialSend(r)
    PROVE  PoolInv'
<1>0. TypeOK /\ redial[r] # "none" /\ closing # "closed"
  BY DEF PoolInv, Quiet, redialSend
<1>r. /\ free \in Seq(Nat \ {0}) /\ Len(free) \in Nat /\ Len(free) \in 0 .. MaxSize
      /\ count \in Nat /\ rconn \in [Redialer -> Nat]
      /\ count <= MaxSize /\ MaxSize \in Nat /\ MinSize \in Nat
      /\ redial[r] \in Redialing => Len(free) < count
  BY <1>0, Room, SizeAssumption
<1>u. UNCHANGED <<serverVars, callVars, sweepVars, closing>>
  BY DEF redialSend
<1>b1. CASE redial[r] = "send"
  <2>1. /\ RGoto(r, "none") /\ free' = Append(free, rconn[r]) /\ rconn' = [rconn EXCEPT ![r] = None]
        /\ count' = count /\ redial[r] = "send"
    BY <1>b1 DEF redialSend, RGoto, reserve, releaseGrowthReservation
  <2>2. ROwn("none") = 0 /\ ROwn(redial[r]) = 1
    BY <2>1 DEF ROwn, Redialing
  <2>3. /\ free' \in Seq(Nat \ {0}) /\ Len(free') = Len(free) + 1
        /\ incarnation \in Nat \ {0}
    BY <1>0, <1>r, <2>1, Channel DEF TypeOK, PoolInv, Held, None
  <2>4. /\ rconn' \in [Redialer -> Nat] /\ \A h \in Redialer : h # r => rconn'[h] = rconn[h]
    BY <1>r, <2>1, <2>3 DEF None
  <2>5. count' \in Int /\ count' <= MaxSize
    BY <1>b1, <1>r, <2>1
  <2>6. count' - Len(free') - ROwn("none") = count - Len(free) - ROwn(redial[r])
    BY <1>r, <2>1, <2>2, <2>3
  <2>7. "none" \in RedialPC
    BY DEF RedialPC
  <2> QED BY <1>0, <1>u, <2>1, <2>3, <2>4, <2>5, <2>6, <2>7, RedialerStep
<1> QED BY <1>b1 DEF redialSend

\* redialStop preserves the invariant.
LEMMA redialStopInv ==
    ASSUME PoolInv, NEW r \in Redialer, redialStop(r)
    PROVE  PoolInv'
<1>0. TypeOK /\ redial[r] # "none" /\ closing # "closed"
  BY DEF PoolInv, Quiet, redialStop
<1>r. /\ free \in Seq(Nat \ {0}) /\ Len(free) \in Nat /\ Len(free) \in 0 .. MaxSize
      /\ count \in Nat /\ rconn \in [Redialer -> Nat]
      /\ count <= MaxSize /\ MaxSize \in Nat /\ MinSize \in Nat
      /\ redial[r] \in Redialing => Len(free) < count
  BY <1>0, Room, SizeAssumption
<1>u. UNCHANGED <<serverVars, callVars, sweepVars, closing>>
  BY DEF redialStop
<1>b1. CASE redial[r] = "tick"
  <2>1. /\ RGoto(r, "none") /\ free' = free /\ rconn' = [rconn EXCEPT ![r] = None]
        /\ count' = count /\ redial[r] = "tick"
    BY <1>b1 DEF redialStop, RGoto, reserve, releaseGrowthReservation
  <2>2. ROwn("none") = 0 /\ ROwn(redial[r]) = 0
    BY <2>1 DEF ROwn, Redialing
  <2>3. /\ free' \in Seq(Nat \ {0}) /\ Len(free') = Len(free)
        /\ incarnation \in Nat \ {0}
    BY <1>0, <1>r, <2>1, Channel DEF TypeOK, PoolInv, Held, None
  <2>4. /\ rconn' \in [Redialer -> Nat] /\ \A h \in Redialer : h # r => rconn'[h] = rconn[h]
    BY <1>r, <2>1, <2>3 DEF None
  <2>5. count' \in Int /\ count' <= MaxSize
    BY <1>b1, <1>r, <2>1
  <2>6. count' - Len(free') - ROwn("none") = count - Len(free) - ROwn(redial[r])
    BY <1>r, <2>1, <2>2, <2>3
  <2>7. "none" \in RedialPC
    BY DEF RedialPC
  <2> QED BY <1>0, <1>u, <2>1, <2>3, <2>4, <2>5, <2>6, <2>7, RedialerStep
<1>b2. CASE redial[r] = "send"
  <2>1. /\ RGoto(r, "none") /\ free' = free /\ rconn' = [rconn EXCEPT ![r] = None]
        /\ count' = count - 1 /\ redial[r] = "send"
    BY <1>b2 DEF redialStop, RGoto, reserve, releaseGrowthReservation
  <2>2. ROwn("none") = 0 /\ ROwn(redial[r]) = 1
    BY <2>1 DEF ROwn, Redialing
  <2>3. /\ free' \in Seq(Nat \ {0}) /\ Len(free') = Len(free)
        /\ incarnation \in Nat \ {0}
    BY <1>0, <1>r, <2>1, Channel DEF TypeOK, PoolInv, Held, None
  <2>4. /\ rconn' \in [Redialer -> Nat] /\ \A h \in Redialer : h # r => rconn'[h] = rconn[h]
    BY <1>r, <2>1, <2>3 DEF None
  <2>5. count' \in Int /\ count' <= MaxSize
    BY <1>b2, <1>r, <2>1
  <2>6. count' - Len(free') - ROwn("none") = count - Len(free) - ROwn(redial[r])
    BY <1>r, <2>1, <2>2, <2>3
  <2>7. "none" \in RedialPC
    BY DEF RedialPC
  <2> QED BY <1>0, <1>u, <2>1, <2>3, <2>4, <2>5, <2>6, <2>7, RedialerStep
<1> QED BY <1>b1, <1>b2 DEF redialStop

\* evictorTick preserves the invariant.
LEMMA evictorTickInv ==
    ASSUME PoolInv, evictorTick
    PROVE  PoolInv'
<1>0. TypeOK /\ sweep # "done" /\ closing # "closed"
  BY DEF PoolInv, Quiet, evictorTick
<1>r. /\ free \in Seq(Nat \ {0}) /\ Len(free) \in Nat /\ Len(free) \in 0 .. MaxSize
      /\ count \in Nat /\ econn \in Nat /\ swept \in 0 .. MaxSize
      /\ count <= MaxSize /\ MaxSize \in Nat /\ MinSize \in Nat
      /\ SOwn(sweep) = 1 => Len(free) < count
  BY <1>0, Room, SizeAssumption DEF TypeOK
<1>u. UNCHANGED <<serverVars, callVars, redialVars, closing>>
  BY DEF evictorTick
<1>b1. CASE sweep = "idle"
  <2>1. /\ sweep' = "next" /\ free' = free /\ econn' = econn
        /\ count' = count /\ sweep = "idle" /\ swept' = Len(free)
    BY <1>b1 DEF evictorTick
  <2>2. SOwn(sweep') = 0 /\ SOwn(sweep) = 0
    BY <2>1 DEF SOwn
  <2>3. /\ free' \in Seq(Nat \ {0}) /\ Len(free') = Len(free)
        /\ econn' \in Nat
    BY <1>b1, <1>0, <1>r, <2>1, Channel DEF TypeOK, PoolInv, Held, None
  <2>4. count' \in Int /\ count' <= MaxSize /\ swept' \in 0 .. MaxSize
    BY <1>b1, <1>r, <2>1, <2>2
  <2>5. count' - Len(free') - SOwn(sweep') = count - Len(free) - SOwn(sweep)
    BY <1>r, <2>1, <2>2, <2>3
  <2>6. sweep' \in SweepPC
    BY <2>1 DEF SweepPC
  <2>7. sweep' \in {"decide", "return"} => econn' # None
    BY <2>1, <2>3 DEF None
  <2> QED BY <1>0, <1>u, <2>3, <2>4, <2>5, <2>6, <2>7, EvictorStep
<1> QED BY <1>b1 DEF evictorTick

\* evictorStop preserves the invariant.
LEMMA evictorStopInv ==
    ASSUME PoolInv, evictorStop
    PROVE  PoolInv'
<1>0. TypeOK /\ sweep # "done" /\ closing # "closed"
  BY DEF PoolInv, Quiet, evictorStop
<1>r. /\ free \in Seq(Nat \ {0}) /\ Len(free) \in Nat /\ Len(free) \in 0 .. MaxSize
      /\ count \in Nat /\ econn \in Nat /\ swept \in 0 .. MaxSize
      /\ count <= MaxSize /\ MaxSize \in Nat /\ MinSize \in Nat
      /\ SOwn(sweep) = 1 => Len(free) < count
  BY <1>0, Room, SizeAssumption DEF TypeOK
<1>u. UNCHANGED <<serverVars, callVars, redialVars, closing>>
  BY DEF evictorStop
<1>b1. CASE sweep = "idle"
  <2>1. /\ sweep' = "done" /\ free' = free /\ econn' = econn
        /\ count' = count /\ sweep = "idle" /\ swept' = swept
    BY <1>b1 DEF evictorStop
  <2>2. SOwn(sweep') = 0 /\ SOwn(sweep) = 0
    BY <2>1 DEF SOwn
  <2>3. /\ free' \in Seq(Nat \ {0}) /\ Len(free') = Len(free)
        /\ econn' \in Nat
    BY <1>b1, <1>0, <1>r, <2>1, Channel DEF TypeOK, PoolInv, Held, None
  <2>4. count' \in Int /\ count' <= MaxSize /\ swept' \in 0 .. MaxSize
    BY <1>b1, <1>r, <2>1, <2>2
  <2>5. count' - Len(free') - SOwn(sweep') = count - Len(free) - SOwn(sweep)
    BY <1>r, <2>1, <2>2, <2>3
  <2>6. sweep' \in SweepPC
    BY <2>1 DEF SweepPC
  <2>7. sweep' \in {"decide", "return"} => econn' # None
    BY <2>1, <2>3 DEF None
  <2> QED BY <1>0, <1>u, <2>3, <2>4, <2>5, <2>6, <2>7, EvictorStep
<1> QED BY <1>b1 DEF evictorStop

\* evictorReceive preserves the invariant.
LEMMA evictorReceiveInv ==
    ASSUME PoolInv, evictorReceive
    PROVE  PoolInv'
<1>0. TypeOK /\ sweep # "done" /\ closing # "closed"
  BY DEF PoolInv, Quiet, evictorReceive
<1>r. /\ free \in Seq(Nat \ {0}) /\ Len(free) \in Nat /\ Len(free) \in 0 .. MaxSize
      /\ count \in Nat /\ econn \in Nat /\ swept \in 0 .. MaxSize
      /\ count <= MaxSize /\ MaxSize \in Nat /\ MinSize \in Nat
      /\ SOwn(sweep) = 1 => Len(free) < count
  BY <1>0, Room, SizeAssumption DEF TypeOK
<1>u. UNCHANGED <<serverVars, callVars, redialVars, closing>>
  BY DEF evictorReceive
<1>b1. CASE swept = 0 \/ free = <<>>
  <2>1. /\ sweep' = "idle" /\ free' = free /\ econn' = econn
        /\ count' = count /\ sweep = "next" /\ swept' = swept
    BY <1>b1 DEF evictorReceive
  <2>2. SOwn(sweep') = 0 /\ SOwn(sweep) = 0
    BY <2>1 DEF SOwn
  <2>3. /\ free' \in Seq(Nat \ {0}) /\ Len(free') = Len(free)
        /\ econn' \in Nat
    BY <1>b1, <1>0, <1>r, <2>1, Channel DEF TypeOK, PoolInv, Held, None
  <2>4. count' \in Int /\ count' <= MaxSize /\ swept' \in 0 .. MaxSize
    BY <1>b1, <1>r, <2>1, <2>2
  <2>5. count' - Len(free') - SOwn(sweep') = count - Len(free) - SOwn(sweep)
    BY <1>r, <2>1, <2>2, <2>3
  <2>6. sweep' \in SweepPC
    BY <2>1 DEF SweepPC
  <2>7. sweep' \in {"decide", "return"} => econn' # None
    BY <2>1, <2>3 DEF None
  <2> QED BY <1>0, <1>u, <2>3, <2>4, <2>5, <2>6, <2>7, EvictorStep
<1>b2. CASE swept # 0 /\ free # <<>>
  <2>1. /\ sweep' = "decide" /\ free' = Tail(free) /\ econn' = Head(free)
        /\ count' = count /\ sweep = "next" /\ swept' = swept - 1
    BY <1>b2 DEF evictorReceive
  <2>2. SOwn(sweep') = 1 /\ SOwn(sweep) = 0
    BY <2>1 DEF SOwn
  <2>3. /\ free' \in Seq(Nat \ {0}) /\ Len(free') = Len(free) - 1
        /\ econn' \in Nat \ {0}
    BY <1>b2, <1>0, <1>r, <2>1, Channel DEF TypeOK, PoolInv, Held, None
  <2>4. count' \in Int /\ count' <= MaxSize /\ swept' \in 0 .. MaxSize
    BY <1>b2, <1>r, <2>1, <2>2
  <2>5. count' - Len(free') - SOwn(sweep') = count - Len(free) - SOwn(sweep)
    BY <1>r, <2>1, <2>2, <2>3
  <2>6. sweep' \in SweepPC
    BY <2>1 DEF SweepPC
  <2>7. sweep' \in {"decide", "return"} => econn' # None
    BY <2>1, <2>3 DEF None
  <2> QED BY <1>0, <1>u, <2>3, <2>4, <2>5, <2>6, <2>7, EvictorStep
<1> QED BY <1>b1, <1>b2 DEF evictorReceive

\* evictorDecide preserves the invariant.
LEMMA evictorDecideInv ==
    ASSUME PoolInv, evictorDecide
    PROVE  PoolInv'
<1>0. TypeOK /\ sweep # "done" /\ closing # "closed"
  BY DEF PoolInv, Quiet, evictorDecide
<1>r. /\ free \in Seq(Nat \ {0}) /\ Len(free) \in Nat /\ Len(free) \in 0 .. MaxSize
      /\ count \in Nat /\ econn \in Nat /\ swept \in 0 .. MaxSize
      /\ count <= MaxSize /\ MaxSize \in Nat /\ MinSize \in Nat
      /\ SOwn(sweep) = 1 => Len(free) < count
  BY <1>0, Room, SizeAssumption DEF TypeOK
<1>u. UNCHANGED <<serverVars, callVars, redialVars, closing>>
  BY DEF evictorDecide
<1>b1. CASE count' = count - 1 /\ econn' = None /\ sweep' = "next"
  <2>1. /\ sweep' = "next" /\ free' = free /\ econn' = None
        /\ count' = count - 1 /\ sweep = "decide" /\ swept' = swept
    BY <1>b1 DEF evictorDecide
  <2>2. SOwn(sweep') = 0 /\ SOwn(sweep) = 1
    BY <2>1 DEF SOwn
  <2>3. /\ free' \in Seq(Nat \ {0}) /\ Len(free') = Len(free)
        /\ econn' \in Nat
    BY <1>b1, <1>0, <1>r, <2>1, Channel DEF TypeOK, PoolInv, Held, None
  <2>4. count' \in Int /\ count' <= MaxSize /\ swept' \in 0 .. MaxSize
    BY <1>b1, <1>r, <2>1, <2>2
  <2>5. count' - Len(free') - SOwn(sweep') = count - Len(free) - SOwn(sweep)
    BY <1>r, <2>1, <2>2, <2>3
  <2>6. sweep' \in SweepPC
    BY <2>1 DEF SweepPC
  <2>7. sweep' \in {"decide", "return"} => econn' # None
    BY <2>1, <2>3 DEF None
  <2> QED BY <1>0, <1>u, <2>3, <2>4, <2>5, <2>6, <2>7, EvictorStep
<1>b2. CASE count' = count /\ econn' = econn /\ sweep' = "return"
  <2>1. /\ sweep' = "return" /\ free' = free /\ econn' = econn
        /\ count' = count /\ sweep = "decide" /\ swept' = swept
    BY <1>b2 DEF evictorDecide
  <2>2. SOwn(sweep') = 1 /\ SOwn(sweep) = 1
    BY <2>1 DEF SOwn
  <2>3. /\ free' \in Seq(Nat \ {0}) /\ Len(free') = Len(free)
        /\ econn' \in Nat \ {0}
    BY <1>b2, <1>0, <1>r, <2>1, Channel DEF TypeOK, PoolInv, Held, None
  <2>4. count' \in Int /\ count' <= MaxSize /\ swept' \in 0 .. MaxSize
    BY <1>b2, <1>r, <2>1, <2>2
  <2>5. count' - Len(free') - SOwn(sweep') = count - Len(free) - SOwn(sweep)
    BY <1>r, <2>1, <2>2, <2>3
  <2>6. sweep' \in SweepPC
    BY <2>1 DEF SweepPC
  <2>7. sweep' \in {"decide", "return"} => econn' # None
    BY <2>1, <2>3 DEF None
  <2> QED BY <1>0, <1>u, <2>3, <2>4, <2>5, <2>6, <2>7, EvictorStep
<1> QED BY <1>b1, <1>b2 DEF evictorDecide

\* evictorReturn preserves the invariant.
LEMMA evictorReturnInv ==
    ASSUME PoolInv, evictorReturn
    PROVE  PoolInv'
<1>0. TypeOK /\ sweep # "done" /\ closing # "closed"
  BY DEF PoolInv, Quiet, evictorReturn
<1>r. /\ free \in Seq(Nat \ {0}) /\ Len(free) \in Nat /\ Len(free) \in 0 .. MaxSize
      /\ count \in Nat /\ econn \in Nat /\ swept \in 0 .. MaxSize
      /\ count <= MaxSize /\ MaxSize \in Nat /\ MinSize \in Nat
      /\ SOwn(sweep) = 1 => Len(free) < count
  BY <1>0, Room, SizeAssumption DEF TypeOK
<1>u. UNCHANGED <<serverVars, callVars, redialVars, closing>>
  BY DEF evictorReturn
<1>b1. CASE sweep = "return"
  <2>1. /\ sweep' = "next" /\ free' = Append(free, econn) /\ econn' = None
        /\ count' = count /\ sweep = "return" /\ swept' = swept
    BY <1>b1 DEF evictorReturn
  <2>2. SOwn(sweep') = 0 /\ SOwn(sweep) = 1
    BY <2>1 DEF SOwn
  <2>3. /\ free' \in Seq(Nat \ {0}) /\ Len(free') = Len(free) + 1
        /\ econn' \in Nat
    BY <1>b1, <1>0, <1>r, <2>1, Channel DEF TypeOK, PoolInv, Held, None
  <2>4. count' \in Int /\ count' <= MaxSize /\ swept' \in 0 .. MaxSize
    BY <1>b1, <1>r, <2>1, <2>2
  <2>5. count' - Len(free') - SOwn(sweep') = count - Len(free) - SOwn(sweep)
    BY <1>r, <2>1, <2>2, <2>3
  <2>6. sweep' \in SweepPC
    BY <2>1 DEF SweepPC
  <2>7. sweep' \in {"decide", "return"} => econn' # None
    BY <2>1, <2>3 DEF None
  <2> QED BY <1>0, <1>u, <2>3, <2>4, <2>5, <2>6, <2>7, EvictorStep
<1> QED BY <1>b1 DEF evictorReturn

\* giveup, which moves a caller and starts a redialer, preserves the invariant.
LEMMA giveupInv ==
    ASSUME PoolInv, NEW g \in Caller, giveup(g)
    PROVE  PoolInv'
<1>0. TypeOK /\ closing = "open" /\ closing' = closing
  BY InCall DEF PoolInv, giveup
<1>1. /\ Goto(g, "idle") /\ pc[g] = "giveup" /\ count' = count - 1
      /\ free' = free /\ conn' = conn /\ rconn' = rconn
      /\ sweep' = sweep /\ swept' = swept /\ econn' = econn
      /\ up' = up /\ incarnation' = incarnation /\ crashes' = crashes
  BY DEF giveup, releaseGrowthReservation, sweepVars, serverVars
<1>2. PICK r \in Redialer : redial[r] = "none" /\ RGoto(r, "tick")
  BY DEF giveup, RGoto
<1>3. "idle" \in CallPC /\ "tick" \in RedialPC
  BY DEF CallPC, RedialPC
<1>4. /\ Cardinality(CallOwners') = Cardinality(CallOwners) - 1
      /\ pc' \in [Caller -> CallPC] /\ pc'[g] = "idle"
      /\ \A h \in Caller : h # g => pc'[h] = pc[h]
  <2>1. pc[g] \in Owning /\ "idle" \notin Owning
    BY <1>1 DEF Owning
  <2> QED BY <1>0, <1>1, <1>3, <2>1, CallMoves
<1>5. /\ Cardinality(RedialOwners') = Cardinality(RedialOwners)
      /\ redial' \in [Redialer -> RedialPC] /\ redial'[r] = "tick"
      /\ \A h \in Redialer : h # r => redial'[h] = redial[h]
  <2>1. redial[r] \notin Redialing /\ "tick" \notin Redialing
    BY <1>2 DEF Redialing
  <2> QED BY <1>0, <1>2, <1>3, <2>1, RedialMoves
<1>6. count = Len(free) + Cardinality(CallOwners) + Cardinality(RedialOwners) + SweepOwners
      /\ count <= MaxSize
  BY <1>0 DEF PoolInv, SlotsCounted
<1>7. SweepOwners' = SweepOwners
  BY <1>1 DEF SweepOwners
<1>8. /\ Len(free) \in Nat /\ count \in Nat /\ Cardinality(CallOwners) \in Nat
      /\ Cardinality(RedialOwners) \in Nat /\ SweepOwners \in {0, 1} /\ MaxSize \in Nat
  BY <1>0, Counts, SizeAssumption DEF TypeOK
<1>9. pc[g] \in Owning => Cardinality(CallOwners) >= 1
  BY <1>0, OwnerCounted
<1>10. count - 1 = Len(free) + (Cardinality(CallOwners) - 1) + Cardinality(RedialOwners)
                             + SweepOwners
       /\ count - 1 <= MaxSize
  BY <1>6, <1>8
<1>11. count - 1 \in Nat
  <2>1. Cardinality(CallOwners) >= 1
    BY <1>1, <1>9 DEF Owning
  <2>2. count >= 1
    BY <1>6, <1>8, <2>1
  <2> QED BY <1>8, <2>2
<1>12. SlotsCounted'
  BY <1>1, <1>4, <1>5, <1>7, <1>10 DEF SlotsCounted
<1>13. TypeOK'
  BY <1>0, <1>1, <1>4, <1>5, <1>11 DEF TypeOK
<1>14. Held'
  BY <1>1, <1>4, <1>5 DEF PoolInv, Held
<1>15. Quiet'
  BY <1>0 DEF Quiet
<1> QED BY <1>12, <1>13, <1>14, <1>15 DEF PoolInv

\* Close and the server's crashes and recoveries leave every slot where it is.
LEMMA OutsideInv ==
    ASSUME PoolInv, Close \/ Crash \/ Recover
    PROVE  PoolInv'
<1>0. TypeOK
  BY DEF PoolInv
<1>1. UNCHANGED <<free, count, callVars, redialVars, sweepVars>>
  BY DEF Close, Crash, Recover
<1>2. /\ CallOwners' = CallOwners /\ RedialOwners' = RedialOwners /\ SweepOwners' = SweepOwners
  BY <1>1 DEF callVars, redialVars, sweepVars, CallOwners, RedialOwners, SweepOwners
<1>3. closing' = closing \/ (closing = "open" /\ closing' = "stopping"
                              /\ \A g \in Caller : pc[g] = "idle")
  BY DEF Close, Crash, Recover
<1>4. /\ up' \in BOOLEAN /\ incarnation' \in Nat \ {0} /\ crashes' \in 0 .. MaxCrashes
  <2>1. CASE Close
    BY <1>0, <2>1 DEF TypeOK, Close, serverVars
  <2>2. CASE Crash
    <3>1. crashes \in 0 .. MaxCrashes /\ crashes < MaxCrashes /\ crashes' = crashes + 1
          /\ MaxCrashes \in Nat /\ incarnation \in Nat \ {0}
      BY <1>0, <2>2, GoroutineAssumption DEF TypeOK, Crash
    <3>2. crashes' \in 0 .. MaxCrashes
      BY <3>1
    <3> QED BY <2>2, <3>1, <3>2 DEF Crash
  <2>3. CASE Recover
    BY <1>0, <2>3 DEF TypeOK, Recover
  <2> QED BY <2>1, <2>2, <2>3
<1>5. TypeOK'
  BY <1>0, <1>1, <1>3, <1>4 DEF TypeOK, callVars, redialVars, sweepVars
<1>6. SlotsCounted'
  BY <1>1, <1>2, <1>3 DEF PoolInv, SlotsCounted
<1>7. Held'
  BY <1>1 DEF PoolInv, Held, callVars, redialVars, sweepVars
<1>8. Quiet'
  BY <1>1, <1>3 DEF PoolInv, Quiet, callVars, redialVars, sweepVars
<1> QED BY <1>5, <1>6, <1>7, <1>8 DEF PoolInv

\* Draining the list, once everybody is gone, preserves the invariant.
LEMMA closeFreeInv ==
    ASSUME PoolInv, closeFree
    PROVE  PoolInv'
<1>1. /\ closing = "stopping" /\ closing' = "closed" /\ free' = <<>>
      /\ sweep = "done" /\ \A r \in Redialer : redial[r] = "none"
      /\ UNCHANGED <<serverVars, count, callVars, redialVars, sweepVars>>
  BY DEF closeFree
<1>2. TypeOK'
  BY <1>1 DEF PoolInv, TypeOK, serverVars, callVars, redialVars, sweepVars
<1>3. SlotsCounted'
  BY <1>1 DEF SlotsCounted
<1>4. Held'
  BY <1>1 DEF PoolInv, Held, callVars, redialVars, sweepVars
<1>5. Quiet'
  BY <1>1 DEF PoolInv, Quiet, callVars, redialVars, sweepVars
<1> QED BY <1>2, <1>3, <1>4, <1>5 DEF PoolInv

\* NewPool establishes the invariant.
LEMMA InitInv == Init => PoolInv
<1> SUFFICES ASSUME Init PROVE PoolInv
  OBVIOUS
<1>1. free \in Seq(Nat \ {0}) /\ Len(free) = MinSize
  <2>1. free = [i \in 1 .. MinSize |-> 1] /\ MinSize \in Nat
    BY SizeAssumption DEF Init
  <2> QED BY <2>1
<1>2. TypeOK
  BY <1>1, SizeAssumption, GoroutineAssumption
     DEF Init, TypeOK, CallPC, RedialPC, SweepPC, None
<1>3. CallOwners = {} /\ RedialOwners = {} /\ SweepOwners = 0
  BY DEF Init, CallOwners, RedialOwners, SweepOwners
<1>4. SlotsCounted
  BY <1>1, <1>3, FS_EmptySet, SizeAssumption DEF Init, SlotsCounted
<1>5. Held /\ Quiet
  BY DEF Init, Held, Quiet
<1> QED BY <1>2, <1>4, <1>5 DEF PoolInv

\* Every step preserves the invariant.
LEMMA NextInv == PoolInv /\ [Next]_vars => PoolInv'
<1> SUFFICES ASSUME PoolInv, [Next]_vars PROVE PoolInv'
  OBVIOUS
<1>1. CASE UNCHANGED vars
  BY <1>1 DEF vars, serverVars, callVars, redialVars, sweepVars, PoolInv, TypeOK,
     SlotsCounted, Held, Quiet, CallOwners, RedialOwners, SweepOwners
<1>2. ASSUME NEW g \in Caller, checkout(g) \/ CallStep(g) PROVE PoolInv'
  BY <1>2, checkoutInv, tryReserveGrowthInv, dialInv, releaseInv, receiveInv,
     exhaustedInv, CallInv, checkinInv, evictInv, tryReserveRestoreInv, giveupInv
     DEF CallStep
<1>3. ASSUME NEW r \in Redialer, RedialStep(r) PROVE PoolInv'
  BY <1>3, redialTickInv, redialDialInv, redialReleaseInv, redialSendInv, redialStopInv
     DEF RedialStep
<1>4. CASE SweepStep
  BY <1>4, evictorTickInv, evictorReceiveInv, evictorDecideInv, evictorReturnInv,
     evictorStopInv DEF SweepStep
<1>5. CASE Close \/ Crash \/ Recover
  BY <1>5, OutsideInv
<1>6. CASE closeFree
  BY <1>6, closeFreeInv
<1> QED BY <1>1, <1>2, <1>3, <1>4, <1>5, <1>6 DEF Next

\* The invariant leaves room for whoever is about to send.
LEMMA InvSends == PoolInv => SendsNeverBlock
<1> SUFFICES ASSUME PoolInv,
                    \/ \E g \in Caller : pc[g] = "checkin"
                    \/ \E r \in Redialer : redial[r] = "send"
                    \/ sweep = "return"
             PROVE  closing # "closed" /\ Len(free) < MaxSize
  BY DEF SendsNeverBlock
<1>1. closing # "closed"
  BY DEF PoolInv, Quiet
<1>2. /\ Len(free) \in 0 .. MaxSize /\ count \in Nat /\ count <= MaxSize
      /\ \A g \in Caller : pc[g] \in Owning => Len(free) < count
      /\ \A r \in Redialer : redial[r] \in Redialing => Len(free) < count
      /\ SOwn(sweep) = 1 => Len(free) < count
  BY <1>1, Room
<1>3. Len(free) < count
  BY <1>2 DEF Owning, Redialing, SOwn
<1> QED BY <1>1, <1>2, <1>3, SizeAssumption

\* For any sizes and any number of callers and redialers every field of the
\* pool keeps its type; in particular count never becomes negative.
THEOREM PoolTypes == Spec => []TypeOK
<1>1. PoolInv => TypeOK
  BY DEF PoolInv
<1> QED BY <1>1, InitInv, NextInv, PTL DEF Spec

\* For any sizes and any number of callers and redialers, count is exactly the
\* connections and reservations there are and never exceeds MaxSize.
THEOREM CountExact == Spec => []SlotsCounted
<1>1. PoolInv => SlotsCounted
  BY DEF PoolInv
<1> QED BY <1>1, InitInv, NextInv, PTL DEF Spec

\* For any sizes and any number of callers and redialers, no send on the free
\* list (checkin, redialUntilMinRestored, evictIdleConnections) ever blocks or
\* meets a closed channel.
THEOREM NoBlockedSend == Spec => []SendsNeverBlock
BY InitInv, NextInv, InvSends, PTL DEF Spec
=============================================================================
