-------------------------------- MODULE Pool --------------------------------
(***************************************************************************)
(* Stage 3: the elastic connection pool to one server address              *)
(* (03-connection-pooling/pooled_client.go).                               *)
(*                                                                         *)
(* A step is one channel operation, one critical section of p.mu, or one   *)
(* dial or RPC.  A connection is the incarnation of the server process it  *)
(* was dialled to: it works while that process lives.                      *)
(***************************************************************************)
EXTENDS Integers, Sequences, FiniteSets

CONSTANTS
    Caller,      \* goroutines that use Pool.Call
    Redialer,    \* bound: redialUntilMinRestored goroutines alive at once
    MinSize, MaxSize,
    MaxCrashes   \* bound: crashes of the server

ASSUME SizeAssumption ==
    MinSize \in Nat /\ MaxSize \in Nat /\ MaxSize >= 1 /\ MinSize <= MaxSize
ASSUME GoroutineAssumption ==
    IsFiniteSet(Caller) /\ IsFiniteSet(Redialer) /\ MaxCrashes \in Nat

VARIABLES
    up, incarnation, crashes,   \* the server process behind the address
    free,        \* the buffered channel of idle connections
    count,       \* live connections and reserved slots
    pc, conn,    \* where each caller stands in Call, and its connection
    redial,      \* where each redialer stands
    rconn,       \* the connection a redialer has just dialled
    sweep,       \* where the idle evictor stands
    swept,       \* how many more connections this sweep looks at
    econn,       \* the connection the evictor has in its hand
    closing      \* "open", "stopping" (stopCh closed) or "closed"

serverVars == <<up, incarnation, crashes>>
callVars   == <<pc, conn>>
redialVars == <<redial, rconn>>
sweepVars  == <<sweep, swept, econn>>
vars == <<serverVars, free, count, callVars, redialVars, sweepVars, closing>>

None == 0                          \* no connection
Works(c) == up /\ c = incarnation  \* an RPC on c reaches a living process

\* NewPool has dialled MinSize connections and started the evictor.
Init ==
    /\ up = TRUE /\ incarnation = 1 /\ crashes = 0
    /\ free = [i \in 1 .. MinSize |-> 1]
    /\ count = MinSize
    /\ pc = [g \in Caller |-> "idle"]
    /\ conn = [g \in Caller |-> None]
    /\ redial = [r \in Redialer |-> "none"]
    /\ rconn = [r \in Redialer |-> None]
    /\ sweep = "idle" /\ swept = 0 /\ econn = None
    /\ closing = "open"

(***************************************************************************)
(* The server (external: the process of 02-kv-store behind the address).   *)
(***************************************************************************)
Crash ==
    /\ up /\ crashes < MaxCrashes
    /\ up' = FALSE /\ crashes' = crashes + 1
    /\ UNCHANGED <<incarnation, free, count, callVars, redialVars, sweepVars, closing>>

Recover ==
    /\ ~up
    /\ up' = TRUE /\ incarnation' = incarnation + 1
    /\ UNCHANGED <<crashes, free, count, callVars, redialVars, sweepVars, closing>>

(***************************************************************************)
(* The critical sections of p.mu, for a caller or a redialer.              *)
(***************************************************************************)
\* Mutant: one slot too many.
MayGrow_offByOne == count <= MaxSize
MayGrow == count < MaxSize
MayRestore == count < MinSize /\ count < MaxSize

\* Mutant: the slot is not counted until the connection exists.
reserve_late == UNCHANGED count
reserve == count' = count + 1
releaseGrowthReservation == count' = count - 1

Goto(g, label) == pc' = [pc EXCEPT ![g] = label]

(***************************************************************************)
(* Call: checkout, the RPC, then checkin or evictAndReplace.               *)
(***************************************************************************)

\* checkout's first select: an idle connection if there is one right now.
checkout(g) ==
    /\ pc[g] = "idle" /\ closing = "open"
    /\ IF free # <<>>
       THEN /\ conn' = [conn EXCEPT ![g] = Head(free)]
            /\ free' = Tail(free)
            /\ Goto(g, "calling")
       ELSE Goto(g, "grow") /\ UNCHANGED <<conn, free>>
    /\ UNCHANGED <<serverVars, count, redialVars, sweepVars, closing>>

tryReserveGrowth(g) ==
    /\ pc[g] = "grow"
    /\ IF MayGrow THEN reserve /\ Goto(g, "dial")
                  ELSE Goto(g, "wait") /\ UNCHANGED count
    /\ UNCHANGED <<serverVars, free, conn, redialVars, sweepVars, closing>>

\* The dial of a reserved slot, to grow ("dial") or to restore ("redial").
dial(g) ==
    /\ pc[g] \in {"dial", "redial"}
    /\ IF up
       THEN /\ conn' = [conn EXCEPT ![g] = incarnation]
            /\ Goto(g, IF pc[g] = "dial" THEN "calling" ELSE "checkin")
       ELSE /\ Goto(g, IF pc[g] = "dial" THEN "release" ELSE "giveup")
            /\ UNCHANGED conn
    /\ UNCHANGED <<serverVars, free, count, redialVars, sweepVars, closing>>

\* Growth failed: give the slot back and wait like everybody else.
release(g) ==
    /\ pc[g] = "release"
    /\ releaseGrowthReservation
    /\ Goto(g, "wait")
    /\ UNCHANGED <<serverVars, free, conn, redialVars, sweepVars, closing>>

\* checkout's second select: a connection comes free ...
receive(g) ==
    /\ pc[g] = "wait" /\ free # <<>>
    /\ conn' = [conn EXCEPT ![g] = Head(free)]
    /\ free' = Tail(free)
    /\ Goto(g, "calling")
    /\ UNCHANGED <<serverVars, count, redialVars, sweepVars, closing>>

\* Mutant: an unbounded wait.
exhausted_never(g) ==
    /\ pc[g] = "wait" /\ FALSE
    /\ UNCHANGED vars

\* ... or CheckoutTimeout passes first: ErrPoolExhausted.
exhausted(g) ==
    /\ pc[g] = "wait"
    /\ Goto(g, "idle")
    /\ UNCHANGED <<serverVars, free, count, conn, redialVars, sweepVars, closing>>

\* The RPC returns; a failed connection is closed.
Call(g) ==
    /\ pc[g] = "calling"
    /\ IF Works(conn[g])
       THEN Goto(g, "checkin") /\ UNCHANGED conn
       ELSE Goto(g, "evict") /\ conn' = [conn EXCEPT ![g] = None]
    /\ UNCHANGED <<serverVars, free, count, redialVars, sweepVars, closing>>

\* A send on the channel, which blocks while the buffer is full.
checkin(g) ==
    /\ pc[g] = "checkin"
    /\ Len(free) < MaxSize
    /\ free' = Append(free, conn[g])
    /\ conn' = [conn EXCEPT ![g] = None]
    /\ Goto(g, "idle")
    /\ UNCHANGED <<serverVars, count, redialVars, sweepVars, closing>>

\* evictAndReplace, first critical section.
evict(g) ==
    /\ pc[g] = "evict"
    /\ count' = count - 1
    /\ Goto(g, "restore")
    /\ UNCHANGED <<serverVars, free, conn, redialVars, sweepVars, closing>>

\* tryReserveRestore, called by evictAndReplace.
tryReserveRestore(g) ==
    /\ pc[g] = "restore"
    /\ IF MayRestore THEN reserve /\ Goto(g, "redial")
                     ELSE Goto(g, "idle") /\ UNCHANGED count
    /\ UNCHANGED <<serverVars, free, conn, redialVars, sweepVars, closing>>

\* The immediate redial failed: a background goroutine takes over.
giveup(g) ==
    /\ pc[g] = "giveup"
    /\ \E r \in Redialer :
          /\ redial[r] = "none"
          /\ redial' = [redial EXCEPT ![r] = "tick"]
    /\ releaseGrowthReservation
    /\ Goto(g, "idle")
    /\ UNCHANGED <<serverVars, free, conn, rconn, sweepVars, closing>>

(***************************************************************************)
(* redialUntilMinRestored.                                                 *)
(***************************************************************************)
redialTick(r) ==
    /\ redial[r] = "tick"
    /\ IF MayRestore
       THEN reserve /\ redial' = [redial EXCEPT ![r] = "dial"]
       ELSE redial' = [redial EXCEPT ![r] = "none"] /\ UNCHANGED count
    /\ UNCHANGED <<serverVars, free, callVars, rconn, sweepVars, closing>>

redialDial(r) ==
    /\ redial[r] = "dial"
    /\ IF up
       THEN /\ redial' = [redial EXCEPT ![r] = "send"]
            /\ rconn' = [rconn EXCEPT ![r] = incarnation]
       ELSE /\ redial' = [redial EXCEPT ![r] = "release"]
            /\ UNCHANGED rconn
    /\ UNCHANGED <<serverVars, free, count, callVars, sweepVars, closing>>

redialRelease(r) ==
    /\ redial[r] = "release"
    /\ releaseGrowthReservation
    /\ redial' = [redial EXCEPT ![r] = "tick"]
    /\ UNCHANGED <<serverVars, free, callVars, rconn, sweepVars, closing>>

redialSend(r) ==
    /\ redial[r] = "send"
    /\ Len(free) < MaxSize
    /\ free' = Append(free, rconn[r])
    /\ rconn' = [rconn EXCEPT ![r] = None]
    /\ redial' = [redial EXCEPT ![r] = "none"]
    /\ UNCHANGED <<serverVars, count, callVars, sweepVars, closing>>

\* Mutant: the goroutine does not listen to stopCh.
redialStop_deaf(r) ==
    /\ redial[r] = "tick" /\ FALSE
    /\ UNCHANGED vars

\* stopCh is closed: between two ticks the goroutine ends; with a fresh
\* connection in its hand it closes it and gives the slot back.
redialStop(r) ==
    /\ redial[r] \in {"tick", "send"} /\ closing # "open"
    /\ IF redial[r] = "send" THEN releaseGrowthReservation ELSE UNCHANGED count
    /\ rconn' = [rconn EXCEPT ![r] = None]
    /\ redial' = [redial EXCEPT ![r] = "none"]
    /\ UNCHANGED <<serverVars, free, callVars, sweepVars, closing>>

(***************************************************************************)
(* The idle evictor.                                                       *)
(***************************************************************************)
evictorTick ==
    /\ sweep = "idle"
    /\ sweep' = "next" /\ swept' = Len(free)
    /\ UNCHANGED <<serverVars, free, count, callVars, redialVars, econn, closing>>

evictorStop ==
    /\ sweep = "idle" /\ closing # "open"
    /\ sweep' = "done"
    /\ UNCHANGED <<serverVars, free, count, callVars, redialVars, swept, econn, closing>>

\* The next connection of the sweep, unless it is over or somebody drained
\* the channel meanwhile.
evictorReceive ==
    /\ sweep = "next"
    /\ IF swept = 0 \/ free = <<>>
       THEN sweep' = "idle" /\ UNCHANGED <<free, swept, econn>>
       ELSE /\ econn' = Head(free) /\ free' = Tail(free)
            /\ swept' = swept - 1
            /\ sweep' = "decide"
    /\ UNCHANGED <<serverVars, count, callVars, redialVars, closing>>

\* Above the minimum, and not used since IdleTimeout (old).
SurplusIdle(old) == count > MinSize /\ old

evictorDecide ==
    /\ sweep = "decide"
    /\ \E old \in BOOLEAN :
          IF SurplusIdle(old)
          THEN count' = count - 1 /\ econn' = None /\ sweep' = "next"
          ELSE sweep' = "return" /\ UNCHANGED <<count, econn>>
    /\ UNCHANGED <<serverVars, free, callVars, redialVars, swept, closing>>

evictorReturn ==
    /\ sweep = "return"
    /\ Len(free) < MaxSize
    /\ free' = Append(free, econn)
    /\ econn' = None /\ sweep' = "next"
    /\ UNCHANGED <<serverVars, count, callVars, redialVars, swept, closing>>

(***************************************************************************)
(* Close, whose caller promises that no Call is under way.                 *)
(***************************************************************************)
Close ==
    /\ closing = "open"
    /\ \A g \in Caller : pc[g] = "idle"
    /\ closing' = "stopping"
    /\ UNCHANGED <<serverVars, free, count, callVars, redialVars, sweepVars>>

\* wg.Wait has returned: the channel is closed and drained.
closeFree ==
    /\ closing = "stopping"
    /\ sweep = "done" /\ \A r \in Redialer : redial[r] = "none"
    /\ closing' = "closed"
    /\ free' = <<>>
    /\ UNCHANGED <<serverVars, count, callVars, redialVars, sweepVars>>

CallStep(g) ==
    \/ tryReserveGrowth(g) \/ dial(g) \/ release(g) \/ receive(g) \/ exhausted(g)
    \/ Call(g) \/ checkin(g) \/ evict(g) \/ tryReserveRestore(g) \/ giveup(g)
RedialStep(r) ==
    \/ redialTick(r) \/ redialDial(r) \/ redialRelease(r) \/ redialSend(r)
    \/ redialStop(r)
SweepStep ==
    evictorTick \/ evictorReceive \/ evictorDecide \/ evictorReturn \/ evictorStop

Next ==
    \/ \E g \in Caller : checkout(g) \/ CallStep(g)
    \/ \E r \in Redialer : RedialStep(r)
    \/ SweepStep
    \/ Close \/ closeFree
    \/ Crash \/ Recover

Spec == Init /\ [][Next]_vars

\* Goroutines run, RPCs and dials return, tickers tick, and Go's select does
\* not pass over a closed stopCh for ever.  Nobody has to call or to crash.
Fairness ==
    /\ \A g \in Caller : WF_vars(CallStep(g))
    /\ \A r \in Redialer : WF_vars(RedialStep(r)) /\ SF_vars(redialStop(r))
    /\ WF_vars(SweepStep) /\ SF_vars(evictorStop)
    /\ WF_vars(closeFree)

LiveSpec == Spec /\ Fairness

(***************************************************************************)
(* Properties.                                                             *)
(***************************************************************************)
CallPC   == {"idle", "grow", "dial", "release", "wait", "calling", "checkin",
             "evict", "restore", "redial", "giveup"}
RedialPC == {"none", "tick", "dial", "release", "send"}
SweepPC  == {"idle", "next", "decide", "return", "done"}

\* Every field of the pool keeps its type, the number of counted connections
\* never goes below zero, and a sweep looks at no more than MaxSize of them.
TypeOK ==
    /\ up \in BOOLEAN /\ incarnation \in Nat \ {0} /\ crashes \in 0 .. MaxCrashes
    /\ free \in Seq(Nat \ {0}) /\ count \in Nat
    /\ pc \in [Caller -> CallPC] /\ conn \in [Caller -> Nat]
    /\ redial \in [Redialer -> RedialPC] /\ rconn \in [Redialer -> Nat]
    /\ sweep \in SweepPC /\ swept \in 0 .. MaxSize /\ econn \in Nat
    /\ closing \in {"open", "stopping", "closed"}

\* Who owns a slot that is not in the free list: a connection checked out, a
\* reservation being dialled, or one about to be given back.
CallOwners   == {g \in Caller : pc[g] \in {"dial", "release", "calling", "checkin",
                                          "evict", "redial", "giveup"}}
RedialOwners == {r \in Redialer : redial[r] \in {"dial", "release", "send"}}
SweepOwners  == IF sweep \in {"decide", "return"} THEN 1 ELSE 0

\* count, which growth, restoration and the evictor decide by, is exactly the
\* connections and reservations there are, at every point between two critical
\* sections, and never exceeds MaxSize.
SlotsCounted ==
    closing # "closed" =>
        /\ count = Len(free) + Cardinality(CallOwners) + Cardinality(RedialOwners)
                             + SweepOwners
        /\ count <= MaxSize

\* Nobody who is about to put a connection on the free list can block there
\* or meet a closed channel: the claim of checkin's comment, which held only
\* once restoring the minimum reserved its slot before dialling.
SendsNeverBlock ==
    (\/ \E g \in Caller : pc[g] = "checkin"
     \/ \E r \in Redialer : redial[r] = "send"
     \/ sweep = "return") => closing # "closed" /\ Len(free) < MaxSize

\* Every Call returns: with an answer, a transport error or ErrPoolExhausted.
CallReturns == \A g \in Caller : pc[g] # "idle" ~> pc[g] = "idle"

\* Close returns, also while the server is down and redialers keep failing.
CloseReturns == (closing = "stopping") ~> (closing = "closed")

\* Connections that really exist: idle, checked out or in somebody's hand.
Connections ==
    Len(free) + Cardinality({g \in Caller : conn[g] # None})
              + Cardinality({r \in Redialer : rconn[r] # None})
              + (IF econn = None THEN 0 ELSE 1)

\* The connections NewPool dialled up front are never lost to idleness: once
\* the server stays reachable there are MinSize connections again and again.
MinimumKept ==
    <>[]up => []<>(Connections >= MinSize \/ closing # "open")
=============================================================================
