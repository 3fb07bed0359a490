-------------------------- MODULE ControllerProofs --------------------------
(***************************************************************************)
(* The two controllers: one version per request, truthful verdicts, rings  *)
(* that stay partitions, splitters that move their own half, and           *)
(* rebalancing that is even and moves the fewest shards, for any number of *)
(* replicas, clerks, shards and groups and any bounds.  The inductive      *)
(* invariant is CommandsInv with RingInv, about the ring, and ShardInv,    *)
(* about the shard controller.                                             *)
(***************************************************************************)
EXTENDS Controllers, DataLemmas, FiniteSetTheorems, SequenceTheorems, TLAPS

(***************************************************************************)
(* The requests of either controller.                                      *)
(***************************************************************************)
ShardOp(op) ==
    \/ op.type \in {"Join", "Leave"} /\ op.gids \in SUBSET GID
    \/ op.type = "Move" /\ op.shard \in Shard /\ op.gid \in GID

RingOp(op) ==
    \/ op.type = "Init" /\ op.ring \in InitRings
    \/ op.type = "Split" /\ op.point \in Point
    \/ op.type = "Move"

OpOK(op) ==
    /\ op.clerk \in Clerk /\ op.seq \in Nat \ {0}
    /\ IF kind = "shards" THEN ShardOp(op) ELSE RingOp(op)

\* The requests in the log, under way, or in the hands of their clerk.
Made == {log[n] : n \in 1 .. Len(log)} \cup {p.op : p \in inFlight}
         \cup {call[c].op : c \in {d \in Clerk : seq[d] > 0}}

CallOK(c) ==
    /\ call[c] = [pc |-> call[c].pc, op |-> call[c].op, try |-> call[c].try,
                  verdict |-> call[c].verdict]
    /\ call[c].pc = "wait" => seq[c] > 0 /\ call[c].verdict = Nil
    /\ seq[c] > 0 => call[c].op.clerk = c /\ call[c].op.seq = seq[c]
    /\ seq[c] = 0 => call[c].verdict = Nil

CommandsOK ==
    /\ kind \in {"shards", "ring"} /\ IsSeq(log)
    /\ applied \in [Server -> Nat] /\ \A s \in Server : applied[s] <= Len(log)
    /\ seq \in [Clerk -> Nat]
    /\ call = [c \in Clerk |-> call[c]] /\ \A c \in Clerk : CallOK(c)

\* A number stands for one request of a clerk, and for none it has not made.
KnownOK ==
    /\ \A op \in Made : OpOK(op) /\ op.seq <= seq[op.clerk]
    /\ \A p, q \in Made : p.clerk = q.clerk /\ p.seq = q.seq => p = q

\* Request j of clerk c is among the first n of l.
InLog(l, c, j, n) == \E m \in 1 .. n : l[m].clerk = c /\ l[m].seq = j

\* A clerk of the shard controller goes on when its request is committed, so
\* that requests stand in the log behind their predecessors.
PastOK ==
    kind = "shards" =>
        /\ \A c \in Clerk : \A j \in 1 .. seq[c] :
              j < seq[c] \/ call[c].pc = "idle" => InLog(log, c, j, Len(log))
        /\ \A p \in inFlight : \A j \in 1 .. p.op.seq - 1 : InLog(log, p.op.clerk, j, Len(log))
        /\ \A n \in 1 .. Len(log) : \A j \in 1 .. log[n].seq - 1 : InLog(log, log[n].clerk, j, n - 1)

CommandsInv == CommandsOK /\ KnownOK /\ PastOK

(***************************************************************************)
(* What a step does to the log and to the calls.                           *)
(***************************************************************************)
Others == <<kind, log, applied, inFlight, seq>>

CmdStep ==
    \/ \E c \in Clerk : \E op : /\ Issue(c, op)
                                /\ op.clerk = c /\ op.seq = seq[c] + 1 /\ OpOK(op)
    \/ \E c \in Clerk : Retry(c)
    \/ Commit
    \/ \E s \in Server : \E v : Deliver(s, v)
    \/ \E s \in Server : Crash(s)
    \/ \E c \in Clerk : /\ kind = "ring" /\ call[c].pc = "wait"
                        /\ call' = Return(c, "timeout") /\ UNCHANGED Others
    \/ \E c \in Clerk : call' = [call EXCEPT ![c].pc = "panicked"] /\ UNCHANGED Others
    \/ UNCHANGED Others /\ UNCHANGED call

\* call' is call but for c's, whose pc and verdict have changed, or nothing has.
OnlyCall(c, pc, v) ==
    /\ call' = [d \in Clerk |-> call'[d]]
    /\ call'[c] = [pc |-> pc, op |-> call[c].op, try |-> call[c].try, verdict |-> v]
    /\ \A d \in Clerk \ {c} : call'[d] = call[d]

LEMMA ReturnIs ==
    ASSUME CommandsOK, NEW c \in Clerk, NEW v, call' = Return(c, v)
    PROVE  OnlyCall(c, "idle", v)
<1>1. CallOK(c) /\ call = [d \in Clerk |-> call[d]]
  BY DEF CommandsOK
<1>2. call' = [call EXCEPT ![c] = [[@ EXCEPT !.pc = "idle"] EXCEPT !.verdict = v]]
  BY DEF Return
<1>3. call' = [d \in Clerk |-> call'[d]] /\ \A d \in Clerk \ {c} : call'[d] = call[d]
  BY <1>1, <1>2
<1>4. call'[c] = [[call[c] EXCEPT !.pc = "idle"] EXCEPT !.verdict = v]
  BY <1>1, <1>2
<1>5. call[c] = [pc |-> call[c].pc, op |-> call[c].op, try |-> call[c].try,
                 verdict |-> call[c].verdict]
  BY <1>1 DEF CallOK
<1>6. call'[c] = [pc |-> "idle", op |-> call[c].op, try |-> call[c].try, verdict |-> v]
  BY <1>4, <1>5
<1> QED BY <1>3, <1>6 DEF OnlyCall

LEMMA PanicIs ==
    ASSUME CommandsOK, NEW c \in Clerk, call' = [call EXCEPT ![c].pc = "panicked"]
    PROVE  OnlyCall(c, "panicked", call[c].verdict)
<1>1. CallOK(c) /\ call = [d \in Clerk |-> call[d]]
  BY DEF CommandsOK
<1>2. call' = [d \in Clerk |-> call'[d]] /\ \A d \in Clerk \ {c} : call'[d] = call[d]
  BY <1>1
<1>3. call'[c] = [call[c] EXCEPT !.pc = "panicked"]
  BY <1>1
<1>4. call[c] = [pc |-> call[c].pc, op |-> call[c].op, try |-> call[c].try,
                 verdict |-> call[c].verdict]
  BY <1>1 DEF CallOK
<1>5. call'[c] = [pc |-> "panicked", op |-> call[c].op, try |-> call[c].try,
                  verdict |-> call[c].verdict]
  BY <1>3, <1>4
<1> QED BY <1>2, <1>5 DEF OnlyCall

LEMMA ProposeIs ==
    ASSUME CommandsOK, NEW c \in Clerk, NEW op, NEW try, proposeAndWait(c, op, try)
    PROVE  /\ call' = [d \in Clerk |-> call'[d]]
           /\ call'[c] = [pc |-> "wait", op |-> op, try |-> try, verdict |-> Nil]
           /\ \A d \in Clerk \ {c} : call'[d] = call[d]
           /\ inFlight' = inFlight \cup {[op |-> op, try |-> try]}
           /\ kind' = kind /\ log' = log /\ applied' = applied
<1>1. call = [d \in Clerk |-> call[d]]
  BY DEF CommandsOK
<1> QED BY <1>1 DEF proposeAndWait

LEMMA OnlyCallOK ==
    ASSUME CommandsOK, UNCHANGED Others, NEW c \in Clerk, NEW pc, NEW v, OnlyCall(c, pc, v),
           pc # "wait", seq[c] = 0 => v = Nil
    PROVE  CommandsOK'
<1>1. ASSUME NEW d \in Clerk PROVE CallOK(d)'
  <2>1. CallOK(d) /\ CallOK(c) /\ seq' = seq
    BY DEF CommandsOK, Others
  <2>2. CASE d = c
    BY <2>1, <2>2 DEF OnlyCall, CallOK
  <2>3. CASE d # c
    BY <2>1, <2>3 DEF OnlyCall, CallOK
  <2> QED BY <2>2, <2>3
<1>2. call' = [d \in Clerk |-> call'[d]]
  BY DEF OnlyCall
<1> QED BY <1>1, <1>2 DEF CommandsOK, Others

\* A call that is proposed, for the first time or again.
LEMMA ProposeOK ==
    ASSUME CommandsOK, NEW c \in Clerk, NEW op, NEW try, proposeAndWait(c, op, try),
           op.clerk = c, op.seq = seq'[c], seq' \in [Clerk -> Nat], seq'[c] > 0,
           \A d \in Clerk \ {c} : seq'[d] = seq[d]
    PROVE  CommandsOK'
<1>1. /\ call' = [d \in Clerk |-> call'[d]]
      /\ call'[c] = [pc |-> "wait", op |-> op, try |-> try, verdict |-> Nil]
      /\ \A d \in Clerk \ {c} : call'[d] = call[d]
      /\ kind' = kind /\ log' = log /\ applied' = applied
  BY ProposeIs
<1>2. ASSUME NEW d \in Clerk PROVE CallOK(d)'
  <2>1. CASE d = c
    BY <1>1, <2>1 DEF CallOK
  <2>2. CASE d # c
    <3>1. CallOK(d)
      BY DEF CommandsOK
    <3> QED BY <1>1, <2>2, <3>1 DEF CallOK
  <2> QED BY <2>1, <2>2
<1> QED BY <1>1, <1>2 DEF CommandsOK

LEMMA CommandsKept == ASSUME CommandsOK, CmdStep PROVE CommandsOK'
<1>1. ASSUME NEW c \in Clerk, NEW op, Issue(c, op), op.clerk = c, op.seq = seq[c] + 1
      PROVE  CommandsOK'
  <2>1. seq' \in [Clerk -> Nat] /\ seq'[c] = seq[c] + 1 /\ seq'[c] > 0
        /\ \A d \in Clerk \ {c} : seq'[d] = seq[d]
    BY <1>1 DEF CommandsOK, Issue
  <2> QED BY <1>1, <2>1, ProposeOK DEF Issue
<1>2. ASSUME NEW c \in Clerk, Retry(c) PROVE CommandsOK'
  <2>1. /\ CallOK(c) /\ call[c].pc = "wait" /\ seq' = seq /\ seq \in [Clerk -> Nat]
        /\ proposeAndWait(c, call[c].op, call[c].try + 1)
    BY <1>2 DEF CommandsOK, Retry
  <2>2. seq[c] > 0 /\ call[c].op.clerk = c /\ call[c].op.seq = seq[c]
    BY <2>1 DEF CallOK
  <2> QED BY <2>1, <2>2, ProposeOK
<1>3. CASE Commit
  <2>1. PICK p \in inFlight : log' = Append(log, p.op)
    BY <1>3 DEF Commit
  <2>2. IsSeq(log') /\ Len(log') = Len(log) + 1 /\ Len(log) \in Nat
    BY <2>1, AppendIs, SeqIs DEF CommandsOK
  <2> QED BY <1>3, <2>2 DEF CommandsOK, Commit, CallOK
<1>4. ASSUME NEW s \in Server, NEW v, Deliver(s, v) PROVE CommandsOK'
  <2> DEFINE op == log[applied[s] + 1]
  <2>0. Len(log) \in Nat
    BY SeqIs DEF CommandsOK
  <2>1. /\ kind' = kind /\ log' = log /\ inFlight' = inFlight /\ seq' = seq
        /\ applied[s] < Len(log) /\ applied' = [applied EXCEPT ![s] = @ + 1]
        /\ \/ call[op.clerk].pc = "wait" /\ call[op.clerk].op = op /\ call' = Return(op.clerk, v)
           \/ call' = call
    BY <1>4 DEF Deliver
  <2> HIDE DEF op
  <2>2. applied' \in [Server -> Nat] /\ \A t \in Server : applied'[t] <= Len(log)
    BY <2>0, <2>1 DEF CommandsOK
  <2>3. CASE call' = call
    BY <2>1, <2>2, <2>3 DEF CommandsOK, CallOK
  <2>4. CASE call' = Return(op.clerk, v) /\ call[op.clerk].pc = "wait"
    <3>1. CASE op.clerk \in Clerk
      <4>1. OnlyCall(op.clerk, "idle", v) /\ seq[op.clerk] > 0
        BY <2>4, <3>1, ReturnIs DEF CommandsOK, CallOK
      <4>2. ASSUME NEW d \in Clerk PROVE CallOK(d)'
        <5>1. CallOK(d) /\ CallOK(op.clerk)
          BY <3>1 DEF CommandsOK
        <5> QED BY <2>1, <4>1, <5>1 DEF OnlyCall, CallOK
      <4> QED BY <2>1, <2>2, <4>1, <4>2 DEF CommandsOK, OnlyCall
    <3>2. CASE op.clerk \notin Clerk
      <4>1. call' = call
        BY <2>4, <3>2 DEF Return, CommandsOK
      <4> QED BY <2>3, <4>1
    <3> QED BY <3>1, <3>2
  <2> QED BY <2>1, <2>3, <2>4
<1>5. ASSUME NEW s \in Server, Crash(s) PROVE CommandsOK'
  <2>1. Len(log) \in Nat
    BY SeqIs DEF CommandsOK
  <2> QED BY <1>5, <2>1 DEF CommandsOK, Crash, CallOK
<1>6. ASSUME NEW c \in Clerk, call[c].pc = "wait", call' = Return(c, "timeout"), UNCHANGED Others
      PROVE  CommandsOK'
  <2>1. seq[c] > 0 /\ seq \in [Clerk -> Nat]
    BY <1>6 DEF CommandsOK, CallOK
  <2> QED BY <1>6, <2>1, ReturnIs, OnlyCallOK
<1>7. ASSUME NEW c \in Clerk, call' = [call EXCEPT ![c].pc = "panicked"], UNCHANGED Others
      PROVE  CommandsOK'
  <2>1. seq[c] = 0 => call[c].verdict = Nil
    BY DEF CommandsOK, CallOK
  <2> QED BY <1>7, <2>1, PanicIs, OnlyCallOK
<1>8. CASE UNCHANGED Others /\ UNCHANGED call
  BY <1>8 DEF CommandsOK, Others, CallOK
<1> QED BY <1>1, <1>2, <1>3, <1>4, <1>5, <1>6, <1>7, <1>8 DEF CmdStep

\* A call that is made adds its request.
LEMMA IssueMakes ==
    ASSUME CommandsOK, NEW c \in Clerk, NEW op, Issue(c, op)
    PROVE  Made' \subseteq Made \cup {op}
<1>1. /\ seq' = [seq EXCEPT ![c] = @ + 1] /\ seq \in [Clerk -> Nat]
      /\ proposeAndWait(c, op, 1)
  BY DEF Issue, CommandsOK
<1>2. /\ call'[c] = [pc |-> "wait", op |-> op, try |-> 1, verdict |-> Nil]
      /\ \A d \in Clerk \ {c} : call'[d] = call[d]
      /\ inFlight' = inFlight \cup {[op |-> op, try |-> 1]}
      /\ log' = log
  BY <1>1, ProposeIs
<1>3. {log[n] : n \in 1 .. Len(log)}' \subseteq Made
  BY <1>2 DEF Made
<1>4. {p.op : p \in inFlight}' \subseteq Made \cup {op}
  BY <1>2 DEF Made
<1>5. {call[d].op : d \in {e \in Clerk : seq[e] > 0}}' \subseteq Made \cup {op}
  <2> SUFFICES ASSUME NEW d \in Clerk, seq'[d] > 0 PROVE call'[d].op \in Made \cup {op}
    OBVIOUS
  <2>1. CASE d = c
    BY <1>2, <2>1
  <2>2. CASE d # c
    BY <1>1, <1>2, <2>2 DEF Made
  <2> QED BY <2>1, <2>2
<1> QED BY <1>3, <1>4, <1>5 DEF Made

\* A step makes no request but the next one of some clerk.
LEMMA MadeGrows ==
    ASSUME CommandsOK, CmdStep
    PROVE  /\ kind' = kind
           /\ \/ seq' = seq /\ Made' \subseteq Made
              \/ \E c \in Clerk : \E op :
                    /\ op.clerk = c /\ op.seq = seq[c] + 1 /\ OpOK(op)
                    /\ seq' = [seq EXCEPT ![c] = @ + 1] /\ Made' \subseteq Made \cup {op}
<1> DEFINE Grows == \/ seq' = seq /\ Made' \subseteq Made
                    \/ \E c \in Clerk : \E op :
                          /\ op.clerk = c /\ op.seq = seq[c] + 1 /\ OpOK(op)
                          /\ seq' = [seq EXCEPT ![c] = @ + 1] /\ Made' \subseteq Made \cup {op}
<1>1. ASSUME NEW c \in Clerk, NEW op, Issue(c, op), op.clerk = c, op.seq = seq[c] + 1, OpOK(op)
      PROVE  kind' = kind /\ Grows
  <2>1. /\ seq' = [seq EXCEPT ![c] = @ + 1] /\ seq \in [Clerk -> Nat]
        /\ proposeAndWait(c, op, 1)
    BY <1>1 DEF Issue, CommandsOK
  <2>2. kind' = kind
    BY <2>1 DEF proposeAndWait
  <2>3. Made' \subseteq Made \cup {op}
    BY <1>1, IssueMakes
  <2> QED BY <1>1, <2>1, <2>2, <2>3
<1>2. ASSUME NEW c \in Clerk, Retry(c) PROVE kind' = kind /\ Grows
  <2>1. /\ CallOK(c) /\ call[c].pc = "wait" /\ seq' = seq
        /\ proposeAndWait(c, call[c].op, call[c].try + 1)
    BY <1>2 DEF CommandsOK, Retry
  <2>2. seq[c] > 0 /\ call[c].op \in Made
    BY <2>1 DEF CallOK, Made
  <2>3. /\ call'[c] = [pc |-> "wait", op |-> call[c].op, try |-> call[c].try + 1, verdict |-> Nil]
        /\ \A d \in Clerk \ {c} : call'[d] = call[d]
        /\ inFlight' = inFlight \cup {[op |-> call[c].op, try |-> call[c].try + 1]}
        /\ kind' = kind /\ log' = log /\ applied' = applied
    BY <2>1, ProposeIs
  <2>4. {log[n] : n \in 1 .. Len(log)}' \subseteq Made
    BY <2>3 DEF Made
  <2>5. {p.op : p \in inFlight}' \subseteq Made
    BY <2>2, <2>3 DEF Made
  <2>6. {call[d].op : d \in {d \in Clerk : seq[d] > 0}}' \subseteq Made
    <3> SUFFICES ASSUME NEW d \in Clerk, seq'[d] > 0 PROVE call'[d].op \in Made
      OBVIOUS
    <3>1. CASE d = c
      BY <2>2, <2>3, <3>1
    <3>2. CASE d # c
      BY <2>1, <2>3, <3>2 DEF Made
    <3> QED BY <3>1, <3>2
  <2>7. Made' \subseteq Made
    BY <2>4, <2>5, <2>6 DEF Made
  <2> QED BY <2>1, <2>3, <2>7
<1>3. ASSUME Commit PROVE kind' = kind /\ Grows
  <2>1. PICK p \in inFlight : log' = Append(log, p.op) /\ inFlight' = inFlight \ {p}
    BY <1>3 DEF Commit
  <2>2. kind' = kind /\ seq' = seq /\ call' = call
    BY <1>3 DEF Commit
  <2>3. /\ Len(log') = Len(log) + 1 /\ Len(log) \in Nat /\ log'[Len(log) + 1] = p.op
        /\ \A n \in 1 .. Len(log) : log'[n] = log[n]
    BY <2>1, AppendIs, SeqIs DEF CommandsOK
  <2>4. {log[n] : n \in 1 .. Len(log)}' \subseteq Made
    <3> SUFFICES ASSUME NEW n \in 1 .. Len(log) + 1 PROVE log'[n] \in Made
      BY <2>3
    <3>1. CASE n = Len(log) + 1
      BY <2>3, <3>1 DEF Made
    <3>2. CASE n # Len(log) + 1
      <4>1. n \in 1 .. Len(log)
        BY <2>3, <3>2
      <4> QED BY <2>3, <4>1 DEF Made
    <3> QED BY <3>1, <3>2
  <2>5. {p1.op : p1 \in inFlight}' \subseteq Made
    BY <2>1 DEF Made
  <2>6. {call[d].op : d \in {d \in Clerk : seq[d] > 0}}' \subseteq Made
    BY <2>2 DEF Made
  <2> QED BY <2>2, <2>4, <2>5, <2>6 DEF Made
<1>4. ASSUME kind' = kind, log' = log, inFlight' = inFlight, seq' = seq,
             \A d \in Clerk : call'[d].op = call[d].op
      PROVE  kind' = kind /\ Grows
  BY <1>4 DEF Made
<1>5. ASSUME NEW s \in Server, NEW v, Deliver(s, v) PROVE kind' = kind /\ Grows
  <2>1. /\ kind' = kind /\ log' = log /\ inFlight' = inFlight /\ seq' = seq
        /\ \E c : call' = Return(c, v) \/ call' = call
    BY <1>5 DEF Deliver
  <2>2. PICK c : call' = Return(c, v) \/ call' = call
    BY <2>1
  <2>3. ASSUME NEW d \in Clerk PROVE call'[d].op = call[d].op
    <3>1. CASE call' = call
      BY <3>1
    <3>2. CASE c \in Clerk /\ call' = Return(c, v)
      <4>1. OnlyCall(c, "idle", v)
        BY <3>2, ReturnIs
      <4> QED BY <4>1 DEF OnlyCall
    <3>3. CASE c \notin Clerk /\ call' = Return(c, v)
      BY <3>3 DEF Return, CommandsOK
    <3> QED BY <2>2, <3>1, <3>2, <3>3
  <2> QED BY <1>4, <2>1, <2>3
<1>6. ASSUME NEW s \in Server, Crash(s) PROVE kind' = kind /\ Grows
  BY <1>4, <1>6 DEF Crash
<1>7. ASSUME NEW c \in Clerk, UNCHANGED Others,
             call' = Return(c, "timeout") \/ call' = [call EXCEPT ![c].pc = "panicked"]
      PROVE  kind' = kind /\ Grows
  <2>1. \E pc, v : OnlyCall(c, pc, v)
    BY <1>7, ReturnIs, PanicIs
  <2>2. \A d \in Clerk : call'[d].op = call[d].op
    BY <2>1 DEF OnlyCall
  <2> QED BY <1>4, <1>7, <2>2 DEF Others
<1>8. ASSUME UNCHANGED Others /\ UNCHANGED call PROVE kind' = kind /\ Grows
  BY <1>4, <1>8 DEF Others
<1> HIDE DEF Grows
<1>9. kind' = kind /\ Grows
  BY <1>1, <1>2, <1>3, <1>5, <1>6, <1>7, <1>8 DEF CmdStep
<1> QED BY <1>9 DEF Grows

LEMMA KnownKept == ASSUME CommandsOK, KnownOK, CmdStep PROVE KnownOK'
<1>1. CASE seq' = seq /\ Made' \subseteq Made
  BY <1>1, MadeGrows DEF KnownOK, OpOK
<1>2. ASSUME NEW c \in Clerk, NEW op, op.clerk = c, op.seq = seq[c] + 1, OpOK(op),
             seq' = [seq EXCEPT ![c] = @ + 1], Made' \subseteq Made \cup {op}
      PROVE  KnownOK'
  <2>1. seq \in [Clerk -> Nat] /\ kind' = kind
    BY MadeGrows DEF CommandsOK
  <2>2. \A d \in Clerk : seq'[d] \in Nat /\ seq'[d] >= seq[d] /\ seq'[c] = seq[c] + 1
    BY <1>2, <2>1
  <2>3. \A o \in Made : /\ OpOK(o) /\ o.seq <= seq[o.clerk] /\ o.seq \in Nat /\ o.clerk \in Clerk
                        /\ (o.clerk = c => o.seq # op.seq)
    BY <1>2, <2>1 DEF KnownOK, OpOK
  <2>4. ASSUME NEW o \in Made' PROVE OpOK(o)' /\ o.seq <= seq'[o.clerk]
    <3>1. CASE o = op
      BY <1>2, <2>1, <2>2, <3>1 DEF OpOK
    <3>2. CASE o \in Made
      BY <2>1, <2>2, <2>3, <3>2 DEF OpOK
    <3> QED BY <1>2, <3>1, <3>2
  <2>5. ASSUME NEW p \in Made', NEW q \in Made', p.clerk = q.clerk, p.seq = q.seq PROVE p = q
    BY <1>2, <2>3, <2>5 DEF KnownOK
  <2> QED BY <2>4, <2>5 DEF KnownOK
<1> QED BY <1>1, <1>2, MadeGrows

LEMMA PastKept == ASSUME CommandsInv, CmdStep PROVE PastOK'
<1> USE DEF CommandsInv
<1>0. /\ kind' = kind /\ Len(log) \in Nat /\ seq \in [Clerk -> Nat] /\ \A c \in Clerk : CallOK(c)
      /\ CommandsOK
  BY MadeGrows, SeqIs DEF CommandsOK
<1> SUFFICES ASSUME kind = "shards" PROVE PastOK'
  BY <1>0 DEF PastOK
<1>1. /\ \A c \in Clerk : \A j \in 1 .. seq[c] :
            j < seq[c] \/ call[c].pc = "idle" => InLog(log, c, j, Len(log))
      /\ \A p \in inFlight : \A j \in 1 .. p.op.seq - 1 : InLog(log, p.op.clerk, j, Len(log))
      /\ \A n \in 1 .. Len(log) : \A j \in 1 .. log[n].seq - 1 : InLog(log, log[n].clerk, j, n - 1)
  BY DEF PastOK
<1>2. ASSUME log' = log, inFlight' = inFlight, seq' = seq,
             \A c \in Clerk : \/ call'[c].pc = call[c].pc \/ call'[c].pc = "panicked"
                              \/ InLog(log, c, seq[c], Len(log))
      PROVE  PastOK'
  BY <1>0, <1>1, <1>2 DEF PastOK, InLog
<1>3. ASSUME NEW c \in Clerk, NEW op, Issue(c, op), op.clerk = c, op.seq = seq[c] + 1
      PROVE  PastOK'
  <2>1. /\ seq' = [seq EXCEPT ![c] = @ + 1] /\ call[c].pc = "idle"
        /\ proposeAndWait(c, op, 1)
    BY <1>3 DEF Issue, Idle
  <2>2. /\ call'[c] = [pc |-> "wait", op |-> op, try |-> 1, verdict |-> Nil]
        /\ \A d \in Clerk \ {c} : call'[d] = call[d]
        /\ inFlight' = inFlight \cup {[op |-> op, try |-> 1]}
        /\ kind' = kind /\ log' = log /\ applied' = applied
    BY <1>0, <2>1, ProposeIs
  <2>3. \A j \in 1 .. seq[c] : InLog(log, c, j, Len(log))
    BY <1>1, <2>1
  <2>4. \A d \in Clerk : \A j \in 1 .. seq'[d] :
            j < seq'[d] \/ call'[d].pc = "idle" => InLog(log, d, j, Len(log))
    BY <1>0, <1>1, <2>1, <2>2, <2>3
  <2>5. \A p \in inFlight' : \A j \in 1 .. p.op.seq - 1 : InLog(log, p.op.clerk, j, Len(log))
    BY <1>0, <1>1, <1>3, <2>2, <2>3
  <2> QED BY <1>1, <2>2, <2>4, <2>5 DEF PastOK, InLog
<1>4. ASSUME NEW c \in Clerk, Retry(c) PROVE PastOK'
  <2>1. /\ CallOK(c) /\ call[c].pc = "wait" /\ seq' = seq
        /\ proposeAndWait(c, call[c].op, call[c].try + 1)
    BY <1>0, <1>4 DEF Retry
  <2>2. call[c].op.clerk = c /\ call[c].op.seq = seq[c]
    BY <1>0, <2>1 DEF CallOK
  <2>3. /\ call'[c] = [pc |-> "wait", op |-> call[c].op, try |-> call[c].try + 1, verdict |-> Nil]
        /\ \A d \in Clerk \ {c} : call'[d] = call[d]
        /\ inFlight' = inFlight \cup {[op |-> call[c].op, try |-> call[c].try + 1]}
        /\ kind' = kind /\ log' = log /\ applied' = applied
    BY <1>0, <2>1, ProposeIs
  <2>4. \A d \in Clerk : \A j \in 1 .. seq'[d] :
            j < seq'[d] \/ call'[d].pc = "idle" => InLog(log, d, j, Len(log))
    BY <1>0, <1>1, <2>1, <2>3
  <2>5. \A p \in inFlight' : \A j \in 1 .. p.op.seq - 1 : InLog(log, p.op.clerk, j, Len(log))
    BY <1>0, <1>1, <2>2, <2>3
  <2> QED BY <1>1, <2>3, <2>4, <2>5 DEF PastOK, InLog
<1>5. CASE Commit
  <2>1. PICK p \in inFlight : log' = Append(log, p.op) /\ inFlight' = inFlight \ {p}
    BY <1>5 DEF Commit
  <2>2. kind' = kind /\ seq' = seq /\ call' = call
    BY <1>5 DEF Commit
  <2>3. /\ Len(log') = Len(log) + 1 /\ Len(log) \in Nat /\ log'[Len(log) + 1] = p.op
        /\ \A n \in 1 .. Len(log) : log'[n] = log[n]
    BY <2>1, AppendIs, SeqIs DEF CommandsOK
  <2>4. ASSUME NEW c, NEW j, NEW n \in Nat, n <= Len(log), InLog(log, c, j, n)
        PROVE  InLog(log', c, j, n) /\ InLog(log', c, j, Len(log) + 1)
    BY <2>3, <2>4 DEF InLog
  <2>5. \A d \in Clerk : \A j \in 1 .. seq'[d] :
            j < seq'[d] \/ call'[d].pc = "idle" => InLog(log', d, j, Len(log) + 1)
    BY <1>0, <1>1, <2>2, <2>4
  <2>6. \A q \in inFlight' : \A j \in 1 .. q.op.seq - 1 : InLog(log', q.op.clerk, j, Len(log) + 1)
    BY <1>0, <1>1, <2>1, <2>4
  <2>7. ASSUME NEW n \in 1 .. Len(log) + 1, NEW j \in 1 .. log'[n].seq - 1
        PROVE  InLog(log', log'[n].clerk, j, n - 1)
    <3>1. CASE n = Len(log) + 1
      <4>1. InLog(log, p.op.clerk, j, Len(log))
        BY <1>1, <2>3, <3>1
      <4>2. n - 1 = Len(log) /\ log'[n] = p.op
        BY <1>0, <2>3, <3>1
      <4>3. InLog(log', p.op.clerk, j, Len(log))
        BY <1>0, <2>4, <4>1
      <4> QED BY <2>3, <4>1, <4>2 DEF InLog
    <3>2. CASE n # Len(log) + 1
      <4>1. n \in 1 .. Len(log) /\ log'[n] = log[n] /\ n - 1 \in Nat /\ n - 1 <= Len(log)
        BY <1>0, <2>3, <3>2
      <4>2. InLog(log, log[n].clerk, j, n - 1)
        BY <1>1, <4>1
      <4> QED BY <2>4, <4>1, <4>2
    <3> QED BY <3>1, <3>2
  <2> QED BY <2>3, <2>5, <2>6, <2>7 DEF PastOK, InLog
<1>6. ASSUME NEW s \in Server, NEW v, Deliver(s, v) PROVE PastOK'
  <2> DEFINE op == log[applied[s] + 1]
  <2>1. /\ log' = log /\ inFlight' = inFlight /\ seq' = seq /\ applied[s] < Len(log)
        /\ \/ call[op.clerk].pc = "wait" /\ call[op.clerk].op = op /\ call' = Return(op.clerk, v)
           \/ call' = call
    BY <1>6 DEF Deliver
  <2>2. applied[s] + 1 \in 1 .. Len(log)
    BY <1>0, <2>1 DEF CommandsOK
  <2>3. op \in Made
    BY <2>2 DEF Made
  <2>4. op.clerk \in Clerk
    BY <2>3 DEF KnownOK, OpOK
  <2>5. InLog(log, op.clerk, op.seq, Len(log))
    BY <2>2 DEF InLog
  <2> HIDE DEF op
  <2>6. CASE call' = call
    BY <1>2, <2>1, <2>6
  <2>7. CASE call[op.clerk].pc = "wait" /\ call[op.clerk].op = op /\ call' = Return(op.clerk, v)
    <3>1. CallOK(op.clerk)
      BY <1>0, <2>4
    <3>2. op.seq = seq[op.clerk]
      BY <1>0, <2>4, <2>7, <3>1 DEF CallOK
    <3>3. \A d \in Clerk \ {op.clerk} : call'[d] = call[d]
      BY <1>0, <2>4, <2>7, ReturnIs DEF OnlyCall
    <3> QED BY <1>2, <2>1, <2>5, <3>2, <3>3
  <2> QED BY <2>1, <2>6, <2>7
<1>7. ASSUME NEW s \in Server, Crash(s) PROVE PastOK'
  BY <1>2, <1>7 DEF Crash
<1>8. ASSUME NEW c \in Clerk, call' = [call EXCEPT ![c].pc = "panicked"], UNCHANGED Others
      PROVE  PastOK'
  <2>1. OnlyCall(c, "panicked", call[c].verdict)
    BY <1>0, <1>8, PanicIs
  <2> QED BY <1>2, <1>8, <2>1 DEF Others, OnlyCall
<1>9. CASE UNCHANGED Others /\ UNCHANGED call
  BY <1>2, <1>9 DEF Others
<1> QED BY <1>3, <1>4, <1>5, <1>6, <1>7, <1>8, <1>9 DEF CmdStep

LEMMA CommandsInvKept == ASSUME CommandsInv, CmdStep PROVE CommandsInv'
BY CommandsKept, KnownKept, PastKept DEF CommandsInv

LEMMA CommandsInvInit == ASSUME CommandsInit PROVE CommandsInv
<1>1. /\ kind \in {"shards", "ring"} /\ log = <<>> /\ Len(log) = 0 /\ IsSeq(log) /\ inFlight = {}
      /\ applied = [s \in Server |-> 0] /\ seq = [c \in Clerk |-> 0]
      /\ call = [c \in Clerk |-> [pc |-> "idle", op |-> Nil, try |-> 0, verdict |-> Nil]]
  BY EmptyIs DEF CommandsInit
<1>2. \A c \in Clerk : CallOK(c)
  BY <1>1 DEF CallOK
<1>3. CommandsOK
  <2>1. call = [c \in Clerk |-> call[c]]
    BY <1>1
  <2>2. applied \in [Server -> Nat] /\ (\A s \in Server : applied[s] <= Len(log)) /\ seq \in [Clerk -> Nat]
    BY <1>1
  <2> QED BY <1>1, <1>2, <2>1, <2>2 DEF CommandsOK
<1>4. Made = {}
  BY <1>1 DEF Made
<1>5. KnownOK
  BY <1>4 DEF KnownOK
<1>6. PastOK
  BY <1>1 DEF PastOK
<1> QED BY <1>3, <1>5, <1>6 DEF CommandsInv

(***************************************************************************)
(* Rings.                                                                  *)
(***************************************************************************)
GoodRing(ring) ==
    /\ ring # {} /\ IsFiniteSet(ring) /\ ring \subseteq [start : Point, shard : Nat]
    /\ \A e, f \in ring : e.shard = f.shard => e = f
    /\ \A e, f \in ring : e.start = f.start => e = f

LEMMA MaxIs ==
    ASSUME NEW S \in SUBSET Int, IsFiniteSet(S), S # {}
    PROVE  Max(S) \in S /\ \A y \in S : Max(S) >= y
BY Greatest DEF Max

LEMMA MinIs ==
    ASSUME NEW S \in SUBSET Int, IsFiniteSet(S), S # {}
    PROVE  Min(S) \in S /\ \A y \in S : Min(S) <= y
BY Lowest DEF Min

LEMMA PointsAre == RingSize \in Nat \ {0} /\ \A p \in Point : p \in Nat /\ p < RingSize
BY RingSizeAssumption DEF Point

LEMMA StartsAre ==
    ASSUME NEW ring, ring # {}, IsFiniteSet(ring), ring \subseteq [start : Point, shard : Nat]
    PROVE  /\ Starts(ring) \in SUBSET Int /\ IsFiniteSet(Starts(ring)) /\ Starts(ring) # {}
           /\ Starts(ring) \subseteq Point
           /\ [e \in ring |-> e.start] \in Surjection(ring, Starts(ring))
<1>1. [e \in ring |-> e.start] \in Surjection(ring, Starts(ring))
  BY DEF Surjection, Starts
<1>2. IsFiniteSet(Starts(ring))
  BY <1>1, FS_Surjection
<1>3. Starts(ring) \subseteq Point /\ Starts(ring) # {}
  BY DEF Starts
<1> QED BY <1>1, <1>2, <1>3, PointsAre

LEMMA ShardsAre ==
    ASSUME NEW ring, ring # {}, IsFiniteSet(ring), ring \subseteq [start : Point, shard : Nat]
    PROVE  /\ Shards(ring) \in SUBSET Int /\ IsFiniteSet(Shards(ring)) /\ Shards(ring) # {}
           /\ Shards(ring) \subseteq Nat
           /\ [e \in ring |-> e.shard] \in Surjection(ring, Shards(ring))
<1>1. [e \in ring |-> e.shard] \in Surjection(ring, Shards(ring))
  BY DEF Surjection, Shards
<1>2. IsFiniteSet(Shards(ring))
  BY <1>1, FS_Surjection
<1>3. Shards(ring) \subseteq Nat /\ Shards(ring) # {}
  BY DEF Shards
<1> QED BY <1>1, <1>2, <1>3

\* Counting entries, ids and starts, as Validate does, finds the duplicates.
LEMMA GoodIsValid == ASSUME NEW ring, GoodRing(ring) PROVE ValidRing(ring)
<1>1. /\ [e \in ring |-> e.shard] \in Surjection(ring, Shards(ring))
      /\ [e \in ring |-> e.start] \in Surjection(ring, Starts(ring))
  BY StartsAre, ShardsAre DEF GoodRing
<1>2. /\ [e \in ring |-> e.shard] \in Injection(ring, Shards(ring))
      /\ [e \in ring |-> e.start] \in Injection(ring, Starts(ring))
  BY <1>1 DEF GoodRing, Injection, IsInjective, Surjection
<1>3. /\ ExistsBijection(ring, Shards(ring))
      /\ ExistsBijection(ring, Starts(ring))
  BY <1>1, <1>2 DEF ExistsBijection, Bijection
<1>4. Cardinality(Shards(ring)) = Cardinality(ring)
  BY <1>3, FS_Bijection DEF GoodRing
<1>5. Cardinality(Starts(ring)) = Cardinality(ring)
  BY <1>3, FS_Bijection DEF GoodRing
<1> QED BY <1>4, <1>5 DEF ValidRing, GoodRing

LEMMA ValidIsGood ==
    ASSUME NEW ring, IsFiniteSet(ring), ring \subseteq [start : Point, shard : Nat], ValidRing(ring)
    PROVE  GoodRing(ring)
<1>1. /\ [e \in ring |-> e.shard] \in Surjection(ring, Shards(ring))
      /\ [e \in ring |-> e.start] \in Surjection(ring, Starts(ring))
  BY StartsAre, ShardsAre DEF ValidRing
<1>2. [e \in ring |-> e.shard] \in Injection(ring, Shards(ring))
  BY <1>1, FS_SurjSameCardinalityImpliesInj DEF ValidRing
<1>3. [e \in ring |-> e.start] \in Injection(ring, Starts(ring))
  BY <1>1, FS_SurjSameCardinalityImpliesInj DEF ValidRing
<1> QED BY <1>2, <1>3 DEF GoodRing, ValidRing, Injection, IsInjective

LEMMA EntryIs ==
    ASSUME NEW ring, GoodRing(ring), NEW e \in ring
    PROVE  EntryOf(ring, e.shard) = e
BY DEF GoodRing, EntryOf

\* The next id is new.
LEMMA NextIsNew ==
    ASSUME NEW ring, GoodRing(ring)
    PROVE  /\ NextShardID(ring) \in Nat /\ NextShardID(ring) \notin Shards(ring)
           /\ \A e \in ring : e.shard # NextShardID(ring)
<1>1. Max(Shards(ring)) \in Shards(ring) /\ \A y \in Shards(ring) : Max(Shards(ring)) >= y
  BY ShardsAre, MaxIs DEF GoodRing
<1>2. Shards(ring) \subseteq Nat
  BY ShardsAre DEF GoodRing
<1>3. \A e \in ring : e.shard \in Shards(ring)
  BY DEF Shards
<1> QED BY <1>1, <1>2, <1>3 DEF NextShardID

LEMMA RangeEndIs ==
    ASSUME NEW ring, GoodRing(ring), NEW e \in ring
    PROVE  /\ rangeEnd(ring, e) \in Starts(ring)
           /\ \/ /\ \A x \in Starts(ring) : x <= e.start
                 /\ \A x \in Starts(ring) : rangeEnd(ring, e) <= x
              \/ /\ e.start < rangeEnd(ring, e)
                 /\ \A x \in Starts(ring) : x > e.start => rangeEnd(ring, e) <= x
<1> DEFINE above == {x \in Starts(ring) : x > e.start}
<1>1. /\ Starts(ring) \in SUBSET Int /\ IsFiniteSet(Starts(ring)) /\ Starts(ring) # {}
      /\ e.start \in Starts(ring)
  BY StartsAre DEF GoodRing, Starts
<1>2. CASE above = {}
  <2>1. rangeEnd(ring, e) = Min(Starts(ring))
    BY <1>2 DEF rangeEnd
  <2>2. \A x \in Starts(ring) : x <= e.start
    <3>1. \A x \in Starts(ring) : x \in Int /\ ~(x > e.start)
      BY <1>1, <1>2
    <3> QED BY <1>1, <3>1
  <2> QED BY <1>1, <2>1, <2>2, MinIs
<1>3. CASE above # {}
  <2>1. rangeEnd(ring, e) = Min(above)
    BY <1>3 DEF rangeEnd
  <2>2. above \in SUBSET Int /\ IsFiniteSet(above)
    BY <1>1, FS_Subset
  <2> HIDE DEF above
  <2>3. Min(above) \in above /\ \A x \in above : Min(above) <= x
    BY <1>3, <2>2, MinIs
  <2> QED BY <2>1, <2>3 DEF above
<1> QED BY <1>2, <1>3

\* e is the entry before the point p in ring order.
Before(ring, e, p) ==
    \/ e.start < p /\ \A x \in Starts(ring) : x < p => x <= e.start
    \/ p < e.start /\ \A x \in Starts(ring) : p < x /\ x <= e.start

LEMMA Inside ==
    ASSUME NEW ring, GoodRing(ring), NEW shard, NEW p \in Point, Splittable(ring, shard, p)
    PROVE  /\ EntryOf(ring, shard) \in ring /\ EntryOf(ring, shard).shard = shard
           /\ p \notin Starts(ring) /\ Before(ring, EntryOf(ring, shard), p)
<1>1. PICK e \in ring : e.shard = shard
  BY DEF Splittable, Shards
<1>2. EntryOf(ring, shard) = e
  BY <1>1, EntryIs
<1>3. /\ e.start \in Point /\ \A x \in Starts(ring) : x \in Nat
      /\ e.start \in Nat /\ p \in Nat /\ e.start \in Starts(ring)
  BY StartsAre, PointsAre DEF GoodRing, Starts
<1>4. p # e.start /\ inRangeExclusive(e.start, rangeEnd(ring, e), p)
  BY <1>2 DEF Splittable
<1>5. CASE /\ \A x \in Starts(ring) : x <= e.start
           /\ \A x \in Starts(ring) : rangeEnd(ring, e) <= x
           /\ rangeEnd(ring, e) \in Starts(ring)
  <2>1. ~(e.start < rangeEnd(ring, e)) /\ rangeEnd(ring, e) \in Nat
    BY <1>3, <1>5
  <2>2. p >= e.start \/ p < rangeEnd(ring, e)
    BY <1>4, <2>1 DEF inRangeExclusive
  <2>3. p > e.start \/ \A x \in Starts(ring) : p < x
    BY <1>3, <1>4, <1>5, <2>1, <2>2
  <2> QED BY <1>1, <1>2, <1>3, <1>5, <2>3 DEF Before
<1>6. CASE /\ e.start < rangeEnd(ring, e) /\ rangeEnd(ring, e) \in Starts(ring)
           /\ \A x \in Starts(ring) : x > e.start => rangeEnd(ring, e) <= x
  <2>1. p > e.start /\ p < rangeEnd(ring, e) /\ rangeEnd(ring, e) \in Nat
    BY <1>3, <1>4, <1>6 DEF inRangeExclusive
  <2>2. \A x \in Starts(ring) : x < p => x <= e.start
    BY <1>3, <1>6, <2>1
  <2>3. p \notin Starts(ring)
    BY <1>3, <1>6, <2>1
  <2> QED BY <1>1, <1>2, <1>3, <2>1, <2>2, <2>3 DEF Before
<1> QED BY <1>5, <1>6, RangeEndIs

LEMMA SplitGood ==
    ASSUME NEW ring, GoodRing(ring), NEW p \in Point, p \notin Starts(ring)
    PROVE  /\ GoodRing(Split(ring, p)) /\ ring \subseteq Split(ring, p)
           /\ Shards(Split(ring, p)) = Shards(ring) \cup {NextShardID(ring)}
           /\ Starts(Split(ring, p)) = Starts(ring) \cup {p}
<1> DEFINE n == [start |-> p, shard |-> NextShardID(ring)]
<1>1. NextShardID(ring) \in Nat /\ \A e \in ring : e.shard # NextShardID(ring)
  BY NextIsNew
<1>2. \A e \in ring : e.start # p
  BY DEF Starts
<1>3. Split(ring, p) = ring \cup {n}
  BY DEF Split
<1>4. n \in [start : Point, shard : Nat] /\ n.start = p /\ n.shard = NextShardID(ring)
  BY <1>1
<1> HIDE DEF n
<1>5. IsFiniteSet(ring \cup {n})
  BY FS_AddElement DEF GoodRing
<1>6. GoodRing(ring \cup {n})
  BY <1>1, <1>2, <1>4, <1>5 DEF GoodRing
<1>7. Shards(ring \cup {n}) = Shards(ring) \cup {NextShardID(ring)}
  BY <1>4 DEF Shards
<1>8. Starts(ring \cup {n}) = Starts(ring) \cup {p}
  BY <1>4 DEF Starts
<1> QED BY <1>3, <1>6, <1>7, <1>8

LEMMA MidpointIs ==
    ASSUME NEW ring, GoodRing(ring), NEW shard, Divisible(ring, shard)
    PROVE  Midpoint(ring, shard) \in Point
<1>1. PICK e \in ring : e.shard = shard
  BY DEF Divisible, Shards
<1>2. EntryOf(ring, shard) = e
  BY <1>1, EntryIs
<1>3. rangeEnd(ring, e) \in Nat /\ e.start \in Nat
  BY RangeEndIs, StartsAre, PointsAre DEF GoodRing
<1>4. Width(ring, e) \in Int
  BY <1>3, PointsAre DEF Width
<1>5. Width(ring, e) \div 2 \in Int
  BY <1>4
<1>6. (e.start + Width(ring, e) \div 2) % RingSize \in 0 .. RingSize - 1
  BY <1>3, <1>5, PointsAre
<1> QED BY <1>2, <1>6 DEF Midpoint, Point

(***************************************************************************)
(* Configurations of the ring.                                             *)
(***************************************************************************)
LiveCfg(cfg) ==
    /\ cfg = [num |-> cfg.num, ring |-> cfg.ring, owners |-> cfg.owners, groups |-> cfg.groups]
    /\ cfg.num \in Nat \ {0} /\ GoodRing(cfg.ring) /\ cfg.groups = Groups
    /\ cfg.owners \in [Shards(cfg.ring) -> Groups]
GoodCfg(cfg) == cfg = ZeroRingConfig \/ LiveCfg(cfg)

LEMMA ZeroIs ==
    /\ ZeroRingConfig.num = 0 /\ ZeroRingConfig.ring = {} /\ DOMAIN ZeroRingConfig.owners = {}
BY DEF ZeroRingConfig

LEMMA LiveIsValid == ASSUME NEW cfg, LiveCfg(cfg) PROVE ValidConfig(cfg)
BY GoodIsValid DEF LiveCfg, ValidConfig

\* Dealing shards out finds a group for each.
LEMMA InitialLive ==
    ASSUME NEW ring \in InitRings, ValidRing(ring)
    PROVE  LiveCfg(NewRingConfig(ring, Groups))
<1>1. IsFiniteSet(ring) /\ ring \subseteq [start : Point, shard : Nat] /\ GoodRing(ring)
  BY RingCtrlerAssumption, ValidIsGood
<1>2. Cardinality(Groups) \in Nat \ {0} /\ IsFiniteSet(Groups) /\ Groups \in SUBSET Int
  BY RingCtrlerAssumption, FS_CardinalityType, FS_EmptySet
<1> DEFINE at(e) == Cardinality({x \in Starts(ring) : x < e.start}) % Cardinality(Groups)
           dealt(shard) == CHOOSE g \in Groups :
               Cardinality({h \in Groups : h < g}) = at(EntryOf(ring, shard))
<1>3. ASSUME NEW shard \in Shards(ring) PROVE dealt(shard) \in Groups
  <2> DEFINE k == at(EntryOf(ring, shard))
  <2>1. IsFiniteSet({x \in Starts(ring) : x < EntryOf(ring, shard).start})
    BY <1>1, StartsAre, FS_Subset DEF GoodRing
  <2>2. Cardinality({x \in Starts(ring) : x < EntryOf(ring, shard).start}) \in Nat
    BY <2>1, FS_CardinalityType
  <2>3. k \in Nat /\ k < Cardinality(Groups)
    BY <1>2, <2>2
  <2> HIDE DEF k
  <2>4. \E g \in Groups : Cardinality({h \in Groups : h < g}) = k
    BY <1>2, <2>3, RankReached
  <2> QED BY <2>4 DEF k
<1>4. [shard \in Shards(ring) |-> dealt(shard)] \in [Shards(ring) -> Groups]
  BY <1>3
<1>5. NewRingConfig(ring, Groups) = [num |-> 1, ring |-> ring, groups |-> Groups,
                                     owners |-> [shard \in Shards(ring) |-> dealt(shard)]]
  BY DEF NewRingConfig
<1> HIDE DEF dealt
<1> QED BY <1>1, <1>4, <1>5 DEF LiveCfg

LEMMA SplitLive ==
    ASSUME NEW cfg, LiveCfg(cfg), NEW shard, NEW p \in Point, Splittable(cfg.ring, shard, p)
    PROVE  LET new == SplitConfig(cfg, shard, p)
           IN  /\ LiveCfg(new) /\ new.num = cfg.num + 1
               /\ new.ring = Split(cfg.ring, p)
               /\ \A x \in Shards(cfg.ring) : new.owners[x] = cfg.owners[x]
               /\ new.owners[NextShardID(cfg.ring)] = cfg.owners[shard]
<1> DEFINE n == NextShardID(cfg.ring)
           owners == [s \in Shards(cfg.ring) \cup {n} |->
                         IF s = n THEN cfg.owners[shard] ELSE cfg.owners[s]]
<1>1. /\ GoodRing(cfg.ring) /\ cfg.owners \in [Shards(cfg.ring) -> Groups] /\ cfg.groups = Groups
      /\ cfg.num \in Nat \ {0}
      /\ cfg = [num |-> cfg.num, ring |-> cfg.ring, owners |-> cfg.owners, groups |-> cfg.groups]
  BY DEF LiveCfg
<1>2. p \notin Starts(cfg.ring)
  BY <1>1, Inside
<1>3. GoodRing(Split(cfg.ring, p)) /\ Shards(Split(cfg.ring, p)) = Shards(cfg.ring) \cup {n}
  BY <1>1, <1>2, SplitGood
<1>4. n \notin Shards(cfg.ring) /\ shard \in Shards(cfg.ring)
  BY <1>1, NextIsNew DEF Splittable
<1>5. SplitConfig(cfg, shard, p) =
          [num |-> cfg.num + 1, ring |-> Split(cfg.ring, p), owners |-> owners, groups |-> cfg.groups]
  <2>1. DOMAIN cfg.owners = Shards(cfg.ring)
    BY <1>1
  <2>2. SplitConfig(cfg, shard, p) =
            [cfg EXCEPT !.num = @ + 1, !.ring = Split(@, p), !.owners = owners]
    BY <2>1 DEF SplitConfig
  <2> HIDE DEF owners
  <2> QED BY <1>1, <2>2
<1>6. owners \in [Shards(cfg.ring) \cup {n} -> Groups]
  BY <1>1, <1>4
<1>7. owners[n] = cfg.owners[shard] /\ \A x \in Shards(cfg.ring) : owners[x] = cfg.owners[x]
  BY <1>4
<1> HIDE DEF owners
<1> QED BY <1>1, <1>3, <1>5, <1>6, <1>7 DEF LiveCfg

LEMMA MoveLive ==
    ASSUME NEW cfg, LiveCfg(cfg), NEW shard \in Shards(cfg.ring), NEW gid \in Groups
    PROVE  LET new == MoveRingShard(cfg, shard, gid)
           IN  /\ LiveCfg(new) /\ new.num = cfg.num + 1 /\ new.ring = cfg.ring
               /\ \A x \in Shards(cfg.ring) \ {shard} : new.owners[x] = cfg.owners[x]
<1>1. /\ GoodRing(cfg.ring) /\ cfg.owners \in [Shards(cfg.ring) -> Groups] /\ cfg.groups = Groups
      /\ cfg.num \in Nat \ {0}
      /\ cfg = [num |-> cfg.num, ring |-> cfg.ring, owners |-> cfg.owners, groups |-> cfg.groups]
  BY DEF LiveCfg
<1> DEFINE owners == [cfg.owners EXCEPT ![shard] = gid]
<1>2. owners \in [Shards(cfg.ring) -> Groups]
      /\ \A x \in Shards(cfg.ring) \ {shard} : owners[x] = cfg.owners[x]
  BY <1>1
<1>3. MoveRingShard(cfg, shard, gid) =
          [num |-> cfg.num + 1, ring |-> cfg.ring, owners |-> owners, groups |-> cfg.groups]
  <2>1. [cfg EXCEPT !.num = @ + 1].owners = cfg.owners
    BY <1>1
  <2>2. MoveRingShard(cfg, shard, gid) = [cfg EXCEPT !.num = @ + 1, !.owners = owners]
    BY <2>1 DEF MoveRingShard
  <2> HIDE DEF owners
  <2> QED BY <1>1, <2>2
<1> HIDE DEF owners
<1> QED BY <1>1, <1>2, <1>3 DEF LiveCfg

\* What a request that takes effect makes of a config.
LEMMA AppliedGood ==
    ASSUME NEW cfg, GoodCfg(cfg), NEW op, RingOp(op), Valid(cfg, op)
    PROVE  /\ LiveCfg(applyOp(cfg, op)) /\ cfg.ring \subseteq applyOp(cfg, op).ring
           /\ applyOp(cfg, op).num = cfg.num + 1
<1>1. CASE op.type = "Init"
  <2>1. cfg.num = 0 /\ ValidRing(op.ring) /\ op.ring \in InitRings
    BY <1>1 DEF Valid, RingOp
  <2>2. cfg.ring = {}
    BY <2>1, ZeroIs DEF GoodCfg, LiveCfg
  <2>3. applyOp(cfg, op) = NewRingConfig(op.ring, Groups)
    BY <1>1 DEF applyOp
  <2>4. NewRingConfig(op.ring, Groups).num = 1
    BY DEF NewRingConfig
  <2> QED BY <2>1, <2>2, <2>3, <2>4, InitialLive
<1>2. CASE op.type = "Split"
  <2>1. op.shard \in DOMAIN cfg.owners /\ Splittable(cfg.ring, op.shard, op.point) /\ op.point \in Point
    BY <1>2 DEF Valid, RingOp
  <2>2. LiveCfg(cfg)
    BY <2>1, ZeroIs DEF GoodCfg
  <2>3. applyOp(cfg, op) = SplitConfig(cfg, op.shard, op.point)
    BY <1>2 DEF applyOp
  <2>4. cfg.ring \subseteq Split(cfg.ring, op.point)
    BY DEF Split
  <2> QED BY <2>1, <2>2, <2>3, <2>4, SplitLive
<1>3. CASE op.type = "Move"
  <2>1. op.shard \in DOMAIN cfg.owners /\ op.gid \in cfg.groups
    BY <1>3 DEF Valid
  <2>2. LiveCfg(cfg)
    BY <2>1, ZeroIs DEF GoodCfg
  <2>3. op.shard \in Shards(cfg.ring) /\ op.gid \in Groups
    BY <2>1, <2>2 DEF LiveCfg
  <2>4. applyOp(cfg, op) = MoveRingShard(cfg, op.shard, op.gid)
    BY <1>3 DEF applyOp
  <2> DEFINE new == MoveRingShard(cfg, op.shard, op.gid)
  <2>5. LiveCfg(new) /\ new.num = cfg.num + 1 /\ new.ring = cfg.ring
    BY <2>2, <2>3, MoveLive
  <2> QED BY <2>4, <2>5
<1> QED BY <1>1, <1>2, <1>3 DEF RingOp

(***************************************************************************)
(* Lookups.                                                                *)
(***************************************************************************)

\* Where the entry of a point's shard starts.
StartFor(ring, q) ==
    LET below == {x \in Starts(ring) : x <= q}
    IN Max(IF below = {} THEN Starts(ring) ELSE below)

LEMMA StartForIs ==
    ASSUME NEW ring, GoodRing(ring), NEW q \in Point
    PROVE  /\ StartFor(ring, q) \in Starts(ring)
           /\ \/ StartFor(ring, q) <= q /\ \A x \in Starts(ring) : x <= q => x <= StartFor(ring, q)
              \/ \A x \in Starts(ring) : q < x /\ x <= StartFor(ring, q)
<1> DEFINE below == {x \in Starts(ring) : x <= q}
<1>1. Starts(ring) \in SUBSET Int /\ IsFiniteSet(Starts(ring)) /\ Starts(ring) # {} /\ q \in Int
      /\ \A x \in Starts(ring) : x \in Int
  <2>1. q \in Int
    BY PointsAre
  <2> QED BY <2>1, StartsAre DEF GoodRing
<1>2. CASE below = {}
  <2>1. StartFor(ring, q) = Max(Starts(ring))
    BY <1>2 DEF StartFor
  <2>2. \A x \in Starts(ring) : ~(x <= q)
    BY <1>2
  <2> QED BY <1>1, <2>1, <2>2, MaxIs
<1>3. CASE below # {}
  <2>1. StartFor(ring, q) = Max(below)
    BY <1>3 DEF StartFor
  <2>2. below \in SUBSET Int /\ IsFiniteSet(below)
    BY <1>1, FS_Subset
  <2> HIDE DEF below
  <2>3. Max(below) \in below /\ \A x \in below : Max(below) >= x
    BY <1>3, <2>2, MaxIs
  <2>4. StartFor(ring, q) \in Starts(ring) /\ StartFor(ring, q) <= q
    BY <2>1, <2>3 DEF below
  <2>5. \A x \in Starts(ring) : x <= q => x <= StartFor(ring, q)
    BY <1>1, <2>1, <2>3 DEF below
  <2> QED BY <2>4, <2>5
<1> QED BY <1>2, <1>3

LEMMA AssignIs ==
    ASSUME NEW ring, GoodRing(ring), NEW q \in Point, NEW e \in ring, e.start = StartFor(ring, q)
    PROVE  ringAssignPoint(ring, q) = e.shard
<1>1. (CHOOSE f \in ring : f.start = StartFor(ring, q)) = e
  BY DEF GoodRing
<1> QED BY <1>1 DEF ringAssignPoint, StartFor

\* A split hands part of one shard's points to the new shard and leaves all
\* others where they are.
LEMMA SplitAssigns ==
    ASSUME NEW ring, GoodRing(ring), NEW p \in Point, p \notin Starts(ring),
           NEW e \in ring, Before(ring, e, p), NEW q \in Point
    PROVE  /\ ringAssignPoint(ring, q) \in Shards(ring)
           /\ \/ ringAssignPoint(Split(ring, p), q) = ringAssignPoint(ring, q)
              \/ /\ ringAssignPoint(Split(ring, p), q) = NextShardID(ring)
                 /\ ringAssignPoint(ring, q) = e.shard
           /\ q = p => ringAssignPoint(Split(ring, p), q) = NextShardID(ring)
<1> DEFINE new == Split(ring, p)
           n == [start |-> p, shard |-> NextShardID(ring)]
<1>1. GoodRing(new) /\ Starts(new) = Starts(ring) \cup {p}
  BY SplitGood
<1>2. ring \subseteq new /\ n \in new /\ n.start = p /\ n.shard = NextShardID(ring)
  BY DEF Split
<1>3. /\ p \in Int /\ q \in Int /\ e.start \in Starts(ring) /\ \A x \in Starts(ring) : x \in Int
  BY StartsAre, PointsAre DEF GoodRing, Starts
<1> DEFINE a == StartFor(ring, q)
           b == StartFor(new, q)
<1>4. /\ a \in Starts(ring)
      /\ \/ a <= q /\ \A x \in Starts(ring) : x <= q => x <= a
         \/ \A x \in Starts(ring) : q < x /\ x <= a
  BY StartForIs
<1>5. /\ b \in Starts(ring) \cup {p}
      /\ \/ b <= q /\ \A x \in Starts(ring) \cup {p} : x <= q => x <= b
         \/ \A x \in Starts(ring) \cup {p} : q < x /\ x <= b
  <2> HIDE DEF new
  <2> QED BY <1>1, StartForIs
<1>6. PICK f \in ring : f.start = a
  BY <1>4 DEF Starts
<1>7. ringAssignPoint(ring, q) = f.shard /\ f.shard \in Shards(ring)
  BY <1>6, AssignIs DEF Shards
<1> HIDE DEF new, a, b, n
<1>8. CASE b # p
  <2>1. a = b
    BY <1>3, <1>4, <1>5, <1>8
  <2>2. q # p
    BY <1>3, <1>5, <1>8
  <2>3. ringAssignPoint(new, q) = f.shard
    BY <1>1, <1>2, <1>6, <2>1, AssignIs DEF b
  <2> QED BY <1>7, <2>2, <2>3 DEF new
<1>9. CASE b = p
  <2>1. a = e.start
    <3>1. CASE p <= q
      <4>1. \A x \in Starts(ring) : x <= q => x <= p
        BY <1>3, <1>5, <1>9, <3>1
      <4>2. CASE e.start < p /\ \A x \in Starts(ring) : x < p => x <= e.start
        <5>1. e.start <= q
          BY <1>3, <3>1, <4>2
        <5>2. a <= q /\ e.start <= a
          BY <1>3, <1>4, <5>1
        <5>3. a < p
          BY <1>3, <1>4, <4>1, <5>2
        <5> QED BY <1>3, <1>4, <4>2, <5>2, <5>3
      <4>3. CASE p < e.start /\ \A x \in Starts(ring) : p < x /\ x <= e.start
        <5>1. ~(a <= q)
          BY <1>3, <1>4, <4>1, <4>3
        <5>2. e.start <= a
          BY <1>3, <1>4, <5>1
        <5> QED BY <1>3, <1>4, <4>3, <5>2
      <4> QED BY <4>2, <4>3 DEF Before
    <3>2. CASE q < p
      <4>1. \A x \in Starts(ring) : q < x /\ x <= p
        BY <1>3, <1>5, <1>9, <3>2
      <4>2. \A x \in Starts(ring) : x <= a
        BY <1>3, <1>4, <4>1
      <4>3. a < p /\ e.start < p
        BY <1>3, <1>4, <4>1
      <4>4. a <= e.start
        BY <1>3, <1>4, <4>3 DEF Before
      <4> QED BY <1>3, <1>4, <4>2, <4>4
    <3> QED BY <1>3, <3>1, <3>2
  <2>2. f = e
    BY <1>6, <2>1 DEF GoodRing
  <2>3. ringAssignPoint(new, q) = n.shard
    BY <1>1, <1>2, <1>9, AssignIs DEF b
  <2> QED BY <1>2, <1>7, <2>2, <2>3 DEF new
<1> QED BY <1>8, <1>9

(***************************************************************************)
(* What a log makes of the ring.                                           *)
(***************************************************************************)

\* The recursion in Effective.
Counts(l, n) == \A m \in 1 .. n - 1 : l[m].clerk = l[n].clerk => l[m].seq < l[n].seq
Start == [cfg |-> ZeroRingConfig, ops |-> {}]
After(l, n, r) ==
    IF Counts(l, n) /\ Valid(r.cfg, l[n])
    THEN [cfg |-> applyOp(r.cfg, l[n]), ops |-> r.ops \cup {l[n]}]
    ELSE r
IsRingHist(f, l) == f = [n \in 0 .. Len(l) |-> IF n = 0 THEN Start ELSE After(l, n, f[n - 1])]
RingHist(l) == CHOOSE f : IsRingHist(f, l)

LEMMA EffectiveIs == \A l : Effective(l) = RingHist(l)[Len(l)].ops
BY DEF Effective, RingHist, IsRingHist, Counts, Start, After

LEMMA RingHistIs ==
    ASSUME NEW l, IsSeq(l)
    PROVE  /\ RingHist(l)[0] = Start
           /\ \A n \in 1 .. Len(l) : RingHist(l)[n] = After(l, n, RingHist(l)[n - 1])
<1> DEFINE Is(f, n) == f = [k \in 0 .. n |-> IF k = 0 THEN Start ELSE After(l, k, f[k - 1])]
           T == {n \in Nat : \E f : Is(f, n)}
<1>1. 0 \in T
  <2> DEFINE f == [k \in 0 .. 0 |-> Start]
  <2>1. Is(f, 0)
    OBVIOUS
  <2> QED BY <2>1
<1>2. \A n \in T : n + 1 \in T
  <2> SUFFICES ASSUME NEW n \in Nat, NEW f, Is(f, n) PROVE \E h : Is(h, n + 1)
    OBVIOUS
  <2> DEFINE h == [k \in 0 .. n + 1 |-> IF k <= n THEN f[k] ELSE After(l, n + 1, f[n])]
  <2>1. \A k \in 0 .. n : h[k] = f[k]
    OBVIOUS
  <2>2. h[n + 1] = After(l, n + 1, h[n])
    OBVIOUS
  <2>3. \A k \in 0 .. n + 1 : h[k] = IF k = 0 THEN Start ELSE After(l, k, h[k - 1])
    <3> SUFFICES ASSUME NEW k \in 0 .. n + 1
                 PROVE  h[k] = IF k = 0 THEN Start ELSE After(l, k, h[k - 1])
      OBVIOUS
    <3> HIDE DEF h
    <3>1. CASE k = n + 1
      BY <2>2, <3>1
    <3>2. CASE k # n + 1
      <4>1. k \in 0 .. n /\ (k # 0 => k - 1 \in 0 .. n)
        BY <3>2
      <4>2. f[k] = IF k = 0 THEN Start ELSE After(l, k, f[k - 1])
        BY <4>1
      <4> QED BY <2>1, <4>1, <4>2
    <3> QED BY <3>1, <3>2
  <2>4. h = [k \in 0 .. n + 1 |-> h[k]]
    OBVIOUS
  <2> HIDE DEF h
  <2>5. Is(h, n + 1)
    BY <2>3, <2>4
  <2> QED BY <2>5
<1>3. T = Nat
  <2> HIDE DEF T
  <2>1. T \in SUBSET Nat
    BY DEF T
  <2> QED BY <1>1, <1>2, <2>1, AllNaturals
<1>4. Len(l) \in Nat
  BY SeqIs
<1>5. \E f : IsRingHist(f, l)
  BY <1>3, <1>4 DEF IsRingHist
<1>6. IsRingHist(RingHist(l), l)
  BY <1>5 DEF RingHist
<1> DEFINE g == RingHist(l)
<1>7. g = [n \in 0 .. Len(l) |-> IF n = 0 THEN Start ELSE After(l, n, g[n - 1])]
  BY <1>6 DEF IsRingHist
<1> HIDE DEF g
<1>8. g[0] = Start /\ \A n \in 1 .. Len(l) : g[n] = After(l, n, g[n - 1])
  BY <1>4, <1>7
<1> QED BY <1>8 DEF g

\* It depends on no later entry.
LEMMA RingHistAgrees ==
    ASSUME NEW l, IsSeq(l), NEW k, IsSeq(k), NEW n \in Nat, n <= Len(l), n <= Len(k),
           \A m \in 1 .. n : l[m] = k[m]
    PROVE  \A j \in 0 .. n : RingHist(l)[j] = RingHist(k)[j]
<1> DEFINE T == {j \in Nat : j <= n => RingHist(l)[j] = RingHist(k)[j]}
<1>0. Len(l) \in Nat /\ Len(k) \in Nat
  BY SeqIs
<1>1. 0 \in T
  BY RingHistIs
<1>2. \A j \in T : j + 1 \in T
  <2> SUFFICES ASSUME NEW j \in T, j + 1 <= n PROVE RingHist(l)[j + 1] = RingHist(k)[j + 1]
    OBVIOUS
  <2>1. RingHist(l)[j] = RingHist(k)[j] /\ j + 1 \in 1 .. n /\ (j + 1) - 1 = j
    OBVIOUS
  <2>2. /\ RingHist(l)[j + 1] = After(l, j + 1, RingHist(l)[j])
        /\ RingHist(k)[j + 1] = After(k, j + 1, RingHist(k)[j])
    <3>1. j + 1 \in 1 .. Len(l) /\ j + 1 \in 1 .. Len(k)
      BY <1>0, <2>1
    <3> QED BY <2>1, <3>1, RingHistIs
  <2>3. l[j + 1] = k[j + 1] /\ (Counts(l, j + 1) <=> Counts(k, j + 1))
    BY <2>1 DEF Counts
  <2> QED BY <2>1, <2>2, <2>3 DEF After
<1>3. T = Nat
  <2> HIDE DEF T
  <2>1. T \in SUBSET Nat
    BY DEF T
  <2> QED BY <1>1, <1>2, <2>1, AllNaturals
<1> QED BY <1>3

\* The versions of the ring are good, grow, and keep what they have judged.
RingLogOK(l) ==
    LET H == RingHist(l)
    IN /\ \A n \in 0 .. Len(l) :
             /\ GoodCfg(H[n].cfg)
             /\ \A o \in H[n].ops : \E m \in 1 .. n : l[m] = o
       /\ \A n \in 0 .. Len(l) : \A m \in 0 .. n : H[m].cfg.ring \subseteq H[n].cfg.ring
       /\ \A n \in 1 .. Len(l) : \A m \in 1 .. n : l[m] \in H[m].ops <=> l[m] \in H[n].ops

LEMMA RingLogAppend ==
    ASSUME NEW l, IsSeq(l), RingLogOK(l), NEW e, RingOp(e), e.seq \in Nat
    PROVE  /\ RingLogOK(Append(l, e))
           /\ \A j \in 0 .. Len(l) : RingHist(Append(l, e))[j] = RingHist(l)[j]
<1> DEFINE k == Append(l, e)
           N == Len(l)
           H == RingHist(l)
           K == RingHist(k)
<1>1. /\ IsSeq(k) /\ Len(k) = N + 1 /\ N \in Nat /\ k[N + 1] = e
      /\ \A n \in 1 .. N : k[n] = l[n]
  BY AppendIs, SeqIs
<1> HIDE DEF k
<1>2. \A j \in 0 .. N : K[j] = H[j]
  BY <1>1, RingHistAgrees
<1>3. K[N + 1] = After(k, N + 1, H[N])
  <2>1. K[N + 1] = After(k, N + 1, K[N + 1 - 1])
    BY <1>1, RingHistIs
  <2> QED BY <1>1, <1>2, <2>1
<1>4. /\ \A n \in 0 .. N : GoodCfg(H[n].cfg) /\ \A o \in H[n].ops : \E m \in 1 .. n : l[m] = o
      /\ \A n \in 0 .. N : \A m \in 0 .. n : H[m].cfg.ring \subseteq H[n].cfg.ring
      /\ \A n \in 1 .. N : \A m \in 1 .. n : l[m] \in H[m].ops <=> l[m] \in H[n].ops
  BY DEF RingLogOK
<1> HIDE DEF H, K, N
<1>5. /\ GoodCfg(K[N + 1].cfg) /\ H[N].cfg.ring \subseteq K[N + 1].cfg.ring
      /\ \A o : o \in K[N + 1].ops => o \in H[N].ops \/ o = e
      /\ \A m \in 1 .. N : l[m] \in K[N + 1].ops <=> l[m] \in H[N].ops
  <2>1. CASE Counts(k, N + 1) /\ Valid(H[N].cfg, e)
    <3>1. K[N + 1].cfg = applyOp(H[N].cfg, e) /\ K[N + 1].ops = H[N].ops \cup {e}
      BY <1>1, <1>3, <2>1 DEF After
    <3>2. GoodCfg(H[N].cfg)
      BY <1>1, <1>4
    <3>3. \A m \in 1 .. N : l[m] # e
      BY <1>1, <2>1 DEF Counts
    <3> QED BY <3>1, <3>2, <3>3, <2>1, AppliedGood DEF GoodCfg
  <2>2. CASE ~(Counts(k, N + 1) /\ Valid(H[N].cfg, e))
    <3>1. K[N + 1] = H[N]
      BY <1>1, <1>3, <2>2 DEF After
    <3> QED BY <1>1, <1>4, <3>1
  <2> QED BY <2>1, <2>2
<1>6. ASSUME NEW n \in 0 .. N + 1
      PROVE  /\ GoodCfg(K[n].cfg) /\ \A o \in K[n].ops : \E m \in 1 .. n : k[m] = o
             /\ \A m \in 0 .. n : K[m].cfg.ring \subseteq K[n].cfg.ring
             /\ \A m \in 1 .. n : k[m] \in K[m].ops <=> k[m] \in K[n].ops
  <2>1. CASE n \in 0 .. N
    <3>1. \A m \in 0 .. n : K[m] = H[m]
      BY <1>1, <1>2, <2>1
    <3>2. \A m \in 1 .. n : k[m] = l[m]
      BY <1>1, <2>1
    <3>3. K[n] = H[n]
      BY <2>1, <3>1
    <3>4. \A m \in 0 .. n : K[m].cfg.ring \subseteq K[n].cfg.ring
      BY <1>4, <2>1, <3>1, <3>3
    <3>5. \A m \in 1 .. n : k[m] \in K[m].ops <=> k[m] \in K[n].ops
      BY <1>4, <2>1, <3>1, <3>2, <3>3
    <3>6. GoodCfg(K[n].cfg) /\ \A o \in K[n].ops : \E m \in 1 .. n : k[m] = o
      BY <1>4, <2>1, <3>2, <3>3
    <3> QED BY <3>4, <3>5, <3>6
  <2>2. CASE n = N + 1
    <3>1. \A m \in 0 .. N : K[m].cfg.ring \subseteq K[n].cfg.ring
      BY <1>1, <1>2, <1>4, <1>5, <2>2
    <3>2. \A m \in 1 .. N : k[m] \in K[m].ops <=> k[m] \in K[n].ops
      BY <1>1, <1>2, <1>4, <1>5, <2>2
    <3>3. \A o \in K[n].ops : \E m \in 1 .. n : k[m] = o
      <4> SUFFICES ASSUME NEW o \in K[n].ops PROVE \E m \in 1 .. n : k[m] = o
        OBVIOUS
      <4>1. CASE o = e
        BY <1>1, <2>2, <4>1
      <4>2. CASE o \in H[N].ops
        <5>1. PICK m \in 1 .. N : l[m] = o
          BY <1>1, <1>4, <4>2
        <5> QED BY <1>1, <2>2, <5>1
      <4> QED BY <1>5, <2>2, <4>1, <4>2
    <3> QED BY <1>1, <1>5, <2>2, <3>1, <3>2, <3>3
  <2> QED BY <1>1, <2>1, <2>2
<1>7. RingLogOK(k)
  BY <1>1, <1>6 DEF RingLogOK, K
<1> QED BY <1>2, <1>7 DEF k, K, H, N

(***************************************************************************)
(* The ring controller.                                                    *)
(***************************************************************************)

\* After the first a entries of l, the duplicate table has the newest request of
\* clerk c and what came of it.
DedupOK(l, a, c, d) ==
    /\ d.seq \in Nat
    /\ \A m \in 1 .. a : l[m].clerk = c => l[m].seq <= d.seq
    /\ d.seq > 0 => \E m \in 1 .. a :
          /\ l[m].clerk = c /\ l[m].seq = d.seq /\ d.err \in {"OK", "InvalidArgs"}
          /\ d.err = "OK" <=> l[m] \in RingHist(l)[a].ops

ReplicasOK ==
    /\ ringConfigs = [s \in Server |-> ringConfigs[s]]
    /\ dedup = [s \in Server |-> dedup[s]]
    /\ \A s \in Server :
          /\ IsSeq(ringConfigs[s]) /\ Len(ringConfigs[s]) > 0
          /\ latestRing(s) = RingHist(log)[applied[s]].cfg
          /\ dedup[s] = [c \in Clerk |-> dedup[s][c]]
          /\ \A c \in Clerk : DedupOK(log, applied[s], c, dedup[s][c])

VerdictOK(l, r) ==
    \E m \in 1 .. Len(l) :
        /\ l[m] = r.op
        /\ r.verdict = "OK" <=> l[m] \in RingHist(l)[Len(l)].ops

VerdictsOK ==
    \A c \in Clerk : call[c].verdict \in {"OK", "InvalidArgs"} => VerdictOK(log, call[c])

\* The half that a splitter moves is in the newest ring.
HalfOK(l, r) ==
    \E e \in RingHist(l)[Len(l)].cfg.ring : e.shard = r.newID /\ e.start = r.point

StepOK(l, r) ==
    /\ r.pc \in {"idle", "split", "move"}
    /\ r.pc # "idle" => r = [pc |-> r.pc, num |-> r.num, point |-> r.point, newID |-> r.newID,
                             owner |-> r.owner, target |-> r.target]
    /\ r.pc = "move" => HalfOK(l, r)

StepsOK == step = [c \in Clerk |-> step[c]] /\ \A c \in Clerk : StepOK(log, step[c])

RingInv ==
    /\ kind = "shards" => \A s \in Server : ringConfigs[s] = <<ZeroRingConfig>>
    /\ kind = "shards" => \A c \in Clerk : step[c].pc = "idle"
    /\ kind = "ring" => RingLogOK(log) /\ ReplicasOK /\ VerdictsOK /\ StepsOK

(***************************************************************************)
(* The steps of both controllers.                                          *)
(***************************************************************************)

\* A replica's ring is good and part of the newest.
LEMMA RingOf ==
    ASSUME CommandsOK, RingLogOK(log), ReplicasOK, NEW s \in Server
    PROVE  /\ GoodCfg(latestRing(s))
           /\ latestRing(s).ring \subseteq RingHist(log)[Len(log)].cfg.ring
<1>1. Len(log) \in Nat /\ applied[s] \in 0 .. Len(log)
  BY SeqIs DEF CommandsOK
<1>2. latestRing(s) = RingHist(log)[applied[s]].cfg
  BY DEF ReplicasOK
<1> QED BY <1>1, <1>2 DEF RingLogOK

\* A splitter chooses a point of the ring.
LEMMA DecisionIs ==
    ASSUME NEW cfg, GoodCfg(cfg), NEW loads, NEW d \in Decision(cfg, loads)
    PROVE  d.point \in Point
<1> DEFINE v == Hottest(loads, DetectHot(loads, Shards(cfg.ring)))
<1>1. Divisible(cfg.ring, v) /\ d.point = Midpoint(cfg.ring, v)
  BY DEF Decision
<1> HIDE DEF v
<1>2. Shards(ZeroRingConfig.ring) = {}
  BY ZeroIs DEF Shards
<1>3. GoodRing(cfg.ring)
  BY <1>1, <1>2 DEF GoodCfg, LiveCfg, Divisible
<1> QED BY <1>1, <1>3, MidpointIs

LEMMA ShardCmdStep ==
    ASSUME CommandsInv, kind = "shards", CtrlerNext
    PROVE  CmdStep
<1>0. seq \in [Clerk -> Nat]
  BY DEF CommandsInv, CommandsOK
<1>1. ASSUME NEW s \in Server, applyLoop(s) PROVE CmdStep
  BY <1>1 DEF applyLoop, CmdStep
<1>2. ASSUME NEW s \in Server, RestartCtrler(s) PROVE CmdStep
  BY <1>2 DEF RestartCtrler, CmdStep
<1>3. CASE Commit
  BY <1>3 DEF CmdStep
<1>4. ASSUME NEW c \in Clerk, Rejected(c) PROVE CmdStep
  BY <1>4 DEF Rejected, CmdStep, Others
<1>5. ASSUME NEW c \in Clerk, NEW type \in {"Join", "Leave"}, NEW gids \in SUBSET GID,
             Member(c, type, gids)
      PROVE  CmdStep
  <2> DEFINE op == [clerk |-> c, seq |-> seq[c] + 1, type |-> type, gids |-> gids]
  <2>1. Issue(c, op)
    BY <1>5 DEF Member
  <2>2. op.clerk = c /\ op.seq = seq[c] + 1 /\ op.type = type /\ op.gids = gids
    OBVIOUS
  <2> HIDE DEF op
  <2>3. OpOK(op)
    BY <1>0, <2>2 DEF OpOK, ShardOp
  <2> QED BY <2>1, <2>2, <2>3 DEF CmdStep
<1>6. ASSUME NEW c \in Clerk, JoinCall(c) PROVE CmdStep
  BY <1>5, <1>6 DEF JoinCall
<1>7. ASSUME NEW c \in Clerk, LeaveCall(c) PROVE CmdStep
  BY <1>5, <1>7 DEF LeaveCall
<1>8. ASSUME NEW c \in Clerk, MoveCall(c) PROVE CmdStep
  <2>1. CASE Rejected(c)
    BY <1>4, <2>1
  <2>2. ASSUME NEW shard \in MovedShards, NEW g \in GID,
               Issue(c, [clerk |-> c, seq |-> seq[c] + 1, type |-> "Move",
                         shard |-> shard, gid |-> g])
        PROVE  CmdStep
    <3> DEFINE op == [clerk |-> c, seq |-> seq[c] + 1, type |-> "Move", shard |-> shard, gid |-> g]
    <3>1. op.clerk = c /\ op.seq = seq[c] + 1 /\ op.type = "Move" /\ op.shard = shard /\ op.gid = g
      OBVIOUS
    <3>2. Issue(c, op)
      BY <2>2
    <3> HIDE DEF op
    <3>3. OpOK(op)
      BY <1>0, <3>1, CtrlerAssumption DEF OpOK, ShardOp
    <3> QED BY <3>1, <3>2, <3>3 DEF CmdStep
  <2> QED BY <1>8, <2>1, <2>2 DEF MoveCall
<1>9. ASSUME NEW c \in Clerk, RetryCall(c) PROVE CmdStep
  BY <1>4, <1>9 DEF RetryCall, CmdStep
<1> QED BY <1>1, <1>2, <1>3, <1>6, <1>7, <1>8, <1>9 DEF CtrlerNext

LEMMA RingCmdStep ==
    ASSUME CommandsInv, RingInv, kind = "ring", RingNext
    PROVE  CmdStep
<1>0. seq \in [Clerk -> Nat]
  BY DEF CommandsInv, CommandsOK
<1>1. ASSUME NEW s \in Server, ringApplyLoop(s) PROVE CmdStep
  BY <1>1 DEF ringApplyLoop, CmdStep
<1>2. ASSUME NEW s \in Server, RestartRing(s) PROVE CmdStep
  BY <1>2 DEF RestartRing, CmdStep
<1>3. CASE Commit
  BY <1>3 DEF CmdStep
<1>4. CASE InitCall
  <2>1. PICK ring \in InitRings :
            Issue(Operator, [clerk |-> Operator, seq |-> 1, type |-> "Init", ring |-> ring])
    BY <1>4 DEF InitCall
  <2> DEFINE op == [clerk |-> Operator, seq |-> 1, type |-> "Init", ring |-> ring]
  <2>2. seq[Operator] = 0 /\ Operator \in Clerk
    BY <1>4, RingCtrlerAssumption DEF InitCall
  <2>3. Issue(Operator, op) /\ op.clerk = Operator /\ op.seq = seq[Operator] + 1
        /\ op.type = "Init" /\ op.ring = ring /\ op.seq = 1
    BY <2>1, <2>2
  <2> HIDE DEF op
  <2>4. OpOK(op)
    BY <2>2, <2>3 DEF OpOK, RingOp
  <2> QED BY <2>2, <2>3, <2>4 DEF CmdStep
<1>5. ASSUME NEW c \in Clerk, Retry(c) PROVE CmdStep
  BY <1>5 DEF CmdStep
<1>6. ASSUME NEW c \in Clerk, GiveUp(c) PROVE CmdStep
  BY <1>6 DEF GiveUp, CmdStep, Others
<1>7. ASSUME NEW c \in Clerk, decide(c) PROVE CmdStep
  <2>1. PICK s \in Server : \E d \in UNION {Decision(latestRing(s), loads) :
                                loads \in [Shards(latestRing(s).ring) -> 0 .. MaxLoad]} :
            Issue(c, [clerk |-> c, seq |-> seq[c] + 1, type |-> "Split",
                      shard |-> d.victim, point |-> d.point])
    BY <1>7 DEF decide
  <2>2. PICK loads : \E d \in Decision(latestRing(s), loads) :
            Issue(c, [clerk |-> c, seq |-> seq[c] + 1, type |-> "Split",
                      shard |-> d.victim, point |-> d.point])
    BY <2>1
  <2>3. PICK d \in Decision(latestRing(s), loads) :
            Issue(c, [clerk |-> c, seq |-> seq[c] + 1, type |-> "Split",
                      shard |-> d.victim, point |-> d.point])
    BY <2>2
  <2>4. d.point \in Point
    BY <2>3, RingOf, DecisionIs DEF CommandsInv, RingInv
  <2> DEFINE op == [clerk |-> c, seq |-> seq[c] + 1, type |-> "Split",
                    shard |-> d.victim, point |-> d.point]
  <2>5. Issue(c, op) /\ op.clerk = c /\ op.seq = seq[c] + 1 /\ op.type = "Split" /\ op.point = d.point
    BY <2>3
  <2> HIDE DEF op
  <2>6. OpOK(op)
    BY <1>0, <2>4, <2>5 DEF OpOK, RingOp
  <2> QED BY <2>5, <2>6 DEF CmdStep
<1>8. ASSUME NEW c \in Clerk, confirm(c) PROVE CmdStep
  <2>1. CASE UNCHANGED commandVars
    BY <2>1 DEF commandVars, CmdStep, Others
  <2>2. CASE Issue(c, [clerk |-> c, seq |-> seq[c] + 1, type |-> "Move",
                       shard |-> step[c].newID, gid |-> step[c].target])
    <3> DEFINE op == [clerk |-> c, seq |-> seq[c] + 1, type |-> "Move",
                      shard |-> step[c].newID, gid |-> step[c].target]
    <3>1. Issue(c, op) /\ op.clerk = c /\ op.seq = seq[c] + 1 /\ op.type = "Move"
      BY <2>2
    <3> HIDE DEF op
    <3>2. OpOK(op)
      BY <1>0, <3>1 DEF OpOK, RingOp
    <3> QED BY <3>1, <3>2 DEF CmdStep
  <2> QED BY <1>8, <2>1, <2>2 DEF confirm
<1>9. ASSUME NEW c \in Clerk, moved(c) PROVE CmdStep
  BY <1>9 DEF moved, commandVars, CmdStep, Others
<1> QED BY <1>1, <1>2, <1>3, <1>4, <1>5, <1>6, <1>7, <1>8, <1>9 DEF RingNext

LEMMA NextIsCmdStep == ASSUME CommandsInv, RingInv, [Next]_vars PROVE CmdStep
<1>1. CASE UNCHANGED vars
  BY <1>1 DEF vars, commandVars, CmdStep, Others
<1> QED BY <1>1, ShardCmdStep, RingCmdStep DEF Next

(***************************************************************************)
(* A ring controller's log grows.                                          *)
(***************************************************************************)
Grown ==
    /\ Len(log) \in Nat /\ Len(log') \in Nat /\ Len(log) <= Len(log')
    /\ \A n \in 1 .. Len(log) : log'[n] = log[n]
    /\ RingLogOK(log) /\ RingLogOK(log')
    /\ \A j \in 0 .. Len(log) : RingHist(log')[j] = RingHist(log)[j]

LEMMA LogGrows ==
    ASSUME CommandsInv, kind = "ring", RingLogOK(log), CmdStep
    PROVE  Grown
<1>0. IsSeq(log) /\ Len(log) \in Nat
  BY SeqIs DEF CommandsInv, CommandsOK
<1>1. CASE log' = log
  BY <1>0, <1>1 DEF Grown
<1>2. CASE Commit
  <2>1. PICK p \in inFlight : log' = Append(log, p.op)
    BY <1>2 DEF Commit
  <2>2. p.op \in Made
    BY DEF Made
  <2>3. RingOp(p.op) /\ p.op.seq \in Nat
    BY <2>2 DEF CommandsInv, KnownOK, OpOK
  <2>4. RingLogOK(log') /\ \A j \in 0 .. Len(log) : RingHist(log')[j] = RingHist(log)[j]
    BY <1>0, <2>1, <2>3, RingLogAppend
  <2>5. Len(log') = Len(log) + 1 /\ \A n \in 1 .. Len(log) : log'[n] = log[n]
    BY <1>0, <2>1, AppendIs
  <2> QED BY <1>0, <2>4, <2>5 DEF Grown
<1>3. log' = log \/ Commit
  BY DEF CmdStep, Issue, Retry, proposeAndWait, Deliver, Crash, Others
<1> QED BY <1>1, <1>2, <1>3

LEMMA ReplicasGrow ==
    ASSUME CommandsOK, Grown, ReplicasOK, UNCHANGED <<ringConfigs, dedup, applied>>
    PROVE  ReplicasOK'
<1>1. ASSUME NEW s \in Server PROVE applied[s] \in Nat /\ applied[s] <= Len(log)
  BY DEF CommandsOK
<1>2. ASSUME NEW s \in Server PROVE RingHist(log')[applied[s]] = RingHist(log)[applied[s]]
  BY <1>1 DEF Grown
<1>3. ASSUME NEW s \in Server, NEW c \in Clerk
      PROVE  DedupOK(log', applied[s], c, dedup[s][c])
  <2>1. \A m \in 1 .. applied[s] : log'[m] = log[m]
    BY <1>1 DEF Grown
  <2>2. DedupOK(log, applied[s], c, dedup[s][c])
    BY DEF ReplicasOK
  <2> QED BY <1>2, <2>1, <2>2 DEF DedupOK
<1>4. \A s \in Server : latestRing(s)' = latestRing(s)
  BY DEF latestRing
<1> QED BY <1>2, <1>3, <1>4 DEF ReplicasOK

LEMMA VerdictsGrow ==
    ASSUME Grown, VerdictsOK,
           \A c \in Clerk : call'[c].verdict \in {"OK", "InvalidArgs"} =>
               \/ call'[c].op = call[c].op /\ call'[c].verdict = call[c].verdict
               \/ VerdictOK(log', call'[c])
    PROVE  VerdictsOK'
<1> SUFFICES ASSUME NEW c \in Clerk, call'[c].verdict \in {"OK", "InvalidArgs"},
                    call'[c].op = call[c].op, call'[c].verdict = call[c].verdict
             PROVE  VerdictOK(log', call'[c])
  BY DEF VerdictsOK
<1>1. PICK m \in 1 .. Len(log) :
          /\ log[m] = call[c].op
          /\ call[c].verdict = "OK" <=> log[m] \in RingHist(log)[Len(log)].ops
  BY DEF VerdictsOK, VerdictOK
<1>2. log[m] \in RingHist(log)[m].ops <=> log[m] \in RingHist(log)[Len(log)].ops
  BY DEF Grown, RingLogOK
<1>3. m \in 1 .. Len(log') /\ log'[m] = log[m] /\ RingHist(log')[m] = RingHist(log)[m]
  BY DEF Grown
<1>4. log'[m] \in RingHist(log')[m].ops <=> log'[m] \in RingHist(log')[Len(log')].ops
  BY <1>3 DEF Grown, RingLogOK
<1> QED BY <1>1, <1>2, <1>3, <1>4 DEF VerdictOK

LEMMA HalfGrows ==
    ASSUME Grown, NEW r, HalfOK(log, r)
    PROVE  HalfOK(log', r)
<1>1. /\ Len(log) \in 0 .. Len(log') /\ Len(log) \in 0 .. Len(log) /\ Len(log') \in 0 .. Len(log')
      /\ RingHist(log')[Len(log)] = RingHist(log)[Len(log)]
  BY DEF Grown
<1>2. RingHist(log')[Len(log)].cfg.ring \subseteq RingHist(log')[Len(log')].cfg.ring
  BY <1>1 DEF Grown, RingLogOK
<1> QED BY <1>1, <1>2 DEF HalfOK

\* The step of one splitter changes, if any does.
LEMMA StepsGrow ==
    ASSUME Grown, StepsOK, NEW c \in Clerk, NEW r, StepOK(log', r),
           step' = step \/ step' = [step EXCEPT ![c] = r]
    PROVE  StepsOK'
<1>1. ASSUME NEW d \in Clerk PROVE StepOK(log', step[d])
  BY HalfGrows DEF StepsOK, StepOK
<1>2. step' = [d \in Clerk |-> step'[d]] /\ \A d \in Clerk : step'[d] = step[d] \/ step'[d] = r
  BY DEF StepsOK
<1> QED BY <1>1, <1>2 DEF StepsOK

\* A replica that applies an entry makes what the log makes.
LEMMA RingApplied ==
    ASSUME CommandsInv, kind = "ring", RingLogOK(log), ReplicasOK,
           NEW s \in Server, ringApplyLoop(s)
    PROVE  /\ ReplicasOK'
           /\ LET op == log[applied[s] + 1]
              IN VerdictOK(log, [op |-> op, verdict |-> Answer(s, op)]) \/ call' = call
<1> DEFINE a == applied[s]
           op == log[a + 1]
           c == op.clerk
           d == dedup[s][c]
           H == RingHist(log)
           v == Verdict(s, op)
<1>1. /\ Len(log) \in Nat /\ a \in Nat /\ a < Len(log) /\ a + 1 \in 1 .. Len(log) /\ a + 1 - 1 = a
      /\ IsSeq(log)
  BY SeqIs DEF ringApplyLoop, Deliver, CommandsInv, CommandsOK
<1>2. /\ log' = log /\ seq' = seq /\ applied' = [applied EXCEPT ![s] = a + 1]
      /\ applied \in [Server -> Nat]
      /\ \/ call[c].pc = "wait" /\ call[c].op = op /\ call' = Return(c, Answer(s, op))
         \/ call' = call
  BY DEF ringApplyLoop, Deliver, CommandsInv, CommandsOK
<1>3. op \in Made
  BY <1>1 DEF Made
<1>4. c \in Clerk /\ op.seq \in Nat \ {0} /\ RingOp(op)
  BY <1>3 DEF CommandsInv, KnownOK, OpOK
<1>5. /\ ringConfigs = [t \in Server |-> ringConfigs[t]] /\ dedup = [t \in Server |-> dedup[t]]
      /\ IsSeq(ringConfigs[s]) /\ Len(ringConfigs[s]) > 0
      /\ latestRing(s) = H[a].cfg /\ dedup[s] = [b \in Clerk |-> dedup[s][b]]
      /\ \A b \in Clerk : DedupOK(log, a, b, dedup[s][b])
  BY DEF ReplicasOK
<1>6. H[a + 1] = After(log, a + 1, H[a])
  BY <1>1, RingHistIs
<1>7. /\ \A n \in 0 .. Len(log) : \A o \in H[n].ops : \E m \in 1 .. n : log[m] = o
      /\ \A n \in 1 .. Len(log) : \A m \in 1 .. n : log[m] \in H[m].ops <=> log[m] \in H[n].ops
  BY DEF RingLogOK
<1>8. /\ d.seq \in Nat
      /\ \A m \in 1 .. a : log[m].clerk = c => log[m].seq <= d.seq
      /\ d.seq > 0 => \E m \in 1 .. a :
            /\ log[m].clerk = c /\ log[m].seq = d.seq /\ d.err \in {"OK", "InvalidArgs"}
            /\ d.err = "OK" <=> log[m] \in H[a].ops
  BY <1>4, <1>5 DEF DedupOK
<1>9. \A m \in 1 .. a : log[m].clerk \in Clerk /\ log[m].seq \in Nat
  <2> SUFFICES ASSUME NEW m \in 1 .. a PROVE log[m] \in Made
    BY DEF CommandsInv, KnownOK, OpOK
  <2> QED BY <1>1 DEF Made
<1>10. /\ IF op.seq <= d.seq THEN UNCHANGED <<ringConfigs, dedup>>
          ELSE /\ dedup' = [dedup EXCEPT ![s][c] = [seq |-> op.seq, err |-> v]]
               /\ IF Valid(latestRing(s), op)
                  THEN ringConfigs' = [ringConfigs EXCEPT ![s] = Append(@, applyOp(latestRing(s), op))]
                  ELSE UNCHANGED ringConfigs
       /\ Answer(s, op) = IF op.seq <= d.seq THEN d.err ELSE v
       /\ v = IF Valid(H[a].cfg, op) THEN "OK" ELSE "InvalidArgs"
  BY <1>5 DEF ringApplyLoop, Answer, Verdict
<1> HIDE DEF a, op, c, d, H, v
<1>11. ASSUME NEW b \in Clerk, NEW e, DedupOK(log, a, b, e), b = c => op.seq <= e.seq
       PROVE  DedupOK(log, a + 1, b, e)
  <2>1. /\ e.seq \in Nat
        /\ \A m \in 1 .. a : log[m].clerk = b => log[m].seq <= e.seq
        /\ e.seq > 0 => \E m \in 1 .. a :
              /\ log[m].clerk = b /\ log[m].seq = e.seq /\ e.err \in {"OK", "InvalidArgs"}
              /\ e.err = "OK" <=> log[m] \in H[a].ops
    BY <1>11 DEF DedupOK, H
  <2>2. \A m \in 1 .. a + 1 : log[m].clerk = b => log[m].seq <= e.seq
    <3> SUFFICES ASSUME NEW m \in 1 .. a + 1, log[m].clerk = b PROVE log[m].seq <= e.seq
      OBVIOUS
    <3>1. CASE m = a + 1
      BY <1>11, <3>1 DEF op, c
    <3>2. CASE m # a + 1
      <4>1. m \in 1 .. a
        BY <1>1, <3>2
      <4> QED BY <2>1, <4>1
    <3> QED BY <3>1, <3>2
  <2>3. \A m \in 1 .. a : log[m] \in H[a].ops <=> log[m] \in H[a + 1].ops
    <3> SUFFICES ASSUME NEW m \in 1 .. a PROVE log[m] \in H[a].ops <=> log[m] \in H[a + 1].ops
      OBVIOUS
    <3>1. a \in 1 .. Len(log) /\ m \in 1 .. a + 1
      BY <1>1
    <3> QED BY <1>1, <1>7, <3>1
  <2>4. \A m \in 1 .. a : m \in 1 .. a + 1
    BY <1>1
  <2>5. e.seq > 0 => \E m \in 1 .. a + 1 :
              /\ log[m].clerk = b /\ log[m].seq = e.seq /\ e.err \in {"OK", "InvalidArgs"}
              /\ e.err = "OK" <=> log[m] \in H[a + 1].ops
    BY <2>1, <2>3, <2>4
  <2> QED BY <2>1, <2>2, <2>5 DEF DedupOK, H
<1>12. ASSUME ringConfigs' = [t \in Server |-> ringConfigs'[t]],
              dedup' = [t \in Server |-> dedup'[t]],
              \A t \in Server \ {s} : ringConfigs'[t] = ringConfigs[t] /\ dedup'[t] = dedup[t],
              IsSeq(ringConfigs'[s]), Len(ringConfigs'[s]) > 0,
              ringConfigs'[s][Len(ringConfigs'[s])] = H[a + 1].cfg,
              dedup'[s] = [b \in Clerk |-> dedup'[s][b]],
              \A b \in Clerk : DedupOK(log, a + 1, b, dedup'[s][b])
       PROVE  ReplicasOK'
  <2>1. ASSUME NEW t \in Server
        PROVE  /\ IsSeq(ringConfigs'[t]) /\ Len(ringConfigs'[t]) > 0
               /\ ringConfigs'[t][Len(ringConfigs'[t])] = RingHist(log)[applied'[t]].cfg
               /\ dedup'[t] = [b \in Clerk |-> dedup'[t][b]]
               /\ \A b \in Clerk : DedupOK(log, applied'[t], b, dedup'[t][b])
    <3>1. CASE t = s
      BY <1>2, <1>12, <3>1 DEF H
    <3>2. CASE t # s
      <4>1. applied'[t] = applied[t] /\ ringConfigs'[t] = ringConfigs[t] /\ dedup'[t] = dedup[t]
        BY <1>2, <1>12, <3>2
      <4>2. /\ IsSeq(ringConfigs[t]) /\ Len(ringConfigs[t]) > 0
            /\ latestRing(t) = RingHist(log)[applied[t]].cfg
            /\ dedup[t] = [b \in Clerk |-> dedup[t][b]]
            /\ \A b \in Clerk : DedupOK(log, applied[t], b, dedup[t][b])
        BY DEF ReplicasOK
      <4> QED BY <4>1, <4>2 DEF latestRing
    <3> QED BY <3>1, <3>2
  <2> QED BY <1>2, <1>12, <2>1 DEF ReplicasOK, latestRing
<1>13. CASE op.seq <= d.seq
  <2>1. ~Counts(log, a + 1)
    <3>1. PICK m \in 1 .. a : log[m].clerk = c /\ log[m].seq = d.seq
      BY <1>4, <1>8, <1>13
    <3>2. ~(log[m].seq < op.seq)
      BY <1>4, <1>8, <1>13, <3>1
    <3> QED BY <1>1, <3>1, <3>2 DEF Counts, op, c
  <2>2. H[a + 1] = H[a]
    BY <1>6, <2>1 DEF After
  <2>3. ringConfigs' = ringConfigs /\ dedup' = dedup
    BY <1>10, <1>13
  <2>4. ReplicasOK'
    <3>1. \A b \in Clerk : DedupOK(log, a + 1, b, dedup'[s][b])
      BY <1>5, <1>11, <1>13, <2>3 DEF d
    <3> QED BY <1>5, <1>12, <2>2, <2>3, <3>1 DEF latestRing
  <2>5. ASSUME call[c].pc = "wait", call[c].op = op
        PROVE  VerdictOK(log, [op |-> op, verdict |-> Answer(s, op)])
    <3>1. PICK m \in 1 .. a : /\ log[m].clerk = c /\ log[m].seq = d.seq
                              /\ d.err = "OK" <=> log[m] \in H[a].ops
      BY <1>4, <1>8, <1>13
    <3>2. log[m] \in Made
      BY <1>1 DEF Made
    <3>3. CallOK(c)
      BY <1>4 DEF CommandsInv, CommandsOK
    <3>4. seq[c] = op.seq
      BY <2>5, <3>3 DEF CallOK
    <3>5. d.seq <= seq[c]
      BY <3>1, <3>2 DEF CommandsInv, KnownOK
    <3>6. d.seq = op.seq
      BY <1>4, <1>8, <1>13, <3>4, <3>5
    <3>7. log[m] = op
      BY <1>3, <3>1, <3>2, <3>6 DEF CommandsInv, KnownOK, c
    <3>8. log[m] \in H[a].ops <=> log[m] \in H[Len(log)].ops
      <4>1. a \in 1 .. Len(log) /\ m \in 1 .. Len(log) /\ Len(log) \in 1 .. Len(log)
        BY <1>1
      <4> QED BY <1>7, <4>1
    <3>9. m \in 1 .. Len(log) /\ Answer(s, op) = d.err
      BY <1>1, <1>10, <1>13
    <3> QED BY <3>1, <3>7, <3>8, <3>9 DEF VerdictOK, H
  <2> QED BY <1>2, <2>4, <2>5 DEF op, a
<1>14. CASE op.seq > d.seq
  <2>0. ~(op.seq <= d.seq)
    BY <1>4, <1>8, <1>14
  <2>1. Counts(log, a + 1)
    <3> SUFFICES ASSUME NEW m \in 1 .. a, log[m].clerk = c PROVE log[m].seq < op.seq
      BY <1>1 DEF Counts, op, c
    <3> QED BY <1>4, <1>8, <1>9, <1>14
  <2>2. op \notin H[a].ops
    <3> SUFFICES ASSUME op \in H[a].ops PROVE FALSE
      OBVIOUS
    <3>1. PICK m \in 1 .. a : log[m] = op
      BY <1>1, <1>7
    <3>2. op.seq <= d.seq
      BY <1>8, <3>1 DEF c
    <3> QED BY <2>0, <3>2
  <2>3. /\ v \in {"OK", "InvalidArgs"}
        /\ v = "OK" <=> op \in H[a + 1].ops
        /\ H[a + 1].cfg = IF v = "OK" THEN applyOp(latestRing(s), op) ELSE latestRing(s)
        /\ v = "OK" <=> Valid(latestRing(s), op)
    <3>1. CASE Valid(H[a].cfg, op)
      <4>1. H[a + 1].cfg = applyOp(H[a].cfg, op) /\ H[a + 1].ops = H[a].ops \cup {op}
        BY <1>6, <2>1, <3>1 DEF After, op
      <4> QED BY <1>5, <1>10, <3>1, <4>1
    <3>2. CASE ~Valid(H[a].cfg, op)
      <4>1. H[a + 1] = H[a]
        BY <1>6, <2>1, <3>2 DEF After, op
      <4> QED BY <1>5, <1>10, <2>2, <3>2, <4>1
    <3> QED BY <3>1, <3>2
  <2>4. /\ dedup' = [dedup EXCEPT ![s] = [dedup[s] EXCEPT ![c] = [seq |-> op.seq, err |-> v]]]
        /\ IF v = "OK"
           THEN ringConfigs' = [ringConfigs EXCEPT ![s] = Append(ringConfigs[s], applyOp(latestRing(s), op))]
           ELSE ringConfigs' = ringConfigs
    BY <1>10, <2>0, <2>3
  <2>5. /\ dedup' = [t \in Server |-> dedup'[t]]
        /\ \A t \in Server \ {s} : dedup'[t] = dedup[t]
        /\ dedup'[s] = [b \in Clerk |-> dedup'[s][b]]
        /\ dedup'[s][c] = [seq |-> op.seq, err |-> v]
        /\ \A b \in Clerk \ {c} : dedup'[s][b] = dedup[s][b]
    <3>1. dedup'[s] = [dedup[s] EXCEPT ![c] = [seq |-> op.seq, err |-> v]]
      BY <1>5, <2>4
    <3>2. /\ dedup' = [t \in Server |-> dedup'[t]]
          /\ \A t \in Server \ {s} : dedup'[t] = dedup[t]
      BY <1>5, <2>4
    <3> QED BY <1>4, <1>5, <3>1, <3>2
  <2>6. ASSUME NEW b \in Clerk PROVE DedupOK(log, a + 1, b, dedup'[s][b])
    <3>1. CASE b = c
      <4> DEFINE e == [seq |-> op.seq, err |-> v]
      <4>1. e.seq = op.seq /\ e.err = v
        OBVIOUS
      <4> HIDE DEF e
      <4>2. \A m \in 1 .. a + 1 : log[m].clerk = c => log[m].seq <= op.seq
        <5> SUFFICES ASSUME NEW m \in 1 .. a + 1, log[m].clerk = c PROVE log[m].seq <= op.seq
          OBVIOUS
        <5>1. CASE m = a + 1
          BY <1>4, <5>1 DEF op
        <5>2. CASE m # a + 1
          <6>1. m \in 1 .. a
            BY <1>1, <5>2
          <6> QED BY <1>4, <1>8, <1>9, <1>14, <6>1
        <5> QED BY <5>1, <5>2
      <4>3. a + 1 \in 1 .. a + 1 /\ log[a + 1] = op /\ op.clerk = c
        BY <1>1 DEF op, c
      <4>4. DedupOK(log, a + 1, c, e)
        BY <1>4, <2>3, <4>1, <4>2, <4>3 DEF DedupOK, H
      <4> QED BY <2>5, <3>1, <4>4 DEF e
    <3>2. CASE b # c
      <4>1. DedupOK(log, a, b, dedup[s][b]) /\ dedup'[s][b] = dedup[s][b]
        BY <1>5, <2>5, <3>2
      <4> QED BY <1>11, <3>2, <4>1
    <3> QED BY <3>1, <3>2
  <2>7. /\ ringConfigs' = [t \in Server |-> ringConfigs'[t]]
        /\ \A t \in Server \ {s} : ringConfigs'[t] = ringConfigs[t]
        /\ IsSeq(ringConfigs'[s]) /\ Len(ringConfigs'[s]) > 0
        /\ ringConfigs'[s][Len(ringConfigs'[s])] = H[a + 1].cfg
    <3>1. CASE v = "OK"
      <4> DEFINE h == ringConfigs[s]
                 k == Append(h, applyOp(latestRing(s), op))
      <4>1. ringConfigs' = [ringConfigs EXCEPT ![s] = k] /\ IsSeq(h)
        BY <1>5, <2>4, <3>1
      <4>2. IsSeq(k) /\ Len(k) = Len(h) + 1 /\ Len(h) \in Nat /\ k[Len(h) + 1] = applyOp(latestRing(s), op)
        BY <4>1, AppendIs, SeqIs
      <4> HIDE DEF k, h
      <4> QED BY <1>5, <2>3, <3>1, <4>1, <4>2
    <3>2. CASE v # "OK"
      BY <1>5, <2>3, <2>4, <3>2 DEF latestRing
    <3> QED BY <3>1, <3>2
  <2>8. ReplicasOK'
    BY <1>12, <2>5, <2>6, <2>7
  <2>9. VerdictOK(log, [op |-> op, verdict |-> Answer(s, op)])
    <3>1. Answer(s, op) = v
      BY <1>10, <2>0
    <3>2. op \in H[a + 1].ops <=> op \in H[Len(log)].ops
      <4>1. Len(log) \in 1 .. Len(log) /\ a + 1 \in 1 .. Len(log)
        BY <1>1
      <4> QED BY <1>7, <4>1 DEF op
    <3>3. log[a + 1] = op
      BY DEF op
    <3> QED BY <1>1, <2>3, <3>1, <3>2, <3>3 DEF VerdictOK, H
  <2> QED BY <2>8, <2>9 DEF op, a
<1> QED BY <1>4, <1>8, <1>13, <1>14

LEMMA RingRestarted ==
    ASSUME CommandsOK, RingLogOK(log), ReplicasOK, NEW s \in Server, RestartRing(s)
    PROVE  ReplicasOK'
<1>1. /\ log' = log /\ applied' = [applied EXCEPT ![s] = 0] /\ applied \in [Server -> Nat]
      /\ ringConfigs' = [ringConfigs EXCEPT ![s] = <<ZeroRingConfig>>]
      /\ dedup' = [dedup EXCEPT ![s] = NewRingCtrler.dedup]
  BY DEF RestartRing, Crash, NewRingCtrler, CommandsOK
<1>2. /\ ringConfigs = [t \in Server |-> ringConfigs[t]] /\ dedup = [t \in Server |-> dedup[t]]
  BY DEF ReplicasOK
<1> DEFINE new == NewRingCtrler.dedup
<1>3. new = [c \in Clerk |-> [seq |-> 0, err |-> Nil]]
  BY DEF NewRingCtrler
<1> HIDE DEF new
<1>4. /\ ringConfigs' = [t \in Server |-> ringConfigs'[t]] /\ dedup' = [t \in Server |-> dedup'[t]]
      /\ ringConfigs'[s] = <<ZeroRingConfig>> /\ dedup'[s] = new /\ applied'[s] = 0
      /\ \A t \in Server \ {s} : /\ ringConfigs'[t] = ringConfigs[t] /\ dedup'[t] = dedup[t]
                                 /\ applied'[t] = applied[t]
  BY <1>1, <1>2 DEF new
<1>5. RingHist(log)[0].cfg = ZeroRingConfig
  BY RingHistIs DEF CommandsOK, Start
<1>6. ASSUME NEW c \in Clerk PROVE DedupOK(log, 0, c, new[c])
  BY <1>3 DEF DedupOK
<1>7. ASSUME NEW t \in Server
      PROVE  /\ IsSeq(ringConfigs'[t]) /\ Len(ringConfigs'[t]) > 0
             /\ ringConfigs'[t][Len(ringConfigs'[t])] = RingHist(log)[applied'[t]].cfg
             /\ dedup'[t] = [b \in Clerk |-> dedup'[t][b]]
             /\ \A b \in Clerk : DedupOK(log, applied'[t], b, dedup'[t][b])
  <2>1. CASE t = s
    <3>1. IsSeq(<<ZeroRingConfig>>) /\ Len(<<ZeroRingConfig>>) = 1 /\ <<ZeroRingConfig>>[1] = ZeroRingConfig
      BY SingleIs
    <3>2. new = [b \in Clerk |-> new[b]]
      BY <1>3
    <3> QED BY <1>4, <1>5, <1>6, <2>1, <3>1, <3>2
  <2>2. CASE t # s
    <3>1. /\ IsSeq(ringConfigs[t]) /\ Len(ringConfigs[t]) > 0
          /\ latestRing(t) = RingHist(log)[applied[t]].cfg
          /\ dedup[t] = [b \in Clerk |-> dedup[t][b]]
          /\ \A b \in Clerk : DedupOK(log, applied[t], b, dedup[t][b])
      BY DEF ReplicasOK
    <3>2. ringConfigs'[t] = ringConfigs[t] /\ dedup'[t] = dedup[t] /\ applied'[t] = applied[t]
      BY <1>4, <2>2
    <3> QED BY <3>1, <3>2 DEF latestRing
  <2> QED BY <2>1, <2>2
<1> QED BY <1>1, <1>4, <1>7 DEF ReplicasOK, latestRing

\* Confirmed has seen the half.
LEMMA ConfirmedIs ==
    ASSUME CommandsOK, RingLogOK(log), ReplicasOK, NEW c \in Clerk, NEW s \in Server,
           Confirmed(c, latestRing(s))
    PROVE  HalfOK(log, step[c])
<1> DEFINE cfg == latestRing(s)
<1>1. GoodCfg(cfg) /\ cfg.ring \subseteq RingHist(log)[Len(log)].cfg.ring
  BY RingOf
<1>2. /\ step[c].newID \in DOMAIN cfg.owners
      /\ EntryOf(cfg.ring, step[c].newID).start = step[c].point
  BY DEF Confirmed
<1> HIDE DEF cfg
<1>3. LiveCfg(cfg) /\ step[c].newID \in Shards(cfg.ring)
  BY <1>1, <1>2, ZeroIs DEF GoodCfg, LiveCfg
<1>4. PICK e \in cfg.ring : e.shard = step[c].newID
  BY <1>3 DEF Shards
<1>5. EntryOf(cfg.ring, step[c].newID) = e
  BY <1>3, <1>4, EntryIs DEF LiveCfg
<1> QED BY <1>1, <1>2, <1>4, <1>5 DEF HalfOK

LEMMA RingInvStep ==
    ASSUME CommandsInv, RingInv, kind = "ring", RingNext, CmdStep
    PROVE  RingLogOK(log') /\ ReplicasOK' /\ VerdictsOK' /\ StepsOK'
<1>0. CommandsOK /\ RingLogOK(log) /\ ReplicasOK /\ VerdictsOK /\ StepsOK
  BY DEF RingInv, CommandsInv
<1>1. Grown
  BY <1>0, LogGrows
<1>2. RingLogOK(log')
  BY <1>1 DEF Grown
<1>3. ASSUME NEW c \in Clerk, Retry(c) \/ \E op : Issue(c, op)
      PROVE  VerdictsOK'
  <2>1. \E op, try : proposeAndWait(c, op, try)
    BY <1>3 DEF Retry, Issue
  <2>2. PICK op, try : proposeAndWait(c, op, try)
    BY <2>1
  <2>3. call'[c].verdict = Nil /\ \A d \in Clerk \ {c} : call'[d] = call[d]
    <3>1. /\ call'[c] = [pc |-> "wait", op |-> op, try |-> try, verdict |-> Nil]
          /\ \A d \in Clerk \ {c} : call'[d] = call[d]
      BY <1>0, <2>2, ProposeIs
    <3> QED BY <3>1
  <2> QED BY <1>0, <1>1, <2>3, VerdictsGrow, CommandsAssumption
<1>4. ASSUME call' = call PROVE VerdictsOK'
  BY <1>0, <1>1, <1>4, VerdictsGrow
<1>5. ASSUME UNCHANGED step PROVE StepsOK'
  <2>1. ASSUME NEW c \in Clerk PROVE StepOK(log', step[c])
    BY <1>0, <1>1, HalfGrows DEF StepsOK, StepOK
  <2> QED BY <1>0, <1>5, <2>1 DEF StepsOK
<1>6. ASSUME UNCHANGED <<ringConfigs, dedup, applied>> PROVE ReplicasOK'
  BY <1>0, <1>1, <1>6, ReplicasGrow
<1>7. ASSUME NEW s \in Server, ringApplyLoop(s) PROVE ReplicasOK' /\ VerdictsOK' /\ StepsOK'
  <2> DEFINE op == log[applied[s] + 1]
             v == Answer(s, op)
  <2>1. /\ ReplicasOK' /\ log' = log /\ step' = step
        /\ VerdictOK(log, [op |-> op, verdict |-> v]) \/ call' = call
        /\ \/ call[op.clerk].op = op /\ call' = Return(op.clerk, v)
           \/ call' = call
    BY <1>0, <1>7, RingApplied DEF ringApplyLoop, Deliver
  <2> HIDE DEF op, v
  <2>2. VerdictsOK'
    <3>1. CASE call' = call
      BY <1>4, <3>1
    <3>2. CASE op.clerk \notin Clerk /\ call' = Return(op.clerk, v)
      <4>1. call' = call
        BY <1>0, <3>2 DEF Return, CommandsOK
      <4> QED BY <1>4, <4>1
    <3>3. CASE /\ op.clerk \in Clerk /\ call[op.clerk].op = op /\ call' = Return(op.clerk, v)
               /\ VerdictOK(log, [op |-> op, verdict |-> v])
      <4>1. OnlyCall(op.clerk, "idle", v)
        BY <1>0, <3>3, ReturnIs
      <4>2. call'[op.clerk].op = op /\ call'[op.clerk].verdict = v
        BY <3>3, <4>1 DEF OnlyCall
      <4>3. VerdictOK(log', call'[op.clerk])
        BY <2>1, <3>3, <4>2 DEF VerdictOK
      <4>4. \A d \in Clerk \ {op.clerk} : call'[d] = call[d]
        BY <4>1 DEF OnlyCall
      <4> QED BY <1>0, <1>1, <4>3, <4>4, VerdictsGrow
    <3> QED BY <2>1, <3>1, <3>2, <3>3
  <2> QED BY <1>5, <2>1, <2>2
<1>8. ASSUME NEW s \in Server, RestartRing(s) PROVE ReplicasOK' /\ VerdictsOK' /\ StepsOK'
  <2>1. call' = call /\ step' = step
    BY <1>8 DEF RestartRing, Crash
  <2> QED BY <1>0, <1>4, <1>5, <1>8, <2>1, RingRestarted
<1>9. ASSUME Commit, UNCHANGED ringVars PROVE ReplicasOK' /\ VerdictsOK' /\ StepsOK'
  BY <1>4, <1>5, <1>6, <1>9 DEF Commit, ringVars
<1>10. ASSUME InitCall PROVE ReplicasOK' /\ VerdictsOK' /\ StepsOK'
  <2>1. UNCHANGED ringVars /\ Operator \in Clerk /\ applied' = applied /\ \E op : Issue(Operator, op)
    BY <1>10, RingCtrlerAssumption DEF InitCall, Issue, proposeAndWait
  <2> QED BY <1>3, <1>5, <1>6, <2>1 DEF ringVars
<1>11. ASSUME NEW c \in Clerk, Retry(c), UNCHANGED ringVars
       PROVE  ReplicasOK' /\ VerdictsOK' /\ StepsOK'
  <2>1. applied' = applied
    BY <1>11 DEF Retry, proposeAndWait
  <2> QED BY <1>3, <1>5, <1>6, <1>11, <2>1 DEF ringVars
<1>12. ASSUME NEW c \in Clerk, GiveUp(c) PROVE ReplicasOK' /\ VerdictsOK' /\ StepsOK'
  <2>1. call' = Return(c, "timeout") /\ UNCHANGED ringVars /\ applied' = applied
    BY <1>12 DEF GiveUp
  <2>2. OnlyCall(c, "idle", "timeout")
    BY <1>0, <2>1, ReturnIs
  <2>3. call'[c].verdict = "timeout" /\ \A d \in Clerk \ {c} : call'[d] = call[d]
    BY <2>2 DEF OnlyCall
  <2>4. VerdictsOK'
    BY <1>0, <1>1, <2>3, VerdictsGrow
  <2> QED BY <1>5, <1>6, <2>1, <2>4 DEF ringVars
<1>13. ASSUME NEW c \in Clerk, EndStep(c) PROVE StepsOK'
  <2> DEFINE r == [pc |-> "idle", num |-> step[c].num]
  <2>1. step' = [step EXCEPT ![c] = r] /\ r.pc = "idle"
    BY <1>13 DEF EndStep
  <2> HIDE DEF r
  <2>2. StepOK(log', r)
    BY <2>1 DEF StepOK
  <2> QED BY <1>0, <1>1, <2>1, <2>2, StepsGrow
<1>14. ASSUME NEW c \in Clerk, decide(c) PROVE ReplicasOK' /\ VerdictsOK' /\ StepsOK'
  <2>1. /\ UNCHANGED <<ringConfigs, dedup>>
        /\ \E s \in Server : \E d \in UNION {Decision(latestRing(s), loads) :
               loads \in [Shards(latestRing(s).ring) -> 0 .. MaxLoad]} :
               /\ Issue(c, [clerk |-> c, seq |-> seq[c] + 1, type |-> "Split",
                             shard |-> d.victim, point |-> d.point])
               /\ step' = [step EXCEPT ![c] =
                       [pc |-> "split", num |-> @.num + 1, point |-> d.point, newID |-> d.newID,
                        owner |-> d.owner, target |-> d.target]]
    BY <1>14 DEF decide
  <2>2. PICK d : /\ \E op : Issue(c, op)
                 /\ step' = [step EXCEPT ![c] =
                       [pc |-> "split", num |-> @.num + 1, point |-> d.point, newID |-> d.newID,
                        owner |-> d.owner, target |-> d.target]]
    BY <2>1
  <2> DEFINE r == [pc |-> "split", num |-> step[c].num + 1, point |-> d.point, newID |-> d.newID,
                   owner |-> d.owner, target |-> d.target]
  <2>3. step' = [step EXCEPT ![c] = r]
    BY <2>2
  <2>4. StepOK(log', r)
    BY DEF StepOK
  <2> HIDE DEF r
  <2>5. applied' = applied
    BY <2>2 DEF Issue, proposeAndWait
  <2>6. StepsOK'
    BY <1>0, <1>1, <2>3, <2>4, StepsGrow
  <2> QED BY <1>3, <1>6, <2>1, <2>2, <2>5, <2>6
<1>15. ASSUME NEW c \in Clerk, confirm(c) PROVE ReplicasOK' /\ VerdictsOK' /\ StepsOK'
  <2>1. UNCHANGED <<ringConfigs, dedup>> /\ step[c].pc = "split"
    BY <1>15 DEF confirm
  <2>2. CASE EndStep(c) /\ UNCHANGED commandVars
    BY <1>4, <1>6, <1>13, <2>1, <2>2 DEF commandVars
  <2>3. CASE /\ \E s \in Server : Confirmed(c, latestRing(s))
             /\ \E op : Issue(c, op)
             /\ step' = [step EXCEPT ![c].pc = "move"]
    <3>1. HalfOK(log, step[c])
      BY <1>0, <2>3, ConfirmedIs
    <3>2. HalfOK(log', step[c])
      BY <1>1, <3>1, HalfGrows
    <3> DEFINE r == [step[c] EXCEPT !.pc = "move"]
    <3>3. step' = [step EXCEPT ![c] = r]
      BY <2>3
    <3>4. step[c] = [pc |-> step[c].pc, num |-> step[c].num, point |-> step[c].point,
                     newID |-> step[c].newID, owner |-> step[c].owner, target |-> step[c].target]
      BY <1>0, <2>1 DEF StepsOK, StepOK
    <3>5. r = [pc |-> "move", num |-> step[c].num, point |-> step[c].point,
               newID |-> step[c].newID, owner |-> step[c].owner, target |-> step[c].target]
      BY <3>4
    <3> HIDE DEF r
    <3>6. /\ r.pc = "move" /\ r.point = step[c].point /\ r.newID = step[c].newID
          /\ r.num = step[c].num /\ r.owner = step[c].owner /\ r.target = step[c].target
      BY <3>5
    <3>7. StepOK(log', r)
      BY <3>2, <3>5, <3>6 DEF StepOK, HalfOK
    <3>8. StepsOK'
      BY <1>0, <1>1, <3>3, <3>7, StepsGrow
    <3>9. applied' = applied
      BY <2>3 DEF Issue, proposeAndWait
    <3> QED BY <1>3, <1>6, <2>1, <2>3, <3>8, <3>9
  <2> QED BY <1>15, <2>2, <2>3 DEF confirm
<1>16. ASSUME NEW c \in Clerk, moved(c) PROVE ReplicasOK' /\ VerdictsOK' /\ StepsOK'
  BY <1>4, <1>6, <1>13, <1>16 DEF moved, commandVars
<1> HIDE DEF RingInv
<1>17. ReplicasOK' /\ VerdictsOK' /\ StepsOK'
  BY <1>7, <1>8, <1>9, <1>10, <1>11, <1>12, <1>14, <1>15, <1>16 DEF RingNext
<1> QED BY <1>2, <1>17

LEMMA RingInvKept == ASSUME CommandsInv, RingInv, [Next]_vars PROVE RingInv'
<1>1. CmdStep /\ kind' = kind /\ kind \in {"shards", "ring"}
  BY NextIsCmdStep, MadeGrows DEF CommandsInv, CommandsOK
<1>2. CASE UNCHANGED vars
  BY <1>2 DEF vars, commandVars, ringVars, RingInv, ReplicasOK, VerdictsOK, StepsOK, latestRing
<1>3. CASE kind = "shards" /\ UNCHANGED ringVars
  BY <1>1, <1>3 DEF RingInv, ringVars
<1>4. CASE kind = "ring" /\ RingNext
  <2>1. RingLogOK(log') /\ ReplicasOK' /\ VerdictsOK' /\ StepsOK'
    BY <1>1, <1>4, RingInvStep
  <2> QED BY <1>1, <1>4, <2>1 DEF RingInv
<1> QED BY <1>2, <1>3, <1>4 DEF Next

LEMMA RingInvInit == ASSUME Init PROVE RingInv
<1>0. CommandsOK
  BY CommandsInvInit DEF Init, CommandsInv
<1>1. /\ log = <<>> /\ Len(log) = 0 /\ IsSeq(log)
      /\ \A c \in Clerk : call[c].verdict = Nil
      /\ applied = [s \in Server |-> 0]
      /\ ringConfigs = [s \in Server |-> <<ZeroRingConfig>>]
      /\ dedup = [s \in Server |-> NewRingCtrler.dedup]
      /\ step = [c \in Clerk |-> [pc |-> "idle", num |-> 0]]
  BY EmptyIs DEF Init, CommandsInit, RingInit, NewRingCtrler
<1>2. RingHist(log)[0] = Start
  BY <1>1, RingHistIs
<1>3. RingLogOK(log)
  BY <1>1, <1>2 DEF RingLogOK, Start, GoodCfg
<1>4. /\ IsSeq(<<ZeroRingConfig>>) /\ Len(<<ZeroRingConfig>>) = 1
      /\ <<ZeroRingConfig>>[1] = ZeroRingConfig
  BY SingleIs
<1>5. NewRingCtrler.dedup = [c \in Clerk |-> [seq |-> 0, err |-> Nil]]
  BY DEF NewRingCtrler
<1>6. ASSUME NEW c \in Clerk PROVE DedupOK(log, 0, c, NewRingCtrler.dedup[c])
  BY <1>5 DEF DedupOK
<1>7. ReplicasOK
  <2> DEFINE new == NewRingCtrler.dedup
  <2>1. \A s \in Server : dedup[s] = new /\ applied[s] = 0 /\ ringConfigs[s] = <<ZeroRingConfig>>
    BY <1>1
  <2>2. new = [c \in Clerk |-> new[c]]
    BY <1>5
  <2>3. ringConfigs = [s \in Server |-> ringConfigs[s]] /\ dedup = [s \in Server |-> dedup[s]]
    BY <1>1
  <2>4. \A c \in Clerk : DedupOK(log, 0, c, new[c])
    BY <1>6
  <2>5. RingHist(log)[0].cfg = ZeroRingConfig
    BY <1>2 DEF Start
  <2> DEFINE one == <<ZeroRingConfig>>
  <2>6. IsSeq(one) /\ Len(one) = 1 /\ one[1] = ZeroRingConfig
    BY <1>4
  <2>7. \A s \in Server : dedup[s] = new /\ applied[s] = 0 /\ ringConfigs[s] = one
    BY <2>1
  <2> HIDE DEF new, one
  <2>8. ASSUME NEW s \in Server
        PROVE  /\ IsSeq(ringConfigs[s]) /\ Len(ringConfigs[s]) > 0
               /\ ringConfigs[s][Len(ringConfigs[s])] = RingHist(log)[applied[s]].cfg
    <3>1. ringConfigs[s] = one /\ applied[s] = 0
      BY <2>7
    <3>2. IsSeq(ringConfigs[s]) /\ Len(ringConfigs[s]) = 1 /\ ringConfigs[s][1] = ZeroRingConfig
      BY <2>6, <3>1
    <3>3. RingHist(log)[applied[s]].cfg = ZeroRingConfig
      BY <2>5, <3>1
    <3> QED BY <3>2, <3>3
  <2>9. ASSUME NEW s \in Server
        PROVE  /\ dedup[s] = [c \in Clerk |-> dedup[s][c]]
               /\ \A c \in Clerk : DedupOK(log, applied[s], c, dedup[s][c])
    BY <2>2, <2>4, <2>7
  <2> QED BY <2>3, <2>8, <2>9 DEF ReplicasOK, latestRing
<1>8. VerdictsOK
  BY <1>1, CommandsAssumption DEF VerdictsOK
<1>9. StepsOK
  BY <1>1 DEF StepsOK, StepOK
<1> QED BY <1>1, <1>3, <1>7, <1>8, <1>9 DEF RingInv

LEMMA RingInvariant == Spec => [](CommandsInv /\ RingInv)
<1>1. Init => CommandsInv /\ RingInv
  BY CommandsInvInit, RingInvInit DEF Init
<1>2. CommandsInv /\ RingInv /\ [Next]_vars => (CommandsInv /\ RingInv)'
  BY NextIsCmdStep, CommandsInvKept, RingInvKept
<1> QED BY <1>1, <1>2, PTL DEF Spec

(***************************************************************************)
(* What follows for the ring.                                              *)
(***************************************************************************)

\* Every version of the ring is a partition with an owner for each shard,
\* whatever was split, moved and raced, on every replica, also one that is
\* behind or has restarted (ring_config.go: Validate; ring_ctrler.go: applyLoop).
THEOREM RingsAreValid == Spec => []RingValid
<1>1. ASSUME CommandsInv, RingInv, NEW s \in Server, latestRing(s).num > 0
      PROVE  ValidConfig(latestRing(s))
  <2>1. CASE kind = "ring"
    BY <1>1, <2>1, RingOf, ZeroIs, LiveIsValid DEF RingInv, CommandsInv, GoodCfg
  <2>2. CASE kind = "shards"
    <3>1. latestRing(s) = ZeroRingConfig
      BY <1>1, <2>2, SingleIs DEF RingInv, latestRing
    <3> QED BY <1>1, <3>1, ZeroIs
  <2> QED BY <1>1, <2>1, <2>2 DEF CommandsInv, CommandsOK
<1>2. CommandsInv /\ RingInv => RingValid
  BY <1>1 DEF RingValid
<1> QED BY <1>2, RingInvariant, PTL

\* An answer of OK means that the request has taken effect exactly where the log
\* says, one of InvalidArgs that it never will, retries and crashes
\* notwithstanding (ring_ctrler.go: applyLoop, duplicateTable).
THEOREM VerdictsAreTruthful == Spec => []VerdictTruthful
<1>1. ASSUME CommandsInv, RingInv, NEW c \in Clerk, kind = "ring",
             call[c].verdict \in {"OK", "InvalidArgs"}
      PROVE  call[c].verdict = "OK" <=> call[c].op \in Effective(log)
  BY <1>1, EffectiveIs DEF RingInv, VerdictsOK, VerdictOK
<1>2. CommandsInv /\ RingInv => VerdictTruthful
  BY <1>1 DEF VerdictTruthful
<1> QED BY <1>2, RingInvariant, PTL

\* The shard that an auto-splitter has moved is its own half on every replica
\* that has the shard: no other splitter's half has taken the id (autosplit.go:
\* Step).
THEOREM SplittersMoveTheirHalf == Spec => []MovesOwnHalf
<1>1. ASSUME CommandsInv, RingInv, NEW c \in Clerk, NEW s \in Server,
             step[c].pc = "move", step[c].newID \in DOMAIN latestRing(s).owners
      PROVE  EntryOf(latestRing(s).ring, step[c].newID).start = step[c].point
  <2>1. kind = "ring" /\ CommandsOK /\ RingLogOK(log) /\ ReplicasOK /\ StepsOK
    <3>1. kind # "shards"
      BY <1>1 DEF RingInv
    <3> QED BY <1>1, <3>1 DEF RingInv, CommandsInv, CommandsOK
  <2> DEFINE cfg == latestRing(s)
             top == RingHist(log)[Len(log)].cfg
  <2>2. GoodCfg(cfg) /\ cfg.ring \subseteq top.ring
    BY <2>1, RingOf
  <2>3. GoodCfg(top)
    BY <2>1, SeqIs DEF RingLogOK, CommandsOK
  <2>4. PICK e \in top.ring : e.shard = step[c].newID /\ e.start = step[c].point
    BY <1>1, <2>1 DEF StepsOK, StepOK, HalfOK
  <2>5. step[c].newID \in DOMAIN cfg.owners
    BY <1>1
  <2> HIDE DEF cfg, top
  <2>6. LiveCfg(cfg) /\ step[c].newID \in Shards(cfg.ring)
    BY <2>2, <2>5, ZeroIs DEF GoodCfg, LiveCfg
  <2>7. PICK f \in cfg.ring : f.shard = step[c].newID
    BY <2>6 DEF Shards
  <2>8. GoodRing(top.ring)
    BY <2>3, <2>4, ZeroIs DEF GoodCfg, LiveCfg
  <2>9. f = e
    BY <2>2, <2>4, <2>7, <2>8 DEF GoodRing
  <2>10. EntryOf(cfg.ring, step[c].newID) = f
    BY <2>6, <2>7, EntryIs DEF LiveCfg
  <2> QED BY <2>4, <2>9, <2>10 DEF cfg
<1>2. CommandsInv /\ RingInv => MovesOwnHalf
  BY <1>1 DEF MovesOwnHalf
<1> QED BY <1>2, RingInvariant, PTL

\* The conclusion of OnlyThatShard, for two configs.
OnlyThat(old, new) ==
    LET fresh == Shards(new.ring) \ Shards(old.ring)
        left == {p \in Point : Lookup(old, p) # Lookup(new, p)}
        divided == {p \in Point : ringAssignPoint(new.ring, p) # ringAssignPoint(old.ring, p)}
        of(points) == {ringAssignPoint(old.ring, p) : p \in points}
    IN IF fresh = {} THEN divided = {} /\ Cardinality(of(left)) <= 1
       ELSE /\ left = {} /\ Cardinality(of(divided)) = 1
            /\ \A p \in divided : ringAssignPoint(new.ring, p) \in fresh

LEMMA SplitOnlyThat ==
    ASSUME NEW old, LiveCfg(old), NEW shard, NEW p \in Point, Splittable(old.ring, shard, p)
    PROVE  OnlyThat(old, SplitConfig(old, shard, p))
<1> DEFINE new == SplitConfig(old, shard, p)
           n == NextShardID(old.ring)
           e == EntryOf(old.ring, shard)
           fresh == Shards(new.ring) \ Shards(old.ring)
           left == {q \in Point : Lookup(old, q) # Lookup(new, q)}
           divided == {q \in Point : ringAssignPoint(new.ring, q) # ringAssignPoint(old.ring, q)}
           of(points) == {ringAssignPoint(old.ring, q) : q \in points}
<1>1. GoodRing(old.ring)
  BY DEF LiveCfg
<1>2. e \in old.ring /\ e.shard = shard /\ p \notin Starts(old.ring) /\ Before(old.ring, e, p)
  BY <1>1, Inside
<1>3. /\ new.ring = Split(old.ring, p)
      /\ \A x \in Shards(old.ring) : new.owners[x] = old.owners[x]
      /\ new.owners[n] = old.owners[shard]
  BY SplitLive
<1>4. n \notin Shards(old.ring) /\ Shards(new.ring) = Shards(old.ring) \cup {n}
  BY <1>1, <1>2, <1>3, NextIsNew, SplitGood
<1> HIDE DEF new, n, e
<1>5. fresh = {n}
  BY <1>4
<1>6. ASSUME NEW q \in Point
      PROVE  /\ ringAssignPoint(old.ring, q) \in Shards(old.ring)
             /\ \/ ringAssignPoint(new.ring, q) = ringAssignPoint(old.ring, q)
                \/ /\ ringAssignPoint(new.ring, q) = n
                   /\ ringAssignPoint(old.ring, q) = shard
             /\ q = p => ringAssignPoint(new.ring, q) = n
  BY <1>1, <1>2, <1>3, SplitAssigns DEF n
<1>7. left = {}
  BY <1>3, <1>6 DEF Lookup
<1>8. p \in divided
  BY <1>4, <1>6
<1>9. \A q \in divided : ringAssignPoint(old.ring, q) = shard /\ ringAssignPoint(new.ring, q) = n
  BY <1>6
<1>10. of(divided) = {shard}
  BY <1>8, <1>9
<1>11. Cardinality(of(divided)) = 1
  BY <1>10, FS_Singleton
<1> HIDE DEF fresh, left, divided, of
<1>12. IF fresh = {} THEN divided = {} /\ Cardinality(of(left)) <= 1
       ELSE /\ left = {} /\ Cardinality(of(divided)) = 1
            /\ \A q \in divided : ringAssignPoint(new.ring, q) \in fresh
  BY <1>5, <1>7, <1>9, <1>11
<1> QED BY <1>12 DEF OnlyThat, fresh, left, divided, of, new

LEMMA MoveOnlyThat ==
    ASSUME NEW old, LiveCfg(old), NEW shard \in Shards(old.ring), NEW gid \in Groups
    PROVE  OnlyThat(old, MoveRingShard(old, shard, gid))
<1> DEFINE new == MoveRingShard(old, shard, gid)
           left == {q \in Point : Lookup(old, q) # Lookup(new, q)}
           of(points) == {ringAssignPoint(old.ring, q) : q \in points}
<1>1. /\ new.ring = old.ring
      /\ \A x \in Shards(old.ring) \ {shard} : new.owners[x] = old.owners[x]
  BY MoveLive
<1>2. ASSUME NEW q \in Point PROVE ringAssignPoint(old.ring, q) \in Shards(old.ring)
  <2>1. GoodRing(old.ring)
    BY DEF LiveCfg
  <2>2. PICK e \in old.ring : e.start = StartFor(old.ring, q)
    BY <2>1, StartForIs DEF Starts
  <2> QED BY <2>1, <2>2, AssignIs DEF Shards
<1> HIDE DEF new
<1>3. of(left) \subseteq {shard}
  BY <1>1, <1>2 DEF Lookup
<1> HIDE DEF left, of
<1>4. Cardinality(of(left)) <= 1
  <2>1. IsFiniteSet({shard}) /\ Cardinality({shard}) = 1
    BY FS_Singleton
  <2>2. Cardinality(of(left)) <= Cardinality({shard})
    BY <1>3, <2>1, FS_Subset
  <2> QED BY <2>1, <2>2
<1> QED BY <1>1, <1>4 DEF OnlyThat, left, of, new

\* A new version of the ring moves the keys of one shard at most: a split leaves
\* every key with its group and gives part of one shard's keys to the new shard,
\* a move changes the group of that shard's keys alone (ring.go: Split,
\* ring_config.go: SplitConfig, MoveRingShard).
THEOREM VersionsMoveOneShard == Spec => OnlyThatShard
<1>1. ASSUME CommandsInv, RingInv, [Next]_vars, NEW s \in Server,
             Len(ringConfigs'[s]) > Len(ringConfigs[s]), latestRing(s).num > 0
      PROVE  OnlyThat(latestRing(s), latestRing(s)')
  <2>0. ringConfigs' # ringConfigs
    <3>1. Len(ringConfigs[s]) \in Nat
      <4>1. CASE kind = "ring"
        BY <4>1, SeqIs DEF CommandsInv, RingInv, ReplicasOK
      <4>2. CASE kind = "shards"
        BY <4>2, SingleIs DEF RingInv
      <4> QED BY <1>1, <4>1, <4>2 DEF CommandsInv, CommandsOK
    <3> QED BY <1>1, <3>1
  <2>1. kind = "ring" /\ RingNext
    BY <1>1, <2>0 DEF Next, vars, ringVars
  <2>2. PICK t \in Server : ringApplyLoop(t) \/ RestartRing(t)
    BY <2>0, <2>1 DEF RingNext, InitCall, GiveUp, decide, confirm, moved, ringVars
  <2>3. CommandsOK /\ RingLogOK(log) /\ ReplicasOK
    BY <2>1, <1>1 DEF CommandsInv, RingInv
  <2>4. /\ ringConfigs = [u \in Server |-> ringConfigs[u]]
        /\ \A u \in Server : IsSeq(ringConfigs[u]) /\ Len(ringConfigs[u]) > 0 /\ Len(ringConfigs[u]) \in Nat
    BY <2>3, SeqIs DEF ReplicasOK
  <2>5. ~RestartRing(t)
    <3> SUFFICES ASSUME RestartRing(t) PROVE FALSE
      OBVIOUS
    <3>1. ringConfigs' = [ringConfigs EXCEPT ![t] = <<ZeroRingConfig>>]
      BY DEF RestartRing, NewRingCtrler
    <3>2. Len(<<ZeroRingConfig>>) = 1
      BY SingleIs
    <3>3. Len(ringConfigs'[s]) = 1 \/ ringConfigs'[s] = ringConfigs[s]
      BY <2>4, <3>1, <3>2
    <3>4. Len(ringConfigs[s]) \in Nat /\ Len(ringConfigs[s]) > 0
      BY <2>4
    <3>5. Len(ringConfigs'[s]) > Len(ringConfigs[s])
      BY <1>1
    <3>6. CASE ringConfigs'[s] = ringConfigs[s]
      <4> DEFINE n == Len(ringConfigs[s])
      <4>1. n \in Nat /\ n > n
        BY <3>4, <3>5, <3>6
      <4> HIDE DEF n
      <4> QED BY <4>1
    <3>7. CASE Len(ringConfigs'[s]) = 1
      <4> DEFINE n == Len(ringConfigs[s])
      <4>1. n \in Nat /\ n > 0 /\ 1 > n
        BY <3>4, <3>5, <3>7
      <4> HIDE DEF n
      <4> QED BY <4>1
    <3> QED BY <3>3, <3>6, <3>7
  <2> DEFINE op == log[applied[t] + 1]
             old == latestRing(s)
             new == latestRing(s)'
  <2>6. /\ s = t /\ Valid(old, op)
        /\ ringConfigs'[s] = Append(ringConfigs[s], applyOp(old, op))
    <3>1. ringApplyLoop(t)
      BY <2>2, <2>5
    <3>2. /\ Valid(latestRing(t), op)
          /\ ringConfigs' = [ringConfigs EXCEPT ![t] = Append(ringConfigs[t], applyOp(latestRing(t), op))]
      BY <2>0, <3>1 DEF ringApplyLoop
    <3>3. s # t => ringConfigs'[s] = ringConfigs[s]
      BY <2>4, <3>2
    <3>4. s = t
      BY <1>1, <2>4, <3>3
    <3> QED BY <2>4, <3>2, <3>4
  <2>7. new = applyOp(old, op)
    <3> DEFINE k == Append(ringConfigs[s], applyOp(old, op))
    <3>1. Len(k) = Len(ringConfigs[s]) + 1 /\ k[Len(ringConfigs[s]) + 1] = applyOp(old, op)
      BY <2>4, AppendIs
    <3>2. k[Len(k)] = applyOp(old, op)
      BY <3>1
    <3>3. ringConfigs'[s] = k
      BY <2>6
    <3> HIDE DEF k
    <3> QED BY <3>2, <3>3 DEF latestRing
  <2>8. LiveCfg(old)
    BY <1>1, <2>3, RingOf, ZeroIs DEF GoodCfg
  <2>9. RingOp(op)
    <3>1. applied[t] < Len(log) /\ applied[t] \in Nat /\ Len(log) \in Nat
      BY <2>2, <2>3, <2>5, SeqIs DEF ringApplyLoop, Deliver, CommandsOK
    <3>2. op \in Made
      BY <3>1 DEF Made
    <3> QED BY <1>1, <2>1, <3>2 DEF CommandsInv, KnownOK, OpOK
  <2>10. old.num > 0
    BY <1>1
  <2>11. Valid(old, op)
    BY <2>6
  <2> SUFFICES OnlyThat(old, applyOp(old, op))
    BY <2>7
  <2> HIDE DEF op, old, new
  <2>12. CASE op.type = "Init"
    BY <2>10, <2>11, <2>12 DEF Valid
  <2>13. CASE op.type = "Split"
    <3>1. Splittable(old.ring, op.shard, op.point) /\ op.point \in Point
      BY <2>9, <2>11, <2>13 DEF Valid, RingOp
    <3>2. applyOp(old, op) = SplitConfig(old, op.shard, op.point)
      BY <2>13 DEF applyOp
    <3> QED BY <2>8, <3>1, <3>2, SplitOnlyThat
  <2>14. CASE op.type = "Move"
    <3>1. op.shard \in Shards(old.ring) /\ op.gid \in Groups
      BY <2>8, <2>11, <2>14 DEF Valid, LiveCfg
    <3>2. applyOp(old, op) = MoveRingShard(old, op.shard, op.gid)
      BY <2>14 DEF applyOp
    <3> QED BY <2>8, <3>1, <3>2, MoveOnlyThat
  <2> QED BY <2>9, <2>12, <2>13, <2>14 DEF RingOp
<1> DEFINE A == \A s \in Server : Len(ringConfigs'[s]) > Len(ringConfigs[s]) /\ latestRing(s).num > 0 =>
                    OnlyThat(latestRing(s), latestRing(s)')
<1>2. CommandsInv /\ RingInv /\ [Next]_vars => [A]_ringConfigs
  BY <1>1
<1>3. Spec => [][A]_ringConfigs
  <2> HIDE DEF A
  <2> QED BY <1>2, RingInvariant, PTL DEF Spec
<1> QED BY <1>3, PTL DEF OnlyThatShard, OnlyThat

(***************************************************************************)
(* Rebalancing.                                                            *)
(***************************************************************************)
Members(G) == G \in SUBSET Int /\ IsFiniteSet(G) /\ G # {}

Stay(shards, G, g) == Owned(shards, g) \cap Kept(shards, G)
Need(shards, G) == [g \in G |-> Max({0, targetOf(g, G) - Cardinality(Stay(shards, G, g))})]
From(shards, G, g) == SumOf(Need(shards, G), {h \in G : h < g})
Taker(shards, G, s) ==
    CHOOSE g \in G : Rank(s, Shard \ Kept(shards, G)) \in
                         From(shards, G, g) .. From(shards, G, g) + Need(shards, G)[g] - 1

LEMMA RebalanceIs ==
    \A shards, G : rebalance(shards, G) =
        [s \in Shard |-> CASE G = {} -> 0
                           [] s \in Kept(shards, G) -> shards[s]
                           [] OTHER -> Taker(shards, G, s)]
BY DEF rebalance, Need, From, Taker, SumOf, Stay

LEMMA ShardIs ==
    /\ NShards \in Nat /\ NShards > 0 /\ Shard \in SUBSET Int /\ Shard # {}
    /\ IsFiniteSet(Shard) /\ Cardinality(Shard) = NShards
    /\ \A A \in SUBSET Shard : IsFiniteSet(A) /\ Cardinality(A) \in Nat
<1>1. NShards \in Nat /\ NShards > 0
  BY NShardsAssumption
<1>2. 0 \in Int /\ NShards - 1 \in Int
  BY <1>1
<1>3. IsFiniteSet(0 .. NShards - 1)
      /\ Cardinality(0 .. NShards - 1) = IF 0 > NShards - 1 THEN 0 ELSE (NShards - 1) - 0 + 1
  BY <1>2, FS_Interval
<1>4. ~(0 > NShards - 1) /\ (NShards - 1) - 0 + 1 = NShards
  BY <1>1
<1>5. Shard \in SUBSET Int /\ 0 \in Shard
  BY <1>1 DEF Shard
<1>6. IsFiniteSet(Shard) /\ Cardinality(Shard) = NShards
  BY <1>3, <1>4 DEF Shard
<1> QED BY <1>1, <1>5, <1>6, FS_Subset, FS_CardinalityType

\* The targets add up to the number of shards.
LEMMA TargetsAre ==
    ASSUME NEW G, Members(G)
    PROVE  LET t == [g \in G |-> targetOf(g, G)]
           IN  (\A g \in G : t[g] \in Nat) /\ SumOf(t, G) = NShards
<1> DEFINE n == Cardinality(G)
           q == NShards \div n
           r == NShards % n
           t == [g \in G |-> targetOf(g, G)]
           B == {g \in G : Rank(g, G) < r}
<1>1. n \in Nat /\ n > 0 /\ IsFiniteSet(G) /\ G \in SUBSET Int
  <2>1. Cardinality(G) \in Nat /\ Cardinality(G) # 0
    BY FS_CardinalityType, FS_EmptySet DEF Members
  <2> QED BY <2>1 DEF Members
<1> HIDE DEF n
<1>2. q \in Nat /\ r \in Nat /\ r < n /\ NShards = q * n + r
  BY <1>1, ShardIs
<1> HIDE DEF q, r
<1>3. Cardinality(B) = r
  <2>1. Cardinality(B) = IF r <= n THEN r ELSE n
    BY <1>1, <1>2, FirstMembers DEF Rank, n
  <2> QED BY <1>1, <1>2, <2>1
<1>4. \A g \in G : t[g] = q + (IF g \in B THEN 1 ELSE 0)
  BY DEF targetOf, q, r, n
<1>5. B \in SUBSET G
  OBVIOUS
<1> HIDE DEF t, B
<1>6. SumOf(t, G) = q * n + r
  <2>1. IsFiniteSet(G) /\ q \in Nat
    BY <1>1, <1>2
  <2>2. SumOf(t, G) = q * Cardinality(G) + Cardinality(B)
    BY <1>4, <1>5, <2>1, SumShares
  <2> QED BY <1>3, <2>2 DEF n
<1>7. \A g \in G : t[g] \in Nat
  BY <1>2, <1>4
<1> QED BY <1>2, <1>6, <1>7 DEF t

\* A member keeps what it has, up to its target, and lacks the rest.
LEMMA StayIs ==
    ASSUME NEW G, Members(G), NEW shards, NEW g \in G
    PROVE  LET k == Cardinality(Stay(shards, G, g))
               o == Cardinality(Owned(shards, g))
               t == targetOf(g, G)
           IN  /\ k \in Nat /\ o \in Nat /\ t \in Nat
               /\ k = IF t <= o THEN t ELSE o
               /\ Need(shards, G)[g] = t - k /\ Need(shards, G)[g] \in Nat
<1> DEFINE S == Owned(shards, g)
           k == Cardinality(Stay(shards, G, g))
           o == Cardinality(S)
           t == targetOf(g, G)
<1>1. t \in Nat
  <2> DEFINE f == [h \in G |-> targetOf(h, G)]
  <2>1. f[g] \in Nat /\ f[g] = t
    BY TargetsAre
  <2> QED BY <2>1
<1> HIDE DEF t
<1>2. S \in SUBSET Shard /\ S \in SUBSET Int /\ IsFiniteSet(S) /\ o \in Nat
  BY ShardIs DEF Owned
<1>3. Stay(shards, G, g) = {s \in S : Cardinality({x \in S : x < s}) < t}
  BY DEF Stay, Kept, Owned, Rank, t
<1> HIDE DEF S
<1>4. k = IF t <= o THEN t ELSE o
  BY <1>1, <1>2, <1>3, FirstMembers
<1> HIDE DEF k, o
<1>5. k \in Nat /\ k <= t
  BY <1>1, <1>2, <1>4
<1>6. Need(shards, G)[g] = Max({0, t - k})
  BY DEF Need, k, t
<1>7. Max({0, t - k}) = t - k
  <2>1. {0, t - k} \in SUBSET Int /\ IsFiniteSet({0, t - k}) /\ {0, t - k} # {}
    <3>1. IsFiniteSet({0}) /\ {0, t - k} = {0} \cup {t - k}
      BY FS_Singleton
    <3>2. IsFiniteSet({0, t - k})
      BY <3>1, FS_AddElement
    <3> QED BY <1>1, <1>5, <3>2
  <2>2. Max({0, t - k}) \in {0, t - k} /\ \A y \in {0, t - k} : Max({0, t - k}) >= y
    BY <2>1, MaxIs
  <2> QED BY <1>1, <1>5, <2>2
<1>8. t - k \in Nat
  BY <1>1, <1>5
<1> QED BY <1>1, <1>2, <1>4, <1>5, <1>6, <1>7, <1>8 DEF t, k, o, S

\* What is left is as much as the members lack.
LEMMA NeedIs ==
    ASSUME NEW G, Members(G), NEW shards
    PROVE  /\ SumOf(Need(shards, G), G) = Cardinality(Shard \ Kept(shards, G))
           /\ Cardinality(Kept(shards, G)) + Cardinality(Shard \ Kept(shards, G)) = NShards
           /\ SumOf([g \in G |-> Cardinality(Stay(shards, G, g))], G) = Cardinality(Kept(shards, G))
<1> DEFINE kept == Kept(shards, G)
           stay == [g \in G |-> Cardinality(Stay(shards, G, g))]
           t == [g \in G |-> targetOf(g, G)]
           need == Need(shards, G)
<1>0. IsFiniteSet(G) /\ kept \in SUBSET Shard /\ IsFiniteSet(kept)
  BY ShardIs DEF Members, Kept
<1>1. SumOf(stay, G) = Cardinality(kept)
  <2> DEFINE h == [s \in kept |-> shards[s]]
  <2>1. \A g \in G : stay[g] = Cardinality(AllAt(h, kept, g))
    <3> SUFFICES ASSUME NEW g \in G PROVE Stay(shards, G, g) = AllAt(h, kept, g)
      OBVIOUS
    <3> QED BY DEF Stay, Owned, Kept, AllAt
  <2>2. AllIn(h, kept, G) = kept
    BY DEF Kept, AllIn
  <2> HIDE DEF h, kept, stay
  <2>3. SumOf(stay, G) = Cardinality(AllIn(h, kept, G))
    BY <1>0, <2>1, SumCounts
  <2> QED BY <2>2, <2>3
<1>2. (\A g \in G : t[g] \in Nat) /\ SumOf(t, G) = NShards
  BY TargetsAre
<1>3. ASSUME NEW g \in G PROVE stay[g] \in Nat /\ need[g] \in Nat /\ t[g] = stay[g] + need[g]
  <2> DEFINE a == Cardinality(Stay(shards, G, g))
             b == targetOf(g, G)
  <2>1. a \in Nat /\ b \in Nat /\ need[g] = b - a /\ need[g] \in Nat /\ stay[g] = a /\ t[g] = b
    BY StayIs
  <2> HIDE DEF a, b, stay, t, need
  <2> QED BY <2>1
<1> HIDE DEF kept, stay, t, need
<1>4. SumOf(t, G) = SumOf(stay, G) + SumOf(need, G)
  BY <1>0, <1>3, SumPlus
<1>5. SumOf(stay, G) \in Nat /\ SumOf(need, G) \in Nat
  BY <1>0, <1>3, SumAdd
<1>6. Cardinality(Shard \ kept) = NShards - Cardinality(kept)
  <2>1. Shard \cap kept = kept
    BY <1>0
  <2>2. Cardinality(Shard \ kept) = Cardinality(Shard) - Cardinality(Shard \cap kept)
    BY ShardIs, FS_Difference
  <2> QED BY <2>1, <2>2, ShardIs
<1>7. NShards \in Nat /\ Cardinality(kept) \in Nat
  BY <1>0, ShardIs
<1>8. SumOf(need, G) = Cardinality(Shard \ kept) /\ Cardinality(kept) + Cardinality(Shard \ kept) = NShards
  BY <1>1, <1>2, <1>4, <1>5, <1>6, <1>7
<1> QED BY <1>1, <1>8 DEF kept, stay, need

\* Each of the other shards is in the slot of one member.
LEMMA TakerIs ==
    ASSUME NEW G, Members(G), NEW shards, NEW s \in Shard \ Kept(shards, G)
    PROVE  LET r == Rank(s, Shard \ Kept(shards, G))
           IN  /\ r \in Nat /\ Taker(shards, G, s) \in G
               /\ \A g \in G : From(shards, G, g) \in Nat /\ Need(shards, G)[g] \in Nat
               /\ \A g \in G :
                     /\ Taker(shards, G, s) = g => From(shards, G, g) <= r /\ r < From(shards, G, g) + Need(shards, G)[g]
                     /\ From(shards, G, g) <= r /\ r < From(shards, G, g) + Need(shards, G)[g] => Taker(shards, G, s) = g
<1> DEFINE rest == Shard \ Kept(shards, G)
           r == Rank(s, rest)
           f == Need(shards, G)
           from(g) == SumOf(f, {h \in G : h < g})
           n == Cardinality(rest)
<1>0. G \in SUBSET Int /\ IsFiniteSet(G)
  BY DEF Members
<1>1. rest \in SUBSET Int /\ IsFiniteSet(rest) /\ n \in Nat /\ s \in rest
  BY ShardIs
<1>2. r \in 0 .. n - 1
  <2> HIDE DEF rest
  <2> QED BY <1>1, FirstMembers DEF Rank
<1>3. SumOf(f, G) = n /\ \A g \in G : f[g] \in Nat
  BY NeedIs, StayIs
<1> HIDE DEF f, rest, r
<1>4. /\ \A g \in G : from(g) \in Nat /\ from(g) + f[g] <= n
      /\ \A g, h \in G : g < h => from(g) + f[g] <= from(h)
      /\ \A q \in Nat : q < n => \E g \in G : from(g) <= q /\ q < from(g) + f[g]
  BY <1>0, <1>3, Slots
<1> HIDE DEF from, n
<1>5. r \in Nat /\ r < n
  BY <1>1, <1>2 DEF n
<1> DEFINE in(g) == r \in from(g) .. from(g) + f[g] - 1
<1>6. \A g \in G : in(g) <=> from(g) <= r /\ r < from(g) + f[g]
  BY <1>3, <1>4, <1>5
<1>7. \A g, h \in G : in(g) /\ in(h) => g = h
  <2> SUFFICES ASSUME NEW g \in G, NEW h \in G, in(g), in(h), g < h PROVE FALSE
    BY <1>0
  <2> QED BY <1>3, <1>4, <1>5, <1>6
<1>8. \E g \in G : in(g)
  BY <1>4, <1>5, <1>6
<1>9. Taker(shards, G, s) = CHOOSE g \in G : in(g)
  BY DEF Taker, From, from, f, r, rest
<1> HIDE DEF in
<1>10. Taker(shards, G, s) \in G /\ in(Taker(shards, G, s))
  BY <1>8, <1>9
<1>11. \A g \in G : from(g) = From(shards, G, g)
  BY DEF From, from, f
<1> QED BY <1>3, <1>4, <1>5, <1>6, <1>7, <1>10, <1>11 DEF f, r, rest

\* A member's slot holds as many shards as the member lacks.
Slot(shards, G, g) ==
    LET rest == Shard \ Kept(shards, G)
    IN {s \in rest : From(shards, G, g) <= Rank(s, rest) /\ Rank(s, rest) < From(shards, G, g) + Need(shards, G)[g]}

LEMMA SlotIs ==
    ASSUME NEW G, Members(G), NEW shards, NEW g \in G
    PROVE  Cardinality(Slot(shards, G, g)) = Need(shards, G)[g]
<1> DEFINE rest == Shard \ Kept(shards, G)
           n == Cardinality(rest)
           a == From(shards, G, g)
           b == Need(shards, G)[g]
           Below(k) == {s \in rest : Cardinality({x \in rest : x < s}) < k}
<1>0. G \in SUBSET Int /\ IsFiniteSet(G)
  BY DEF Members
<1>1. rest \in SUBSET Int /\ IsFiniteSet(rest) /\ n \in Nat /\ rest \in SUBSET Shard
  BY ShardIs
<1>2. a \in Nat /\ b \in Nat /\ a + b <= n
  <2> DEFINE f == Need(shards, G)
  <2>1. SumOf(f, G) = n /\ \A h \in G : f[h] \in Nat
    BY NeedIs, StayIs
  <2> HIDE DEF f, n
  <2>2. SumOf(f, {h \in G : h < g}) \in Nat /\ SumOf(f, {h \in G : h < g}) + f[g] <= SumOf(f, G)
    BY <1>0, <2>1, Slots
  <2> QED BY <2>1, <2>2 DEF f, From
<1>3. Slot(shards, G, g) = {s \in rest : a <= Cardinality({x \in rest : x < s}) /\ Cardinality({x \in rest : x < s}) < a + b}
  BY DEF Slot, Rank
<1> HIDE DEF rest, a, b
<1>4. \A s \in rest : Cardinality({x \in rest : x < s}) \in Nat
  BY <1>1, ShardIs
<1>5. Cardinality(Below(a)) = a /\ Cardinality(Below(a + b)) = a + b
  <2>1. a + b \in Nat /\ a <= n
    BY <1>1, <1>2
  <2>2. \A k \in Nat : k <= n => Cardinality(Below(k)) = k
    BY <1>1, FirstMembers
  <2> HIDE DEF Below, n
  <2> QED BY <1>2, <2>1, <2>2
<1>6. Slot(shards, G, g) = Below(a + b) \ Below(a) /\ Below(a + b) \cap Below(a) = Below(a)
  <2> DEFINE R(s) == Cardinality({x \in rest : x < s})
  <2>1. \A s \in rest : R(s) \in Nat
    BY <1>4
  <2>2. /\ Slot(shards, G, g) = {s \in rest : a <= R(s) /\ R(s) < a + b}
        /\ Below(a) = {s \in rest : R(s) < a}
        /\ Below(a + b) = {s \in rest : R(s) < a + b}
    BY <1>3
  <2> HIDE DEF R, Below
  <2> QED BY <1>2, <2>1, <2>2
<1>7. IsFiniteSet(Below(a + b))
  BY <1>1, ShardIs
<1> DEFINE C == Below(a + b)
           D == Below(a)
<1> HIDE DEF Below
<1>8. Cardinality(C \ D) = Cardinality(C) - Cardinality(C \cap D)
  <2>1. IsFiniteSet(C)
    BY <1>7
  <2> HIDE DEF C, D
  <2> QED BY <2>1, FS_Difference
<1>9. Cardinality(Slot(shards, G, g)) = (a + b) - a
  BY <1>5, <1>6, <1>8
<1> QED BY <1>2, <1>9 DEF b

\* rebalance reaches the targets.
LEMMA ReachesTargets ==
    ASSUME NEW G, Members(G), NEW shards
    PROVE  /\ rebalance(shards, G) \in [Shard -> G]
           /\ OnTarget(rebalance(shards, G), G)
<1> DEFINE new == rebalance(shards, G)
           kept == Kept(shards, G)
<1>0. G # {}
  BY DEF Members
<1>1. \A s \in kept : s \in Shard /\ shards[s] \in G
  BY DEF Kept
<1>2. new = [s \in Shard |-> IF s \in kept THEN shards[s] ELSE Taker(shards, G, s)]
  BY <1>0, RebalanceIs
<1>3. \A s \in Shard \ kept : Taker(shards, G, s) \in G
  BY TakerIs
<1>4. ASSUME NEW g \in G PROVE Cardinality(Owned(new, g)) = targetOf(g, G)
  <2> DEFINE A == Stay(shards, G, g)
             B == Slot(shards, G, g)
             t == targetOf(g, G)
  <2>1. \A s \in Shard \ kept : s \in B <=> Taker(shards, G, s) = g
    BY TakerIs DEF Slot
  <2>2. A = {s \in kept : shards[s] = g} /\ B \in SUBSET (Shard \ kept)
    BY <1>1 DEF Stay, Owned, Slot
  <2> HIDE DEF A, B, kept, new, t
  <2>3. \A s \in Shard : new[s] = g <=> s \in A \cup B
    BY <1>1, <1>2, <2>1, <2>2
  <2>4. Owned(new, g) = A \cup B /\ A \cap B = {}
    BY <1>1, <2>2, <2>3 DEF Owned
  <2>5. IsFiniteSet(A) /\ IsFiniteSet(B) /\ Cardinality({}) = 0
    BY <1>1, <2>2, ShardIs, FS_EmptySet
  <2>6. Cardinality(A \cup B) = Cardinality(A) + Cardinality(B) - 0
    BY <2>4, <2>5, FS_Union
  <2> DEFINE a == Cardinality(A)
             b == Cardinality(B)
  <2>7. a \in Nat /\ t \in Nat /\ b = t - a
    BY StayIs, SlotIs DEF A, B, t
  <2>8. Cardinality(Owned(new, g)) = a + b - 0
    BY <2>4, <2>6
  <2> HIDE DEF a, b
  <2> QED BY <2>7, <2>8 DEF t
<1>5. new \in [Shard -> G]
  <2> HIDE DEF kept, new
  <2> QED BY <1>1, <1>2, <1>3
<1> QED BY <1>4, <1>5 DEF OnTarget

\* Whatever the old assignment, the loads then differ by one at most.
LEMMA RebalanceBalances ==
    ASSUME NEW G \in SUBSET Int, IsFiniteSet(G), NEW shards
    PROVE  Balanced(rebalance(shards, G), G)
<1>1. CASE G = {}
  <2>1. \A s \in Shard : rebalance(shards, G)[s] = 0
    <3>1. Kept(shards, G) = {}
      BY <1>1 DEF Kept
    <3>2. rebalance(shards, G) = [s \in Shard |-> 0]
      BY <1>1, <3>1, RebalanceIs
    <3> QED BY <3>2
  <2> QED BY <1>1, <2>1 DEF Balanced
<1>2. CASE G # {}
  <2> DEFINE new == rebalance(shards, G)
             n == Cardinality(G)
             q == NShards \div n
  <2>1. Members(G)
    BY <1>2 DEF Members
  <2>2. new \in [Shard -> G] /\ \A g \in G : Cardinality(Owned(new, g)) = targetOf(g, G)
    BY <2>1, ReachesTargets DEF OnTarget
  <2>3. n \in Nat /\ n # 0
    BY <1>2, FS_CardinalityType, FS_EmptySet
  <2>4. q \in Nat
    <3> HIDE DEF n
    <3> QED BY <2>3, ShardIs
  <2>5. \A g \in G : targetOf(g, G) \in {q, q + 1}
    <3> HIDE DEF q
    <3>1. \A g \in G : targetOf(g, G) = q + (IF Rank(g, G) < NShards % n THEN 1 ELSE 0)
      BY DEF targetOf, q
    <3> QED BY <2>4, <3>1
  <2> HIDE DEF new, q
  <2>6. \A g, h \in G : Cardinality(Owned(new, g)) <= Cardinality(Owned(new, h)) + 1
    <3> SUFFICES ASSUME NEW g \in G, NEW h \in G
                 PROVE  Cardinality(Owned(new, g)) <= Cardinality(Owned(new, h)) + 1
      OBVIOUS
    <3> DEFINE a == Cardinality(Owned(new, g))
               b == Cardinality(Owned(new, h))
    <3>1. a \in {q, q + 1} /\ b \in {q, q + 1}
      BY <2>2, <2>5
    <3> HIDE DEF a, b
    <3>2. a <= b + 1
      BY <2>4, <3>1
    <3> QED BY <3>2 DEF a, b
  <2>7. Balanced(new, G)
    BY <1>2, <2>2, <2>6 DEF Balanced
  <2> QED BY <2>7 DEF new
<1> QED BY <1>1, <1>2

\* The shards that f leaves where they are.
Unmoved(shards, f) == {s \in Shard : f[s] = shards[s]}

\* No assignment with the targets' loads leaves more shards than rebalance does.
LEMMA UnmovedAtMost ==
    ASSUME NEW G, Members(G), NEW shards, NEW f \in [Shard -> G], OnTarget(f, G)
    PROVE  Cardinality(Unmoved(shards, f)) <= Cardinality(Kept(shards, G))
<1> DEFINE D == Unmoved(shards, f)
           same == [g \in G |-> Cardinality(AllAt(f, D, g))]
           stay == [g \in G |-> Cardinality(Stay(shards, G, g))]
<1>1. IsFiniteSet(G) /\ D \in SUBSET Shard /\ IsFiniteSet(D)
  BY ShardIs DEF Unmoved, Members
<1>2. AllIn(f, D, G) = D
  BY DEF Unmoved, AllIn
<1>3. SumOf(same, G) = Cardinality(D)
  <2> HIDE DEF D
  <2>1. \A g \in G : same[g] = Cardinality(AllAt(f, D, g))
    OBVIOUS
  <2> HIDE DEF same
  <2>2. SumOf(same, G) = Cardinality(AllIn(f, D, G))
    BY <1>1, <2>1, SumCounts
  <2> QED BY <1>2, <2>2
<1>4. SumOf(stay, G) = Cardinality(Kept(shards, G))
  BY NeedIs
<1>5. ASSUME NEW g \in G PROVE same[g] \in Nat /\ stay[g] \in Nat /\ same[g] <= stay[g]
  <2> DEFINE A == AllAt(f, D, g)
             a == Cardinality(A)
             k == Cardinality(Stay(shards, G, g))
             o == Cardinality(Owned(shards, g))
             t == targetOf(g, G)
  <2>1. A \in SUBSET Owned(f, g) /\ A \in SUBSET Owned(shards, g)
    BY DEF AllAt, Unmoved, Owned
  <2>2. IsFiniteSet(Owned(f, g)) /\ IsFiniteSet(Owned(shards, g)) /\ A \in SUBSET Shard
    BY <2>1, ShardIs DEF Owned
  <2>3. a \in Nat
    BY <2>2, ShardIs
  <2>4. Cardinality(Owned(f, g)) = t
    BY DEF OnTarget
  <2>5. a <= Cardinality(Owned(f, g)) /\ a <= o
    BY <2>1, <2>2, FS_Subset
  <2>6. k \in Nat /\ o \in Nat /\ t \in Nat /\ k = IF t <= o THEN t ELSE o
    BY StayIs
  <2>7. same[g] = a /\ stay[g] = k /\ a <= t
    BY <2>4, <2>5
  <2> HIDE DEF a, k, o, t, same, stay, D
  <2> QED BY <2>3, <2>5, <2>6, <2>7
<1> HIDE DEF same, stay, D
<1>6. SumOf(same, G) <= SumOf(stay, G)
  BY <1>1, <1>5, SumAtMost
<1> QED BY <1>3, <1>4, <1>6 DEF D

LEMMA MovedIs ==
    ASSUME NEW shards, NEW f
    PROVE  Moved(shards, f) = NShards - Cardinality(Unmoved(shards, f)) /\ Cardinality(Unmoved(shards, f)) \in Nat
<1> DEFINE D == Unmoved(shards, f)
<1>1. D \in SUBSET Shard /\ Shard \cap D = D /\ {s \in Shard : shards[s] # f[s]} = Shard \ D
  BY DEF Unmoved
<1> HIDE DEF D
<1>2. Cardinality(Shard \ D) = Cardinality(Shard) - Cardinality(Shard \cap D)
  BY ShardIs, FS_Difference
<1>3. Moved(shards, f) = Cardinality(Shard \ D)
  BY <1>1 DEF Moved
<1> QED BY <1>1, <1>2, <1>3, ShardIs DEF D

\* rebalance moves no more shards than the targets force.
LEMMA RebalanceMovesFewest ==
    ASSUME NEW G \in SUBSET Int, IsFiniteSet(G), NEW shards
    PROVE  FewestMoves(shards, rebalance(shards, G), G)
<1> SUFFICES ASSUME NEW f \in [Shard -> G], OnTarget(f, G)
             PROVE  Moved(shards, rebalance(shards, G)) <= Moved(shards, f)
  BY DEF FewestMoves
<1> DEFINE new == rebalance(shards, G)
           kept == Kept(shards, G)
<1>1. Members(G)
  BY ShardIs DEF Members
<1>2. kept \in SUBSET Unmoved(shards, new)
  <2>1. kept \in SUBSET Shard
    BY DEF Kept
  <2>2. \A s \in kept : new[s] = shards[s]
    BY <1>1, <2>1, RebalanceIs DEF Members
  <2> HIDE DEF kept, new
  <2> QED BY <2>1, <2>2 DEF Unmoved
<1>3. IsFiniteSet(Unmoved(shards, new))
  BY ShardIs DEF Unmoved
<1>4. Cardinality(kept) <= Cardinality(Unmoved(shards, new)) /\ Cardinality(kept) \in Nat
  BY <1>2, <1>3, FS_Subset, FS_CardinalityType
<1>5. Cardinality(Unmoved(shards, f)) <= Cardinality(kept)
  BY <1>1, UnmovedAtMost
<1> DEFINE a == Cardinality(Unmoved(shards, new))
           b == Cardinality(Unmoved(shards, f))
           k == Cardinality(kept)
<1>6. /\ Moved(shards, new) = NShards - a /\ a \in Nat
      /\ Moved(shards, f) = NShards - b /\ b \in Nat
  BY MovedIs
<1>7. k \in Nat /\ k <= a /\ b <= k
  BY <1>4, <1>5
<1> HIDE DEF a, b, k, new
<1> QED BY <1>6, <1>7, ShardIs DEF new

(***************************************************************************)
(* What a log makes of the shard controller.                               *)
(***************************************************************************)
IsNew(l, n) == \A m \in 1 .. n - 1 : l[m] # l[n]

\* The versions that the first n entries make, and the requests behind them.
Newer(h, op) == Append(h, Changed(h[Len(h)], op))
Begun == [versions |-> <<ZeroConfig>>, firsts |-> <<>>]
Then(l, n, r) ==
    IF IsNew(l, n) THEN [versions |-> Newer(r.versions, l[n]), firsts |-> Append(r.firsts, l[n])]
    ELSE r
IsShardHist(f, l) == f = [n \in 0 .. Len(l) |-> IF n = 0 THEN Begun ELSE Then(l, n, f[n - 1])]
ShardHist(l) == CHOOSE f : IsShardHist(f, l)
Versions(l, n) == ShardHist(l)[n].versions

LEMMA ShardHistIs ==
    ASSUME NEW l, IsSeq(l)
    PROVE  /\ ShardHist(l)[0] = Begun
           /\ \A n \in 1 .. Len(l) : ShardHist(l)[n] = Then(l, n, ShardHist(l)[n - 1])
<1> DEFINE Is(f, n) == f = [k \in 0 .. n |-> IF k = 0 THEN Begun ELSE Then(l, k, f[k - 1])]
           T == {n \in Nat : \E f : Is(f, n)}
<1>1. 0 \in T
  <2> DEFINE f == [k \in 0 .. 0 |-> Begun]
  <2>1. Is(f, 0)
    OBVIOUS
  <2> QED BY <2>1
<1>2. \A n \in T : n + 1 \in T
  <2> SUFFICES ASSUME NEW n \in Nat, NEW f, Is(f, n) PROVE \E h : Is(h, n + 1)
    OBVIOUS
  <2> DEFINE h == [k \in 0 .. n + 1 |-> IF k <= n THEN f[k] ELSE Then(l, n + 1, f[n])]
  <2>1. \A k \in 0 .. n : h[k] = f[k]
    OBVIOUS
  <2>2. h[n + 1] = Then(l, n + 1, h[n])
    OBVIOUS
  <2>3. \A k \in 0 .. n + 1 : h[k] = IF k = 0 THEN Begun ELSE Then(l, k, h[k - 1])
    <3> SUFFICES ASSUME NEW k \in 0 .. n + 1
                 PROVE  h[k] = IF k = 0 THEN Begun ELSE Then(l, k, h[k - 1])
      OBVIOUS
    <3> HIDE DEF h
    <3>1. CASE k = n + 1
      BY <2>2, <3>1
    <3>2. CASE k # n + 1
      <4>1. k \in 0 .. n /\ (k # 0 => k - 1 \in 0 .. n)
        BY <3>2
      <4>2. f[k] = IF k = 0 THEN Begun ELSE Then(l, k, f[k - 1])
        BY <4>1
      <4> QED BY <2>1, <4>1, <4>2
    <3> QED BY <3>1, <3>2
  <2>4. h = [k \in 0 .. n + 1 |-> h[k]]
    OBVIOUS
  <2> HIDE DEF h
  <2>5. Is(h, n + 1)
    BY <2>3, <2>4
  <2> QED BY <2>5
<1>3. T = Nat
  <2> HIDE DEF T
  <2>1. T \in SUBSET Nat
    BY DEF T
  <2> QED BY <1>1, <1>2, <2>1, AllNaturals
<1>4. Len(l) \in Nat
  BY SeqIs
<1>5. \E f : IsShardHist(f, l)
  BY <1>3, <1>4 DEF IsShardHist
<1>6. IsShardHist(ShardHist(l), l)
  BY <1>5 DEF ShardHist
<1> DEFINE g == ShardHist(l)
<1>7. g = [n \in 0 .. Len(l) |-> IF n = 0 THEN Begun ELSE Then(l, n, g[n - 1])]
  BY <1>6 DEF IsShardHist
<1> HIDE DEF g
<1>8. g[0] = Begun /\ \A n \in 1 .. Len(l) : g[n] = Then(l, n, g[n - 1])
  BY <1>4, <1>7
<1> QED BY <1>8 DEF g

\* It depends on no later entry.
LEMMA ShardHistAgrees ==
    ASSUME NEW l, IsSeq(l), NEW k, IsSeq(k), NEW n \in Nat, n <= Len(l), n <= Len(k),
           \A m \in 1 .. n : l[m] = k[m]
    PROVE  \A j \in 0 .. n : ShardHist(l)[j] = ShardHist(k)[j]
<1> DEFINE T == {j \in Nat : j <= n => ShardHist(l)[j] = ShardHist(k)[j]}
<1>0. Len(l) \in Nat /\ Len(k) \in Nat
  BY SeqIs
<1>1. 0 \in T
  BY ShardHistIs
<1>2. \A j \in T : j + 1 \in T
  <2> SUFFICES ASSUME NEW j \in T, j + 1 <= n PROVE ShardHist(l)[j + 1] = ShardHist(k)[j + 1]
    OBVIOUS
  <2>1. ShardHist(l)[j] = ShardHist(k)[j] /\ j + 1 \in 1 .. n /\ (j + 1) - 1 = j
    OBVIOUS
  <2>2. /\ ShardHist(l)[j + 1] = Then(l, j + 1, ShardHist(l)[j])
        /\ ShardHist(k)[j + 1] = Then(k, j + 1, ShardHist(k)[j])
    <3>1. j + 1 \in 1 .. Len(l) /\ j + 1 \in 1 .. Len(k)
      BY <1>0, <2>1
    <3> QED BY <2>1, <3>1, ShardHistIs
  <2>3. l[j + 1] = k[j + 1] /\ (IsNew(l, j + 1) <=> IsNew(k, j + 1))
    BY <2>1 DEF IsNew
  <2> QED BY <2>1, <2>2, <2>3 DEF Then
<1>3. T = Nat
  <2> HIDE DEF T
  <2>1. T \in SUBSET Nat
    BY DEF T
  <2> QED BY <1>1, <1>2, <2>1, AllNaturals
<1> QED BY <1>3

\* The requests behind the versions are the log without its copies.
LEMMA FirstsIs == ASSUME NEW l, IsSeq(l) PROVE Firsts(l) = ShardHist(l)[Len(l)].firsts
<1> DEFINE Is(f) == f = [n \in 0 .. Len(l) |->
                            IF n = 0 THEN <<>>
                            ELSE IF IsNew(l, n) THEN Append(f[n - 1], l[n]) ELSE f[n - 1]]
           F == CHOOSE f : Is(f)
           H == ShardHist(l)
           g == [n \in 0 .. Len(l) |-> H[n].firsts]
<1>0. Len(l) \in Nat
  BY SeqIs
<1>1. Firsts(l) = F[Len(l)]
  BY DEF Firsts, IsNew
<1>2. H[0] = Begun /\ \A n \in 1 .. Len(l) : H[n] = Then(l, n, H[n - 1])
  BY ShardHistIs
<1>3. /\ g[0] = <<>>
      /\ \A n \in 1 .. Len(l) : g[n] = IF IsNew(l, n) THEN Append(g[n - 1], l[n]) ELSE g[n - 1]
  <2> HIDE DEF H
  <2>1. g[0] = <<>>
    BY <1>0, <1>2 DEF Begun
  <2>2. ASSUME NEW n \in 1 .. Len(l)
        PROVE  g[n] = IF IsNew(l, n) THEN Append(g[n - 1], l[n]) ELSE g[n - 1]
    <3>1. H[n] = Then(l, n, H[n - 1]) /\ g[n] = H[n].firsts /\ g[n - 1] = H[n - 1].firsts
      BY <1>0, <1>2
    <3> HIDE DEF g
    <3> QED BY <3>1 DEF Then
  <2> QED BY <2>1, <2>2
<1> HIDE DEF H
<1>4. g = [n \in 0 .. Len(l) |-> g[n]]
  OBVIOUS
<1> HIDE DEF g
<1>5. Is(g)
  <2>1. \A n \in 0 .. Len(l) : g[n] = IF n = 0 THEN <<>>
                                      ELSE IF IsNew(l, n) THEN Append(g[n - 1], l[n]) ELSE g[n - 1]
    BY <1>0, <1>3
  <2> QED BY <1>4, <2>1
<1>6. Is(F)
  <2> HIDE DEF Is
  <2> QED BY <1>5
<1> HIDE DEF F
<1>7. /\ F[0] = <<>>
      /\ \A n \in 1 .. Len(l) : F[n] = IF IsNew(l, n) THEN Append(F[n - 1], l[n]) ELSE F[n - 1]
  <2> DEFINE Add(n, v) == IF IsNew(l, n) THEN Append(v, l[n]) ELSE v
             none == <<>>
  <2>1. F = [n \in 0 .. Len(l) |-> IF n = 0 THEN none ELSE Add(n, F[n - 1])]
    BY <1>6
  <2> HIDE DEF Add, none
  <2>2. F[0] = none /\ \A n \in 1 .. Len(l) : F[n] = Add(n, F[n - 1])
    BY <1>0, <2>1
  <2> QED BY <2>2 DEF Add, none
<1> HIDE DEF Is
<1> DEFINE T == {n \in Nat : n <= Len(l) => F[n] = g[n]}
<1>8. T = Nat
  <2>1. 0 \in T
    BY <1>3, <1>7
  <2>2. ASSUME NEW n \in T PROVE n + 1 \in T
    <3> SUFFICES ASSUME n + 1 <= Len(l) PROVE F[n + 1] = g[n + 1]
      OBVIOUS
    <3>1. F[n] = g[n] /\ n + 1 \in 1 .. Len(l) /\ (n + 1) - 1 = n
      BY <1>0
    <3> QED BY <1>3, <1>7, <3>1
  <2>3. T \in SUBSET Nat
    OBVIOUS
  <2> HIDE DEF T
  <2> QED BY <2>1, <2>2, <2>3, AllNaturals
<1>9. F[Len(l)] = g[Len(l)]
  BY <1>0, <1>8
<1> QED BY <1>0, <1>1, <1>9 DEF g, H

(***************************************************************************)
(* Histories of configurations.                                            *)
(***************************************************************************)
CfgOK(cfg) == cfg \in [num : Nat, groups : SUBSET GID, shards : [Shard -> GID \cup {0}]]

\* The group is a member in one of the first n versions of h.
BeenIn(h, n, gid) == \E k \in 1 .. n : gid \in h[k].groups

\* Versions are numbered, and shards are at groups that have been members.
VersionOK(h, k) ==
    /\ CfgOK(h[k]) /\ h[k].num = k - 1
    /\ \A x \in Shard : h[k].shards[x] # 0 => BeenIn(h, k, h[k].shards[x])
HistoryOK(h) == IsSeq(h) /\ Len(h) > 0 /\ \A k \in 1 .. Len(h) : VersionOK(h, k)

PrefixOf(g, h) == Len(g) <= Len(h) /\ \A k \in 1 .. Len(g) : g[k] = h[k]

LEMMA GroupsAre == \A G \in SUBSET GID : G \in SUBSET Int /\ IsFiniteSet(G)
<1>1. GID \in SUBSET Int /\ IsFiniteSet(GID)
  BY CtrlerAssumption
<1>2. \A G \in SUBSET GID : IsFiniteSet(G)
  BY <1>1, FS_Subset
<1> QED BY <1>1, <1>2

LEMMA RebalancedOK ==
    ASSUME NEW cfg, CfgOK(cfg), NEW G \in SUBSET GID
    PROVE  LET new == Rebalanced(cfg, G)
           IN  /\ CfgOK(new) /\ new.num = cfg.num + 1 /\ new.groups = G
               /\ \A x \in Shard : new.shards[x] # 0 => new.shards[x] \in G
<1> DEFINE f == rebalance(cfg.shards, G)
<1>1. f = [s \in Shard |-> f[s]]
  <2> DEFINE h == [s \in Shard |-> CASE G = {} -> 0
                                     [] s \in Kept(cfg.shards, G) -> cfg.shards[s]
                                     [] OTHER -> Taker(cfg.shards, G, s)]
  <2>1. f = h
    BY RebalanceIs
  <2>2. h = [s \in Shard |-> h[s]]
    OBVIOUS
  <2> QED BY <2>1, <2>2
<1>2. \A s \in Shard : IF G = {} THEN f[s] = 0 ELSE f[s] \in G
  BY GroupsAre, RebalanceBalances DEF Balanced
<1> HIDE DEF f
<1>3. f \in [Shard -> GID \cup {0}]
  BY <1>1, <1>2
<1>4. Rebalanced(cfg, G) = [num |-> cfg.num + 1, groups |-> G, shards |-> f]
  BY DEF Rebalanced, f
<1>5. cfg.num + 1 \in Nat
  BY DEF CfgOK
<1> QED BY <1>2, <1>3, <1>4, <1>5 DEF CfgOK

\* A join or a leave is a rebalancing, for some set of groups.
LEMMA MemberChange ==
    ASSUME NEW cfg, CfgOK(cfg), NEW op, ShardOp(op), op.type \in {"Join", "Leave"}
    PROVE  \E G \in SUBSET GID : Changed(cfg, op) = Rebalanced(cfg, G)
<1>0. cfg.groups \in SUBSET GID /\ op.gids \in SUBSET GID
  BY DEF CfgOK, ShardOp
<1>1. CASE op.type = "Join"
  <2>1. Changed(cfg, op) = Rebalanced(cfg, cfg.groups \cup op.gids)
    BY <1>1 DEF Changed, Join
  <2> QED BY <1>0, <2>1
<1>2. CASE op.type = "Leave"
  <2>1. Changed(cfg, op) = Rebalanced(cfg, cfg.groups \ op.gids)
    BY <1>2 DEF Changed, Leave
  <2> QED BY <1>0, <2>1
<1> QED BY <1>1, <1>2

LEMMA ChangedOK ==
    ASSUME NEW cfg, CfgOK(cfg), NEW op, ShardOp(op)
    PROVE  LET new == Changed(cfg, op)
           IN  /\ CfgOK(new) /\ new.num = cfg.num + 1
               /\ \A x \in Shard : new.shards[x] # 0 =>
                     \/ new.shards[x] \in new.groups
                     \/ new.shards[x] = cfg.shards[x]
                     \/ op.type = "Move" /\ new.shards[x] = op.gid
<1>1. CASE op.type \in {"Join", "Leave"}
  <2>1. PICK G \in SUBSET GID : Changed(cfg, op) = Rebalanced(cfg, G)
    BY <1>1, MemberChange
  <2> QED BY <2>1, RebalancedOK
<1>2. CASE op.type = "Move"
  <2>1. op.shard \in Shard /\ op.gid \in GID
    BY <1>2 DEF ShardOp
  <2>2. Changed(cfg, op) = [[cfg EXCEPT !.num = @ + 1] EXCEPT !.shards = [@ EXCEPT ![op.shard] = op.gid]]
    BY <1>2 DEF Changed, Move
  <2>3. cfg = [num |-> cfg.num, groups |-> cfg.groups, shards |-> cfg.shards]
        /\ cfg.num \in Nat /\ cfg.groups \in SUBSET GID /\ cfg.shards \in [Shard -> GID \cup {0}]
    BY DEF CfgOK
  <2>4. Changed(cfg, op) = [num |-> cfg.num + 1, groups |-> cfg.groups,
                            shards |-> [cfg.shards EXCEPT ![op.shard] = op.gid]]
    BY <2>2, <2>3
  <2> DEFINE f == [cfg.shards EXCEPT ![op.shard] = op.gid]
  <2>5. f \in [Shard -> GID \cup {0}] /\ \A x \in Shard : f[x] = cfg.shards[x] \/ f[x] = op.gid
    BY <2>1, <2>3
  <2>6. Changed(cfg, op) = [num |-> cfg.num + 1, groups |-> cfg.groups, shards |-> f]
    BY <2>4
  <2> HIDE DEF f
  <2> QED BY <1>2, <2>3, <2>5, <2>6 DEF CfgOK
<1> QED BY <1>1, <1>2 DEF ShardOp

LEMMA NewerOK ==
    ASSUME NEW h, HistoryOK(h), NEW op, ShardOp(op), op.type = "Move" => BeenIn(h, Len(h), op.gid)
    PROVE  HistoryOK(Newer(h, op)) /\ PrefixOf(h, Newer(h, op)) /\ Len(Newer(h, op)) = Len(h) + 1
<1> DEFINE n == Len(h)
           new == Changed(h[n], op)
           k == Newer(h, op)
<1>1. /\ IsSeq(k) /\ Len(k) = n + 1 /\ k[n + 1] = new /\ n \in Nat /\ n > 0
      /\ \A j \in 1 .. n : k[j] = h[j]
  <2>1. k = Append(h, new)
    BY DEF Newer
  <2>2. IsSeq(h) /\ Len(h) > 0
    BY DEF HistoryOK
  <2> HIDE DEF k, new
  <2> QED BY <2>1, <2>2, AppendIs, SeqIs
<1>2. VersionOK(h, n)
  BY <1>1 DEF HistoryOK
<1>3. /\ CfgOK(new) /\ new.num = h[n].num + 1
      /\ \A x \in Shard : new.shards[x] # 0 =>
            \/ new.shards[x] \in new.groups
            \/ new.shards[x] = h[n].shards[x]
            \/ op.type = "Move" /\ new.shards[x] = op.gid
  BY <1>2, ChangedOK DEF VersionOK
<1> HIDE DEF k, new, n
<1>4. ASSUME NEW m \in 1 .. n, NEW gid, BeenIn(h, m, gid)
      PROVE  BeenIn(k, m, gid) /\ BeenIn(k, n + 1, gid)
  <2>1. PICK j \in 1 .. m : gid \in h[j].groups
    BY <1>4 DEF BeenIn
  <2>2. j \in 1 .. n /\ j \in 1 .. n + 1 /\ gid \in k[j].groups
    BY <1>1, <2>1
  <2> QED BY <2>1, <2>2 DEF BeenIn
<1>5. ASSUME NEW j \in 1 .. n PROVE VersionOK(k, j)
  <2>1. VersionOK(h, j) /\ k[j] = h[j]
    BY <1>1 DEF HistoryOK, n
  <2> QED BY <1>4, <2>1 DEF VersionOK
<1>6. VersionOK(k, n + 1)
  <2>1. h[n].num = n - 1 /\ new.num = (n + 1) - 1
    BY <1>1, <1>2, <1>3 DEF VersionOK
  <2>2. ASSUME NEW x \in Shard, new.shards[x] # 0 PROVE BeenIn(k, n + 1, new.shards[x])
    <3>1. CASE new.shards[x] \in new.groups
      BY <1>1, <3>1 DEF BeenIn
    <3>2. CASE new.shards[x] = h[n].shards[x]
      BY <1>1, <1>2, <1>4, <2>2, <3>2 DEF VersionOK
    <3>3. CASE op.type = "Move" /\ new.shards[x] = op.gid
      BY <1>1, <1>4, <3>3 DEF n
    <3> QED BY <1>3, <2>2, <3>1, <3>2, <3>3
  <2> QED BY <1>1, <1>3, <2>1, <2>2 DEF VersionOK
<1>7. HistoryOK(k)
  BY <1>1, <1>5, <1>6 DEF HistoryOK
<1>8. PrefixOf(h, k)
  BY <1>1 DEF PrefixOf, n
<1> QED BY <1>1, <1>7, <1>8 DEF k, n

(***************************************************************************)
(* A log of the shard controller: versions are only added, one for each    *)
(* request.                                                                *)
(***************************************************************************)
ShardLogOK(l) ==
    /\ \A n \in 0 .. Len(l) :
          /\ HistoryOK(Versions(l, n)) /\ IsSeq(ShardHist(l)[n].firsts)
          /\ Len(Versions(l, n)) = Len(ShardHist(l)[n].firsts) + 1
    /\ \A n \in 0 .. Len(l) : \A m \in 0 .. n : PrefixOf(Versions(l, m), Versions(l, n))

\* The group has been a member.
Been(l, gid) == BeenIn(Versions(l, Len(l)), Len(Versions(l, Len(l))), gid)

LEMMA PrefixKeeps ==
    ASSUME NEW g, HistoryOK(g), NEW h, HistoryOK(h), PrefixOf(g, h)
    PROVE  /\ \A f : HistoryOK(f) /\ PrefixOf(f, g) => PrefixOf(f, h)
           /\ \A gid : BeenIn(g, Len(g), gid) => BeenIn(h, Len(h), gid)
<1>1. Len(g) \in Nat /\ Len(h) \in Nat /\ \A f : HistoryOK(f) => Len(f) \in Nat
  BY SeqIs DEF HistoryOK
<1>2. ASSUME NEW f, HistoryOK(f), PrefixOf(f, g) PROVE PrefixOf(f, h)
  <2>1. Len(f) \in Nat
    BY <1>1, <1>2
  <2> QED BY <1>1, <1>2, <2>1 DEF PrefixOf
<1>3. ASSUME NEW gid, BeenIn(g, Len(g), gid) PROVE BeenIn(h, Len(h), gid)
  BY <1>1, <1>3 DEF PrefixOf, BeenIn
<1> QED BY <1>2, <1>3

LEMMA ShardLogAppend ==
    ASSUME NEW l, IsSeq(l), ShardLogOK(l), NEW e, ShardOp(e), e.type = "Move" => Been(l, e.gid)
    PROVE  /\ ShardLogOK(Append(l, e))
           /\ \A j \in 0 .. Len(l) : ShardHist(Append(l, e))[j] = ShardHist(l)[j]
<1> DEFINE k == Append(l, e)
           N == Len(l)
           H == ShardHist(l)
           K == ShardHist(k)
           VH(n) == H[n].versions
           VK(n) == K[n].versions
<1>1. /\ IsSeq(k) /\ Len(k) = N + 1 /\ N \in Nat /\ k[N + 1] = e
      /\ \A n \in 1 .. N : k[n] = l[n]
  BY AppendIs, SeqIs
<1> HIDE DEF k
<1>2. \A j \in 0 .. N : K[j] = H[j]
  BY <1>1, ShardHistAgrees
<1>3. K[N + 1] = Then(k, N + 1, H[N])
  <2>1. K[N + 1] = Then(k, N + 1, K[N + 1 - 1])
    BY <1>1, ShardHistIs
  <2> QED BY <1>1, <1>2, <2>1
<1>4. /\ \A n \in 0 .. N : HistoryOK(VH(n)) /\ IsSeq(H[n].firsts) /\ Len(VH(n)) = Len(H[n].firsts) + 1
      /\ \A n \in 0 .. N : \A m \in 0 .. n : PrefixOf(VH(m), VH(n))
      /\ e.type = "Move" => BeenIn(VH(N), Len(VH(N)), e.gid)
  BY DEF ShardLogOK, Versions, Been
<1> HIDE DEF H, K, N
<1>5. HistoryOK(VH(N)) /\ IsSeq(H[N].firsts) /\ Len(VH(N)) = Len(H[N].firsts) + 1 /\ PrefixOf(VH(N), VH(N))
  BY <1>1, <1>4
<1>6. /\ HistoryOK(VK(N + 1)) /\ IsSeq(K[N + 1].firsts) /\ Len(VK(N + 1)) = Len(K[N + 1].firsts) + 1
      /\ PrefixOf(VH(N), VK(N + 1)) /\ PrefixOf(VK(N + 1), VK(N + 1))
  <2>1. CASE IsNew(k, N + 1)
    <3>1. VK(N + 1) = Newer(VH(N), e) /\ K[N + 1].firsts = Append(H[N].firsts, e)
      BY <1>1, <1>3, <2>1 DEF Then
    <3>2. HistoryOK(Newer(VH(N), e)) /\ PrefixOf(VH(N), Newer(VH(N), e))
          /\ Len(Newer(VH(N), e)) = Len(VH(N)) + 1
      BY <1>4, <1>5, NewerOK
    <3>3. IsSeq(Append(H[N].firsts, e)) /\ Len(Append(H[N].firsts, e)) = Len(H[N].firsts) + 1
      BY <1>5, AppendIs
    <3>4. \A h : HistoryOK(h) => PrefixOf(h, h)
      BY SeqIs DEF HistoryOK, PrefixOf
    <3> QED BY <1>5, <3>1, <3>2, <3>3, <3>4
  <2>2. CASE ~IsNew(k, N + 1)
    <3>1. K[N + 1] = H[N]
      BY <1>1, <1>3, <2>2 DEF Then
    <3> QED BY <1>5, <3>1
  <2> QED BY <2>1, <2>2
<1>7. ASSUME NEW n \in 0 .. N + 1
      PROVE  /\ HistoryOK(VK(n)) /\ IsSeq(K[n].firsts) /\ Len(VK(n)) = Len(K[n].firsts) + 1
             /\ \A m \in 0 .. n : PrefixOf(VK(m), VK(n))
  <2>1. CASE n \in 0 .. N
    <3>1. \A m \in 0 .. n : K[m] = H[m]
      BY <1>1, <1>2, <2>1
    <3>2. K[n] = H[n]
      BY <2>1, <3>1
    <3> QED BY <1>4, <2>1, <3>1, <3>2
  <2>2. CASE n = N + 1
    <3>1. ASSUME NEW m \in 0 .. N PROVE PrefixOf(VK(m), VK(n))
      <4>1. VK(m) = VH(m) /\ HistoryOK(VH(m)) /\ PrefixOf(VH(m), VH(N))
        BY <1>1, <1>2, <1>4
      <4> HIDE DEF VK, VH
      <4> QED BY <1>5, <1>6, <2>2, <4>1, PrefixKeeps
    <3>2. \A m \in 0 .. n : m \in 0 .. N \/ m = n
      BY <1>1, <2>2
    <3> HIDE DEF VK, VH
    <3> QED BY <1>6, <2>2, <3>1, <3>2
  <2> QED BY <1>1, <2>1, <2>2
<1>8. ShardLogOK(k)
  BY <1>1, <1>7 DEF ShardLogOK, K, Versions
<1> QED BY <1>2, <1>8 DEF k, K, H, N

(***************************************************************************)
(* The shard controller.                                                   *)
(***************************************************************************)

\* After the first a entries of l, the duplicate table has the number of each
\* clerk's newest request, and all before it are in the log.
TableOK(l, a, d) ==
    /\ d \in [Clerk -> Nat]
    /\ \A c \in Clerk : \A j \in Nat \ {0} : j <= d[c] <=> InLog(l, c, j, a)

CtrlersOK ==
    /\ configs = [s \in Server |-> configs[s]]
    /\ duplicateTable = [s \in Server |-> duplicateTable[s]]
    /\ \A s \in Server : /\ configs[s] = Versions(log, applied[s])
                         /\ TableOK(log, applied[s], duplicateTable[s])

\* A shard is moved to a group that has been a member.
MovesOK == \A o \in Made : o.type = "Move" => Been(log, o.gid)

ShardInv ==
    /\ kind = "ring" => \A s \in Server : configs[s] = <<ZeroConfig>>
    /\ kind = "shards" => ShardLogOK(log) /\ CtrlersOK /\ MovesOK

ShardGrown ==
    /\ Len(log) \in Nat /\ Len(log') \in Nat /\ Len(log) <= Len(log')
    /\ \A n \in 1 .. Len(log) : log'[n] = log[n]
    /\ ShardLogOK(log) /\ ShardLogOK(log')
    /\ \A j \in 0 .. Len(log) : ShardHist(log')[j] = ShardHist(log)[j]

LEMMA ShardLogGrows ==
    ASSUME CommandsInv, kind = "shards", ShardLogOK(log), MovesOK, CmdStep
    PROVE  ShardGrown
<1>0. IsSeq(log) /\ Len(log) \in Nat
  BY SeqIs DEF CommandsInv, CommandsOK
<1>1. CASE log' = log
  BY <1>0, <1>1 DEF ShardGrown
<1>2. CASE Commit
  <2>1. PICK p \in inFlight : log' = Append(log, p.op)
    BY <1>2 DEF Commit
  <2>2. p.op \in Made
    BY DEF Made
  <2>3. ShardOp(p.op) /\ (p.op.type = "Move" => Been(log, p.op.gid))
    BY <2>2 DEF CommandsInv, KnownOK, OpOK, MovesOK
  <2>4. ShardLogOK(log') /\ \A j \in 0 .. Len(log) : ShardHist(log')[j] = ShardHist(log)[j]
    BY <1>0, <2>1, <2>3, ShardLogAppend
  <2>5. Len(log') = Len(log) + 1 /\ \A n \in 1 .. Len(log) : log'[n] = log[n]
    BY <1>0, <2>1, AppendIs
  <2> QED BY <1>0, <2>4, <2>5 DEF ShardGrown
<1>3. log' = log \/ Commit
  BY DEF CmdStep, Issue, Retry, proposeAndWait, Deliver, Crash, Others
<1> QED BY <1>1, <1>2, <1>3

LEMMA BeenGrows ==
    ASSUME ShardGrown, NEW n \in 0 .. Len(log), NEW gid, BeenIn(Versions(log, n), Len(Versions(log, n)), gid)
    PROVE  Been(log', gid)
<1> DEFINE g == Versions(log', n)
           h == Versions(log', Len(log'))
<1>1. HistoryOK(g) /\ HistoryOK(h) /\ PrefixOf(g, h) /\ Versions(log, n) = g
  BY DEF ShardGrown, ShardLogOK, Versions
<1>2. BeenIn(g, Len(g), gid)
  BY <1>1
<1> HIDE DEF g, h
<1>3. BeenIn(h, Len(h), gid)
  BY <1>1, <1>2, PrefixKeeps
<1> QED BY <1>3 DEF h, Been

\* A replica's versions are good, and its latest names only past members.
LEMMA VersionsOf ==
    ASSUME CommandsOK, ShardLogOK(log), CtrlersOK, NEW s \in Server
    PROVE  /\ applied[s] \in 0 .. Len(log) /\ configs[s] = Versions(log, applied[s])
           /\ HistoryOK(configs[s]) /\ Len(configs[s]) \in Nat /\ CfgOK(latestLocked(s))
<1>1. Len(log) \in Nat /\ applied[s] \in 0 .. Len(log)
  BY SeqIs DEF CommandsOK
<1>2. configs[s] = Versions(log, applied[s])
  BY DEF CtrlersOK
<1>3. HistoryOK(configs[s])
  BY <1>1, <1>2 DEF ShardLogOK
<1>4. Len(configs[s]) \in Nat /\ Len(configs[s]) > 0
  BY <1>3, SeqIs DEF HistoryOK
<1>5. VersionOK(configs[s], Len(configs[s]))
  BY <1>3, <1>4 DEF HistoryOK
<1> QED BY <1>1, <1>2, <1>3, <1>4, <1>5 DEF VersionOK, latestLocked

LEMMA MovesKept ==
    ASSUME CommandsInv, kind = "shards", ShardLogOK(log), CtrlersOK, MovesOK, ShardGrown,
           CmdStep, CtrlerNext
    PROVE  MovesOK'
<1>0. CommandsOK /\ seq \in [Clerk -> Nat] /\ Len(log) \in Nat /\ Len(log) \in 0 .. Len(log)
  BY SeqIs DEF CommandsInv, CommandsOK
<1>1. ASSUME NEW o \in Made, o.type = "Move" PROVE Been(log', o.gid)
  <2>1. Been(log, o.gid)
    BY <1>1 DEF MovesOK
  <2> QED BY <1>0, <2>1, BeenGrows DEF Been
<1>2. ASSUME NEW c \in Clerk, NEW op, Issue(c, op), op.type = "Move" => Been(log', op.gid)
      PROVE  MovesOK'
  BY <1>0, <1>1, <1>2, IssueMakes DEF MovesOK
<1>3. ASSUME seq' = seq PROVE MovesOK'
  <2>1. Made' \subseteq Made
    <3>1. ~ \E c \in Clerk : seq' = [seq EXCEPT ![c] = @ + 1]
      <4> SUFFICES ASSUME NEW c \in Clerk, seq' = [seq EXCEPT ![c] = @ + 1] PROVE FALSE
        OBVIOUS
      <4>1. seq[c] \in Nat /\ seq[c] = seq[c] + 1
        BY <1>0, <1>3
      <4> QED BY <4>1
    <3> QED BY <1>0, <3>1, MadeGrows
  <2> QED BY <1>1, <2>1 DEF MovesOK
<1>4. ASSUME NEW c \in Clerk, NEW type \in {"Join", "Leave"}, NEW gids, Member(c, type, gids)
      PROVE  MovesOK'
  <2> DEFINE op == [clerk |-> c, seq |-> seq[c] + 1, type |-> type, gids |-> gids]
  <2>1. Issue(c, op) /\ op.type # "Move"
    BY <1>4 DEF Member
  <2> HIDE DEF op
  <2> QED BY <1>2, <2>1
<1>5. ASSUME NEW c \in Clerk, MoveCall(c) PROVE MovesOK'
  <2>1. CASE Rejected(c)
    BY <1>3, <2>1 DEF Rejected
  <2>2. ASSUME NEW shard, NEW g, NEW s \in Server, Known(s, g),
               Issue(c, [clerk |-> c, seq |-> seq[c] + 1, type |-> "Move", shard |-> shard, gid |-> g])
        PROVE  MovesOK'
    <3> DEFINE op == [clerk |-> c, seq |-> seq[c] + 1, type |-> "Move", shard |-> shard, gid |-> g]
               V == Versions(log, applied[s])
    <3>1. Issue(c, op) /\ op.gid = g
      BY <2>2
    <3>2. applied[s] \in 0 .. Len(log) /\ configs[s] = V /\ HistoryOK(V) /\ Len(V) \in Nat
      BY <1>0, VersionsOf
    <3>3. g \in V[Len(V)].groups /\ Len(V) > 0
      BY <2>2, <3>2 DEF Known, latestLocked, HistoryOK
    <3>4. BeenIn(V, Len(V), g)
      BY <3>2, <3>3 DEF BeenIn
    <3>5. Been(log', g)
      BY <3>2, <3>4, BeenGrows
    <3> HIDE DEF op
    <3> QED BY <1>2, <3>1, <3>5
  <2> QED BY <1>5, <2>1, <2>2 DEF MoveCall
<1>6. ASSUME NEW c \in Clerk, RetryCall(c) PROVE MovesOK'
  BY <1>3, <1>6 DEF RetryCall, Retry, Rejected
<1>7. ASSUME NEW s \in Server, applyLoop(s) \/ RestartCtrler(s) PROVE MovesOK'
  BY <1>3, <1>7 DEF applyLoop, RestartCtrler, Deliver, Crash
<1>8. CASE Commit
  BY <1>3, <1>8 DEF Commit
<1>9. ASSUME NEW c \in Clerk, JoinCall(c) \/ LeaveCall(c) PROVE MovesOK'
  BY <1>4, <1>9 DEF JoinCall, LeaveCall
<1> HIDE DEF MovesOK
<1> QED BY <1>5, <1>6, <1>7, <1>8, <1>9 DEF CtrlerNext

LEMMA CtrlersGrow ==
    ASSUME CommandsOK, ShardGrown, CtrlersOK, UNCHANGED <<configs, duplicateTable, applied>>
    PROVE  CtrlersOK'
<1>1. ASSUME NEW s \in Server
      PROVE  configs[s] = Versions(log', applied[s]) /\ TableOK(log', applied[s], duplicateTable[s])
  <2>1. applied[s] \in 0 .. Len(log)
    BY DEF CommandsOK, ShardGrown
  <2>2. Versions(log', applied[s]) = Versions(log, applied[s])
    BY <2>1 DEF ShardGrown, Versions
  <2>3. \A c, j : InLog(log', c, j, applied[s]) <=> InLog(log, c, j, applied[s])
    BY <2>1 DEF ShardGrown, InLog
  <2>4. TableOK(log, applied[s], duplicateTable[s]) /\ configs[s] = Versions(log, applied[s])
    BY DEF CtrlersOK
  <2>5. TableOK(log', applied[s], duplicateTable[s])
    BY <2>3, <2>4 DEF TableOK
  <2> QED BY <2>2, <2>4, <2>5
<1> QED BY <1>1 DEF CtrlersOK

\* The duplicate table tells a request that is not yet among the entries applied.
LEMMA NotSeenIs ==
    ASSUME CommandsInv, kind = "shards", CtrlersOK, NEW s \in Server, applied[s] < Len(log)
    PROVE  LET op == log[applied[s] + 1]
           IN  /\ op \in Made /\ op.clerk \in Clerk /\ op.seq \in Nat \ {0} /\ ShardOp(op)
               /\ NotSeen(s, op) <=> IsNew(log, applied[s] + 1)
<1> DEFINE a == applied[s]
           op == log[a + 1]
<1>1. a \in Nat /\ Len(log) \in Nat /\ a + 1 \in 1 .. Len(log)
  BY SeqIs DEF CommandsInv, CommandsOK
<1>2. op \in Made /\ \A m \in 1 .. a : log[m] \in Made
  BY <1>1 DEF Made
<1>3. op.clerk \in Clerk /\ op.seq \in Nat \ {0} /\ ShardOp(op)
  BY <1>2 DEF CommandsInv, KnownOK, OpOK
<1>4. TableOK(log, a, duplicateTable[s])
  BY DEF CtrlersOK
<1>5. duplicateTable[s][op.clerk] \in Nat
  BY <1>3, <1>4 DEF TableOK
<1>6. \A m \in 1 .. a : log[m].clerk = op.clerk /\ log[m].seq = op.seq <=> log[m] = op
  BY <1>2 DEF CommandsInv, KnownOK
<1>7. op.seq <= duplicateTable[s][op.clerk] <=> InLog(log, op.clerk, op.seq, a)
  BY <1>3, <1>4 DEF TableOK
<1> HIDE DEF op
<1>8. IsNew(log, a + 1) <=> \A m \in 1 .. a : log[m] # op
  BY <1>1 DEF IsNew, op
<1>9. InLog(log, op.clerk, op.seq, a) <=> \E m \in 1 .. a : log[m] = op
  BY <1>6 DEF InLog
<1> HIDE DEF a
<1>10. NotSeen(s, op) <=> ~(op.seq <= duplicateTable[s][op.clerk])
  BY <1>3, <1>5 DEF NotSeen
<1>11. NotSeen(s, op) <=> IsNew(log, a + 1)
  BY <1>7, <1>8, <1>9, <1>10
<1> QED BY <1>2, <1>3, <1>11 DEF op, a

LEMMA ShardApplied ==
    ASSUME CommandsInv, kind = "shards", ShardLogOK(log), CtrlersOK, NEW s \in Server, applyLoop(s)
    PROVE  CtrlersOK'
<1> DEFINE a == applied[s]
           op == log[a + 1]
           d == duplicateTable[s]
<1>1. /\ a < Len(log) /\ applied' = [applied EXCEPT ![s] = a + 1] /\ log' = log
      /\ IF NotSeen(s, op)
         THEN /\ configs' = [configs EXCEPT ![s] = Newer(configs[s], op)]
              /\ duplicateTable' = [duplicateTable EXCEPT ![s] = [d EXCEPT ![op.clerk] = op.seq]]
         ELSE configs' = configs /\ duplicateTable' = duplicateTable
  BY DEF applyLoop, Deliver, ctrlerVars, Newer, latestLocked
<1>2. /\ applied \in [Server -> Nat] /\ a \in Nat /\ Len(log) \in Nat /\ a + 1 \in 1 .. Len(log)
      /\ (a + 1) - 1 = a /\ a \in 0 .. Len(log) /\ IsSeq(log)
  BY <1>1, SeqIs DEF CommandsInv, CommandsOK
<1>3. /\ op.clerk \in Clerk /\ op.seq \in Nat \ {0}
      /\ NotSeen(s, op) <=> IsNew(log, a + 1)
  BY <1>1, NotSeenIs
<1>4. /\ configs = [t \in Server |-> configs[t]] /\ duplicateTable = [t \in Server |-> duplicateTable[t]]
      /\ \A t \in Server : configs[t] = Versions(log, applied[t]) /\ TableOK(log, applied[t], duplicateTable[t])
  BY DEF CtrlersOK
<1>5. ShardHist(log)[a + 1] = Then(log, a + 1, ShardHist(log)[a])
  BY <1>2, ShardHistIs
<1>6. TableOK(log, a, d)
  BY <1>4
<1>7. log[a + 1] = op /\ \A j \in 1 .. op.seq - 1 : InLog(log, op.clerk, j, a)
  BY <1>2 DEF CommandsInv, PastOK
<1> HIDE DEF op, a, d
<1>8. \A c, j : InLog(log, c, j, a + 1) <=> InLog(log, c, j, a) \/ (c = op.clerk /\ j = op.seq)
  <2> SUFFICES ASSUME NEW c, NEW j
               PROVE  InLog(log, c, j, a + 1) <=> InLog(log, c, j, a) \/ (c = op.clerk /\ j = op.seq)
    OBVIOUS
  <2>1. \A m \in 1 .. a + 1 : m \in 1 .. a \/ m = a + 1
    BY <1>2
  <2>2. \A m \in 1 .. a : m \in 1 .. a + 1
    BY <1>2
  <2>3. a + 1 \in 1 .. a + 1
    BY <1>2
  <2> QED BY <1>7, <2>1, <2>2, <2>3 DEF InLog
<1>9. CASE NotSeen(s, op)
  <2> DEFINE new == [d EXCEPT ![op.clerk] = op.seq]
  <2>1. Versions(log, a + 1) = Newer(configs[s], op)
    BY <1>3, <1>4, <1>5, <1>7, <1>9 DEF Then, Versions, a
  <2>2. TableOK(log, a + 1, new)
    <3>1. d \in [Clerk -> Nat] /\ op.seq \in Nat /\ \A c \in Clerk : \A j \in Nat \ {0} : j <= d[c] <=> InLog(log, c, j, a)
      BY <1>3, <1>6 DEF TableOK
    <3>2. new \in [Clerk -> Nat] /\ new[op.clerk] = op.seq /\ \A c \in Clerk \ {op.clerk} : new[c] = d[c]
      BY <1>3, <3>1
    <3>3. d[op.clerk] < op.seq
      BY <1>3, <1>9, <3>1 DEF NotSeen, d
    <3> HIDE DEF new
    <3>4. ASSUME NEW c \in Clerk, NEW j \in Nat \ {0} PROVE j <= new[c] <=> InLog(log, c, j, a + 1)
      <4>1. CASE c # op.clerk
        BY <1>8, <3>1, <3>2, <4>1
      <4>2. CASE c = op.clerk
        <5>1. j < op.seq => InLog(log, c, j, a)
          BY <1>3, <1>7, <4>2
        <5>2. InLog(log, c, j, a) => j <= d[op.clerk]
          BY <3>1, <4>2
        <5>3. d[op.clerk] \in Nat
          BY <1>3, <3>1
        <5>4. j <= op.seq <=> j < op.seq \/ j = op.seq
          BY <1>3
        <5>5. InLog(log, c, j, a) => j < op.seq
          BY <1>3, <3>3, <5>2, <5>3
        <5> QED BY <1>8, <3>2, <4>2, <5>1, <5>4, <5>5
      <4> QED BY <4>1, <4>2
    <3> QED BY <3>2, <3>4 DEF TableOK
  <2>3. /\ configs' = [configs EXCEPT ![s] = Versions(log, a + 1)]
        /\ duplicateTable' = [duplicateTable EXCEPT ![s] = new]
    BY <1>1, <1>9, <2>1
  <2> HIDE DEF new
  <2>4. ASSUME NEW t \in Server
        PROVE  configs'[t] = Versions(log, applied'[t]) /\ TableOK(log, applied'[t], duplicateTable'[t])
    BY <1>1, <1>2, <1>4, <2>2, <2>3
  <2>5. configs' = [t \in Server |-> configs'[t]] /\ duplicateTable' = [t \in Server |-> duplicateTable'[t]]
    BY <1>4, <2>3
  <2> QED BY <1>1, <2>4, <2>5 DEF CtrlersOK
<1>10. CASE ~NotSeen(s, op)
  <2>1. Versions(log, a + 1) = Versions(log, a)
    BY <1>3, <1>5, <1>10 DEF Then, Versions
  <2>2. TableOK(log, a + 1, d)
    <3>1. op.seq <= d[op.clerk]
      BY <1>3, <1>6, <1>10 DEF NotSeen, TableOK, d
    <3>2. InLog(log, op.clerk, op.seq, a)
      BY <1>3, <1>6, <3>1 DEF TableOK
    <3> QED BY <1>6, <1>8, <3>2 DEF TableOK
  <2>3. ASSUME NEW t \in Server
        PROVE  configs[t] = Versions(log, applied'[t]) /\ TableOK(log, applied'[t], duplicateTable[t])
    BY <1>1, <1>2, <1>4, <2>1, <2>2 DEF a, d
  <2> QED BY <1>1, <1>4, <1>10, <2>3 DEF CtrlersOK
<1> QED BY <1>9, <1>10

LEMMA ShardRestarted ==
    ASSUME CommandsInv, CtrlersOK, NEW s \in Server, RestartCtrler(s)
    PROVE  CtrlersOK'
<1> DEFINE new == [c \in Clerk |-> 0]
           one == <<ZeroConfig>>
<1>1. /\ log' = log /\ applied' = [applied EXCEPT ![s] = 0] /\ applied \in [Server -> Nat]
      /\ configs' = [configs EXCEPT ![s] = one]
      /\ duplicateTable' = [duplicateTable EXCEPT ![s] = new]
  BY DEF RestartCtrler, Crash, NewCtrler, CommandsInv, CommandsOK
<1>2. /\ configs = [t \in Server |-> configs[t]] /\ duplicateTable = [t \in Server |-> duplicateTable[t]]
      /\ \A t \in Server : configs[t] = Versions(log, applied[t]) /\ TableOK(log, applied[t], duplicateTable[t])
  BY DEF CtrlersOK
<1>3. Versions(log, 0) = one
  BY ShardHistIs DEF Versions, Begun, CommandsInv, CommandsOK
<1>4. TableOK(log, 0, new)
  BY DEF TableOK, InLog
<1> HIDE DEF new, one
<1>5. ASSUME NEW t \in Server
      PROVE  configs'[t] = Versions(log, applied'[t]) /\ TableOK(log, applied'[t], duplicateTable'[t])
  BY <1>1, <1>2, <1>3, <1>4
<1>6. configs' = [t \in Server |-> configs'[t]] /\ duplicateTable' = [t \in Server |-> duplicateTable'[t]]
  BY <1>1, <1>2
<1> QED BY <1>1, <1>5, <1>6 DEF CtrlersOK

LEMMA ShardInvStep ==
    ASSUME CommandsInv, ShardInv, kind = "shards", CtrlerNext, CmdStep
    PROVE  ShardLogOK(log') /\ CtrlersOK' /\ MovesOK'
<1>1. ShardLogOK(log) /\ CtrlersOK /\ MovesOK /\ CommandsOK
  BY DEF ShardInv, CommandsInv
<1>2. ShardGrown
  BY <1>1, ShardLogGrows
<1>3. MovesOK'
  BY <1>1, <1>2, MovesKept
<1>4. ASSUME NEW s \in Server, applyLoop(s) \/ RestartCtrler(s) PROVE CtrlersOK'
  BY <1>1, <1>4, ShardApplied, ShardRestarted
<1>5. ASSUME \/ Commit
             \/ \E c \in Clerk : JoinCall(c) \/ LeaveCall(c) \/ MoveCall(c) \/ RetryCall(c),
             UNCHANGED ctrlerVars
      PROVE  CtrlersOK'
  <2>1. applied' = applied
    BY <1>5 DEF Commit, JoinCall, LeaveCall, Member, MoveCall, RetryCall, Retry, Issue, Rejected,
                proposeAndWait
  <2> QED BY <1>1, <1>2, <1>5, <2>1, CtrlersGrow DEF ctrlerVars
<1>6. ShardLogOK(log')
  BY <1>2 DEF ShardGrown
<1>7. CtrlersOK'
  BY <1>4, <1>5 DEF CtrlerNext
<1> QED BY <1>3, <1>6, <1>7

LEMMA ShardInvKept == ASSUME CommandsInv, RingInv, ShardInv, [Next]_vars PROVE ShardInv'
<1>1. CmdStep /\ kind' = kind /\ kind \in {"shards", "ring"}
  BY NextIsCmdStep, MadeGrows DEF CommandsInv, CommandsOK
<1>2. CASE UNCHANGED vars
  BY <1>2 DEF vars, commandVars, ctrlerVars, ShardInv, CtrlersOK, MovesOK, Made
<1>3. CASE kind = "ring" /\ UNCHANGED ctrlerVars
  BY <1>1, <1>3 DEF ShardInv, ctrlerVars
<1>4. CASE kind = "shards" /\ CtrlerNext
  <2>1. ShardLogOK(log') /\ CtrlersOK' /\ MovesOK'
    BY <1>1, <1>4, ShardInvStep
  <2> QED BY <1>1, <1>4, <2>1 DEF ShardInv
<1> QED BY <1>2, <1>3, <1>4 DEF Next

LEMMA ShardInvInit == ASSUME Init PROVE ShardInv
<1> DEFINE one == <<ZeroConfig>>
           new == [c \in Clerk |-> 0]
<1>1. /\ log = <<>> /\ Len(log) = 0 /\ IsSeq(log) /\ applied = [s \in Server |-> 0]
      /\ inFlight = {} /\ seq = [c \in Clerk |-> 0]
      /\ configs = [s \in Server |-> one] /\ duplicateTable = [s \in Server |-> new]
  BY EmptyIs DEF Init, CommandsInit, CtrlerInit, NewCtrler
<1>2. ShardHist(log)[0] = Begun /\ Begun.versions = one /\ Begun.firsts = <<>>
  BY <1>1, ShardHistIs DEF Begun
<1>3. IsSeq(one) /\ Len(one) = 1 /\ one[1] = ZeroConfig
  BY SingleIs
<1>4. TableOK(log, 0, new)
  BY DEF TableOK, InLog
<1> HIDE DEF one, new
<1>5. HistoryOK(one) /\ PrefixOf(one, one)
  <2>1. /\ ZeroConfig.num = 0 /\ ZeroConfig.shards = [x \in Shard |-> 0]
        /\ ZeroConfig \in [num : Nat, groups : SUBSET GID, shards : [Shard -> GID \cup {0}]]
    BY DEF ZeroConfig
  <2>2. VersionOK(one, 1)
    BY <1>3, <2>1 DEF VersionOK, CfgOK
  <2> QED BY <1>3, <2>2 DEF HistoryOK, PrefixOf
<1>6. ShardLogOK(log)
  <2>1. Versions(log, 0) = one /\ IsSeq(ShardHist(log)[0].firsts) /\ Len(ShardHist(log)[0].firsts) = 0
    BY <1>2, EmptyIs DEF Versions
  <2>2. (\A n \in 0 .. Len(log) : n = 0) /\ \A n \in 0 .. Len(log) : \A m \in 0 .. n : n = 0 /\ m = 0
    BY <1>1
  <2>3. Len(Versions(log, 0)) = Len(ShardHist(log)[0].firsts) + 1
    BY <1>3, <2>1
  <2> QED BY <1>5, <2>1, <2>2, <2>3 DEF ShardLogOK
<1>7. CtrlersOK
  BY <1>1, <1>2, <1>4 DEF CtrlersOK, Versions
<1>8. MovesOK
  BY <1>1 DEF MovesOK, Made
<1>9. kind = "ring" => \A s \in Server : configs[s] = <<ZeroConfig>>
  BY <1>1 DEF one
<1> QED BY <1>6, <1>7, <1>8, <1>9 DEF ShardInv

LEMMA ShardInvariant == Spec => [](CommandsInv /\ RingInv /\ ShardInv)
<1>1. Init => ShardInv
  BY ShardInvInit
<1>2. CommandsInv /\ RingInv /\ ShardInv /\ [Next]_vars => ShardInv'
  BY ShardInvKept
<1> QED BY <1>1, <1>2, RingInvariant, PTL DEF Spec

(***************************************************************************)
(* What follows for the shards.                                            *)
(***************************************************************************)

\* Each request makes one version, whatever was retried, replayed or restarted,
\* and all replicas give the same config for a version (ctrler.go: applyLoop,
\* Query).
THEOREM RequestsMakeOneVersion == Spec => []OneVersionPerRequest
<1>1. ASSUME CommandsInv, ShardInv, kind = "shards", NEW s \in Server
      PROVE  /\ Len(configs[s]) = Len(Firsts(SubSeq(log, 1, applied[s]))) + 1
             /\ \A n \in 1 .. Len(configs[s]) : configs[s][n].num = n - 1
             /\ \A t \in Server, n \in 0 .. Len(configs[s]) - 1 :
                   n < Len(configs[t]) => Query(s, n) = Query(t, n)
  <2>0. CommandsOK /\ ShardLogOK(log) /\ CtrlersOK /\ IsSeq(log) /\ Len(log) \in Nat
    BY <1>1, SeqIs DEF CommandsInv, CommandsOK, ShardInv
  <2>1. \A t \in Server : /\ applied[t] \in 0 .. Len(log) /\ configs[t] = Versions(log, applied[t])
                          /\ HistoryOK(configs[t]) /\ Len(configs[t]) \in Nat
    BY <2>0, VersionsOf
  <2>2. Len(configs[s]) = Len(Firsts(SubSeq(log, 1, applied[s]))) + 1
    <3> DEFINE a == applied[s]
               l == SubSeq(log, 1, a)
    <3>1. a \in 0 .. Len(log) /\ IsSeq(l) /\ Len(l) = a /\ \A n \in 1 .. a : l[n] = log[n]
      BY <2>0, <2>1, SubSeqIs
    <3> HIDE DEF l, a
    <3>2. \A j \in 0 .. a : ShardHist(l)[j] = ShardHist(log)[j]
      BY <2>0, <3>1, ShardHistAgrees
    <3>3. ShardHist(l)[a] = ShardHist(log)[a]
      BY <3>1, <3>2
    <3>4. Firsts(l) = ShardHist(l)[a].firsts
      BY <3>1, FirstsIs
    <3>5. Len(Versions(log, a)) = Len(ShardHist(log)[a].firsts) + 1
      BY <2>0, <3>1 DEF ShardLogOK
    <3>6. configs[s] = Versions(log, a)
      BY <2>1 DEF a
    <3> QED BY <3>3, <3>4, <3>5, <3>6 DEF l, a
  <2>3. \A n \in 1 .. Len(configs[s]) : configs[s][n].num = n - 1
    BY <2>1 DEF HistoryOK, VersionOK
  <2>4. ASSUME NEW t \in Server, NEW n \in 0 .. Len(configs[s]) - 1, n < Len(configs[t])
        PROVE  Query(s, n) = Query(t, n)
    <3>1. /\ n \in Nat /\ n + 1 \in 1 .. Len(configs[s]) /\ n + 1 \in 1 .. Len(configs[t])
          /\ Query(s, n) = configs[s][n + 1] /\ Query(t, n) = configs[t][n + 1]
      BY <2>1, <2>4 DEF Query
    <3>2. PrefixOf(configs[s], configs[t]) \/ PrefixOf(configs[t], configs[s])
      <4>1. applied[s] \in 0 .. applied[t] \/ applied[t] \in 0 .. applied[s]
        BY <2>1
      <4> QED BY <2>0, <2>1, <4>1 DEF ShardLogOK
    <3> QED BY <3>1, <3>2 DEF PrefixOf
  <2> QED BY <2>2, <2>3, <2>4
<1>2. CommandsInv /\ ShardInv => OneVersionPerRequest
  BY <1>1 DEF OneVersionPerRequest
<1> QED BY <1>2, ShardInvariant, PTL

\* A shard is on a group that is not a member only if the group has been one and
\* left between Move's check and its commit (ctrler.go: Move).
THEOREM StraysHaveLeft == Spec => []StrayHasLeft
<1>1. ASSUME CommandsInv, ShardInv, NEW s \in Server, NEW shard \in Shard,
             latestLocked(s).shards[shard] # 0
      PROVE  \E n \in 1 .. Len(configs[s]) : latestLocked(s).shards[shard] \in configs[s][n].groups
  <2>1. CASE kind = "ring"
    <3>1. latestLocked(s) = ZeroConfig
      BY <1>1, <2>1, SingleIs DEF ShardInv, latestLocked
    <3> QED BY <1>1, <3>1 DEF ZeroConfig
  <2>2. CASE kind = "shards"
    <3>1. HistoryOK(configs[s]) /\ Len(configs[s]) \in Nat
      BY <1>1, <2>2, VersionsOf DEF ShardInv, CommandsInv
    <3>2. VersionOK(configs[s], Len(configs[s]))
      BY <3>1 DEF HistoryOK
    <3> QED BY <1>1, <3>2 DEF VersionOK, BeenIn, latestLocked
  <2> QED BY <1>1, <2>1, <2>2 DEF CommandsInv, CommandsOK
<1>2. CommandsInv /\ ShardInv => StrayHasLeft
  BY <1>1 DEF StrayHasLeft
<1> QED BY <1>2, ShardInvariant, PTL

\* A version that a join or a leave adds is a rebalancing of the one before.
LEMMA RebalancesIs ==
    ASSUME CommandsInv, RingInv, ShardInv, [Next]_vars, NEW s \in Server, Rebalances(s)
    PROVE  \E G \in SUBSET GID : latestLocked(s)' = Rebalanced(latestLocked(s), G)
<1>0. Len(configs'[s]) > Len(configs[s]) /\ log[applied[s] + 1].type \in {"Join", "Leave"}
  BY DEF Rebalances
<1>1. configs' # configs
  <2> SUFFICES ASSUME configs' = configs PROVE FALSE
    OBVIOUS
  <2>1. Len(configs[s]) \in Nat
    BY VersionsOf, SingleIs DEF ShardInv, CommandsInv, CommandsOK
  <2> DEFINE n == Len(configs[s])
  <2>2. n \in Nat /\ n > n
    BY <1>0, <2>1
  <2> HIDE DEF n
  <2> QED BY <2>2
<1>2. kind = "shards" /\ CtrlerNext
  BY <1>1 DEF Next, vars, ctrlerVars
<1>3. CommandsOK /\ ShardLogOK(log) /\ CtrlersOK
  BY <1>2 DEF ShardInv, CommandsInv
<1>4. /\ HistoryOK(configs[s]) /\ IsSeq(configs[s]) /\ Len(configs[s]) \in Nat /\ Len(configs[s]) > 0
      /\ CfgOK(latestLocked(s)) /\ configs = [u \in Server |-> configs[u]]
  BY <1>3, VersionsOf DEF HistoryOK, CtrlersOK
<1>5. PICK t \in Server : applyLoop(t) \/ RestartCtrler(t)
  BY <1>1, <1>2 DEF CtrlerNext, ctrlerVars
<1>6. ~RestartCtrler(t)
  <2> SUFFICES ASSUME RestartCtrler(t) PROVE FALSE
    OBVIOUS
  <2>1. configs' = [configs EXCEPT ![t] = <<ZeroConfig>>]
    BY DEF RestartCtrler, NewCtrler
  <2>2. Len(<<ZeroConfig>>) = 1
    BY SingleIs
  <2>3. Len(configs'[s]) = 1 \/ Len(configs'[s]) = Len(configs[s])
    BY <1>4, <2>1, <2>2
  <2> DEFINE n == Len(configs[s])
             k == Len(configs'[s])
  <2>4. n \in Nat /\ n > 0 /\ k > n /\ (k = 1 \/ k = n)
    BY <1>0, <1>4, <2>3
  <2> HIDE DEF n, k
  <2> QED BY <2>4
<1>7. /\ s = t /\ applied[s] < Len(log)
      /\ configs'[s] = Newer(configs[s], log[applied[s] + 1])
  <2> DEFINE op == log[applied[t] + 1]
  <2>1. /\ applied[t] < Len(log)
        /\ configs' = [configs EXCEPT ![t] = Newer(configs[t], op)]
    BY <1>1, <1>5, <1>6 DEF applyLoop, Deliver, ctrlerVars, Newer, latestLocked
  <2> HIDE DEF op
  <2>2. s # t => Len(configs'[s]) = Len(configs[s])
    BY <1>4, <2>1
  <2> DEFINE n == Len(configs[s])
             k == Len(configs'[s])
  <2>3. n \in Nat /\ k > n
    BY <1>0, <1>4
  <2>4. s = t
    <3> HIDE DEF n, k
    <3>1. s # t => k = n
      BY <2>2 DEF n, k
    <3> QED BY <2>3, <3>1
  <2> QED BY <1>4, <2>1, <2>4 DEF op
<1> DEFINE op == log[applied[s] + 1]
           old == latestLocked(s)
<1>8. ShardOp(op)
  BY <1>2, <1>3, <1>7, NotSeenIs
<1>9. latestLocked(s)' = Changed(old, op)
  <2> DEFINE k == Append(configs[s], Changed(old, op))
  <2>1. Len(k) = Len(configs[s]) + 1 /\ k[Len(configs[s]) + 1] = Changed(old, op)
    BY <1>4, AppendIs
  <2>2. k[Len(k)] = Changed(old, op)
    BY <2>1
  <2>3. configs'[s] = k
    BY <1>7 DEF Newer, latestLocked
  <2> HIDE DEF k
  <2> QED BY <2>2, <2>3 DEF latestLocked
<1>10. \E G \in SUBSET GID : Changed(old, op) = Rebalanced(old, G)
  <2>1. op.type \in {"Join", "Leave"} /\ CfgOK(old)
    BY <1>0, <1>4
  <2> HIDE DEF op, old
  <2> QED BY <1>8, <2>1, MemberChange
<1> QED BY <1>9, <1>10

\* After any sequence of joins, leaves and moves, the next join or leave spreads
\* the shards evenly over the members and leaves none elsewhere (config.go:
\* rebalance).
THEOREM ChangesBalance == Spec => ChangeBalances
<1> DEFINE A == \A s \in Server : Rebalances(s) =>
                    Balanced(latestLocked(s)'.shards, latestLocked(s)'.groups)
<1>1. ASSUME CommandsInv, RingInv, ShardInv, [Next]_vars PROVE A
  <2> SUFFICES ASSUME NEW s \in Server, Rebalances(s)
               PROVE  Balanced(latestLocked(s)'.shards, latestLocked(s)'.groups)
    OBVIOUS
  <2>1. PICK G \in SUBSET GID : latestLocked(s)' = Rebalanced(latestLocked(s), G)
    BY <1>1, RebalancesIs
  <2>2. latestLocked(s)'.shards = rebalance(latestLocked(s).shards, G) /\ latestLocked(s)'.groups = G
    BY <2>1 DEF Rebalanced
  <2>3. Balanced(rebalance(latestLocked(s).shards, G), G)
    BY GroupsAre, RebalanceBalances
  <2> QED BY <2>2, <2>3
<1>2. CommandsInv /\ RingInv /\ ShardInv /\ [Next]_vars => [A]_configs
  BY <1>1
<1>3. Spec => [][A]_configs
  <2> HIDE DEF A
  <2> QED BY <1>2, ShardInvariant, PTL DEF Spec
<1> QED BY <1>3, PTL DEF ChangeBalances

\* ... and moves no more shards than the loads it aims at force, whatever the
\* assignment before (config.go: rebalance).
THEOREM ChangesMoveFewest == Spec => ChangeMovesFewest
<1> DEFINE A == \A s \in Server : Rebalances(s) =>
                    FewestMoves(latestLocked(s).shards, latestLocked(s)'.shards, latestLocked(s)'.groups)
<1>1. ASSUME CommandsInv, RingInv, ShardInv, [Next]_vars PROVE A
  <2> SUFFICES ASSUME NEW s \in Server, Rebalances(s)
               PROVE  FewestMoves(latestLocked(s).shards, latestLocked(s)'.shards, latestLocked(s)'.groups)
    OBVIOUS
  <2>1. PICK G \in SUBSET GID : latestLocked(s)' = Rebalanced(latestLocked(s), G)
    BY <1>1, RebalancesIs
  <2>2. latestLocked(s)'.shards = rebalance(latestLocked(s).shards, G) /\ latestLocked(s)'.groups = G
    BY <2>1 DEF Rebalanced
  <2>3. FewestMoves(latestLocked(s).shards, rebalance(latestLocked(s).shards, G), G)
    BY GroupsAre, RebalanceMovesFewest
  <2> QED BY <2>2, <2>3
<1>2. CommandsInv /\ RingInv /\ ShardInv /\ [Next]_vars => [A]_configs
  BY <1>1
<1>3. Spec => [][A]_configs
  <2> HIDE DEF A
  <2> QED BY <1>2, ShardInvariant, PTL DEF Spec
<1> QED BY <1>3, PTL DEF ChangeMovesFewest
=============================================================================
