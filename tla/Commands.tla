------------------------------ MODULE Commands ------------------------------
(***************************************************************************)
(* The replicated log under the two controllers (stages 5 and 6), as       *)
(* module KVServer shows it to the clients of a service built on Raft: a   *)
(* proposed request may be lost, committed at once or much later, and      *)
(* committed again when its clerk retries; a handler may be told of the    *)
(* commit or not; replicas apply the log in order, lag behind each other,  *)
(* and start again from nothing after a crash.  The state machine is added *)
(* by the modules that extend this one.                                    *)
(***************************************************************************)
EXTENDS Integers, Sequences, FiniteSets

CONSTANTS
    Server, Clerk, Nil,
    MaxFaults   \* bound: refusals, timeouts and crashes of replicas

ASSUME CommandsAssumption == MaxFaults \in Nat /\ Nil \notin {"OK", "InvalidArgs"}

VARIABLES
    kind,       \* whose log it is: the shard controller's or the ring controller's
    log,        \* the committed requests, no-ops left out
    applied,    \* per replica, how much of the log its applyLoop has taken
    inFlight,   \* proposals that may yet be committed: request and try
    call,       \* the clerk's call: its step, request, try and verdict
    seq,        \* per clerk
    faults      \* how much of the bound is used up

commandVars == <<kind, log, applied, inFlight, call, seq, faults>>

CommandsInit ==
    /\ kind \in {"shards", "ring"}
    /\ log = <<>> /\ inFlight = {}
    /\ applied = [s \in Server |-> 0]
    /\ call = [c \in Clerk |-> [pc |-> "idle", op |-> Nil, try |-> 0, verdict |-> Nil]]
    /\ seq = [c \in Clerk |-> 0]
    /\ faults = 0

Idle(c) == call[c].pc = "idle"

\* proposeAndWait at a replica that leads, or believes it does.
proposeAndWait(c, op, try) ==
    /\ inFlight' = inFlight \cup {[op |-> op, try |-> try]}
    /\ call' = [call EXCEPT ![c] = [pc |-> "wait", op |-> op, try |-> try, verdict |-> Nil]]
    /\ UNCHANGED <<kind, log, applied>>

Issue(c, op) ==
    /\ Idle(c)
    /\ proposeAndWait(c, op, 1)
    /\ seq' = [seq EXCEPT ![c] = @ + 1]
    /\ UNCHANGED faults

\* ErrWrongLeader or ErrTimeout: the clerk tries again with the same request.
Retry(c) ==
    /\ call[c].pc = "wait" /\ faults < MaxFaults
    /\ proposeAndWait(c, call[c].op, call[c].try + 1)
    /\ faults' = faults + 1
    /\ UNCHANGED seq

Commit ==
    /\ \E p \in inFlight : inFlight' = inFlight \ {p} /\ log' = Append(log, p.op)
    /\ UNCHANGED <<kind, applied, call, seq, faults>>

Return(c, verdict) == [call EXCEPT ![c].pc = "idle", ![c].verdict = verdict]

\* applyLoop takes the next entry and, if the call that waits for it is at this
\* replica, tells it the verdict.
Deliver(s, verdict) ==
    LET op == log[applied[s] + 1]
        c  == op.clerk
    IN /\ applied[s] < Len(log)
       /\ applied' = [applied EXCEPT ![s] = @ + 1]
       /\ \/ call[c].pc = "wait" /\ call[c].op = op /\ call' = Return(c, verdict)
          \/ UNCHANGED call
       /\ UNCHANGED <<kind, log, inFlight, seq, faults>>

Crash(s) ==
    /\ faults < MaxFaults /\ applied[s] > 0
    /\ faults' = faults + 1
    /\ applied' = [applied EXCEPT ![s] = 0]
    /\ UNCHANGED <<kind, log, inFlight, call, seq>>

(***************************************************************************)
(* Reference: the log without the copies of a request.                     *)
(***************************************************************************)
Firsts(l) ==
    LET new(n) == \A m \in 1 .. n - 1 : l[m] # l[n]
        upTo[n \in 0 .. Len(l)] ==
            IF n = 0 THEN <<>>
            ELSE IF new(n) THEN Append(upTo[n - 1], l[n]) ELSE upTo[n - 1]
    IN upTo[Len(l)]
=============================================================================
