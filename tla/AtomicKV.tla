------------------------------ MODULE AtomicKV ------------------------------
(***************************************************************************)
(* What the key-value service of stage 2 promises its clerks, without      *)
(* replicas: a write takes effect exactly once, at one moment between its  *)
(* call and its return, and a read returns a value the key has had.  (How  *)
(* recent that value must be is an invariant of the implementation,        *)
(* ReadsFresh in KVServer: the code promises it only for replicas that are *)
(* not cut off.)                                                           *)
(***************************************************************************)
EXTENDS Naturals, Sequences

CONSTANTS Clerk, Nil,
          Op       \* the writes; op.clerk is the clerk that makes it

VARIABLES done,    \* the writes that have taken effect, in order
          phase,   \* per clerk: idle, reading, writing, and written
          pending, \* the clerk's last write
          got      \* what the clerk's last read returned

vars == <<done, phase, pending, got>>

\* The key's value, as the writes it consists of: a Put replaces what there
\* was, an Append extends it.
Written(v, op) == IF op.type = "Put" THEN <<op>> ELSE Append(v, op)
Value(writes) ==
    LET after[n \in 0 .. Len(writes)] ==
            IF n = 0 THEN <<>> ELSE Written(after[n - 1], writes[n])
    IN after[Len(writes)]

Init ==
    /\ done = <<>>
    /\ phase = [c \in Clerk |-> "idle"]
    /\ pending = [c \in Clerk |-> Nil]
    /\ got = [c \in Clerk |-> <<>>]

Step(c, from, to) == phase[c] = from /\ phase' = [phase EXCEPT ![c] = to]

BeginWrite(c) ==
    /\ Step(c, "idle", "writing")
    /\ \E op \in Op : op.clerk = c /\ pending' = [pending EXCEPT ![c] = op]
    /\ UNCHANGED <<done, got>>

\* Writes under way take effect, each once and one after another.
Effect ==
    LET new == Len(done) + 1 .. Len(done')
        by(n) == done'[n].clerk
    IN /\ new # {} /\ SubSeq(done', 1, Len(done)) = done
       /\ \A n \in new : phase[by(n)] = "writing" /\ done'[n] = pending[by(n)]
       /\ \A m, n \in new : by(m) = by(n) => m = n
       /\ phase' = [c \in Clerk |-> IF \E n \in new : by(n) = c THEN "written" ELSE phase[c]]
       /\ UNCHANGED <<pending, got>>

EndWrite(c) == Step(c, "written", "idle") /\ UNCHANGED <<done, pending, got>>

BeginRead(c) == Step(c, "idle", "reading") /\ UNCHANGED <<done, pending, got>>

EndRead(c) ==
    /\ Step(c, "reading", "idle")
    /\ \E n \in 0 .. Len(done) : got' = [got EXCEPT ![c] = Value(SubSeq(done, 1, n))]
    /\ UNCHANGED <<done, pending>>

Next ==
    \/ Effect
    \/ \E c \in Clerk : BeginWrite(c) \/ EndWrite(c) \/ BeginRead(c) \/ EndRead(c)

Spec == Init /\ [][Next]_vars
=============================================================================
