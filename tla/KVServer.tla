------------------------------ MODULE KVServer ------------------------------
(***************************************************************************)
(* Stage 2 of the lab: KVServer and its Clerk, on the replicated log of    *)
(* module Service.  One key; its value is the sequence of the writes it    *)
(* consists of.                                                            *)
(***************************************************************************)
EXTENDS Service, Functions

CONSTANTS
    Types,        \* the kinds of writes: "Put", "Append"
    MaxRaftState, \* KVServer.maxRaftState in log entries; 0 (-1 there): never snapshot
    Reader,       \* the clerks that read; the others write
    MaxCalls      \* bound: the calls of a clerk

ASSUME KVAssumption ==
    /\ Types \subseteq {"Put", "Append"} /\ MaxRaftState \in Nat
    /\ Reader \subseteq Clerk /\ MaxCalls \in Nat

VARIABLES
    store, duplicateTable, \* per replica
    snapshot,              \* what the replica's Raft node has persisted
    calls,                 \* Clerk.seqNum, and the number of a reader's calls
    got                    \* what the clerk's last Get returned

kvVars == <<store, duplicateTable, snapshot, calls, got>>
vars == <<serviceVars, kvVars>>

Op == [clerk : Clerk, seq : 1 .. MaxCalls, type : Types]

NewKVServer == [index |-> 0, store |-> <<>>, dup |-> [c \in Clerk |-> 0]]

Init ==
    /\ ServiceInit
    /\ store = [s \in Server |-> <<>>]
    /\ duplicateTable = [s \in Server |-> [c \in Clerk |-> 0]]
    /\ snapshot = [s \in Server |-> NewKVServer]
    /\ calls = [c \in Clerk |-> 0]
    /\ got = [c \in Clerk |-> <<>>]

(***************************************************************************)
(* The state machine.                                                      *)
(***************************************************************************)

\* The request is newer than any applied for the client; a no-op never is.
Fresh(dup, op) == op # NoopOp /\ op.seq > dup[op.clerk]

Execute(v, op) == IF op.type = "Put" THEN <<op>> ELSE Append(v, op)

\* Mutants: the snapshot lacks the duplicate table; it claims one entry more.
snapshotLocked_store(s, index) ==
    snapshot' = [snapshot EXCEPT ![s] =
        [index |-> index, store |-> store'[s], dup |-> [c \in Clerk |-> 0]]]
snapshotLocked_more(s, index) ==
    snapshot' = [snapshot EXCEPT ![s] =
        [index |-> index + 1, store |-> store'[s], dup |-> duplicateTable'[s]]]

snapshotLocked(s, index) ==
    snapshot' = [snapshot EXCEPT ![s] =
        [index |-> index, store |-> store'[s], dup |-> duplicateTable'[s]]]

applyLoop(s) ==
    LET i  == applied[s] + 1
        op == chosen[i].op
    IN /\ Deliver(s, [op |-> op])
       /\ IF Fresh(duplicateTable[s], op)
          THEN /\ store' = [store EXCEPT ![s] = Execute(@, op)]
               /\ duplicateTable' = [duplicateTable EXCEPT ![s][op.clerk] = op.seq]
          ELSE UNCHANGED <<store, duplicateTable>>
       /\ IF MaxRaftState # 0 /\ i - snapshot[s].index >= MaxRaftState
          THEN snapshotLocked(s, i) ELSE UNCHANGED snapshot
       /\ UNCHANGED <<calls, got>>

restoreSnapshot(s, snap) ==
    /\ store' = [store EXCEPT ![s] = snap.store]
    /\ duplicateTable' = [duplicateTable EXCEPT ![s] = snap.dup]
    /\ UNCHANGED <<calls, got>>

\* applyLoop receives a snapshot that the Raft node installed: that of its
\* leader p, of a log prefix this replica has not reached.
installSnapshot(s, p) ==
    /\ leads[p] /\ term[p] = term[s] /\ snapshot[p].index > applied[s]
    /\ restoreSnapshot(s, snapshot[p])
    /\ snapshot' = [snapshot EXCEPT ![s] = snapshot[p]]
    /\ applied' = [applied EXCEPT ![s] = snapshot[p].index]
    /\ UNCHANGED <<raftVars, noopAppliedTerm, notifyChans, ch, lastNoopTerm, clerkVars, boundVars>>

\* A crash, and NewKVServer on what the Raft node has persisted.
Restart(s) ==
    /\ Crash(s, snapshot[s].index)
    /\ restoreSnapshot(s, snapshot[s])
    /\ UNCHANGED snapshot

(***************************************************************************)
(* The clerk.                                                              *)
(***************************************************************************)
Begin(c, pc, op) ==
    /\ call[c].pc = "idle" /\ calls[c] < MaxCalls
    /\ call' = [call EXCEPT ![c].pc = pc, ![c].op = op]
    /\ calls' = [calls EXCEPT ![c] = @ + 1]
    /\ UNCHANGED <<raftVars, loopVars, lastNoopTerm, lastKnown, acked, floor, boundVars,
                   store, duplicateTable, snapshot, got>>

putAppend(c) ==
    /\ c \notin Reader
    /\ \E t \in Types : Begin(c, "propose", [clerk |-> c, seq |-> calls[c] + 1, type |-> t])

Get(c) == c \in Reader /\ Begin(c, "read", call[c].op)

\* Get's second and third acquisitions of kv.mu: the no-op's term, the value.
readNoop(c) ==
    /\ call[c].pc = "readNoop"
    /\ IF Ready(c) THEN StepTo(c, "readStore") /\ UNCHANGED <<lastKnown, acked, floor>>
                   ELSE Refused(c)
    /\ UNCHANGED <<raftVars, loopVars, lastNoopTerm, boundVars, kvVars>>

readStore(c) ==
    /\ call[c].pc = "readStore"
    /\ got' = [got EXCEPT ![c] = store[lastKnown[c]]]
    /\ Done(c)
    /\ UNCHANGED <<raftVars, loopVars, lastNoopTerm, lastKnown, acked, floor, boundVars,
                   store, duplicateTable, snapshot, calls>>

Next ==
    \/ ServiceNext /\ UNCHANGED kvVars
    \/ \E s \in Server :
          applyLoop(s) \/ Restart(s) \/ \E p \in Server \ {s} : installSnapshot(s, p)
    \/ \E c \in Clerk : putAppend(c) \/ Get(c) \/ readNoop(c) \/ readStore(c)

Spec == Init /\ [][Next]_vars

(***************************************************************************)
(* Properties.                                                             *)
(***************************************************************************)
TypeOK ==
    /\ term \in [Server -> 0 .. MaxTerm] /\ leads \in [Server -> BOOLEAN]
    /\ won \in 0 .. MaxTerm
    /\ Len(chosen) = Len(chosenIn)
    /\ \A s \in Server :
          /\ applied[s] \in 0 .. Len(chosen) /\ Len(log[s]) <= MaxLog
          /\ noopAppliedTerm[s] \in 0 .. term[s]
          /\ notifyChans[s] \in [DOMAIN notifyChans[s] -> Clerk]
          /\ duplicateTable[s] \in [Clerk -> 0 .. MaxCalls]
          /\ snapshot[s].index \in 0 .. applied[s]
    /\ \A c \in Clerk :
          /\ call[c].op \in Op \cup {Nil} /\ lastKnown[c] \in Server
          /\ ch[c] = Nil \/ ch[c].op \in Op \cup {NoopOp}
          /\ call[c].pc \in {"idle", "propose", "register", "wait",
                             "read", "readTerm", "readNoop", "readStore"}

\* Reference: the requests of a log in order, each where it first appears, and
\* the value they produce.
Requests(l) ==
    LET new(n) == l[n].op # NoopOp /\ \A m \in 1 .. n - 1 : l[m].op # l[n].op
        upTo[n \in 0 .. Len(l)] ==
            IF n = 0 THEN <<>>
            ELSE IF new(n) THEN Append(upTo[n - 1], l[n].op) ELSE upTo[n - 1]
    IN upTo[Len(l)]
Value(l) ==
    LET q == Requests(l)
        upTo[n \in 0 .. Len(q)] == IF n = 0 THEN <<>> ELSE Execute(upTo[n - 1], q[n])
    IN upTo[Len(q)]

\* Every replica's store and duplicate table are what the log it has applied
\* says, each request once, whether it got there entry by entry, through
\* snapshots or by a restart (server.go: applyLoop, restoreSnapshot).
StoreIsReplay ==
    \A s \in Server :
        LET l == SubSeq(chosen, 1, applied[s])
        IN /\ store[s] = Value(l)
           /\ \A c \in Clerk : duplicateTable[s][c] =
                 Cardinality({q \in Range(Requests(l)) : q.clerk = c})

\* A Get about to read the store of a replica that led the newest term when
\* the Get began sees every write answered OK before that, even if the replica
\* is deposed between Get's looks at the state, the term and the no-op
\* (server.go: Get).
ReadsFresh == \A c \in Clerk : call[c].pc = "readStore" => applied[lastKnown[c]] >= floor[c]

IsChosen(op) == \E n \in DOMAIN chosen : chosen[n].op = op

\* The clerks see an atomic store.
Phase(c) ==
    CASE call[c].pc = "idle" -> "idle"
      [] call[c].pc # "idle" /\ First(call[c].pc) = "read" -> "reading"
      [] OTHER -> IF IsChosen(call[c].op) THEN "written" ELSE "writing"

Atomic == INSTANCE AtomicKV WITH
    done <- Requests(chosen),
    phase <- [c \in Clerk |-> Phase(c)],
    pending <- [c \in Clerk |-> call[c].op]

\* KVServer implements AtomicKV: each write takes effect once, between its call
\* and its return, retries, leader changes, crashes and snapshots
\* notwithstanding, so that none is answered OK whose entry was overwritten
\* (server.go: PutAppend), and a Get never returns a value that was not committed.
ImplementsAtomicKV == Atomic!Spec
=============================================================================
