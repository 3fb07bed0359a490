------------------------------ MODULE Service ------------------------------
(***************************************************************************)
(* What the services of stages 2, 5 and 6 share: each replica has a Raft   *)
(* node, proposes commands to it and waits for the log index it was given  *)
(* to be applied (PutAppend, proposeAndWait), proposes a no-op in every    *)
(* term it leads (noopLoop) and answers reads only once the no-op of its   *)
(* term is applied (Get, Query).  The state machine itself, and what a     *)
(* read returns, are added by the modules that extend this one.            *)
(*                                                                         *)
(* Raft appears as its clients see it.  chosen is the log a majority holds *)
(* for good; a leader's own log may go beyond it and be abandoned; a node  *)
(* may go on leading a term long after a newer leader was elected.  That a *)
(* new leader's log begins with chosen, that a term has one leader and     *)
(* that replicas deliver chosen in order is what the runs and proofs of    *)
(* module Raft are about.                                                  *)
(***************************************************************************)
EXTENDS Integers, Sequences, FiniteSets

CONSTANTS
    NumServers,   \* len(servers)
    Clerk,        \* the clients; each makes one call at a time
    Nil,
    MaxTerm,      \* bound: no election beyond this term
    MaxLog,       \* bound: no proposal beyond this index
    MaxLate,      \* bound: lost races to register a channel and slow commits
    MaxRestarts   \* bound: crashes of replicas

ASSUME ServiceAssumption ==
    /\ NumServers \in Nat \ {0} /\ MaxTerm \in Nat \ {0} /\ MaxLog \in Nat
    /\ MaxLate \in Nat /\ MaxRestarts \in Nat
    /\ Nil \notin Clerk

VARIABLES
    term, leads,      \* rf.Term() and rf.State() = Leader, per replica
    log,              \* the log a replica had when it last led
    won,              \* the newest term that has had a leader
    chosen,           \* the committed log, and for each entry
    chosenIn,         \* the term of the leader that committed it
    applied,          \* how much of chosen the replica's applyLoop has taken
    noopAppliedTerm,  \* per replica
    lastNoopTerm,     \* noopLoop's, per replica
    notifyChans,      \* notifyChans[s]: index -> the clerk whose call waits
    ch,               \* what is buffered in the channel of the clerk's call
    call,             \* the clerk's call: its step, request, index and term
    lastKnown,        \* the replica the clerk talks to
    late, restarts,   \* how much of the bounds is used up
    acked,            \* history: the highest index answered OK by its proposer
    floor             \* history: acked when the read began, 0 at an ousted leader

raftVars  == <<term, leads, log, won, chosen, chosenIn>>
loopVars  == <<applied, noopAppliedTerm, notifyChans, ch>>
clerkVars == <<call, lastKnown, acked, floor>>
boundVars == <<late, restarts>>
serviceVars == <<raftVars, loopVars, lastNoopTerm, clerkVars, boundVars>>

Server == 0 .. NumServers - 1

\* Commands: a request of a clerk, or a leader's no-op.
NoopOp == [clerk |-> Nil, seq |-> 0]

Larger(m, n) == IF m > n THEN m ELSE n

\* The replica runs a handler for the clerk, past its first step.
AtServer(c, s) == lastKnown[c] = s /\ call[c].pc \notin {"idle", "propose", "read"}

ServiceInit ==
    /\ term = [s \in Server |-> 1]
    /\ leads = [s \in Server |-> s = 0]
    /\ log = [s \in Server |-> <<>>]
    /\ won = 1
    /\ chosen = <<>> /\ chosenIn = <<>>
    /\ applied = [s \in Server |-> 0]
    /\ noopAppliedTerm = [s \in Server |-> 0]
    /\ lastNoopTerm = [s \in Server |-> 0]
    /\ notifyChans = [s \in Server |-> <<>>]
    /\ ch = [c \in Clerk |-> Nil]
    /\ call = [c \in Clerk |-> [pc |-> "idle", op |-> Nil, index |-> 0, term |-> 0]]
    /\ lastKnown = [c \in Clerk |-> 0]
    /\ late = 0 /\ restarts = 0
    /\ acked = 0 /\ floor = [c \in Clerk |-> 0]

(***************************************************************************)
(* Raft.                                                                   *)
(***************************************************************************)

\* The logs an electable node may have: chosen, and possibly more of what
\* some leader had proposed after it.
Electable ==
    UNION {{SubSeq(l, 1, n) : n \in Len(chosen) .. Len(l)} :
               l \in {log[s] : s \in Server} \cup {chosen}}
Complete(l) == SubSeq(l, 1, Len(chosen)) = chosen

\* An election ends with s as the leader of a new term.
Win(s) ==
    LET t == Larger(term[s], won) + 1
    IN /\ ~leads[s] /\ t <= MaxTerm
       /\ term' = [term EXCEPT ![s] = t]
       /\ leads' = [leads EXCEPT ![s] = TRUE]
       /\ won' = t
       /\ \E l \in Electable : Complete(l) /\ log' = [log EXCEPT ![s] = l]
       /\ UNCHANGED <<chosen, chosenIn, loopVars, lastNoopTerm, clerkVars, boundVars>>

\* s hears of a newer term, from its leader or from a candidate that need not
\* win.  (The last term is left to be won.)
StepDown(s) ==
    /\ \E t \in term[s] + 1 .. won + 1 :
          /\ t = won + 1 => t < MaxTerm
          /\ term' = [term EXCEPT ![s] = t]
    /\ leads' = [leads EXCEPT ![s] = FALSE]
    /\ UNCHANGED <<log, won, chosen, chosenIn, loopVars, lastNoopTerm, clerkVars, boundVars>>

Leading(s) == leads[s] /\ term[s] = won

\* A majority has the newest leader's log up to an entry of its term.
Commit(s) ==
    /\ Leading(s)
    /\ \E n \in Len(chosen) + 1 .. Len(log[s]) :
          /\ log[s][n].term = term[s]
          /\ chosen' = SubSeq(log[s], 1, n)
          /\ chosenIn' = chosenIn \o [i \in 1 .. n - Len(chosen) |-> term[s]]
    /\ UNCHANGED <<term, leads, log, won, loopVars, lastNoopTerm, clerkVars, boundVars>>

\* Raft.Propose on a leader.
Propose(s, op) ==
    /\ Len(log[s]) < MaxLog
    /\ log' = [log EXCEPT ![s] = Append(@, [term |-> term[s], op |-> op])]
    /\ UNCHANGED <<term, leads, won, chosen, chosenIn>>

(***************************************************************************)
(* The loops of a replica.                                                 *)
(***************************************************************************)

\* Some call proposed the entry at i and has not registered its channel yet.
Unregistered(s, i) ==
    \E c \in Clerk : AtServer(c, s) /\ call[c].pc = "register" /\ call[c].index = i

Without(f, i) == [j \in DOMAIN f \ {i} |-> f[j]]

\* applyLoop takes the next entry, which has reached this replica from a leader
\* of at most its term.  The state machine's part is in the modules above;
\* result is what the loop sends to the waiting call.
Deliver(s, result) ==
    LET i == applied[s] + 1
    IN /\ i <= Len(chosen) /\ chosenIn[i] <= term[s]
       /\ applied' = [applied EXCEPT ![s] = i]
       /\ noopAppliedTerm' = IF chosen[i].op = NoopOp
                             THEN [noopAppliedTerm EXCEPT ![s] = chosen[i].term]
                             ELSE noopAppliedTerm
       /\ IF i \in DOMAIN notifyChans[s]
          THEN /\ ch' = [ch EXCEPT ![notifyChans[s][i]] = result]
               /\ notifyChans' = [notifyChans EXCEPT ![s] = Without(@, i)]
          ELSE UNCHANGED <<ch, notifyChans>>
       /\ IF Unregistered(s, i) THEN late < MaxLate /\ late' = late + 1
                                ELSE UNCHANGED late
       /\ UNCHANGED <<raftVars, lastNoopTerm, clerkVars, restarts>>

\* noopLoop's tick on a leader whose term it has not served yet.  A term that
\* ends between its State, Term and Propose makes it propose once more, later.
noopLoop(s) ==
    /\ leads[s] /\ lastNoopTerm[s] # term[s]
    /\ Propose(s, NoopOp)
    /\ lastNoopTerm' = [lastNoopTerm EXCEPT ![s] = term[s]]
    /\ UNCHANGED <<loopVars, clerkVars, boundVars>>

(***************************************************************************)
(* Calls.  A clerk tries the replicas in turn, starting from the one that  *)
(* answered last, with the same request until one answers.                 *)
(***************************************************************************)
First(pc) == IF pc \in {"propose", "register", "wait"} THEN "propose" ELSE "read"
NextServer(c) == [lastKnown EXCEPT ![c] = (@ + 1) % NumServers]
Restarted(c) == [call[c] EXCEPT !.pc = First(@), !.index = 0, !.term = 0]

\* The handler answers ErrWrongLeader or ErrTimeout.
Refused(c) ==
    /\ call' = [call EXCEPT ![c] = Restarted(c)]
    /\ lastKnown' = NextServer(c)
    /\ UNCHANGED <<acked, floor>>

Done(c) == call' = [call EXCEPT ![c] = [@ EXCEPT !.pc = "idle", !.index = 0, !.term = 0]]

StepTo(c, pc) == call' = [call EXCEPT ![c].pc = pc]

proposeCall(c) ==
    LET s == lastKnown[c]
    IN /\ call[c].pc = "propose"
       /\ \/ /\ leads[s] /\ Propose(s, call[c].op)
             /\ call' = [call EXCEPT ![c].pc = "register", ![c].index = Len(log'[s]),
                                     ![c].term = term[s]]
             /\ UNCHANGED <<lastKnown, acked, floor>>
          \/ ~leads[s] /\ Refused(c) /\ UNCHANGED raftVars
       /\ UNCHANGED <<loopVars, lastNoopTerm, boundVars>>

\* The channel replaces whatever another call has registered at the index.
registerCall(c) ==
    /\ call[c].pc = "register"
    /\ notifyChans' = [notifyChans EXCEPT ![lastKnown[c]] =
            [i \in DOMAIN @ \cup {call[c].index} |-> IF i = call[c].index THEN c ELSE @[i]]]
    /\ StepTo(c, "wait")
    /\ UNCHANGED <<raftVars, applied, noopAppliedTerm, ch, lastNoopTerm, lastKnown, acked, floor,
                   boundVars>>

\* The deferred delete is by index, whoever's channel is there by now.
deleteChan(c) ==
    /\ notifyChans' = [notifyChans EXCEPT ![lastKnown[c]] = Without(@, call[c].index)]
    /\ ch' = [ch EXCEPT ![c] = Nil]
    /\ UNCHANGED <<applied, noopAppliedTerm>>

\* Mutant: whatever was applied at the index is taken for the call's own.
Answers_any(c) == TRUE

\* What was applied at the index is the call's own request.
Answers(c) == ch[c].op = call[c].op

\* It is in the log because this call proposed it, in the term it did.
OwnEntry(c) == chosen[call[c].index].term = call[c].term

notified(c) ==
    /\ call[c].pc = "wait" /\ ch[c] # Nil
    /\ IF Answers(c)
       THEN /\ Done(c)
            /\ acked' = IF OwnEntry(c) THEN Larger(acked, call[c].index) ELSE acked
            /\ UNCHANGED <<lastKnown, floor>>
       ELSE Refused(c)
    /\ deleteChan(c)
    /\ UNCHANGED <<raftVars, lastNoopTerm, boundVars>>

\* The entry was applied and the call has not been told.
Missed(c) == call[c].index <= applied[lastKnown[c]] /\ ch[c] = Nil

deadline(c) ==
    /\ call[c].pc = "wait"
    /\ Missed(c) \/ late < MaxLate
    /\ late' = IF Missed(c) THEN late ELSE late + 1
    /\ Refused(c) /\ deleteChan(c)
    /\ UNCHANGED <<raftVars, lastNoopTerm, restarts>>

leaderCheck(c) ==
    /\ call[c].pc = "wait"
    /\ term[lastKnown[c]] # call[c].term \/ ~leads[lastKnown[c]]
    /\ Refused(c) /\ deleteChan(c)
    /\ UNCHANGED <<raftVars, lastNoopTerm, boundVars>>

\* A read looks at the state, the term and the no-op one after another.
readState(c) ==
    LET s == lastKnown[c]
    IN /\ call[c].pc = "read"
       /\ IF leads[s] THEN /\ StepTo(c, "readTerm")
                           /\ floor' = [floor EXCEPT ![c] = IF Leading(s) THEN acked ELSE 0]
                           /\ UNCHANGED <<lastKnown, acked>>
                      ELSE Refused(c)
       /\ UNCHANGED <<raftVars, loopVars, lastNoopTerm, boundVars>>

readTerm(c) ==
    /\ call[c].pc = "readTerm"
    /\ call' = [call EXCEPT ![c].pc = "readNoop", ![c].term = term[lastKnown[c]]]
    /\ UNCHANGED <<raftVars, loopVars, lastNoopTerm, lastKnown, acked, floor, boundVars>>

\* Mutant: leadership alone is enough.
Ready_leader(c) == TRUE

Ready(c) == noopAppliedTerm[lastKnown[c]] = call[c].term

(***************************************************************************)
(* Crashes.  A replica loses its role and its memory; the calls it was     *)
(* serving fail and their clerks go on to the next replica.                *)
(***************************************************************************)
Crash(s, index) ==
    /\ restarts < MaxRestarts /\ won < MaxTerm
    /\ restarts' = restarts + 1
    /\ leads' = [leads EXCEPT ![s] = FALSE]
    /\ applied' = [applied EXCEPT ![s] = index]
    /\ noopAppliedTerm' = [noopAppliedTerm EXCEPT ![s] = 0]
    /\ lastNoopTerm' = [lastNoopTerm EXCEPT ![s] = 0]
    /\ notifyChans' = [notifyChans EXCEPT ![s] = <<>>]
    /\ ch' = [c \in Clerk |-> IF AtServer(c, s) THEN Nil ELSE ch[c]]
    /\ call' = [c \in Clerk |-> IF AtServer(c, s) THEN Restarted(c) ELSE call[c]]
    /\ lastKnown' = [c \in Clerk |-> IF AtServer(c, s) THEN (s + 1) % NumServers
                                     ELSE lastKnown[c]]
    /\ UNCHANGED <<term, log, won, chosen, chosenIn, late, acked, floor>>

RaftNext == \E s \in Server : Win(s) \/ StepDown(s) \/ Commit(s)
Handler(c) ==
    \/ proposeCall(c) \/ registerCall(c) \/ notified(c) \/ deadline(c) \/ leaderCheck(c)
    \/ readState(c) \/ readTerm(c)

ServiceNext == RaftNext \/ (\E s \in Server : noopLoop(s)) \/ \E c \in Clerk : Handler(c)
=============================================================================
