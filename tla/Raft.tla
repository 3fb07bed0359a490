-------------------------------- MODULE Raft --------------------------------
(***************************************************************************)
(* Stage 1 of the lab: the Raft node (01-raft), with the state machine of  *)
(* stage 2 (02-kv-store's applyLoop) on the far side of ApplyCh.           *)
(*                                                                         *)
(* Every step that the code performs under one acquisition of r.mu is one  *)
(* action.  What the code does between two acquisitions is a state of its  *)
(* own: a spawned startElection goroutine that has not yet read the term,  *)
(* a replicateToPeer goroutine waiting for its RPC, an apply loop between  *)
(* deliverPendingSnapshot and applyPending.                                *)
(***************************************************************************)
EXTENDS Integers, Sequences, FiniteSets

CONSTANTS
    Server,       \* the node ids
    Command,      \* client operations; each is some client's only write
    Nil,          \* "no vote" (-1 in the code) and "no pending snapshot"
    MaxRaftState, \* KVServer.maxRaftState in log entries; 0 (-1 there): never snapshot
    Links,        \* the pairs {s, p} not kept apart by a partition
    Electable,    \* bound: the nodes whose election timer may fire
    Appliers,     \* bound: the nodes whose apply loop is scheduled
    MaxTerm,      \* bound: no election beyond this term
    MaxElections, \* bound: election timeouts, over all nodes
    MaxLogIndex,  \* bound: no proposal beyond this index
    MaxRestarts,  \* bound: crashes, over all nodes
    MaxDrops,     \* bound: replication RPCs that fail before delivery
    MaxRounds     \* bound: replication rounds, over all leaders; 0 = no bound

ASSUME ServerAssumption == IsFiniteSet(Server) /\ Nil \notin Server
ASSUME BoundAssumption ==
    /\ MaxTerm \in Nat /\ MaxElections \in Nat /\ MaxLogIndex \in Nat
    /\ MaxRestarts \in Nat /\ MaxDrops \in Nat /\ MaxRounds \in Nat
    /\ MaxRaftState \in Nat
    /\ Links \subseteq SUBSET Server
    /\ Electable \subseteq Server /\ Appliers \subseteq Server

VARIABLES
    state, currentTerm, votedFor,                 \* per node
    log, lastIncludedIndex, lastIncludedTerm, snapshotData,
    commitIndex, lastApplied, pendingSnapshot,
    nextIndex, matchIndex,
    repl,         \* repl[s][p]: where replicateToPeer(p) of s's round stands
    spawned,      \* startElection goroutines that have not read the term yet
    votes,        \* votes[s][b]: term and voters of the startElection spawned in b
    applyPC,      \* where RunApplyLoop stands within a tick
    applyCh,      \* messages sent on ApplyCh and not yet received
    sm,           \* the state machine: the operations it has executed
    disk,         \* the persister's state file
    snapFile,     \* the persister's snapshot file
    epoch,        \* the incarnation of the node's process
    elections,    \* how many election timeouts there have been so far
    restarts,     \* how many crashes there have been so far
    rpcs,         \* calls in flight, as requests or as replies
    drops,        \* how many replication RPCs have failed so far
    rounds,       \* how many replication rounds have begun, if bounded
    committed     \* history: every entry a leader ever committed

termVars     == <<state, currentTerm, votedFor>>
logVars      == <<log, lastIncludedIndex, lastIncludedTerm, snapshotData>>
applyVars    == <<lastApplied, pendingSnapshot>>
leaderVars   == <<nextIndex, matchIndex>>
electionVars == <<spawned, votes>>
smVars       == <<applyPC, applyCh, sm>>
diskVars     == <<disk, snapFile>>
commitVars   == <<commitIndex, committed>>
boundVars    == <<epoch, elections, restarts, drops, rounds>>
vars == <<termVars, logVars, applyVars, leaderVars, repl, electionVars,
          smVars, diskVars, commitVars, boundVars, rpcs>>

Follower  == "Follower"
Candidate == "Candidate"
Leader    == "Leader"

Peers(s) == Server \ {s}

\* The peers the transport can reach.  A call to any other peer returns an
\* error at once, and its goroutine returns with it.
Reachable(s) == {p \in Peers(s) : {s, p} \in Links}

Majority(Q) == Cardinality(Q) >= (Cardinality(Server) \div 2) + 1

(***************************************************************************)
(* The log.  log[s] holds only the entries after lastIncludedIndex[s]; all *)
(* indices below are absolute.                                             *)
(***************************************************************************)
LastLogIndex(s) == lastIncludedIndex[s] + Len(log[s])
LastLogTerm(s) ==
    IF log[s] = <<>> THEN lastIncludedTerm[s] ELSE log[s][Len(log[s])].term

physicalIndex(s, i) == i - lastIncludedIndex[s]   \* 1-based position in log[s]

\* Mutant: the snapshot's own last entry is not recognised.
TermKnown_strict(s, i) == i \in lastIncludedIndex[s] + 1 .. LastLogIndex(s)

\* termAtLocked's ok and term: the term is known from lastIncludedIndex on.
TermKnown(s, i) == i \in lastIncludedIndex[s] .. LastLogIndex(s)
TermAt(s, i) == IF i = lastIncludedIndex[s] THEN lastIncludedTerm[s]
                ELSE log[s][physicalIndex(s, i)].term

candidateLogIsUpToDate(s, lastIndex, lastTerm) ==
    IF lastTerm # LastLogTerm(s) THEN lastTerm > LastLogTerm(s)
    ELSE lastIndex >= LastLogIndex(s)

(***************************************************************************)
(* The persister.  persistLocked rewrites the whole state file from the    *)
(* node's fields as they are when the handler unlocks.                     *)
(***************************************************************************)

\* Mutant: the state file misses the log (or everything) after a change.
persistLocked_noLog(s) ==
    disk' = [disk EXCEPT ![s].currentTerm = currentTerm'[s],
                         ![s].votedFor = votedFor'[s]]
persistLocked_never(s) == UNCHANGED disk

persistLocked(s) ==
    disk' = [disk EXCEPT ![s] =
        [currentTerm |-> currentTerm'[s], votedFor |-> votedFor'[s],
         log |-> log'[s], lastIncludedIndex |-> lastIncludedIndex'[s],
         lastIncludedTerm |-> lastIncludedTerm'[s]]]

becomeFollower(s, term) ==
    /\ state' = [state EXCEPT ![s] = Follower]
    /\ currentTerm' = [currentTerm EXCEPT ![s] = IF term > @ THEN term ELSE @]
    /\ votedFor' = [votedFor EXCEPT ![s] =
                        IF term > currentTerm[s] THEN Nil ELSE @]

(***************************************************************************)
(* RPCs.  A handler consumes the request and leaves a reply for the        *)
(* caller's goroutine, unless the calling process has died meanwhile.      *)
(***************************************************************************)
Reply(m, r) ==
    rpcs' = (rpcs \ {m}) \cup (IF m.epoch = epoch[m.src] THEN {r} ELSE {})

ReplyTypes == {"VoteReply", "AppendReply", "SnapshotReply"}

\* The caller's goroutine of a replication RPC ends; an election's is silent.
Finish(m) ==
    /\ rpcs' = rpcs \ {m}
    /\ repl' = IF m.type = "VoteReply" THEN repl
               ELSE [repl EXCEPT ![m.dst][m.src] = "idle"]

Entry == [term : Nat, command : Command]

\* No startElection goroutine has run.
NoVotes == [b \in 1 .. MaxTerm |-> [term |-> 0, voters |-> {}]]

Init ==
    /\ state = [s \in Server |-> Follower]
    /\ currentTerm = [s \in Server |-> 0]
    /\ votedFor = [s \in Server |-> Nil]
    /\ log = [s \in Server |-> <<>>]
    /\ lastIncludedIndex = [s \in Server |-> 0]
    /\ lastIncludedTerm = [s \in Server |-> 0]
    /\ snapshotData = [s \in Server |-> <<>>]
    /\ commitIndex = [s \in Server |-> 0]
    /\ lastApplied = [s \in Server |-> 0]
    /\ pendingSnapshot = [s \in Server |-> Nil]
    /\ nextIndex = [s \in Server |-> [p \in Server |-> 1]]
    /\ matchIndex = [s \in Server |-> [p \in Server |-> 0]]
    /\ repl = [s \in Server |-> [p \in Server |-> "idle"]]
    /\ spawned = [s \in Server |-> {}]
    /\ votes = [s \in Server |-> NoVotes]
    /\ applyPC = [s \in Server |-> "idle"]
    /\ applyCh = [s \in Server |-> <<>>]
    /\ sm = [s \in Server |-> <<>>]
    /\ disk = [s \in Server |->
                 [currentTerm |-> 0, votedFor |-> Nil, log |-> <<>>,
                  lastIncludedIndex |-> 0, lastIncludedTerm |-> 0]]
    /\ snapFile = [s \in Server |-> <<>>]
    /\ epoch = [s \in Server |-> 0]
    /\ rpcs = {}
    /\ elections = 0
    /\ restarts = 0
    /\ drops = 0
    /\ rounds = 0
    /\ committed = <<>>

(***************************************************************************)
(* Elections.                                                              *)
(***************************************************************************)

\* RunElectionTimer: the countdown elapses on a node that is not Leader.  It
\* becomes Candidate and spawns startElection, which has read nothing yet.
ElectionTimeout(s) ==
    /\ s \in Electable
    /\ currentTerm[s] < MaxTerm /\ elections < MaxElections
    /\ elections' = elections + 1
    /\ state[s] # Leader
    /\ state' = [state EXCEPT ![s] = Candidate]
    /\ currentTerm' = [currentTerm EXCEPT ![s] = @ + 1]
    /\ votedFor' = [votedFor EXCEPT ![s] = s]
    /\ UNCHANGED logVars
    /\ persistLocked(s)
    /\ spawned' = [spawned EXCEPT ![s] = @ \cup {currentTerm[s] + 1}]
    /\ UNCHANGED <<applyVars, leaderVars, repl, votes, smVars, snapFile,
                   commitVars, epoch, restarts, drops, rounds, rpcs>>

\* startElection reads the term and the log as they are NOW, whatever has
\* happened since the candidacy that spawned it, and calls every peer.
startElection(s, b) ==
    /\ b \in spawned[s]
    /\ spawned' = [spawned EXCEPT ![s] = @ \ {b}]
    /\ votes' = [votes EXCEPT ![s][b] = [term |-> currentTerm[s], voters |-> {s}]]
    /\ rpcs' = rpcs \cup
         {[type |-> "RequestVote", src |-> s, dst |-> p, epoch |-> epoch[s],
           born |-> b, term |-> currentTerm[s],
           lastLogIndex |-> LastLogIndex(s), lastLogTerm |-> LastLogTerm(s)]
            : p \in Reachable(s)}
    /\ UNCHANGED <<termVars, logVars, applyVars, leaderVars, repl, smVars,
                   diskVars, commitVars, boundVars>>

\* The vote, once a newer term has cleared the old one.
VoteGranted(s, m, voted) ==
    /\ m.term >= currentTerm[s]
    /\ voted \in {Nil, m.src}
    /\ candidateLogIsUpToDate(s, m.lastLogIndex, m.lastLogTerm)

RequestVote(m) ==
    LET s     == m.dst
        newer == m.term > currentTerm[s]
        voted == IF newer THEN Nil ELSE votedFor[s]
        grant == VoteGranted(s, m, voted)
    IN /\ m.type = "RequestVote"
       /\ state' = [state EXCEPT ![s] = IF newer THEN Follower ELSE @]
       /\ currentTerm' = [currentTerm EXCEPT ![s] = IF newer THEN m.term ELSE @]
       /\ votedFor' = [votedFor EXCEPT ![s] = IF grant THEN m.src ELSE voted]
       /\ UNCHANGED logVars
       /\ IF newer \/ grant THEN persistLocked(s) ELSE UNCHANGED disk
       /\ Reply(m, [type |-> "VoteReply", src |-> s, dst |-> m.src,
                    born |-> m.born, reqTerm |-> m.term,
                    term |-> currentTerm'[s], granted |-> grant])
       /\ UNCHANGED <<applyVars, leaderVars, repl, electionVars, smVars,
                      snapFile, commitVars, boundVars>>

WinsElection(voters) == Majority(voters)

\* Mutant: nextIndex starts at the last index instead of after it.
becomeLeader_low(s) ==
    /\ state' = [state EXCEPT ![s] = Leader]
    /\ nextIndex' = [nextIndex EXCEPT ![s] = [p \in Server |-> LastLogIndex(s)]]
    /\ matchIndex' = [matchIndex EXCEPT ![s] = [p \in Server |-> 0]]

becomeLeader(s) ==
    /\ state' = [state EXCEPT ![s] = Leader]
    /\ nextIndex' = [nextIndex EXCEPT ![s] = [p \in Server |-> LastLogIndex(s) + 1]]
    /\ matchIndex' = [matchIndex EXCEPT ![s] = [p \in Server |-> 0]]

\* Mutant: the answer may belong to an election of an earlier term.
StillIn_anyTerm(role, s, m) == state[s] = role

\* The node still has the role and the term it made the call in.
StillIn(role, s, m) == state[s] = role /\ currentTerm[s] = m.reqTerm

\* The vote reply of an election that is still the current one.
VoteReply(m) ==
    LET s     == m.dst
        count == votes[s][m.born].voters \cup (IF m.granted THEN {m.src} ELSE {})
    IN /\ m.type = "VoteReply"
       /\ m.term <= currentTerm[s]
       /\ StillIn(Candidate, s, m)
       /\ votes' = [votes EXCEPT ![s][m.born].voters = count]
       /\ IF m.granted /\ WinsElection(count) THEN becomeLeader(s)
                                              ELSE UNCHANGED <<state, leaderVars>>
       /\ Finish(m)
       /\ UNCHANGED <<currentTerm, votedFor, logVars, applyVars, spawned, smVars,
                      diskVars, commitVars, boundVars>>

\* Any reply that carries a newer term makes its receiver step down.
StepDown(m) ==
    LET s == m.dst
    IN /\ m.type \in ReplyTypes
       /\ m.term > currentTerm[s]
       /\ becomeFollower(s, m.term)
       /\ UNCHANGED logVars
       /\ persistLocked(s)
       /\ Finish(m)
       /\ UNCHANGED <<applyVars, leaderVars, electionVars, smVars, snapFile,
                      commitVars, boundVars>>

\* A reply to a role or term the node has left is dropped.
IgnoreReply(m) ==
    LET s == m.dst
    IN /\ m.type \in ReplyTypes
       /\ m.term <= currentTerm[s]
       /\ ~StillIn(IF m.type = "VoteReply" THEN Candidate ELSE Leader, s, m)
       /\ Finish(m)
       /\ UNCHANGED <<termVars, logVars, applyVars, leaderVars, electionVars,
                      smVars, diskVars, commitVars, boundVars>>

(***************************************************************************)
(* Replication and commitment.                                             *)
(***************************************************************************)

\* Mutant: majority := len(matches)/2.
HeldByMajority_half(s, match, last, n) ==
    Cardinality({p \in Server : (IF p = s THEN last ELSE match[p]) >= n})
        >= Cardinality(Server) \div 2

HeldByMajority(s, match, last, n) ==
    Majority({p \in Server : (IF p = s THEN last ELSE match[p]) >= n})

\* Mutant: the Figure 8 restriction is missing.
OfCurrentTerm_any(s, entry) == TRUE

OfCurrentTerm(s, entry) == entry.term = currentTerm[s]

\* The index advanceCommitIndexLocked leaves in commitIndex[s], given the
\* peers' match indices and the leader's log: the largest index held by a
\* majority, if its entry is of the current term.  At most one n qualifies.
NewCommitIndex(s, match, lg) ==
    LET last    == lastIncludedIndex[s] + Len(lg)
        largest == {n \in commitIndex[s] + 1 .. last :
                      /\ HeldByMajority(s, match, last, n)
                      /\ ~HeldByMajority(s, match, last, n + 1)
                      /\ physicalIndex(s, n) \in DOMAIN lg
                      /\ OfCurrentTerm(s, lg[physicalIndex(s, n)])}
    IN IF largest = {} THEN commitIndex[s] ELSE CHOOSE n \in largest : TRUE

advanceCommitIndex(s, match, lg) ==
    LET n == NewCommitIndex(s, match, lg)
    IN /\ commitIndex' = [commitIndex EXCEPT ![s] = n]
       /\ committed' = IF n <= Len(committed) THEN committed
                       ELSE committed \o
                            SubSeq(lg, physicalIndex(s, Len(committed) + 1),
                                       physicalIndex(s, n))

Propose(s, c) ==
    LET lg == Append(log[s], [term |-> currentTerm[s], command |-> c])
    IN /\ state[s] = Leader
       /\ LastLogIndex(s) < MaxLogIndex
       /\ log' = [log EXCEPT ![s] = lg]
       /\ UNCHANGED <<termVars, lastIncludedIndex, lastIncludedTerm, snapshotData>>
       /\ persistLocked(s)
       /\ advanceCommitIndex(s, matchIndex[s], lg)
       /\ UNCHANGED <<applyVars, leaderVars, repl, electionVars, smVars,
                      snapFile, boundVars, rpcs>>

\* RunHeartbeats: a tick on a Leader starts a round, one goroutine per peer.
\* replicate's wg.Wait: the previous round's goroutines have all returned.
Heartbeat(s) ==
    /\ state[s] = Leader
    /\ Reachable(s) # {}
    /\ \A p \in Peers(s) : repl[s][p] = "idle"
    /\ MaxRounds = 0 \/ rounds < MaxRounds
    /\ rounds' = IF MaxRounds = 0 THEN 0 ELSE rounds + 1
    /\ repl' = [repl EXCEPT ![s] =
                   [p \in Server |-> IF p \in Reachable(s) THEN "ready" ELSE "idle"]]
    /\ UNCHANGED <<termVars, logVars, applyVars, leaderVars, electionVars,
                   smVars, diskVars, commitVars, epoch, elections,
                   restarts, drops, rpcs>>

\* replicateToPeer up to its RPC: give up, turn to the snapshot, or call.
replicateToPeer(s, p) ==
    LET next == nextIndex[s][p]
        prev == next - 1
    IN /\ repl[s][p] = "ready"
       /\ \/ /\ state[s] # Leader
             /\ repl' = [repl EXCEPT ![s][p] = "idle"]
             /\ UNCHANGED rpcs
          \/ /\ state[s] = Leader /\ next <= lastIncludedIndex[s]
             /\ repl' = [repl EXCEPT ![s][p] = "snap"]
             /\ UNCHANGED rpcs
          \/ /\ state[s] = Leader /\ next > lastIncludedIndex[s]
             /\ repl' = [repl EXCEPT ![s][p] = "call"]
             /\ rpcs' = rpcs \cup
                  {[type |-> "AppendEntries", src |-> s, dst |-> p,
                    epoch |-> epoch[s], term |-> currentTerm[s],
                    prevLogIndex |-> prev,
                    prevLogTerm |-> IF prev >= 1 THEN TermAt(s, prev) ELSE 0,
                    entries |-> SubSeq(log[s], physicalIndex(s, next), Len(log[s])),
                    leaderCommit |-> commitIndex[s]]}
       /\ UNCHANGED <<termVars, logVars, applyVars, leaderVars, electionVars,
                      smVars, diskVars, commitVars, boundVars>>

\* sendInstallSnapshot up to its RPC, under a second acquisition of r.mu.
sendInstallSnapshot(s, p) ==
    /\ repl[s][p] = "snap"
    /\ \/ /\ state[s] # Leader
          /\ repl' = [repl EXCEPT ![s][p] = "idle"]
          /\ UNCHANGED rpcs
       \/ /\ state[s] = Leader
          /\ repl' = [repl EXCEPT ![s][p] = "call"]
          /\ rpcs' = rpcs \cup
               {[type |-> "InstallSnapshot", src |-> s, dst |-> p,
                 epoch |-> epoch[s], term |-> currentTerm[s],
                 lastIncludedIndex |-> lastIncludedIndex[s],
                 lastIncludedTerm |-> lastIncludedTerm[s],
                 data |-> snapshotData[s]]}
    /\ UNCHANGED <<termVars, logVars, applyVars, leaderVars, electionVars,
                   smVars, diskVars, commitVars, boundVars>>

\* The transport fails a replication RPC before delivery (partitioned or
\* unregistered peer); the goroutine returns and the next round retries.
FailRPC(m) ==
    /\ m.type \in {"AppendEntries", "InstallSnapshot"}
    /\ drops < MaxDrops
    /\ drops' = drops + 1
    /\ rpcs' = rpcs \ {m}
    /\ repl' = IF m.epoch = epoch[m.src]
               THEN [repl EXCEPT ![m.src][m.dst] = "idle"] ELSE repl
    /\ UNCHANGED <<termVars, logVars, applyVars, leaderVars, electionVars,
                   smVars, diskVars, commitVars, epoch, elections, restarts, rounds>>

\* The entry before the new ones is in the log with the leader's term.
LogConsistent(s, prev, prevTerm) ==
    prev = 0 \/ (TermKnown(s, prev) /\ TermAt(s, prev) = prevTerm)

\* Mutant: what the node has beyond the common prefix is not cut off.
Overwrite_noCut(s, prev, entries) == log[s] \o entries

\* The new entries replace everything after prev.
Overwrite(s, prev, entries) ==
    SubSeq(log[s], 1, physicalIndex(s, prev)) \o entries

FollowerCommit(commit, success, leaderCommit, last) ==
    IF success /\ leaderCommit > commit
    THEN IF leaderCommit < last THEN leaderCommit ELSE last
    ELSE commit

AppendEntries(m) ==
    LET s       == m.dst
        current == m.term >= currentTerm[s]
        prev    == m.prevLogIndex
        success == current /\ LogConsistent(s, prev, m.prevLogTerm)
        lg      == IF success /\ m.entries # <<>>
                   THEN Overwrite(s, prev, m.entries)
                   ELSE log[s]
        last    == lastIncludedIndex[s] + Len(lg)
    IN /\ m.type = "AppendEntries"
       /\ IF current THEN becomeFollower(s, m.term) ELSE UNCHANGED termVars
       /\ log' = [log EXCEPT ![s] = lg]
       /\ UNCHANGED <<lastIncludedIndex, lastIncludedTerm, snapshotData>>
       /\ IF current THEN persistLocked(s) ELSE UNCHANGED disk
       /\ commitIndex' = [commitIndex EXCEPT ![s] =
              FollowerCommit(@, success, m.leaderCommit, last)]
       /\ Reply(m, [type |-> "AppendReply", src |-> s, dst |-> m.src,
                    reqTerm |-> m.term, term |-> currentTerm'[s],
                    success |-> success, newMatch |-> prev + Len(m.entries)])
       /\ UNCHANGED <<applyVars, leaderVars, repl, electionVars, smVars,
                      snapFile, boundVars, committed>>

\* Mutant: a rejection leaves nextIndex alone.
BackOff_none(next) == next

BackOff(next) == IF next > 1 THEN next - 1 ELSE next

\* replicateToPeer after its RPC, still Leader of the term it called in.
AppendReply(m) ==
    LET s     == m.dst
        p     == m.src
        match == [matchIndex[s] EXCEPT ![p] =
                     IF m.newMatch > @ THEN m.newMatch ELSE @]
    IN /\ m.type = "AppendReply"
       /\ m.term <= currentTerm[s]
       /\ StillIn(Leader, s, m)
       /\ \/ /\ m.success
             /\ matchIndex' = [matchIndex EXCEPT ![s] = match]
             /\ nextIndex' = [nextIndex EXCEPT ![s][p] = m.newMatch + 1]
             /\ advanceCommitIndex(s, match, log[s])
          \/ /\ ~m.success
             /\ nextIndex' = [nextIndex EXCEPT ![s][p] = BackOff(@)]
             /\ UNCHANGED <<matchIndex, commitVars>>
       /\ Finish(m)
       /\ UNCHANGED <<termVars, logVars, applyVars, electionVars, smVars,
                      diskVars, boundVars>>

(***************************************************************************)
(* Snapshots sent by the leader.                                           *)
(***************************************************************************)

\* What InstallSnapshot leaves in log[s]: the suffix after the snapshot if
\* the node agrees on the snapshot's last entry, otherwise nothing.
LogAfterInstall(s, m) ==
    IF /\ TermKnown(s, m.lastIncludedIndex)
       /\ TermAt(s, m.lastIncludedIndex) = m.lastIncludedTerm
    THEN SubSeq(log[s], physicalIndex(s, m.lastIncludedIndex) + 1, Len(log[s]))
    ELSE <<>>

\* Mutant: the bump to the snapshot's index is missing.
AtLeast_none(f, s, i) == f

AtLeast(f, s, i) == [f EXCEPT ![s] = IF @ < i THEN i ELSE @]

InstallSnapshot(m) ==
    LET s       == m.dst
        current == m.term >= currentTerm[s]
        i       == m.lastIncludedIndex
    IN /\ m.type = "InstallSnapshot"
       /\ IF current THEN becomeFollower(s, m.term) ELSE UNCHANGED termVars
       /\ IF current /\ i > lastIncludedIndex[s]
          THEN /\ log' = [log EXCEPT ![s] = LogAfterInstall(s, m)]
               /\ lastIncludedIndex' = [lastIncludedIndex EXCEPT ![s] = i]
               /\ lastIncludedTerm' =
                      [lastIncludedTerm EXCEPT ![s] = m.lastIncludedTerm]
               /\ snapshotData' = [snapshotData EXCEPT ![s] = m.data]
               /\ commitIndex' = AtLeast(commitIndex, s, i)
               /\ lastApplied' = AtLeast(lastApplied, s, i)
               /\ snapFile' = [snapFile EXCEPT ![s] = m.data]
               /\ pendingSnapshot' = [pendingSnapshot EXCEPT ![s] =
                      [index |-> i, data |-> m.data]]
          ELSE UNCHANGED <<logVars, commitIndex, applyVars, snapFile>>
       /\ IF current THEN persistLocked(s) ELSE UNCHANGED disk
       /\ Reply(m, [type |-> "SnapshotReply", src |-> s, dst |-> m.src,
                    reqTerm |-> m.term, term |-> currentTerm'[s],
                    lastIncludedIndex |-> i])
       /\ UNCHANGED <<leaderVars, repl, electionVars, smVars, boundVars, committed>>

\* Replication resumes right after the snapshot.
Resume(next, i) == IF i + 1 > next THEN i + 1 ELSE next

\* sendInstallSnapshot after its RPC, still Leader of the term it called in.
SnapshotReply(m) ==
    LET s     == m.dst
        i     == m.lastIncludedIndex
        match == AtLeast(matchIndex[s], m.src, i)
    IN /\ m.type = "SnapshotReply"
       /\ m.term <= currentTerm[s]
       /\ StillIn(Leader, s, m)
       /\ matchIndex' = [matchIndex EXCEPT ![s] = match]
       /\ nextIndex' = [nextIndex EXCEPT ![s][m.src] = Resume(@, i)]
       /\ advanceCommitIndex(s, match, log[s])
       /\ Finish(m)
       /\ UNCHANGED <<termVars, logVars, applyVars, electionVars, smVars,
                      diskVars, boundVars>>

(***************************************************************************)
(* The apply loop.  A tick is deliverPendingSnapshot, then applyPending's  *)
(* loop; r.mu is free between its iterations.  ApplyCh holds 64 messages,  *)
(* more than any bounded run sends, so a send never blocks here.           *)
(***************************************************************************)
Deliver(s, msg) == applyCh' = [applyCh EXCEPT ![s] = Append(@, msg)]

\* A tick before anything was committed anywhere finds nothing to deliver
\* and nothing to apply; the model lets ticks begin from then on.
deliverPendingSnapshot(s) ==
    /\ applyPC[s] = "idle"
    /\ s \in Appliers /\ committed # <<>>
    /\ applyPC' = [applyPC EXCEPT ![s] = "applying"]
    /\ pendingSnapshot' = [pendingSnapshot EXCEPT ![s] = Nil]
    /\ IF pendingSnapshot[s] = Nil THEN UNCHANGED applyCh
       ELSE Deliver(s, [kind |-> "snapshot", index |-> pendingSnapshot[s].index,
                        data |-> pendingSnapshot[s].data])
    /\ UNCHANGED <<termVars, logVars, lastApplied, leaderVars, repl, electionVars,
                   sm, diskVars, commitVars, boundVars, rpcs>>

\* One iteration of applyPending: the next entry, or the end of the tick.
applyPending(s) ==
    LET next == lastApplied[s] + 1
        more == commitIndex[s] > lastApplied[s] /\ next <= LastLogIndex(s)
    IN /\ applyPC[s] = "applying"
       /\ \/ /\ more
             /\ lastApplied' = [lastApplied EXCEPT ![s] = next]
             /\ Deliver(s, [kind |-> "entry", index |-> next,
                            command |-> log[s][physicalIndex(s, next)].command])
             /\ UNCHANGED applyPC
          \/ /\ ~more
             /\ applyPC' = [applyPC EXCEPT ![s] = "idle"]
             /\ UNCHANGED <<lastApplied, applyCh>>
       /\ UNCHANGED <<termVars, logVars, pendingSnapshot, leaderVars, repl,
                      electionVars, sm, diskVars, commitVars, boundVars, rpcs>>

(***************************************************************************)
(* The state machine: KVServer.applyLoop.  Its duplicate table makes an    *)
(* operation it has already executed a no-op.                              *)
(***************************************************************************)

\* Mutant: no duplicate table.
Execute_again(ops, c) == Append(ops, c)

Execute(ops, c) == IF \E i \in DOMAIN ops : ops[i] = c THEN ops ELSE Append(ops, c)

\* Raft.Snapshot accepts index and is not a no-op.
Compacts(s, index) ==
    /\ MaxRaftState # 0 /\ Len(log[s]) >= MaxRaftState
    /\ index > lastIncludedIndex[s]
    /\ index <= LastLogIndex(s) /\ index <= lastApplied[s]

applyEntry(s) ==
    LET msg == Head(applyCh[s])
        ops == Execute(sm[s], msg.command)
        i   == msg.index
    IN /\ applyCh[s] # <<>> /\ msg.kind = "entry"
       /\ applyCh' = [applyCh EXCEPT ![s] = Tail(@)]
       /\ sm' = [sm EXCEPT ![s] = ops]
       /\ UNCHANGED termVars
       /\ IF Compacts(s, i)
          THEN /\ log' = [log EXCEPT ![s] =
                            SubSeq(@, physicalIndex(s, i) + 1, Len(@))]
               /\ lastIncludedIndex' = [lastIncludedIndex EXCEPT ![s] = i]
               /\ lastIncludedTerm' = [lastIncludedTerm EXCEPT ![s] = TermAt(s, i)]
               /\ snapshotData' = [snapshotData EXCEPT ![s] = ops]
               /\ snapFile' = [snapFile EXCEPT ![s] = ops]
               /\ persistLocked(s)
          ELSE UNCHANGED <<logVars, diskVars>>
       /\ UNCHANGED <<applyVars, leaderVars, repl, electionVars, applyPC,
                      commitVars, boundVars, rpcs>>

adoptSnapshot(s) ==
    LET msg == Head(applyCh[s])
    IN /\ applyCh[s] # <<>> /\ msg.kind = "snapshot"
       /\ applyCh' = [applyCh EXCEPT ![s] = Tail(@)]
       /\ sm' = [sm EXCEPT ![s] = msg.data]
       /\ UNCHANGED <<termVars, logVars, applyVars, leaderVars, repl, electionVars,
                      applyPC, diskVars, commitVars, boundVars, rpcs>>

(***************************************************************************)
(* Crash and restart.                                                      *)
(***************************************************************************)

\* A new process starts from state file d and snapshot file f (newRaft,
\* restoreLocked, NewKVServer).  The old one's goroutines, channels and
\* pending replies are gone; requests it had sent may still arrive.  The
\* calls in failed were being served and end with an error at their caller.
Boot(s, d, f, failed) ==
    LET data == IF d.lastIncludedIndex > 0 THEN f ELSE <<>>
    IN /\ restarts < MaxRestarts
       /\ restarts' = restarts + 1
       /\ epoch' = [epoch EXCEPT ![s] = @ + 1]
       /\ state' = [state EXCEPT ![s] = Follower]
       /\ currentTerm' = [currentTerm EXCEPT ![s] = d.currentTerm]
       /\ votedFor' = [votedFor EXCEPT ![s] = d.votedFor]
       /\ log' = [log EXCEPT ![s] = d.log]
       /\ lastIncludedIndex' = [lastIncludedIndex EXCEPT ![s] = d.lastIncludedIndex]
       /\ lastIncludedTerm' = [lastIncludedTerm EXCEPT ![s] = d.lastIncludedTerm]
       /\ snapshotData' = [snapshotData EXCEPT ![s] = data]
       /\ commitIndex' = [commitIndex EXCEPT ![s] = d.lastIncludedIndex]
       /\ lastApplied' = [lastApplied EXCEPT ![s] = d.lastIncludedIndex]
       /\ pendingSnapshot' = [pendingSnapshot EXCEPT ![s] = Nil]
       /\ nextIndex' = [nextIndex EXCEPT ![s] = [p \in Server |-> 1]]
       /\ matchIndex' = [matchIndex EXCEPT ![s] = [p \in Server |-> 0]]
       /\ repl' = [q \in Server |-> [p \in Server |->
              IF \/ q = s
                 \/ \E m \in failed : m.src = q /\ m.dst = p /\ m.epoch = epoch[q]
              THEN "idle" ELSE repl[q][p]]]
       /\ spawned' = [spawned EXCEPT ![s] = {}]
       /\ votes' = [votes EXCEPT ![s] = NoVotes]
       /\ applyPC' = [applyPC EXCEPT ![s] = "idle"]
       /\ applyCh' = [applyCh EXCEPT ![s] = <<>>]
       /\ sm' = [sm EXCEPT ![s] = data]
       /\ rpcs' = {m \in rpcs \ failed : ~(m.type \in ReplyTypes /\ m.dst = s)}
       /\ disk' = [disk EXCEPT ![s] = d]
       /\ snapFile' = [snapFile EXCEPT ![s] = f]
       /\ UNCHANGED <<elections, drops, rounds, committed>>

Restart(s) == Boot(s, disk[s], snapFile[s], {})

\* Mutant: the state file is written first.
CrashInSnapshot_stateFirst(s) ==
    LET msg == Head(applyCh[s])
        i   == msg.index
    IN /\ applyCh[s] # <<>> /\ msg.kind = "entry"
       /\ Compacts(s, i)
       /\ Boot(s, [disk[s] EXCEPT
                     !.log = SubSeq(@, physicalIndex(s, i) + 1, Len(@)),
                     !.lastIncludedIndex = i, !.lastIncludedTerm = TermAt(s, i)],
               snapFile[s], {})

\* FilePersister.SaveStateAndSnapshot writes the snapshot file first; the
\* node dies before the state file that would refer to it is written.
CrashInSnapshot(s) ==
    LET msg == Head(applyCh[s])
    IN /\ applyCh[s] # <<>> /\ msg.kind = "entry"
       /\ Compacts(s, msg.index)
       /\ Boot(s, disk[s], Execute(sm[s], msg.command), {})

\* The same crash while InstallSnapshot saves the leader's snapshot; the new
\* term, if any, is already in the state file.
CrashInInstall(m) ==
    LET s == m.dst
        d == IF m.term > currentTerm[s]
             THEN [disk[s] EXCEPT !.currentTerm = m.term, !.votedFor = Nil]
             ELSE disk[s]
    IN /\ m.type = "InstallSnapshot"
       /\ m.term >= currentTerm[s]
       /\ m.lastIncludedIndex > lastIncludedIndex[s]
       /\ Boot(s, d, m.data, {m})

Next ==
    \/ \E s \in Server :
          \/ ElectionTimeout(s)
          \/ \E b \in spawned[s] : startElection(s, b)
          \/ \E c \in Command : Propose(s, c)
          \/ Heartbeat(s)
          \/ \E p \in Peers(s) : replicateToPeer(s, p)
          \/ \E p \in Peers(s) : sendInstallSnapshot(s, p)
          \/ deliverPendingSnapshot(s)
          \/ applyPending(s)
          \/ applyEntry(s)
          \/ adoptSnapshot(s)
          \/ Restart(s)
          \/ CrashInSnapshot(s)
    \/ \E m \in rpcs :
          \/ RequestVote(m)
          \/ VoteReply(m)
          \/ StepDown(m)
          \/ IgnoreReply(m)
          \/ FailRPC(m)
          \/ AppendEntries(m)
          \/ AppendReply(m)
          \/ InstallSnapshot(m)
          \/ CrashInInstall(m)
          \/ SnapshotReply(m)

Spec == Init /\ [][Next]_vars

\* What the code keeps doing by itself: its tickers go on ticking, spawned
\* goroutines run, and a call that is not failed by the transport is served
\* and answered.  Nothing forces a timeout, a proposal, a failure or a crash.
Serve(m) ==
    \/ RequestVote(m) \/ AppendEntries(m) \/ InstallSnapshot(m)
    \/ VoteReply(m) \/ AppendReply(m) \/ SnapshotReply(m)
    \/ StepDown(m) \/ IgnoreReply(m)

Fairness ==
    \A s \in Server :
        /\ WF_vars(\E b \in spawned[s] : startElection(s, b))
        /\ WF_vars(Heartbeat(s))
        /\ WF_vars(deliverPendingSnapshot(s))
        /\ WF_vars(applyPending(s))
        /\ WF_vars(applyEntry(s) \/ adoptSnapshot(s))
        /\ \A p \in Peers(s) :
              /\ WF_vars(replicateToPeer(s, p))
              /\ WF_vars(sendInstallSnapshot(s, p))
              /\ WF_vars(\E m \in rpcs : m.src = s /\ m.dst = p /\ Serve(m))

(***************************************************************************)
(* Properties.                                                             *)
(***************************************************************************)

Snapshot == [index : Nat, data : Seq(Command)]
Persisted == [currentTerm : Nat, votedFor : Server \cup {Nil}, log : Seq(Entry),
              lastIncludedIndex : Nat, lastIncludedTerm : Nat]
Message ==
    [type : {"RequestVote"}, src : Server, dst : Server, epoch : Nat,
     born : 1 .. MaxTerm, term : Nat, lastLogIndex : Nat, lastLogTerm : Nat]
    \cup
    [type : {"VoteReply"}, src : Server, dst : Server, born : 1 .. MaxTerm,
     reqTerm : Nat, term : Nat, granted : BOOLEAN]
    \cup
    [type : {"AppendEntries"}, src : Server, dst : Server, epoch : Nat,
     term : Nat, prevLogIndex : Nat, prevLogTerm : Nat, entries : Seq(Entry),
     leaderCommit : Nat]
    \cup
    [type : {"AppendReply"}, src : Server, dst : Server, reqTerm : Nat,
     term : Nat, success : BOOLEAN, newMatch : Nat]
    \cup
    [type : {"InstallSnapshot"}, src : Server, dst : Server, epoch : Nat,
     term : Nat, lastIncludedIndex : Nat, lastIncludedTerm : Nat,
     data : Seq(Command)]
    \cup
    [type : {"SnapshotReply"}, src : Server, dst : Server, reqTerm : Nat,
     term : Nat, lastIncludedIndex : Nat]
ApplyMsg == [kind : {"entry"}, index : Nat, command : Command]
            \cup [kind : {"snapshot"}, index : Nat, data : Seq(Command)]

TermTypeOK ==
    /\ state \in [Server -> {Follower, Candidate, Leader}]
    /\ currentTerm \in [Server -> Nat]
    /\ votedFor \in [Server -> Server \cup {Nil}]
LogTypeOK ==
    /\ log \in [Server -> Seq(Entry)]
    /\ lastIncludedIndex \in [Server -> Nat]
    /\ lastIncludedTerm \in [Server -> Nat]
    /\ snapshotData \in [Server -> Seq(Command)]
CommitTypeOK ==
    /\ commitIndex \in [Server -> Nat]
    /\ committed \in Seq(Entry)
ApplyTypeOK ==
    /\ lastApplied \in [Server -> Nat]
    /\ pendingSnapshot \in [Server -> Snapshot \cup {Nil}]
    /\ applyPC \in [Server -> {"idle", "applying"}]
    /\ applyCh \in [Server -> Seq(ApplyMsg)]
    /\ sm \in [Server -> Seq(Command)]
LeaderTypeOK ==
    /\ nextIndex \in [Server -> [Server -> Nat \ {0}]]
    /\ matchIndex \in [Server -> [Server -> Nat]]
    /\ repl \in [Server -> [Server -> {"idle", "ready", "snap", "call"}]]
ElectionTypeOK ==
    /\ spawned \in [Server -> SUBSET (1 .. MaxTerm)]
    /\ votes \in [Server -> [1 .. MaxTerm -> [term : Nat, voters : SUBSET Server]]]
DiskTypeOK ==
    /\ disk \in [Server -> Persisted]
    /\ snapFile \in [Server -> Seq(Command)]
BoundTypeOK ==
    /\ epoch \in [Server -> Nat]
    /\ elections \in Nat /\ restarts \in Nat /\ drops \in Nat /\ rounds \in Nat

\* Every field of a node, its files, its goroutines and the network keep the
\* shape that the Raft struct and the RPC argument types of rpc.go declare.
TypeOK ==
    /\ TermTypeOK
    /\ LogTypeOK
    /\ CommitTypeOK
    /\ ApplyTypeOK
    /\ LeaderTypeOK
    /\ ElectionTypeOK
    /\ DiskTypeOK
    /\ BoundTypeOK
    /\ rpcs \subseteq Message

\* Two nodes are never both Leader of one term, whatever elections overlap,
\* however late a startElection goroutine reads its term, and across restarts.
ElectionSafety ==
    \A s, t \in Server :
        state[s] = Leader /\ state[t] = Leader /\ currentTerm[s] = currentTerm[t]
            => s = t

\* A node's term never goes back and its vote within a term never changes,
\* even when a step is a crash and a restart from the persister.
VoteStable ==
    [][\A s \in Server :
          /\ currentTerm'[s] >= currentTerm[s]
          /\ currentTerm'[s] = currentTerm[s] /\ votedFor[s] # Nil
                => votedFor'[s] = votedFor[s]]_vars

\* What a node would come back with after a crash is what it has told others:
\* whenever r.mu is free, the state file holds exactly the term, vote and log
\* that the node has in memory, although a handler persists only in the
\* branches that change one of them.
DiskCurrent ==
    \A s \in Server :
        disk[s] = [currentTerm |-> currentTerm[s], votedFor |-> votedFor[s],
                   log |-> log[s], lastIncludedIndex |-> lastIncludedIndex[s],
                   lastIncludedTerm |-> lastIncludedTerm[s]]

\* Logs that agree on the term of an entry agree on every entry up to it
\* that both still hold: AppendEntries' consistency check at work.
LogMatching ==
    \A s, t \in Server :
        \A i \in 1 .. LastLogIndex(s) :
            TermKnown(s, i) /\ TermKnown(t, i) /\ TermAt(s, i) = TermAt(t, i) =>
                \A j \in 1 .. i :
                    j > lastIncludedIndex[s] /\ j > lastIncludedIndex[t] =>
                        log[s][physicalIndex(s, j)] = log[t][physicalIndex(t, j)]

\* What a node takes for committed is what a leader committed at that index,
\* and it still has all of it: no AppendEntries or InstallSnapshot cuts a
\* committed entry out of a log, and commitIndex never runs past the log.
CommittedAgreement ==
    \A s \in Server :
        /\ commitIndex[s] <= LastLogIndex(s)
        /\ commitIndex[s] <= Len(committed)
        /\ \A i \in lastIncludedIndex[s] + 1 .. commitIndex[s] :
              log[s][physicalIndex(s, i)] = committed[i]
        /\ lastIncludedIndex[s] > 0 =>
              lastIncludedTerm[s] = committed[lastIncludedIndex[s]].term

\* A leader whose term is not older than the last commit holds every entry
\* ever committed: the vote rule and the current-term commit rule together.
LeaderCompleteness ==
    \A s \in Server :
        state[s] = Leader /\ committed # <<>>
        /\ committed[Len(committed)].term <= currentTerm[s] =>
              /\ LastLogIndex(s) >= Len(committed)
              /\ \A i \in lastIncludedIndex[s] + 1 .. Len(committed) :
                    log[s][physicalIndex(s, i)] = committed[i]

\* matchIndex is a fact and not a hope: while a peer is in the leader's term
\* its log really holds the leader's entries through matchIndex.
MatchIndexTruthful ==
    \A s \in Server : \A p \in Peers(s) :
        LET n == matchIndex[s][p]
        IN state[s] = Leader /\ currentTerm[p] = currentTerm[s] /\ n > 0 =>
              /\ n <= LastLogIndex(p)
              /\ TermKnown(s, n) /\ TermKnown(p, n) => TermAt(s, n) = TermAt(p, n)

\* Compaction never passes application and application never passes
\* commitment, so the entry applyPending reads next is never compacted away.
IndexOrder ==
    \A s \in Server : lastIncludedIndex[s] <= lastApplied[s]
                      /\ lastApplied[s] <= commitIndex[s]

\* What the state machine has executed after the first k committed entries.
Replay ==
    LET r[k \in 0 .. Len(committed)] ==
            IF k = 0 THEN <<>> ELSE Execute(r[k - 1], committed[k].command)
    IN r

\* Every node's state machine is in the state that some prefix of the
\* committed log leads to, also after a restart from an older state file
\* beside a newer snapshot.
StateMachineSafety ==
    \A s \in Server : \E k \in 0 .. Len(committed) : sm[s] = Replay[k]

\* The snapshot a node would serve or restart from accounts for every entry
\* its log no longer holds.
SnapshotCoversLog ==
    \A s \in Server : \A i \in 1 .. lastIncludedIndex[s] :
        \E j \in DOMAIN snapshotData[s] : snapshotData[s][j] = committed[i].command

\* No step the code can take next panics: AppendEntries never slices below
\* the compacted prefix, and the state machine's Snapshot call is legal.
NoPanic ==
    /\ \A m \in rpcs :
          m.type = "AppendEntries" /\ m.term >= currentTerm[m.dst]
          /\ m.prevLogIndex = 0 /\ m.entries # <<>> => lastIncludedIndex[m.dst] = 0
    /\ \A s \in Server : \A k \in DOMAIN applyCh[s] :
          applyCh[s][k].kind = "entry" =>
              \/ applyCh[s][k].index <= lastIncludedIndex[s]
              \/ /\ applyCh[s][k].index <= LastLogIndex(s)
                 /\ applyCh[s][k].index <= lastApplied[s]

\* RunApplyLoop's stated order: an installed snapshot reaches the state
\* machine before any entry that came after it.
SnapshotDeliveredFirst ==
    \A s \in Server : pendingSnapshot[s] # Nil =>
        \A k \in DOMAIN applyCh[s] : applyCh[s][k].index <= pendingSnapshot[s].index

\* A leader that stays in office with an entry of its own term brings every
\* node it can reach up to its log and commits it there, by backing nextIndex
\* off or by InstallSnapshot, whatever the node had or lost before.
LeaderCatchesPeersUp ==
    \A s \in Server : \A p \in Reachable(s) :
        <>[](state[s] = Leader /\ LastLogTerm(s) = currentTerm[s])
            => <>[](/\ LastLogIndex(p) = LastLogIndex(s)
                    /\ LastLogTerm(p) = LastLogTerm(s)
                    /\ commitIndex[p] = LastLogIndex(s)
                    /\ p \in Appliers => lastApplied[p] = LastLogIndex(s))
=============================================================================
