----------------------------- MODULE RaftProofs -----------------------------
(***************************************************************************)
(* Type correctness, durability, vote stability and election safety of a   *)
(* Raft cluster, for any number of servers and any bounds.                 *)
(*                                                                         *)
(* TypeOK is not inductive: nextIndex stays positive, and what is sliced   *)
(* off a log stays a log, only because a leader's bookkeeping never runs   *)
(* past its log, because calls under way know no more than their sender,   *)
(* and because what a restart reads back is what the node had.  IndexInv   *)
(* says those things.                                                      *)
(***************************************************************************)
EXTENDS Raft, FiniteSetTheorems, SequenceTheorems, TLAPS

\* Only applied entries are compacted (Snapshot, InstallSnapshot).
CompactedApplied == \A s \in Server : lastIncludedIndex[s] <= lastApplied[s]

\* No node's commitIndex or lastApplied runs past what leaders have committed.
CommitRecorded ==
    \A s \in Server : commitIndex[s] <= Len(committed) /\ lastApplied[s] <= Len(committed)

\* A leader never believes it has sent more than its log holds.
NextWithinLog ==
    \A s, p \in Server : state[s] = Leader => nextIndex[s][p] <= LastLogIndex(s) + 1

\* The sender s of a call made in term t about indices through i: it was
\* Leader of t, so it is not Candidate of t now, and if it still leads t its
\* log still reaches i.
CallOf(s, t, i) ==
    /\ t <= currentTerm[s]
    /\ t = currentTerm[s] => state[s] # Candidate
    /\ t = currentTerm[s] /\ state[s] = Leader => i <= LastLogIndex(s)

\* What a call or reply in flight says is covered by its sender's log and by
\* the committed entries.
CallOK(m) ==
    /\ m.type = "AppendEntries" =>
          /\ CallOf(m.src, m.term, m.prevLogIndex + Len(m.entries))
          /\ m.leaderCommit <= Len(committed)
    /\ m.type = "AppendReply" => CallOf(m.dst, m.reqTerm, m.newMatch)
    /\ m.type = "InstallSnapshot" =>
          /\ CallOf(m.src, m.term, m.lastIncludedIndex)
          /\ m.lastIncludedIndex <= Len(committed)
    /\ m.type = "SnapshotReply" => CallOf(m.dst, m.reqTerm, m.lastIncludedIndex)

\* The inductive invariant behind TypeOK, DiskCurrent and VoteStable.
IndexInv ==
    /\ TypeOK
    /\ DiskCurrent
    /\ CompactedApplied
    /\ CommitRecorded
    /\ NextWithinLog
    /\ \A m \in rpcs : CallOK(m)

\* What one step may do to one node's term, vote, role and log.
NodeStep(s) ==
    /\ currentTerm'[s] >= currentTerm[s]
    /\ currentTerm'[s] = currentTerm[s] =>
          /\ votedFor[s] # Nil => votedFor'[s] = votedFor[s]
          /\ state'[s] = Candidate => state[s] = Candidate
          /\ state'[s] = Leader => state[s] # Follower
          /\ state'[s] = Leader /\ state[s] = Leader => LastLogIndex(s) <= LastLogIndex(s)'
    /\ currentTerm'[s] # currentTerm[s] => state'[s] # Leader

\* What one step may do to any node.
Step == \A s \in Server : NodeStep(s)

\* The fields that each kind of message has.
LEMMA MessageFields ==
    ASSUME NEW m \in Message
    PROVE  /\ m.type \in {"RequestVote", "VoteReply", "AppendEntries",
                          "AppendReply", "InstallSnapshot", "SnapshotReply"}
           /\ m.src \in Server /\ m.dst \in Server
           /\ m.type \in {"RequestVote", "AppendEntries", "InstallSnapshot"} =>
                 m.epoch \in Nat /\ m.term \in Nat
           /\ m.type \in ReplyTypes => m.reqTerm \in Nat /\ m.term \in Nat
           /\ m.type = "RequestVote" =>
                 m.born \in 1 .. MaxTerm /\ m.lastLogIndex \in Nat
                 /\ m.lastLogTerm \in Nat
           /\ m.type = "VoteReply" => m.born \in 1 .. MaxTerm /\ m.granted \in BOOLEAN
           /\ m.type = "AppendEntries" =>
                 /\ m.prevLogIndex \in Nat /\ m.prevLogTerm \in Nat
                 /\ m.entries \in Seq(Entry) /\ m.leaderCommit \in Nat
           /\ m.type = "AppendReply" => m.success \in BOOLEAN /\ m.newMatch \in Nat
           /\ m.type = "InstallSnapshot" =>
                 /\ m.lastIncludedIndex \in Nat /\ m.lastIncludedTerm \in Nat
                 /\ m.data \in Seq(Command)
           /\ m.type = "SnapshotReply" => m.lastIncludedIndex \in Nat
BY DEF Message, ReplyTypes

\* advanceCommitIndexLocked never moves commitIndex back, nor past the log.
LEMMA NewCommit ==
    ASSUME TypeOK, NEW s \in Server, NEW match, NEW lg \in Seq(Entry)
    PROVE  /\ NewCommitIndex(s, match, lg) \in Nat
           /\ commitIndex[s] <= NewCommitIndex(s, match, lg)
           /\ \/ NewCommitIndex(s, match, lg) = commitIndex[s]
              \/ NewCommitIndex(s, match, lg) <= lastIncludedIndex[s] + Len(lg)
<1> DEFINE last    == lastIncludedIndex[s] + Len(lg)
           largest == {n \in commitIndex[s] + 1 .. last :
                      /\ HeldByMajority(s, match, last, n)
                      /\ ~HeldByMajority(s, match, last, n + 1)
                      /\ physicalIndex(s, n) \in DOMAIN lg
                      /\ OfCurrentTerm(s, lg[physicalIndex(s, n)])}
<1>1. /\ commitIndex[s] \in Nat /\ last \in Nat
  BY DEF TypeOK, LogTypeOK, CommitTypeOK
<1>2. largest \subseteq commitIndex[s] + 1 .. last
  OBVIOUS
<1> HIDE DEF largest, last
<1>3. CASE largest = {}
  <2>1. NewCommitIndex(s, match, lg) = commitIndex[s]
    BY <1>3 DEF NewCommitIndex, largest, last
  <2> QED BY <2>1, <1>1
<1>4. CASE largest # {}
  <2>1. NewCommitIndex(s, match, lg) = CHOOSE n \in largest : TRUE
    BY <1>4 DEF NewCommitIndex, largest, last
  <2>2. NewCommitIndex(s, match, lg) \in largest
    BY <2>1, <1>4
  <2>3. NewCommitIndex(s, match, lg) \in commitIndex[s] + 1 .. last
    BY <2>2, <1>2
  <2> QED BY <2>3, <1>1 DEF last
<1> QED BY <1>3, <1>4

\* The leader's commit step keeps every index within the history of commits.
LEMMA Advance ==
    ASSUME TypeOK, CompactedApplied, CommitRecorded,
           NEW s \in Server, NEW match, NEW lg \in Seq(Entry),
           advanceCommitIndex(s, match, lg)
    PROVE  /\ CommitTypeOK'
           /\ Len(committed) <= Len(committed')
           /\ \A t \in Server : commitIndex'[t] <= Len(committed')
<1> DEFINE n == NewCommitIndex(s, match, lg)
<1>1. /\ n \in Nat /\ commitIndex[s] <= n
      /\ n = commitIndex[s] \/ n <= lastIncludedIndex[s] + Len(lg)
  BY NewCommit
<1>2. /\ commitIndex' = [commitIndex EXCEPT ![s] = n]
      /\ committed' = IF n <= Len(committed) THEN committed
                       ELSE committed \o
                            SubSeq(lg, physicalIndex(s, Len(committed) + 1),
                                       physicalIndex(s, n))
  BY DEF advanceCommitIndex
<1> HIDE DEF n
<1>3. /\ commitIndex \in [Server -> Nat] /\ committed \in Seq(Entry)
      /\ lastIncludedIndex[s] \in Nat /\ lastApplied[s] \in Nat
      /\ lastIncludedIndex[s] <= Len(committed)
      /\ commitIndex[s] \in Nat /\ commitIndex[s] <= Len(committed)
      /\ Len(committed) \in Nat /\ Len(lg) \in Nat
  BY DEF TypeOK, LogTypeOK, CommitTypeOK, ApplyTypeOK, CompactedApplied, CommitRecorded
<1>4. CASE n <= Len(committed)
  BY <1>1, <1>2, <1>3, <1>4 DEF CommitTypeOK, CommitRecorded
<1>5. CASE ~(n <= Len(committed))
  <2> DEFINE a == physicalIndex(s, Len(committed) + 1)
             b == physicalIndex(s, n)
             tail == SubSeq(lg, a, b)
  <2>1. a \in 1 .. Len(lg) /\ b \in 1 .. Len(lg) /\ a <= b /\ b - a + 1 = n - Len(committed)
    BY <1>1, <1>3, <1>5, SMTT(30) DEF physicalIndex
  <2>2. tail \in Seq(Entry) /\ Len(tail) = n - Len(committed)
    BY <2>1
  <2> HIDE DEF tail
  <2>3. committed' = committed \o tail
    BY <1>2, <1>5 DEF tail
  <2>4. committed' \in Seq(Entry) /\ Len(committed') = n
    BY <2>2, <2>3, <1>1, <1>3
  <2> QED BY <2>4, <1>1, <1>2, <1>3, <1>5, SMTT(30) DEF CommitTypeOK, CommitRecorded
<1> QED BY <1>4, <1>5

\* A step that obeys Step leaves what is true of a call in flight true.
LEMMA CallKept ==
    ASSUME TypeOK, TypeOK', Step, Len(committed) <= Len(committed)',
           NEW m \in Message, CallOK(m)
    PROVE  CallOK(m)'
<1>1. \A s \in Server : /\ currentTerm[s] \in Nat /\ currentTerm'[s] \in Nat
                        /\ LastLogIndex(s) \in Nat /\ LastLogIndex(s)' \in Nat
                        /\ state[s] \in {Follower, Candidate, Leader}
  BY DEF TypeOK, TermTypeOK, LogTypeOK, LastLogIndex
<1>2. ASSUME NEW s \in Server, NEW t \in Nat, NEW i \in Nat, CallOf(s, t, i)
      PROVE  CallOf(s, t, i)'
  BY <1>1, <1>2 DEF Step, NodeStep, CallOf, Follower, Candidate, Leader
<1>3. Len(committed) \in Nat /\ Len(committed)' \in Nat
  BY DEF TypeOK, CommitTypeOK
<1>4. /\ m.type \in {"AppendEntries", "AppendReply", "InstallSnapshot", "SnapshotReply"}
            => m.src \in Server /\ m.dst \in Server /\ m.term \in Nat
      /\ m.type = "AppendEntries" =>
            m.leaderCommit \in Nat /\ m.prevLogIndex + Len(m.entries) \in Nat
      /\ m.type = "AppendReply" => m.reqTerm \in Nat /\ m.newMatch \in Nat
      /\ m.type = "InstallSnapshot" => m.lastIncludedIndex \in Nat
      /\ m.type = "SnapshotReply" => m.reqTerm \in Nat /\ m.lastIncludedIndex \in Nat
  BY MessageFields DEF ReplyTypes
<1>5. CASE m.type = "AppendEntries"
  BY <1>2, <1>3, <1>4, <1>5 DEF CallOK
<1>6. CASE m.type = "AppendReply"
  BY <1>2, <1>4, <1>6 DEF CallOK
<1>7. CASE m.type = "InstallSnapshot"
  BY <1>2, <1>3, <1>4, <1>7 DEF CallOK
<1>8. CASE m.type = "SnapshotReply"
  BY <1>2, <1>4, <1>8 DEF CallOK
<1>9. CASE m.type \in {"RequestVote", "VoteReply"}
  BY <1>9 DEF CallOK
<1> QED BY <1>5, <1>6, <1>7, <1>8, <1>9, MessageFields

\* The end of a caller's goroutine only removes its message.
LEMMA FinishType ==
    ASSUME TypeOK, NEW m \in rpcs, Finish(m)
    PROVE  /\ rpcs' \subseteq rpcs
           /\ repl' \in [Server -> [Server -> {"idle", "ready", "snap", "call"}]]
<1>1. m.src \in Server /\ m.dst \in Server
  BY MessageFields DEF TypeOK
<1> QED BY <1>1 DEF Finish, TypeOK, LeaderTypeOK

\* An element of a log is an entry.
LEMMA EntryAt ==
    ASSUME NEW q \in Seq(Entry), NEW i \in 1 .. Len(q)
    PROVE  q[i] \in Entry /\ q[i].term \in Nat /\ q[i].command \in Command
<1>1. q[i] \in Entry
  OBVIOUS
<1> QED BY <1>1 DEF Entry

\* lastLogInfoLocked returns an index and a term.
LEMMA LastLogType ==
    ASSUME TypeOK, NEW s \in Server
    PROVE  LastLogIndex(s) \in Nat /\ LastLogTerm(s) \in Nat
<1>1. /\ log[s] \in Seq(Entry) /\ Len(log[s]) \in Nat
      /\ lastIncludedIndex[s] \in Nat /\ lastIncludedTerm[s] \in Nat
  BY DEF TypeOK, LogTypeOK
<1>2. ASSUME log[s] # <<>> PROVE Len(log[s]) \in 1 .. Len(log[s])
  BY <1>1, <1>2
<1> QED BY <1>1, <1>2, EntryAt DEF LastLogIndex, LastLogTerm

\* One replicateToPeer goroutine moves to another of its four places.
LEMMA ReplType ==
    ASSUME TypeOK, NEW s \in Server, NEW p \in Server,
           NEW x \in {"idle", "ready", "snap", "call"},
           repl' = [repl EXCEPT ![s][p] = x]
    PROVE  repl' \in [Server -> [Server -> {"idle", "ready", "snap", "call"}]]
BY DEF TypeOK, LeaderTypeOK

\* A suffix r.log[k:] is a log of the expected length.
LEMMA SuffixType ==
    ASSUME NEW S, NEW q \in Seq(S), NEW k \in 1 .. Len(q) + 1
    PROVE  /\ SubSeq(q, k, Len(q)) \in Seq(S)
           /\ Len(SubSeq(q, k, Len(q))) = Len(q) - k + 1
<1>1. Len(q) \in Nat /\ k \in Int /\ Len(q) \in Int
  OBVIOUS
<1>2. \A i \in k .. Len(q) : q[i] \in S
  BY <1>1
<1> QED BY <1>1, <1>2, SubSeqProperties

\* A prefix r.log[:k] is a log.
LEMMA PrefixType ==
    ASSUME NEW S, NEW q \in Seq(S), NEW k \in Int, k <= Len(q)
    PROVE  SubSeq(q, 1, k) \in Seq(S)
<1>1. \A i \in 1 .. k : q[i] \in S
  OBVIOUS
<1> QED BY <1>1, SubSeqProperties

\* The entries replicateToPeer sends end where the leader's log ends.
LEMMA EntriesFrom ==
    ASSUME NEW q \in Seq(Entry), NEW base \in Nat, NEW next \in Nat,
           next > base, next <= base + Len(q) + 1
    PROVE  /\ SubSeq(q, next - base, Len(q)) \in Seq(Entry)
           /\ next - 1 + Len(SubSeq(q, next - base, Len(q))) = base + Len(q)
<1>1. next - base \in 1 .. Len(q) + 1 /\ Len(q) \in Nat
  OBVIOUS
<1>2. /\ SubSeq(q, next - base, Len(q)) \in Seq(Entry)
      /\ Len(SubSeq(q, next - base, Len(q))) = Len(q) - (next - base) + 1
  BY <1>1, SuffixType
<1>3. ASSUME NEW n, n = Len(q) - (next - base) + 1 PROVE next - 1 + n = base + Len(q)
  BY <1>1, <1>3
<1> QED BY <1>2, <1>3


\* ElectionTimeout preserves IndexInv and obeys Step.
LEMMA ElectionTimeoutStep ==
    ASSUME IndexInv, NEW s \in Server, ElectionTimeout(s)
    PROVE  IndexInv' /\ Step
<1>0. /\ TypeOK /\ DiskCurrent /\ CompactedApplied /\ CommitRecorded /\ NextWithinLog
      /\ \A m \in rpcs : CallOK(m)
  BY DEF IndexInv
<1>1. TermTypeOK'
  BY <1>0 DEF TypeOK, TermTypeOK, ElectionTimeout
<1>2. UNCHANGED <<log, lastIncludedIndex, lastIncludedTerm, snapshotData, rpcs,
                  commitIndex, committed, lastApplied, nextIndex>>
  BY DEF ElectionTimeout, logVars, commitVars, applyVars, leaderVars
<1>3. DiskCurrent' /\ DiskTypeOK'
  BY <1>0, <1>1, <1>2 DEF TypeOK, TermTypeOK, LogTypeOK, DiskTypeOK, Persisted, ElectionTimeout,
        persistLocked, DiskCurrent
<1>4. ElectionTypeOK'
  BY <1>0, BoundAssumption DEF TypeOK, TermTypeOK, ElectionTypeOK, ElectionTimeout
<1>5. LogTypeOK' /\ CommitTypeOK' /\ ApplyTypeOK' /\ LeaderTypeOK' /\ BoundTypeOK'
  <2>1. UNCHANGED <<pendingSnapshot, applyPC, applyCh, sm, matchIndex, repl,
                    epoch, restarts, drops, rounds>> /\ elections' = elections + 1
    BY DEF ElectionTimeout, applyVars, smVars, leaderVars
  <2>2. LogTypeOK' /\ CommitTypeOK'
    BY <1>0, <1>2 DEF TypeOK, LogTypeOK, CommitTypeOK
  <2>3. ApplyTypeOK'
    BY <1>0, <1>2, <2>1 DEF TypeOK, ApplyTypeOK
  <2>4. LeaderTypeOK'
    BY <1>0, <1>2, <2>1 DEF TypeOK, LeaderTypeOK
  <2>5. BoundTypeOK'
    BY <1>0, <2>1 DEF TypeOK, BoundTypeOK
  <2> QED BY <2>2, <2>3, <2>4, <2>5
<1>6. TypeOK'
  BY <1>0, <1>1, <1>2, <1>3, <1>4, <1>5 DEF TypeOK
<1>7. Step
  BY <1>0, <1>2 DEF TypeOK, TermTypeOK, LogTypeOK, ElectionTimeout, Step, NodeStep, LastLogIndex,
        Follower, Candidate, Leader
<1>8. CompactedApplied' /\ CommitRecorded'
  BY <1>0, <1>2 DEF CompactedApplied, CommitRecorded
<1>9. NextWithinLog'
  BY <1>0, <1>2 DEF TypeOK, TermTypeOK, ElectionTimeout, NextWithinLog, LastLogIndex, Candidate, Leader
<1>10. \A m \in rpcs' : CallOK(m)'
  <2>1. Len(committed) <= Len(committed)'
    BY <1>0, <1>2 DEF TypeOK, CommitTypeOK
  <2> QED BY <1>0, <1>2, <1>6, <1>7, <2>1, CallKept DEF TypeOK
<1> QED BY <1>3, <1>6, <1>7, <1>8, <1>9, <1>10 DEF IndexInv


\* A node whose term, vote, role and log stay as they are obeys NodeStep.
LEMMA Untouched ==
    ASSUME TypeOK, NEW t \in Server,
           state'[t] = state[t], currentTerm'[t] = currentTerm[t],
           votedFor'[t] = votedFor[t], log'[t] = log[t],
           lastIncludedIndex'[t] = lastIncludedIndex[t]
    PROVE  NodeStep(t)
BY DEF TypeOK, TermTypeOK, LogTypeOK, NodeStep, LastLogIndex, Follower, Leader

\* Steps that touch no term, log, file or nextIndex.
LEMMA QuietStep ==
    ASSUME IndexInv, TypeOK', CompactedApplied', CommitRecorded',
           UNCHANGED <<termVars, logVars, disk, committed, nextIndex>>,
           \A m \in rpcs' : m \in rpcs \/ CallOK(m)'
    PROVE  IndexInv' /\ Step
<1>0. /\ TypeOK /\ DiskCurrent /\ NextWithinLog /\ \A m \in rpcs : CallOK(m)
  BY DEF IndexInv
<1>1. Step
  BY <1>0, Untouched DEF Step, termVars, logVars
<1>2. DiskCurrent' /\ NextWithinLog'
  BY <1>0 DEF DiskCurrent, NextWithinLog, LastLogIndex, termVars, logVars
<1>3. Len(committed) <= Len(committed)'
  BY <1>0 DEF TypeOK, CommitTypeOK
<1>4. \A m \in rpcs' : CallOK(m)'
  BY <1>0, <1>1, <1>3, CallKept DEF TypeOK
<1> QED BY <1>1, <1>2, <1>4 DEF IndexInv

\* Steps that touch no index keep the indices in order.
LEMMA RecordsInvariant ==
    ASSUME IndexInv, UNCHANGED <<lastIncludedIndex, lastApplied, commitIndex, committed>>
    PROVE  CompactedApplied' /\ CommitRecorded'
BY DEF IndexInv, CompactedApplied, CommitRecorded

\* startElection preserves IndexInv and obeys Step.
LEMMA startElectionStep ==
    ASSUME IndexInv, NEW s \in Server, NEW b \in spawned[s], startElection(s, b)
    PROVE  IndexInv' /\ Step
<1>0. TypeOK
  BY DEF IndexInv
<1>1. UNCHANGED <<state, currentTerm, votedFor, log, lastIncludedIndex,
                  lastIncludedTerm, snapshotData, commitIndex, committed,
                  lastApplied, pendingSnapshot, applyPC, applyCh, sm, nextIndex,
                  matchIndex, repl, disk, snapFile, epoch, elections, restarts,
                  drops, rounds>>
  BY DEF startElection, termVars, logVars, applyVars, leaderVars, smVars, diskVars,
         commitVars, boundVars
<1>2. b \in 1 .. MaxTerm
  BY <1>0 DEF TypeOK, ElectionTypeOK
<1>3. ElectionTypeOK'
  BY <1>0, <1>2 DEF startElection, TypeOK, ElectionTypeOK, TermTypeOK
<1>4. LastLogIndex(s) \in Nat /\ LastLogTerm(s) \in Nat
  BY <1>0, LastLogType
<1>5. \A m \in rpcs' : m \in rpcs \/ (m \in Message /\ m.type = "RequestVote")
  <2> SUFFICES ASSUME NEW m \in rpcs', m \notin rpcs
               PROVE  m \in Message /\ m.type = "RequestVote"
    OBVIOUS
  <2>1. PICK p \in Server :
          m = [type |-> "RequestVote", src |-> s, dst |-> p, epoch |-> epoch[s],
               born |-> b, term |-> currentTerm[s],
               lastLogIndex |-> LastLogIndex(s), lastLogTerm |-> LastLogTerm(s)]
    BY DEF startElection, Reachable, Peers
  <2>2. epoch[s] \in Nat /\ currentTerm[s] \in Nat
    BY <1>0 DEF TypeOK, TermTypeOK, BoundTypeOK
  <2> QED BY <1>2, <1>4, <2>1, <2>2 DEF Message
<1>6. TypeOK'
  BY <1>0, <1>1, <1>3, <1>5 DEF TypeOK, TermTypeOK, LogTypeOK, CommitTypeOK, ApplyTypeOK,
        LeaderTypeOK, DiskTypeOK, BoundTypeOK
<1>7. \A m \in rpcs' : m \in rpcs \/ CallOK(m)'
  BY <1>5 DEF CallOK
<1> QED BY <1>1, <1>6, <1>7, RecordsInvariant, QuietStep DEF termVars, logVars

\* IgnoreReply preserves IndexInv and obeys Step.
LEMMA IgnoreReplyStep ==
    ASSUME IndexInv, NEW m \in rpcs, IgnoreReply(m)
    PROVE  IndexInv' /\ Step
<1>0. TypeOK
  BY DEF IndexInv
<1>1. UNCHANGED <<state, currentTerm, votedFor, log, lastIncludedIndex,
                  lastIncludedTerm, snapshotData, commitIndex, committed,
                  lastApplied, pendingSnapshot, applyPC, applyCh, sm, nextIndex,
                  matchIndex, spawned, votes, disk, snapFile, epoch, elections,
                  restarts, drops, rounds>>
  BY DEF IgnoreReply, termVars, logVars, applyVars, leaderVars, smVars, diskVars,
         commitVars, boundVars, electionVars
<1>2. rpcs' \subseteq rpcs /\ repl' \in [Server -> [Server -> {"idle", "ready", "snap", "call"}]]
  BY <1>0, FinishType DEF IgnoreReply
<1>6. TypeOK'
  BY <1>0, <1>1, <1>2 DEF TypeOK, TermTypeOK, LogTypeOK, CommitTypeOK, ApplyTypeOK,
        LeaderTypeOK, DiskTypeOK, BoundTypeOK, ElectionTypeOK
<1> QED BY <1>1, <1>2, <1>6, RecordsInvariant, QuietStep DEF termVars, logVars

\* Heartbeat preserves IndexInv and obeys Step.
LEMMA HeartbeatStep ==
    ASSUME IndexInv, NEW s \in Server, Heartbeat(s)
    PROVE  IndexInv' /\ Step
<1>0. TypeOK
  BY DEF IndexInv
<1>1. UNCHANGED <<state, currentTerm, votedFor, log, lastIncludedIndex,
                  lastIncludedTerm, snapshotData, commitIndex, committed,
                  lastApplied, pendingSnapshot, applyPC, applyCh, sm, nextIndex,
                  matchIndex, spawned, votes, disk, snapFile, epoch, elections,
                  restarts, drops, rpcs>>
  BY DEF Heartbeat, termVars, logVars, applyVars, leaderVars, smVars, diskVars,
         commitVars, electionVars
<1>2. rounds' \in Nat /\ repl' \in [Server -> [Server -> {"idle", "ready", "snap", "call"}]]
  BY <1>0 DEF Heartbeat, TypeOK, LeaderTypeOK, BoundTypeOK
<1>6. TypeOK'
  BY <1>0, <1>1, <1>2 DEF TypeOK, TermTypeOK, LogTypeOK, CommitTypeOK, ApplyTypeOK,
        LeaderTypeOK, DiskTypeOK, BoundTypeOK, ElectionTypeOK
<1> QED BY <1>1, <1>6, RecordsInvariant, QuietStep DEF termVars, logVars

\* replicateToPeer preserves IndexInv and obeys Step.
LEMMA replicateToPeerStep ==
    ASSUME IndexInv, NEW s \in Server, NEW p \in Server, replicateToPeer(s, p)
    PROVE  IndexInv' /\ Step
<1>0. TypeOK /\ CompactedApplied /\ CommitRecorded /\ NextWithinLog
  BY DEF IndexInv
<1>1. UNCHANGED <<state, currentTerm, votedFor, log, lastIncludedIndex,
                  lastIncludedTerm, snapshotData, commitIndex, committed,
                  lastApplied, pendingSnapshot, applyPC, applyCh, sm, nextIndex,
                  matchIndex, spawned, votes, disk, snapFile, epoch, elections,
                  restarts, drops, rounds>>
  BY DEF replicateToPeer, termVars, logVars, applyVars, leaderVars, smVars, diskVars,
         commitVars, electionVars, boundVars
<1>2. repl' \in [Server -> [Server -> {"idle", "ready", "snap", "call"}]]
  BY <1>0, ReplType DEF replicateToPeer
<1>3. \A m \in rpcs' : m \in rpcs \/ (m \in Message /\ CallOK(m)')
  <2> DEFINE next == nextIndex[s][p]
             call == [type |-> "AppendEntries", src |-> s, dst |-> p,
                    epoch |-> epoch[s], term |-> currentTerm[s],
                    prevLogIndex |-> next - 1,
                    prevLogTerm |-> IF next - 1 >= 1 THEN TermAt(s, next - 1) ELSE 0,
                    entries |-> SubSeq(log[s], physicalIndex(s, next), Len(log[s])),
                    leaderCommit |-> commitIndex[s]]
  <2>1. CASE UNCHANGED rpcs
    BY <2>1
  <2>2. CASE state[s] = Leader /\ next > lastIncludedIndex[s] /\ rpcs' = rpcs \cup {call}
    <3>1. /\ next \in Nat \ {0} /\ lastIncludedIndex[s] \in Nat /\ lastIncludedTerm[s] \in Nat
          /\ log[s] \in Seq(Entry) /\ Len(log[s]) \in Nat
          /\ next <= lastIncludedIndex[s] + Len(log[s]) + 1
          /\ epoch[s] \in Nat /\ currentTerm[s] \in Nat /\ commitIndex[s] \in Nat
          /\ commitIndex[s] <= Len(committed)
      BY <1>0, <2>2 DEF TypeOK, LeaderTypeOK, LogTypeOK, NextWithinLog, LastLogIndex, 
            TermTypeOK, CommitTypeOK, BoundTypeOK, CommitRecorded
    <3> HIDE DEF next
    <3>2. next - 1 \in Nat /\ (next - 1 >= 1 => TermAt(s, next - 1) \in Nat)
      <4>1. next - 1 > lastIncludedIndex[s] =>
               next - 1 - lastIncludedIndex[s] \in 1 .. Len(log[s])
        BY <3>1
      <4> QED BY <2>2, <3>1, <4>1, EntryAt DEF TermAt, physicalIndex
    <3>3. /\ SubSeq(log[s], physicalIndex(s, next), Len(log[s])) \in Seq(Entry)
          /\ next - 1 + Len(SubSeq(log[s], physicalIndex(s, next), Len(log[s])))
                = lastIncludedIndex[s] + Len(log[s])
      BY <2>2, <3>1, EntriesFrom DEF physicalIndex
    <3>4. call \in Message
      BY <3>1, <3>2, <3>3 DEF Message
    <3>5. ASSUME NEW m, m = call PROVE CallOK(m)'
      <4>1. /\ m.type = "AppendEntries" /\ m.src = s /\ m.term = currentTerm[s]
            /\ m.leaderCommit = commitIndex[s]
            /\ m.prevLogIndex + Len(m.entries) = LastLogIndex(s)
        BY <3>3, <3>5 DEF LastLogIndex
      <4>2. LastLogIndex(s)' = LastLogIndex(s) /\ LastLogIndex(s) \in Nat
        BY <1>0, <1>1, LastLogType DEF LastLogIndex
      <4> QED BY <1>1, <2>2, <3>1, <4>1, <4>2, SMTT(30) DEF CallOK, CallOf, Candidate, Leader
    <3> QED BY <2>2, <3>4, <3>5
  <2> QED BY <2>1, <2>2 DEF replicateToPeer
<1>6. TypeOK'
  BY <1>0, <1>1, <1>2, <1>3 DEF TypeOK, TermTypeOK, LogTypeOK, CommitTypeOK, ApplyTypeOK,
        LeaderTypeOK, DiskTypeOK, BoundTypeOK, ElectionTypeOK
<1> QED BY <1>1, <1>3, <1>6, RecordsInvariant, QuietStep DEF termVars, logVars


\* sendInstallSnapshot preserves IndexInv and obeys Step.
LEMMA sendInstallSnapshotStep ==
    ASSUME IndexInv, NEW s \in Server, NEW p \in Server, sendInstallSnapshot(s, p)
    PROVE  IndexInv' /\ Step
<1>0. TypeOK /\ CompactedApplied /\ CommitRecorded
  BY DEF IndexInv
<1>1. UNCHANGED <<state, currentTerm, votedFor, log, lastIncludedIndex,
                  lastIncludedTerm, snapshotData, commitIndex, committed,
                  lastApplied, pendingSnapshot, applyPC, applyCh, sm,
                  nextIndex, matchIndex, spawned, votes, disk, snapFile,
                  epoch, elections, restarts, drops, rounds>>
  BY DEF sendInstallSnapshot, termVars, logVars, applyVars, leaderVars, electionVars,
         smVars, diskVars, commitVars, boundVars
<1>2. repl' \in [Server -> [Server -> {"idle", "ready", "snap", "call"}]]
  BY <1>0, ReplType DEF sendInstallSnapshot
<1>3. ASSUME NEW m \in rpcs', m \notin rpcs PROVE m \in Message /\ CallOK(m)'
  <2>1. /\ state[s] = Leader
        /\ m = [type |-> "InstallSnapshot", src |-> s, dst |-> p,
                epoch |-> epoch[s], term |-> currentTerm[s],
                lastIncludedIndex |-> lastIncludedIndex[s],
                lastIncludedTerm |-> lastIncludedTerm[s], data |-> snapshotData[s]]
    BY <1>3 DEF sendInstallSnapshot
  <2>2. /\ epoch[s] \in Nat /\ currentTerm[s] \in Nat /\ lastIncludedIndex[s] \in Nat
        /\ lastIncludedTerm[s] \in Nat /\ snapshotData[s] \in Seq(Command)
        /\ lastApplied[s] \in Nat /\ committed \in Seq(Entry) /\ log[s] \in Seq(Entry)
    BY <1>0 DEF TypeOK, TermTypeOK, LogTypeOK, CommitTypeOK, ApplyTypeOK, BoundTypeOK
  <2>7. lastIncludedIndex[s] <= LastLogIndex(s) /\ lastIncludedIndex[s] <= Len(committed)
    BY <1>0, <2>2 DEF LastLogIndex, CompactedApplied, CommitRecorded
  <2>3. m \in Message
    BY <2>1, <2>2 DEF Message
  <2>4. /\ m.type = "InstallSnapshot" /\ m.src = s /\ m.term = currentTerm[s]
        /\ m.lastIncludedIndex = lastIncludedIndex[s]
    BY <2>1
  <2>5. LastLogIndex(s)' = LastLogIndex(s)
    BY <1>1 DEF LastLogIndex
  <2>6. CallOK(m)'
    BY <1>1, <2>1, <2>2, <2>4, <2>5, <2>7 DEF CallOK, CallOf, Candidate, Leader
  <2> QED BY <2>3, <2>6
<1>4. TypeOK'
  BY <1>0, <1>1, <1>2, <1>3 DEF TypeOK, TermTypeOK, LogTypeOK, CommitTypeOK, ApplyTypeOK,
        LeaderTypeOK, ElectionTypeOK, DiskTypeOK, BoundTypeOK
<1> QED BY <1>1, <1>3, <1>4, RecordsInvariant, QuietStep DEF termVars, logVars

\* FailRPC preserves IndexInv and obeys Step.
LEMMA FailRPCStep ==
    ASSUME IndexInv, NEW m \in rpcs, FailRPC(m)
    PROVE  IndexInv' /\ Step
<1>0. TypeOK
  BY DEF IndexInv
<1>1. UNCHANGED <<state, currentTerm, votedFor, log, lastIncludedIndex,
                  lastIncludedTerm, snapshotData, commitIndex, committed,
                  lastApplied, pendingSnapshot, applyPC, applyCh, sm,
                  nextIndex, matchIndex, spawned, votes, disk, snapFile,
                  epoch, elections, restarts, rounds>>
  BY DEF FailRPC, termVars, logVars, applyVars, leaderVars, electionVars,
         smVars, diskVars, commitVars, boundVars
<1>2. m.src \in Server /\ m.dst \in Server
  BY <1>0, MessageFields DEF TypeOK
<1>3. repl' \in [Server -> [Server -> {"idle", "ready", "snap", "call"}]]
  BY <1>0, <1>2, ReplType DEF FailRPC, TypeOK, LeaderTypeOK
<1>4. rpcs' \subseteq rpcs /\ drops' \in Nat
  BY <1>0 DEF FailRPC, TypeOK, BoundTypeOK
<1>5. TypeOK'
  BY <1>0, <1>1, <1>3, <1>4 DEF TypeOK, TermTypeOK, LogTypeOK, CommitTypeOK, ApplyTypeOK,
        LeaderTypeOK, ElectionTypeOK, DiskTypeOK, BoundTypeOK
<1> QED BY <1>1, <1>4, <1>5, RecordsInvariant, QuietStep DEF termVars, logVars

\* deliverPendingSnapshot preserves IndexInv and obeys Step.
LEMMA deliverPendingSnapshotStep ==
    ASSUME IndexInv, NEW s \in Server, deliverPendingSnapshot(s)
    PROVE  IndexInv' /\ Step
<1>0. TypeOK
  BY DEF IndexInv
<1>1. UNCHANGED <<state, currentTerm, votedFor, log, lastIncludedIndex,
                  lastIncludedTerm, snapshotData, commitIndex, committed,
                  lastApplied, sm, nextIndex, matchIndex, repl, spawned,
                  votes, disk, snapFile, epoch, elections, restarts, drops,
                  rounds, rpcs>>
  BY DEF deliverPendingSnapshot, termVars, logVars, applyVars, leaderVars, electionVars,
         smVars, diskVars, commitVars, boundVars
<1>2. ASSUME pendingSnapshot[s] # Nil
      PROVE  [kind |-> "snapshot", index |-> pendingSnapshot[s].index,
              data |-> pendingSnapshot[s].data] \in ApplyMsg
  <2>1. pendingSnapshot[s] \in Snapshot
    BY <1>0, <1>2 DEF TypeOK, ApplyTypeOK
  <2> QED BY <2>1 DEF Snapshot, ApplyMsg
<1>3. applyCh' \in [Server -> Seq(ApplyMsg)]
  <2> DEFINE msg == [kind |-> "snapshot", index |-> pendingSnapshot[s].index,
                     data |-> pendingSnapshot[s].data]
  <2>1. CASE pendingSnapshot[s] = Nil
    BY <1>0, <2>1 DEF deliverPendingSnapshot, TypeOK, ApplyTypeOK
  <2>2. CASE pendingSnapshot[s] # Nil
    <3>1. applyCh' = [applyCh EXCEPT ![s] = Append(@, msg)] /\ msg \in ApplyMsg
      BY <1>2, <2>2 DEF deliverPendingSnapshot, Deliver
    <3> HIDE DEF msg
    <3> QED BY <1>0, <3>1 DEF TypeOK, ApplyTypeOK
  <2> QED BY <2>1, <2>2
<1>4. ApplyTypeOK'
  BY <1>0, <1>1, <1>3 DEF deliverPendingSnapshot, TypeOK, ApplyTypeOK
<1>5. TypeOK'
  BY <1>0, <1>1, <1>4 DEF TypeOK, TermTypeOK, LogTypeOK, CommitTypeOK,
        LeaderTypeOK, ElectionTypeOK, DiskTypeOK, BoundTypeOK
<1> QED BY <1>1, <1>5, RecordsInvariant, QuietStep DEF termVars, logVars

\* applyPending preserves IndexInv and obeys Step.
LEMMA applyPendingStep ==
    ASSUME IndexInv, NEW s \in Server, applyPending(s)
    PROVE  IndexInv' /\ Step
<1>0. TypeOK /\ CompactedApplied /\ CommitRecorded
  BY DEF IndexInv
<1>1. UNCHANGED <<state, currentTerm, votedFor, log, lastIncludedIndex,
                  lastIncludedTerm, snapshotData, commitIndex, committed,
                  pendingSnapshot, sm, nextIndex, matchIndex, repl, spawned,
                  votes, disk, snapFile, epoch, elections, restarts, drops,
                  rounds, rpcs>>
  BY DEF applyPending, termVars, logVars, applyVars, leaderVars, electionVars,
         smVars, diskVars, commitVars, boundVars
<1>2. /\ lastApplied[s] \in Nat /\ commitIndex[s] \in Nat /\ lastIncludedIndex[s] \in Nat
      /\ log[s] \in Seq(Entry) /\ Len(log[s]) \in Nat
      /\ lastIncludedIndex[s] <= lastApplied[s] /\ commitIndex[s] <= Len(committed)
      /\ Len(committed) \in Nat
  BY <1>0 DEF TypeOK, LogTypeOK, CommitTypeOK, ApplyTypeOK, CompactedApplied, CommitRecorded
<1>3. CASE ~(commitIndex[s] > lastApplied[s] /\ lastApplied[s] + 1 <= LastLogIndex(s))
  <2>1. UNCHANGED <<lastApplied, applyCh>>
    BY <1>3 DEF applyPending
  <2>2. TypeOK'
    BY <1>0, <1>1, <1>3, <2>1 DEF applyPending, TypeOK, TermTypeOK, LogTypeOK, CommitTypeOK, ApplyTypeOK,
        LeaderTypeOK, ElectionTypeOK, DiskTypeOK, BoundTypeOK
  <2> QED BY <1>1, <2>1, <2>2, RecordsInvariant, QuietStep DEF termVars, logVars
<1>4. CASE commitIndex[s] > lastApplied[s] /\ lastApplied[s] + 1 <= LastLogIndex(s)
  <2> DEFINE next == lastApplied[s] + 1
             entry == [kind |-> "entry", index |-> next,
                       command |-> log[s][physicalIndex(s, next)].command]
  <2>1. /\ lastApplied' = [lastApplied EXCEPT ![s] = next]
        /\ applyCh' = [applyCh EXCEPT ![s] = Append(@, entry)]
        /\ UNCHANGED applyPC
    BY <1>4 DEF applyPending, Deliver
  <2>2. next \in Nat /\ physicalIndex(s, next) \in 1 .. Len(log[s])
    BY <1>2, <1>4 DEF physicalIndex, LastLogIndex
  <2>3. entry \in ApplyMsg
    BY <1>2, <2>2, EntryAt DEF ApplyMsg
  <2> HIDE DEF entry
  <2>4. ApplyTypeOK'
    BY <1>0, <1>1, <2>1, <2>2, <2>3 DEF TypeOK, ApplyTypeOK
  <2>5. TypeOK'
    BY <1>0, <1>1, <2>4 DEF TypeOK, TermTypeOK, LogTypeOK, CommitTypeOK,
        LeaderTypeOK, ElectionTypeOK, DiskTypeOK, BoundTypeOK
  <2>6. CompactedApplied' /\ CommitRecorded'
    BY <1>0, <1>1, <1>2, <1>4, <2>1 DEF TypeOK, ApplyTypeOK, CompactedApplied, CommitRecorded
  <2> QED BY <1>1, <2>5, <2>6, QuietStep DEF termVars, logVars
<1> QED BY <1>3, <1>4

\* adoptSnapshot preserves IndexInv and obeys Step.
LEMMA adoptSnapshotStep ==
    ASSUME IndexInv, NEW s \in Server, adoptSnapshot(s)
    PROVE  IndexInv' /\ Step
<1>0. TypeOK
  BY DEF IndexInv
<1>1. UNCHANGED <<state, currentTerm, votedFor, log, lastIncludedIndex,
                  lastIncludedTerm, snapshotData, commitIndex, committed,
                  lastApplied, pendingSnapshot, applyPC, nextIndex,
                  matchIndex, repl, spawned, votes, disk, snapFile, epoch,
                  elections, restarts, drops, rounds, rpcs>>
  BY DEF adoptSnapshot, termVars, logVars, applyVars, leaderVars, electionVars,
         smVars, diskVars, commitVars, boundVars
<1>2. applyCh[s] \in Seq(ApplyMsg) /\ applyCh[s] # <<>>
  BY <1>0 DEF adoptSnapshot, TypeOK, ApplyTypeOK
<1>3. Head(applyCh[s]) \in ApplyMsg /\ Tail(applyCh[s]) \in Seq(ApplyMsg)
  BY <1>2
<1>4. Head(applyCh[s]).data \in Seq(Command)
  BY <1>3 DEF adoptSnapshot, ApplyMsg
<1>5. ApplyTypeOK'
  BY <1>0, <1>1, <1>3, <1>4 DEF adoptSnapshot, TypeOK, ApplyTypeOK
<1>6. TypeOK'
  BY <1>0, <1>1, <1>5 DEF TypeOK, TermTypeOK, LogTypeOK, CommitTypeOK,
        LeaderTypeOK, ElectionTypeOK, DiskTypeOK, BoundTypeOK
<1> QED BY <1>1, <1>6, RecordsInvariant, QuietStep DEF termVars, logVars

\* A handler that either calls persistLocked for the node it changed or
\* changes nothing persistent leaves the state file current.
LEMMA DiskKept ==
    ASSUME TypeOK, DiskCurrent, TermTypeOK', LogTypeOK', NEW s \in Server,
           \A t \in Server : t # s =>
               /\ currentTerm'[t] = currentTerm[t] /\ votedFor'[t] = votedFor[t]
               /\ log'[t] = log[t] /\ lastIncludedIndex'[t] = lastIncludedIndex[t]
               /\ lastIncludedTerm'[t] = lastIncludedTerm[t],
           \/ persistLocked(s)
           \/ UNCHANGED <<currentTerm, votedFor, log, lastIncludedIndex,
                          lastIncludedTerm, disk>>
    PROVE  DiskCurrent' /\ disk' \in [Server -> Persisted]
<1>1. DiskCurrent'
  <2>1. CASE persistLocked(s)
    BY <2>1 DEF persistLocked, DiskCurrent, TypeOK, DiskTypeOK
  <2>2. CASE UNCHANGED <<currentTerm, votedFor, log, lastIncludedIndex,
                         lastIncludedTerm, disk>>
    BY <2>2 DEF DiskCurrent
  <2> QED BY <2>1, <2>2
<1>2. disk' = [t \in Server |-> disk'[t]]
  BY DEF persistLocked, TypeOK, DiskTypeOK
<1>3. \A t \in Server : disk'[t] \in Persisted
  <2> TAKE t \in Server
  <2>1. /\ currentTerm'[t] \in Nat /\ votedFor'[t] \in Server \cup {Nil}
        /\ log'[t] \in Seq(Entry) /\ lastIncludedIndex'[t] \in Nat
        /\ lastIncludedTerm'[t] \in Nat
    BY DEF TermTypeOK, LogTypeOK
  <2>2. disk'[t] = [currentTerm |-> currentTerm'[t], votedFor |-> votedFor'[t],
                    log |-> log'[t], lastIncludedIndex |-> lastIncludedIndex'[t],
                    lastIncludedTerm |-> lastIncludedTerm'[t]]
    BY <1>1 DEF DiskCurrent
  <2> QED BY <2>1, <2>2 DEF Persisted
<1> QED BY <1>1, <1>2, <1>3

\* The parts of IndexInv, assembled.
LEMMA Conclude ==
    ASSUME IndexInv, Step, TypeOK', DiskCurrent', CompactedApplied', CommitRecorded',
           NextWithinLog', Len(committed) <= Len(committed)',
           \A m \in rpcs' : m \in rpcs \/ CallOK(m)'
    PROVE  IndexInv' /\ Step
<1>1. \A m \in rpcs' : CallOK(m)'
  BY CallKept DEF IndexInv, TypeOK
<1> QED BY <1>1 DEF IndexInv

\* The vote decision is a Boolean.
LEMMA VoteType ==
    ASSUME NEW s, NEW m, NEW voted
    PROVE  VoteGranted(s, m, voted) \in BOOLEAN
BY DEF VoteGranted, candidateLogIsUpToDate

\* RequestVote preserves IndexInv and obeys Step.
LEMMA RequestVoteStep ==
    ASSUME IndexInv, NEW m \in rpcs, RequestVote(m)
    PROVE  IndexInv' /\ Step
<1>0. TypeOK /\ DiskCurrent /\ NextWithinLog
  BY DEF IndexInv
<1>1. UNCHANGED <<log, lastIncludedIndex, lastIncludedTerm, snapshotData,
                  commitIndex, committed, lastApplied, pendingSnapshot,
                  applyPC, applyCh, sm, nextIndex, matchIndex, repl, spawned,
                  votes, snapFile, epoch, elections, restarts, drops, rounds>>
  BY DEF RequestVote, termVars, logVars, applyVars, leaderVars, electionVars,
         smVars, diskVars, commitVars, boundVars
<1> DEFINE s     == m.dst
           newer == m.term > currentTerm[s]
           voted == IF newer THEN Nil ELSE votedFor[s]
           grant == VoteGranted(s, m, voted)
           reply == [type |-> "VoteReply", src |-> s, dst |-> m.src,
                     born |-> m.born, reqTerm |-> m.term,
                     term |-> currentTerm'[s], granted |-> grant]
<1>2. /\ m.type = "RequestVote"
      /\ state' = [state EXCEPT ![s] = IF newer THEN Follower ELSE @]
      /\ currentTerm' = [currentTerm EXCEPT ![s] = IF newer THEN m.term ELSE @]
      /\ votedFor' = [votedFor EXCEPT ![s] = IF grant THEN m.src ELSE voted]
      /\ IF newer \/ grant THEN persistLocked(s) ELSE UNCHANGED disk
      /\ Reply(m, reply)
  BY DEF RequestVote
<1>3. /\ s \in Server /\ m.src \in Server /\ m.term \in Nat /\ m.born \in 1 .. MaxTerm
      /\ currentTerm[s] \in Nat
  BY <1>0, <1>2, MessageFields DEF TypeOK, TermTypeOK
<1>4. grant \in BOOLEAN /\ (grant => voted \in {Nil, m.src})
  BY VoteType DEF VoteGranted
<1> HIDE DEF grant
<1>5. TermTypeOK'
  BY <1>0, <1>2, <1>3 DEF TypeOK, TermTypeOK, Follower
<1>6. LogTypeOK'
  BY <1>0, <1>1 DEF TypeOK, LogTypeOK
<1>7. NodeStep(s)
  <2>1. LastLogIndex(s)' = LastLogIndex(s) /\ LastLogIndex(s) \in Nat
    BY <1>0, <1>1, <1>3, LastLogType DEF LastLogIndex
  <2>2. currentTerm'[s] = IF newer THEN m.term ELSE currentTerm[s]
    BY <1>0, <1>2, <1>3 DEF TypeOK, TermTypeOK
  <2>3. state'[s] = IF newer THEN Follower ELSE state[s]
    BY <1>0, <1>2, <1>3 DEF TypeOK, TermTypeOK
  <2>4. votedFor'[s] = IF grant THEN m.src ELSE voted
    BY <1>0, <1>2, <1>3 DEF TypeOK, TermTypeOK
  <2> QED BY <1>3, <1>4, <2>1, <2>2, <2>3, <2>4 DEF NodeStep, Follower, Candidate, Leader
<1>8. Step
  BY <1>0, <1>1, <1>2, <1>7, Untouched DEF Step, TypeOK, TermTypeOK
<1>9. DiskCurrent' /\ disk' \in [Server -> Persisted]
  <2>1. CASE newer \/ grant
    <3>1. persistLocked(s)
      BY <1>2, <2>1
    <3> QED BY <1>0, <1>1, <1>2, <1>3, <1>5, <1>6, <3>1, DiskKept
  <2>2. CASE ~(newer \/ grant)
    <3>1. currentTerm' = currentTerm /\ votedFor' = votedFor /\ disk' = disk
      BY <1>0, <1>2, <1>3, <2>2 DEF TypeOK, TermTypeOK
    <3> QED BY <1>0, <1>1, <1>3, <1>5, <1>6, <3>1, DiskKept
  <2> QED BY <2>1, <2>2
<1>10. NextWithinLog'
  BY <1>0, <1>1, <1>2, <1>3 DEF TypeOK, TermTypeOK, NextWithinLog, LastLogIndex, Follower, Leader
<1>11. ASSUME NEW r \in rpcs', r \notin rpcs PROVE r \in Message /\ CallOK(r)'
  <2>1. r = reply
    BY <1>2, <1>11 DEF Reply
  <2>2. currentTerm'[s] \in Nat
    BY <1>3, <1>5 DEF TermTypeOK
  <2>3. r \in Message
    BY <1>3, <1>4, <2>1, <2>2 DEF Message
  <2>4. r.type = "VoteReply"
    BY <2>1
  <2> QED BY <2>3, <2>4 DEF CallOK
<1>12. TypeOK'
  BY <1>0, <1>1, <1>5, <1>6, <1>9, <1>11 DEF TypeOK, CommitTypeOK, ApplyTypeOK, LeaderTypeOK, ElectionTypeOK, DiskTypeOK, BoundTypeOK
<1>13. Len(committed) <= Len(committed)'
  BY <1>0, <1>1 DEF TypeOK, CommitTypeOK
<1> QED BY <1>1, <1>8, <1>9, <1>10, <1>11, <1>12, <1>13, RecordsInvariant, Conclude

\* becomeFollowerLocked for a term that is not older than the node's.
LEMMA BecomeFollower ==
    ASSUME TypeOK, NEW s \in Server, NEW t \in Nat, becomeFollower(s, t),
           t >= currentTerm[s]
    PROVE  /\ TermTypeOK'
           /\ NodeStep(s)
           /\ state'[s] = Follower /\ currentTerm'[s] = t
           /\ \A u \in Server : u # s =>
                 /\ state'[u] = state[u] /\ currentTerm'[u] = currentTerm[u]
                 /\ votedFor'[u] = votedFor[u]
<1>1. /\ state \in [Server -> {Follower, Candidate, Leader}]
      /\ currentTerm \in [Server -> Nat] /\ votedFor \in [Server -> Server \cup {Nil}]
  BY DEF TypeOK, TermTypeOK
<1>2. TermTypeOK'
  BY <1>1 DEF becomeFollower, TermTypeOK
<1>3. /\ state'[s] = Follower /\ currentTerm'[s] = t
      /\ votedFor'[s] = IF t > currentTerm[s] THEN Nil ELSE votedFor[s]
  BY <1>1 DEF becomeFollower
<1>4. NodeStep(s)
  BY <1>1, <1>3 DEF NodeStep, Follower, Candidate, Leader
<1>5. \A u \in Server : u # s =>
                 /\ state'[u] = state[u] /\ currentTerm'[u] = currentTerm[u]
                 /\ votedFor'[u] = votedFor[u]
  BY <1>1 DEF becomeFollower
<1> QED BY <1>2, <1>3, <1>4, <1>5

\* StepDown preserves IndexInv and obeys Step.
LEMMA StepDownStep ==
    ASSUME IndexInv, NEW m \in rpcs, StepDown(m)
    PROVE  IndexInv' /\ Step
<1>0. TypeOK /\ DiskCurrent /\ NextWithinLog
  BY DEF IndexInv
<1>1. UNCHANGED <<log, lastIncludedIndex, lastIncludedTerm, snapshotData,
                  commitIndex, committed, lastApplied, pendingSnapshot,
                  applyPC, applyCh, sm, nextIndex, matchIndex, spawned, votes,
                  snapFile, epoch, elections, restarts, drops, rounds>>
  BY DEF StepDown, termVars, logVars, applyVars, leaderVars, electionVars,
         smVars, diskVars, commitVars, boundVars
<1> DEFINE s == m.dst
<1>2. /\ m.type \in ReplyTypes /\ m.term > currentTerm[s] /\ becomeFollower(s, m.term)
      /\ persistLocked(s) /\ Finish(m)
  BY DEF StepDown
<1>3. s \in Server /\ m.term \in Nat /\ currentTerm[s] \in Nat
  BY <1>0, <1>2, MessageFields DEF TypeOK, TermTypeOK
<1> HIDE DEF s
<1>4. /\ TermTypeOK' /\ NodeStep(s) /\ state'[s] = Follower
      /\ \A u \in Server : u # s => /\ state'[u] = state[u]
                                    /\ currentTerm'[u] = currentTerm[u]
                                    /\ votedFor'[u] = votedFor[u]
  BY <1>0, <1>2, <1>3, BecomeFollower
<1>5. LogTypeOK'
  BY <1>0, <1>1 DEF TypeOK, LogTypeOK
<1>6. Step
  BY <1>0, <1>1, <1>4, Untouched DEF Step
<1>7. DiskCurrent' /\ disk' \in [Server -> Persisted]
  BY <1>0, <1>1, <1>2, <1>3, <1>4, <1>5, DiskKept
<1>8. NextWithinLog'
  BY <1>0, <1>1, <1>4 DEF NextWithinLog, LastLogIndex, Follower, Leader
<1>9. rpcs' \subseteq rpcs /\ repl' \in [Server -> [Server -> {"idle", "ready", "snap", "call"}]]
  BY <1>0, <1>2, FinishType
<1>10. TypeOK'
  BY <1>0, <1>1, <1>4, <1>5, <1>7, <1>9 DEF TypeOK, CommitTypeOK, ApplyTypeOK, LeaderTypeOK, ElectionTypeOK, DiskTypeOK, BoundTypeOK
<1>11. Len(committed) <= Len(committed)'
  BY <1>0, <1>1 DEF TypeOK, CommitTypeOK
<1> QED BY <1>1, <1>6, <1>7, <1>8, <1>9, <1>10, <1>11, RecordsInvariant, Conclude

\* VoteReply preserves IndexInv and obeys Step.
LEMMA VoteReplyStep ==
    ASSUME IndexInv, NEW m \in rpcs, VoteReply(m)
    PROVE  IndexInv' /\ Step
<1>0. TypeOK /\ DiskCurrent /\ NextWithinLog
  BY DEF IndexInv
<1>1. UNCHANGED <<currentTerm, votedFor, log, lastIncludedIndex,
                  lastIncludedTerm, snapshotData, commitIndex, committed,
                  lastApplied, pendingSnapshot, applyPC, applyCh, sm, spawned,
                  disk, snapFile, epoch, elections, restarts, drops, rounds>>
  BY DEF VoteReply, termVars, logVars, applyVars, leaderVars, electionVars,
         smVars, diskVars, commitVars, boundVars
<1> DEFINE s     == m.dst
           count == votes[s][m.born].voters \cup (IF m.granted THEN {m.src} ELSE {})
<1>2. /\ m.type = "VoteReply" /\ state[s] = Candidate
      /\ votes' = [votes EXCEPT ![s][m.born].voters = count]
      /\ becomeLeader(s) \/ UNCHANGED <<state, nextIndex, matchIndex>>
      /\ Finish(m)
  BY DEF VoteReply, StillIn, leaderVars
<1>3. s \in Server /\ m.src \in Server /\ m.born \in 1 .. MaxTerm
  BY <1>0, <1>2, MessageFields DEF TypeOK
<1>4. votes[s][m.born] \in [term : Nat, voters : SUBSET Server]
  <2>1. votes \in [Server -> [1 .. MaxTerm -> [term : Nat, voters : SUBSET Server]]]
    BY <1>0 DEF TypeOK, ElectionTypeOK
  <2>2. votes[s] \in [1 .. MaxTerm -> [term : Nat, voters : SUBSET Server]]
    BY <1>3, <2>1
  <2> QED BY <1>3, <2>2
<1>5. count \in SUBSET Server
  BY <1>3, <1>4
<1> HIDE DEF s, count
<1>6. ElectionTypeOK'
  BY <1>0, <1>1, <1>2, <1>3, <1>4, <1>5 DEF TypeOK, ElectionTypeOK
<1>7. rpcs' \subseteq rpcs /\ repl' \in [Server -> [Server -> {"idle", "ready", "snap", "call"}]]
  BY <1>0, <1>2, FinishType
<1>8. LastLogIndex(s)' = LastLogIndex(s) /\ LastLogIndex(s) \in Nat
  BY <1>0, <1>1, <1>3, LastLogType DEF LastLogIndex
<1>9. /\ state' \in [Server -> {Follower, Candidate, Leader}]
      /\ \A t \in Server : t # s => state'[t] = state[t]
  BY <1>0, <1>2, <1>3 DEF TypeOK, TermTypeOK, becomeLeader
<1>10. LeaderTypeOK'
  <2>1. /\ nextIndex \in [Server -> [Server -> Nat \ {0}]]
        /\ matchIndex \in [Server -> [Server -> Nat]]
    BY <1>0 DEF TypeOK, LeaderTypeOK
  <2>2. CASE UNCHANGED <<state, nextIndex, matchIndex>>
    BY <1>7, <2>1, <2>2 DEF LeaderTypeOK
  <2>3. CASE becomeLeader(s)
    <3>1. /\ [p \in Server |-> LastLogIndex(s) + 1] \in [Server -> Nat \ {0}]
          /\ [p \in Server |-> 0] \in [Server -> Nat]
      BY <1>8
    <3> QED BY <1>3, <1>7, <2>1, <2>3, <3>1 DEF LeaderTypeOK, becomeLeader
  <2> QED BY <1>2, <2>2, <2>3
<1>11. NextWithinLog'
  <2>1. CASE UNCHANGED <<state, nextIndex, matchIndex>>
    BY <1>0, <1>1, <2>1 DEF NextWithinLog, LastLogIndex
  <2>2. CASE becomeLeader(s)
    <3>1. nextIndex \in [Server -> [Server -> Nat \ {0}]]
      BY <1>0 DEF TypeOK, LeaderTypeOK
    <3>2. /\ nextIndex'[s] = [p \in Server |-> LastLogIndex(s) + 1]
          /\ \A t \in Server : t # s => nextIndex'[t] = nextIndex[t]
      BY <1>3, <2>2, <3>1 DEF becomeLeader
    <3>3. \A t \in Server : LastLogIndex(t)' = LastLogIndex(t)
      BY <1>1 DEF LastLogIndex
    <3> QED BY <1>0, <1>8, <1>9, <3>2, <3>3 DEF NextWithinLog
  <2> QED BY <1>2, <2>1, <2>2
<1>12. Step
  <2>1. NodeStep(s)
    BY <1>0, <1>1, <1>2, <1>3, <1>8 DEF TypeOK, TermTypeOK, NodeStep, Follower, Candidate, Leader
  <2> QED BY <1>0, <1>1, <1>9, <2>1, Untouched DEF Step
<1>13. TypeOK' /\ DiskCurrent'
  BY <1>0, <1>1, <1>6, <1>7, <1>9, <1>10 DEF TypeOK, TermTypeOK, LogTypeOK, CommitTypeOK, ApplyTypeOK, DiskTypeOK, BoundTypeOK, DiskCurrent
<1>14. Len(committed) <= Len(committed)'
  BY <1>0, <1>1 DEF TypeOK, CommitTypeOK
<1> QED BY <1>1, <1>7, <1>11, <1>12, <1>13, <1>14, RecordsInvariant, Conclude

\* Propose preserves IndexInv and obeys Step.
LEMMA ProposeStep ==
    ASSUME IndexInv, NEW s \in Server, NEW c \in Command, Propose(s, c)
    PROVE  IndexInv' /\ Step
<1>0. TypeOK /\ DiskCurrent /\ CompactedApplied /\ CommitRecorded /\ NextWithinLog
  BY DEF IndexInv
<1>1. UNCHANGED <<state, currentTerm, votedFor, lastIncludedIndex,
                  lastIncludedTerm, snapshotData, lastApplied,
                  pendingSnapshot, applyPC, applyCh, sm, nextIndex,
                  matchIndex, repl, spawned, votes, snapFile, epoch,
                  elections, restarts, drops, rounds, rpcs>>
  BY DEF Propose, termVars, logVars, applyVars, leaderVars, electionVars,
         smVars, diskVars, commitVars, boundVars
<1> DEFINE lg == Append(log[s], [term |-> currentTerm[s], command |-> c])
<1>2. /\ log' = [log EXCEPT ![s] = lg] /\ persistLocked(s)
      /\ advanceCommitIndex(s, matchIndex[s], lg)
  BY DEF Propose
<1>3. /\ log \in [Server -> Seq(Entry)] /\ currentTerm[s] \in Nat
      /\ lastIncludedIndex[s] \in Nat
  BY <1>0 DEF TypeOK, LogTypeOK, TermTypeOK
<1>4. /\ lg \in Seq(Entry) /\ Len(lg) = Len(log[s]) + 1 /\ Len(log[s]) \in Nat
  <2>1. [term |-> currentTerm[s], command |-> c] \in Entry
    BY <1>3 DEF Entry
  <2> QED BY <1>3, <2>1
<1> HIDE DEF lg
<1>5. /\ CommitTypeOK' /\ Len(committed) <= Len(committed')
      /\ \A t \in Server : commitIndex'[t] <= Len(committed')
  BY <1>0, <1>2, <1>4, Advance
<1>6. TermTypeOK' /\ LogTypeOK'
  BY <1>0, <1>1, <1>2, <1>3, <1>4 DEF TypeOK, TermTypeOK, LogTypeOK
<1>7. log'[s] = lg /\ \A t \in Server : t # s => log'[t] = log[t]
  BY <1>2, <1>3
<1>8. /\ LastLogIndex(s)' = LastLogIndex(s) + 1 /\ LastLogIndex(s) \in Nat
      /\ \A t \in Server : t # s => LastLogIndex(t)' = LastLogIndex(t)
  <2>1. /\ LastLogIndex(s)' = lastIncludedIndex[s] + Len(lg)
        /\ LastLogIndex(s) = lastIncludedIndex[s] + Len(log[s])
    BY <1>1, <1>7 DEF LastLogIndex
  <2>2. \A t \in Server : t # s => LastLogIndex(t)' = LastLogIndex(t)
    BY <1>1, <1>7 DEF LastLogIndex
  <2> QED BY <1>3, <1>4, <2>1, <2>2
<1>9. DiskCurrent' /\ disk' \in [Server -> Persisted]
  BY <1>0, <1>1, <1>2, <1>6, <1>7, DiskKept
<1>10. Step
  <2>1. NodeStep(s)
    BY <1>0, <1>1, <1>8 DEF TypeOK, TermTypeOK, NodeStep, Follower, Leader
  <2> QED BY <1>0, <1>1, <1>7, <2>1, Untouched DEF Step
<1>11. NextWithinLog'
  BY <1>0, <1>1, <1>8, SMTT(30) DEF TypeOK, LeaderTypeOK, NextWithinLog
<1>12. CompactedApplied' /\ CommitRecorded'
  BY <1>0, <1>1, <1>5 DEF TypeOK, CommitTypeOK, ApplyTypeOK, CompactedApplied, CommitRecorded
<1>13. TypeOK'
  <2>1. ApplyTypeOK'
    BY <1>0, <1>1 DEF TypeOK, ApplyTypeOK
  <2>2. LeaderTypeOK' /\ ElectionTypeOK'
    BY <1>0, <1>1 DEF TypeOK, LeaderTypeOK, ElectionTypeOK
  <2>3. DiskTypeOK' /\ BoundTypeOK'
    BY <1>0, <1>1, <1>9 DEF TypeOK, DiskTypeOK, BoundTypeOK
  <2> QED BY <1>0, <1>1, <1>5, <1>6, <2>1, <2>2, <2>3 DEF TypeOK
<1> QED BY <1>1, <1>5, <1>9, <1>10, <1>11, <1>12, <1>13, Conclude

\* AppendReply preserves IndexInv and obeys Step.
LEMMA AppendReplyStep ==
    ASSUME IndexInv, NEW m \in rpcs, AppendReply(m)
    PROVE  IndexInv' /\ Step
<1>0. /\ TypeOK /\ DiskCurrent /\ CompactedApplied /\ CommitRecorded /\ NextWithinLog
      /\ CallOK(m)
  BY DEF IndexInv
<1>1. UNCHANGED <<state, currentTerm, votedFor, log, lastIncludedIndex,
                  lastIncludedTerm, snapshotData, lastApplied,
                  pendingSnapshot, applyPC, applyCh, sm, spawned, votes, disk,
                  snapFile, epoch, elections, restarts, drops, rounds>>
  BY DEF AppendReply, termVars, logVars, applyVars, leaderVars, electionVars,
         smVars, diskVars, commitVars, boundVars
<1> DEFINE s     == m.dst
           p     == m.src
           match == [matchIndex[s] EXCEPT ![p] = IF m.newMatch > @ THEN m.newMatch ELSE @]
<1>2. /\ m.type = "AppendReply" /\ state[s] = Leader /\ currentTerm[s] = m.reqTerm
      /\ Finish(m)
      /\ \/ /\ matchIndex' = [matchIndex EXCEPT ![s] = match]
            /\ nextIndex' = [nextIndex EXCEPT ![s][p] = m.newMatch + 1]
            /\ advanceCommitIndex(s, match, log[s])
         \/ /\ nextIndex' = [nextIndex EXCEPT ![s][p] = BackOff(@)]
            /\ UNCHANGED <<matchIndex, commitIndex, committed>>
  BY DEF AppendReply, StillIn, commitVars
<1>3. /\ s \in Server /\ p \in Server /\ m.newMatch \in Nat
      /\ nextIndex \in [Server -> [Server -> Nat \ {0}]]
      /\ matchIndex \in [Server -> [Server -> Nat]]
      /\ log[s] \in Seq(Entry)
  BY <1>0, <1>2, MessageFields DEF TypeOK, LeaderTypeOK, LogTypeOK
<1>4. m.newMatch <= LastLogIndex(s)
  BY <1>0, <1>2 DEF CallOK, CallOf
<1>5. match \in [Server -> Nat]
  BY <1>3
<1> HIDE DEF s, p, match
<1>6. \A t, q \in Server : nextIndex[t][q] \in Nat \ {0}
  BY <1>3
<1>7. BackOff(nextIndex[s][p]) \in Nat \ {0} /\ BackOff(nextIndex[s][p]) <= nextIndex[s][p]
  BY <1>3, <1>6 DEF BackOff
<1>8. /\ nextIndex' \in [Server -> [Server -> Nat \ {0}]]
      /\ \A t, q \in Server : \/ nextIndex'[t][q] = nextIndex[t][q]
                              \/ t = s /\ nextIndex'[t][q] <= nextIndex[t][q]
                              \/ t = s /\ nextIndex'[t][q] = m.newMatch + 1
  <2>1. CASE nextIndex' = [nextIndex EXCEPT ![s][p] = m.newMatch + 1]
    <3>1. m.newMatch + 1 \in Nat \ {0}
      BY <1>3
    <3> QED BY <1>3, <2>1, <3>1
  <2>2. CASE nextIndex' = [nextIndex EXCEPT ![s][p] = BackOff(@)]
    BY <1>3, <1>7, <2>2
  <2> QED BY <1>2, <2>1, <2>2
<1>9. matchIndex' \in [Server -> [Server -> Nat]]
  BY <1>2, <1>3, <1>5
<1>10. rpcs' \subseteq rpcs /\ repl' \in [Server -> [Server -> {"idle", "ready", "snap", "call"}]]
  BY <1>0, <1>2, FinishType
<1>11. /\ CommitTypeOK' /\ Len(committed) <= Len(committed')
       /\ \A t \in Server : commitIndex'[t] <= Len(committed')
  <2>1. CASE advanceCommitIndex(s, match, log[s])
    BY <1>0, <1>3, <2>1, Advance
  <2>2. CASE UNCHANGED <<commitIndex, committed>>
    BY <1>0, <2>2 DEF TypeOK, CommitTypeOK, CommitRecorded
  <2> QED BY <1>2, <2>1, <2>2
<1>12. NextWithinLog'
  <2>1. \A t \in Server : LastLogIndex(t)' = LastLogIndex(t) /\ LastLogIndex(t) \in Nat
    BY <1>0, <1>1, LastLogType DEF LastLogIndex
  <2>2. \A t, q \in Server : nextIndex'[t][q] \in Nat
    BY <1>8
  <2>3. ASSUME NEW t \in Server, NEW q \in Server, state'[t] = Leader
        PROVE  nextIndex'[t][q] <= LastLogIndex(t)' + 1
    <3>1. nextIndex[t][q] <= LastLogIndex(t) + 1
      BY <1>0, <1>1, <2>3 DEF NextWithinLog
    <3>2. LastLogIndex(t)' = LastLogIndex(t) /\ LastLogIndex(t) \in Nat
      BY <2>1
    <3>3. t = s => LastLogIndex(t) = LastLogIndex(s)
      BY DEF LastLogIndex
    <3>4. nextIndex[t][q] \in Nat /\ nextIndex'[t][q] \in Nat
      BY <1>6, <2>2
    <3>5. \/ nextIndex'[t][q] = nextIndex[t][q]
          \/ t = s /\ nextIndex'[t][q] <= nextIndex[t][q]
          \/ t = s /\ nextIndex'[t][q] = m.newMatch + 1
      BY <1>8
    <3>6. t = s => m.newMatch <= LastLogIndex(t)
      BY <1>4, <3>3
    <3>8. m.newMatch \in Nat
      BY <1>3
    <3>7. nextIndex'[t][q] <= LastLogIndex(t) + 1
      BY <3>1, <3>2, <3>4, <3>5, <3>6, <3>8
    <3> QED BY <3>2, <3>7
  <2> QED BY <2>3 DEF NextWithinLog
<1>13. CompactedApplied' /\ CommitRecorded'
  BY <1>0, <1>1, <1>11 DEF TypeOK, CommitTypeOK, ApplyTypeOK, CompactedApplied, CommitRecorded
<1>14. Step
  BY <1>0, <1>1, Untouched DEF Step
<1>15. TypeOK' /\ DiskCurrent'
  BY <1>0, <1>1, <1>8, <1>9, <1>10, <1>11 DEF TypeOK, TermTypeOK, LogTypeOK, ApplyTypeOK, LeaderTypeOK, ElectionTypeOK, DiskTypeOK, BoundTypeOK, DiskCurrent
<1> QED BY <1>10, <1>11, <1>12, <1>13, <1>14, <1>15, Conclude

\* SnapshotReply preserves IndexInv and obeys Step.
LEMMA SnapshotReplyStep ==
    ASSUME IndexInv, NEW m \in rpcs, SnapshotReply(m)
    PROVE  IndexInv' /\ Step
<1>0. /\ TypeOK /\ DiskCurrent /\ CompactedApplied /\ CommitRecorded /\ NextWithinLog
      /\ CallOK(m)
  BY DEF IndexInv
<1>1. UNCHANGED <<state, currentTerm, votedFor, log, lastIncludedIndex,
                  lastIncludedTerm, snapshotData, lastApplied,
                  pendingSnapshot, applyPC, applyCh, sm, spawned, votes, disk,
                  snapFile, epoch, elections, restarts, drops, rounds>>
  BY DEF SnapshotReply, termVars, logVars, applyVars, leaderVars, electionVars,
         smVars, diskVars, commitVars, boundVars
<1> DEFINE s     == m.dst
           p     == m.src
           i     == m.lastIncludedIndex
           match == AtLeast(matchIndex[s], p, i)
<1>2. /\ m.type = "SnapshotReply" /\ state[s] = Leader /\ currentTerm[s] = m.reqTerm
      /\ Finish(m)
      /\ matchIndex' = [matchIndex EXCEPT ![s] = match]
      /\ nextIndex' = [nextIndex EXCEPT ![s][p] = Resume(@, i)]
      /\ advanceCommitIndex(s, match, log[s])
  BY DEF SnapshotReply, StillIn
<1>3. /\ s \in Server /\ p \in Server /\ i \in Nat
      /\ nextIndex \in [Server -> [Server -> Nat \ {0}]]
      /\ matchIndex \in [Server -> [Server -> Nat]]
      /\ log[s] \in Seq(Entry)
  BY <1>0, <1>2, MessageFields DEF TypeOK, LeaderTypeOK, LogTypeOK
<1>4. i <= LastLogIndex(s)
  BY <1>0, <1>2 DEF CallOK, CallOf
<1>5. match \in [Server -> Nat]
  BY <1>3 DEF AtLeast
<1> HIDE DEF s, p, match, i
<1>6. \A t, q \in Server : nextIndex[t][q] \in Nat \ {0}
  BY <1>3
<1>7. /\ Resume(nextIndex[s][p], i) \in Nat \ {0}
      /\ Resume(nextIndex[s][p], i) \in {nextIndex[s][p], i + 1}
  BY <1>3, <1>6 DEF Resume
<1>8. /\ nextIndex' \in [Server -> [Server -> Nat \ {0}]]
      /\ \A t, q \in Server : \/ nextIndex'[t][q] = nextIndex[t][q]
                              \/ t = s /\ nextIndex'[t][q] = i + 1
  BY <1>2, <1>3, <1>7
<1>9. matchIndex' \in [Server -> [Server -> Nat]]
  BY <1>2, <1>3, <1>5
<1>10. rpcs' \subseteq rpcs /\ repl' \in [Server -> [Server -> {"idle", "ready", "snap", "call"}]]
  BY <1>0, <1>2, FinishType
<1>11. /\ CommitTypeOK' /\ Len(committed) <= Len(committed')
       /\ \A t \in Server : commitIndex'[t] <= Len(committed')
  BY <1>0, <1>2, <1>3, Advance
<1>12. NextWithinLog'
  <2>1. \A t \in Server : LastLogIndex(t)' = LastLogIndex(t) /\ LastLogIndex(t) \in Nat
    BY <1>0, <1>1, LastLogType DEF LastLogIndex
  <2>2. \A t, q \in Server : nextIndex'[t][q] \in Nat
    BY <1>8
  <2>3. ASSUME NEW t \in Server, NEW q \in Server, state'[t] = Leader
        PROVE  nextIndex'[t][q] <= LastLogIndex(t)' + 1
    <3>1. nextIndex[t][q] <= LastLogIndex(t) + 1
      BY <1>0, <1>1, <2>3 DEF NextWithinLog
    <3>2. LastLogIndex(t)' = LastLogIndex(t) /\ LastLogIndex(t) \in Nat
      BY <2>1
    <3>3. t = s => LastLogIndex(t) = LastLogIndex(s)
      BY DEF LastLogIndex
    <3>4. nextIndex[t][q] \in Nat /\ nextIndex'[t][q] \in Nat
      BY <1>6, <2>2
    <3>5. \/ nextIndex'[t][q] = nextIndex[t][q]
          \/ t = s /\ nextIndex'[t][q] = i + 1
      BY <1>8
    <3>6. t = s => i <= LastLogIndex(t)
      BY <1>4, <3>3
    <3>8. i \in Nat
      BY <1>3
    <3>7. nextIndex'[t][q] <= LastLogIndex(t) + 1
      BY <3>1, <3>2, <3>4, <3>5, <3>6, <3>8
    <3> QED BY <3>2, <3>7
  <2> QED BY <2>3 DEF NextWithinLog
<1>13. CompactedApplied' /\ CommitRecorded'
  BY <1>0, <1>1, <1>11 DEF TypeOK, CommitTypeOK, ApplyTypeOK, CompactedApplied, CommitRecorded
<1>14. Step
  BY <1>0, <1>1, Untouched DEF Step
<1>15. TypeOK' /\ DiskCurrent'
  BY <1>0, <1>1, <1>8, <1>9, <1>10, <1>11 DEF TypeOK, TermTypeOK, LogTypeOK, ApplyTypeOK, LeaderTypeOK, ElectionTypeOK, DiskTypeOK, BoundTypeOK, DiskCurrent
<1> QED BY <1>10, <1>11, <1>12, <1>13, <1>14, <1>15, Conclude

\* AppendEntries preserves IndexInv and obeys Step.
LEMMA AppendEntriesStep ==
    ASSUME IndexInv, NEW m \in rpcs, AppendEntries(m)
    PROVE  IndexInv' /\ Step
<1>0. /\ TypeOK /\ DiskCurrent /\ CompactedApplied /\ CommitRecorded /\ NextWithinLog
      /\ CallOK(m)
  BY DEF IndexInv
<1>1. UNCHANGED <<lastIncludedIndex, lastIncludedTerm, snapshotData,
                  committed, lastApplied, pendingSnapshot, applyPC, applyCh,
                  sm, nextIndex, matchIndex, repl, spawned, votes, snapFile,
                  epoch, elections, restarts, drops, rounds>>
  BY DEF AppendEntries, termVars, logVars, applyVars, leaderVars, electionVars,
         smVars, diskVars, commitVars, boundVars
<1> DEFINE s       == m.dst
           current == m.term >= currentTerm[s]
           prev    == m.prevLogIndex
           success == current /\ LogConsistent(s, prev, m.prevLogTerm)
           lg      == IF success /\ m.entries # <<>>
                      THEN Overwrite(s, prev, m.entries)
                      ELSE log[s]
           last    == lastIncludedIndex[s] + Len(lg)
           reply   == [type |-> "AppendReply", src |-> s, dst |-> m.src,
                       reqTerm |-> m.term, term |-> currentTerm'[s],
                       success |-> success, newMatch |-> prev + Len(m.entries)]
<1>2. /\ m.type = "AppendEntries"
      /\ IF current THEN becomeFollower(s, m.term)
                    ELSE UNCHANGED <<state, currentTerm, votedFor>>
      /\ log' = [log EXCEPT ![s] = lg]
      /\ IF current THEN persistLocked(s) ELSE UNCHANGED disk
      /\ commitIndex' = [commitIndex EXCEPT ![s] =
             FollowerCommit(@, success, m.leaderCommit, last)]
      /\ Reply(m, reply)
  BY DEF AppendEntries, termVars
<1>3. /\ s \in Server /\ m.src \in Server /\ m.term \in Nat /\ prev \in Nat
      /\ m.entries \in Seq(Entry) /\ m.leaderCommit \in Nat
      /\ m.leaderCommit <= Len(committed)
      /\ CallOf(m.src, m.term, prev + Len(m.entries))
  BY <1>0, <1>2, MessageFields DEF TypeOK, CallOK
<1>4. /\ log \in [Server -> Seq(Entry)] /\ log[s] \in Seq(Entry)
      /\ lastIncludedIndex[s] \in Nat /\ currentTerm[s] \in Nat
      /\ commitIndex \in [Server -> Nat] /\ commitIndex[s] \in Nat
      /\ committed \in Seq(Entry) /\ commitIndex[s] <= Len(committed)
  <2>1. s \in Server
    BY <1>3
  <2> HIDE DEF s
  <2> QED BY <1>0, <2>1 DEF TypeOK, LogTypeOK, TermTypeOK, CommitTypeOK, CommitRecorded
<1>5. success \in BOOLEAN
  BY DEF LogConsistent
<1>6. lg \in Seq(Entry) /\ (~current => lg = log[s])
  <2>1. ASSUME success PROVE Overwrite(s, prev, m.entries) \in Seq(Entry)
    <3>1. /\ physicalIndex(s, prev) \in Int
          /\ physicalIndex(s, prev) <= Len(log[s])
      BY <1>3, <1>4, <2>1 DEF physicalIndex, LogConsistent, TermKnown, LastLogIndex
    <3>2. SubSeq(log[s], 1, physicalIndex(s, prev)) \in Seq(Entry)
      BY <1>4, <3>1, PrefixType
    <3> QED BY <1>3, <3>2 DEF Overwrite
  <2> QED BY <1>4, <2>1
<1> HIDE DEF success, lg, s, prev
<1>7. /\ FollowerCommit(commitIndex[s], success, m.leaderCommit, last) \in Nat
      /\ FollowerCommit(commitIndex[s], success, m.leaderCommit, last) <= Len(committed)
  <2>1. last \in Nat
    BY <1>4, <1>6
  <2> HIDE DEF last
  <2> QED BY <1>3, <1>4, <2>1 DEF FollowerCommit
<1> HIDE DEF last
<1>8. /\ TermTypeOK' /\ NodeStep(s)
      /\ \A t \in Server : t # s =>
            /\ state'[t] = state[t] /\ currentTerm'[t] = currentTerm[t]
            /\ votedFor'[t] = votedFor[t]
      /\ state'[s] = Leader => state[s] = Leader /\ ~current
  <2>1. CASE current
    <3>1. becomeFollower(s, m.term)
      BY <1>2, <2>1
    <3> QED BY <1>0, <1>3, <2>1, <3>1, BecomeFollower DEF Follower, Leader
  <2>2. CASE ~current
    <3>1. /\ UNCHANGED <<state, currentTerm, votedFor>>
      BY <1>2, <2>2
    <3>2. log'[s] = log[s]
      BY <1>2, <1>3, <1>4, <1>6, <2>2
    <3>3. NodeStep(s)
      BY <1>0, <1>1, <1>3, <3>1, <3>2, Untouched
    <3> QED BY <1>0, <2>2, <3>1, <3>3 DEF TypeOK, TermTypeOK
  <2> QED BY <2>1, <2>2
<1>9. log'[s] = lg /\ \A t \in Server : t # s => log'[t] = log[t]
  BY <1>2, <1>3, <1>4
<1>10. Step
  BY <1>0, <1>1, <1>8, <1>9, Untouched DEF Step
<1>11. LogTypeOK'
  BY <1>0, <1>1, <1>2, <1>3, <1>4, <1>6 DEF TypeOK, LogTypeOK
<1>12. CommitTypeOK' /\ \A t \in Server : commitIndex'[t] <= Len(committed)
  BY <1>0, <1>1, <1>2, <1>3, <1>4, <1>7 DEF TypeOK, CommitTypeOK, CommitRecorded
<1>13. DiskCurrent' /\ disk' \in [Server -> Persisted]
  <2>1. CASE current
    BY <1>0, <1>1, <1>2, <1>3, <1>8, <1>9, <1>11, <2>1, DiskKept
  <2>2. CASE ~current
    <3>1. log' = log
      BY <1>2, <1>3, <1>4, <1>6, <2>2
    <3> QED BY <1>0, <1>1, <1>2, <1>3, <1>8, <1>11, <2>2, <3>1, DiskKept
  <2> QED BY <2>1, <2>2
<1>14. NextWithinLog'
  <2>1. ASSUME NEW t \in Server, state'[t] = Leader
        PROVE  state[t] = Leader /\ LastLogIndex(t)' = LastLogIndex(t)
    BY <1>1, <1>6, <1>8, <1>9, <2>1 DEF LastLogIndex
  <2> QED BY <1>0, <1>1, <2>1 DEF NextWithinLog
<1>15. CompactedApplied' /\ CommitRecorded'
  BY <1>0, <1>1, <1>12 DEF CompactedApplied, CommitRecorded
<1>16. ASSUME NEW r \in rpcs', r \notin rpcs PROVE r \in Message /\ CallOK(r)'
  <2>1. r = reply
    BY <1>2, <1>16 DEF Reply
  <2>2. currentTerm'[s] \in Nat /\ prev + Len(m.entries) \in Nat
    BY <1>3, <1>8 DEF TermTypeOK
  <2>3. r \in Message
    BY <1>3, <1>5, <2>1, <2>2 DEF Message
  <2>4. /\ r.type = "AppendReply" /\ r.dst = m.src /\ r.reqTerm = m.term
        /\ r.newMatch = prev + Len(m.entries)
    BY <2>1
  <2>5. CallOf(m.src, m.term, prev + Len(m.entries))'
    <3>1. NodeStep(m.src)
      BY <1>3, <1>10 DEF Step
    <3>2. /\ currentTerm[m.src] \in Nat /\ currentTerm'[m.src] \in Nat
          /\ state[m.src] \in {Follower, Candidate, Leader}
      BY <1>0, <1>3, <1>8 DEF TypeOK, TermTypeOK
    <3>3. LastLogIndex(m.src) \in Nat /\ LastLogIndex(m.src)' \in Nat
      <4>1. /\ log[m.src] \in Seq(Entry) /\ log'[m.src] \in Seq(Entry)
            /\ lastIncludedIndex[m.src] \in Nat /\ lastIncludedIndex'[m.src] \in Nat
        BY <1>0, <1>3, <1>11 DEF TypeOK, LogTypeOK
      <4> QED BY <4>1, SMTT(30) DEF LastLogIndex
    <3>4. prev' = prev
      BY DEF prev
    <3> QED BY <1>3, <2>2, <3>1, <3>2, <3>3, <3>4 DEF NodeStep, CallOf, Follower, Candidate, Leader
  <2>6. CallOf(r.dst, r.reqTerm, r.newMatch)'
    BY <2>4, <2>5 DEF prev
  <2> QED BY <2>3, <2>4, <2>6 DEF CallOK
<1>17. TypeOK'
  BY <1>0, <1>1, <1>8, <1>11, <1>12, <1>13, <1>16 DEF TypeOK, ApplyTypeOK, LeaderTypeOK, ElectionTypeOK, DiskTypeOK, BoundTypeOK
<1>18. Len(committed) <= Len(committed)'
  BY <1>1, <1>4
<1> QED BY <1>10, <1>13, <1>14, <1>15, <1>16, <1>17, <1>18, Conclude

\* InstallSnapshot preserves IndexInv and obeys Step.
LEMMA InstallSnapshotStep ==
    ASSUME IndexInv, NEW m \in rpcs, InstallSnapshot(m)
    PROVE  IndexInv' /\ Step
<1>0. /\ TypeOK /\ DiskCurrent /\ CompactedApplied /\ CommitRecorded /\ NextWithinLog
      /\ CallOK(m)
  BY DEF IndexInv
<1>1. UNCHANGED <<committed, applyPC, applyCh, sm, nextIndex, matchIndex,
                  repl, spawned, votes, epoch, elections, restarts, drops,
                  rounds>>
  BY DEF InstallSnapshot, termVars, logVars, applyVars, leaderVars, electionVars,
         smVars, diskVars, commitVars, boundVars
<1> DEFINE s       == m.dst
           current == m.term >= currentTerm[s]
           i       == m.lastIncludedIndex
           takes   == current /\ i > lastIncludedIndex[s]
           reply   == [type |-> "SnapshotReply", src |-> s, dst |-> m.src,
                       reqTerm |-> m.term, term |-> currentTerm'[s],
                       lastIncludedIndex |-> i]
<1>2. /\ m.type = "InstallSnapshot"
      /\ IF current THEN becomeFollower(s, m.term)
                    ELSE UNCHANGED <<state, currentTerm, votedFor>>
      /\ IF current THEN persistLocked(s) ELSE UNCHANGED disk
      /\ Reply(m, reply)
      /\ ~takes => UNCHANGED <<log, lastIncludedIndex, lastIncludedTerm, snapshotData,
                               commitIndex, lastApplied, pendingSnapshot, snapFile>>
      /\ takes =>
           /\ log' = [log EXCEPT ![s] = LogAfterInstall(s, m)]
           /\ lastIncludedIndex' = [lastIncludedIndex EXCEPT ![s] = i]
           /\ lastIncludedTerm' = [lastIncludedTerm EXCEPT ![s] = m.lastIncludedTerm]
           /\ snapshotData' = [snapshotData EXCEPT ![s] = m.data]
           /\ commitIndex' = AtLeast(commitIndex, s, i)
           /\ lastApplied' = AtLeast(lastApplied, s, i)
           /\ snapFile' = [snapFile EXCEPT ![s] = m.data]
           /\ pendingSnapshot' = [pendingSnapshot EXCEPT ![s] = [index |-> i, data |-> m.data]]
  BY DEF InstallSnapshot, termVars, logVars, applyVars
<1>3. /\ s \in Server /\ m.src \in Server /\ m.term \in Nat /\ i \in Nat
      /\ m.lastIncludedTerm \in Nat /\ m.data \in Seq(Command)
      /\ i <= Len(committed) /\ CallOf(m.src, m.term, i)
  BY <1>0, <1>2, MessageFields DEF TypeOK, CallOK
<1> HIDE DEF s, i
<1>4. /\ log \in [Server -> Seq(Entry)] /\ lastIncludedIndex \in [Server -> Nat]
      /\ lastIncludedTerm \in [Server -> Nat] /\ snapshotData \in [Server -> Seq(Command)]
      /\ commitIndex \in [Server -> Nat] /\ lastApplied \in [Server -> Nat]
      /\ committed \in Seq(Entry) /\ snapFile \in [Server -> Seq(Command)]
      /\ pendingSnapshot \in [Server -> Snapshot \cup {Nil}]
  BY <1>0 DEF TypeOK, LogTypeOK, TermTypeOK, CommitTypeOK, ApplyTypeOK, DiskTypeOK
<1>5. ASSUME takes PROVE LogAfterInstall(s, m) \in Seq(Entry)
  <2>1. log[s] \in Seq(Entry) /\ lastIncludedIndex[s] \in Nat /\ i > lastIncludedIndex[s]
    BY <1>3, <1>4, <1>5
  <2>2. ASSUME TermKnown(s, i) PROVE physicalIndex(s, i) + 1 \in 1 .. Len(log[s]) + 1
    BY <1>3, <2>1, <2>2 DEF TermKnown, LastLogIndex, physicalIndex
  <2>3. ASSUME TermKnown(s, i)
        PROVE  SubSeq(log[s], physicalIndex(s, i) + 1, Len(log[s])) \in Seq(Entry)
    BY <2>1, <2>2, <2>3, SuffixType
  <2> QED BY <2>3 DEF LogAfterInstall, i
<1>6. LogTypeOK' /\ snapFile' \in [Server -> Seq(Command)]
  <2>1. CASE takes
    <3>1. log' \in [Server -> Seq(Entry)]
      BY <1>2, <1>4, <1>5, <2>1
    <3>2. lastIncludedIndex' \in [Server -> Nat] /\ lastIncludedTerm' \in [Server -> Nat]
      <4>1. /\ lastIncludedIndex' = [lastIncludedIndex EXCEPT ![s] = i]
            /\ lastIncludedTerm' = [lastIncludedTerm EXCEPT ![s] = m.lastIncludedTerm]
        BY <1>2, <2>1
      <4>2. /\ i \in Nat /\ m.lastIncludedTerm \in Nat
            /\ lastIncludedIndex \in [Server -> Nat] /\ lastIncludedTerm \in [Server -> Nat]
        BY <1>3, <1>4
      <4> QED BY <4>1, <4>2
    <3>3. snapshotData' \in [Server -> Seq(Command)] /\ snapFile' \in [Server -> Seq(Command)]
      BY <1>2, <1>3, <1>4, <2>1
    <3> QED BY <3>1, <3>2, <3>3 DEF LogTypeOK
  <2>2. CASE ~takes
    BY <1>2, <1>4, <2>2 DEF LogTypeOK
  <2> QED BY <2>1, <2>2
<1>7. /\ CommitTypeOK'
      /\ lastApplied' \in [Server -> Nat]
      /\ pendingSnapshot' \in [Server -> Snapshot \cup {Nil}]
  <2>1. CASE takes
    <3>1. [index |-> i, data |-> m.data] \in Snapshot
      BY <1>3 DEF Snapshot
    <3>2. commitIndex' \in [Server -> Nat] /\ lastApplied' \in [Server -> Nat]
      <4>1. commitIndex' = AtLeast(commitIndex, s, i) /\ lastApplied' = AtLeast(lastApplied, s, i)
        BY <1>2, <2>1
      <4>2. i \in Nat /\ commitIndex \in [Server -> Nat] /\ lastApplied \in [Server -> Nat]
        BY <1>3, <1>4
      <4> QED BY <4>1, <4>2 DEF AtLeast
    <3>3. pendingSnapshot' \in [Server -> Snapshot \cup {Nil}]
      BY <1>2, <1>4, <2>1, <3>1, ZenonT(60)
    <3> QED BY <1>1, <1>4, <3>2, <3>3 DEF CommitTypeOK
  <2>2. CASE ~takes
    BY <1>1, <1>2, <1>4, <2>2 DEF CommitTypeOK
  <2> QED BY <2>1, <2>2
<1>8. \A t \in Server : /\ lastIncludedIndex'[t] <= lastApplied'[t]
                        /\ commitIndex'[t] <= Len(committed')
                        /\ lastApplied'[t] <= Len(committed')
  <2>1. CASE takes
    <3> TAKE t \in Server
    <3>1. /\ lastIncludedIndex[t] \in Nat /\ lastApplied[t] \in Nat /\ commitIndex[t] \in Nat
          /\ lastIncludedIndex[t] <= lastApplied[t]
          /\ commitIndex[t] <= Len(committed) /\ lastApplied[t] <= Len(committed)
      BY <1>0, <1>4 DEF CompactedApplied, CommitRecorded
    <3>2. /\ lastIncludedIndex'[t] = IF t = s THEN i ELSE lastIncludedIndex[t]
          /\ lastApplied'[t] = IF t = s /\ lastApplied[t] < i THEN i ELSE lastApplied[t]
          /\ commitIndex'[t] = IF t = s /\ commitIndex[t] < i THEN i ELSE commitIndex[t]
      BY <1>2, <1>4, <2>1 DEF AtLeast
    <3>3. i \in Nat /\ i <= Len(committed)
      BY <1>3
    <3> QED BY <1>1, <3>1, <3>2, <3>3
  <2>2. CASE ~takes
    BY <1>0, <1>1, <1>2, <2>2 DEF CompactedApplied, CommitRecorded
  <2> QED BY <2>1, <2>2
<1>9. \A t \in Server : t # s =>
         /\ log'[t] = log[t] /\ lastIncludedIndex'[t] = lastIncludedIndex[t]
         /\ lastIncludedTerm'[t] = lastIncludedTerm[t]
  BY <1>2, <1>4
<1>10. currentTerm[s] \in Nat
  BY <1>0, <1>3 DEF TypeOK, TermTypeOK
<1>11. /\ TermTypeOK' /\ NodeStep(s)
       /\ \A t \in Server : t # s =>
            /\ state'[t] = state[t] /\ currentTerm'[t] = currentTerm[t]
            /\ votedFor'[t] = votedFor[t]
       /\ state'[s] = Leader => state[s] = Leader /\ ~current
  <2>1. CASE current
    <3>1. becomeFollower(s, m.term)
      BY <1>2, <2>1
    <3> QED BY <1>0, <1>3, <2>1, <3>1, BecomeFollower DEF Follower, Leader
  <2>2. CASE ~current
    <3>1. UNCHANGED <<state, currentTerm, votedFor, log, lastIncludedIndex>>
      BY <1>2, <2>2
    <3>2. NodeStep(s)
      BY <1>0, <1>3, <3>1, Untouched
    <3> QED BY <1>0, <2>2, <3>1, <3>2 DEF TypeOK, TermTypeOK
  <2> QED BY <2>1, <2>2
<1>12. Step
  BY <1>0, <1>9, <1>11, Untouched DEF Step
<1>13. DiskCurrent' /\ disk' \in [Server -> Persisted]
  <2>1. CASE current
    BY <1>0, <1>2, <1>3, <1>6, <1>9, <1>11, <2>1, DiskKept
  <2>2. CASE ~current
    BY <1>0, <1>2, <1>3, <1>6, <1>11, <2>2, DiskKept
  <2> QED BY <2>1, <2>2
<1>14. NextWithinLog'
  <2>1. ASSUME NEW t \in Server, state'[t] = Leader
        PROVE  state[t] = Leader /\ LastLogIndex(t)' = LastLogIndex(t)
    BY <1>2, <1>9, <1>11, <2>1 DEF LastLogIndex
  <2> QED BY <1>0, <1>1, <2>1 DEF NextWithinLog
<1>15. ASSUME NEW r \in rpcs', r \notin rpcs PROVE r \in Message /\ CallOK(r)'
  <2>1. r = reply
    BY <1>2, <1>15 DEF Reply
  <2>2. currentTerm'[s] \in Nat
    BY <1>3, <1>11 DEF TermTypeOK
  <2>3. r \in Message
    BY <1>3, <2>1, <2>2 DEF Message
  <2>4. /\ r.type = "SnapshotReply" /\ r.dst = m.src /\ r.reqTerm = m.term
        /\ r.lastIncludedIndex = i
    BY <2>1
  <2>5. CallOf(m.src, m.term, i)'
    <3>1. NodeStep(m.src)
      BY <1>3, <1>12 DEF Step
    <3>2. /\ currentTerm[m.src] \in Nat /\ currentTerm'[m.src] \in Nat
          /\ state[m.src] \in {Follower, Candidate, Leader}
      BY <1>0, <1>3, <1>11 DEF TypeOK, TermTypeOK
    <3>3. LastLogIndex(m.src) \in Nat /\ LastLogIndex(m.src)' \in Nat
      <4>1. /\ log[m.src] \in Seq(Entry) /\ log'[m.src] \in Seq(Entry)
            /\ lastIncludedIndex[m.src] \in Nat /\ lastIncludedIndex'[m.src] \in Nat
        BY <1>0, <1>3, <1>6 DEF TypeOK, LogTypeOK
      <4> QED BY <4>1, SMTT(30) DEF LastLogIndex
    <3>4. i' = i
      BY DEF i
    <3> QED BY <1>3, <3>1, <3>2, <3>3, <3>4 DEF NodeStep, CallOf, Follower, Candidate, Leader
  <2>6. CallOf(r.dst, r.reqTerm, r.lastIncludedIndex)'
    BY <2>4, <2>5 DEF i
  <2> QED BY <2>3, <2>4, <2>6 DEF CallOK
<1>16. TypeOK'
  BY <1>0, <1>1, <1>6, <1>7, <1>11, <1>13, <1>15 DEF TypeOK, ApplyTypeOK, LeaderTypeOK, ElectionTypeOK, DiskTypeOK, BoundTypeOK
<1>17. Len(committed) <= Len(committed)'
  BY <1>1, <1>4
<1>18. CompactedApplied' /\ CommitRecorded'
  BY <1>8 DEF CompactedApplied, CommitRecorded
<1> QED BY <1>12, <1>13, <1>14, <1>15, <1>16, <1>17, <1>18, Conclude

\* Executing an operation leaves a list of operations.
LEMMA ExecuteType ==
    ASSUME NEW ops \in Seq(Command), NEW c \in Command
    PROVE  Execute(ops, c) \in Seq(Command)
BY DEF Execute

\* applyEntry preserves IndexInv and obeys Step.
LEMMA applyEntryStep ==
    ASSUME IndexInv, NEW s \in Server, applyEntry(s)
    PROVE  IndexInv' /\ Step
<1>0. TypeOK /\ DiskCurrent /\ CompactedApplied /\ CommitRecorded /\ NextWithinLog
  BY DEF IndexInv
<1>1. UNCHANGED <<state, currentTerm, votedFor, commitIndex, committed,
                  lastApplied, pendingSnapshot, applyPC, nextIndex,
                  matchIndex, repl, spawned, votes, epoch, elections,
                  restarts, drops, rounds, rpcs>>
  BY DEF applyEntry, termVars, logVars, applyVars, leaderVars, electionVars,
         smVars, diskVars, commitVars, boundVars
<1> DEFINE msg == Head(applyCh[s])
           ops == Execute(sm[s], msg.command)
           i   == msg.index
<1>2. /\ applyCh[s] # <<>> /\ msg.kind = "entry"
      /\ applyCh' = [applyCh EXCEPT ![s] = Tail(@)]
      /\ sm' = [sm EXCEPT ![s] = ops]
      /\ Compacts(s, i) =>
            /\ log' = [log EXCEPT ![s] = SubSeq(@, physicalIndex(s, i) + 1, Len(@))]
            /\ lastIncludedIndex' = [lastIncludedIndex EXCEPT ![s] = i]
            /\ lastIncludedTerm' = [lastIncludedTerm EXCEPT ![s] = TermAt(s, i)]
            /\ snapshotData' = [snapshotData EXCEPT ![s] = ops]
            /\ snapFile' = [snapFile EXCEPT ![s] = ops]
            /\ persistLocked(s)
      /\ ~Compacts(s, i) => UNCHANGED <<log, lastIncludedIndex, lastIncludedTerm,
                                        snapshotData, disk, snapFile>>
  BY DEF applyEntry, logVars, diskVars
<1>3. /\ applyCh \in [Server -> Seq(ApplyMsg)] /\ applyCh[s] \in Seq(ApplyMsg)
      /\ sm \in [Server -> Seq(Command)] /\ sm[s] \in Seq(Command)
      /\ log \in [Server -> Seq(Entry)] /\ log[s] \in Seq(Entry)
      /\ lastIncludedIndex \in [Server -> Nat] /\ lastIncludedIndex[s] \in Nat
      /\ lastIncludedTerm \in [Server -> Nat] /\ snapshotData \in [Server -> Seq(Command)]
      /\ snapFile \in [Server -> Seq(Command)] /\ lastApplied[s] \in Nat
  BY <1>0 DEF TypeOK, ApplyTypeOK, LogTypeOK, DiskTypeOK
<1>4. msg \in ApplyMsg /\ Tail(applyCh[s]) \in Seq(ApplyMsg)
  BY <1>2, <1>3
<1> HIDE DEF msg
<1>5. i \in Nat /\ msg.command \in Command
  BY <1>2, <1>4 DEF ApplyMsg
<1>6. ops \in Seq(Command)
  BY <1>3, <1>5, ExecuteType
<1> HIDE DEF ops, i
<1>7. ApplyTypeOK'
  BY <1>0, <1>1, <1>2, <1>3, <1>4, <1>6 DEF TypeOK, ApplyTypeOK
<1>8. TermTypeOK'
  BY <1>0, <1>1 DEF TypeOK, TermTypeOK
<1>9. CASE ~Compacts(s, i)
  <2>1. UNCHANGED <<log, lastIncludedIndex, lastIncludedTerm, snapshotData, disk, snapFile>>
    BY <1>2, <1>9
  <2>2. TypeOK'
    BY <1>0, <1>1, <1>7, <2>1 DEF TypeOK, TermTypeOK, LogTypeOK, CommitTypeOK, LeaderTypeOK, ElectionTypeOK, DiskTypeOK, BoundTypeOK
  <2> QED BY <1>1, <2>1, <2>2, RecordsInvariant, QuietStep DEF termVars, logVars
<1>10. CASE Compacts(s, i)
  <2> DEFINE k == physicalIndex(s, i)
             rest == SubSeq(log[s], k + 1, Len(log[s]))
  <2>1. /\ i > lastIncludedIndex[s] /\ i <= lastIncludedIndex[s] + Len(log[s])
        /\ i <= lastApplied[s]
    BY <1>10 DEF Compacts, LastLogIndex
  <2>2. k \in 1 .. Len(log[s]) /\ k + 1 \in 1 .. Len(log[s]) + 1
    BY <1>3, <1>5, <2>1, SMTT(30) DEF physicalIndex
  <2>3. rest \in Seq(Entry) /\ Len(rest) = Len(log[s]) - (k + 1) + 1
    BY <1>3, <2>2, SuffixType
  <2>4. TermAt(s, i) \in Nat
    BY <1>3, <1>5, <2>1, <2>2, EntryAt DEF TermAt
  <2>5. log' = [log EXCEPT ![s] = rest] /\ lastIncludedIndex' = [lastIncludedIndex EXCEPT ![s] = i]
    BY <1>2, <1>10
  <2> HIDE DEF rest
  <2>6. LogTypeOK' /\ snapFile' \in [Server -> Seq(Command)]
    <3>1. log' \in [Server -> Seq(Entry)] /\ lastIncludedIndex' \in [Server -> Nat]
      BY <1>3, <1>5, <2>3, <2>5
    <3>2. lastIncludedTerm' \in [Server -> Nat]
      BY <1>2, <1>3, <1>10, <2>4
    <3>3. snapshotData' \in [Server -> Seq(Command)] /\ snapFile' \in [Server -> Seq(Command)]
      BY <1>2, <1>3, <1>6, <1>10, ZenonT(60)
    <3> QED BY <3>1, <3>2, <3>3 DEF LogTypeOK
  <2>7. \A t \in Server : t # s =>
           /\ log'[t] = log[t] /\ lastIncludedIndex'[t] = lastIncludedIndex[t]
           /\ lastIncludedTerm'[t] = lastIncludedTerm[t]
    BY <1>2, <1>3, <1>10
  <2>8. LastLogIndex(s)' = LastLogIndex(s) /\ LastLogIndex(s) \in Nat
    <3>1. log'[s] = rest /\ lastIncludedIndex'[s] = i
      BY <1>3, <2>5
    <3>2. Len(log[s]) \in Nat /\ lastIncludedIndex[s] \in Nat /\ i \in Nat
      BY <1>3, <1>5
    <3>3. Len(rest) = Len(log[s]) - (i - lastIncludedIndex[s] + 1) + 1
      BY <2>3 DEF physicalIndex
    <3>4. i + Len(rest) = lastIncludedIndex[s] + Len(log[s])
      BY <3>2, <3>3
    <3> QED BY <3>1, <3>2, <3>4 DEF LastLogIndex
  <2>9. \A t \in Server : LastLogIndex(t)' = LastLogIndex(t)
    <3> TAKE t \in Server
    <3>1. CASE t = s
      BY <2>8, <3>1
    <3>2. CASE t # s
      BY <2>7, <3>2 DEF LastLogIndex
    <3> QED BY <3>1, <3>2
  <2>10. NextWithinLog'
    BY <1>0, <1>1, <2>9 DEF NextWithinLog
  <2>11. Step
    <3>1. NodeStep(s)
      BY <1>0, <1>1, <2>8 DEF TypeOK, TermTypeOK, NodeStep, Follower, Leader
    <3> QED BY <1>0, <1>1, <2>7, <3>1, Untouched DEF Step
  <2>12. DiskCurrent' /\ disk' \in [Server -> Persisted]
    BY <1>0, <1>1, <1>2, <1>8, <1>10, <2>6, <2>7, DiskKept
  <2>13. CompactedApplied' /\ CommitRecorded'
    BY <1>0, <1>1, <1>3, <2>1, <2>5 DEF CompactedApplied, CommitRecorded
  <2>14. TypeOK'
    BY <1>0, <1>1, <1>7, <1>8, <2>6, <2>12 DEF TypeOK, CommitTypeOK, LeaderTypeOK, ElectionTypeOK, DiskTypeOK, BoundTypeOK
  <2>15. Len(committed) <= Len(committed)'
    BY <1>0, <1>1 DEF TypeOK, CommitTypeOK
  <2> QED BY <1>1, <2>10, <2>11, <2>12, <2>13, <2>14, <2>15, Conclude
<1> QED BY <1>9, <1>10

\* A restart from a state file that holds the node's log and a term and vote
\* not older than its own.
LEMMA BootStep ==
    ASSUME IndexInv, NEW s \in Server, NEW d \in Persisted, NEW f \in Seq(Command),
           NEW failed \in SUBSET rpcs, Boot(s, d, f, failed),
           d.currentTerm >= currentTerm[s],
           d.currentTerm = currentTerm[s] => d.votedFor = votedFor[s],
           d.log = log[s], d.lastIncludedIndex = lastIncludedIndex[s],
           d.lastIncludedTerm = lastIncludedTerm[s]
    PROVE  IndexInv' /\ Step
<1>0. TypeOK /\ DiskCurrent /\ CompactedApplied /\ CommitRecorded /\ NextWithinLog
  BY DEF IndexInv
<1> DEFINE data == IF d.lastIncludedIndex > 0 THEN f ELSE <<>>
<1>1. /\ data \in Seq(Command)
      /\ d.currentTerm \in Nat /\ d.votedFor \in Server \cup {Nil} /\ d.log \in Seq(Entry)
      /\ d.lastIncludedIndex \in Nat /\ d.lastIncludedTerm \in Nat
  BY DEF Persisted
<1>2. /\ state' = [state EXCEPT ![s] = Follower]
      /\ currentTerm' = [currentTerm EXCEPT ![s] = d.currentTerm]
      /\ votedFor' = [votedFor EXCEPT ![s] = d.votedFor]
      /\ log' = [log EXCEPT ![s] = d.log]
      /\ lastIncludedIndex' = [lastIncludedIndex EXCEPT ![s] = d.lastIncludedIndex]
      /\ lastIncludedTerm' = [lastIncludedTerm EXCEPT ![s] = d.lastIncludedTerm]
      /\ snapshotData' = [snapshotData EXCEPT ![s] = data]
  BY DEF Boot
<1>3. /\ commitIndex' = [commitIndex EXCEPT ![s] = d.lastIncludedIndex]
      /\ lastApplied' = [lastApplied EXCEPT ![s] = d.lastIncludedIndex]
      /\ pendingSnapshot' = [pendingSnapshot EXCEPT ![s] = Nil]
      /\ applyPC' = [applyPC EXCEPT ![s] = "idle"]
      /\ applyCh' = [applyCh EXCEPT ![s] = <<>>]
      /\ sm' = [sm EXCEPT ![s] = data]
      /\ UNCHANGED committed
  BY DEF Boot
<1>4. /\ nextIndex' = [nextIndex EXCEPT ![s] = [p \in Server |-> 1]]
      /\ matchIndex' = [matchIndex EXCEPT ![s] = [p \in Server |-> 0]]
      /\ repl' = [q \in Server |-> [p \in Server |->
             IF \/ q = s
                \/ \E m \in failed : m.src = q /\ m.dst = p /\ m.epoch = epoch[q]
             THEN "idle" ELSE repl[q][p]]]
      /\ spawned' = [spawned EXCEPT ![s] = {}]
      /\ votes' = [votes EXCEPT ![s] = NoVotes]
      /\ rpcs' = {m \in rpcs \ failed : ~(m.type \in ReplyTypes /\ m.dst = s)}
      /\ disk' = [disk EXCEPT ![s] = d]
      /\ snapFile' = [snapFile EXCEPT ![s] = f]
      /\ restarts' = restarts + 1
      /\ epoch' = [epoch EXCEPT ![s] = @ + 1]
      /\ UNCHANGED <<elections, drops, rounds>>
  BY DEF Boot
<1> HIDE DEF data
<1>5. /\ lastIncludedIndex[s] <= Len(committed) /\ Len(committed) \in Nat
      /\ lastIncludedIndex[s] \in Nat
  <2>1. /\ lastIncludedIndex[s] \in Nat /\ lastApplied[s] \in Nat /\ committed \in Seq(Entry)
    BY <1>0 DEF TypeOK, LogTypeOK, ApplyTypeOK, CommitTypeOK
  <2> QED BY <1>0, <2>1 DEF CompactedApplied, CommitRecorded
<1>6. TermTypeOK'
  BY <1>0, <1>1, <1>2 DEF TypeOK, TermTypeOK
<1>7. LogTypeOK'
  BY <1>0, <1>1, <1>2 DEF TypeOK, LogTypeOK
<1>8. CommitTypeOK'
  BY <1>0, <1>1, <1>3 DEF TypeOK, CommitTypeOK
<1>9. ApplyTypeOK'
  <2>1. lastApplied' \in [Server -> Nat] /\ pendingSnapshot' \in [Server -> Snapshot \cup {Nil}]
    BY <1>0, <1>1, <1>3 DEF TypeOK, ApplyTypeOK
  <2>2. applyPC' \in [Server -> {"idle", "applying"}] /\ applyCh' \in [Server -> Seq(ApplyMsg)]
    BY <1>0, <1>3 DEF TypeOK, ApplyTypeOK
  <2>3. sm' \in [Server -> Seq(Command)]
    BY <1>0, <1>1, <1>3 DEF TypeOK, ApplyTypeOK
  <2> QED BY <2>1, <2>2, <2>3 DEF ApplyTypeOK
<1>10. LeaderTypeOK'
  <2>1. repl' \in [Server -> [Server -> {"idle", "ready", "snap", "call"}]]
    BY <1>0, <1>4 DEF TypeOK, LeaderTypeOK
  <2>2. nextIndex' \in [Server -> [Server -> Nat \ {0}]]
    BY <1>0, <1>4 DEF TypeOK, LeaderTypeOK
  <2>3. matchIndex' \in [Server -> [Server -> Nat]]
    BY <1>0, <1>4 DEF TypeOK, LeaderTypeOK
  <2> QED BY <2>1, <2>2, <2>3 DEF LeaderTypeOK
<1>11. ElectionTypeOK'
  <2>1. NoVotes \in [1 .. MaxTerm -> [term : Nat, voters : SUBSET Server]]
    BY DEF NoVotes
  <2> QED BY <1>0, <1>4, <2>1 DEF TypeOK, ElectionTypeOK
<1>12. DiskTypeOK' /\ BoundTypeOK'
  BY <1>0, <1>4 DEF TypeOK, DiskTypeOK, BoundTypeOK
<1>13. TypeOK' /\ rpcs' \subseteq rpcs
  BY <1>0, <1>4, <1>6, <1>7, <1>8, <1>9, <1>10, <1>11, <1>12 DEF TypeOK
<1>14. /\ log' = log /\ lastIncludedIndex' = lastIncludedIndex
       /\ lastIncludedTerm' = lastIncludedTerm
  BY <1>0, <1>2 DEF TypeOK, LogTypeOK
<1>15. /\ currentTerm'[s] = d.currentTerm /\ votedFor'[s] = d.votedFor
       /\ state'[s] = Follower
       /\ \A t \in Server : t # s => /\ state'[t] = state[t]
                                     /\ currentTerm'[t] = currentTerm[t]
                                     /\ votedFor'[t] = votedFor[t]
  BY <1>0, <1>2 DEF TypeOK, TermTypeOK
<1>16. Step
  <2>1. NodeStep(s)
    BY <1>1, <1>15 DEF NodeStep, Follower, Candidate, Leader
  <2> QED BY <1>0, <1>14, <1>15, <2>1, Untouched DEF Step
<1>17. DiskCurrent'
  <2>1. d = [currentTerm |-> d.currentTerm, votedFor |-> d.votedFor, log |-> d.log,
             lastIncludedIndex |-> d.lastIncludedIndex,
             lastIncludedTerm |-> d.lastIncludedTerm]
    BY DEF Persisted
  <2>2. disk'[s] = d /\ \A t \in Server : t # s => disk'[t] = disk[t]
    BY <1>0, <1>4 DEF TypeOK, DiskTypeOK
  <2> QED BY <1>0, <1>14, <1>15, <2>1, <2>2 DEF DiskCurrent
<1>18. CompactedApplied' /\ CommitRecorded'
  <2> DEFINE i == lastIncludedIndex[s]
  <2>1. /\ commitIndex' = [commitIndex EXCEPT ![s] = i]
        /\ lastApplied' = [lastApplied EXCEPT ![s] = i]
    BY <1>3
  <2>2. \A t \in Server : /\ commitIndex'[t] = IF t = s THEN i ELSE commitIndex[t]
                          /\ lastApplied'[t] = IF t = s THEN i ELSE lastApplied[t]
    BY <1>0, <2>1 DEF TypeOK, CommitTypeOK, ApplyTypeOK
  <2> QED BY <1>0, <1>3, <1>5, <1>14, <2>2 DEF CompactedApplied, CommitRecorded
<1>19. NextWithinLog'
  <2>1. \A t \in Server : t # s => nextIndex'[t] = nextIndex[t]
    BY <1>0, <1>4 DEF TypeOK, LeaderTypeOK
  <2> QED BY <1>0, <1>14, <1>15, <2>1 DEF NextWithinLog, LastLogIndex, Follower, Leader
<1>20. Len(committed) <= Len(committed)'
  BY <1>3, <1>5
<1> QED BY <1>13, <1>16, <1>17, <1>18, <1>19, <1>20, Conclude

\* DiskCurrent, field by field.
LEMMA DiskFields ==
    ASSUME DiskCurrent, NEW s \in Server
    PROVE  /\ disk[s].currentTerm = currentTerm[s] /\ disk[s].votedFor = votedFor[s]
           /\ disk[s].log = log[s] /\ disk[s].lastIncludedIndex = lastIncludedIndex[s]
           /\ disk[s].lastIncludedTerm = lastIncludedTerm[s]
<1>1. disk[s] = [currentTerm |-> currentTerm[s], votedFor |-> votedFor[s],
                 log |-> log[s], lastIncludedIndex |-> lastIncludedIndex[s],
                 lastIncludedTerm |-> lastIncludedTerm[s]]
  BY DEF DiskCurrent
<1> QED BY <1>1

\* Restart preserves IndexInv and obeys Step.
LEMMA RestartStep ==
    ASSUME IndexInv, NEW s \in Server, Restart(s)
    PROVE  IndexInv' /\ Step
<1>1. disk[s] \in Persisted /\ snapFile[s] \in Seq(Command) /\ currentTerm[s] \in Nat
  BY DEF IndexInv, TypeOK, DiskTypeOK, TermTypeOK
<1>2. /\ disk[s].currentTerm = currentTerm[s] /\ disk[s].votedFor = votedFor[s]
      /\ disk[s].log = log[s] /\ disk[s].lastIncludedIndex = lastIncludedIndex[s]
      /\ disk[s].lastIncludedTerm = lastIncludedTerm[s]
  BY DiskFields DEF IndexInv
<1> QED BY <1>1, <1>2, BootStep DEF Restart

\* CrashInSnapshot preserves IndexInv and obeys Step.
LEMMA CrashInSnapshotStep ==
    ASSUME IndexInv, NEW s \in Server, CrashInSnapshot(s)
    PROVE  IndexInv' /\ Step
<1> DEFINE msg == Head(applyCh[s])
<1>1. /\ disk[s] \in Persisted /\ sm[s] \in Seq(Command) /\ currentTerm[s] \in Nat
      /\ applyCh[s] \in Seq(ApplyMsg)
  BY DEF IndexInv, TypeOK, DiskTypeOK, TermTypeOK, ApplyTypeOK
<1>2. /\ disk[s].currentTerm = currentTerm[s] /\ disk[s].votedFor = votedFor[s]
      /\ disk[s].log = log[s] /\ disk[s].lastIncludedIndex = lastIncludedIndex[s]
      /\ disk[s].lastIncludedTerm = lastIncludedTerm[s]
  BY DiskFields DEF IndexInv
<1>3. /\ applyCh[s] # <<>> /\ msg.kind = "entry"
      /\ Boot(s, disk[s], Execute(sm[s], msg.command), {})
  BY DEF CrashInSnapshot
<1>4. msg \in ApplyMsg
  BY <1>1, <1>3
<1> HIDE DEF msg
<1>5. Execute(sm[s], msg.command) \in Seq(Command)
  BY <1>1, <1>3, <1>4, ExecuteType DEF ApplyMsg
<1> QED BY <1>1, <1>2, <1>3, <1>5, BootStep

\* CrashInInstall preserves IndexInv and obeys Step.
LEMMA CrashInInstallStep ==
    ASSUME IndexInv, NEW m \in rpcs, CrashInInstall(m)
    PROVE  IndexInv' /\ Step
<1> DEFINE s == m.dst
           d == IF m.term > currentTerm[s]
                THEN [disk[s] EXCEPT !.currentTerm = m.term, !.votedFor = Nil]
                ELSE disk[s]
<1>1. m.type = "InstallSnapshot" /\ m.term >= currentTerm[s] /\ Boot(s, d, m.data, {m})
  BY DEF CrashInInstall
<1>2. s \in Server /\ m.term \in Nat /\ m.data \in Seq(Command)
  BY <1>1, MessageFields DEF IndexInv, TypeOK
<1>3. disk[s] \in Persisted /\ currentTerm[s] \in Nat
  BY <1>2 DEF IndexInv, TypeOK, DiskTypeOK, TermTypeOK
<1>4. /\ disk[s].currentTerm = currentTerm[s] /\ disk[s].votedFor = votedFor[s]
      /\ disk[s].log = log[s] /\ disk[s].lastIncludedIndex = lastIncludedIndex[s]
      /\ disk[s].lastIncludedTerm = lastIncludedTerm[s]
  BY <1>2, DiskFields DEF IndexInv
<1>5. /\ d \in Persisted /\ d.currentTerm >= currentTerm[s]
      /\ d.currentTerm = currentTerm[s] => d.votedFor = votedFor[s]
      /\ d.log = log[s] /\ d.lastIncludedIndex = lastIncludedIndex[s]
      /\ d.lastIncludedTerm = lastIncludedTerm[s]
  <2>1. CASE m.term > currentTerm[s]
    <3>1. d = [disk[s] EXCEPT !.currentTerm = m.term, !.votedFor = Nil]
      BY <2>1
    <3>2. d \in Persisted
      BY <1>2, <1>3, <3>1 DEF Persisted
    <3>3. /\ d.currentTerm = m.term /\ d.log = disk[s].log
          /\ d.lastIncludedIndex = disk[s].lastIncludedIndex
          /\ d.lastIncludedTerm = disk[s].lastIncludedTerm
      BY <1>3, <3>1 DEF Persisted
    <3> HIDE DEF d
    <3> QED BY <1>2, <1>3, <1>4, <2>1, <3>2, <3>3
  <2>2. CASE ~(m.term > currentTerm[s])
    <3>1. d = disk[s]
      BY <2>2
    <3> HIDE DEF d
    <3> QED BY <1>3, <1>4, <3>1
  <2> QED BY <2>1, <2>2
<1> HIDE DEF s, d
<1> QED BY <1>1, <1>2, <1>5, BootStep

\* A new cluster satisfies the invariant.
LEMMA InitIndexInv == Init => IndexInv
<1> SUFFICES ASSUME Init PROVE IndexInv
  OBVIOUS
<1>1. TermTypeOK /\ LogTypeOK /\ CommitTypeOK /\ ApplyTypeOK
  BY DEF Init, TermTypeOK, LogTypeOK, CommitTypeOK, ApplyTypeOK
<1>2. LeaderTypeOK /\ BoundTypeOK
  BY DEF Init, LeaderTypeOK, BoundTypeOK
<1>3. ElectionTypeOK
  BY DEF Init, ElectionTypeOK, NoVotes
<1>4. DiskTypeOK /\ rpcs \subseteq Message
  BY DEF Init, DiskTypeOK, Persisted
<1>5. DiskCurrent
  BY DEF Init, DiskCurrent
<1>6. CompactedApplied /\ CommitRecorded
  BY DEF Init, CompactedApplied, CommitRecorded
<1>7. NextWithinLog
  BY DEF Init, NextWithinLog, Follower, Leader
<1>8. \A m \in rpcs : CallOK(m)
  BY DEF Init
<1> QED BY <1>1, <1>2, <1>3, <1>4, <1>5, <1>6, <1>7, <1>8 DEF IndexInv, TypeOK

\* Every step preserves the invariant and obeys Step.
LEMMA NextIndexInv == IndexInv /\ [Next]_vars => IndexInv' /\ Step
<1> SUFFICES ASSUME IndexInv, [Next]_vars PROVE IndexInv' /\ Step
  OBVIOUS
<1>1. ASSUME UNCHANGED vars PROVE IndexInv' /\ Step
  <2>1. TypeOK'
    BY <1>1 DEF IndexInv, TypeOK, vars, termVars, logVars, applyVars, leaderVars,
          electionVars, smVars, diskVars, commitVars, boundVars, TermTypeOK, LogTypeOK,
          CommitTypeOK, ApplyTypeOK, LeaderTypeOK, ElectionTypeOK, DiskTypeOK, BoundTypeOK
  <2> QED BY <1>1, <2>1, RecordsInvariant, QuietStep DEF vars, termVars, logVars,
        applyVars, leaderVars, commitVars, diskVars
<1>2. ASSUME NEW s \in Server,
             \/ ElectionTimeout(s)
             \/ \E b \in spawned[s] : startElection(s, b)
             \/ \E c \in Command : Propose(s, c)
             \/ Heartbeat(s)
             \/ \E p \in Peers(s) : replicateToPeer(s, p)
             \/ \E p \in Peers(s) : sendInstallSnapshot(s, p)
             \/ deliverPendingSnapshot(s)
             \/ applyPending(s)
             \/ applyEntry(s)
             \/ adoptSnapshot(s)
             \/ Restart(s)
             \/ CrashInSnapshot(s)
      PROVE  IndexInv' /\ Step
  BY <1>2, ElectionTimeoutStep, startElectionStep, ProposeStep, HeartbeatStep,
     replicateToPeerStep, sendInstallSnapshotStep, deliverPendingSnapshotStep,
     applyPendingStep, applyEntryStep, adoptSnapshotStep, RestartStep,
     CrashInSnapshotStep DEF Peers
<1>3. ASSUME NEW m \in rpcs,
             \/ RequestVote(m) \/ VoteReply(m) \/ StepDown(m) \/ IgnoreReply(m)
             \/ FailRPC(m) \/ AppendEntries(m) \/ AppendReply(m)
             \/ InstallSnapshot(m) \/ CrashInInstall(m) \/ SnapshotReply(m)
      PROVE  IndexInv' /\ Step
  BY <1>3, RequestVoteStep, VoteReplyStep, StepDownStep, IgnoreReplyStep, FailRPCStep,
     AppendEntriesStep, AppendReplyStep, InstallSnapshotStep, CrashInInstallStep,
     SnapshotReplyStep
<1> QED BY <1>1, <1>2, <1>3 DEF Next

\* For every cluster size and every bound, each field of a node, its files
\* and its messages keep the types of raft.go and rpc.go; in particular no
\* nextIndex falls to 0.
THEOREM TypeCorrect == Spec => []TypeOK
<1>1. IndexInv => TypeOK
  BY DEF IndexInv
<1> QED BY <1>1, InitIndexInv, NextIndexInv, PTL DEF Spec

\* The term of a node (raft.go RequestVote, state.go becomeFollowerLocked,
\* persist.go restoreLocked) never goes back and its vote within a term never
\* changes, crashes and restarts included.
THEOREM VoteStability == Spec => VoteStable
<1>1. Step => \A s \in Server :
          /\ currentTerm'[s] >= currentTerm[s]
          /\ currentTerm'[s] = currentTerm[s] /\ votedFor[s] # Nil
                => votedFor'[s] = votedFor[s]
  BY DEF Step, NodeStep
<1> QED BY <1>1, InitIndexInv, NextIndexInv, PTL DEF Spec, VoteStable

\* Whenever no handler is running, the state file that persistLocked wrote
\* holds exactly the term, vote and log the node has in memory.
THEOREM Durability == Spec => []DiskCurrent
<1>1. IndexInv => DiskCurrent
  BY DEF IndexInv
<1> QED BY <1>1, InitIndexInv, NextIndexInv, PTL DEF Spec

(***************************************************************************)
(* Election safety.  A leader owes its office to a majority that it has    *)
(* counted, and any two majorities share a voter.  That voter's persisted  *)
(* vote decides: the invariant follows every vote from the moment it is    *)
(* cast, through the reply in flight, to the count of the goroutine that   *)
(* asked for it, since the goroutine may belong to an older candidacy of   *)
(* the same node.                                                          *)
(***************************************************************************)
\* v has voted for c in term t, or has left t.
Voted(v, t, c) == currentTerm[v] > t \/ (currentTerm[v] = t /\ votedFor[v] = c)

\* v's vote for c in term t is under way to c or has been counted by c.
Claims(c, v, t) ==
    /\ v # c
    /\ \/ \E m \in rpcs : /\ m.type = "VoteReply" /\ m.granted
                          /\ m.src = v /\ m.dst = c /\ m.reqTerm = t
       \/ \E b \in 1 .. MaxTerm : votes[c][b].term = t /\ v \in votes[c][b].voters

\* Whoever runs or has won an election has voted for itself.
VotesForItself == \A s \in Server : state[s] # Follower => votedFor[s] = s

\* The startElection goroutine of s spawned in term b has run, and read t.
GoroutineOf(s, b, t) ==
    b <= currentTerm[s] /\ b \notin spawned[s] /\ votes[s][b].term = t

\* A vote request carries the term that its living goroutine read.
RequestsKnown ==
    \A m \in rpcs : m.type = "RequestVote" =>
        /\ m.epoch <= epoch[m.src]
        /\ m.epoch = epoch[m.src] => GoroutineOf(m.src, m.born, m.term)

\* A vote reply belongs to a goroutine that exists and asked in that term.
RepliesKnown ==
    \A m \in rpcs : m.type = "VoteReply" => GoroutineOf(m.dst, m.born, m.reqTerm)

\* A goroutine that has not run yet has counted nothing.
SpawnedFresh ==
    \A s \in Server : \A b \in 1 .. MaxTerm :
        /\ b \in spawned[s] => b <= currentTerm[s]
        /\ b \in spawned[s] \/ b > currentTerm[s] => votes[s][b].voters = {}

\* A counted or reported vote was cast.
ClaimsVoted ==
    \A c, v \in Server : \A t \in Nat : Claims(c, v, t) => Voted(v, t, c)

\* No voter's vote of one term is claimed by two candidates.
OneClaim ==
    \A c, e, v \in Server : \A t \in Nat : Claims(c, v, t) /\ Claims(e, v, t) => c = e

\* A leader has counted a majority in an election of its term.
LeaderHasMajority ==
    \A s \in Server : state[s] = Leader =>
        \E b \in 1 .. MaxTerm : votes[s][b].term = currentTerm[s] /\ Majority(votes[s][b].voters)

\* The inductive invariant behind ElectionSafety.
ElectionInv ==
    /\ VotesForItself
    /\ RequestsKnown
    /\ RepliesKnown
    /\ SpawnedFresh
    /\ ClaimsVoted
    /\ OneClaim
    /\ LeaderHasMajority

\* The types of the election variables of one node.
LEMMA NodeTypes ==
    ASSUME TypeOK, NEW s \in Server
    PROVE  /\ currentTerm[s] \in Nat /\ epoch[s] \in Nat
           /\ state[s] \in {Follower, Candidate, Leader}
           /\ \A b \in 1 .. MaxTerm : votes[s][b].term \in Nat /\ votes[s][b].voters \in SUBSET Server
           /\ \A b \in 1 .. MaxTerm : b \in Nat
<1>1. currentTerm[s] \in Nat /\ epoch[s] \in Nat /\ state[s] \in {Follower, Candidate, Leader}
  BY DEF TypeOK, TermTypeOK, BoundTypeOK
<1>2. ASSUME NEW b \in 1 .. MaxTerm
      PROVE  votes[s][b].term \in Nat /\ votes[s][b].voters \in SUBSET Server
  <2>1. votes \in [Server -> [1 .. MaxTerm -> [term : Nat, voters : SUBSET Server]]]
    BY DEF TypeOK, ElectionTypeOK
  <2>2. votes[s][b] \in [term : Nat, voters : SUBSET Server]
    BY <2>1, ZenonT(60)
  <2> QED BY <2>2
<1> QED BY <1>1, <1>2

\* A vote that was cast stays cast (VoteStable, seen from the candidate).
LEMMA VotedKept ==
    ASSUME IndexInv, IndexInv', Step, NEW c \in Server, NEW v \in Server, NEW t \in Nat,
           Voted(v, t, c)
    PROVE  Voted(v, t, c)'
<1>1. currentTerm[v] \in Nat /\ currentTerm'[v] \in Nat
  BY DEF IndexInv, TypeOK, TermTypeOK
<1>2. NodeStep(v) /\ c # Nil
  BY ServerAssumption DEF Step
<1> QED BY <1>1, <1>2 DEF NodeStep, Voted

\* A step that adds no claim keeps the claims honest and unique.
LEMMA ClaimsKept ==
    ASSUME IndexInv, IndexInv', Step, ElectionInv,
           \A c, v \in Server : \A t \in Nat : Claims(c, v, t)' => Claims(c, v, t)
    PROVE  ClaimsVoted' /\ OneClaim'
<1>1. ClaimsVoted'
  <2> SUFFICES ASSUME NEW c \in Server, NEW v \in Server, NEW t \in Nat, Claims(c, v, t)'
               PROVE  Voted(v, t, c)'
    BY DEF ClaimsVoted
  <2> QED BY VotedKept DEF ElectionInv, ClaimsVoted
<1>2. OneClaim'
  BY DEF ElectionInv, OneClaim
<1> QED BY <1>1, <1>2

\* Nobody's votes are no majority.
LEMMA NoMajorityEmpty == ~Majority({})
<1>1. Cardinality(Server) \in Nat /\ Cardinality({}) = 0
  BY ServerAssumption, FS_CardinalityType, FS_EmptySet
<1> QED BY <1>1 DEF Majority

\* Steps that add no vote message and make nobody a candidate or leader.
LEMMA QuietElection ==
    ASSUME IndexInv, IndexInv', Step, ElectionInv, UNCHANGED <<votes, spawned, epoch>>,
           \A m \in rpcs' : m.type \in {"RequestVote", "VoteReply"} => m \in rpcs,
           \A s \in Server : state'[s] # Follower =>
               state'[s] = state[s] /\ currentTerm'[s] = currentTerm[s]
    PROVE  ElectionInv'
<1>0. TypeOK /\ TypeOK'
  BY DEF IndexInv
<1>1. \A s \in Server : /\ currentTerm[s] \in Nat /\ currentTerm'[s] \in Nat
                        /\ currentTerm[s] <= currentTerm'[s]
  BY <1>0, NodeTypes DEF Step, NodeStep, TypeOK, TermTypeOK
<1>2. VotesForItself'
  <2>1. ASSUME NEW s \in Server, state'[s] # Follower PROVE votedFor'[s] = s
    <3>1. votedFor[s] = s /\ s # Nil
      BY <2>1, ServerAssumption DEF ElectionInv, VotesForItself
    <3> QED BY <2>1, <3>1 DEF Step, NodeStep
  <2> QED BY <2>1 DEF VotesForItself
<1>3. ASSUME NEW s \in Server, NEW b \in 1 .. MaxTerm, NEW t, GoroutineOf(s, b, t)
      PROVE  GoroutineOf(s, b, t)'
  BY <1>1, <1>3 DEF GoroutineOf
<1>4. RequestsKnown'
  <2>1. ASSUME NEW m \in rpcs', m.type = "RequestVote"
        PROVE  /\ m.epoch <= epoch'[m.src]
               /\ m.epoch = epoch'[m.src] => GoroutineOf(m.src, m.born, m.term)'
    <3>1. m \in rpcs /\ m.src \in Server /\ m.born \in 1 .. MaxTerm
      BY <1>0, <2>1, MessageFields DEF TypeOK
    <3>2. /\ m.epoch <= epoch[m.src]
          /\ m.epoch = epoch[m.src] => GoroutineOf(m.src, m.born, m.term)
      BY <2>1, <3>1 DEF ElectionInv, RequestsKnown
    <3> QED BY <1>3, <3>1, <3>2
  <2> QED BY <2>1 DEF RequestsKnown
<1>5. RepliesKnown'
  <2>1. ASSUME NEW m \in rpcs', m.type = "VoteReply"
        PROVE  GoroutineOf(m.dst, m.born, m.reqTerm)'
    <3>1. m \in rpcs /\ m.dst \in Server /\ m.born \in 1 .. MaxTerm
      BY <1>0, <2>1, MessageFields DEF TypeOK
    <3>2. GoroutineOf(m.dst, m.born, m.reqTerm)
      BY <2>1, <3>1 DEF ElectionInv, RepliesKnown
    <3> QED BY <1>3, <3>1, <3>2
  <2> QED BY <2>1 DEF RepliesKnown
<1>6. SpawnedFresh'
  <2>1. \A b \in 1 .. MaxTerm : b \in Int
    OBVIOUS
  <2> QED BY <1>1, <2>1 DEF ElectionInv, SpawnedFresh
<1>7. ClaimsVoted' /\ OneClaim'
  <2>1. \A c, v \in Server : \A t \in Nat : Claims(c, v, t)' => Claims(c, v, t)
    BY DEF Claims
  <2> QED BY <2>1, ClaimsKept
<1>8. LeaderHasMajority'
  BY DEF ElectionInv, LeaderHasMajority, Follower, Leader
<1> QED BY <1>2, <1>4, <1>5, <1>6, <1>7, <1>8 DEF ElectionInv

\* ElectionTimeout preserves ElectionInv.
LEMMA ElectionTimeoutElection ==
    ASSUME IndexInv, IndexInv', Step, ElectionInv, NEW s \in Server, ElectionTimeout(s)
    PROVE  ElectionInv'
<1>0. TypeOK /\ TypeOK'
  BY DEF IndexInv
<1>1. UNCHANGED <<votes, epoch, rpcs>>
  BY DEF ElectionTimeout
<1>2. /\ currentTerm'[s] = currentTerm[s] + 1 /\ votedFor'[s] = s /\ state'[s] = Candidate
      /\ spawned'[s] = spawned[s] \cup {currentTerm[s] + 1}
      /\ \A t \in Server : t # s =>
            /\ currentTerm'[t] = currentTerm[t] /\ votedFor'[t] = votedFor[t]
            /\ state'[t] = state[t] /\ spawned'[t] = spawned[t]
  BY <1>0 DEF ElectionTimeout, TypeOK, TermTypeOK, ElectionTypeOK
<1>3. \A t \in Server : currentTerm[t] \in Nat
  BY <1>0, NodeTypes
<1>4. VotesForItself'
  BY <1>2 DEF ElectionInv, VotesForItself
<1>5. ASSUME NEW t \in Server, NEW b \in 1 .. MaxTerm, NEW u, GoroutineOf(t, b, u)
      PROVE  GoroutineOf(t, b, u)'
  <2>1. b \in Int /\ currentTerm[t] \in Nat
    BY <1>3
  <2>2. CASE t = s
    BY <1>1, <1>2, <1>5, <2>1, <2>2 DEF GoroutineOf
  <2>3. CASE t # s
    BY <1>1, <1>2, <1>5, <2>3 DEF GoroutineOf
  <2> QED BY <2>2, <2>3
<1>6. RequestsKnown'
  <2>1. ASSUME NEW m \in rpcs, m.type = "RequestVote"
        PROVE  m.src \in Server /\ m.born \in 1 .. MaxTerm
    BY <1>0, <2>1, MessageFields DEF TypeOK
  <2> QED BY <1>1, <1>5, <2>1 DEF ElectionInv, RequestsKnown
<1>7. RepliesKnown'
  <2>1. ASSUME NEW m \in rpcs, m.type = "VoteReply"
        PROVE  m.dst \in Server /\ m.born \in 1 .. MaxTerm
    BY <1>0, <2>1, MessageFields DEF TypeOK
  <2> QED BY <1>1, <1>5, <2>1 DEF ElectionInv, RepliesKnown
<1>8. SpawnedFresh'
  <2>1. ASSUME NEW t \in Server, NEW b \in 1 .. MaxTerm
        PROVE  /\ b \in spawned'[t] => b <= currentTerm'[t]
               /\ b \in spawned'[t] \/ b > currentTerm'[t] => votes'[t][b].voters = {}
    <3>1. /\ b \in spawned[t] => b <= currentTerm[t]
          /\ b \in spawned[t] \/ b > currentTerm[t] => votes[t][b].voters = {}
      BY DEF ElectionInv, SpawnedFresh
    <3>2. b \in Int /\ currentTerm[t] \in Nat
      BY <1>3
    <3>3. CASE t = s
      BY <1>1, <1>2, <3>1, <3>2, <3>3
    <3>4. CASE t # s
      BY <1>1, <1>2, <3>1, <3>4
    <3> QED BY <3>3, <3>4
  <2> QED BY <2>1 DEF SpawnedFresh
<1>9. ClaimsVoted' /\ OneClaim'
  <2>1. \A c, v \in Server : \A t \in Nat : Claims(c, v, t)' => Claims(c, v, t)
    BY <1>1 DEF Claims
  <2> QED BY <2>1, ClaimsKept
<1>10. LeaderHasMajority'
  BY <1>1, <1>2 DEF ElectionInv, LeaderHasMajority, Candidate, Leader
<1> QED BY <1>4, <1>6, <1>7, <1>8, <1>9, <1>10 DEF ElectionInv

\* startElection preserves ElectionInv.
LEMMA startElectionElection ==
    ASSUME IndexInv, IndexInv', Step, ElectionInv,
           NEW s \in Server, NEW b \in spawned[s], startElection(s, b)
    PROVE  ElectionInv'
<1>0. TypeOK /\ TypeOK'
  BY DEF IndexInv
<1>1. UNCHANGED <<state, currentTerm, votedFor, epoch>>
  BY DEF startElection, termVars, boundVars
<1>2. b \in 1 .. MaxTerm /\ b <= currentTerm[s] /\ votes[s][b].voters = {}
  BY <1>0 DEF TypeOK, ElectionTypeOK, ElectionInv, SpawnedFresh
<1>3. /\ votes'[s][b].term = currentTerm[s] /\ votes'[s][b].voters = {s}
      /\ \A t \in Server : \A e \in 1 .. MaxTerm : t # s \/ e # b => votes'[t][e] = votes[t][e]
  <2>1. votes' = [votes EXCEPT ![s][b] = [term |-> currentTerm[s], voters |-> {s}]]
    BY DEF startElection
  <2>2. votes \in [Server -> [1 .. MaxTerm -> [term : Nat, voters : SUBSET Server]]]
    BY <1>0 DEF TypeOK, ElectionTypeOK
  <2>3. votes'[s][b] = [term |-> currentTerm[s], voters |-> {s}]
    BY <1>2, <2>1, <2>2
  <2> QED BY <1>2, <2>1, <2>2, <2>3
<1>4. spawned'[s] = spawned[s] \ {b} /\ \A t \in Server : t # s => spawned'[t] = spawned[t]
  BY <1>0 DEF startElection, TypeOK, ElectionTypeOK
<1>5. \A m \in rpcs' : m \in rpcs \/ ( /\ m.type = "RequestVote" /\ m.src = s /\ m.born = b
                                       /\ m.epoch = epoch[s] /\ m.term = currentTerm[s])
  BY DEF startElection
<1>6. VotesForItself'
  BY <1>1 DEF ElectionInv, VotesForItself
<1>7. ASSUME NEW t \in Server, NEW e \in 1 .. MaxTerm, NEW u, GoroutineOf(t, e, u)
      PROVE  GoroutineOf(t, e, u)'
  BY <1>1, <1>3, <1>4, <1>7 DEF GoroutineOf
<1>8. GoroutineOf(s, b, currentTerm[s])' /\ epoch'[s] \in Nat
  BY <1>0, <1>1, <1>2, <1>3, <1>4, NodeTypes DEF GoroutineOf
<1>9. RequestsKnown'
  <2>1. ASSUME NEW m \in rpcs', m.type = "RequestVote"
        PROVE  /\ m.epoch <= epoch'[m.src]
               /\ m.epoch = epoch'[m.src] => GoroutineOf(m.src, m.born, m.term)'
    <3>1. CASE m \in rpcs
      <4>1. m.src \in Server /\ m.born \in 1 .. MaxTerm
        BY <1>0, <2>1, <3>1, MessageFields DEF TypeOK
      <4> QED BY <1>1, <1>7, <2>1, <3>1, <4>1 DEF ElectionInv, RequestsKnown
    <3>2. CASE m \notin rpcs
      <4>1. m.src = s /\ m.born = b /\ m.epoch = epoch[s] /\ m.term = currentTerm[s]
        BY <1>5, <3>2
      <4>2. m.term = currentTerm'[s]
        BY <1>1, <4>1
      <4> QED BY <1>1, <1>8, <4>1, <4>2 DEF GoroutineOf
    <3> QED BY <3>1, <3>2
  <2> QED BY <2>1 DEF RequestsKnown
<1>10. RepliesKnown'
  <2>1. ASSUME NEW m \in rpcs', m.type = "VoteReply"
        PROVE  GoroutineOf(m.dst, m.born, m.reqTerm)'
    <3>1. m \in rpcs
      BY <1>5, <2>1
    <3>2. m.dst \in Server /\ m.born \in 1 .. MaxTerm
      BY <1>0, <2>1, <3>1, MessageFields DEF TypeOK
    <3> QED BY <1>7, <2>1, <3>1, <3>2 DEF ElectionInv, RepliesKnown
  <2> QED BY <2>1 DEF RepliesKnown
<1>11. SpawnedFresh'
  <2>1. ASSUME NEW t \in Server, NEW e \in 1 .. MaxTerm
        PROVE  /\ e \in spawned'[t] => e <= currentTerm'[t]
               /\ e \in spawned'[t] \/ e > currentTerm'[t] => votes'[t][e].voters = {}
    <3>1. /\ e \in spawned[t] => e <= currentTerm[t]
          /\ e \in spawned[t] \/ e > currentTerm[t] => votes[t][e].voters = {}
      BY DEF ElectionInv, SpawnedFresh
    <3>2. currentTerm[s] \in Nat /\ b \in Int
      BY <1>0, <1>2, NodeTypes
    <3>3. CASE t = s /\ e = b
      BY <1>1, <1>2, <1>4, <3>2, <3>3
    <3>4. CASE ~(t = s /\ e = b)
      BY <1>1, <1>3, <1>4, <3>1, <3>4
    <3> QED BY <3>3, <3>4
  <2> QED BY <2>1 DEF SpawnedFresh
<1>12. ClaimsVoted' /\ OneClaim'
  <2>1. ASSUME NEW c \in Server, NEW v \in Server, NEW t \in Nat, Claims(c, v, t)'
        PROVE  Claims(c, v, t)
    <3>1. CASE \E m \in rpcs' : /\ m.type = "VoteReply" /\ m.granted
                                /\ m.src = v /\ m.dst = c /\ m.reqTerm = t
      BY <1>5, <2>1, <3>1 DEF Claims
    <3>2. CASE \E e \in 1 .. MaxTerm : votes'[c][e].term = t /\ v \in votes'[c][e].voters
      <4>1. PICK e \in 1 .. MaxTerm : votes'[c][e].term = t /\ v \in votes'[c][e].voters
        BY <3>2
      <4>2. v # c
        BY <2>1 DEF Claims
      <4>3. c # s \/ e # b
        BY <1>3, <4>1, <4>2
      <4> QED BY <1>3, <4>1, <4>2, <4>3 DEF Claims
    <3> QED BY <2>1, <3>1, <3>2 DEF Claims
  <2> QED BY <2>1, ClaimsKept
<1>13. LeaderHasMajority'
  <2>1. ASSUME NEW t \in Server, state'[t] = Leader
        PROVE  \E e \in 1 .. MaxTerm : /\ votes'[t][e].term = currentTerm'[t]
                                       /\ Majority(votes'[t][e].voters)
    <3>1. PICK e \in 1 .. MaxTerm : votes[t][e].term = currentTerm[t] /\ Majority(votes[t][e].voters)
      BY <1>1, <2>1 DEF ElectionInv, LeaderHasMajority
    <3>2. t # s \/ e # b
      BY <1>2, <3>1, NoMajorityEmpty
    <3> QED BY <1>1, <1>3, <3>1, <3>2
  <2> QED BY <2>1 DEF LeaderHasMajority, Majority
<1> QED BY <1>6, <1>9, <1>10, <1>11, <1>12, <1>13 DEF ElectionInv

\* RequestVote preserves ElectionInv.
LEMMA RequestVoteElection ==
    ASSUME IndexInv, IndexInv', Step, ElectionInv, NEW m \in rpcs, RequestVote(m)
    PROVE  ElectionInv'
<1>0. TypeOK /\ TypeOK'
  BY DEF IndexInv
<1>1. UNCHANGED <<votes, spawned, epoch>>
  BY DEF RequestVote, electionVars, boundVars
<1> DEFINE s     == m.dst
           newer == m.term > currentTerm[s]
           voted == IF newer THEN Nil ELSE votedFor[s]
           grant == VoteGranted(s, m, voted)
           reply == [type |-> "VoteReply", src |-> s, dst |-> m.src,
                     born |-> m.born, reqTerm |-> m.term,
                     term |-> currentTerm'[s], granted |-> grant]
<1>2. /\ m.type = "RequestVote"
      /\ state' = [state EXCEPT ![s] = IF newer THEN Follower ELSE @]
      /\ currentTerm' = [currentTerm EXCEPT ![s] = IF newer THEN m.term ELSE @]
      /\ votedFor' = [votedFor EXCEPT ![s] = IF grant THEN m.src ELSE voted]
      /\ Reply(m, reply)
  BY DEF RequestVote
<1>3. /\ s \in Server /\ m.src \in Server /\ m.term \in Nat /\ m.born \in 1 .. MaxTerm
  BY <1>0, <1>2, MessageFields DEF TypeOK
<1>4. grant => m.term >= currentTerm[s] /\ voted \in {Nil, m.src}
  BY DEF VoteGranted
<1> HIDE DEF grant, s
<1>5. /\ state'[s] = (IF newer THEN Follower ELSE state[s])
      /\ currentTerm'[s] = (IF newer THEN m.term ELSE currentTerm[s])
      /\ votedFor'[s] = (IF grant THEN m.src ELSE voted)
      /\ \A t \in Server : t # s => /\ state'[t] = state[t]
                                    /\ currentTerm'[t] = currentTerm[t]
                                    /\ votedFor'[t] = votedFor[t]
  BY <1>0, <1>2, <1>3 DEF TypeOK, TermTypeOK
<1>6. \A t \in Server : /\ currentTerm[t] \in Nat /\ currentTerm'[t] \in Nat
                        /\ currentTerm[t] <= currentTerm'[t]
  BY <1>0, NodeTypes DEF Step, NodeStep, TypeOK, TermTypeOK
<1>7. ASSUME NEW r \in rpcs', r \notin rpcs
      PROVE  /\ m.epoch = epoch[m.src]
             /\ r.type = "VoteReply" /\ r.src = s /\ r.dst = m.src /\ r.born = m.born
             /\ r.reqTerm = m.term /\ r.granted = grant
  <2>1. r = reply /\ m.epoch = epoch[m.src]
    BY <1>2, <1>7 DEF Reply
  <2> QED BY <2>1
<1>8. \A t \in Server : state'[t] # Follower =>
          state'[t] = state[t] /\ currentTerm'[t] = currentTerm[t]
  BY <1>3, <1>5
<1>9. VotesForItself'
  <2>1. ASSUME NEW t \in Server, state'[t] # Follower PROVE votedFor'[t] = t
    <3>1. votedFor[t] = t /\ t # Nil
      BY <1>8, <2>1, ServerAssumption DEF ElectionInv, VotesForItself
    <3> QED BY <1>8, <2>1, <3>1 DEF Step, NodeStep
  <2> QED BY <2>1 DEF VotesForItself
<1>10. ASSUME NEW t \in Server, NEW b \in 1 .. MaxTerm, NEW u, GoroutineOf(t, b, u)
       PROVE  GoroutineOf(t, b, u)'
  BY <1>1, <1>6, <1>10 DEF GoroutineOf
<1>11. RequestsKnown'
  <2>1. ASSUME NEW r \in rpcs', r.type = "RequestVote"
        PROVE  /\ r.epoch <= epoch'[r.src]
               /\ r.epoch = epoch'[r.src] => GoroutineOf(r.src, r.born, r.term)'
    <3>1. r \in rpcs
      BY <1>7, <2>1
    <3>2. r.src \in Server /\ r.born \in 1 .. MaxTerm
      BY <1>0, <2>1, <3>1, MessageFields DEF TypeOK
    <3> QED BY <1>1, <1>10, <2>1, <3>1, <3>2 DEF ElectionInv, RequestsKnown
  <2> QED BY <2>1 DEF RequestsKnown
<1>12. RepliesKnown'
  <2>1. ASSUME NEW r \in rpcs', r.type = "VoteReply"
        PROVE  GoroutineOf(r.dst, r.born, r.reqTerm)'
    <3>1. CASE r \in rpcs
      <4>1. r.dst \in Server /\ r.born \in 1 .. MaxTerm
        BY <1>0, <2>1, <3>1, MessageFields DEF TypeOK
      <4> QED BY <1>10, <2>1, <3>1, <4>1 DEF ElectionInv, RepliesKnown
    <3>2. CASE r \notin rpcs
      <4>1. GoroutineOf(m.src, m.born, m.term)
        BY <1>2, <1>7, <3>2 DEF ElectionInv, RequestsKnown
      <4>2. GoroutineOf(m.src, m.born, m.term)'
        BY <1>3, <1>10, <4>1
      <4>3. r.dst = m.src /\ r.born = m.born /\ r.reqTerm = m.term
        BY <1>7, <3>2
      <4> QED BY <4>2, <4>3
    <3> QED BY <3>1, <3>2
  <2> QED BY <2>1 DEF RepliesKnown
<1>13. SpawnedFresh'
  <2>1. \A b \in 1 .. MaxTerm : b \in Int
    OBVIOUS
  <2> QED BY <1>1, <1>6, <2>1 DEF ElectionInv, SpawnedFresh
<1>14. ASSUME NEW c \in Server, NEW v \in Server, NEW t \in Nat, Claims(c, v, t)'
       PROVE  Claims(c, v, t) \/ (grant /\ c = m.src /\ v = s /\ t = m.term)
  <2>1. CASE \E r \in rpcs' : /\ r.type = "VoteReply" /\ r.granted
                              /\ r.src = v /\ r.dst = c /\ r.reqTerm = t
    <3>1. PICK r \in rpcs' : /\ r.type = "VoteReply" /\ r.granted
                             /\ r.src = v /\ r.dst = c /\ r.reqTerm = t
      BY <2>1
    <3>2. CASE r \in rpcs
      BY <1>14, <3>1, <3>2 DEF Claims
    <3>3. CASE r \notin rpcs
      BY <1>7, <3>1, <3>3
    <3> QED BY <3>2, <3>3
  <2>2. CASE \E b \in 1 .. MaxTerm : votes'[c][b].term = t /\ v \in votes'[c][b].voters
    BY <1>1, <1>14, <2>2 DEF Claims
  <2> QED BY <1>14, <2>1, <2>2 DEF Claims
<1>15. ASSUME grant PROVE Voted(s, m.term, m.src)'
  <2>1. currentTerm'[s] = m.term /\ votedFor'[s] = m.src
    BY <1>3, <1>4, <1>5, <1>6, <1>15
  <2> QED BY <2>1 DEF Voted
<1>16. ClaimsVoted'
  <2> SUFFICES ASSUME NEW c \in Server, NEW v \in Server, NEW t \in Nat, Claims(c, v, t)'
               PROVE  Voted(v, t, c)'
    BY DEF ClaimsVoted
  <2>1. CASE Claims(c, v, t)
    BY <2>1, VotedKept DEF ElectionInv, ClaimsVoted
  <2>2. CASE grant /\ c = m.src /\ v = s /\ t = m.term
    BY <1>15, <2>2 DEF s
  <2> QED BY <1>14, <2>1, <2>2
<1>17. ASSUME grant, NEW c \in Server, Claims(c, s, m.term) PROVE c = m.src
  <2>1. Voted(s, m.term, c) /\ c # Nil
    BY <1>3, <1>17, ServerAssumption DEF ElectionInv, ClaimsVoted
  <2>2. m.term >= currentTerm[s] /\ voted \in {Nil, m.src}
    BY <1>4, <1>17
  <2> QED BY <1>3, <1>6, <2>1, <2>2 DEF Voted
<1>18. OneClaim'
  <2> SUFFICES ASSUME NEW c \in Server, NEW e \in Server, NEW v \in Server, NEW t \in Nat,
                      Claims(c, v, t)', Claims(e, v, t)'
               PROVE  c = e
    BY DEF OneClaim
  <2>1. Claims(c, v, t) \/ (grant /\ c = m.src /\ v = s /\ t = m.term)
    BY <1>14
  <2>2. Claims(e, v, t) \/ (grant /\ e = m.src /\ v = s /\ t = m.term)
    BY <1>14
  <2>3. CASE Claims(c, v, t) /\ Claims(e, v, t)
    BY <2>3 DEF ElectionInv, OneClaim
  <2>4. CASE Claims(c, v, t) /\ grant /\ e = m.src /\ v = s /\ t = m.term
    BY <1>17, <2>4
  <2>5. CASE Claims(e, v, t) /\ grant /\ c = m.src /\ v = s /\ t = m.term
    BY <1>17, <2>5
  <2> QED BY <2>1, <2>2, <2>3, <2>4, <2>5
<1>19. LeaderHasMajority'
  BY <1>1, <1>8 DEF ElectionInv, LeaderHasMajority, Follower, Leader
<1> QED BY <1>9, <1>11, <1>12, <1>13, <1>16, <1>18, <1>19 DEF ElectionInv

\* VoteReply preserves ElectionInv.
LEMMA VoteReplyElection ==
    ASSUME IndexInv, IndexInv', Step, ElectionInv, NEW m \in rpcs, VoteReply(m)
    PROVE  ElectionInv'
<1>0. TypeOK /\ TypeOK'
  BY DEF IndexInv
<1>1. UNCHANGED <<currentTerm, votedFor, spawned, epoch>>
  BY DEF VoteReply, boundVars
<1> DEFINE s     == m.dst
           count == votes[s][m.born].voters \cup (IF m.granted THEN {m.src} ELSE {})
<1>2. /\ m.type = "VoteReply" /\ state[s] = Candidate /\ currentTerm[s] = m.reqTerm
      /\ votes' = [votes EXCEPT ![s][m.born].voters = count]
      /\ \/ Majority(count) /\ state' = [state EXCEPT ![s] = Leader]
         \/ UNCHANGED state
      /\ rpcs' \subseteq rpcs
  BY DEF VoteReply, StillIn, becomeLeader, Finish, WinsElection
<1>3. s \in Server /\ m.src \in Server /\ m.born \in 1 .. MaxTerm
  BY <1>0, <1>2, MessageFields DEF TypeOK
<1>4. GoroutineOf(s, m.born, m.reqTerm)
  BY <1>2 DEF ElectionInv, RepliesKnown
<1> HIDE DEF s, count
<1>5. /\ votes'[s][m.born].term = votes[s][m.born].term /\ votes'[s][m.born].voters = count
      /\ \A t \in Server : \A b \in 1 .. MaxTerm :
            t # s \/ b # m.born => votes'[t][b] = votes[t][b]
  <2>1. votes \in [Server -> [1 .. MaxTerm -> [term : Nat, voters : SUBSET Server]]]
    BY <1>0 DEF TypeOK, ElectionTypeOK
  <2>2. votes[s][m.born] \in [term : Nat, voters : SUBSET Server]
    <3>1. votes[s] \in [1 .. MaxTerm -> [term : Nat, voters : SUBSET Server]]
      BY <1>3, <2>1
    <3> QED BY <1>3, <3>1
  <2>3. votes'[s][m.born] = [votes[s][m.born] EXCEPT !.voters = count]
    BY <1>2, <1>3, <2>1
  <2>4. /\ votes'[s][m.born].term = votes[s][m.born].term
        /\ votes'[s][m.born].voters = count
    BY <2>2, <2>3
  <2>5. \A t \in Server : \A b \in 1 .. MaxTerm :
            t # s \/ b # m.born => votes'[t][b] = votes[t][b]
    BY <1>2, <1>3, <2>1
  <2> QED BY <2>4, <2>5
<1>6. /\ \A t \in Server : t # s => state'[t] = state[t]
      /\ state'[s] \in {Candidate, Leader}
      /\ state'[s] = Leader => Majority(count)
  BY <1>0, <1>2, <1>3 DEF TypeOK, TermTypeOK, Candidate, Leader
<1>7. VotesForItself'
  <2>1. votedFor[s] = s
    BY <1>2, <1>3 DEF ElectionInv, VotesForItself, Follower, Candidate
  <2> QED BY <1>1, <1>6, <2>1 DEF ElectionInv, VotesForItself
<1>8. ASSUME NEW t \in Server, NEW b \in 1 .. MaxTerm, NEW u, GoroutineOf(t, b, u)
      PROVE  GoroutineOf(t, b, u)'
  BY <1>1, <1>5, <1>8 DEF GoroutineOf
<1>9. RequestsKnown'
  <2>1. ASSUME NEW r \in rpcs, r.type = "RequestVote"
        PROVE  r.src \in Server /\ r.born \in 1 .. MaxTerm
    BY <1>0, <2>1, MessageFields DEF TypeOK
  <2> QED BY <1>1, <1>2, <1>8, <2>1 DEF ElectionInv, RequestsKnown
<1>10. RepliesKnown'
  <2>1. ASSUME NEW r \in rpcs, r.type = "VoteReply"
        PROVE  r.dst \in Server /\ r.born \in 1 .. MaxTerm
    BY <1>0, <2>1, MessageFields DEF TypeOK
  <2> QED BY <1>2, <1>8, <2>1 DEF ElectionInv, RepliesKnown
<1>11. SpawnedFresh'
  <2>1. ASSUME NEW t \in Server, NEW b \in 1 .. MaxTerm
        PROVE  /\ b \in spawned'[t] => b <= currentTerm'[t]
               /\ b \in spawned'[t] \/ b > currentTerm'[t] => votes'[t][b].voters = {}
    <3>1. /\ b \in spawned[t] => b <= currentTerm[t]
          /\ b \in spawned[t] \/ b > currentTerm[t] => votes[t][b].voters = {}
      BY DEF ElectionInv, SpawnedFresh
    <3>2. currentTerm[t] \in Nat /\ b \in Int
      BY <1>0, NodeTypes
    <3>3. CASE t = s /\ b = m.born
      BY <1>1, <1>4, <3>1, <3>2, <3>3 DEF GoroutineOf
    <3>4. CASE ~(t = s /\ b = m.born)
      BY <1>1, <1>5, <3>1, <3>4
    <3> QED BY <3>3, <3>4
  <2> QED BY <2>1 DEF SpawnedFresh
<1>12. ClaimsVoted' /\ OneClaim'
  <2>1. ASSUME NEW c \in Server, NEW v \in Server, NEW t \in Nat, Claims(c, v, t)'
        PROVE  Claims(c, v, t)
    <3>1. CASE \E r \in rpcs' : /\ r.type = "VoteReply" /\ r.granted
                                /\ r.src = v /\ r.dst = c /\ r.reqTerm = t
      BY <1>2, <2>1, <3>1 DEF Claims
    <3>2. CASE \E b \in 1 .. MaxTerm : votes'[c][b].term = t /\ v \in votes'[c][b].voters
      <4>1. PICK b \in 1 .. MaxTerm : votes'[c][b].term = t /\ v \in votes'[c][b].voters
        BY <3>2
      <4>2. v # c
        BY <2>1 DEF Claims
      <4>3. CASE c = s /\ b = m.born
        <5>1. votes[s][m.born].term = t /\ t = m.reqTerm
          BY <1>4, <1>5, <4>1, <4>3 DEF GoroutineOf
        <5>2. v \in votes[s][m.born].voters \/ (m.granted /\ v = m.src)
          BY <1>5, <4>1, <4>3 DEF count
        <5>3. CASE v \in votes[s][m.born].voters
          BY <1>3, <4>2, <4>3, <5>1, <5>3 DEF Claims
        <5>4. CASE m.granted /\ v = m.src
          <6>1. m.dst = c
            BY <4>3 DEF s
          <6> QED BY <1>2, <4>2, <5>1, <5>4, <6>1 DEF Claims
        <5> QED BY <5>2, <5>3, <5>4
      <4>4. CASE ~(c = s /\ b = m.born)
        BY <1>5, <4>1, <4>2, <4>4 DEF Claims
      <4> QED BY <4>3, <4>4
    <3> QED BY <2>1, <3>1, <3>2 DEF Claims
  <2> QED BY <2>1, ClaimsKept
<1>13. LeaderHasMajority'
  <2>1. ASSUME NEW t \in Server, state'[t] = Leader
        PROVE  \E b \in 1 .. MaxTerm : /\ votes'[t][b].term = currentTerm'[t]
                                       /\ Majority(votes'[t][b].voters)
    <3>1. CASE t = s
      <4>1. /\ votes'[s][m.born].term = currentTerm'[s]
            /\ Majority(votes'[s][m.born].voters)
        BY <1>1, <1>2, <1>4, <1>5, <1>6, <2>1, <3>1 DEF GoroutineOf
      <4> QED BY <1>3, <3>1, <4>1
    <3>2. CASE t # s
      <4>1. PICK b \in 1 .. MaxTerm :
                votes[t][b].term = currentTerm[t] /\ Majority(votes[t][b].voters)
        BY <1>6, <2>1, <3>2 DEF ElectionInv, LeaderHasMajority
      <4> QED BY <1>1, <1>5, <3>2, <4>1
    <3> QED BY <3>1, <3>2
  <2> QED BY <2>1 DEF LeaderHasMajority, Majority
<1> QED BY <1>7, <1>9, <1>10, <1>11, <1>12, <1>13 DEF ElectionInv

\* A restarted node is a follower and its goroutines are gone.
LEMMA BootElection ==
    ASSUME IndexInv, IndexInv', Step, ElectionInv, NEW s \in Server, NEW d, NEW f,
           NEW failed, Boot(s, d, f, failed)
    PROVE  ElectionInv'
<1>0. TypeOK /\ TypeOK'
  BY DEF IndexInv
<1>1. /\ state' = [state EXCEPT ![s] = Follower]
      /\ currentTerm' = [currentTerm EXCEPT ![s] = d.currentTerm]
      /\ votedFor' = [votedFor EXCEPT ![s] = d.votedFor]
      /\ epoch' = [epoch EXCEPT ![s] = @ + 1]
      /\ spawned' = [spawned EXCEPT ![s] = {}]
      /\ votes' = [votes EXCEPT ![s] = NoVotes]
      /\ rpcs' = {m \in rpcs \ failed : ~(m.type \in ReplyTypes /\ m.dst = s)}
  BY DEF Boot
<1>2. /\ state'[s] = Follower /\ epoch'[s] = epoch[s] + 1 /\ spawned'[s] = {}
      /\ votes'[s] = NoVotes
      /\ \A t \in Server : t # s =>
            /\ state'[t] = state[t] /\ currentTerm'[t] = currentTerm[t]
            /\ votedFor'[t] = votedFor[t] /\ epoch'[t] = epoch[t]
            /\ spawned'[t] = spawned[t] /\ votes'[t] = votes[t]
  BY <1>0, <1>1 DEF TypeOK, TermTypeOK, ElectionTypeOK, BoundTypeOK
<1>3. \A b \in 1 .. MaxTerm : votes'[s][b].voters = {}
  BY <1>2 DEF NoVotes
<1>4. /\ rpcs' \subseteq rpcs
      /\ \A m \in rpcs' : m.type = "VoteReply" => m.dst # s
  BY <1>1 DEF ReplyTypes
<1>5. VotesForItself'
  BY <1>2 DEF ElectionInv, VotesForItself
<1>6. ASSUME NEW t \in Server, t # s, NEW b \in 1 .. MaxTerm, NEW u, GoroutineOf(t, b, u)
      PROVE  GoroutineOf(t, b, u)'
  BY <1>2, <1>6 DEF GoroutineOf
<1>7. RequestsKnown'
  <2>1. ASSUME NEW m \in rpcs', m.type = "RequestVote"
        PROVE  /\ m.epoch <= epoch'[m.src]
               /\ m.epoch = epoch'[m.src] => GoroutineOf(m.src, m.born, m.term)'
    <3>1. m \in rpcs /\ m.src \in Server /\ m.born \in 1 .. MaxTerm /\ m.epoch \in Nat
      BY <1>0, <1>4, <2>1, MessageFields DEF TypeOK
    <3>2. /\ m.epoch <= epoch[m.src] /\ epoch[m.src] \in Nat
          /\ m.epoch = epoch[m.src] => GoroutineOf(m.src, m.born, m.term)
      BY <1>0, <2>1, <3>1, NodeTypes DEF ElectionInv, RequestsKnown
    <3>3. CASE m.src = s
      BY <1>2, <3>1, <3>2, <3>3
    <3>4. CASE m.src # s
      BY <1>2, <1>6, <3>1, <3>2, <3>4
    <3> QED BY <3>3, <3>4
  <2> QED BY <2>1 DEF RequestsKnown
<1>8. RepliesKnown'
  <2>1. ASSUME NEW m \in rpcs', m.type = "VoteReply"
        PROVE  GoroutineOf(m.dst, m.born, m.reqTerm)'
    <3>1. m \in rpcs /\ m.dst \in Server /\ m.born \in 1 .. MaxTerm /\ m.dst # s
      BY <1>0, <1>4, <2>1, MessageFields DEF TypeOK
    <3> QED BY <1>6, <2>1, <3>1 DEF ElectionInv, RepliesKnown
  <2> QED BY <2>1 DEF RepliesKnown
<1>9. SpawnedFresh'
  BY <1>2, <1>3 DEF ElectionInv, SpawnedFresh
<1>10. ClaimsVoted' /\ OneClaim'
  <2>1. ASSUME NEW c \in Server, NEW v \in Server, NEW t \in Nat, Claims(c, v, t)'
        PROVE  Claims(c, v, t)
    <3>1. CASE \E r \in rpcs' : /\ r.type = "VoteReply" /\ r.granted
                                /\ r.src = v /\ r.dst = c /\ r.reqTerm = t
      BY <1>4, <2>1, <3>1 DEF Claims
    <3>2. CASE \E b \in 1 .. MaxTerm : votes'[c][b].term = t /\ v \in votes'[c][b].voters
      BY <1>2, <1>3, <2>1, <3>2 DEF Claims
    <3> QED BY <2>1, <3>1, <3>2 DEF Claims
  <2> QED BY <2>1, ClaimsKept
<1>11. LeaderHasMajority'
  BY <1>2 DEF ElectionInv, LeaderHasMajority, Follower, Leader
<1> QED BY <1>5, <1>7, <1>8, <1>9, <1>10, <1>11 DEF ElectionInv

\* A new cluster satisfies the invariant.
LEMMA InitElection == Init => ElectionInv
<1> SUFFICES ASSUME Init PROVE ElectionInv
  OBVIOUS
<1>1. /\ rpcs = {} /\ \A s \in Server : /\ state[s] = Follower /\ spawned[s] = {}
                                        /\ votes[s] = NoVotes
  BY DEF Init
<1>2. \A s \in Server : \A b \in 1 .. MaxTerm : votes[s][b].voters = {}
  <2>1. \A b \in 1 .. MaxTerm : NoVotes[b] = [term |-> 0, voters |-> {}]
    BY DEF NoVotes
  <2> QED BY <1>1, <2>1
<1>3. VotesForItself /\ RequestsKnown /\ RepliesKnown /\ LeaderHasMajority
  BY <1>1 DEF VotesForItself, RequestsKnown, RepliesKnown, LeaderHasMajority, Follower, Leader
<1>4. SpawnedFresh
  BY <1>1, <1>2 DEF SpawnedFresh
<1>5. \A c, v \in Server : \A t \in Nat : ~Claims(c, v, t)
  BY <1>1, <1>2 DEF Claims
<1> QED BY <1>3, <1>4, <1>5 DEF ElectionInv, ClaimsVoted, OneClaim

\* Replication, application and failed calls do not touch elections.
LEMMA TermKeptElection ==
    ASSUME IndexInv, IndexInv', Step, ElectionInv,
           \/ \E m \in rpcs : \/ IgnoreReply(m) \/ FailRPC(m)
                              \/ AppendReply(m) \/ SnapshotReply(m)
           \/ \E s \in Server :
                 \/ \E c \in Command : Propose(s, c)
                 \/ Heartbeat(s)
                 \/ \E p \in Peers(s) : replicateToPeer(s, p) \/ sendInstallSnapshot(s, p)
                 \/ deliverPendingSnapshot(s) \/ applyPending(s)
                 \/ applyEntry(s) \/ adoptSnapshot(s)
    PROVE  ElectionInv'
<1> DEFINE Kept == /\ UNCHANGED <<state, currentTerm, votes, spawned, epoch>>
                   /\ \A r \in rpcs' : r.type \in {"RequestVote", "VoteReply"} => r \in rpcs
<1>1. ASSUME NEW m \in rpcs, IgnoreReply(m) PROVE Kept
  BY <1>1 DEF IgnoreReply, Finish, termVars, electionVars, boundVars
<1>2. ASSUME NEW m \in rpcs, FailRPC(m) PROVE Kept
  BY <1>2 DEF FailRPC, Finish, termVars, electionVars, boundVars
<1>3. ASSUME NEW m \in rpcs, AppendReply(m) PROVE Kept
  BY <1>3 DEF AppendReply, Finish, termVars, electionVars, boundVars
<1>4. ASSUME NEW m \in rpcs, SnapshotReply(m) PROVE Kept
  BY <1>4 DEF SnapshotReply, Finish, termVars, electionVars, boundVars
<1>5. ASSUME NEW s \in Server, NEW c \in Command, Propose(s, c) PROVE Kept
  BY <1>5 DEF Propose, termVars, electionVars, boundVars
<1>6. ASSUME NEW s \in Server, Heartbeat(s) PROVE Kept
  BY <1>6 DEF Heartbeat, termVars, electionVars, boundVars
<1>7. ASSUME NEW s \in Server, NEW p \in Peers(s), replicateToPeer(s, p) PROVE Kept
  BY <1>7 DEF replicateToPeer, termVars, electionVars, boundVars
<1>8. ASSUME NEW s \in Server, NEW p \in Peers(s), sendInstallSnapshot(s, p) PROVE Kept
  BY <1>8 DEF sendInstallSnapshot, termVars, electionVars, boundVars
<1>9. ASSUME NEW s \in Server, deliverPendingSnapshot(s) PROVE Kept
  BY <1>9 DEF deliverPendingSnapshot, termVars, electionVars, boundVars
<1>10. ASSUME NEW s \in Server, applyPending(s) PROVE Kept
  BY <1>10 DEF applyPending, termVars, electionVars, boundVars
<1>11. ASSUME NEW s \in Server, applyEntry(s) PROVE Kept
  BY <1>11 DEF applyEntry, termVars, electionVars, boundVars
<1>12. ASSUME NEW s \in Server, adoptSnapshot(s) PROVE Kept
  BY <1>12 DEF adoptSnapshot, termVars, electionVars, boundVars
<1> HIDE DEF Kept
<1>13. Kept
  BY <1>1, <1>2, <1>3, <1>4, <1>5, <1>6, <1>7, <1>8, <1>9, <1>10, <1>11, <1>12
<1> QED BY <1>13, QuietElection DEF Kept

\* A handler that meets a newer or equal term only makes followers.
LEMMA FollowElection ==
    ASSUME IndexInv, IndexInv', Step, ElectionInv, NEW m \in rpcs,
           StepDown(m) \/ AppendEntries(m) \/ InstallSnapshot(m)
    PROVE  ElectionInv'
<1>0. TypeOK
  BY DEF IndexInv
<1>1. /\ UNCHANGED <<votes, spawned, epoch>>
      /\ \A r \in rpcs' : r.type \in {"RequestVote", "VoteReply"} => r \in rpcs
  BY DEF StepDown, AppendEntries, InstallSnapshot, Finish, Reply, electionVars, boundVars
<1>2. becomeFollower(m.dst, m.term) \/ UNCHANGED <<state, currentTerm>>
  BY DEF StepDown, AppendEntries, InstallSnapshot, termVars
<1>3. \A s \in Server : state'[s] # Follower =>
          state'[s] = state[s] /\ currentTerm'[s] = currentTerm[s]
  <2>1. CASE becomeFollower(m.dst, m.term)
    <3>1. m.dst \in Server
      BY <1>0, MessageFields DEF TypeOK
    <3> QED BY <1>0, <2>1, <3>1 DEF becomeFollower, TypeOK, TermTypeOK
  <2>2. CASE UNCHANGED <<state, currentTerm>>
    BY <2>2
  <2> QED BY <1>2, <2>1, <2>2
<1> QED BY <1>1, <1>3, QuietElection

\* Every step preserves the election invariant.
LEMMA NextElection ==
    ASSUME IndexInv, IndexInv', Step, ElectionInv, [Next]_vars
    PROVE  ElectionInv'
<1>1. CASE UNCHANGED vars
  <2>1. UNCHANGED <<state, currentTerm, votes, spawned, epoch, rpcs>>
    BY <1>1 DEF vars, termVars, electionVars, boundVars
  <2> QED BY <2>1, QuietElection
<1>2. ASSUME NEW s \in Server,
             \/ ElectionTimeout(s)
             \/ \E b \in spawned[s] : startElection(s, b)
             \/ Restart(s) \/ CrashInSnapshot(s)
      PROVE  ElectionInv'
  <2>1. CASE Restart(s) \/ CrashInSnapshot(s)
    BY <2>1, BootElection DEF Restart, CrashInSnapshot
  <2> QED BY <1>2, <2>1, ElectionTimeoutElection, startElectionElection
<1>3. ASSUME NEW m \in rpcs, RequestVote(m) \/ VoteReply(m) \/ CrashInInstall(m)
      PROVE  ElectionInv'
  <2>1. CASE CrashInInstall(m)
    <3>1. m.dst \in Server
      BY MessageFields DEF IndexInv, TypeOK
    <3> QED BY <2>1, <3>1, BootElection DEF CrashInInstall
  <2> QED BY <1>3, <2>1, RequestVoteElection, VoteReplyElection
<1> QED BY <1>1, <1>2, <1>3, TermKeptElection, FollowElection DEF Next

\* Two majorities share a voter, whose vote of the term only one of the two
\* leaders can claim.
LEMMA OneLeader == ASSUME IndexInv, ElectionInv PROVE ElectionSafety
<1> SUFFICES ASSUME NEW s \in Server, NEW u \in Server,
                    state[s] = Leader, state[u] = Leader,
                    currentTerm[s] = currentTerm[u], s # u
             PROVE  FALSE
  BY DEF ElectionSafety
<1> DEFINE t == currentTerm[s]
<1>0. TypeOK
  BY DEF IndexInv
<1>1. PICK b \in 1 .. MaxTerm : votes[s][b].term = t /\ Majority(votes[s][b].voters)
  BY DEF ElectionInv, LeaderHasMajority
<1>2. PICK e \in 1 .. MaxTerm : votes[u][e].term = t /\ Majority(votes[u][e].voters)
  BY DEF ElectionInv, LeaderHasMajority
<1> DEFINE P == votes[s][b].voters
           Q == votes[u][e].voters
<1>3. P \subseteq Server /\ Q \subseteq Server
  BY <1>0, NodeTypes
<1>4. P \cap Q # {}
  <2>1. Cardinality(Server) \in Nat /\ Cardinality(P) \in Nat /\ Cardinality(Q) \in Nat
    BY <1>3, ServerAssumption, FS_CardinalityType, FS_Subset
  <2>2. /\ Cardinality(P) >= (Cardinality(Server) \div 2) + 1
        /\ Cardinality(Q) >= (Cardinality(Server) \div 2) + 1
    BY <1>1, <1>2 DEF Majority
  <2> HIDE DEF P, Q
  <2>3. Cardinality(P) + Cardinality(Q) > Cardinality(Server)
    BY <2>1, <2>2
  <2> QED BY <1>3, <2>3, ServerAssumption, FS_MajoritiesIntersect
<1>5. PICK v \in Server : v \in P /\ v \in Q
  BY <1>3, <1>4
<1>6. t \in Nat
  BY <1>0, NodeTypes
<1>7. v # s => Claims(s, v, t)
  BY <1>1, <1>5 DEF Claims
<1>8. v # u => Claims(u, v, t)
  BY <1>2, <1>5 DEF Claims
<1>9. votedFor[s] = s /\ votedFor[u] = u
  BY DEF ElectionInv, VotesForItself, Follower, Leader
<1>10. CASE v # s /\ v # u
  BY <1>6, <1>7, <1>8, <1>10 DEF ElectionInv, OneClaim
<1>11. CASE v = s
  <2>1. Voted(s, t, u)
    BY <1>6, <1>8, <1>11 DEF ElectionInv, ClaimsVoted
  <2> QED BY <1>6, <1>9, <2>1 DEF Voted
<1>12. CASE v = u
  <2>1. Voted(u, t, s)
    BY <1>6, <1>7, <1>12 DEF ElectionInv, ClaimsVoted
  <2> QED BY <1>6, <1>9, <2>1 DEF Voted
<1> QED BY <1>10, <1>11, <1>12

\* Two nodes are never both Leader of one term, for every cluster size, every
\* number of overlapping startElection goroutines and every sequence of
\* crashes and restarts (election.go startElection, raft.go RequestVote).
THEOREM AtMostOneLeader == Spec => []ElectionSafety
<1>1. Init => IndexInv /\ ElectionInv
  BY InitIndexInv, InitElection
<1>2. (IndexInv /\ ElectionInv) /\ [Next]_vars => (IndexInv /\ ElectionInv)'
  BY NextIndexInv, NextElection
<1>3. IndexInv /\ ElectionInv => ElectionSafety
  BY OneLeader
<1> QED BY <1>1, <1>2, <1>3, PTL DEF Spec

(***************************************************************************)
(* The inductive invariant behind the log properties of Raft, and its part *)
(* about how logs match.                                                   *)
(*                                                                         *)
(* A compacted log is reasoned about as if it were whole: full[s] is the   *)
(* log of s with the compacted prefix filled in from the committed entries *)
(* (SnapshotTerm and CommitKnown say that this is what was there).         *)
(*                                                                         *)
(* The argument has three layers.  Logs, calls in flight and the committed *)
(* entries match each other (Matched), since a term has one leader and the *)
(* leader has all entries of its term (LeaderHasOwn, Closed).  A leader    *)
(* with a call in flight knows what the peer holds, since there is one     *)
(* call at a time (CallShape, AckTrue, NextAboveCommit).  And an entry     *)
(* that a majority has acknowledged, or could still acknowledge, is in     *)
(* every log and every call of a later term (LeaderSafe), which is all     *)
(* that commitment needs (CommitKnown, CallsKnown).                        *)
(***************************************************************************)

last == [s \in Server |-> LastLogIndex(s)]
full == [s \in Server |-> [i \in 1 .. LastLogIndex(s) |->
            IF i <= lastIncludedIndex[s] THEN committed[i]
            ELSE log[s][i - lastIncludedIndex[s]]]]

\* What the snapshot's last entry was.
SnapshotTerm ==
    \A s \in Server : lastIncludedTerm[s] =
        IF lastIncludedIndex[s] = 0 THEN 0 ELSE committed[lastIncludedIndex[s]].term

Appends  == {m \in rpcs : m.type = "AppendEntries"}
Installs == {m \in rpcs : m.type = "InstallSnapshot"}
Top(m)   == m.prevLogIndex + Len(m.entries)

(***************************************************************************)
(* Fragments: the logs, the committed entries, and what calls carry.  A    *)
(* fragment knows the entries after base and the term of the entry there.  *)
(***************************************************************************)
NodeFrag(s) == [base |-> 0, trm |-> 0, top |-> last[s], at |-> full[s]]
CommittedFrag == [base |-> 0, trm |-> 0, top |-> Len(committed), at |-> committed]
CallFrag(m) == [base |-> m.prevLogIndex, trm |-> m.prevLogTerm, top |-> Top(m),
                at |-> [i \in m.prevLogIndex + 1 .. Top(m) |-> m.entries[i - m.prevLogIndex]]]
Frags == {NodeFrag(s) : s \in Server} \cup {CommittedFrag} \cup {CallFrag(m) : m \in Appends}

\* Terms grow along a fragment.
FragOK(a) ==
    /\ a.base \in Nat /\ a.top \in Nat /\ a.base <= a.top
    /\ a.trm \in Nat /\ (a.base = 0 => a.trm = 0)
    /\ \A i \in a.base + 1 .. a.top : a.at[i] \in Entry /\ a.at[i].term > 0 /\ a.trm <= a.at[i].term
    /\ \A i, j \in a.base + 1 .. a.top : i <= j => a.at[i].term <= a.at[j].term

\* If a has, at i or before, an entry with the term of b's entry j, then the
\* two are cut from one log through j.
Match(a, b) ==
    \A i \in a.base + 1 .. a.top, j \in b.base + 1 .. b.top :
        j <= i /\ a.at[i].term = b.at[j].term =>
            /\ \A k \in b.base + 1 .. j : k > a.base => a.at[k] = b.at[k]
            /\ b.base > a.base => a.at[b.base].term = b.trm
            /\ a.base > b.base /\ a.base <= j => b.at[a.base].term = a.trm
            /\ a.base = b.base => a.trm = b.trm
            /\ j <= a.base => a.trm = b.at[j].term

AllMatch(F) == \A a \in F : FragOK(a) /\ \A b \in F : Match(a, b)
Matched == AllMatch(Frags)

\* Some fragment has an entry of term t at j.
EntryIn(j, t) == \E a \in Frags : j \in a.base + 1 .. a.top /\ a.at[j].term = t

\* No log is ahead of its node's term, no call ahead of its own.
TermsBounded ==
    /\ \A s \in Server : \A i \in 1 .. last[s] : full[s][i].term <= currentTerm[s]
    /\ \A m \in Appends : \A k \in DOMAIN m.entries : m.entries[k].term <= m.term

\* A leader has every entry of its term.
LeaderHasOwn ==
    \A s \in Server : state[s] = Leader =>
        \A j \in Nat : EntryIn(j, currentTerm[s]) =>
            j <= last[s] /\ full[s][j].term = currentTerm[s]

\* v will not be counted for d in term t.
Barred(v, t, d) ==
    /\ v # d /\ ~Claims(d, v, t)
    /\ \/ currentTerm[v] > t
       \/ currentTerm[v] = t /\ votedFor[v] \notin {Nil, d}

\* The election of term t is over: nobody can win it any more.
Over(t) ==
    /\ Majority({v \in Server : currentTerm[v] >= t})
    /\ \A d \in Server :
          currentTerm[d] < t \/ (currentTerm[d] = t /\ state[d] = Candidate) =>
              Majority({v \in Server : Barred(v, t, d)})

\* Entries and calls are of terms that have, or have had, a leader.
Closed ==
    /\ \A j, t \in Nat : EntryIn(j, t) => Over(t)
    /\ \A m \in Appends \cup Installs : Over(m.term)

\* The calls of a term come from its leader, and one at a time to each peer.
Origin ==
    \A s \in Server : state[s] = Leader =>
        \A m \in Appends \cup Installs : m.term = currentTerm[s] => m.src = s
OneCallPerTerm ==
    \A m, r \in Appends \cup Installs : m.term = r.term /\ m.dst = r.dst => m = r

(***************************************************************************)
(* Elections, as far as logs are concerned.                                *)
(***************************************************************************)
VotesBounded == \A s \in Server : \A b \in 1 .. MaxTerm : votes[s][b].term <= currentTerm[s]

\* While it is a candidate, a node's log is what its request said.
RequestCurrent ==
    \A m \in rpcs : m.type = "RequestVote" =>
        /\ m.term <= currentTerm[m.src]
        /\ state[m.src] = Candidate /\ currentTerm[m.src] = m.term =>
              m.lastLogIndex = last[m.src] /\ m.lastLogTerm = LastLogTerm(m.src)

(***************************************************************************)
(* One call at a time.                                                     *)
(***************************************************************************)
IsCall(m, s, p) ==
    \/ m.type \in {"AppendEntries", "InstallSnapshot"} /\ m.src = s /\ m.dst = p /\ m.epoch = epoch[s]
    \/ m.type \in {"AppendReply", "SnapshotReply"} /\ m.dst = s /\ m.src = p

OneCall ==
    \A s, p \in Server : \A m \in rpcs : IsCall(m, s, p) =>
        /\ s # p /\ repl[s][p] = "call"
        /\ \A r \in rpcs : IsCall(r, s, p) => r = m

\* A call of an earlier process of its sender: that one led no longer.
CallEpochs ==
    \A m \in Appends \cup Installs :
        /\ m.src # m.dst /\ m.epoch <= epoch[m.src]
        /\ m.epoch # epoch[m.src] /\ m.term = currentTerm[m.src] => state[m.src] = Follower

\* The call of a leader still in office is cut from its log at nextIndex and
\* reaches at least as far as the peer has acknowledged.
CallShape ==
    /\ \A m \in Appends : state[m.src] = Leader /\ currentTerm[m.src] = m.term =>
          /\ m.prevLogIndex = nextIndex[m.src][m.dst] - 1
          /\ matchIndex[m.src][m.dst] <= Top(m)
          /\ Top(m) <= last[m.src]
          /\ \A k \in m.prevLogIndex + 1 .. Top(m) :
                m.entries[k - m.prevLogIndex] = full[m.src][k]
          /\ m.prevLogIndex > 0 => m.prevLogTerm = full[m.src][m.prevLogIndex].term
    /\ \A m \in Installs : state[m.src] = Leader /\ currentTerm[m.src] = m.term =>
          m.lastIncludedIndex <= commitIndex[m.src]

(***************************************************************************)
(* Acknowledgements.                                                       *)
(***************************************************************************)
Agrees(t, f, n) == n <= last[t] /\ \A k \in 1 .. n : full[t][k] = f[k]

\* The reply m to leader s says that its sender holds s's log through n.
AckReply(m, s, n) ==
    /\ m.dst = s /\ m.type \in {"AppendReply", "SnapshotReply"} /\ m.reqTerm = currentTerm[s]
    /\ m.type = "AppendReply" => m.success /\ n <= m.newMatch
    /\ m.type = "SnapshotReply" => m.term <= m.reqTerm /\ n <= m.lastIncludedIndex

\* v has told leader s, or is about to, that it holds s's log through n.
Acked(v, s, n) ==
    v # s /\ (n <= matchIndex[s][v] \/ \E m \in rpcs : m.src = v /\ AckReply(m, s, n))

AckTrue ==
    \A s, v \in Server : \A n \in Nat \ {0} : state[s] = Leader /\ Acked(v, s, n) =>
        /\ n <= last[s]
        /\ currentTerm[s] <= currentTerm[v]
        /\ currentTerm[s] = currentTerm[v] => Agrees(v, full[s], n)

(***************************************************************************)
(* Entries that are, or may still be, acknowledged by a majority.  f is    *)
(* the log through n, whose entry n is of term T; A is who acknowledged.   *)
(***************************************************************************)
CallAgrees(m, f, n, T) ==
    /\ \A k \in m.prevLogIndex + 1 .. Top(m) : k <= n => m.entries[k - m.prevLogIndex] = f[k]
    /\ m.prevLogIndex \in 1 .. n => m.prevLogTerm = f[m.prevLogIndex].term
    /\ m.prevLogIndex > n => m.prevLogTerm >= T
    /\ m.term > T => Top(m) >= n

\* Every leader, log, call and commitment of a later term has it.
Locked(f, n, T) ==
    /\ \A t \in Server : state[t] = Leader /\ currentTerm[t] >= T => Agrees(t, f, n)
    /\ \A t \in Server : \A i \in 1 .. last[t] : full[t][i].term > T => Agrees(t, f, n)
    /\ \A m \in Appends : m.term >= T => CallAgrees(m, f, n, T)
    /\ \A m \in Installs : m.term >= T =>
          \A k \in 1 .. m.lastIncludedIndex : k <= n => committed[k] = f[k]
    /\ \A i \in 1 .. Len(committed) : committed[i].term > T =>
          n < i /\ \A k \in 1 .. n : committed[k] = f[k]

\* v holds it, passes it on with its vote, and will not be made to drop it.
Holds(v, f, n, T) ==
    /\ Agrees(v, f, n)
    /\ \A t \in Server : state[t] = Candidate /\ currentTerm[t] > T
                         /\ Claims(t, v, currentTerm[t]) => Agrees(t, f, n)
    /\ \A m \in Appends : m.dst = v /\ m.term = T => n <= Top(m)

Safe(f, n, T, A) ==
    /\ \A v \in A : currentTerm[v] >= T
    /\ Majority(A \cup {v \in Server : currentTerm[v] <= T}) =>
          Locked(f, n, T) /\ \A v \in A : Holds(v, f, n, T)

Acks(s, n) == {s} \cup {v \in Server : Acked(v, s, n)}

LeaderSafe ==
    \A s \in Server : state[s] = Leader =>
        \A n \in 1 .. last[s] : full[s][n].term = currentTerm[s] =>
            Safe(full[s], n, currentTerm[s], Acks(s, n))

\* The entries through j were committed when entry j was.
Anchor(j) == \E A \in SUBSET Server : Majority(A) /\ Safe(committed, j, committed[j].term, A)

\* The entries through c are committed, as was known in term T.
KnownBy(c, T) == c > 0 => \E j \in c .. Len(committed) : Anchor(j) /\ committed[j].term <= T

CommitKnown ==
    /\ Len(committed) > 0 => Anchor(Len(committed))
    /\ \A s \in Server :
          /\ lastApplied[s] <= commitIndex[s] /\ commitIndex[s] <= last[s]
          /\ \A k \in 1 .. commitIndex[s] : full[s][k] = committed[k]
          /\ KnownBy(commitIndex[s], currentTerm[s])

CallsKnown ==
    /\ \A m \in Appends : m.leaderCommit <= Top(m) /\ KnownBy(m.leaderCommit, m.term)
    /\ \A m \in Installs :
          /\ m.lastIncludedIndex > 0 => m.lastIncludedTerm = committed[m.lastIncludedIndex].term
          /\ KnownBy(m.lastIncludedIndex, m.term)

(***************************************************************************)
(* nextIndex never backs off below what the peer has committed.            *)
(***************************************************************************)
NextAboveCommit ==
    /\ \A m \in Appends :
          /\ currentTerm[m.dst] < m.term =>
                \A k \in DOMAIN m.entries : m.entries[k].term = m.term
          /\ currentTerm[m.dst] = m.term => commitIndex[m.dst] <= m.prevLogIndex
    /\ \A s, p \in Server : state[s] = Leader /\ s # p =>
          /\ currentTerm[p] < currentTerm[s] =>
                \A i \in nextIndex[s][p] .. last[s] : full[s][i].term = currentTerm[s]
          /\ currentTerm[p] = currentTerm[s] =>
                \/ commitIndex[p] < nextIndex[s][p]
                \/ \E m \in rpcs : m.src = p /\ AckReply(m, s, commitIndex[p])
    /\ \A m \in rpcs : m.type = "AppendReply" /\ state[m.dst] = Leader
                       /\ m.reqTerm = currentTerm[m.dst] /\ m.term <= m.reqTerm =>
          /\ m.success => m.newMatch + 1 >= nextIndex[m.dst][m.src]
          /\ currentTerm[m.src] >= m.reqTerm
          /\ ~m.success /\ currentTerm[m.src] = m.reqTerm =>
                commitIndex[m.src] + 1 < nextIndex[m.dst][m.src]

\* What the state machine is sent has been applied.
ApplyBounded ==
    \A s \in Server : \A k \in DOMAIN applyCh[s] :
        applyCh[s][k].kind = "entry" => applyCh[s][k].index <= lastApplied[s]
(***************************************************************************)
(* Fragments that match.                                                   *)
(***************************************************************************)

\* A fragment matches itself.
LEMMA MatchSelf == ASSUME NEW a, FragOK(a) PROVE Match(a, a)
BY DEF Match, FragOK

\* The numbers in a fragment.
LEMMA FragTypes ==
    ASSUME NEW a, FragOK(a)
    PROVE  /\ a.base \in Nat /\ a.top \in Nat /\ a.base <= a.top /\ a.trm \in Nat
           /\ \A i \in a.base + 1 .. a.top : i \in Nat /\ a.at[i].term \in Nat
BY DEF FragOK, Entry

\* What Match says about one pair of entries.
LEMMA MatchAt ==
    ASSUME NEW a, NEW b, Match(a, b),
           NEW i \in a.base + 1 .. a.top, NEW j \in b.base + 1 .. b.top,
           j <= i, a.at[i].term = b.at[j].term
    PROVE  /\ \A k \in b.base + 1 .. j : k > a.base => a.at[k] = b.at[k]
           /\ b.base > a.base => a.at[b.base].term = b.trm
           /\ a.base > b.base /\ a.base <= j => b.at[a.base].term = a.trm
           /\ a.base = b.base => a.trm = b.trm
           /\ j <= a.base => a.trm = b.at[j].term
BY DEF Match

\* c is cut from a.
Cut(c, a) ==
    /\ c.base \in Nat /\ c.top \in Nat /\ c.base <= c.top /\ c.top <= a.top
    /\ \A i \in c.base + 1 .. c.top : c.at[i] = a.at[i]
    /\ c.trm = IF c.base = 0 THEN 0 ELSE a.at[c.base].term

\* What is cut from a fragment matches whatever the fragment matches.
LEMMA CutMatch ==
    ASSUME NEW a, NEW b, NEW c, FragOK(a), FragOK(b), a.base = 0, a.trm = 0,
           Match(a, b), Match(b, a), Cut(c, a)
    PROVE  FragOK(c) /\ Match(c, b) /\ Match(b, c)
<1>1. FragOK(c)
  BY DEF FragOK, Cut, Entry
<1>2. Match(c, b)
  <2> SUFFICES ASSUME NEW i \in c.base + 1 .. c.top, NEW j \in b.base + 1 .. b.top,
                      j <= i, c.at[i].term = b.at[j].term
               PROVE  /\ \A k \in b.base + 1 .. j : k > c.base => c.at[k] = b.at[k]
                      /\ b.base > c.base => c.at[b.base].term = b.trm
                      /\ c.base > b.base /\ c.base <= j => b.at[c.base].term = c.trm
                      /\ c.base = b.base => c.trm = b.trm
                      /\ j <= c.base => c.trm = b.at[j].term
    BY DEF Match
  <2>1. i \in a.base + 1 .. a.top /\ a.at[i] = c.at[i] /\ i \in Nat /\ j \in Nat
    BY DEF Cut, FragOK
  <2>2. /\ \A k \in b.base + 1 .. j : k > a.base => a.at[k] = b.at[k]
        /\ b.base > a.base => a.at[b.base].term = b.trm
        /\ a.base = b.base => a.trm = b.trm
    BY <2>1, MatchAt
  <2>3. a.at[j] = b.at[j] /\ j \in 1 .. a.top /\ b.base \in Nat
    BY <2>1, <2>2 DEF FragOK
  <2>4. ASSUME j <= c.base PROVE c.trm = b.at[j].term
    <3>1. c.base \in 1 .. a.top /\ c.base <= i /\ c.trm = a.at[c.base].term
      BY <2>1, <2>3, <2>4, FragTypes DEF Cut
    <3>2. a.at[j].term <= a.at[c.base].term /\ a.at[c.base].term <= a.at[i].term
      BY <2>1, <2>3, <2>4, <3>1 DEF FragOK
    <3> QED BY <2>1, <2>3, <3>1, <3>2, FragTypes
  <2> QED BY <2>1, <2>2, <2>3, <2>4 DEF FragOK, Cut
<1>3. Match(b, c)
  <2> SUFFICES ASSUME NEW i \in b.base + 1 .. b.top, NEW j \in c.base + 1 .. c.top,
                      j <= i, b.at[i].term = c.at[j].term
               PROVE  /\ \A k \in c.base + 1 .. j : k > b.base => b.at[k] = c.at[k]
                      /\ c.base > b.base => b.at[c.base].term = c.trm
                      /\ b.base > c.base /\ b.base <= j => c.at[b.base].term = b.trm
                      /\ c.base = b.base => c.trm = b.trm
                      /\ j <= b.base => b.trm = c.at[j].term
    BY DEF Match
  <2>1. j \in a.base + 1 .. a.top /\ a.at[j] = c.at[j] /\ i \in Nat /\ j \in Nat
    BY DEF Cut, FragOK
  <2>2. /\ \A k \in a.base + 1 .. j : k > b.base => b.at[k] = a.at[k]
        /\ b.base > a.base /\ b.base <= j => a.at[b.base].term = b.trm
        /\ a.base = b.base => a.trm = b.trm
        /\ j <= b.base => b.trm = a.at[j].term
    BY <2>1, MatchAt
  <2> QED BY <2>1, <2>2 DEF FragOK, Cut
<1> QED BY <1>1, <1>2, <1>3
\* r is p cut at the base of m, which p agrees with, and continued as m.
Spliced(r, p, m) ==
    /\ p.base = 0 /\ p.trm = 0 /\ m.base <= p.top
    /\ m.base > 0 => p.at[m.base].term = m.trm
    /\ r.base = 0 /\ r.trm = 0 /\ r.top = m.top
    /\ \A i \in 1 .. m.base : r.at[i] = p.at[i]
    /\ \A i \in m.base + 1 .. m.top : r.at[i] = m.at[i]

\* A spliced log is one of growing terms.
LEMMA SplicedOK ==
    ASSUME NEW p, NEW m, NEW r, FragOK(p), FragOK(m), Spliced(r, p, m)
    PROVE  FragOK(r)
<1>1. /\ \A i \in 1 .. p.top : p.at[i].term \in Nat
      /\ \A i \in m.base + 1 .. m.top : m.at[i].term \in Nat
      /\ p.top \in Nat /\ m.top \in Nat /\ m.base \in Nat /\ m.trm \in Nat /\ m.base <= m.top
  BY FragTypes DEF Spliced
<1>2. \A i \in 1 .. r.top : r.at[i] \in Entry /\ r.at[i].term > 0
  BY <1>1 DEF Spliced, FragOK
<1>3. \A i, j \in 1 .. r.top : i <= j => r.at[i].term <= r.at[j].term
  <2> SUFFICES ASSUME NEW i \in 1 .. r.top, NEW j \in 1 .. r.top, i <= j
               PROVE  r.at[i].term <= r.at[j].term
    OBVIOUS
  <2>1. CASE j <= m.base \/ i > m.base
    BY <1>1, <2>1 DEF Spliced, FragOK
  <2>2. CASE i <= m.base /\ j > m.base
    <3>1. r.at[i] = p.at[i] /\ r.at[j] = m.at[j] /\ i \in 1 .. p.top /\ m.base \in 1 .. p.top
      BY <1>1, <2>2 DEF Spliced
    <3>2. p.at[i].term <= p.at[m.base].term /\ m.trm <= m.at[j].term
      BY <1>1, <2>2, <3>1 DEF Spliced, FragOK
    <3> QED BY <1>1, <2>2, <3>1, <3>2 DEF Spliced
  <2> QED BY <1>1, <2>1, <2>2 DEF Spliced
<1> QED BY <1>1, <1>2, <1>3 DEF FragOK, Spliced, Entry

\* What an accepted AppendEntries leaves in a log matches whatever the log and
\* the call matched.
LEMMA SplicedMatch ==
    ASSUME NEW p, NEW m, NEW r, NEW b, FragOK(p), FragOK(m), FragOK(b),
           Spliced(r, p, m),
           Match(p, b), Match(b, p), Match(m, b), Match(b, m)
    PROVE  Match(r, b) /\ Match(b, r)
<1>0. /\ \A i \in 1 .. p.top : p.at[i].term \in Nat
      /\ \A i \in m.base + 1 .. m.top : m.at[i].term \in Nat
      /\ \A i \in b.base + 1 .. b.top : b.at[i].term \in Nat
      /\ p.top \in Nat /\ m.top \in Nat /\ m.base \in Nat /\ m.trm \in Nat /\ m.base <= m.top
      /\ b.top \in Nat /\ b.base \in Nat /\ b.trm \in Nat /\ b.base <= b.top
  BY FragTypes DEF Spliced
<1>1. ASSUME NEW i \in r.base + 1 .. r.top, NEW j \in b.base + 1 .. b.top,
             j <= i, r.at[i].term = b.at[j].term
      PROVE  /\ \A k \in b.base + 1 .. j : k > 0 => r.at[k] = b.at[k]
             /\ b.base > 0 => r.at[b.base].term = b.trm
             /\ b.base = 0 => b.trm = 0
  <2>0. i \in 1 .. m.top /\ j \in Nat /\ j > b.base
    BY <1>0, <1>1 DEF Spliced
  <2>1. CASE i <= m.base
    <3>1. i \in p.base + 1 .. p.top /\ r.at[i] = p.at[i]
      BY <1>0, <2>0, <2>1 DEF Spliced
    <3>2. /\ \A k \in b.base + 1 .. j : k > p.base => p.at[k] = b.at[k]
          /\ b.base > p.base => p.at[b.base].term = b.trm
          /\ p.base = b.base => p.trm = b.trm
      BY <1>1, <3>1, MatchAt
    <3> QED BY <1>0, <1>1, <2>0, <2>1, <3>2 DEF Spliced
  <2>2. CASE i > m.base /\ j <= m.base
    <3>1. i \in m.base + 1 .. m.top /\ r.at[i] = m.at[i]
      BY <1>0, <2>0, <2>2 DEF Spliced
    <3>2. m.trm = b.at[j].term
      BY <1>1, <2>2, <3>1, MatchAt
    <3>3. m.base \in p.base + 1 .. p.top /\ p.at[m.base].term = b.at[j].term /\ j <= m.base
      BY <1>0, <2>0, <2>2, <3>2 DEF Spliced
    <3>4. /\ \A k \in b.base + 1 .. j : k > p.base => p.at[k] = b.at[k]
          /\ b.base > p.base => p.at[b.base].term = b.trm
          /\ p.base = b.base => p.trm = b.trm
      BY <3>3, MatchAt
    <3> QED BY <1>0, <1>1, <2>0, <2>2, <3>4 DEF Spliced
  <2>3. CASE j > m.base
    <3>1. i \in m.base + 1 .. m.top /\ r.at[i] = m.at[i]
      BY <1>0, <1>1, <2>0, <2>3 DEF Spliced
    <3>2. /\ \A k \in b.base + 1 .. j : k > m.base => m.at[k] = b.at[k]
          /\ b.base > m.base => m.at[b.base].term = b.trm
          /\ m.base > b.base => b.at[m.base].term = m.trm
          /\ m.base = b.base => m.trm = b.trm
      BY <1>0, <1>1, <2>3, <3>1, MatchAt
    <3>3. CASE m.base > b.base
      <4>1. /\ m.base \in p.base + 1 .. p.top /\ m.base \in b.base + 1 .. b.top
            /\ p.at[m.base].term = b.at[m.base].term
        BY <1>0, <2>0, <2>3, <3>2, <3>3 DEF Spliced
      <4>2. /\ \A k \in b.base + 1 .. m.base : k > p.base => p.at[k] = b.at[k]
            /\ b.base > p.base => p.at[b.base].term = b.trm
            /\ p.base = b.base => p.trm = b.trm
        BY <1>0, <4>1, MatchAt
      <4> QED BY <1>0, <1>1, <2>0, <2>3, <3>1, <3>2, <3>3, <4>2 DEF Spliced
    <3>4. CASE m.base <= b.base
      BY <1>0, <1>1, <2>0, <2>3, <3>1, <3>2, <3>4 DEF Spliced, FragOK
    <3> QED BY <1>0, <3>3, <3>4
  <2> QED BY <1>0, <2>0, <2>1, <2>2, <2>3
<1>2. ASSUME NEW i \in b.base + 1 .. b.top, NEW j \in r.base + 1 .. r.top,
             j <= i, b.at[i].term = r.at[j].term
      PROVE  /\ \A k \in 1 .. j : k > b.base => b.at[k] = r.at[k]
             /\ b.base > 0 /\ b.base <= j => r.at[b.base].term = b.trm
             /\ b.base = 0 => b.trm = 0
             /\ j <= b.base => b.trm = r.at[j].term
  <2>0. j \in 1 .. m.top /\ i \in Nat /\ i > b.base
    BY <1>0, <1>2 DEF Spliced
  <2>1. CASE j <= m.base
    <3>1. j \in p.base + 1 .. p.top /\ r.at[j] = p.at[j]
      BY <1>0, <2>0, <2>1 DEF Spliced
    <3>2. /\ \A k \in p.base + 1 .. j : k > b.base => b.at[k] = p.at[k]
          /\ b.base > p.base /\ b.base <= j => p.at[b.base].term = b.trm
          /\ p.base = b.base => p.trm = b.trm
          /\ j <= b.base => b.trm = p.at[j].term
      BY <1>2, <3>1, MatchAt
    <3> QED BY <1>0, <1>2, <2>0, <2>1, <3>1, <3>2 DEF Spliced
  <2>2. CASE j > m.base
    <3>1. j \in m.base + 1 .. m.top /\ r.at[j] = m.at[j]
      BY <1>0, <2>0, <2>2 DEF Spliced
    <3>2. /\ \A k \in m.base + 1 .. j : k > b.base => b.at[k] = m.at[k]
          /\ m.base > b.base => b.at[m.base].term = m.trm
          /\ b.base > m.base /\ b.base <= j => m.at[b.base].term = b.trm
          /\ m.base = b.base => m.trm = b.trm
          /\ j <= b.base => b.trm = m.at[j].term
      BY <1>2, <3>1, MatchAt
    <3>3. CASE m.base > b.base
      <4>1. /\ m.base \in p.base + 1 .. p.top /\ m.base \in b.base + 1 .. b.top
            /\ p.at[m.base].term = b.at[m.base].term
        BY <1>0, <1>2, <2>0, <2>2, <3>2, <3>3 DEF Spliced
      <4>2. /\ \A k \in p.base + 1 .. m.base : k > b.base => b.at[k] = p.at[k]
            /\ b.base > p.base => p.at[b.base].term = b.trm
            /\ p.base = b.base => p.trm = b.trm
        BY <1>0, <3>3, <4>1, MatchAt
      <4> QED BY <1>0, <1>2, <2>0, <2>2, <3>1, <3>2, <3>3, <4>2 DEF Spliced
    <3>4. CASE m.base <= b.base
      BY <1>0, <1>2, <2>0, <2>2, <3>1, <3>2, <3>4 DEF Spliced, FragOK
    <3> QED BY <1>0, <3>3, <3>4
  <2> QED BY <1>0, <2>0, <2>1, <2>2
<1>3. r.base = 0 /\ r.trm = 0
  BY DEF Spliced
<1>4. Match(r, b)
  BY <1>0, <1>1, <1>3 DEF Match
<1>5. Match(b, r)
  BY <1>0, <1>2, <1>3 DEF Match
<1> QED BY <1>4, <1>5
\* r is the leader's log s with one more entry, of its own term T.
Extended(r, s, T) ==
    /\ s.base = 0 /\ s.trm = 0 /\ r.base = 0 /\ r.trm = 0 /\ r.top = s.top + 1
    /\ \A i \in 1 .. s.top : r.at[i] = s.at[i]
    /\ r.at[r.top] \in Entry /\ r.at[r.top].term = T
    /\ \A i \in 1 .. s.top : s.at[i].term <= T

\* A new entry of a leader that has all entries of its term matches.
LEMMA ExtendedMatch ==
    ASSUME NEW s, NEW r, NEW b, NEW T \in Nat \ {0}, FragOK(s), FragOK(b),
           Extended(r, s, T), Match(s, b), Match(b, s),
           \A j \in b.base + 1 .. b.top : b.at[j].term = T => j <= s.top /\ s.at[j].term = T
    PROVE  FragOK(r) /\ Match(r, b) /\ Match(b, r)
<1>0. /\ \A i \in 1 .. s.top : s.at[i].term \in Nat
      /\ \A i \in b.base + 1 .. b.top : b.at[i].term \in Nat
      /\ s.top \in Nat /\ b.top \in Nat /\ b.base \in Nat /\ b.trm \in Nat /\ b.base <= b.top
  BY FragTypes DEF Extended
<1>1. FragOK(r)
  <2>1. /\ r.base = 0 /\ r.trm = 0 /\ r.top \in Nat
        /\ \A i \in 1 .. r.top : r.at[i] \in Entry /\ r.at[i].term > 0
    BY <1>0 DEF Extended, FragOK
  <2>2. \A i, j \in 1 .. r.top : i <= j => r.at[i].term <= r.at[j].term
    BY <1>0 DEF Extended, FragOK
  <2> QED BY <2>1, <2>2 DEF FragOK, Entry
<1>2. Match(r, b)
  <2> SUFFICES ASSUME NEW i \in r.base + 1 .. r.top, NEW j \in b.base + 1 .. b.top,
                      j <= i, r.at[i].term = b.at[j].term
               PROVE  /\ \A k \in b.base + 1 .. j : k > r.base => r.at[k] = b.at[k]
                      /\ b.base > r.base => r.at[b.base].term = b.trm
                      /\ r.base > b.base /\ r.base <= j => b.at[r.base].term = r.trm
                      /\ r.base = b.base => r.trm = b.trm
                      /\ j <= r.base => r.trm = b.at[j].term
    BY DEF Match
  <2>1. PICK e \in s.base + 1 .. s.top : j <= e /\ s.at[e].term = b.at[j].term
    BY <1>0 DEF Extended
  <2>2. /\ \A k \in b.base + 1 .. j : k > s.base => s.at[k] = b.at[k]
        /\ b.base > s.base => s.at[b.base].term = b.trm
        /\ s.base = b.base => s.trm = b.trm
    BY <2>1, MatchAt
  <2> QED BY <1>0, <2>1, <2>2 DEF Extended
<1>3. Match(b, r)
  <2> SUFFICES ASSUME NEW i \in b.base + 1 .. b.top, NEW j \in r.base + 1 .. r.top,
                      j <= i, b.at[i].term = r.at[j].term
               PROVE  /\ \A k \in r.base + 1 .. j : k > b.base => b.at[k] = r.at[k]
                      /\ r.base > b.base => b.at[r.base].term = r.trm
                      /\ b.base > r.base /\ b.base <= j => r.at[b.base].term = b.trm
                      /\ r.base = b.base => r.trm = b.trm
                      /\ j <= b.base => b.trm = r.at[j].term
    BY DEF Match
  <2>1. j \in s.base + 1 .. s.top /\ r.at[j] = s.at[j]
    BY <1>0 DEF Extended
  <2>2. /\ \A k \in s.base + 1 .. j : k > b.base => b.at[k] = s.at[k]
        /\ b.base > s.base /\ b.base <= j => s.at[b.base].term = b.trm
        /\ s.base = b.base => s.trm = b.trm
        /\ j <= b.base => b.trm = s.at[j].term
    BY <2>1, MatchAt
  <2> QED BY <1>0, <2>1, <2>2 DEF Extended
<1> QED BY <1>1, <1>2, <1>3
(***************************************************************************)
(* Majorities, and elections that are over.                                *)
(***************************************************************************)

\* More than a majority is a majority.
LEMMA MajorityGrows ==
    ASSUME NEW P, NEW Q \in SUBSET Server, P \subseteq Q, Majority(P)
    PROVE  Majority(Q)
<1>1. IsFiniteSet(Q)
  BY ServerAssumption, FS_Subset
<1>2. Cardinality(P) <= Cardinality(Q) /\ IsFiniteSet(P)
  BY <1>1, FS_Subset
<1>3. Cardinality(P) \in Nat /\ Cardinality(Q) \in Nat /\ Cardinality(Server) \in Nat
  BY <1>1, <1>2, ServerAssumption, FS_CardinalityType
<1> QED BY <1>2, <1>3 DEF Majority

\* Two majorities have a member in common.
LEMMA MajoritiesMeet ==
    ASSUME NEW P \in SUBSET Server, NEW Q \in SUBSET Server, Majority(P), Majority(Q)
    PROVE  \E v \in Server : v \in P /\ v \in Q
<1>1. Cardinality(Server) \in Nat /\ Cardinality(P) \in Nat /\ Cardinality(Q) \in Nat
  BY ServerAssumption, FS_CardinalityType, FS_Subset
<1>2. Cardinality(P) + Cardinality(Q) > Cardinality(Server)
  BY <1>1 DEF Majority
<1>3. P \cap Q # {}
  BY <1>2, ServerAssumption, FS_MajoritiesIntersect
<1> QED BY <1>3

\* v grants d its vote of term t in this step.
GrantStep(v, d, t) ==
    \E m \in rpcs :
        /\ m.type = "RequestVote" /\ m.src = d /\ m.dst = v /\ m.term = t
        /\ currentTerm[v] <= t /\ currentTerm'[v] = t
        /\ currentTerm[v] = t => votedFor[v] \in {Nil, d}
        /\ candidateLogIsUpToDate(v, m.lastLogIndex, m.lastLogTerm)

\* Votes are claimed only as they are granted.
ClaimStep ==
    \A d, v \in Server : \A t \in Nat :
        Claims(d, v, t)' => Claims(d, v, t) \/ GrantStep(v, d, t)

\* An election that is over stays over.
LEMMA OverKept ==
    ASSUME TypeOK, TypeOK', Step, ClaimStep, NEW t \in Nat, Over(t)
    PROVE  Over(t)'
<1>1. \A v \in Server : /\ currentTerm[v] \in Nat /\ currentTerm'[v] \in Nat
                        /\ currentTerm[v] <= currentTerm'[v]
  BY DEF TypeOK, TermTypeOK, Step, NodeStep
<1>2. Majority({v \in Server : currentTerm'[v] >= t})
  <2>1. {v \in Server : currentTerm[v] >= t} \subseteq {v \in Server : currentTerm'[v] >= t}
    BY <1>1
  <2> QED BY <2>1, MajorityGrows DEF Over
<1>3. ASSUME NEW d \in Server, NEW v \in Server, Barred(v, t, d)
      PROVE  Barred(v, t, d)'
  <2>1. ~Claims(d, v, t)'
    BY <1>1, <1>3 DEF ClaimStep, GrantStep, Barred
  <2>2. currentTerm'[v] = currentTerm[v] /\ votedFor[v] # Nil => votedFor'[v] = votedFor[v]
    BY DEF Step, NodeStep
  <2> QED BY <1>1, <1>3, <2>1, <2>2 DEF Barred
<1>4. ASSUME NEW d \in Server,
             currentTerm'[d] < t \/ (currentTerm'[d] = t /\ state'[d] = Candidate)
      PROVE  Majority({v \in Server : Barred(v, t, d)'})
  <2>1. currentTerm[d] < t \/ (currentTerm[d] = t /\ state[d] = Candidate)
    BY <1>1, <1>4 DEF Step, NodeStep
  <2>2. Majority({v \in Server : Barred(v, t, d)})
    BY <2>1 DEF Over
  <2>3. {v \in Server : Barred(v, t, d)} \subseteq {v \in Server : Barred(v, t, d)'}
    BY <1>3
  <2> QED BY <2>2, <2>3, MajorityGrows
<1> QED BY <1>2, <1>4 DEF Over

\* A majority that would elect d, and nobody is left to do so.
LEMMA OverNotWon ==
    ASSUME NEW d \in Server, NEW Q \in SUBSET Server, Majority(Q), state[d] = Candidate,
           \A v \in Q : v = d \/ Claims(d, v, currentTerm[d])
    PROVE  ~Over(currentTerm[d])
<1> SUFFICES ASSUME Over(currentTerm[d]) PROVE FALSE
  OBVIOUS
<1>1. Majority({v \in Server : Barred(v, currentTerm[d], d)})
  BY DEF Over
<1>2. PICK v \in Server : v \in Q /\ Barred(v, currentTerm[d], d)
  BY <1>1, MajoritiesMeet
<1> QED BY <1>2 DEF Barred

\* A term that has a leader has no other winner.
LEMMA LeaderOver ==
    ASSUME TypeOK, ElectionInv, NEW s \in Server, state[s] = Leader
    PROVE  Over(currentTerm[s])
<1> DEFINE t == currentTerm[s]
<1>1. PICK b \in 1 .. MaxTerm : votes[s][b].term = t /\ Majority(votes[s][b].voters)
  BY DEF ElectionInv, LeaderHasMajority
<1> DEFINE Q == votes[s][b].voters
<1>2. Q \in SUBSET Server /\ t \in Nat
  BY NodeTypes
<1>3. ASSUME NEW v \in Q PROVE v \in Server /\ (v = s \/ Claims(s, v, t))
  BY <1>1, <1>2 DEF Claims
<1>4. ASSUME NEW v \in Q PROVE Voted(v, t, s)
  <2>1. CASE v = s
    BY <2>1 DEF ElectionInv, VotesForItself, Voted, Leader, Follower
  <2>2. CASE Claims(s, v, t)
    BY <1>2, <1>3, <2>2 DEF ElectionInv, ClaimsVoted
  <2> QED BY <1>3, <2>1, <2>2
<1>5. \A v \in Server : currentTerm[v] \in Nat
  BY NodeTypes
<1>6. Majority({v \in Server : currentTerm[v] >= t})
  <2>1. Q \subseteq {v \in Server : currentTerm[v] >= t}
    BY <1>2, <1>3, <1>4, <1>5 DEF Voted
  <2> HIDE DEF Q
  <2> QED BY <1>1, <2>1, MajorityGrows DEF Q
<1>7. ASSUME NEW d \in Server, currentTerm[d] < t \/ (currentTerm[d] = t /\ state[d] = Candidate)
      PROVE  Majority({v \in Server : Barred(v, t, d)})
  <2>1. d # s
    BY <1>2, <1>7 DEF Leader, Candidate
  <2>2. ASSUME NEW v \in Q PROVE Barred(v, t, d)
    <3>1. v # d
      <4> SUFFICES ASSUME v = d PROVE FALSE
        OBVIOUS
      <4>1. currentTerm[d] = t /\ state[d] = Candidate /\ votedFor[d] = s
        BY <1>2, <1>4, <1>5, <1>7, <2>2 DEF Voted
      <4>2. votedFor[d] = d
        BY <4>1 DEF ElectionInv, VotesForItself, Candidate, Follower
      <4> QED BY <2>1, <4>1, <4>2
    <3>2. ~Claims(d, v, t)
      <4> SUFFICES ASSUME Claims(d, v, t) PROVE FALSE
        OBVIOUS
      <4>1. CASE v = s
        <5>1. Voted(s, t, d)
          BY <1>2, <4>1 DEF ElectionInv, ClaimsVoted
        <5> QED BY <1>2, <2>1, <5>1 DEF ElectionInv, VotesForItself, Voted, Leader, Follower
      <4>2. CASE Claims(s, v, t)
        BY <1>2, <1>3, <2>1, <4>2 DEF ElectionInv, OneClaim
      <4> QED BY <1>3, <2>2, <4>1, <4>2
    <3>3. s # Nil
      BY ServerAssumption
    <3> QED BY <1>3, <1>4, <2>1, <2>2, <3>1, <3>2, <3>3 DEF Barred, Voted
  <2>3. Q \subseteq {v \in Server : Barred(v, t, d)}
    BY <1>3, <2>2
  <2> HIDE DEF Q
  <2> QED BY <1>1, <2>3, MajorityGrows DEF Q
<1> QED BY <1>6, <1>7 DEF Over

(***************************************************************************)
(* What a step may do to logs, calls and commitment.  Every action of Raft *)
(* is shown to be such a step; the invariants are preserved by any.        *)
(***************************************************************************)
Kept(t)  == last'[t] = last[t] /\ full'[t] = full[t]
Grown(t) == last[t] <= last'[t] /\ \A k \in 1 .. last[t] : full'[t][k] = full[t][k]

\* The peer processes call m of a term that is not over for it.
Handled(m) ==
    /\ currentTerm[m.dst] <= m.term /\ currentTerm'[m.dst] = m.term
    /\ state'[m.dst] = Follower /\ m \notin rpcs'

\* The peer's log has the entry that m's entries follow.
Consistent(m) ==
    m.prevLogIndex > 0 => /\ m.prevLogIndex <= last[m.dst]
                          /\ full[m.dst][m.prevLogIndex].term = m.prevLogTerm

\* What AppendEntries does to the log of the peer that accepts it.
Accepts(m) ==
    /\ m \in Appends /\ Handled(m) /\ Consistent(m)
    /\ IF m.entries = <<>> THEN Kept(m.dst)
       ELSE Spliced(NodeFrag(m.dst)', NodeFrag(m.dst), CallFrag(m))

Rejects(m) ==
    /\ m \in Appends /\ Handled(m) /\ ~Consistent(m) /\ Kept(m.dst)
    /\ commitIndex'[m.dst] = commitIndex[m.dst]

\* InstallSnapshot drops the log, unless it has the snapshot's last entry.
Replaces(m) ==
    /\ last'[m.dst] = m.lastIncludedIndex /\ m.lastIncludedIndex > 0
    /\ Cut(NodeFrag(m.dst)', CommittedFrag)
    /\ m.lastIncludedIndex <= last[m.dst] =>
          full[m.dst][m.lastIncludedIndex].term # m.lastIncludedTerm

Adopts(m) ==
    /\ m \in Installs /\ Handled(m)
    /\ Kept(m.dst) \/ Replaces(m)
    /\ m.lastIncludedIndex <= last'[m.dst]
    /\ \A k \in 1 .. m.lastIncludedIndex : full'[m.dst][k] = committed[k]
    /\ m.lastIncludedIndex <= commitIndex'[m.dst]

Proposes(t) ==
    /\ state[t] = Leader /\ state'[t] = Leader /\ currentTerm'[t] = currentTerm[t]
    /\ Extended(NodeFrag(t)', NodeFrag(t), currentTerm[t])

LogStepOf(t) ==
    \/ Kept(t)
    \/ Proposes(t)
    \/ \E m \in Appends : m.dst = t /\ m.entries # <<>> /\ Accepts(m)
    \/ \E m \in Installs : m.dst = t /\ Adopts(m) /\ Replaces(m)

\* One log at a time.
LogsStep == /\ \A t \in Server : LogStepOf(t)
            /\ \A t, u \in Server : t # u => Kept(t) \/ Kept(u)

Wins(t) ==
    /\ state[t] = Candidate /\ Kept(t)
    /\ \E Q \in SUBSET Server : Majority(Q) /\ \A v \in Q : v = t \/ Claims(t, v, currentTerm[t])
    /\ \A p \in Server : matchIndex'[t][p] = 0 /\ nextIndex'[t][p] = last[t] + 1

RoleStep == \A t \in Server : state'[t] = Leader =>
    currentTerm'[t] = currentTerm[t] /\ (state[t] = Leader \/ Wins(t))

\* Leader s commits its entries through n.
Advances(s, n) ==
    /\ state[s] = Leader /\ state'[s] = Leader /\ currentTerm'[s] = currentTerm[s]
    /\ n \in 1 .. last'[s] /\ full'[s][n].term = currentTerm[s]
    /\ Majority(Acks(s, n)')
    /\ n <= Len(committed') /\ \A k \in 1 .. n : full'[s][k] = committed'[k]

CommittedStep ==
    \/ committed' = committed
    \/ \E s \in Server, n \in Nat :
          /\ Advances(s, n) /\ n = Len(committed') /\ Len(committed) < n
          /\ \A k \in 1 .. Len(committed) : committed'[k] = committed[k]

\* The caller of m, unless it has died, is told that m succeeded.
Answered(m) == m.epoch = epoch[m.src] => \E r \in rpcs' :
    /\ r.src = m.dst /\ r.dst = m.src /\ r.reqTerm = m.term /\ r.term = m.term
    /\ m.type = "AppendEntries" => r.type = "AppendReply" /\ r.success /\ r.newMatch = Top(m)
    /\ m.type = "InstallSnapshot" => r.type = "SnapshotReply" /\ r.lastIncludedIndex = m.lastIncludedIndex

CommitIndexStep == \A t \in Server :
    \/ commitIndex'[t] <= commitIndex[t] /\ (state'[t] = Leader => commitIndex'[t] = commitIndex[t])
    \/ \E n \in Nat : n = commitIndex'[t] /\ n > commitIndex[t] /\ Advances(t, n)
    \/ \E m \in Appends : m.dst = t /\ Accepts(m) /\ Answered(m) /\ commitIndex'[t] = m.leaderCommit
    \/ \E m \in Installs : m.dst = t /\ Adopts(m) /\ Answered(m) /\ commitIndex'[t] = m.lastIncludedIndex

\* Leader m.src makes call m.
Calls(m) ==
    /\ state[m.src] = Leader /\ state'[m.src] = Leader
    /\ m.term = currentTerm[m.src] /\ m.src # m.dst
    /\ \A r \in rpcs : ~IsCall(r, m.src, m.dst)
    /\ UNCHANGED <<currentTerm, committed, commitIndex, nextIndex, matchIndex>>
    /\ \A t \in Server : Kept(t)
SendsEntries(m) ==
    /\ Calls(m)
    /\ m.prevLogIndex = nextIndex[m.src][m.dst] - 1
    /\ Cut(CallFrag(m), NodeFrag(m.src)) /\ Top(m) = last[m.src]
    /\ m.leaderCommit = commitIndex[m.src]
SendsSnapshot(m) ==
    /\ Calls(m)
    /\ m.lastIncludedIndex = lastIncludedIndex[m.src]
    /\ m.lastIncludedTerm = lastIncludedTerm[m.src]

SendStep ==
    /\ \A m \in Appends' : m \in Appends \/ SendsEntries(m)
    /\ \A m \in Installs' : m \in Installs \/ SendsSnapshot(m)
    /\ \A m, r \in Appends' \cup Installs' : m \in rpcs \/ r \in rpcs \/ m = r

\* Reply r answers call m.
Answers(r, m) ==
    /\ m \notin rpcs' /\ m.epoch = epoch[m.src]
    /\ r.src = m.dst /\ r.dst = m.src /\ r.reqTerm = m.term /\ r.term = currentTerm'[m.dst]
AnswerStep == \A r \in rpcs' :
    /\ r.type = "AppendReply" => r \in rpcs \/ \E m \in Appends :
          /\ Answers(r, m) /\ r.newMatch = Top(m)
          /\ r.success => Accepts(m)
          /\ ~r.success /\ currentTerm[m.dst] <= m.term => Rejects(m)
    /\ r.type = "SnapshotReply" => r \in rpcs \/ \E m \in Installs :
          /\ Answers(r, m) /\ r.lastIncludedIndex = m.lastIncludedIndex
          /\ currentTerm[m.dst] <= m.term => Adopts(m)

\* What leader s knows about p changes with the reply r only.
Counts(r, s, p) ==
    /\ r.dst = s /\ r.src = p /\ r.reqTerm = currentTerm[s] /\ r.term <= r.reqTerm
    /\ \/ /\ r.type = "AppendReply" /\ r.success
          /\ matchIndex'[s][p] = IF r.newMatch > matchIndex[s][p] THEN r.newMatch ELSE matchIndex[s][p]
          /\ nextIndex'[s][p] = r.newMatch + 1
       \/ /\ r.type = "AppendReply" /\ ~r.success
          /\ matchIndex'[s][p] = matchIndex[s][p] /\ nextIndex'[s][p] = BackOff(nextIndex[s][p])
       \/ /\ r.type = "SnapshotReply"
          /\ matchIndex'[s][p] = IF r.lastIncludedIndex > matchIndex[s][p]
                                 THEN r.lastIncludedIndex ELSE matchIndex[s][p]
          /\ nextIndex'[s][p] = Resume(nextIndex[s][p], r.lastIncludedIndex)
IndexStep == \A s, p \in Server : state[s] = Leader /\ state'[s] = Leader =>
    \/ /\ nextIndex'[s][p] = nextIndex[s][p] /\ matchIndex'[s][p] = matchIndex[s][p]
       /\ \A r \in rpcs : (/\ r.type \in {"AppendReply", "SnapshotReply"}
                           /\ r.dst = s /\ r.src = p /\ r.reqTerm = currentTerm[s]) => r \in rpcs'
    \/ \E r \in rpcs : Counts(r, s, p) /\ r \notin rpcs'

LogStep ==
    /\ LogsStep /\ RoleStep /\ ClaimStep
    /\ CommittedStep /\ CommitIndexStep
    /\ SendStep /\ AnswerStep /\ IndexStep
    /\ SnapshotTerm' /\ IndexOrder'

(***************************************************************************)
(* Logs, calls and the committed entries go on matching.                   *)
(***************************************************************************)

\* The fragments there are.
LEMMA FragsAre ==
    /\ \A s \in Server : /\ NodeFrag(s) \in Frags
                         /\ NodeFrag(s).base = 0 /\ NodeFrag(s).trm = 0
                         /\ NodeFrag(s).top = last[s] /\ NodeFrag(s).at = full[s]
    /\ CommittedFrag \in Frags /\ CommittedFrag.base = 0 /\ CommittedFrag.trm = 0
    /\ CommittedFrag.top = Len(committed) /\ CommittedFrag.at = committed
    /\ \A m \in Appends : CallFrag(m) \in Frags
BY DEF NodeFrag, CommittedFrag, Frags

\* The same after a step.
LEMMA FragsAreNext ==
    /\ \A s \in Server : /\ NodeFrag(s)' \in Frags'
                         /\ NodeFrag(s)'.base = 0 /\ NodeFrag(s)'.trm = 0
                         /\ NodeFrag(s)'.top = last'[s] /\ NodeFrag(s)'.at = full'[s]
    /\ CommittedFrag' \in Frags' /\ CommittedFrag'.base = 0 /\ CommittedFrag'.trm = 0
    /\ CommittedFrag'.top = Len(committed') /\ CommittedFrag'.at = committed'
    /\ \A m \in Appends' : CallFrag(m) \in Frags'
    /\ \A a \in Frags' : \/ \E s \in Server : a = NodeFrag(s)'
                         \/ a = CommittedFrag'
                         \/ \E m \in Appends' : a = CallFrag(m)
BY DEF NodeFrag, CommittedFrag, CallFrag, Top, Frags

\* The fields of a call.
LEMMA CallTypes ==
    ASSUME NEW m \in Message
    PROVE  /\ m.src \in Server /\ m.dst \in Server
           /\ m.type = "AppendEntries" =>
                 /\ m.term \in Nat /\ m.epoch \in Nat /\ m.prevLogIndex \in Nat /\ m.prevLogTerm \in Nat
                 /\ m.entries \in Seq(Entry) /\ Len(m.entries) \in Nat /\ m.leaderCommit \in Nat
                 /\ Top(m) \in Nat /\ m.prevLogIndex <= Top(m)
                 /\ m.entries # <<>> => m.prevLogIndex < Top(m)
                 /\ m.entries = <<>> => m.prevLogIndex = Top(m)
           /\ m.type = "InstallSnapshot" =>
                 /\ m.term \in Nat /\ m.epoch \in Nat /\ m.lastIncludedIndex \in Nat
                 /\ m.lastIncludedTerm \in Nat
           /\ m.type = "AppendReply" =>
                 /\ m.reqTerm \in Nat /\ m.term \in Nat /\ m.success \in BOOLEAN /\ m.newMatch \in Nat
           /\ m.type = "SnapshotReply" =>
                 /\ m.reqTerm \in Nat /\ m.term \in Nat /\ m.lastIncludedIndex \in Nat
<1>1. m.type = "AppendEntries" =>
          /\ m.prevLogIndex \in Nat /\ m.entries \in Seq(Entry) /\ Len(m.entries) \in Nat
          /\ m.entries # <<>> => Len(m.entries) > 0
          /\ m.entries = <<>> => Len(m.entries) = 0
  BY MessageFields
<1>2. m.type = "AppendEntries" =>
          /\ Top(m) \in Nat /\ m.prevLogIndex <= Top(m)
          /\ m.entries # <<>> => m.prevLogIndex < Top(m)
          /\ m.entries = <<>> => m.prevLogIndex = Top(m)
  BY <1>1 DEF Top
<1> QED BY <1>1, <1>2, MessageFields DEF ReplyTypes

\* Calls are messages.
LEMMA CallsAre ==
    ASSUME TypeOK
    PROVE  /\ \A m \in Appends : m \in rpcs /\ m \in Message /\ m.type = "AppendEntries"
           /\ \A m \in Installs : m \in rpcs /\ m \in Message /\ m.type = "InstallSnapshot"
BY DEF TypeOK, Appends, Installs

\* Calls are messages, after a step.
LEMMA CallsAreNext ==
    ASSUME TypeOK'
    PROVE  /\ \A m \in Appends' : m \in rpcs' /\ m \in Message /\ m.type = "AppendEntries"
           /\ \A m \in Installs' : m \in rpcs' /\ m \in Message /\ m.type = "InstallSnapshot"
BY DEF TypeOK, Appends, Installs

\* What a call carries, as a fragment.
LEMMA CallFragIs ==
    ASSUME NEW m
    PROVE  /\ CallFrag(m).base = m.prevLogIndex /\ CallFrag(m).trm = m.prevLogTerm
           /\ CallFrag(m).top = Top(m)
           /\ \A k \in m.prevLogIndex + 1 .. Top(m) : CallFrag(m).at[k] = m.entries[k - m.prevLogIndex]
BY DEF CallFrag

\* A fragment that matches all others may join them.
LEMMA MatchJoin ==
    ASSUME NEW F, NEW c, AllMatch(F), FragOK(c), \A b \in F : Match(c, b) /\ Match(b, c)
    PROVE  AllMatch(F \cup {c})
BY MatchSelf DEF AllMatch

\* What is cut from one of them may join them.
LEMMA CutJoin ==
    ASSUME NEW F, NEW c, NEW a \in F, a.base = 0, a.trm = 0, AllMatch(F), Cut(c, a)
    PROVE  AllMatch(F \cup {c})
<1>1. FragOK(c)
  BY CutMatch DEF AllMatch
<1>2. \A b \in F : Match(c, b) /\ Match(b, c)
  BY CutMatch DEF AllMatch
<1> QED BY <1>1, <1>2, MatchJoin

\* A leader's term is not 0.
LEMMA LeaderTerm ==
    ASSUME TypeOK, ElectionInv, NEW s \in Server, state[s] = Leader
    PROVE  currentTerm[s] \in Nat \ {0}
<1>1. PICK b \in 1 .. MaxTerm : Majority(votes[s][b].voters)
  BY DEF ElectionInv, LeaderHasMajority
<1>2. ~(b > currentTerm[s])
  BY <1>1, NoMajorityEmpty DEF ElectionInv, SpawnedFresh
<1>3. currentTerm[s] \in Nat /\ b \in Nat /\ b >= 1
  BY NodeTypes
<1> QED BY <1>2, <1>3

\* The log that changes in a step, if any, still matches.
LEMMA ChangedMatch ==
    ASSUME TypeOK, ElectionInv, Matched, LeaderHasOwn, NEW p \in Server, LogStepOf(p)
    PROVE  AllMatch(Frags \cup {NodeFrag(p)'})
<1> DEFINE c == NodeFrag(p)'
<1> SUFFICES AllMatch(Frags \cup {c})
  OBVIOUS
<1>1. CASE Kept(p)
  <2>1. c = NodeFrag(p)
    BY <1>1 DEF Kept, NodeFrag
  <2> QED BY <2>1, FragsAre DEF Matched, AllMatch
<1>2. CASE Proposes(p)
  <2>1. currentTerm[p] \in Nat \ {0} /\ state[p] = Leader
    BY <1>2, LeaderTerm DEF Proposes
  <2>2. ASSUME NEW b \in Frags
        PROVE  FragOK(c) /\ Match(c, b) /\ Match(b, c)
    <3>1. FragOK(b) /\ FragOK(NodeFrag(p)) /\ Match(NodeFrag(p), b) /\ Match(b, NodeFrag(p))
      BY FragsAre DEF Matched, AllMatch
    <3>2. \A j \in b.base + 1 .. b.top : b.at[j].term = currentTerm[p] =>
              j <= NodeFrag(p).top /\ NodeFrag(p).at[j].term = currentTerm[p]
      <4>1. \A j \in b.base + 1 .. b.top : j \in Nat
        BY <3>1, FragTypes
      <4> QED BY <2>1, <4>1, FragsAre DEF LeaderHasOwn, EntryIn
    <3>3. Extended(c, NodeFrag(p), currentTerm[p])
      BY <1>2 DEF Proposes
    <3> HIDE DEF c
    <3> QED BY <2>1, <3>1, <3>2, <3>3, ExtendedMatch
  <2>3. FragOK(c)
    BY <2>2, FragsAre
  <2> HIDE DEF c
  <2> QED BY <2>2, <2>3, MatchJoin DEF Matched
<1>3. CASE \E m \in Appends : m.dst = p /\ m.entries # <<>> /\ Accepts(m)
  <2>1. PICK m \in Appends : m.dst = p /\ m.entries # <<>> /\ Accepts(m)
    BY <1>3
  <2>2. Spliced(c, NodeFrag(p), CallFrag(m))
    BY <2>1 DEF Accepts
  <2> HIDE DEF c
  <2>3. NodeFrag(p) \in Frags /\ CallFrag(m) \in Frags
    BY FragsAre
  <2>4. FragOK(c) /\ \A b \in Frags : Match(c, b) /\ Match(b, c)
    BY <2>2, <2>3, SplicedOK, SplicedMatch DEF Matched, AllMatch
  <2> QED BY <2>4, MatchJoin DEF Matched
<1>4. CASE \E m \in Installs : m.dst = p /\ Adopts(m) /\ Replaces(m)
  <2>1. Cut(c, CommittedFrag)
    BY <1>4 DEF Replaces
  <2> HIDE DEF c
  <2> QED BY <2>1, FragsAre, CutJoin DEF Matched
<1> QED BY <1>1, <1>2, <1>3, <1>4 DEF LogStepOf

\* Matched is preserved.
LEMMA MatchedKept ==
    ASSUME TypeOK, TypeOK', ElectionInv, Matched, LeaderHasOwn,
           LogsStep, CommittedStep, SendStep
    PROVE  Matched'
<1>1. PICK F : /\ Frags \subseteq F /\ AllMatch(F) /\ \A t \in Server : NodeFrag(t)' \in F
  <2>1. \A t \in Server : Kept(t) => NodeFrag(t)' = NodeFrag(t)
    BY DEF Kept, NodeFrag
  <2>2. CASE \A t \in Server : Kept(t)
    <3>1. \A t \in Server : NodeFrag(t)' \in Frags
      BY <2>1, <2>2, FragsAre
    <3> QED BY <3>1 DEF Matched
  <2>3. CASE \E p \in Server : ~Kept(p)
    <3>1. PICK p \in Server : ~Kept(p)
      BY <2>3
    <3> DEFINE c == NodeFrag(p)'
               G == Frags \cup {c}
    <3>2. AllMatch(G)
      BY ChangedMatch DEF LogsStep
    <3>3. \A t \in Server : NodeFrag(t)' \in G
      BY <2>1, <3>1, FragsAre DEF LogsStep
    <3>4. Frags \subseteq G
      OBVIOUS
    <3> HIDE DEF G
    <3> QED BY <3>2, <3>3, <3>4
  <2> QED BY <2>2, <2>3
<1> DEFINE d == CommittedFrag'
           G == F \cup {d}
<1>2. AllMatch(G)
  <2>1. CASE committed' = committed
    <3>1. d = CommittedFrag
      BY <2>1 DEF CommittedFrag
    <3>2. G = F
      BY <1>1, <3>1, FragsAre
    <3> QED BY <1>1, <3>2
  <2>2. CASE committed' # committed
    <3>1. PICK s \in Server, n \in Nat : Advances(s, n) /\ n = Len(committed')
      BY <2>2 DEF CommittedStep
    <3> DEFINE a == NodeFrag(s)'
    <3>2. a.base = 0 /\ a.trm = 0 /\ a.top = last'[s] /\ a.at = full'[s] /\ a \in F
      BY <1>1, FragsAreNext
    <3>3. d.base = 0 /\ d.trm = 0 /\ d.top = n /\ d.at = committed'
      BY <3>1, FragsAreNext
    <3>4. n \in 1 .. last'[s] /\ \A k \in 1 .. n : full'[s][k] = committed'[k]
      BY <3>1 DEF Advances
    <3> HIDE DEF a, d
    <3>5. FragOK(a)
      BY <1>1, <3>2 DEF AllMatch
    <3>6. Cut(d, a)
      BY <3>2, <3>3, <3>4, <3>5 DEF Cut, FragOK
    <3> QED BY <1>1, <3>2, <3>6, CutJoin
  <2> QED BY <2>1, <2>2
<1>3. F \subseteq G /\ Frags \subseteq G /\ d \in G
  BY <1>1
<1> HIDE DEF G
<1>4. CASE Appends' \subseteq Appends
  <2>1. Frags' \subseteq G
    BY <1>1, <1>3, <1>4, FragsAre, FragsAreNext
  <2> QED BY <1>2, <2>1 DEF Matched, AllMatch
<1>5. CASE \E m \in Appends' : m \notin Appends
  <2>1. PICK m \in Appends' : m \notin Appends
    BY <1>5
  <2>2. SendsEntries(m)
    BY <2>1 DEF SendStep
  <2> DEFINE c == CallFrag(m)
             H == G \cup {c}
  <2>3. m.src \in Server => AllMatch(H)
    <3> SUFFICES ASSUME m.src \in Server PROVE AllMatch(H)
      OBVIOUS
    <3>1. Cut(c, NodeFrag(m.src)) /\ NodeFrag(m.src) \in G
      BY <1>3, <2>2, FragsAre DEF SendsEntries
    <3>2. NodeFrag(m.src).base = 0 /\ NodeFrag(m.src).trm = 0
      BY FragsAre
    <3> HIDE DEF c
    <3> QED BY <1>2, <3>1, <3>2, CutJoin
  <2>4. m.src \in Server
    BY CallsAreNext, CallTypes
  <2>5. \A r \in Appends' : r \in Appends \/ r = m
    BY <2>1 DEF SendStep, Appends
  <2>6. Frags' \subseteq H
    BY <1>1, <1>3, <2>5, FragsAre, FragsAreNext
  <2> HIDE DEF H
  <2> QED BY <2>3, <2>4, <2>6 DEF Matched, AllMatch
<1> QED BY <1>4, <1>5

\* An entry of a node's log.
LEMMA NodeEntry ==
    ASSUME NEW s \in Server, NEW j, j \in 1 .. last[s]
    PROVE  EntryIn(j, full[s][j].term)
<1>1. NodeFrag(s) \in Frags /\ j \in NodeFrag(s).base + 1 .. NodeFrag(s).top /\ NodeFrag(s).at[j] = full[s][j]
  BY FragsAre
<1> QED BY <1>1 DEF EntryIn

\* A committed entry.
LEMMA CommittedEntry ==
    ASSUME NEW j, j \in 1 .. Len(committed)
    PROVE  EntryIn(j, committed[j].term)
<1>1. CommittedFrag \in Frags /\ j \in CommittedFrag.base + 1 .. CommittedFrag.top /\ CommittedFrag.at[j] = committed[j]
  BY FragsAre
<1> QED BY <1>1 DEF EntryIn

\* An entry that a call carries.
LEMMA CallEntry ==
    ASSUME NEW m \in Appends, NEW j, j \in m.prevLogIndex + 1 .. Top(m)
    PROVE  EntryIn(j, m.entries[j - m.prevLogIndex].term)
<1>1. CallFrag(m) \in Frags
  BY FragsAre
<1>2. j \in CallFrag(m).base + 1 .. CallFrag(m).top /\ CallFrag(m).at[j] = m.entries[j - m.prevLogIndex]
  BY CallFragIs
<1> QED BY <1>1, <1>2 DEF EntryIn

\* Leader s has a new entry of term t at j.
NewEntry(j, t) == \E s \in Server : Proposes(s) /\ t = currentTerm[s] /\ j = last'[s]

\* Where the entries of a log come from.
LEMMA NodeEntryFrom ==
    ASSUME TypeOK, Matched, NEW s \in Server, LogStepOf(s), NEW j, j \in 1 .. last'[s]
    PROVE  EntryIn(j, full'[s][j].term) \/ NewEntry(j, full'[s][j].term)
<1> DEFINE a == NodeFrag(s)'
<1>0. a.base = 0 /\ a.top = last'[s] /\ a.at = full'[s]
  BY FragsAreNext
<1>1. NodeFrag(s).base = 0 /\ NodeFrag(s).top = last[s] /\ NodeFrag(s).at = full[s]
  BY FragsAre
<1>a. FragOK(NodeFrag(s)) /\ FragOK(CommittedFrag)
  BY FragsAre DEF Matched, AllMatch
<1>b. last[s] \in Nat /\ j \in Nat
  BY <1>1, <1>a, FragTypes
<1> HIDE DEF a
<1>2. CASE Kept(s)
  BY <1>2, NodeEntry DEF Kept
<1>3. CASE Proposes(s)
  <2>1. Extended(a, NodeFrag(s), currentTerm[s])
    BY <1>3 DEF Proposes, a
  <2>2. CASE j <= last[s]
    <3>1. full'[s][j] = full[s][j]
      BY <1>0, <1>1, <1>b, <2>1, <2>2 DEF Extended
    <3> QED BY <1>b, <2>2, <3>1, NodeEntry
  <2>3. CASE j > last[s]
    <3>1. j = last'[s] /\ full'[s][j].term = currentTerm[s]
      BY <1>0, <1>1, <1>b, <2>1, <2>3 DEF Extended
    <3> QED BY <1>3, <3>1 DEF NewEntry
  <2> QED BY <1>b, <2>2, <2>3
<1>4. CASE \E m \in Appends : m.dst = s /\ m.entries # <<>> /\ Accepts(m)
  <2>1. PICK m \in Appends : m.dst = s /\ m.entries # <<>> /\ Accepts(m)
    BY <1>4
  <2>2. Spliced(a, NodeFrag(s), CallFrag(m))
    BY <2>1 DEF Accepts, a
  <2>3. /\ m.prevLogIndex \in Nat /\ Top(m) \in Nat /\ CallFrag(m).base = m.prevLogIndex
        /\ CallFrag(m).top = Top(m)
        /\ \A k \in m.prevLogIndex + 1 .. Top(m) : CallFrag(m).at[k] = m.entries[k - m.prevLogIndex]
    BY CallsAre, CallTypes, CallFragIs
  <2>4. CASE j <= m.prevLogIndex
    <3>1. full'[s][j] = full[s][j] /\ j <= last[s]
      BY <1>0, <1>1, <1>b, <2>2, <2>3, <2>4 DEF Spliced
    <3> QED BY <1>b, <3>1, NodeEntry
  <2>5. CASE j > m.prevLogIndex
    <3>1. full'[s][j] = m.entries[j - m.prevLogIndex] /\ j \in m.prevLogIndex + 1 .. Top(m)
      BY <1>0, <1>1, <1>b, <2>2, <2>3, <2>5 DEF Spliced
    <3> QED BY <3>1, CallEntry
  <2> QED BY <1>b, <2>3, <2>4, <2>5
<1>5. CASE \E m \in Installs : m.dst = s /\ Adopts(m) /\ Replaces(m)
  <2>1. Cut(a, CommittedFrag)
    BY <1>5 DEF Replaces, a
  <2>2. j \in 1 .. Len(committed) /\ full'[s][j] = committed[j]
    BY <1>0, <1>a, <1>b, <2>1, FragsAre DEF Cut, FragOK
  <2> QED BY <2>2, CommittedEntry
<1> QED BY <1>2, <1>3, <1>4, <1>5 DEF LogStepOf

\* Where the entries of all fragments come from.
LEMMA EntryFrom ==
    ASSUME TypeOK, TypeOK', Matched, LogsStep, CommittedStep, SendStep,
           NEW j \in Nat, NEW t \in Nat, EntryIn(j, t)'
    PROVE  EntryIn(j, t) \/ NewEntry(j, t)
<1>1. PICK a \in Frags' : j \in a.base + 1 .. a.top /\ a.at[j].term = t
  BY DEF EntryIn
<1>2. ASSUME NEW s \in Server, j \in 1 .. last'[s], full'[s][j].term = t
      PROVE  EntryIn(j, t) \/ NewEntry(j, t)
  BY <1>2, NodeEntryFrom DEF LogsStep
<1>3. CASE \E s \in Server : a = NodeFrag(s)'
  <2>1. PICK s \in Server : a = NodeFrag(s)'
    BY <1>3
  <2>2. j \in 1 .. last'[s] /\ full'[s][j].term = t
    BY <1>1, <2>1, FragsAreNext
  <2> QED BY <1>2, <2>2
<1>4. CASE a = CommittedFrag'
  <2>1. j \in 1 .. Len(committed') /\ committed'[j].term = t
    BY <1>1, <1>4, FragsAreNext
  <2>2. CASE committed' = committed
    BY <2>1, <2>2, CommittedEntry
  <2>3. CASE committed' # committed
    <3>1. PICK s \in Server, n \in Nat : Advances(s, n) /\ n = Len(committed')
      BY <2>3 DEF CommittedStep
    <3>2. FragOK(NodeFrag(s)) /\ last'[s] \in Nat
      BY FragsAre DEF Matched, AllMatch, TypeOK, LogTypeOK, last, LastLogIndex
    <3>3. j \in 1 .. last'[s] /\ full'[s][j].term = t
      BY <2>1, <3>1, <3>2 DEF Advances
    <3> QED BY <1>2, <3>3
  <2> QED BY <2>2, <2>3
<1>5. CASE \E m \in Appends' : a = CallFrag(m)
  <2>1. PICK m \in Appends' : a = CallFrag(m)
    BY <1>5
  <2>2. j \in m.prevLogIndex + 1 .. Top(m) /\ m.entries[j - m.prevLogIndex].term = t
    BY <1>1, <2>1, CallFragIs
  <2>3. CASE m \in Appends
    BY <2>2, <2>3, CallEntry
  <2>4. CASE m \notin Appends
    <3>1. Cut(CallFrag(m), NodeFrag(m.src)) /\ m.src \in Server
      BY <2>4, CallsAreNext, CallTypes DEF SendStep, SendsEntries
    <3>2. NodeFrag(m.src) \in Frags /\ NodeFrag(m.src).base = 0
      BY <3>1, FragsAre
    <3>3. FragOK(NodeFrag(m.src))
      BY <3>2 DEF Matched, AllMatch
    <3>4. j \in NodeFrag(m.src).base + 1 .. NodeFrag(m.src).top /\ NodeFrag(m.src).at[j].term = t
      BY <1>1, <2>1, <3>1, <3>2, <3>3 DEF Cut, FragOK
    <3> QED BY <3>2, <3>4 DEF EntryIn
  <2> QED BY <2>3, <2>4
<1> QED BY <1>3, <1>4, <1>5, FragsAreNext

\* Nodes' logs and terms are of the expected kind.
LEMMA LogFacts ==
    ASSUME TypeOK, Matched, NEW s \in Server
    PROVE  /\ last[s] \in Nat /\ currentTerm[s] \in Nat /\ Len(committed) \in Nat
           /\ \A i \in 1 .. last[s] : full[s][i] \in Entry /\ full[s][i].term \in Nat /\ full[s][i].term > 0
           /\ \A i, j \in 1 .. last[s] : i <= j => full[s][i].term <= full[s][j].term
           /\ \A i \in 1 .. Len(committed) : committed[i].term \in Nat /\ committed[i].term > 0
           /\ \A i, j \in 1 .. Len(committed) : i <= j => committed[i].term <= committed[j].term
<1>1. FragOK(NodeFrag(s)) /\ FragOK(CommittedFrag)
  BY FragsAre DEF Matched, AllMatch
<1>2. /\ NodeFrag(s).base = 0 /\ NodeFrag(s).top = last[s] /\ NodeFrag(s).at = full[s]
      /\ CommittedFrag.base = 0 /\ CommittedFrag.top = Len(committed) /\ CommittedFrag.at = committed
  BY FragsAre
<1>3. currentTerm[s] \in Nat
  BY DEF TypeOK, TermTypeOK
<1> QED BY <1>1, <1>2, <1>3 DEF FragOK, Entry

\* The same after a step.
LEMMA LogFactsNext ==
    ASSUME TypeOK', Matched', NEW s \in Server
    PROVE  /\ last'[s] \in Nat /\ currentTerm'[s] \in Nat /\ Len(committed') \in Nat
           /\ \A i \in 1 .. last'[s] : full'[s][i] \in Entry /\ full'[s][i].term \in Nat /\ full'[s][i].term > 0
           /\ \A i, j \in 1 .. last'[s] : i <= j => full'[s][i].term <= full'[s][j].term
           /\ \A i \in 1 .. Len(committed') : committed'[i].term \in Nat /\ committed'[i].term > 0
           /\ \A i, j \in 1 .. Len(committed') : i <= j => committed'[i].term <= committed'[j].term
<1>1. FragOK(NodeFrag(s)') /\ FragOK(CommittedFrag')
  BY FragsAreNext DEF Matched, AllMatch
<1>2. /\ NodeFrag(s)'.base = 0 /\ NodeFrag(s)'.top = last'[s] /\ NodeFrag(s)'.at = full'[s]
      /\ CommittedFrag'.base = 0 /\ CommittedFrag'.top = Len(committed') /\ CommittedFrag'.at = committed'
  BY FragsAreNext
<1>3. currentTerm'[s] \in Nat
  BY DEF TypeOK, TermTypeOK
<1> QED BY <1>1, <1>2, <1>3 DEF FragOK, Entry

\* What an accepted call leaves in the log.
LEMMA SplicedLog ==
    ASSUME TypeOK, NEW m \in Appends, m.entries # <<>>, Accepts(m)
    PROVE  /\ last'[m.dst] = Top(m) /\ m.prevLogIndex <= last[m.dst]
           /\ \A k \in 1 .. m.prevLogIndex : full'[m.dst][k] = full[m.dst][k]
           /\ \A k \in m.prevLogIndex + 1 .. Top(m) :
                 full'[m.dst][k] = m.entries[k - m.prevLogIndex]
<1> DEFINE a == NodeFrag(m.dst)'
<1>1. m.dst \in Server
  BY CallsAre, CallTypes
<1>2. Spliced(a, NodeFrag(m.dst), CallFrag(m))
  BY DEF Accepts
<1>3. a.base = 0 /\ a.top = last'[m.dst] /\ a.at = full'[m.dst]
  BY <1>1, FragsAreNext
<1> HIDE DEF a
<1> QED BY <1>1, <1>2, <1>3, FragsAre, CallFragIs DEF Spliced

\* What a snapshot leaves in the log it replaces.
LEMMA ReplacedLog ==
    ASSUME TypeOK, NEW m \in Installs, Replaces(m)
    PROVE  /\ last'[m.dst] = m.lastIncludedIndex /\ m.lastIncludedIndex <= Len(committed)
           /\ \A k \in 1 .. m.lastIncludedIndex : full'[m.dst][k] = committed[k]
<1> DEFINE a == NodeFrag(m.dst)'
<1>1. m.dst \in Server
  BY CallsAre, CallTypes
<1>2. Cut(a, CommittedFrag) /\ last'[m.dst] = m.lastIncludedIndex
  BY DEF Replaces
<1>3. a.base = 0 /\ a.top = last'[m.dst] /\ a.at = full'[m.dst]
  BY <1>1, FragsAreNext
<1> HIDE DEF a
<1> QED BY <1>1, <1>2, <1>3, FragsAre DEF Cut

\* What a proposal leaves in the leader's log.
LEMMA ExtendedLog ==
    ASSUME NEW s \in Server, Proposes(s)
    PROVE  /\ last'[s] = last[s] + 1 /\ full'[s][last'[s]].term = currentTerm[s]
           /\ \A k \in 1 .. last[s] : full'[s][k] = full[s][k]
<1> DEFINE a == NodeFrag(s)'
<1>1. Extended(a, NodeFrag(s), currentTerm[s])
  BY DEF Proposes
<1>2. a.base = 0 /\ a.top = last'[s] /\ a.at = full'[s]
  BY FragsAreNext
<1> HIDE DEF a
<1> QED BY <1>1, <1>2, FragsAre DEF Extended

\* A leader's log only grows, a candidate's does not change.
LEMMA LeaderLog ==
    ASSUME TypeOK, Matched, NEW s \in Server, LogStepOf(s)
    PROVE  /\ state'[s] = Leader => Grown(s)
           /\ state'[s] = Candidate => Kept(s)
<1>1. last[s] \in Nat
  BY LogFacts
<1>2. Kept(s) => Grown(s)
  BY <1>1 DEF Kept, Grown
<1>3. Proposes(s) => Grown(s) /\ state'[s] = Leader
  BY <1>1, ExtendedLog DEF Proposes, Grown
<1> QED BY <1>2, <1>3 DEF LogStepOf, Accepts, Adopts, Handled, Leader, Follower, Candidate

\* TermsBounded is preserved.
LEMMA TermsBoundedKept ==
    ASSUME TypeOK, TypeOK', Step, Matched, TermsBounded, CallsKnown, LogsStep, SendStep
    PROVE  TermsBounded'
<1>1. ASSUME NEW s \in Server, NEW i \in 1 .. last'[s]
      PROVE  full'[s][i].term <= currentTerm'[s]
  <2>0. /\ last[s] \in Nat /\ currentTerm[s] \in Nat /\ currentTerm'[s] \in Nat
        /\ currentTerm[s] <= currentTerm'[s]
        /\ \A k \in 1 .. last[s] : full[s][k].term \in Nat /\ full[s][k].term <= currentTerm[s]
    BY LogFacts DEF TypeOK, TermTypeOK, Step, NodeStep, TermsBounded
  <2>1. CASE Kept(s)
    BY <2>0, <2>1 DEF Kept
  <2>2. CASE Proposes(s)
    <3>1. CASE i <= last[s]
      BY <2>0, <2>2, <3>1, ExtendedLog
    <3>2. CASE i > last[s]
      <4>1. i = last'[s]
        BY <2>0, <2>2, <3>2, ExtendedLog
      <4> QED BY <2>0, <2>2, <4>1, ExtendedLog
    <3> QED BY <2>0, <3>1, <3>2
  <2>3. CASE \E m \in Appends : m.dst = s /\ m.entries # <<>> /\ Accepts(m)
    <3>1. PICK m \in Appends : m.dst = s /\ m.entries # <<>> /\ Accepts(m)
      BY <2>3
    <3>2. m.prevLogIndex \in Nat /\ m.entries \in Seq(Entry) /\ m.term = currentTerm'[s] /\ Top(m) = m.prevLogIndex + Len(m.entries)
      BY <3>1, CallsAre, CallTypes DEF Accepts, Handled, Top
    <3>3. CASE i <= m.prevLogIndex
      BY <2>0, <3>1, <3>2, <3>3, SplicedLog
    <3>4. CASE i > m.prevLogIndex
      <4>1. i - m.prevLogIndex \in DOMAIN m.entries /\ full'[s][i] = m.entries[i - m.prevLogIndex]
        BY <2>0, <3>1, <3>2, <3>4, SplicedLog
      <4> QED BY <3>2, <4>1 DEF TermsBounded
    <3> QED BY <3>2, <3>3, <3>4
  <2>4. CASE \E m \in Installs : m.dst = s /\ Adopts(m) /\ Replaces(m)
    <3>1. PICK m \in Installs : m.dst = s /\ Adopts(m) /\ Replaces(m)
      BY <2>4
    <3>2. /\ i \in 1 .. m.lastIncludedIndex /\ full'[s][i] = committed[i] /\ m.lastIncludedIndex \in Nat
          /\ m.term = currentTerm'[s]
      BY <3>1, ReplacedLog, CallsAre, CallTypes DEF Adopts, Handled
    <3>3. PICK j \in m.lastIncludedIndex .. Len(committed) : committed[j].term <= m.term
      BY <3>2 DEF CallsKnown, KnownBy
    <3>4. i \in 1 .. Len(committed) /\ j \in 1 .. Len(committed) /\ i <= j
      BY <3>2, LogFacts
    <3>5. committed[i].term <= committed[j].term /\ committed[i].term \in Nat /\ committed[j].term \in Nat
      BY <3>4, LogFacts
    <3>6. m.term \in Nat
      BY <2>0, <3>2
    <3>7. committed[i].term <= m.term
      BY <3>3, <3>5, <3>6
    <3> QED BY <3>2, <3>7
  <2> QED BY <2>1, <2>2, <2>3, <2>4 DEF LogsStep, LogStepOf
<1>2. ASSUME NEW m \in Appends', NEW k \in DOMAIN m.entries
      PROVE  m.entries[k].term <= m.term
  <2>1. CASE m \in Appends
    BY <1>2, <2>1 DEF TermsBounded
  <2>2. CASE m \notin Appends
    <3>1. /\ m.src \in Server /\ m.prevLogIndex \in Nat /\ Top(m) = m.prevLogIndex + Len(m.entries)
          /\ k \in Nat /\ k >= 1 /\ k <= Len(m.entries) /\ Len(m.entries) \in Nat
      BY <1>2, CallsAreNext, CallTypes DEF Top
    <3>2. Cut(CallFrag(m), NodeFrag(m.src)) /\ m.term = currentTerm[m.src]
      BY <2>2 DEF SendStep, SendsEntries, Calls
    <3>3. PICK i \in m.prevLogIndex + 1 .. Top(m) : i - m.prevLogIndex = k
      <4>1. ASSUME NEW a \in Nat, NEW b \in Nat, NEW l \in Nat, b <= l, b >= 1
            PROVE  a + b \in a + 1 .. a + l /\ (a + b) - a = b
        BY <4>1
      <4> QED BY <3>1, <4>1
    <3>4. i \in 1 .. last[m.src] /\ full[m.src][i] = m.entries[k]
      <4>1. /\ NodeFrag(m.src).top = last[m.src] /\ NodeFrag(m.src).at = full[m.src]
            /\ last[m.src] \in Nat
        BY <3>1, FragsAre, LogFacts
      <4>2. /\ CallFrag(m).base = m.prevLogIndex /\ CallFrag(m).top = Top(m)
            /\ CallFrag(m).at[i] = m.entries[k]
        BY <3>3, CallFragIs
      <4> QED BY <3>1, <3>2, <3>3, <4>1, <4>2 DEF Cut
    <3> QED BY <3>1, <3>2, <3>4 DEF TermsBounded
  <2> QED BY <2>1, <2>2
<1> QED BY <1>1, <1>2 DEF TermsBounded

\* Where entries can be.
LEMMA EntryPlace ==
    ASSUME Matched, NEW j, NEW t, EntryIn(j, t)
    PROVE  j \in Nat /\ j >= 1 /\ t \in Nat
<1>1. PICK a \in Frags : j \in a.base + 1 .. a.top /\ a.at[j].term = t
  BY DEF EntryIn
<1>2. FragOK(a)
  BY DEF Matched, AllMatch
<1> QED BY <1>1, <1>2, FragTypes

\* Nobody wins a term that has entries or calls.
LEMMA WinnerNew ==
    ASSUME TypeOK, Matched, Closed, NEW s \in Server, Wins(s)
    PROVE  /\ ~Over(currentTerm[s])
           /\ \A j : ~EntryIn(j, currentTerm[s])
           /\ \A m \in Appends \cup Installs : m.term # currentTerm[s]
<1>1. ~Over(currentTerm[s])
  BY OverNotWon DEF Wins
<1>2. currentTerm[s] \in Nat
  BY LogFacts
<1>3. ASSUME NEW j, EntryIn(j, currentTerm[s]) PROVE FALSE
  <2>1. j \in Nat
    BY <1>3, EntryPlace
  <2> QED BY <1>1, <1>2, <1>3, <2>1 DEF Closed
<1> QED BY <1>1, <1>3 DEF Closed

\* LeaderHasOwn is preserved.
LEMMA LeaderHasOwnKept ==
    ASSUME TypeOK, TypeOK', ElectionInv, ElectionSafety, Matched, Matched', LeaderHasOwn, Closed,
           LogsStep, CommittedStep, SendStep, RoleStep
    PROVE  LeaderHasOwn'
<1> SUFFICES ASSUME NEW s \in Server, state'[s] = Leader, NEW j \in Nat, EntryIn(j, currentTerm[s])'
             PROVE  j <= last'[s] /\ full'[s][j].term = currentTerm'[s]
  BY DEF LeaderHasOwn
<1>1. currentTerm'[s] = currentTerm[s] /\ (state[s] = Leader \/ Wins(s))
  BY DEF RoleStep
<1> DEFINE T == currentTerm[s]
<1>2. T \in Nat /\ last[s] \in Nat
  BY LogFacts
<1>3. EntryIn(j, T)'
  BY <1>1
<1>4. PICK t : t = T
  OBVIOUS
<1>5. EntryIn(j, t)'
  BY <1>1, <1>4
<1>6. EntryIn(j, t) \/ NewEntry(j, t)
  BY <1>2, <1>4, <1>5, EntryFrom
<1>7. Grown(s)
  BY LeaderLog DEF LogsStep
<1>8. CASE state[s] = Leader
  <2>1. CASE EntryIn(j, T)
    <3>1. j <= last[s] /\ full[s][j].term = T /\ j >= 1
      BY <1>8, <2>1, EntryPlace DEF LeaderHasOwn
    <3>2. last[s] <= last'[s] /\ full'[s][j] = full[s][j]
      BY <1>2, <1>7, <3>1 DEF Grown
    <3>3. last'[s] \in Nat
      BY LogFactsNext
    <3> QED BY <1>1, <1>2, <3>1, <3>2, <3>3
  <2>2. CASE NewEntry(j, T)
    <3>1. PICK u \in Server : Proposes(u) /\ T = currentTerm[u] /\ j = last'[u]
      BY <2>2 DEF NewEntry
    <3>2. u = s
      BY <1>8, <3>1 DEF Proposes, ElectionSafety
    <3> QED BY <1>1, <3>1, <3>2, ExtendedLog, LogFactsNext
  <2> QED BY <1>4, <1>6, <2>1, <2>2
<1>9. CASE Wins(s)
  <2>1. CASE EntryIn(j, T)
    BY <1>9, <2>1, WinnerNew
  <2>2. CASE NewEntry(j, T)
    <3>1. PICK u \in Server : Proposes(u) /\ T = currentTerm[u]
      BY <2>2 DEF NewEntry
    <3>2. Over(T)
      BY <3>1, LeaderOver DEF Proposes
    <3> QED BY <1>9, <3>2, WinnerNew
  <2> QED BY <1>4, <1>6, <2>1, <2>2
<1> QED BY <1>1, <1>8, <1>9

\* Closed is preserved.
LEMMA ClosedKept ==
    ASSUME TypeOK, TypeOK', Step, ElectionInv, ElectionInv', Matched, Closed,
           ClaimStep, LogsStep, CommittedStep, SendStep
    PROVE  Closed'
<1>1. ASSUME NEW j \in Nat, NEW t \in Nat, EntryIn(j, t)' PROVE Over(t)'
  <2>1. CASE EntryIn(j, t)
    <3>1. Over(t)
      BY <2>1 DEF Closed
    <3> QED BY <3>1, OverKept
  <2>2. CASE NewEntry(j, t)
    <3>1. PICK s \in Server : Proposes(s) /\ t = currentTerm[s]
      BY <2>2 DEF NewEntry
    <3>2. Over(t)
      BY <3>1, LeaderOver DEF Proposes
    <3> QED BY <3>2, OverKept
  <2> QED BY <1>1, <2>1, <2>2, EntryFrom
<1>2. ASSUME NEW m \in Appends' \cup Installs' PROVE Over(m.term)'
  <2>0. m.term \in Nat
    BY CallsAreNext, CallTypes
  <2>1. CASE m \in Appends \cup Installs
    BY <2>0, <2>1, OverKept DEF Closed
  <2>2. CASE m \notin Appends \cup Installs
    <3>1. Calls(m) /\ m.src \in Server
      BY <2>2, CallsAreNext, CallTypes DEF SendStep, SendsEntries, SendsSnapshot
    <3>2. Over(m.term)
      BY <3>1, LeaderOver DEF Calls
    <3> QED BY <2>0, <3>2, OverKept
  <2> QED BY <2>1, <2>2
<1> QED BY <1>1, <1>2 DEF Closed

\* The calls of a term come from its leader, one at a time.
LEMMA OriginKept ==
    ASSUME TypeOK, TypeOK', ElectionSafety, ElectionSafety', Matched, Closed, Origin, OneCallPerTerm, CallEpochs,
           SendStep, RoleStep
    PROVE  Origin' /\ OneCallPerTerm'
<1>1. ASSUME NEW s \in Server, state'[s] = Leader, NEW m \in Appends' \cup Installs',
             m.term = currentTerm'[s]
      PROVE  m.src = s
  <2>1. currentTerm'[s] = currentTerm[s] /\ (state[s] = Leader \/ Wins(s))
    BY <1>1 DEF RoleStep
  <2>2. CASE m \in Appends \cup Installs
    BY <1>1, <2>1, <2>2, WinnerNew DEF Origin
  <2>3. CASE m \notin Appends \cup Installs
    <3>1. Calls(m) /\ m.src \in Server
      BY <2>3, CallsAreNext, CallTypes DEF SendStep, SendsEntries, SendsSnapshot
    <3>2. state'[m.src] = Leader /\ currentTerm'[m.src] = currentTerm'[s]
      BY <1>1, <3>1 DEF Calls
    <3> QED BY <1>1, <3>1, <3>2 DEF ElectionSafety
  <2> QED BY <2>2, <2>3
<1>2. ASSUME NEW m \in Appends' \cup Installs', NEW r \in Appends' \cup Installs',
             m.term = r.term, m.dst = r.dst, r \in Appends \cup Installs, m \notin Appends \cup Installs
      PROVE  FALSE
  <2>1. Calls(m) /\ m.src \in Server
    BY <1>2, CallsAreNext, CallTypes DEF SendStep, SendsEntries, SendsSnapshot
  <2>2. r.src = m.src
    BY <1>2, <2>1 DEF Calls, Origin
  <2>3. r.epoch = epoch[r.src] /\ r \in rpcs /\ r.type \in {"AppendEntries", "InstallSnapshot"}
    BY <1>2, <2>1, <2>2 DEF CallEpochs, Calls, Appends, Installs, Leader, Follower
  <2>4. IsCall(r, m.src, m.dst)
    BY <1>2, <2>2, <2>3 DEF IsCall
  <2> QED BY <2>1, <2>3, <2>4 DEF Calls
<1>3. ASSUME NEW m \in Appends' \cup Installs', NEW r \in Appends' \cup Installs',
             m.term = r.term, m.dst = r.dst
      PROVE  m = r
  <2>1. CASE m \in Appends \cup Installs /\ r \in Appends \cup Installs
    BY <1>3, <2>1 DEF OneCallPerTerm
  <2>2. CASE m \notin Appends \cup Installs /\ r \notin Appends \cup Installs
    BY <2>2 DEF SendStep, Appends, Installs
  <2> QED BY <1>2, <1>3, <2>1, <2>2
<1> QED BY <1>1, <1>3 DEF Origin, OneCallPerTerm
=============================================================================
