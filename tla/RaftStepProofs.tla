--------------------------- MODULE RaftStepProofs ---------------------------
(***************************************************************************)
(* Commitment: a LogStep keeps LogInv.  An entry that a majority has       *)
(* acknowledged, or could still acknowledge in its term, is locked; no log *)
(* without it can win a later election, so no later call replaces it, and  *)
(* what leaders have committed is a prefix of every later leader's log.    *)
(***************************************************************************)
EXTENDS RaftProofs

CallInv == VotesBounded /\ RequestCurrent /\ OneCall /\ CallEpochs /\ ApplyBounded

LogInv ==
    /\ SnapshotTerm /\ Matched /\ TermsBounded /\ LeaderHasOwn /\ Closed
    /\ Origin /\ OneCallPerTerm /\ CallShape /\ AckTrue /\ LeaderSafe
    /\ CommitKnown /\ CallsKnown /\ NextAboveCommit

(***************************************************************************)
(* What a majority has acknowledged, or could, stays.                      *)
(***************************************************************************)

\* f through n is cut from some log, and its entry n is of term T.
IsPrefix(f, n, T) ==
    /\ n \in Nat \ {0} /\ T \in Nat /\ f[n].term = T
    /\ \E c \in Frags : /\ c.base = 0 /\ c.trm = 0 /\ n <= c.top
                        /\ \A k \in 1 .. n : c.at[k] = f[k]

\* A log that has one of f's terms at f's index agrees with f so far.
LEMMA PrefixMatch ==
    ASSUME TypeOK, Matched, NEW f, NEW n, NEW T, IsPrefix(f, n, T), NEW s \in Server,
           NEW i \in 1 .. last[s], NEW j \in 1 .. n, j <= i, full[s][i].term = f[j].term
    PROVE  \A k \in 1 .. j : full[s][k] = f[k]
<1>1. PICK c \in Frags : /\ c.base = 0 /\ c.trm = 0 /\ n <= c.top
                         /\ \A k \in 1 .. n : c.at[k] = f[k]
  BY DEF IsPrefix
<1>2. /\ FragOK(c) /\ Match(NodeFrag(s), c) /\ NodeFrag(s).base = 0
      /\ NodeFrag(s).top = last[s] /\ NodeFrag(s).at = full[s]
  BY FragsAre DEF Matched, AllMatch
<1>3. n \in Nat /\ c.top \in Nat
  BY <1>2 DEF FragOK, IsPrefix
<1>4. i \in NodeFrag(s).base + 1 .. NodeFrag(s).top /\ j \in c.base + 1 .. c.top
  BY <1>1, <1>2, <1>3
<1>5. NodeFrag(s).at[i].term = c.at[j].term
  BY <1>1, <1>2, <1>3
<1>6. \A k \in c.base + 1 .. j : k > NodeFrag(s).base => NodeFrag(s).at[k] = c.at[k]
  BY <1>2, <1>4, <1>5, MatchAt
<1> QED BY <1>1, <1>2, <1>3, <1>6

\* Terms grow along f.
LEMMA PrefixTerms ==
    ASSUME Matched, NEW f, NEW n, NEW T, IsPrefix(f, n, T)
    PROVE  /\ n \in Nat /\ n >= 1 /\ T \in Nat /\ f[n].term = T
           /\ \A k \in 1 .. n : f[k].term \in Nat /\ f[k].term <= T
<1>1. PICK c \in Frags : /\ c.base = 0 /\ c.trm = 0 /\ n <= c.top
                         /\ \A k \in 1 .. n : c.at[k] = f[k]
  BY DEF IsPrefix
<1>2. FragOK(c)
  BY DEF Matched, AllMatch
<1> QED BY <1>1, <1>2 DEF FragOK, IsPrefix, Entry

\* The last entry decides: a log that ends in a term T or later, and is long
\* enough if it ends in T, has f.
LEMMA LockedEnd ==
    ASSUME TypeOK, Matched, NEW f, NEW n, NEW T, IsPrefix(f, n, T), Locked(f, n, T),
           NEW s \in Server, NEW i \in 1 .. last[s], full[s][i].term >= T,
           full[s][i].term = T => n <= i
    PROVE  Agrees(s, f, n)
<1>1. full[s][i].term \in Nat /\ last[s] \in Nat /\ n \in Nat /\ n >= 1 /\ T \in Nat /\ f[n].term = T
  BY LogFacts, PrefixTerms
<1>2. CASE full[s][i].term > T
  BY <1>2 DEF Locked
<1>3. CASE full[s][i].term = T
  <2>1. n \in 1 .. n /\ n <= i /\ full[s][i].term = f[n].term
    BY <1>1, <1>3
  <2>2. \A k \in 1 .. n : full[s][k] = f[k]
    BY <2>1, PrefixMatch
  <2> QED BY <1>1, <2>1, <2>2 DEF Agrees
<1> QED BY <1>1, <1>2, <1>3

\* What accepting a call of term T or later does to a log: it has f, if the
\* call reaches n.
LEMMA AcceptAgrees ==
    ASSUME TypeOK, Matched, NEW f, NEW n, NEW T, IsPrefix(f, n, T), Locked(f, n, T),
           NEW m \in Appends, m.term >= T, Consistent(m), NEW x \in 0 .. n, x <= Top(m)
    PROVE  /\ \A k \in 1 .. x : k <= m.prevLogIndex => full[m.dst][k] = f[k]
           /\ \A k \in 1 .. x : k > m.prevLogIndex => m.entries[k - m.prevLogIndex] = f[k]
<1>0. /\ m.dst \in Server /\ m.prevLogIndex \in Nat /\ Top(m) \in Nat /\ m.prevLogTerm \in Nat
      /\ n \in Nat /\ n >= 1 /\ T \in Nat /\ f[n].term = T /\ last[m.dst] \in Nat /\ x \in Nat
  BY CallsAre, CallTypes, PrefixTerms, LogFacts
<1>1. CallAgrees(m, f, n, T)
  BY DEF Locked
<1>2. \A k \in 1 .. x : k > m.prevLogIndex => m.entries[k - m.prevLogIndex] = f[k]
  BY <1>0, <1>1 DEF CallAgrees
<1>3. CASE m.prevLogIndex = 0
  BY <1>0, <1>2, <1>3
<1>4. CASE m.prevLogIndex \in 1 .. n
  <2>1. m.prevLogIndex \in 1 .. last[m.dst] /\ full[m.dst][m.prevLogIndex].term = f[m.prevLogIndex].term
    BY <1>0, <1>1, <1>4 DEF Consistent, CallAgrees
  <2>2. \A k \in 1 .. m.prevLogIndex : full[m.dst][k] = f[k]
    BY <1>0, <1>4, <2>1, PrefixMatch
  <2> QED BY <1>0, <1>2, <2>2
<1>5. CASE m.prevLogIndex > n
  <2>1. m.prevLogIndex \in 1 .. last[m.dst] /\ full[m.dst][m.prevLogIndex].term >= T
    BY <1>0, <1>1, <1>5 DEF Consistent, CallAgrees
  <2>2. Agrees(m.dst, f, n)
    BY <1>0, <1>5, <2>1, LockedEnd
  <2> QED BY <1>0, <1>2, <2>2 DEF Agrees
<1> QED BY <1>0, <1>3, <1>4, <1>5

\* The code's view of a compacted log: terms, and the entries it still has.
LEMMA FullLog ==
    ASSUME TypeOK, SnapshotTerm, CompactedApplied, CommitRecorded, NEW s \in Server
    PROVE  /\ last[s] = LastLogIndex(s) /\ last[s] \in Nat
           /\ lastIncludedIndex[s] \in Nat /\ lastIncludedIndex[s] <= last[s]
           /\ lastIncludedIndex[s] <= Len(committed)
           /\ \A i \in 1 .. last[s] : i <= lastIncludedIndex[s] => full[s][i] = committed[i]
           /\ \A i \in lastIncludedIndex[s] + 1 .. last[s] :
                 /\ full[s][i] = log[s][i - lastIncludedIndex[s]]
                 /\ i - lastIncludedIndex[s] \in 1 .. Len(log[s])
           /\ \A i \in 1 .. last[s] : TermKnown(s, i) => TermAt(s, i) = full[s][i].term
           /\ LastLogTerm(s) = IF last[s] = 0 THEN 0 ELSE full[s][last[s]].term
<1>1. /\ lastIncludedIndex[s] \in Nat /\ log[s] \in Seq(Entry) /\ Len(log[s]) \in Nat
      /\ lastApplied[s] \in Nat /\ lastIncludedIndex[s] <= lastApplied[s]
      /\ lastApplied[s] <= Len(committed) /\ Len(committed) \in Nat
  BY DEF TypeOK, LogTypeOK, ApplyTypeOK, CommitTypeOK, CompactedApplied, CommitRecorded
<1>2. last[s] = LastLogIndex(s) /\ LastLogIndex(s) = lastIncludedIndex[s] + Len(log[s])
  BY DEF last, LastLogIndex
<1>3. full[s] = [i \in 1 .. LastLogIndex(s) |->
            IF i <= lastIncludedIndex[s] THEN committed[i]
            ELSE log[s][i - lastIncludedIndex[s]]]
  BY DEF full
<1>4. \A i \in 1 .. last[s] : i <= lastIncludedIndex[s] => full[s][i] = committed[i]
  BY <1>1, <1>2, <1>3
<1>5. \A i \in lastIncludedIndex[s] + 1 .. last[s] :
                 /\ full[s][i] = log[s][i - lastIncludedIndex[s]]
                 /\ i - lastIncludedIndex[s] \in 1 .. Len(log[s])
  BY <1>1, <1>2, <1>3
<1>6. lastIncludedTerm[s] = IF lastIncludedIndex[s] = 0 THEN 0 ELSE committed[lastIncludedIndex[s]].term
  BY DEF SnapshotTerm
<1>7. \A i \in 1 .. last[s] : TermKnown(s, i) => TermAt(s, i) = full[s][i].term
  <2> SUFFICES ASSUME NEW i \in 1 .. last[s], TermKnown(s, i) PROVE TermAt(s, i) = full[s][i].term
    OBVIOUS
  <2>1. i \in Nat /\ i >= lastIncludedIndex[s]
    BY <1>1, <1>2 DEF TermKnown
  <2>2. CASE i = lastIncludedIndex[s]
    BY <1>1, <1>4, <1>6, <2>2 DEF TermAt
  <2>3. CASE i > lastIncludedIndex[s]
    <3>1. i \in lastIncludedIndex[s] + 1 .. last[s] /\ i # lastIncludedIndex[s]
      BY <1>1, <2>1, <2>3
    <3>2. TermAt(s, i) = log[s][i - lastIncludedIndex[s]].term
      BY <3>1 DEF TermAt, physicalIndex
    <3> QED BY <1>5, <3>1, <3>2
  <2> QED BY <1>1, <2>1, <2>2, <2>3
<1>8. LastLogTerm(s) = IF last[s] = 0 THEN 0 ELSE full[s][last[s]].term
  <2>1. CASE log[s] = <<>>
    <3>1. last[s] = lastIncludedIndex[s] /\ LastLogTerm(s) = lastIncludedTerm[s]
      BY <1>1, <1>2, <2>1 DEF LastLogTerm
    <3> QED BY <1>1, <1>4, <1>6, <3>1
  <2>2. CASE log[s] # <<>>
    <3>1. Len(log[s]) > 0
      BY <1>1, <2>2
    <3>2. last[s] \in lastIncludedIndex[s] + 1 .. last[s] /\ last[s] - lastIncludedIndex[s] = Len(log[s])
      BY <1>1, <1>2, <3>1
    <3> QED BY <1>1, <1>5, <2>2, <3>2 DEF LastLogTerm
  <2> QED BY <2>1, <2>2
<1> QED BY <1>1, <1>2, <1>4, <1>5, <1>7, <1>8

\* A log that grows goes on agreeing.
LEMMA GrownAgrees ==
    ASSUME TypeOK, TypeOK', Matched, Matched', NEW t \in Server, NEW f, NEW n \in Nat,
           Agrees(t, f, n), Grown(t)
    PROVE  Agrees(t, f, n)'
<1>1. last[t] \in Nat /\ last'[t] \in Nat
  BY LogFacts, LogFactsNext
<1> QED BY <1>1 DEF Agrees, Grown

\* A leader of T or later has f: it had, or a voter of its majority holds f.
LEMMA LeaderKeeps ==
    ASSUME TypeOK, TypeOK', ElectionInv, Matched, Matched', Closed, LogsStep, RoleStep,
           NEW f, NEW n, NEW T, IsPrefix(f, n, T), Over(T), NEW A \in SUBSET Server,
           Majority(A \cup {v \in Server : currentTerm[v] <= T}),
           Locked(f, n, T), \A v \in A : Holds(v, f, n, T),
           NEW t \in Server, state'[t] = Leader, currentTerm'[t] >= T
    PROVE  Agrees(t, f, n)'
<1>1. /\ n \in Nat /\ n >= 1 /\ T \in Nat /\ last[t] \in Nat /\ currentTerm[t] \in Nat
      /\ currentTerm'[t] = currentTerm[t]
  BY LogFacts, PrefixTerms DEF RoleStep
<1>2. CASE state[t] = Leader
  <2>1. Agrees(t, f, n)
    BY <1>1, <1>2 DEF Locked
  <2>2. Grown(t)
    BY LeaderLog DEF LogsStep
  <2> QED BY <1>1, <2>1, <2>2, GrownAgrees
<1>3. CASE Wins(t)
  <2>1. currentTerm[t] > T
    BY <1>1, <1>3, WinnerNew
  <2>2. PICK Q \in SUBSET Server : Majority(Q) /\ \A v \in Q : v = t \/ Claims(t, v, currentTerm[t])
    BY <1>3 DEF Wins
  <2>3. PICK v \in Server : v \in Q /\ v \in A \cup {u \in Server : currentTerm[u] <= T}
    BY <2>2, MajoritiesMeet
  <2>4. currentTerm[v] \in Nat
    BY LogFacts
  <2>5. v # t /\ ~(currentTerm[v] > T) => ~Claims(t, v, currentTerm[t])
    BY <1>1, <2>1, <2>4 DEF ElectionInv, ClaimsVoted, Voted
  <2>6. v \in A
    BY <1>1, <2>1, <2>2, <2>3, <2>4, <2>5
  <2>7. Agrees(t, f, n)
    BY <1>3, <2>1, <2>2, <2>3, <2>6 DEF Holds, Wins
  <2> QED BY <1>3, <2>7 DEF Wins, Kept, Agrees
<1> QED BY <1>2, <1>3 DEF RoleStep

\* A log with an entry after T has f.
LEMMA LogKeeps ==
    ASSUME TypeOK, TypeOK', Matched, Matched', TermsBounded, LogsStep,
           NEW f, NEW n, NEW T, IsPrefix(f, n, T), Locked(f, n, T),
           NEW t \in Server, NEW i \in 1 .. last'[t], full'[t][i].term > T
    PROVE  Agrees(t, f, n)'
<1>1. /\ n \in Nat /\ n >= 1 /\ T \in Nat /\ last[t] \in Nat /\ currentTerm[t] \in Nat
      /\ last'[t] \in Nat
  BY LogFacts, LogFactsNext, PrefixTerms
<1>2. CASE Kept(t)
  BY <1>2 DEF Kept, Agrees, Locked
<1>3. CASE Proposes(t)
  <2>1. /\ last'[t] = last[t] + 1 /\ full'[t][last'[t]].term = currentTerm[t]
        /\ \A k \in 1 .. last[t] : full'[t][k] = full[t][k]
    BY <1>3, ExtendedLog
  <2>2. CASE i = last'[t]
    BY <1>1, <1>3, <2>1, <2>2 DEF Locked, Proposes, Agrees
  <2>3. CASE i \in 1 .. last[t]
    BY <1>1, <2>1, <2>3 DEF Locked, Agrees
  <2> QED BY <1>1, <2>1, <2>2, <2>3
<1>4. ASSUME NEW m \in Appends, m.dst = t, m.entries # <<>>, Accepts(m) PROVE Agrees(t, f, n)'
  <2>1. /\ last'[t] = Top(m) /\ m.prevLogIndex <= last[t]
        /\ \A k \in 1 .. m.prevLogIndex : full'[t][k] = full[t][k]
        /\ \A k \in m.prevLogIndex + 1 .. Top(m) :
                 full'[t][k] = m.entries[k - m.prevLogIndex]
    BY <1>4, SplicedLog
  <2>2. /\ m.term \in Nat /\ m.prevLogIndex \in Nat /\ m.prevLogIndex < Top(m) /\ Top(m) \in Nat
    BY <1>4, CallsAre, CallTypes
  <2>3. full'[t][i].term \in Nat /\ full'[t][Top(m)].term \in Nat /\ full'[t][i].term <= full'[t][Top(m)].term
    BY <1>1, <2>1, <2>2, LogFactsNext
  <2>4. Top(m) - m.prevLogIndex \in DOMAIN m.entries /\ Top(m) \in m.prevLogIndex + 1 .. Top(m)
    BY <2>2, CallsAre, CallTypes DEF Top
  <2>5. full'[t][Top(m)].term <= m.term
    BY <2>1, <2>4 DEF TermsBounded
  <2>6. m.term > T
    BY <1>1, <2>2, <2>3, <2>5
  <2>7. CallAgrees(m, f, n, T)
    BY <1>1, <2>2, <2>6 DEF Locked
  <2>8. n <= Top(m)
    BY <2>6, <2>7 DEF CallAgrees
  <2>9. /\ \A k \in 1 .. n : k <= m.prevLogIndex => full[t][k] = f[k]
        /\ \A k \in 1 .. n : k > m.prevLogIndex => m.entries[k - m.prevLogIndex] = f[k]
    <3>1. n \in 0 .. n /\ m.term >= T /\ Consistent(m)
      <4>1. Consistent(m)
        BY <1>4 DEF Accepts
      <4> QED BY <1>1, <2>2, <2>6, <4>1
    <3> QED BY <1>4, <2>8, <3>1, AcceptAgrees
  <2> QED BY <1>1, <2>1, <2>2, <2>8, <2>9 DEF Agrees
<1>5. ASSUME NEW m \in Installs, m.dst = t, Replaces(m) PROVE Agrees(t, f, n)'
  <2>1. /\ last'[t] = m.lastIncludedIndex /\ m.lastIncludedIndex <= Len(committed)
        /\ \A k \in 1 .. m.lastIncludedIndex : full'[t][k] = committed[k]
    BY <1>5, ReplacedLog
  <2>2. Len(committed) \in Nat /\ i \in 1 .. Len(committed) /\ committed[i].term > T
    <3>1. Len(committed) \in Nat
      BY LogFacts
    <3>2. i \in 1 .. m.lastIncludedIndex /\ i <= Len(committed)
      BY <1>1, <2>1, <3>1
    <3> QED BY <2>1, <3>1, <3>2
  <2>3. n < i /\ \A k \in 1 .. n : committed[k] = f[k]
    BY <2>2 DEF Locked
  <2> QED BY <1>1, <2>1, <2>2, <2>3 DEF Agrees
<1> QED BY <1>2, <1>3, <1>4, <1>5 DEF LogsStep, LogStepOf

\* A call of T or later carries f.
LEMMA CallKeeps ==
    ASSUME TypeOK, TypeOK', Matched, SendStep,
           NEW f, NEW n, NEW T, IsPrefix(f, n, T), Locked(f, n, T),
           NEW m \in Appends', m.term >= T
    PROVE  CallAgrees(m, f, n, T) /\ (m \notin Appends => n <= Top(m))
<1>1. CASE m \in Appends
  BY <1>1 DEF Locked
<1>2. CASE SendsEntries(m)
  <2>1. /\ state[m.src] = Leader /\ m.term = currentTerm[m.src]
        /\ Cut(CallFrag(m), NodeFrag(m.src)) /\ Top(m) = last[m.src]
        /\ m.prevLogIndex \in Nat /\ m.prevLogIndex <= Top(m)
    BY <1>2, CallFragIs DEF SendsEntries, Calls, Cut
  <2>2. m.src \in Server
    BY CallsAreNext, CallTypes
  <2>3. Agrees(m.src, f, n)
    BY <2>1, <2>2 DEF Locked
  <2>4. /\ n \in Nat /\ n >= 1 /\ T \in Nat /\ f[n].term = T /\ last[m.src] \in Nat
    BY <2>2, LogFacts, PrefixTerms
  <2>5. /\ \A k \in m.prevLogIndex + 1 .. Top(m) : m.entries[k - m.prevLogIndex] = full[m.src][k]
        /\ m.prevLogIndex > 0 => m.prevLogTerm = full[m.src][m.prevLogIndex].term
    <3>1. /\ CallFrag(m).base = m.prevLogIndex /\ CallFrag(m).trm = m.prevLogTerm
          /\ CallFrag(m).top = Top(m)
          /\ \A k \in m.prevLogIndex + 1 .. Top(m) : CallFrag(m).at[k] = m.entries[k - m.prevLogIndex]
      BY CallFragIs
    <3>2. NodeFrag(m.src).at = full[m.src]
      BY <2>2, FragsAre
    <3> QED BY <2>1, <3>1, <3>2 DEF Cut
  <2>6. m.prevLogIndex > n => m.prevLogTerm >= T
    <3> SUFFICES ASSUME m.prevLogIndex > n PROVE m.prevLogTerm >= T
      OBVIOUS
    <3>1. n \in 1 .. last[m.src] /\ m.prevLogIndex \in 1 .. last[m.src] /\ n <= m.prevLogIndex
      BY <2>1, <2>4
    <3>2. full[m.src][n].term <= full[m.src][m.prevLogIndex].term
      BY <2>2, <3>1, LogFacts
    <3>3. full[m.src][n] = f[n]
      BY <2>3, <2>4 DEF Agrees
    <3>4. m.prevLogTerm = full[m.src][m.prevLogIndex].term /\ m.prevLogTerm \in Nat
      BY <2>2, <2>4, <2>5, <3>1, LogFacts
    <3> QED BY <2>4, <3>2, <3>3, <3>4
  <2>7. n <= Top(m)
    BY <2>1, <2>3 DEF Agrees
  <2>8. \A k \in m.prevLogIndex + 1 .. Top(m) : k <= n => m.entries[k - m.prevLogIndex] = f[k]
    BY <2>1, <2>3, <2>4, <2>5 DEF Agrees
  <2>9. m.prevLogIndex \in 1 .. n => m.prevLogTerm = f[m.prevLogIndex].term
    BY <2>1, <2>3, <2>4, <2>5 DEF Agrees
  <2> QED BY <2>6, <2>7, <2>8, <2>9 DEF CallAgrees
<1> QED BY <1>1, <1>2 DEF SendStep

\* A snapshot call of T or later is of committed entries that are f's.
LEMMA InstallKeeps ==
    ASSUME IndexInv, TypeOK', Matched, CommitKnown, CommittedStep, SendStep,
           NEW f, NEW n, NEW T, IsPrefix(f, n, T), Locked(f, n, T),
           NEW m \in Installs', m.term >= T, NEW k \in 1 .. m.lastIncludedIndex, k <= n
    PROVE  committed'[k] = f[k]
<1>0. TypeOK /\ m.src \in Server /\ m.lastIncludedIndex \in Nat /\ n \in Nat
  BY CallsAreNext, CallTypes, PrefixTerms DEF IndexInv
<1>1. CASE m \in Installs
  <2>1. committed[k] = f[k]
    BY <1>1 DEF Locked
  <2>2. m.lastIncludedIndex <= Len(committed) /\ Len(committed) \in Nat
    BY <1>0, <1>1, LogFacts DEF IndexInv, CallOK, Installs
  <2>3. k \in 1 .. Len(committed)
    BY <1>0, <2>2
  <2> QED BY <2>1, <2>3 DEF CommittedStep
<1>2. CASE SendsSnapshot(m)
  <2>1. /\ state[m.src] = Leader /\ m.term = currentTerm[m.src] /\ committed' = committed
        /\ m.lastIncludedIndex = lastIncludedIndex[m.src]
    BY <1>2 DEF SendsSnapshot, Calls
  <2>2. Agrees(m.src, f, n)
    BY <1>0, <2>1 DEF Locked
  <2>3. /\ lastIncludedIndex[m.src] <= lastApplied[m.src]
        /\ lastApplied[m.src] <= commitIndex[m.src]
        /\ lastApplied[m.src] \in Nat /\ commitIndex[m.src] \in Nat
    BY <1>0 DEF IndexInv, CompactedApplied, CommitKnown, TypeOK, ApplyTypeOK, CommitTypeOK
  <2>4. k \in 1 .. commitIndex[m.src] /\ k \in 1 .. n
    BY <1>0, <2>1, <2>3
  <2>5. full[m.src][k] = committed[k]
    BY <1>0, <2>4 DEF CommitKnown
  <2> QED BY <2>1, <2>2, <2>4, <2>5 DEF Agrees
<1> QED BY <1>1, <1>2 DEF SendStep

\* A commitment after T comes after f and has f.
LEMMA CommittedKeeps ==
    ASSUME TypeOK, TypeOK', Matched, Matched', TermsBounded, LogsStep, CommittedStep,
           NEW f, NEW n, NEW T, IsPrefix(f, n, T), Locked(f, n, T),
           NEW i \in 1 .. Len(committed'), committed'[i].term > T
    PROVE  n < i /\ \A k \in 1 .. n : committed'[k] = f[k]
<1>0. n \in Nat /\ n >= 1 /\ T \in Nat /\ f[n].term = T
  BY PrefixTerms
<1>1. CASE committed' = committed
  BY <1>1 DEF Locked
<1>2. ASSUME NEW s \in Server, NEW N \in Nat, Advances(s, N), N = Len(committed'), Len(committed) < N,
             \A k \in 1 .. Len(committed) : committed'[k] = committed[k]
      PROVE  n < i /\ \A k \in 1 .. n : committed'[k] = f[k]
  <2>0. Len(committed) \in Nat /\ last'[s] \in Nat
    BY LogFacts, LogFactsNext
  <2>1. CASE i <= Len(committed)
    <3>1. i \in 1 .. Len(committed) /\ committed[i].term > T
      BY <1>2, <2>0, <2>1
    <3>2. n < i /\ \A k \in 1 .. n : committed[k] = f[k]
      BY <3>1 DEF Locked
    <3> QED BY <1>0, <1>2, <2>0, <2>1, <3>2
  <2>2. CASE ~(i <= Len(committed))
    <3>1. N <= last'[s] /\ \A k \in 1 .. N : full'[s][k] = committed'[k]
      BY <1>2 DEF Advances
    <3>2. i \in 1 .. last'[s] /\ i \in 1 .. N
      BY <1>2, <2>0, <3>1
    <3>3. full'[s][i] = committed'[i]
      BY <3>1, <3>2
    <3>4. Agrees(s, f, n)'
      BY <3>2, <3>3, LogKeeps
    <3>5. n <= last'[s] /\ \A k \in 1 .. n : full'[s][k] = f[k]
      BY <3>4 DEF Agrees
    <3>6. n < i
      <4> SUFFICES ASSUME ~(n < i) PROVE FALSE
        OBVIOUS
      <4>1. n \in 1 .. last'[s] /\ i <= n
        BY <1>0, <2>0, <3>2, <3>5
      <4>2. full'[s][i].term <= full'[s][n].term /\ full'[s][i].term \in Nat
        BY <3>2, <4>1, LogFactsNext
      <4>3. full'[s][n].term = T
        BY <1>0, <3>5
      <4> QED BY <1>0, <3>3, <4>2, <4>3
    <3> QED BY <1>0, <1>2, <3>1, <3>2, <3>5, <3>6
  <2> QED BY <2>1, <2>2
<1> QED BY <1>1, <1>2 DEF CommittedStep

\* Whoever holds f, in term T or later, keeps it in its log.
LEMMA HolderKeeps ==
    ASSUME TypeOK, TypeOK', Matched, Matched', CallsKnown, LogsStep,
           NEW f, NEW n, NEW T, IsPrefix(f, n, T), Locked(f, n, T),
           NEW v \in Server, currentTerm[v] >= T, Holds(v, f, n, T)
    PROVE  Agrees(v, f, n)'
<1>0. /\ n \in Nat /\ n >= 1 /\ T \in Nat /\ last[v] \in Nat /\ last'[v] \in Nat
      /\ currentTerm[v] \in Nat
  BY PrefixTerms, LogFacts, LogFactsNext
<1>1. Agrees(v, f, n)
  BY DEF Holds
<1>2. CASE Kept(v)
  BY <1>1, <1>2 DEF Kept, Agrees
<1>3. CASE Proposes(v)
  <2>1. Grown(v)
    BY <1>0, <1>3, ExtendedLog DEF Grown
  <2> QED BY <1>0, <1>1, <2>1, GrownAgrees
<1>4. ASSUME NEW m \in Appends, m.dst = v, m.entries # <<>>, Accepts(m) PROVE Agrees(v, f, n)'
  <2>1. /\ last'[v] = Top(m) /\ m.prevLogIndex <= last[v]
        /\ \A k \in 1 .. m.prevLogIndex : full'[v][k] = full[v][k]
        /\ \A k \in m.prevLogIndex + 1 .. Top(m) :
                 full'[v][k] = m.entries[k - m.prevLogIndex]
    BY <1>4, SplicedLog
  <2>2. m.term \in Nat /\ m.prevLogIndex \in Nat /\ Top(m) \in Nat
    BY CallsAre, CallTypes
  <2>3. currentTerm[v] <= m.term /\ Consistent(m)
    BY <1>4 DEF Accepts, Handled
  <2>4. m.term >= T
    BY <1>0, <2>2, <2>3
  <2>5. m.term > T => n <= Top(m)
    BY <2>4 DEF Locked, CallAgrees
  <2>6. m.term = T => n <= Top(m)
    BY <1>4 DEF Holds
  <2>7. n <= Top(m) /\ n \in 0 .. n
    BY <1>0, <2>2, <2>4, <2>5, <2>6
  <2>8. /\ \A k \in 1 .. n : k <= m.prevLogIndex => full[v][k] = f[k]
        /\ \A k \in 1 .. n : k > m.prevLogIndex => m.entries[k - m.prevLogIndex] = f[k]
    BY <1>4, <2>3, <2>4, <2>7, AcceptAgrees
  <2> QED BY <1>0, <2>1, <2>2, <2>7, <2>8 DEF Agrees
<1>5. ASSUME NEW m \in Installs, m.dst = v, Adopts(m), Replaces(m) PROVE Agrees(v, f, n)'
  <2>1. /\ last'[v] = m.lastIncludedIndex /\ m.lastIncludedIndex <= Len(committed)
        /\ \A k \in 1 .. m.lastIncludedIndex : full'[v][k] = committed[k]
    BY <1>5, ReplacedLog
  <2>2. m.term \in Nat /\ m.lastIncludedIndex \in Nat /\ m.lastIncludedIndex > 0
    BY <1>5, CallsAre, CallTypes DEF Replaces
  <2>3. currentTerm[v] <= m.term
    BY <1>5 DEF Adopts, Handled
  <2>4. m.term >= T
    BY <1>0, <2>2, <2>3
  <2>5. \A k \in 1 .. m.lastIncludedIndex : k <= n => committed[k] = f[k]
    BY <2>4 DEF Locked
  <2>6. n <= m.lastIncludedIndex
    <3> SUFFICES ASSUME ~(n <= m.lastIncludedIndex) PROVE FALSE
      OBVIOUS
    <3>1. m.lastIncludedIndex \in 1 .. n /\ m.lastIncludedIndex <= last[v]
      BY <1>0, <1>1, <2>2 DEF Agrees
    <3>2. full[v][m.lastIncludedIndex] = f[m.lastIncludedIndex]
      BY <1>1, <3>1 DEF Agrees
    <3>3. committed[m.lastIncludedIndex] = f[m.lastIncludedIndex]
      BY <1>0, <2>2, <2>5, <3>1
    <3>4. m.lastIncludedTerm = committed[m.lastIncludedIndex].term
      BY <2>2 DEF CallsKnown
    <3> QED BY <1>5, <3>1, <3>2, <3>3, <3>4 DEF Replaces
  <2> QED BY <1>0, <2>1, <2>2, <2>5, <2>6 DEF Agrees
<1> QED BY <1>2, <1>3, <1>4, <1>5 DEF LogsStep, LogStepOf

\* No vote is claimed in a term its candidate has not reached.
LEMMA ClaimReached ==
    ASSUME TypeOK, ElectionInv, VotesBounded, NEW t \in Server, NEW v \in Server, NEW u,
           Claims(t, v, u)
    PROVE  u <= currentTerm[t]
<1>1. CASE \E b \in 1 .. MaxTerm : votes[t][b].term = u /\ v \in votes[t][b].voters
  BY <1>1 DEF VotesBounded
<1>2. ASSUME NEW m \in rpcs, m.type = "VoteReply", m.dst = t, m.reqTerm = u
      PROVE  u <= currentTerm[t]
  <2>1. m.born \in 1 .. MaxTerm
    BY <1>2, MessageFields DEF TypeOK
  <2>2. votes[t][m.born].term = u
    BY <1>2 DEF ElectionInv, RepliesKnown, GoroutineOf
  <2> QED BY <2>1, <2>2 DEF VotesBounded
<1> QED BY <1>1, <1>2 DEF Claims

\* A candidate of a later term that has a holder's vote has f: the holder
\* granted it only to a log at least as up to date as its own.
LEMMA CandidateKeeps ==
    ASSUME IndexInv, TypeOK', Step, ElectionInv, Matched, Matched', SnapshotTerm,
           VotesBounded, RequestCurrent, ClaimStep, LogsStep,
           NEW f, NEW n, NEW T, IsPrefix(f, n, T), Locked(f, n, T),
           NEW v \in Server, Holds(v, f, n, T),
           NEW t \in Server, state'[t] = Candidate, currentTerm'[t] > T,
           Claims(t, v, currentTerm[t])'
    PROVE  Agrees(t, f, n)'
<1> USE DEF IndexInv
<1>0. /\ n \in Nat /\ n >= 1 /\ T \in Nat /\ f[n].term = T
      /\ last[v] \in Nat /\ last[t] \in Nat /\ currentTerm[t] \in Nat /\ currentTerm'[t] \in Nat
  BY PrefixTerms, LogFacts, LogFactsNext
<1>1. PICK u \in Nat : u = currentTerm'[t]
  BY <1>0
<1>2. Claims(t, v, u)'
  BY <1>1 DEF Claims
<1>3. Claims(t, v, u) \/ GrantStep(v, t, u)
  BY <1>2 DEF ClaimStep
<1>4. u <= currentTerm[t]
  <2>1. CASE Claims(t, v, u)
    BY <2>1, ClaimReached
  <2>2. CASE GrantStep(v, t, u)
    BY <2>2 DEF GrantStep, RequestCurrent
  <2> QED BY <1>3, <2>1, <2>2
<1>5. currentTerm[t] = u /\ state[t] = Candidate
  <2>1. NodeStep(t)
    BY DEF Step
  <2>2. currentTerm'[t] >= currentTerm[t]
    BY <2>1 DEF NodeStep
  <2>3. currentTerm'[t] = currentTerm[t]
    BY <1>0, <1>1, <1>4, <2>2
  <2> QED BY <1>1, <2>1, <2>3 DEF NodeStep
<1>6. Kept(t)
  BY LeaderLog DEF LogsStep
<1>7. Agrees(t, f, n)
  <2>1. CASE Claims(t, v, u)
    BY <1>1, <1>5, <2>1 DEF Holds
  <2>2. CASE GrantStep(v, t, u)
    <3>1. PICK m \in rpcs :
        /\ m.type = "RequestVote" /\ m.src = t /\ m.term = u
        /\ candidateLogIsUpToDate(v, m.lastLogIndex, m.lastLogTerm)
      BY <2>2 DEF GrantStep
    <3>2. m.lastLogIndex = last[t] /\ m.lastLogTerm = LastLogTerm(t)
      BY <1>5, <3>1 DEF RequestCurrent
    <3>3. candidateLogIsUpToDate(v, last[t], LastLogTerm(t))
      BY <3>1, <3>2
    <3>4. /\ LastLogTerm(v) = IF last[v] = 0 THEN 0 ELSE full[v][last[v]].term
          /\ LastLogTerm(t) = IF last[t] = 0 THEN 0 ELSE full[t][last[t]].term
          /\ LastLogIndex(v) = last[v]
      BY FullLog
    <3>5. n <= last[v] /\ full[v][n].term = T
      BY <1>0 DEF Holds, Agrees
    <3>6. LastLogTerm(v) \in Nat /\ LastLogTerm(v) >= T /\ T > 0
      <4>1. n \in 1 .. last[v] /\ last[v] \in 1 .. last[v] /\ n <= last[v]
        BY <1>0, <3>5
      <4>2. full[v][n].term <= full[v][last[v]].term /\ full[v][last[v]].term \in Nat /\ full[v][n].term > 0
        BY <4>1, LogFacts
      <4>3. LastLogTerm(v) = full[v][last[v]].term
        BY <1>0, <3>4, <4>1
      <4> QED BY <3>5, <4>2, <4>3
    <3>7. LastLogTerm(t) \in Nat
      <4>1. last[t] # 0 => last[t] \in 1 .. last[t]
        BY <1>0
      <4>2. last[t] # 0 => full[t][last[t]].term \in Nat
        BY <4>1, LogFacts
      <4> QED BY <3>4, <4>2
    <3>8. /\ LastLogTerm(t) >= LastLogTerm(v)
          /\ LastLogTerm(t) = LastLogTerm(v) => last[t] >= last[v]
      BY <3>3, <3>4, <3>6, <3>7 DEF candidateLogIsUpToDate
    <3>9. last[t] # 0
      BY <1>0, <3>4, <3>6, <3>8
    <3>10. last[t] \in 1 .. last[t] /\ full[t][last[t]].term = LastLogTerm(t)
      BY <1>0, <3>4, <3>9
    <3>11. LastLogTerm(t) >= T /\ (LastLogTerm(t) = T => n <= last[t])
      BY <1>0, <3>5, <3>6, <3>7, <3>8
    <3> QED BY <3>10, <3>11, LockedEnd
  <2> QED BY <1>3, <2>1, <2>2
<1> QED BY <1>6, <1>7 DEF Kept, Agrees

\* Safe is preserved, of what is in some log.
LEMMA SafeKept ==
    ASSUME IndexInv, TypeOK', Step, ElectionInv, CallInv, LogInv, Matched', LogStep,
           NEW f, NEW n, NEW T, IsPrefix(f, n, T), NEW A \in SUBSET Server, Safe(f, n, T, A)
    PROVE  Safe(f, n, T, A)'
<1> USE DEF CallInv, LogInv, LogStep
<1>0. TypeOK /\ n \in Nat /\ n >= 1 /\ T \in Nat
  BY PrefixTerms DEF IndexInv
<1>1. Over(T)
  <2>1. PICK c \in Frags : /\ c.base = 0 /\ c.trm = 0 /\ n <= c.top
                           /\ \A k \in 1 .. n : c.at[k] = f[k]
    BY DEF IsPrefix
  <2>2. c.top \in Nat
    BY DEF Matched, AllMatch, FragOK
  <2>3. n \in c.base + 1 .. c.top /\ c.at[n].term = T
    BY <1>0, <2>1, <2>2 DEF IsPrefix
  <2>4. EntryIn(n, T)
    BY <2>3 DEF EntryIn
  <2> QED BY <1>0, <2>4 DEF Closed
<1>2. \A v \in Server : currentTerm[v] \in Nat /\ currentTerm'[v] \in Nat /\ currentTerm'[v] >= currentTerm[v]
  BY <1>0, LogFacts, LogFactsNext DEF Step, NodeStep
<1>3. \A v \in A : currentTerm[v] >= T /\ currentTerm'[v] >= T
  BY <1>0, <1>2 DEF Safe
<1> SUFFICES ASSUME Majority(A \cup {v \in Server : currentTerm[v] <= T})'
             PROVE  Locked(f, n, T)' /\ \A v \in A : Holds(v, f, n, T)'
  BY <1>3 DEF Safe
<1>4. Majority(A \cup {v \in Server : currentTerm[v] <= T})
  <2> DEFINE P == A \cup {v \in Server : currentTerm'[v] <= T}
             Q == A \cup {v \in Server : currentTerm[v] <= T}
  <2>1. P \subseteq Q /\ Q \in SUBSET Server
    BY <1>0, <1>2
  <2>2. Majority(P)
    BY DEF Majority
  <2> HIDE DEF P, Q
  <2>3. Majority(Q)
    BY <2>1, <2>2, MajorityGrows
  <2> QED BY <2>3 DEF Q
<1>5. Locked(f, n, T) /\ \A v \in A : Holds(v, f, n, T)
  BY <1>4 DEF Safe
<1>6. Locked(f, n, T)'
  <2>1. ASSUME NEW t \in Server, state'[t] = Leader, currentTerm'[t] >= T PROVE Agrees(t, f, n)'
    BY <1>0, <1>1, <1>4, <1>5, <2>1, LeaderKeeps
  <2>2. ASSUME NEW t \in Server, NEW i \in 1 .. last'[t], full'[t][i].term > T PROVE Agrees(t, f, n)'
    BY <1>0, <1>5, <2>2, LogKeeps
  <2>3. ASSUME NEW m \in Appends', m.term >= T PROVE CallAgrees(m, f, n, T)
    BY <1>0, <1>5, <2>3, CallKeeps
  <2>4. ASSUME NEW m \in Installs', m.term >= T, NEW k \in 1 .. m.lastIncludedIndex, k <= n
        PROVE  committed'[k] = f[k]
    BY <1>0, <1>5, <2>4, InstallKeeps
  <2>5. ASSUME NEW i \in 1 .. Len(committed'), committed'[i].term > T
        PROVE  n < i /\ \A k \in 1 .. n : committed'[k] = f[k]
    BY <1>0, <1>5, <2>5, CommittedKeeps
  <2>6. \A m \in Appends' : m.term >= T => CallAgrees(m, f, n, T)'
    BY <2>3 DEF CallAgrees, Top
  <2> QED BY <2>1, <2>2, <2>6, <2>4, <2>5 DEF Locked
<1>7. ASSUME NEW v \in A PROVE Holds(v, f, n, T)'
  <2>0. v \in Server /\ currentTerm[v] >= T /\ Holds(v, f, n, T)
    BY <1>3, <1>5
  <2>1. Agrees(v, f, n)'
    BY <1>0, <1>5, <2>0, HolderKeeps
  <2>2. ASSUME NEW t \in Server, state'[t] = Candidate, currentTerm'[t] > T,
               Claims(t, v, currentTerm[t])'
        PROVE  Agrees(t, f, n)'
    BY <1>0, <1>5, <2>0, <2>2, CandidateKeeps
  <2>3. ASSUME NEW m \in Appends', m.dst = v, m.term = T PROVE n <= Top(m)
    <3>1. CASE m \in Appends
      BY <2>0, <2>3, <3>1 DEF Holds
    <3>2. CASE m \notin Appends
      <4>1. m.term >= T
        BY <1>0, <2>3
      <4> QED BY <1>0, <1>5, <3>2, <4>1, CallKeeps
    <3> QED BY <3>1, <3>2
  <2>4. \A m \in Appends' : m.dst = v /\ m.term = T => n <= Top(m)'
    BY <2>3 DEF Top
  <2> QED BY <2>1, <2>2, <2>4 DEF Holds
<1> QED BY <1>6, <1>7

(***************************************************************************)
(* Calls and acknowledgements.                                             *)
(***************************************************************************)

\* What the leader's one call to a peer excludes: a reply of that peer.
LEMMA OneCallAtATime ==
    ASSUME OneCall, CallEpochs, NEW s \in Server, NEW p \in Server, state[s] = Leader,
           NEW m \in Appends \cup Installs, m.src = s, m.dst = p, m.term = currentTerm[s]
    PROVE  /\ IsCall(m, s, p) /\ s # p
           /\ \A r \in rpcs : r.type \in {"AppendReply", "SnapshotReply"} => ~(r.dst = s /\ r.src = p)
<1>1. m.type \in {"AppendEntries", "InstallSnapshot"} /\ m \in rpcs
  BY DEF Appends, Installs
<1>2. m.epoch = epoch[s]
  BY DEF CallEpochs, Follower, Leader
<1>3. IsCall(m, s, p)
  BY <1>1, <1>2 DEF IsCall
<1>4. ASSUME NEW r \in rpcs, r.type \in {"AppendReply", "SnapshotReply"}, r.dst = s, r.src = p PROVE FALSE
  <2>1. IsCall(r, s, p)
    BY <1>4 DEF IsCall
  <2>2. r = m
    BY <1>1, <1>3, <2>1 DEF OneCall
  <2> QED BY <1>1, <1>4, <2>2
<1> QED BY <1>1, <1>3, <1>4 DEF OneCall

\* A reply is the peer's only call.
LEMMA OneReply ==
    ASSUME OneCall, NEW m \in rpcs, NEW r \in rpcs,
           m.type \in {"AppendReply", "SnapshotReply"}, r.type \in {"AppendReply", "SnapshotReply"},
           m.dst \in Server, m.src \in Server, m.dst = r.dst, m.src = r.src
    PROVE  m = r /\ m.src # m.dst
<1>1. IsCall(m, m.dst, m.src) /\ IsCall(r, m.dst, m.src)
  BY DEF IsCall
<1> QED BY <1>1 DEF OneCall

\* What s will be told: v took s's call and holds s's log through n.
NewAck(v, s, n) ==
    \/ \E m \in Appends : /\ m.src = s /\ m.dst = v /\ m.term = currentTerm[s]
                          /\ Accepts(m) /\ n <= Top(m)
    \/ \E m \in Installs : /\ m.src = s /\ m.dst = v /\ m.term = currentTerm[s]
                           /\ Adopts(m) /\ n <= m.lastIncludedIndex

\* Where acknowledgements come from.
LEMMA AckFrom ==
    ASSUME IndexInv, TypeOK', Step, Matched, Closed, RoleStep, AnswerStep, IndexStep,
           NEW s \in Server, NEW v \in Server, NEW n \in Nat \ {0},
           state'[s] = Leader, Acked(v, s, n)'
    PROVE  /\ state[s] = Leader /\ currentTerm'[s] = currentTerm[s] /\ v # s
           /\ Acked(v, s, n) \/ NewAck(v, s, n)
<1>0. TypeOK /\ v # s /\ currentTerm'[s] = currentTerm[s] /\ currentTerm[s] \in Nat
  BY LogFacts DEF IndexInv, Acked, RoleStep
<1>1. ASSUME NEW r \in rpcs', r.src = v, AckReply(r, s, n)', r \notin rpcs
      PROVE  \/ \E m \in Appends : /\ m.src = s /\ m.dst = v /\ m.term = currentTerm[s]
                                   /\ Accepts(m) /\ n <= Top(m)
             \/ \E m \in Installs : /\ m.src = s /\ m.dst = v /\ m.term = currentTerm[s]
                                   /\ Adopts(m) /\ n <= m.lastIncludedIndex
  <2>1. /\ r.dst = s /\ r.type \in {"AppendReply", "SnapshotReply"} /\ r.reqTerm = currentTerm[s]
        /\ r.type = "AppendReply" => r.success /\ n <= r.newMatch
        /\ r.type = "SnapshotReply" => r.term <= r.reqTerm /\ n <= r.lastIncludedIndex
    BY <1>0, <1>1 DEF AckReply
  <2>2. CASE r.type = "AppendReply"
    <3>1. PICK m \in Appends : Answers(r, m) /\ r.newMatch = Top(m) /\ (r.success => Accepts(m))
      BY <1>1, <2>2 DEF AnswerStep
    <3> QED BY <1>1, <2>1, <2>2, <3>1 DEF Answers
  <2>3. CASE r.type = "SnapshotReply"
    <3>1. PICK m \in Installs : /\ Answers(r, m) /\ r.lastIncludedIndex = m.lastIncludedIndex
                                /\ currentTerm[m.dst] <= m.term => Adopts(m)
      BY <1>1, <2>3 DEF AnswerStep
    <3>2. m.src = s /\ m.dst = v /\ m.term = currentTerm[s] /\ r.term = currentTerm'[v] /\ r.reqTerm = m.term
      BY <1>1, <2>1, <3>1 DEF Answers
    <3>3. currentTerm[v] \in Nat /\ currentTerm'[v] \in Nat /\ currentTerm'[v] >= currentTerm[v]
      BY <1>0, LogFacts DEF Step, NodeStep, TypeOK, TermTypeOK
    <3>4. currentTerm[v] <= m.term
      BY <1>0, <2>1, <2>3, <3>2, <3>3
    <3> QED BY <2>1, <2>3, <3>1, <3>2, <3>4
  <2> QED BY <2>1, <2>2, <2>3
<1>2. state[s] = Leader
  <2> SUFFICES ASSUME Wins(s) PROVE FALSE
    BY DEF RoleStep
  <2>1. ~(n <= matchIndex'[s][v])
    <3>1. matchIndex'[s][v] = 0
      BY DEF Wins
    <3> QED BY <3>1
  <2>2. PICK r \in rpcs' : r.src = v /\ AckReply(r, s, n)'
    BY <2>1 DEF Acked
  <2>3. r \in rpcs
    BY <1>1, <2>2, WinnerNew, <1>0
  <2>4. CallOK(r)
    BY <2>3 DEF IndexInv
  <2>5. state[s] # Candidate
    BY <1>0, <2>2, <2>4 DEF AckReply, CallOK, CallOf
  <2> QED BY <2>5 DEF Wins
<1>3. CASE \E r \in rpcs' : r.src = v /\ AckReply(r, s, n)'
  <2>1. PICK r \in rpcs' : r.src = v /\ AckReply(r, s, n)'
    BY <1>3
  <2>2. CASE r \in rpcs
    BY <1>0, <1>2, <2>1, <2>2 DEF Acked, AckReply
  <2> QED BY <1>1, <2>1, <2>2, <1>0, <1>2 DEF NewAck
<1>4. CASE n <= matchIndex'[s][v]
  <2>1. CASE matchIndex'[s][v] = matchIndex[s][v]
    BY <1>0, <1>2, <1>4, <2>1 DEF Acked
  <2>2. ASSUME NEW r \in rpcs, Counts(r, s, v) PROVE Acked(v, s, n)
    <3>1. \/ n <= matchIndex[s][v]
          \/ r.type = "AppendReply" /\ r.success /\ n <= r.newMatch
          \/ r.type = "SnapshotReply" /\ n <= r.lastIncludedIndex
      BY <1>4, <2>2 DEF Counts
    <3> QED BY <1>0, <2>2, <3>1 DEF Counts, Acked, AckReply
  <2> QED BY <1>0, <1>2, <2>1, <2>2 DEF IndexStep
<1> QED BY <1>0, <1>2, <1>3, <1>4 DEF Acked

\* CallShape is preserved.
LEMMA CallShapeKept ==
    ASSUME IndexInv, TypeOK', CallInv, LogInv, Matched', LogStep
    PROVE  CallShape'
<1> USE DEF CallInv, LogInv, LogStep
<1>0. TypeOK /\ \A s \in Server : last[s] \in Nat /\ last'[s] \in Nat
  BY LogFacts, LogFactsNext DEF IndexInv
<1>1. ASSUME NEW m \in Appends', state'[m.src] = Leader, currentTerm'[m.src] = m.term
      PROVE  /\ m.prevLogIndex = nextIndex'[m.src][m.dst] - 1
             /\ matchIndex'[m.src][m.dst] <= Top(m)
             /\ Top(m) <= last'[m.src]
             /\ \A k \in m.prevLogIndex + 1 .. Top(m) :
                   m.entries[k - m.prevLogIndex] = full'[m.src][k]
             /\ m.prevLogIndex > 0 => m.prevLogTerm = full'[m.src][m.prevLogIndex].term
  <2> DEFINE s == m.src  p == m.dst
  <2>0. /\ s \in Server /\ p \in Server /\ m.prevLogIndex \in Nat /\ Top(m) \in Nat
        /\ m.prevLogIndex <= Top(m)
    BY CallsAreNext, CallTypes
  <2>1. currentTerm[s] = m.term /\ (state[s] = Leader \/ Wins(s))
    BY <1>1, <2>0 DEF RoleStep
  <2>2. CASE m \in Appends
    <3>1. state[s] = Leader
      BY <1>0, <2>0, <2>1, <2>2, WinnerNew
    <3>2. Grown(s)
      BY <1>0, <1>1, <2>0, LeaderLog DEF LogsStep
    <3>3. /\ m.prevLogIndex = nextIndex[s][p] - 1
          /\ matchIndex[s][p] <= Top(m)
          /\ Top(m) <= last[s]
          /\ \A k \in m.prevLogIndex + 1 .. Top(m) : m.entries[k - m.prevLogIndex] = full[s][k]
          /\ m.prevLogIndex > 0 => m.prevLogTerm = full[s][m.prevLogIndex].term
      BY <2>1, <2>2, <3>1 DEF CallShape
    <3>4. \A r \in rpcs : ~Counts(r, s, p)
      <4>1. \A r \in rpcs : r.type \in {"AppendReply", "SnapshotReply"} => ~(r.dst = s /\ r.src = p)
        BY <2>0, <2>1, <2>2, <3>1, OneCallAtATime
      <4> QED BY <4>1 DEF Counts
    <3>5. nextIndex'[s][p] = nextIndex[s][p] /\ matchIndex'[s][p] = matchIndex[s][p]
      BY <1>1, <2>0, <3>1, <3>4 DEF IndexStep
    <3>6. last[s] \in Nat /\ last'[s] \in Nat /\ last[s] <= last'[s]
      BY <1>0, <2>0, <3>2 DEF Grown
    <3>7. Top(m) <= last'[s]
      BY <2>0, <3>3, <3>6
    <3>8. \A k \in 1 .. Top(m) : full'[s][k] = full[s][k]
      BY <2>0, <3>2, <3>3, <3>6 DEF Grown
    <3>9. \A k \in m.prevLogIndex + 1 .. Top(m) : m.entries[k - m.prevLogIndex] = full'[s][k]
      BY <2>0, <3>3, <3>8
    <3>10. m.prevLogIndex > 0 => m.prevLogTerm = full'[s][m.prevLogIndex].term
      BY <2>0, <3>3, <3>8
    <3> QED BY <3>3, <3>5, <3>7, <3>9, <3>10
  <2>3. CASE SendsEntries(m)
    <3>1. /\ state[s] = Leader /\ s # p /\ Kept(s)
          /\ nextIndex'[s][p] = nextIndex[s][p] /\ matchIndex'[s][p] = matchIndex[s][p]
          /\ m.prevLogIndex = nextIndex[s][p] - 1
          /\ Cut(CallFrag(m), NodeFrag(s)) /\ Top(m) = last[s]
      BY <2>0, <2>3 DEF SendsEntries, Calls
    <3>2. matchIndex[s][p] <= last[s]
      <4>1. matchIndex[s][p] \in Nat
        BY <1>0, <2>0 DEF TypeOK, LeaderTypeOK
      <4>2. CASE matchIndex[s][p] = 0
        BY <1>0, <2>0, <4>2
      <4>3. CASE matchIndex[s][p] # 0
        <5>1. Acked(p, s, matchIndex[s][p]) /\ matchIndex[s][p] \in Nat \ {0}
          BY <3>1, <4>1, <4>3 DEF Acked
        <5> QED BY <2>0, <3>1, <5>1 DEF AckTrue
      <4> QED BY <4>2, <4>3
    <3>3. /\ \A k \in m.prevLogIndex + 1 .. Top(m) : m.entries[k - m.prevLogIndex] = full[s][k]
          /\ m.prevLogIndex > 0 => m.prevLogTerm = full[s][m.prevLogIndex].term
      <4>1. /\ CallFrag(m).base = m.prevLogIndex /\ CallFrag(m).trm = m.prevLogTerm
            /\ CallFrag(m).top = Top(m)
            /\ \A k \in m.prevLogIndex + 1 .. Top(m) : CallFrag(m).at[k] = m.entries[k - m.prevLogIndex]
        BY CallFragIs
      <4>2. NodeFrag(s).at = full[s]
        BY <2>0, FragsAre
      <4> QED BY <3>1, <4>1, <4>2 DEF Cut
    <3>4. last'[s] = last[s] /\ full'[s] = full[s]
      BY <3>1 DEF Kept
    <3>5. last[s] \in Nat
      BY <1>0, <2>0
    <3>6. Top(m) <= last'[s] /\ matchIndex'[s][p] <= Top(m) /\ m.prevLogIndex = nextIndex'[s][p] - 1
      BY <3>1, <3>2, <3>4, <3>5
    <3> QED BY <3>3, <3>4, <3>6
  <2> QED BY <2>2, <2>3 DEF SendStep
<1>2. ASSUME NEW m \in Installs', state'[m.src] = Leader, currentTerm'[m.src] = m.term
      PROVE  m.lastIncludedIndex <= commitIndex'[m.src]
  <2> DEFINE s == m.src
  <2>0. s \in Server /\ m.lastIncludedIndex \in Nat /\ commitIndex[s] \in Nat /\ commitIndex'[s] \in Nat
    BY <1>0, CallsAreNext, CallTypes DEF TypeOK, CommitTypeOK
  <2>1. currentTerm[s] = m.term /\ (state[s] = Leader \/ Wins(s))
    BY <1>2, <2>0 DEF RoleStep
  <2>2. commitIndex[s] <= commitIndex'[s]
    <3>1. CASE state'[s] = Leader => commitIndex'[s] = commitIndex[s]
      BY <1>2, <2>0, <3>1
    <3>2. CASE \E n \in Nat : n = commitIndex'[s] /\ n > commitIndex[s]
      BY <2>0, <3>2
    <3>3. \A q \in Appends \cup Installs : q.dst = s => ~Accepts(q) /\ ~Adopts(q)
      BY <1>2 DEF Accepts, Adopts, Handled, Leader, Follower
    <3> QED BY <2>0, <3>1, <3>2, <3>3 DEF CommitIndexStep
  <2>3. CASE m \in Installs
    <3>1. state[s] = Leader
      BY <1>0, <2>0, <2>1, <2>3, WinnerNew
    <3>2. m.lastIncludedIndex <= commitIndex[s]
      BY <2>1, <2>3, <3>1 DEF CallShape
    <3> QED BY <2>0, <2>2, <3>2
  <2>4. CASE SendsSnapshot(m)
    <3>1. m.lastIncludedIndex = lastIncludedIndex[s] /\ commitIndex'[s] = commitIndex[s]
      BY <2>4 DEF SendsSnapshot, Calls
    <3>2. /\ lastIncludedIndex[s] <= lastApplied[s] /\ lastApplied[s] <= commitIndex[s]
          /\ lastApplied[s] \in Nat
      BY <1>0, <2>0 DEF IndexInv, CompactedApplied, CommitKnown, TypeOK, ApplyTypeOK
    <3> QED BY <2>0, <3>1, <3>2
  <2> QED BY <2>3, <2>4 DEF SendStep
<1>3. \A m : Top(m)' = Top(m)
  BY DEF Top
<1> QED BY <1>1, <1>2, <1>3 DEF CallShape

\* The call of a leader in office comes from it and is cut from its log.
LEMMA LeaderCall ==
    ASSUME TypeOK, Origin, CallShape, OneCall, CallEpochs, NEW s \in Server, state[s] = Leader,
           NEW m \in Appends, m.term = currentTerm[s]
    PROVE  /\ m.src = s /\ m.dst \in Server /\ s # m.dst
           /\ m.prevLogIndex \in Nat /\ Top(m) \in Nat /\ m.prevLogIndex <= Top(m)
           /\ m.prevLogIndex = nextIndex[s][m.dst] - 1
           /\ matchIndex[s][m.dst] <= Top(m)
           /\ Top(m) <= last[s]
           /\ \A k \in m.prevLogIndex + 1 .. Top(m) : m.entries[k - m.prevLogIndex] = full[s][k]
           /\ m.prevLogIndex > 0 => m.prevLogTerm = full[s][m.prevLogIndex].term
           /\ \A r \in rpcs : r.type \in {"AppendReply", "SnapshotReply"} => ~(r.dst = s /\ r.src = m.dst)
<1>1. m.src = s
  BY DEF Origin
<1>2. m.dst \in Server /\ m.prevLogIndex \in Nat /\ Top(m) \in Nat /\ m.prevLogIndex <= Top(m)
  BY CallsAre, CallTypes
<1>3. s # m.dst /\ \A r \in rpcs : r.type \in {"AppendReply", "SnapshotReply"} => ~(r.dst = s /\ r.src = m.dst)
  BY <1>1, <1>2, OneCallAtATime
<1> QED BY <1>1, <1>2, <1>3 DEF CallShape

\* The snapshot call of a leader in office is of entries it has committed.
LEMMA LeaderInstall ==
    ASSUME TypeOK, Origin, CallShape, CommitKnown, NEW s \in Server, state[s] = Leader,
           NEW m \in Installs, m.term = currentTerm[s]
    PROVE  /\ m.src = s /\ m.lastIncludedIndex \in Nat /\ m.lastIncludedIndex <= last[s]
           /\ m.lastIncludedIndex <= commitIndex[s]
           /\ \A k \in 1 .. m.lastIncludedIndex : full[s][k] = committed[k]
<1>1. m.src = s
  BY DEF Origin
<1>2. m.lastIncludedIndex \in Nat /\ commitIndex[s] \in Nat
  BY CallsAre, CallTypes DEF TypeOK, CommitTypeOK
<1>3. m.lastIncludedIndex <= commitIndex[s]
  BY <1>1 DEF CallShape
<1>4. commitIndex[s] <= last[s] /\ \A k \in 1 .. commitIndex[s] : full[s][k] = committed[k]
  BY DEF CommitKnown
<1>5. last[s] \in Int
  BY DEF last, LastLogIndex, TypeOK, LogTypeOK
<1> QED BY <1>1, <1>2, <1>3, <1>4, <1>5

\* What v acknowledges in this step it has.
LEMMA NewAckTrue ==
    ASSUME TypeOK, Matched, Origin, CallShape, OneCall, CallEpochs, CommitKnown,
           NEW s \in Server, NEW v \in Server, NEW n \in Nat \ {0},
           state[s] = Leader, NewAck(v, s, n)
    PROVE  /\ n <= last[s] /\ currentTerm'[v] = currentTerm[s]
           /\ n <= last'[v] /\ \A k \in 1 .. n : full'[v][k] = full[s][k]
<1>0. last[s] \in Nat /\ last[v] \in Nat
  BY LogFacts
<1>1. ASSUME NEW m \in Appends, m.src = s, m.dst = v, m.term = currentTerm[s], Accepts(m), n <= Top(m)
      PROVE  /\ n <= last[s] /\ currentTerm'[v] = currentTerm[s]
             /\ n <= last'[v] /\ \A k \in 1 .. n : full'[v][k] = full[s][k]
  <2>1. /\ m.prevLogIndex \in Nat /\ Top(m) \in Nat /\ m.prevLogIndex <= Top(m) /\ Top(m) <= last[s]
        /\ \A k \in m.prevLogIndex + 1 .. Top(m) : m.entries[k - m.prevLogIndex] = full[s][k]
        /\ m.prevLogIndex > 0 => m.prevLogTerm = full[s][m.prevLogIndex].term
    BY <1>1, LeaderCall
  <2>2. currentTerm'[v] = currentTerm[s] /\ Consistent(m)
    BY <1>1 DEF Accepts, Handled
  <2>3. \A k \in 1 .. m.prevLogIndex : full[v][k] = full[s][k]
    <3> SUFFICES ASSUME m.prevLogIndex > 0 PROVE \A k \in 1 .. m.prevLogIndex : full[v][k] = full[s][k]
      BY <2>1
    <3>1. /\ m.prevLogIndex \in 1 .. last[v] /\ m.prevLogIndex \in 1 .. last[s]
          /\ full[v][m.prevLogIndex].term = full[s][m.prevLogIndex].term
      BY <1>0, <1>1, <2>1, <2>2 DEF Consistent
    <3>2. /\ Match(NodeFrag(v), NodeFrag(s))
          /\ NodeFrag(s).base = 0 /\ NodeFrag(s).top = last[s] /\ NodeFrag(s).at = full[s]
          /\ NodeFrag(v).base = 0 /\ NodeFrag(v).top = last[v] /\ NodeFrag(v).at = full[v]
      BY FragsAre DEF Matched, AllMatch
    <3>3. /\ m.prevLogIndex \in NodeFrag(v).base + 1 .. NodeFrag(v).top
          /\ m.prevLogIndex \in NodeFrag(s).base + 1 .. NodeFrag(s).top
          /\ NodeFrag(v).at[m.prevLogIndex].term = NodeFrag(s).at[m.prevLogIndex].term
          /\ m.prevLogIndex <= m.prevLogIndex
      BY <2>1, <3>1, <3>2
    <3>4. \A k \in NodeFrag(s).base + 1 .. m.prevLogIndex :
             k > NodeFrag(v).base => NodeFrag(v).at[k] = NodeFrag(s).at[k]
      BY <3>2, <3>3, MatchAt
    <3> QED BY <2>1, <3>2, <3>4
  <2>4. CASE m.entries = <<>>
    <3>1. Kept(v) /\ Top(m) = m.prevLogIndex
      BY <1>1, <2>4, CallsAre, CallTypes DEF Accepts
    <3>2. m.prevLogIndex <= last[v]
      BY <1>1, <2>2, <3>1, <1>0, <2>1 DEF Consistent
    <3> QED BY <1>0, <1>1, <2>1, <2>2, <2>3, <3>1, <3>2 DEF Kept
  <2>5. CASE m.entries # <<>>
    <3>1. /\ last'[v] = Top(m)
          /\ \A k \in 1 .. m.prevLogIndex : full'[v][k] = full[v][k]
          /\ \A k \in m.prevLogIndex + 1 .. Top(m) : full'[v][k] = m.entries[k - m.prevLogIndex]
      BY <1>1, <2>5, SplicedLog
    <3>2. \A k \in 1 .. n : full'[v][k] = full[s][k]
      <4> TAKE k \in 1 .. n
      <4>1. k \in 1 .. m.prevLogIndex \/ k \in m.prevLogIndex + 1 .. Top(m)
        BY <1>1, <2>1
      <4> QED BY <2>1, <2>3, <3>1, <4>1
    <3> QED BY <1>0, <1>1, <2>1, <2>2, <3>1, <3>2
  <2> QED BY <2>4, <2>5
<1>2. ASSUME NEW m \in Installs, m.src = s, m.dst = v, m.term = currentTerm[s], Adopts(m),
             n <= m.lastIncludedIndex
      PROVE  /\ n <= last[s] /\ currentTerm'[v] = currentTerm[s]
             /\ n <= last'[v] /\ \A k \in 1 .. n : full'[v][k] = full[s][k]
  <2>1. /\ m.lastIncludedIndex \in Nat /\ m.lastIncludedIndex <= last[s]
        /\ \A k \in 1 .. m.lastIncludedIndex : full[s][k] = committed[k]
    BY <1>2, LeaderInstall
  <2>2. /\ currentTerm'[v] = currentTerm[s] /\ m.lastIncludedIndex <= last'[v]
        /\ \A k \in 1 .. m.lastIncludedIndex : full'[v][k] = committed[k]
    BY <1>2 DEF Adopts, Handled
  <2>3. last'[v] = last[v] \/ last'[v] = m.lastIncludedIndex
    BY <1>2 DEF Adopts, Kept, Replaces
  <2> QED BY <1>0, <1>2, <2>1, <2>2, <2>3
<1> QED BY <1>1, <1>2 DEF NewAck

\* What v has acknowledged, in the leader's term, stays in its log.
LEMMA AckedStays ==
    ASSUME IndexInv, TypeOK', Step, CallInv, LogInv, Matched', ElectionSafety', LogStep,
           NEW s \in Server, NEW v \in Server, NEW n \in Nat \ {0},
           state[s] = Leader, state'[s] = Leader, currentTerm'[s] = currentTerm[s],
           Acked(v, s, n), currentTerm'[v] = currentTerm[s]
    PROVE  n <= last'[v] /\ \A k \in 1 .. n : full'[v][k] = full[s][k]
<1> USE DEF CallInv, LogInv, LogStep
<1>0. /\ TypeOK /\ last[s] \in Nat /\ last[v] \in Nat /\ last'[v] \in Nat
      /\ currentTerm[v] \in Nat /\ currentTerm'[v] \in Nat /\ currentTerm[s] \in Nat
  BY LogFacts, LogFactsNext DEF IndexInv
<1>1. n <= last[s] /\ currentTerm[s] <= currentTerm[v]
  BY DEF AckTrue
<1>2. currentTerm[v] = currentTerm[s]
  <2>1. currentTerm'[v] >= currentTerm[v]
    BY DEF Step, NodeStep
  <2> QED BY <1>0, <1>1, <2>1
<1>3. n <= last[v] /\ \A k \in 1 .. n : full[v][k] = full[s][k]
  BY <1>2 DEF AckTrue, Agrees
<1>4. CASE Kept(v)
  BY <1>3, <1>4 DEF Kept
<1>5. CASE Proposes(v)
  BY <1>0, <1>3, <1>5, ExtendedLog
<1>6. ASSUME NEW m \in Appends, m.dst = v, m.entries # <<>>, Accepts(m)
      PROVE  n <= last'[v] /\ \A k \in 1 .. n : full'[v][k] = full[s][k]
  <2>1. m.term = currentTerm[s]
    BY <1>6 DEF Accepts, Handled
  <2>2. /\ m.prevLogIndex \in Nat /\ Top(m) \in Nat /\ m.prevLogIndex <= Top(m)
        /\ matchIndex[s][v] <= Top(m)
        /\ \A k \in m.prevLogIndex + 1 .. Top(m) : m.entries[k - m.prevLogIndex] = full[s][k]
        /\ \A r \in rpcs : r.type \in {"AppendReply", "SnapshotReply"} => ~(r.dst = s /\ r.src = v)
    BY <1>0, <1>6, <2>1, LeaderCall
  <2>3. n <= matchIndex[s][v] /\ matchIndex[s][v] \in Nat
    BY <1>0, <2>2 DEF Acked, AckReply, TypeOK, LeaderTypeOK
  <2>4. n <= Top(m)
    BY <2>2, <2>3
  <2>5. /\ last'[v] = Top(m)
        /\ \A k \in 1 .. m.prevLogIndex : full'[v][k] = full[v][k]
        /\ \A k \in m.prevLogIndex + 1 .. Top(m) : full'[v][k] = m.entries[k - m.prevLogIndex]
    BY <1>0, <1>6, SplicedLog
  <2>6. \A k \in 1 .. n : full'[v][k] = full[s][k]
    <3> TAKE k \in 1 .. n
    <3>1. k \in 1 .. m.prevLogIndex \/ k \in m.prevLogIndex + 1 .. Top(m)
      BY <2>2, <2>4
    <3> QED BY <1>3, <2>2, <2>5, <3>1
  <2> QED BY <2>4, <2>5, <2>6
<1>7. ASSUME NEW m \in Installs, m.dst = v, Adopts(m), Replaces(m)
      PROVE  n <= last'[v] /\ \A k \in 1 .. n : full'[v][k] = full[s][k]
  <2>1. m.term = currentTerm[s]
    BY <1>7 DEF Adopts, Handled
  <2>2. /\ m.lastIncludedIndex \in Nat /\ m.lastIncludedIndex <= last[s]
        /\ \A k \in 1 .. m.lastIncludedIndex : full[s][k] = committed[k]
    BY <1>0, <2>1, LeaderInstall
  <2>3. /\ last'[v] = m.lastIncludedIndex
        /\ \A k \in 1 .. m.lastIncludedIndex : full'[v][k] = committed[k]
    BY <1>0, <1>7, ReplacedLog
  <2>4. m.lastIncludedIndex > 0 /\ m.lastIncludedTerm = committed[m.lastIncludedIndex].term
    BY <1>7 DEF Replaces, CallsKnown
  <2>5. n <= m.lastIncludedIndex
    <3> SUFFICES ASSUME ~(n <= m.lastIncludedIndex) PROVE FALSE
      OBVIOUS
    <3>1. m.lastIncludedIndex \in 1 .. n /\ m.lastIncludedIndex <= last[v] /\ m.lastIncludedIndex \in 1 .. m.lastIncludedIndex
      BY <1>0, <1>3, <2>2, <2>4
    <3>2. full[v][m.lastIncludedIndex] = committed[m.lastIncludedIndex]
      BY <1>3, <2>2, <3>1
    <3> QED BY <1>7, <2>4, <3>1, <3>2 DEF Replaces
  <2> QED BY <2>2, <2>3, <2>5
<1> QED BY <1>4, <1>5, <1>6, <1>7 DEF LogsStep, LogStepOf

\* AckTrue is preserved.
LEMMA AckTrueKept ==
    ASSUME IndexInv, TypeOK', Step, CallInv, LogInv, Matched', ElectionSafety', LogStep
    PROVE  AckTrue'
<1> USE DEF CallInv, LogInv, LogStep
<1> SUFFICES ASSUME NEW s \in Server, NEW v \in Server, NEW n \in Nat \ {0},
                    state'[s] = Leader, Acked(v, s, n)'
             PROVE  /\ n <= last'[s] /\ currentTerm'[s] <= currentTerm'[v]
                    /\ currentTerm'[s] = currentTerm'[v] => Agrees(v, full[s], n)'
  BY DEF AckTrue
<1>0. /\ TypeOK /\ last[s] \in Nat /\ last'[s] \in Nat /\ currentTerm[v] \in Nat /\ currentTerm'[v] \in Nat
      /\ currentTerm[s] \in Nat /\ currentTerm'[v] >= currentTerm[v]
  BY LogFacts, LogFactsNext DEF IndexInv, Step, NodeStep
<1>1. /\ state[s] = Leader /\ currentTerm'[s] = currentTerm[s] /\ v # s
      /\ Acked(v, s, n) \/ NewAck(v, s, n)
  BY <1>0, AckFrom
<1>2. Grown(s)
  BY <1>0, LeaderLog DEF LogsStep
<1>3. last[s] <= last'[s] /\ \A k \in 1 .. last[s] : full'[s][k] = full[s][k]
  BY <1>2 DEF Grown
<1>4. /\ n <= last[s] /\ currentTerm[s] <= currentTerm'[v]
      /\ currentTerm[s] = currentTerm'[v] => n <= last'[v] /\ \A k \in 1 .. n : full'[v][k] = full[s][k]
  <2>1. CASE Acked(v, s, n)
    <3>1. n <= last[s] /\ currentTerm[s] <= currentTerm[v]
      BY <1>1, <2>1 DEF AckTrue
    <3>2. currentTerm[s] = currentTerm'[v] => n <= last'[v] /\ \A k \in 1 .. n : full'[v][k] = full[s][k]
      BY <1>1, <2>1, AckedStays
    <3> QED BY <1>0, <3>1, <3>2
  <2>2. CASE NewAck(v, s, n)
    BY <1>0, <1>1, <2>2, NewAckTrue
  <2> QED BY <1>1, <2>1, <2>2
<1>5. n <= last'[s] /\ currentTerm'[s] <= currentTerm'[v]
  BY <1>0, <1>1, <1>3, <1>4
<1>6. \A k \in 1 .. n : full'[s][k] = full[s][k]
  BY <1>0, <1>3, <1>4
<1> QED BY <1>1, <1>4, <1>5, <1>6 DEF Agrees

(***************************************************************************)
(* A leader's entries of its term.                                         *)
(***************************************************************************)

\* Safe is about the entries through n only.
LEMMA SafeSame ==
    ASSUME TypeOK', NEW f, NEW g, NEW n \in Nat, NEW T, NEW A, Safe(f, n, T, A)',
           \A k \in 1 .. n : f[k] = g[k]
    PROVE  Safe(g, n, T, A)'
<1>1. \A t : Agrees(t, f, n)' => Agrees(t, g, n)'
  BY DEF Agrees
<1>2. ASSUME NEW m \in Appends', CallAgrees(m, f, n, T)' PROVE CallAgrees(m, g, n, T)'
  <2>1. m.prevLogIndex \in Nat /\ Top(m) \in Nat /\ Top(m)' = Top(m)
    BY CallsAreNext, CallTypes DEF Top
  <2> QED BY <1>2, <2>1 DEF CallAgrees
<1>3. ASSUME Locked(f, n, T)' PROVE Locked(g, n, T)'
  <2>1. \A t \in Server : state'[t] = Leader /\ currentTerm'[t] >= T => Agrees(t, g, n)'
    BY <1>1, <1>3 DEF Locked
  <2>2. \A t \in Server : \A i \in 1 .. last'[t] : full'[t][i].term > T => Agrees(t, g, n)'
    BY <1>1, <1>3 DEF Locked
  <2>3. \A m \in Appends' : m.term >= T => CallAgrees(m, g, n, T)'
    BY <1>2, <1>3 DEF Locked
  <2>4. ASSUME NEW m \in Installs', m.term >= T, NEW k \in 1 .. m.lastIncludedIndex, k <= n
        PROVE  committed'[k] = g[k]
    <3>1. committed'[k] = f[k]
      BY <1>3, <2>4 DEF Locked
    <3>2. m.lastIncludedIndex \in Nat
      BY CallsAreNext, CallTypes
    <3>3. k \in 1 .. n
      BY <2>4, <3>2
    <3> QED BY <3>1, <3>3
  <2>5. \A i \in 1 .. Len(committed') : committed'[i].term > T =>
          n < i /\ \A k \in 1 .. n : committed'[k] = g[k]
    BY <1>3 DEF Locked
  <2> QED BY <2>1, <2>2, <2>3, <2>4, <2>5 DEF Locked
<1>4. \A v : Holds(v, f, n, T)' => Holds(v, g, n, T)'
  BY <1>1 DEF Holds
<1> QED BY <1>3, <1>4 DEF Safe

\* What a peer in the leader's term acknowledges, it holds.
LEMMA AckHolds ==
    ASSUME TypeOK', ElectionInv', CallInv', AckTrue', CallShape', Origin',
           NEW s \in Server, NEW v \in Server, NEW n \in Nat \ {0}, NEW T \in Nat, NEW f,
           state'[s] = Leader, currentTerm'[s] = T, currentTerm'[v] = T, Acked(v, s, n)',
           \A k \in 1 .. n : full'[s][k] = f[k]
    PROVE  Holds(v, f, n, T)'
<1>1. Agrees(v, f, n)'
  BY DEF AckTrue, Agrees
<1>2. ASSUME NEW t \in Server, state'[t] = Candidate, currentTerm'[t] > T,
             Claims(t, v, currentTerm[t])'
      PROVE  Agrees(t, f, n)'
  <2>0. currentTerm'[t] \in Nat
    BY DEF TypeOK, TermTypeOK
  <2>1. Voted(v, currentTerm[t], t)'
    BY <1>2, <2>0 DEF ElectionInv, ClaimsVoted
  <2>2. currentTerm'[v] >= currentTerm'[t]
    BY <2>0, <2>1 DEF Voted
  <2> QED BY <1>2, <2>0, <2>2
<1>3. ASSUME NEW m \in Appends', m.dst = v, m.term = T PROVE n <= Top(m)'
  <2>1. m.src = s /\ m \in rpcs' /\ m.type = "AppendEntries"
    BY <1>3, CallsAreNext DEF Origin
  <2>2. m.epoch = epoch'[s] /\ s # v
    BY <1>3, <2>1 DEF CallInv, CallEpochs, Follower, Leader
  <2>3. IsCall(m, s, v)'
    BY <1>3, <2>1, <2>2 DEF IsCall
  <2>4. ASSUME NEW r \in rpcs', r.src = v, AckReply(r, s, n)' PROVE FALSE
    <3>1. IsCall(r, s, v)' /\ r.type # "AppendEntries"
      BY <2>4 DEF IsCall, AckReply
    <3>2. r = m
      BY <2>1, <2>3, <3>1 DEF CallInv, OneCall
    <3> QED BY <2>1, <3>1, <3>2
  <2>5. n <= matchIndex'[s][v]
    BY <2>4 DEF Acked
  <2>6. matchIndex'[s][v] <= Top(m)'
    BY <1>3, <2>1 DEF CallShape
  <2>7. matchIndex'[s][v] \in Nat /\ Top(m)' \in Nat
    BY CallsAreNext, CallTypes DEF TypeOK, LeaderTypeOK, Top
  <2> QED BY <2>5, <2>6, <2>7
<1> QED BY <1>1, <1>2, <1>3 DEF Holds

\* Entries that a leader has had stay safe, whoever acknowledges them now.
LEMMA OldEntrySafe ==
    ASSUME IndexInv, TypeOK', Step, ElectionInv, ElectionInv', CallInv, CallInv', LogInv,
           Matched', AckTrue', CallShape', Origin', LogStep,
           NEW s \in Server, state[s] = Leader, state'[s] = Leader, currentTerm'[s] = currentTerm[s],
           NEW n \in 1 .. last[s], full[s][n].term = currentTerm[s]
    PROVE  Safe(full[s], n, currentTerm[s], Acks(s, n))'
<1> USE DEF LogStep
<1>0. /\ TypeOK /\ Matched /\ n \in Nat \ {0} /\ last[s] \in Nat /\ currentTerm[s] \in Nat
  BY LogFacts DEF IndexInv, LogInv
<1>1. PICK f : f = full[s]
  OBVIOUS
<1>2. PICK g : g = full'[s]
  OBVIOUS
<1>3. PICK T \in Nat : T = currentTerm[s]
  BY <1>0
<1>4. PICK A \in SUBSET Server : A = Acks(s, n)
  BY DEF Acks
<1>5. PICK B \in SUBSET Server : B = Acks(s, n)'
  BY DEF Acks
<1>6. \A k \in 1 .. n : f[k] = g[k]
  <2>1. Grown(s)
    BY <1>0, LeaderLog DEF LogsStep
  <2>2. \A k \in 1 .. last[s] : full'[s][k] = full[s][k]
    BY <2>1 DEF Grown
  <2>3. \A k \in 1 .. n : k \in 1 .. last[s]
    BY <1>0
  <2> QED BY <1>1, <1>2, <2>2, <2>3
<1>7. Safe(f, n, T, A)'
  <2>1. IsPrefix(f, n, T)
    <3>1. /\ NodeFrag(s) \in Frags /\ NodeFrag(s).base = 0 /\ NodeFrag(s).trm = 0
          /\ NodeFrag(s).top = last[s] /\ NodeFrag(s).at = full[s]
      BY FragsAre
    <3> QED BY <1>0, <1>1, <1>3, <3>1 DEF IsPrefix
  <2>2. Safe(f, n, T, A)
    BY <1>1, <1>3, <1>4 DEF LogInv, LeaderSafe
  <2> QED BY <2>1, <2>2, SafeKept
<1>8. \A v \in B : v = s \/ Acked(v, s, n)'
  BY <1>5 DEF Acks
<1>9. \A v \in B : currentTerm'[v] >= T /\ currentTerm'[v] \in Nat
  BY <1>0, <1>3, <1>8 DEF AckTrue, TypeOK, TermTypeOK
<1>10. \A v \in B : v \in A \/ currentTerm'[v] = T
  <2> TAKE v \in B
  <2>1. CASE v = s
    BY <1>4, <2>1 DEF Acks
  <2>2. CASE Acked(v, s, n)'
    <3>1. Acked(v, s, n) \/ NewAck(v, s, n)
      BY <1>0, <2>2, AckFrom DEF LogInv
    <3>2. CASE Acked(v, s, n)
      BY <1>4, <3>2 DEF Acks
    <3>3. CASE NewAck(v, s, n)
      BY <1>0, <1>3, <3>3, NewAckTrue DEF LogInv, CallInv
    <3> QED BY <3>1, <3>2, <3>3
  <2> QED BY <1>8, <2>1, <2>2
<1>11. Safe(f, n, T, B)'
  <2> SUFFICES ASSUME Majority(B \cup {v \in Server : currentTerm[v] <= T})'
               PROVE  Locked(f, n, T)' /\ \A v \in B : Holds(v, f, n, T)'
    BY <1>9 DEF Safe
  <2>1. Majority(A \cup {v \in Server : currentTerm[v] <= T})'
    <3> DEFINE P == B \cup {v \in Server : currentTerm'[v] <= T}
               Q == A \cup {v \in Server : currentTerm'[v] <= T}
    <3>1. P \subseteq Q /\ Q \in SUBSET Server
      BY <1>10
    <3>2. Majority(P)
      BY DEF Majority
    <3> HIDE DEF P, Q
    <3>3. Majority(Q)
      BY <3>1, <3>2, MajorityGrows
    <3> QED BY <3>3 DEF Q, Majority
  <2>2. Locked(f, n, T)' /\ \A v \in A : Holds(v, f, n, T)'
    BY <1>7, <2>1 DEF Safe
  <2>3. ASSUME NEW v \in B, v \notin A PROVE Holds(v, f, n, T)'
    <3>1. currentTerm'[v] = T /\ v # s
      BY <1>4, <1>10, <2>3 DEF Acks
    <3>2. Acked(v, s, n)'
      BY <1>8, <3>1
    <3>3. \A k \in 1 .. n : full'[s][k] = f[k]
      BY <1>2, <1>6
    <3> QED BY <1>0, <1>3, <3>1, <3>2, <3>3, AckHolds
  <2> QED BY <2>2, <2>3
<1>12. Safe(g, n, T, B)'
  BY <1>0, <1>6, <1>11, SafeSame
<1> QED BY <1>2, <1>3, <1>5, <1>12 DEF Safe, Locked, Holds, Agrees, CallAgrees, Top

\* While a majority may still be in term T, no later term has begun.
LEMMA NoLaterTerm ==
    ASSUME TypeOK', NEW s \in Server, NEW T \in Nat, currentTerm'[s] = T,
           Majority({s} \cup {v \in Server : currentTerm'[v] <= T}),
           NEW u \in Nat, Over(u)'
    PROVE  u <= T
<1> SUFFICES ASSUME u > T PROVE FALSE
  OBVIOUS
<1> DEFINE P == {s} \cup {v \in Server : currentTerm'[v] <= T}
           Q == {v \in Server : currentTerm'[v] >= u}
<1>1. Majority(Q)
  BY DEF Over, Majority
<1>2. P \in SUBSET Server /\ Q \in SUBSET Server
  OBVIOUS
<1>3. PICK v \in Server : v \in P /\ v \in Q
  BY <1>1, <1>2, MajoritiesMeet
<1>4. currentTerm'[v] \in Nat
  BY DEF TypeOK, TermTypeOK
<1> QED BY <1>3, <1>4

\* A leader's voters are in its term at least.
LEMMA LeaderTermBegun ==
    ASSUME TypeOK', ElectionInv', NEW s \in Server, NEW T \in Nat, currentTerm'[s] = T,
           Majority({s} \cup {v \in Server : currentTerm'[v] <= T}),
           NEW t \in Server, state'[t] = Leader
    PROVE  currentTerm'[t] <= T
<1>0. currentTerm'[t] \in Nat
  BY DEF TypeOK, TermTypeOK
<1> SUFFICES ASSUME currentTerm'[t] > T PROVE FALSE
  BY <1>0
<1>1. PICK b \in 1 .. MaxTerm : votes'[t][b].term = currentTerm'[t] /\ Majority(votes[t][b].voters)'
  BY DEF ElectionInv, LeaderHasMajority
<1> DEFINE P == {s} \cup {v \in Server : currentTerm'[v] <= T}
           Q == votes'[t][b].voters
<1>2. Q \in SUBSET Server /\ Majority(Q)
  BY <1>1 DEF TypeOK, ElectionTypeOK, Majority
<1>3. PICK v \in Server : v \in P /\ v \in Q
  BY <1>2, MajoritiesMeet
<1>4. currentTerm'[v] \in Nat
  BY DEF TypeOK, TermTypeOK
<1>5. currentTerm'[v] <= T
  BY <1>3
<1>6. v # t
  BY <1>0, <1>5
<1>7. Claims(t, v, currentTerm[t])'
  BY <1>1, <1>3, <1>6 DEF Claims
<1>8. Voted(v, currentTerm[t], t)'
  BY <1>0, <1>7 DEF ElectionInv, ClaimsVoted
<1> QED BY <1>0, <1>4, <1>5, <1>8 DEF Voted

\* The entry that a leader proposes is safe: as long as it could be that all
\* who are not past its term will hold it, nobody leads a later one.
LEMMA NewEntrySafe ==
    ASSUME IndexInv, TypeOK', Step, ElectionInv', ElectionSafety', CallInv, CallInv', LogInv,
           Matched', Closed', AckTrue', CallShape', Origin', LogStep,
           NEW s \in Server, Proposes(s), NEW n, n = last'[s]
    PROVE  Safe(full[s], n, currentTerm[s], Acks(s, n))'
<1> USE DEF LogStep
<1>0. /\ TypeOK /\ Matched /\ last[s] \in Nat /\ currentTerm[s] \in Nat
      /\ n = last[s] + 1 /\ n \in Nat \ {0}
      /\ state[s] = Leader /\ state'[s] = Leader /\ currentTerm'[s] = currentTerm[s]
      /\ full'[s][n].term = currentTerm[s]
  BY LogFacts, ExtendedLog DEF IndexInv, LogInv, Proposes
<1>2. PICK g : g = full'[s]
  OBVIOUS
<1>3. PICK T \in Nat : T = currentTerm'[s] /\ T = currentTerm[s]
  BY <1>0
<1>4. Acks(s, n)' = {s}
  <2> SUFFICES ASSUME NEW v \in Server, Acked(v, s, n)' PROVE FALSE
    BY DEF Acks
  <2>1. Acked(v, s, n) \/ NewAck(v, s, n)
    BY <1>0, AckFrom DEF LogInv
  <2>2. n <= last[s]
    <3>1. CASE Acked(v, s, n)
      BY <1>0, <3>1 DEF LogInv, AckTrue
    <3>2. CASE NewAck(v, s, n)
      BY <1>0, <3>2, NewAckTrue DEF LogInv, CallInv
    <3> QED BY <2>1, <3>1, <3>2
  <2> QED BY <1>0, <2>2
<1> SUFFICES Safe(g, n, T, {s})'
  BY <1>2, <1>3, <1>4 DEF Safe, Locked, Holds, Agrees, CallAgrees, Top
<1> SUFFICES ASSUME Majority({s} \cup {v \in Server : currentTerm[v] <= T})'
             PROVE  Locked(g, n, T)' /\ Holds(s, g, n, T)'
  <2>0. T >= T
    OBVIOUS
  <2>1. \A v \in {s} : currentTerm'[v] >= T
    BY <1>3, <2>0, Zenon
  <2>2. Holds(s, g, n, T)' => \A v \in {s} : Holds(v, g, n, T)'
    BY DEF Holds, Agrees
  <2> QED BY <2>1, <2>2 DEF Safe
<1>5. Majority({s} \cup {v \in Server : currentTerm'[v] <= T})
  BY DEF Majority
<1>6. \A u \in Nat : Over(u)' => u <= T
  BY <1>3, <1>5, NoLaterTerm
<1>7. Agrees(s, g, n)'
  BY <1>0, <1>2 DEF Agrees
<1>8. ASSUME NEW t \in Server, state'[t] = Leader, currentTerm'[t] >= T PROVE Agrees(t, g, n)'
  <2>1. currentTerm'[t] <= T /\ currentTerm'[t] \in Nat
    BY <1>3, <1>5, <1>8, LeaderTermBegun DEF TypeOK, TermTypeOK
  <2>2. t = s
    BY <1>0, <1>3, <1>8, <2>1 DEF ElectionSafety
  <2> QED BY <1>7, <2>2
<1>9. \A t \in Server : \A i \in 1 .. last'[t] : ~(full'[t][i].term > T)
  <2> TAKE t \in Server
  <2> TAKE i \in 1 .. last'[t]
  <2>1. full'[t][i].term \in Nat /\ last'[t] \in Nat
    BY LogFactsNext
  <2>2. /\ NodeFrag(t)' \in Frags' /\ NodeFrag(t)'.base = 0
        /\ NodeFrag(t)'.top = last'[t] /\ NodeFrag(t)'.at = full'[t]
    BY FragsAreNext
  <2>3. PICK u \in Nat : u = full'[t][i].term
    BY <2>1
  <2>4. i \in NodeFrag(t)'.base + 1 .. NodeFrag(t)'.top /\ NodeFrag(t)'.at[i].term = u
    BY <2>1, <2>2, <2>3
  <2>5. EntryIn(i, u)'
    BY <2>2, <2>4 DEF EntryIn
  <2>6. Over(u)'
    BY <2>5 DEF Closed
  <2> QED BY <1>6, <2>3, <2>6
<1>10. \A i \in 1 .. Len(committed') : ~(committed'[i].term > T)
  <2> TAKE i \in 1 .. Len(committed')
  <2>1. committed'[i].term \in Nat /\ Len(committed') \in Nat
    BY LogFactsNext
  <2>2. /\ CommittedFrag' \in Frags' /\ CommittedFrag'.base = 0
        /\ CommittedFrag'.top = Len(committed') /\ CommittedFrag'.at = committed'
    BY FragsAreNext
  <2>3. PICK u \in Nat : u = committed'[i].term
    BY <2>1
  <2>4. i \in CommittedFrag'.base + 1 .. CommittedFrag'.top /\ CommittedFrag'.at[i].term = u
    BY <2>1, <2>2, <2>3
  <2>5. EntryIn(i, u)'
    BY <2>2, <2>4 DEF EntryIn
  <2>6. Over(u)'
    BY <2>5 DEF Closed
  <2> QED BY <1>6, <2>3, <2>6
<1>11. ASSUME NEW m \in Appends' \cup Installs', m.term >= T PROVE m.term = T /\ m.src = s
  <2>1. m.term \in Nat
    BY CallsAreNext, CallTypes
  <2>2. Over(m.term)'
    BY DEF Closed
  <2>3. m.term = T
    BY <1>6, <1>11, <2>1, <2>2
  <2> QED BY <1>0, <1>3, <2>3 DEF Origin
<1>12. ASSUME NEW m \in Appends', m.term >= T PROVE CallAgrees(m, g, n, T)'
  <2>1. m.term = T /\ m.src = s
    BY <1>11, <1>12
  <2>2. /\ Top(m)' <= last'[s]
        /\ \A k \in m.prevLogIndex + 1 .. Top(m)' : m.entries[k - m.prevLogIndex] = full'[s][k]
        /\ m.prevLogIndex > 0 => m.prevLogTerm = full'[s][m.prevLogIndex].term
    BY <1>0, <1>3, <2>1 DEF CallShape
  <2>3. m.prevLogIndex \in Nat /\ Top(m)' \in Nat /\ m.prevLogIndex <= Top(m)'
    BY CallsAreNext, CallTypes DEF Top
  <2>4. ~(m.prevLogIndex > n) /\ ~(m.term > T)
    BY <1>0, <2>1, <2>2, <2>3
  <2> QED BY <1>2, <2>2, <2>3, <2>4 DEF CallAgrees
<1>13. ASSUME NEW m \in Installs', m.term >= T, NEW k \in 1 .. m.lastIncludedIndex
       PROVE  committed'[k] = g[k]
  <2>1. m.term = T /\ m.src = s
    BY <1>11, <1>13
  <2>2. m \in Installs
    <3>1. ~Kept(s)
      BY <1>0 DEF Kept
    <3> QED BY <3>1 DEF SendStep, SendsSnapshot, Calls
  <2>3. /\ m.lastIncludedIndex \in Nat /\ m.lastIncludedIndex <= last[s]
        /\ full[s][k] = committed[k]
    BY <1>0, <1>3, <2>1, <2>2, LeaderInstall DEF LogInv
  <2>4. k \in 1 .. last[s] /\ k \in 1 .. m.lastIncludedIndex
    BY <1>0, <2>3
  <2>5. full'[s][k] = full[s][k]
    BY <2>4, ExtendedLog
  <2>6. m.lastIncludedIndex <= Len(committed) /\ Len(committed) \in Nat
    BY <1>0, <2>2, LogFacts DEF IndexInv, CallOK, Installs
  <2>7. k \in 1 .. Len(committed)
    BY <2>3, <2>6
  <2>8. committed'[k] = committed[k]
    BY <2>7 DEF CommittedStep
  <2> QED BY <1>2, <2>3, <2>5, <2>8
<1>14. Locked(g, n, T)'
  BY <1>8, <1>9, <1>10, <1>12, <1>13 DEF Locked
<1>15. ASSUME NEW t \in Server, currentTerm'[t] > T, Claims(t, s, currentTerm[t])' PROVE FALSE
  <2>0. currentTerm'[t] \in Nat
    BY DEF TypeOK, TermTypeOK
  <2>1. Voted(s, currentTerm[t], t)'
    BY <1>15, <2>0 DEF ElectionInv, ClaimsVoted
  <2> QED BY <1>3, <1>15, <2>0, <2>1 DEF Voted
<1>16. ASSUME NEW m \in Appends', m.dst = s, m.term = T PROVE FALSE
  <2>1. m.src = s
    BY <1>11, <1>16
  <2>2. m.src # m.dst
    BY DEF CallInv, CallEpochs
  <2> QED BY <1>16, <2>1, <2>2
<1> QED BY <1>7, <1>14, <1>15, <1>16 DEF Holds

\* LeaderSafe is preserved.
LEMMA LeaderSafeKept ==
    ASSUME IndexInv, TypeOK', Step, ElectionInv, ElectionInv', ElectionSafety', CallInv, CallInv',
           LogInv, Matched', Closed', AckTrue', CallShape', Origin', LogStep
    PROVE  LeaderSafe'
<1> SUFFICES ASSUME NEW s \in Server, state'[s] = Leader, NEW n \in 1 .. last'[s],
                    full'[s][n].term = currentTerm'[s]
             PROVE  Safe(full[s], n, currentTerm[s], Acks(s, n))'
  BY DEF LeaderSafe
<1> USE DEF LogStep
<1>0. /\ TypeOK /\ Matched /\ last[s] \in Nat /\ last'[s] \in Nat
      /\ currentTerm'[s] = currentTerm[s] /\ (state[s] = Leader \/ Wins(s))
  BY LogFacts, LogFactsNext DEF IndexInv, LogInv, RoleStep
<1>1. state[s] = Leader
  <2> SUFFICES ASSUME Wins(s) PROVE FALSE
    BY <1>0
  <2>1. n \in 1 .. last[s] /\ full[s][n].term = currentTerm[s]
    BY <1>0 DEF Wins, Kept
  <2>2. EntryIn(n, currentTerm[s])
    BY <2>1, NodeEntry
  <2> QED BY <1>0, <2>2, WinnerNew DEF LogInv
<1>2. CASE n \in 1 .. last[s]
  <2>1. Grown(s)
    BY <1>0, LeaderLog DEF LogsStep
  <2>2. full[s][n].term = currentTerm[s]
    BY <1>0, <1>2, <2>1 DEF Grown
  <2> QED BY <1>0, <1>1, <1>2, <2>2, OldEntrySafe
<1>3. CASE n > last[s]
  <2>1. ~Kept(s)
    BY <1>0, <1>3 DEF Kept
  <2>2. Proposes(s)
    <3>1. \A m : m.dst = s => ~Accepts(m) /\ ~Adopts(m)
      BY DEF Accepts, Adopts, Handled, Leader, Follower
    <3> QED BY <2>1, <3>1 DEF LogsStep, LogStepOf
  <2>3. n = last'[s]
    BY <1>0, <1>3, <2>2, ExtendedLog
  <2> QED BY <2>2, <2>3, NewEntrySafe
<1> QED BY <1>0, <1>2, <1>3

(***************************************************************************)
(* What is committed stays.                                                *)
(***************************************************************************)

\* What an anchor says: the committed entries through it are locked.
LEMMA AnchorLocks ==
    ASSUME TypeOK, Matched, NEW j, j \in 1 .. Len(committed), Anchor(j)
    PROVE  /\ IsPrefix(committed, j, committed[j].term) /\ Locked(committed, j, committed[j].term)
           /\ committed[j].term \in Nat
           /\ \E A \in SUBSET Server : Majority(A) /\ Safe(committed, j, committed[j].term, A)
                /\ Majority(A \cup {v \in Server : currentTerm[v] <= committed[j].term})
                /\ \A v \in A : Holds(v, committed, j, committed[j].term)
<1>1. PICK A \in SUBSET Server : Majority(A) /\ Safe(committed, j, committed[j].term, A)
  BY DEF Anchor
<1>2. PICK T : T = committed[j].term
  OBVIOUS
<1>3. Majority(A \cup {v \in Server : currentTerm[v] <= T})
  <2> DEFINE Q == A \cup {v \in Server : currentTerm[v] <= T}
  <2>1. A \subseteq Q /\ Q \in SUBSET Server
    OBVIOUS
  <2> HIDE DEF Q
  <2>2. Majority(Q)
    BY <1>1, <2>1, MajorityGrows
  <2> QED BY <2>2 DEF Q
<1>4. Locked(committed, j, T) /\ \A v \in A : Holds(v, committed, j, T)
  BY <1>1, <1>2, <1>3 DEF Safe
<1>5. /\ Len(committed) \in Nat /\ committed[j].term \in Nat
  <2>1. committed \in Seq(Entry)
    BY DEF TypeOK, CommitTypeOK
  <2>2. Len(committed) \in Nat /\ committed[j] \in Entry
    BY <2>1
  <2> QED BY <2>2 DEF Entry
<1>6. IsPrefix(committed, j, committed[j].term)
  <2>1. /\ CommittedFrag \in Frags /\ CommittedFrag.base = 0 /\ CommittedFrag.trm = 0
        /\ CommittedFrag.top = Len(committed) /\ CommittedFrag.at = committed
    BY FragsAre
  <2>2. j \in Nat \ {0} /\ j <= Len(committed)
    BY <1>5
  <2> QED BY <1>5, <2>1, <2>2 DEF IsPrefix
<1> QED BY <1>1, <1>2, <1>3, <1>4, <1>5, <1>6

\* What is known to be committed in a term.
LEMMA KnownLocks ==
    ASSUME TypeOK, Matched, NEW c \in Nat \ {0}, NEW T \in Nat, KnownBy(c, T)
    PROVE  \E j \in 1 .. Len(committed) :
              /\ c <= j /\ Anchor(j) /\ committed[j].term \in Nat /\ committed[j].term <= T
              /\ IsPrefix(committed, j, committed[j].term) /\ Locked(committed, j, committed[j].term)
<1>1. PICK j \in c .. Len(committed) : Anchor(j) /\ committed[j].term <= T
  BY DEF KnownBy
<1>2. Len(committed) \in Nat
  BY DEF TypeOK, CommitTypeOK
<1>3. j \in 1 .. Len(committed) /\ c <= j
  BY <1>2
<1> QED BY <1>1, <1>3, AnchorLocks

\* Anchors stay.
LEMMA AnchorKept ==
    ASSUME IndexInv, TypeOK', Step, ElectionInv, CallInv, LogInv, Matched', LogStep,
           NEW j, j \in 1 .. Len(committed), Anchor(j)
    PROVE  Anchor(j)' /\ j <= Len(committed') /\ committed'[j] = committed[j]
<1>0. TypeOK /\ Len(committed) \in Nat /\ Len(committed') \in Nat /\ j \in Nat /\ Matched
  BY DEF IndexInv, TypeOK, CommitTypeOK, LogInv
<1>1. Len(committed) <= Len(committed') /\ \A k \in 1 .. Len(committed) : committed'[k] = committed[k]
  BY <1>0 DEF LogStep, CommittedStep
<1>2. PICK f : f = committed
  OBVIOUS
<1>3. PICK g : g = committed'
  OBVIOUS
<1>4. PICK T : T = committed[j].term
  OBVIOUS
<1>5. /\ IsPrefix(f, j, T)
      /\ \E A \in SUBSET Server : Majority(A) /\ Safe(f, j, T, A)
  BY <1>0, <1>2, <1>4, AnchorLocks
<1>6. PICK A \in SUBSET Server : Majority(A) /\ Safe(f, j, T, A)
  BY <1>5
<1>7. Safe(f, j, T, A)'
  BY <1>5, <1>6, SafeKept
<1>8. \A k \in 1 .. j : f[k] = g[k]
  BY <1>0, <1>1, <1>2, <1>3
<1>9. Safe(g, j, T, A)'
  BY <1>0, <1>7, <1>8, SafeSame
<1>10. committed'[j] = committed[j] /\ j <= Len(committed')
  BY <1>0, <1>1
<1>11. T = committed'[j].term
  BY <1>4, <1>10
<1>12. Safe(committed, j, committed[j].term, A)'
  BY <1>3, <1>9, <1>11 DEF Safe, Locked, Holds, Agrees, CallAgrees, Top
<1>13. Majority(A)'
  BY <1>6 DEF Majority
<1> QED BY <1>10, <1>12, <1>13 DEF Anchor

\* What is known to be committed stays so, in this term and later.
LEMMA KnownKept ==
    ASSUME IndexInv, TypeOK', Step, ElectionInv, CallInv, LogInv, Matched', LogStep,
           NEW c \in Nat, NEW d \in Nat, d <= c, NEW T \in Nat, NEW U \in Nat, T <= U, KnownBy(c, T)
    PROVE  KnownBy(d, U)'
<1> SUFFICES ASSUME d > 0 PROVE \E j \in d .. Len(committed') : Anchor(j)' /\ committed'[j].term <= U
  BY DEF KnownBy
<1>0. TypeOK /\ Matched /\ c \in Nat \ {0} /\ Len(committed) \in Nat /\ Len(committed') \in Nat
  BY DEF IndexInv, LogInv, TypeOK, CommitTypeOK
<1>1. PICK j \in 1 .. Len(committed) : c <= j /\ Anchor(j) /\ committed[j].term \in Nat /\ committed[j].term <= T
  BY <1>0, KnownLocks
<1>2. Anchor(j)' /\ j <= Len(committed') /\ committed'[j] = committed[j]
  BY <1>1, AnchorKept
<1>3. j \in d .. Len(committed') /\ committed'[j].term <= U
  BY <1>0, <1>1, <1>2
<1> QED BY <1>2, <1>3

\* A new commitment is an anchor.
LEMMA AdvanceAnchor ==
    ASSUME TypeOK, TypeOK', LeaderSafe', NEW s \in Server, NEW n \in Nat, Advances(s, n)
    PROVE  /\ Anchor(n)' /\ n \in 1 .. Len(committed') /\ n <= last'[s]
           /\ committed'[n].term = currentTerm'[s] /\ \A k \in 1 .. n : full'[s][k] = committed'[k]
<1>1. /\ state'[s] = Leader /\ currentTerm'[s] = currentTerm[s]
      /\ n \in 1 .. last'[s] /\ full'[s][n].term = currentTerm[s]
      /\ Majority(Acks(s, n)')
      /\ n <= Len(committed') /\ \A k \in 1 .. n : full'[s][k] = committed'[k]
  BY DEF Advances
<1>2. PICK f : f = full'[s]
  OBVIOUS
<1>3. PICK g : g = committed'
  OBVIOUS
<1>4. PICK T : T = currentTerm'[s]
  OBVIOUS
<1>5. PICK A \in SUBSET Server : A = Acks(s, n)'
  BY DEF Acks
<1>6. Safe(full[s], n, currentTerm[s], Acks(s, n))'
  BY <1>1 DEF LeaderSafe
<1>7. Safe(f, n, T, A)'
  BY <1>2, <1>4, <1>5, <1>6 DEF Safe, Locked, Holds, Agrees, CallAgrees, Top
<1>8. \A k \in 1 .. n : f[k] = g[k]
  BY <1>1, <1>2, <1>3
<1>9. Safe(g, n, T, A)'
  BY <1>7, <1>8, SafeSame
<1>10. last'[s] \in Int /\ Len(committed') \in Nat
  BY DEF last, LastLogIndex, TypeOK, LogTypeOK, CommitTypeOK
<1>11. n \in 1 .. Len(committed') /\ n <= last'[s] /\ n \in 1 .. n
  BY <1>1, <1>10
<1>12. committed'[n].term = T
  BY <1>1, <1>4, <1>11
<1>13. Safe(committed, n, committed[n].term, A)'
  BY <1>3, <1>9, <1>12 DEF Safe, Locked, Holds, Agrees, CallAgrees, Top
<1>14. Majority(A)'
  BY <1>1, <1>5 DEF Majority
<1> QED BY <1>1, <1>4, <1>11, <1>12, <1>13, <1>14 DEF Anchor

\* A peer has committed nothing that a call of its term or later follows.
LEMMA PrevAboveCommit ==
    ASSUME TypeOK, Matched, CommitKnown, NextAboveCommit, NEW m \in Appends,
           currentTerm[m.dst] <= m.term
    PROVE  commitIndex[m.dst] <= m.prevLogIndex
<1>0. /\ m.dst \in Server /\ commitIndex[m.dst] \in Nat /\ currentTerm[m.dst] \in Nat
      /\ m.term \in Nat /\ m.prevLogIndex \in Nat /\ Top(m) \in Nat
  BY CallsAre, CallTypes DEF TypeOK, TermTypeOK, CommitTypeOK
<1>1. CASE currentTerm[m.dst] = m.term
  BY <1>1 DEF NextAboveCommit
<1>2. CASE currentTerm[m.dst] < m.term
  <2> SUFFICES ASSUME ~(commitIndex[m.dst] <= m.prevLogIndex) PROVE FALSE
    OBVIOUS
  <2>1. PICK c \in Nat : c = commitIndex[m.dst]
    BY <1>0
  <2>2. PICK q \in Nat : q = m.prevLogIndex
    BY <1>0
  <2>3. PICK t \in Nat : t = currentTerm[m.dst]
    BY <1>0
  <2>4. c > q /\ c \in Nat \ {0}
    BY <2>1, <2>2
  <2>5. KnownBy(c, t)
    BY <1>0, <2>1, <2>3 DEF CommitKnown
  <2>6. PICK j \in 1 .. Len(committed) :
              /\ c <= j /\ committed[j].term \in Nat /\ committed[j].term <= t
              /\ Locked(committed, j, committed[j].term)
    BY <2>4, <2>5, KnownLocks
  <2>7. PICK U \in Nat : U = committed[j].term /\ U <= t
    BY <2>6
  <2>8. m.term > U /\ m.term >= U
    <3>1. m.term \in Nat /\ t < m.term /\ U <= t
      BY <1>0, <1>2, <2>3, <2>7
    <3> QED BY <3>1
  <2>9. CallAgrees(m, committed, j, U)
    BY <2>6, <2>7, <2>8 DEF Locked
  <2>10. j <= Top(m) /\ j \in Nat /\ Len(committed) \in Nat
    BY <2>8, <2>9 DEF CallAgrees, TypeOK, CommitTypeOK
  <2>11. c \in q + 1 .. Top(m) /\ c \in 1 .. Len(committed) /\ c <= j
    BY <1>0, <2>4, <2>6, <2>10
  <2>12. m.entries[c - q] = committed[c]
    BY <2>2, <2>9, <2>11 DEF CallAgrees
  <2>13. committed[c].term <= U /\ committed[c].term \in Nat
    BY <1>0, <2>7, <2>11, LogFacts
  <2>14. c - q \in DOMAIN m.entries
    <3>1. m.entries \in Seq(Entry) /\ Top(m) = q + Len(m.entries) /\ Len(m.entries) \in Nat
      BY <2>2, CallsAre, CallTypes DEF Top
    <3> QED BY <2>11, <3>1
  <2>15. m.entries[c - q].term = m.term
    BY <1>2, <2>14 DEF NextAboveCommit
  <2> QED BY <1>0, <2>8, <2>12, <2>13, <2>15
<1> QED BY <1>0, <1>1, <1>2

\* No step takes an entry that a node has committed from its log.
LEMMA CommitStays ==
    ASSUME IndexInv, TypeOK', CallInv, LogInv, Matched', LogStep, NEW t \in Server
    PROVE  commitIndex[t] <= last'[t] /\ \A k \in 1 .. commitIndex[t] : full'[t][k] = committed[k]
<1> USE DEF CallInv, LogInv, LogStep
<1>0. /\ TypeOK /\ last[t] \in Nat /\ last'[t] \in Nat /\ commitIndex[t] \in Nat
      /\ currentTerm[t] \in Nat
  BY LogFacts, LogFactsNext DEF IndexInv, TypeOK, CommitTypeOK
<1>1. PICK c \in Nat : c = commitIndex[t]
  BY <1>0
<1> SUFFICES c <= last'[t] /\ \A k \in 1 .. c : full'[t][k] = committed[k]
  BY <1>1
<1>2. c <= last[t] /\ \A k \in 1 .. c : full[t][k] = committed[k]
  BY <1>1 DEF CommitKnown
<1>3. CASE Kept(t)
  BY <1>2, <1>3 DEF Kept
<1>4. CASE Proposes(t)
  BY <1>0, <1>2, <1>4, ExtendedLog
<1>5. ASSUME NEW m \in Appends, m.dst = t, m.entries # <<>>, Accepts(m)
      PROVE  c <= last'[t] /\ \A k \in 1 .. c : full'[t][k] = committed[k]
  <2>1. /\ last'[t] = Top(m)
        /\ \A k \in 1 .. m.prevLogIndex : full'[t][k] = full[t][k]
    BY <1>0, <1>5, SplicedLog
  <2>2. m.prevLogIndex \in Nat /\ Top(m) \in Nat /\ m.prevLogIndex <= Top(m)
    BY <1>0, CallsAre, CallTypes
  <2>3. currentTerm[m.dst] <= m.term
    BY <1>5 DEF Accepts, Handled
  <2>4. c <= m.prevLogIndex
    BY <1>0, <1>1, <1>5, <2>3, PrevAboveCommit
  <2> QED BY <1>2, <2>1, <2>2, <2>4
<1>6. ASSUME NEW m \in Installs, m.dst = t, Adopts(m), Replaces(m)
      PROVE  c <= last'[t] /\ \A k \in 1 .. c : full'[t][k] = committed[k]
  <2>1. /\ last'[t] = m.lastIncludedIndex
        /\ \A k \in 1 .. m.lastIncludedIndex : full'[t][k] = committed[k]
    BY <1>0, <1>6, ReplacedLog
  <2>2. /\ m.lastIncludedIndex \in Nat /\ m.lastIncludedIndex > 0
        /\ m.lastIncludedTerm = committed[m.lastIncludedIndex].term
    BY <1>0, <1>6, CallsAre, CallTypes DEF Replaces, CallsKnown
  <2>3. c <= m.lastIncludedIndex
    <3> SUFFICES ASSUME ~(c <= m.lastIncludedIndex) PROVE FALSE
      OBVIOUS
    <3>1. m.lastIncludedIndex \in 1 .. c /\ m.lastIncludedIndex <= last[t]
      BY <1>0, <1>2, <2>2
    <3>2. full[t][m.lastIncludedIndex] = committed[m.lastIncludedIndex]
      BY <1>2, <3>1
    <3> QED BY <1>6, <2>2, <3>1, <3>2 DEF Replaces
  <2> QED BY <2>1, <2>2, <2>3
<1> QED BY <1>3, <1>4, <1>5, <1>6 DEF LogsStep, LogStepOf

\* CommitKnown is preserved.
LEMMA CommitKnownKept ==
    ASSUME IndexInv, TypeOK', Step, ElectionInv, CallInv, LogInv, Matched', LeaderSafe', LogStep
    PROVE  CommitKnown'
<1> USE DEF LogStep
<1>0. /\ TypeOK /\ Matched /\ Len(committed) \in Nat /\ Len(committed') \in Nat
      /\ Len(committed) <= Len(committed')
      /\ \A k \in 1 .. Len(committed) : committed'[k] = committed[k]
  BY DEF IndexInv, LogInv, TypeOK, CommitTypeOK, CommittedStep
<1>1. Len(committed') > 0 => Anchor(Len(committed))'
  <2>1. CASE committed' = committed
    <3> SUFFICES ASSUME Len(committed') > 0 PROVE Anchor(Len(committed))'
      OBVIOUS
    <3>1. PICK L \in Nat : L = Len(committed) /\ L = Len(committed')
      BY <1>0, <2>1
    <3>2. L \in 1 .. Len(committed) /\ Anchor(L)
      BY <3>1 DEF LogInv, CommitKnown
    <3>3. Anchor(L)'
      BY <3>2, AnchorKept
    <3> QED BY <3>1, <3>3
  <2>2. ASSUME NEW s \in Server, NEW n \in Nat, Advances(s, n), n = Len(committed')
        PROVE  Anchor(Len(committed))'
    <3>1. Anchor(n)'
      BY <1>0, <2>2, AdvanceAnchor
    <3> QED BY <2>2, <3>1
  <2> QED BY <2>1, <2>2 DEF CommittedStep
<1>2. ASSUME NEW t \in Server
      PROVE  /\ commitIndex'[t] <= last'[t]
             /\ \A k \in 1 .. commitIndex'[t] : full'[t][k] = committed'[k]
             /\ KnownBy(commitIndex[t], currentTerm[t])'
  <2>0. /\ commitIndex[t] \in Nat /\ commitIndex'[t] \in Nat /\ last[t] \in Nat /\ last'[t] \in Nat
        /\ currentTerm[t] \in Nat /\ currentTerm'[t] \in Nat /\ currentTerm'[t] >= currentTerm[t]
    BY <1>0, LogFacts, LogFactsNext DEF TypeOK, CommitTypeOK, Step, NodeStep
  <2>1. PICK c \in Nat : c = commitIndex'[t]
    BY <2>0
  <2>2. PICK U \in Nat : U = currentTerm'[t]
    BY <2>0
  <2> SUFFICES /\ c <= last'[t] /\ \A k \in 1 .. c : full'[t][k] = committed'[k]
               /\ KnownBy(c, U)'
    BY <2>1, <2>2
  <2>3. CASE commitIndex'[t] <= commitIndex[t]
    <3>1. PICK d \in Nat : d = commitIndex[t]
      BY <2>0
    <3>2. d <= last'[t] /\ \A k \in 1 .. d : full'[t][k] = committed[k]
      BY <3>1, CommitStays
    <3>3. KnownBy(d, currentTerm[t])
      BY <3>1 DEF LogInv, CommitKnown
    <3>4. c <= d /\ currentTerm[t] <= U
      BY <2>0, <2>1, <2>2, <2>3, <3>1
    <3>5. KnownBy(c, U)'
      BY <2>0, <3>3, <3>4, KnownKept
    <3>6. d <= Len(committed)
      BY <3>1 DEF IndexInv, CommitRecorded
    <3>7. c <= last'[t]
      BY <2>0, <3>2, <3>4
    <3>8. \A k \in 1 .. c : full'[t][k] = committed'[k]
      BY <1>0, <3>2, <3>4, <3>6
    <3> QED BY <3>5, <3>7, <3>8
  <2>4. ASSUME NEW n \in Nat, n = commitIndex'[t], Advances(t, n)
        PROVE  /\ c <= last'[t] /\ \A k \in 1 .. c : full'[t][k] = committed'[k]
               /\ KnownBy(c, U)'
    <3>1. /\ Anchor(c)' /\ c \in 1 .. Len(committed') /\ c <= last'[t]
          /\ committed'[c].term = U /\ \A k \in 1 .. c : full'[t][k] = committed'[k]
      BY <1>0, <2>1, <2>2, <2>4, AdvanceAnchor
    <3>2. c \in c .. Len(committed') /\ committed'[c].term <= U
      BY <1>0, <3>1
    <3>3. KnownBy(c, U)'
      BY <3>1, <3>2 DEF KnownBy
    <3> QED BY <3>1, <3>3
  <2>5. ASSUME NEW m \in Appends, m.dst = t, Accepts(m), commitIndex'[t] = m.leaderCommit
        PROVE  /\ c <= last'[t] /\ \A k \in 1 .. c : full'[t][k] = committed'[k]
               /\ KnownBy(c, U)'
    <3>0. /\ m.prevLogIndex \in Nat /\ Top(m) \in Nat /\ m.prevLogIndex <= Top(m)
          /\ m.entries = <<>> => m.prevLogIndex = Top(m)
      BY <1>0, CallsAre, CallTypes
    <3>1. c <= Top(m) /\ KnownBy(c, U) /\ m.term = U /\ Consistent(m)
      BY <2>1, <2>2, <2>5 DEF LogInv, CallsKnown, Accepts, Handled
    <3>2. KnownBy(c, U)'
      BY <3>1, KnownKept
    <3>3. c <= last'[t]
      <4>1. CASE m.entries = <<>>
        <5>1. last'[t] = last[t]
          BY <2>5, <4>1 DEF Accepts, Kept
        <5> QED BY <2>0, <2>5, <3>0, <3>1, <4>1, <5>1 DEF Consistent
      <4>2. CASE m.entries # <<>>
        BY <1>0, <2>5, <3>1, <4>2, SplicedLog
      <4> QED BY <4>1, <4>2
    <3>4. CASE c = 0
      BY <3>2, <3>3, <3>4
    <3>5. CASE c # 0
      <4>1. PICK j \in 1 .. Len(committed) :
              /\ c <= j /\ committed[j].term \in Nat /\ committed[j].term <= U
              /\ IsPrefix(committed, j, committed[j].term) /\ Locked(committed, j, committed[j].term)
        BY <1>0, <3>1, <3>5, KnownLocks
      <4>2. PICK T \in Nat : T = committed[j].term /\ T <= U
        BY <4>1
      <4>3. c \in 0 .. j /\ m.term >= T /\ j \in Nat
        BY <1>0, <3>1, <4>1, <4>2
      <4>4. IsPrefix(committed, j, T) /\ Locked(committed, j, T)
        BY <4>1, <4>2
      <4>5. /\ \A k \in 1 .. c : k <= m.prevLogIndex => full[t][k] = committed[k]
            /\ \A k \in 1 .. c : k > m.prevLogIndex => m.entries[k - m.prevLogIndex] = committed[k]
        BY <1>0, <2>5, <3>1, <4>3, <4>4, AcceptAgrees
      <4>6. \A k \in 1 .. c : full'[t][k] = committed[k]
        <5>1. CASE m.entries = <<>>
          <6>1. full'[t] = full[t]
            BY <2>5, <5>1 DEF Accepts, Kept
          <6> QED BY <3>0, <3>1, <4>5, <5>1, <6>1
        <5>2. CASE m.entries # <<>>
          <6>1. /\ \A k \in 1 .. m.prevLogIndex : full'[t][k] = full[t][k]
                /\ \A k \in m.prevLogIndex + 1 .. Top(m) : full'[t][k] = m.entries[k - m.prevLogIndex]
            BY <1>0, <2>5, <5>2, SplicedLog
          <6> TAKE k \in 1 .. c
          <6>2. \/ k \in 1 .. m.prevLogIndex /\ k <= m.prevLogIndex
                \/ k \in m.prevLogIndex + 1 .. Top(m) /\ k > m.prevLogIndex
            BY <3>0, <3>1
          <6> QED BY <4>5, <6>1, <6>2
        <5> QED BY <5>1, <5>2
      <4>7. \A k \in 1 .. c : k \in 1 .. Len(committed)
        BY <1>0, <4>1
      <4> QED BY <1>0, <3>2, <3>3, <4>6, <4>7
    <3> QED BY <3>4, <3>5
  <2>6. ASSUME NEW m \in Installs, m.dst = t, Adopts(m), commitIndex'[t] = m.lastIncludedIndex
        PROVE  /\ c <= last'[t] /\ \A k \in 1 .. c : full'[t][k] = committed'[k]
               /\ KnownBy(c, U)'
    <3>1. /\ c <= last'[t] /\ KnownBy(c, U)
          /\ \A k \in 1 .. c : full'[t][k] = committed[k]
      BY <2>1, <2>2, <2>6 DEF LogInv, CallsKnown, Adopts, Handled
    <3>2. KnownBy(c, U)'
      BY <3>1, KnownKept
    <3>3. c <= Len(committed)
      BY <2>1, <2>6 DEF IndexInv, CallOK, Installs
    <3>4. \A k \in 1 .. c : k \in 1 .. Len(committed)
      BY <1>0, <3>3
    <3> QED BY <1>0, <3>1, <3>2, <3>4
  <2> QED BY <2>3, <2>4, <2>5, <2>6 DEF CommitIndexStep
<1>3. \A t \in Server : lastApplied'[t] <= commitIndex'[t]
  BY DEF IndexOrder
<1> QED BY <1>1, <1>2, <1>3 DEF CommitKnown

\* CallsKnown is preserved.
LEMMA CallsKnownKept ==
    ASSUME IndexInv, TypeOK', Step, ElectionInv, CallInv, LogInv, Matched', LogStep
    PROVE  CallsKnown'
<1> USE DEF LogStep
<1>0. /\ TypeOK /\ Matched /\ Len(committed) \in Nat /\ Len(committed') \in Nat
      /\ \A k \in 1 .. Len(committed) : committed'[k] = committed[k]
  BY DEF IndexInv, LogInv, TypeOK, CommitTypeOK, CommittedStep
<1>1. ASSUME NEW m \in Appends' PROVE m.leaderCommit <= Top(m) /\ KnownBy(m.leaderCommit, m.term)'
  <2>0. m.src \in Server /\ m.leaderCommit \in Nat /\ m.term \in Nat /\ Top(m) \in Nat
    BY CallsAreNext, CallTypes
  <2>1. CASE m \in Appends
    <3>1. m.leaderCommit <= Top(m) /\ KnownBy(m.leaderCommit, m.term)
      BY <2>1 DEF LogInv, CallsKnown
    <3>2. m.leaderCommit <= m.leaderCommit /\ m.term <= m.term
      BY <2>0
    <3> QED BY <2>0, <3>1, <3>2, KnownKept
  <2>2. CASE SendsEntries(m)
    <3>1. Top(m) = last[m.src] /\ m.leaderCommit = commitIndex[m.src] /\ m.term = currentTerm[m.src]
      BY <2>2 DEF SendsEntries, Calls
    <3>2. m.leaderCommit <= Top(m) /\ KnownBy(m.leaderCommit, m.term)
      BY <2>0, <3>1 DEF LogInv, CommitKnown
    <3>3. m.leaderCommit <= m.leaderCommit /\ m.term <= m.term
      BY <2>0
    <3> QED BY <2>0, <3>2, <3>3, KnownKept
  <2> QED BY <2>1, <2>2 DEF SendStep
<1>2. ASSUME NEW m \in Installs'
      PROVE  /\ m.lastIncludedIndex > 0 => m.lastIncludedTerm = committed'[m.lastIncludedIndex].term
             /\ KnownBy(m.lastIncludedIndex, m.term)'
  <2>0. m.src \in Server /\ m.lastIncludedIndex \in Nat /\ m.term \in Nat
    BY CallsAreNext, CallTypes
  <2>1. CASE m \in Installs
    <3>1. /\ m.lastIncludedIndex > 0 => m.lastIncludedTerm = committed[m.lastIncludedIndex].term
          /\ KnownBy(m.lastIncludedIndex, m.term)
      BY <2>1 DEF LogInv, CallsKnown
    <3>2. m.lastIncludedIndex <= m.lastIncludedIndex /\ m.term <= m.term
      BY <2>0
    <3>3. KnownBy(m.lastIncludedIndex, m.term)'
      BY <2>0, <3>1, <3>2, KnownKept
    <3>4. m.lastIncludedIndex <= Len(committed)
      BY <2>1 DEF IndexInv, CallOK, Installs
    <3>5. m.lastIncludedIndex > 0 => m.lastIncludedIndex \in 1 .. Len(committed)
      BY <1>0, <2>0, <3>4
    <3> QED BY <1>0, <3>1, <3>3, <3>5
  <2>2. CASE SendsSnapshot(m)
    <3>1. /\ m.lastIncludedIndex = lastIncludedIndex[m.src] /\ m.term = currentTerm[m.src]
          /\ m.lastIncludedTerm = lastIncludedTerm[m.src] /\ committed' = committed
      BY <2>2 DEF SendsSnapshot, Calls
    <3>2. /\ m.lastIncludedIndex <= lastApplied[m.src] /\ lastApplied[m.src] \in Nat
          /\ lastApplied[m.src] <= commitIndex[m.src] /\ commitIndex[m.src] \in Nat
          /\ KnownBy(commitIndex[m.src], m.term)
      BY <1>0, <2>0, <3>1 DEF LogInv, CommitKnown, IndexInv, CompactedApplied, TypeOK, ApplyTypeOK, CommitTypeOK
    <3>3. m.lastIncludedIndex <= commitIndex[m.src] /\ m.term <= m.term
      BY <2>0, <3>2
    <3>4. KnownBy(m.lastIncludedIndex, m.term)'
      BY <2>0, <3>2, <3>3, KnownKept
    <3>5. m.lastIncludedIndex > 0 => m.lastIncludedTerm = committed[m.lastIncludedIndex].term
      BY <2>0, <3>1 DEF LogInv, SnapshotTerm
    <3> QED BY <3>1, <3>4, <3>5
  <2> QED BY <2>1, <2>2 DEF SendStep
<1>3. \A m : Top(m)' = Top(m)
  BY DEF Top
<1> QED BY <1>1, <1>2, <1>3 DEF CallsKnown

\* A leader has what a peer whose term is not newer has committed.
LEMMA LeaderHasCommit ==
    ASSUME TypeOK, Matched, CommitKnown, NEW s \in Server, NEW p \in Server,
           state[s] = Leader, currentTerm[p] <= currentTerm[s]
    PROVE  /\ commitIndex[p] <= last[s]
           /\ \A k \in 1 .. commitIndex[p] : /\ full[s][k] = committed[k]
                                             /\ full[s][k].term \in Nat
                                             /\ full[s][k].term <= currentTerm[p]
<1>0. /\ last[s] \in Nat /\ currentTerm[p] \in Nat /\ currentTerm[s] \in Nat /\ Len(committed) \in Nat
      /\ commitIndex[p] \in Nat
  BY LogFacts DEF TypeOK, CommitTypeOK
<1>1. PICK c \in Nat : c = commitIndex[p]
  BY <1>0
<1>2. CASE c = 0
  BY <1>0, <1>1, <1>2
<1>3. CASE c # 0
  <2>1. KnownBy(c, currentTerm[p]) /\ c \in Nat \ {0}
    BY <1>1, <1>3 DEF CommitKnown
  <2>2. PICK j \in 1 .. Len(committed) :
           /\ c <= j /\ committed[j].term \in Nat /\ committed[j].term <= currentTerm[p]
           /\ Locked(committed, j, committed[j].term)
    BY <1>0, <2>1, KnownLocks
  <2>3. PICK T \in Nat : T = committed[j].term /\ T <= currentTerm[p]
    BY <2>2
  <2>4. T <= currentTerm[s]
    BY <1>0, <2>3
  <2>5. Agrees(s, committed, j)
    BY <2>2, <2>3, <2>4 DEF Locked
  <2>6. j <= last[s] /\ \A k \in 1 .. j : full[s][k] = committed[k]
    BY <2>5 DEF Agrees
  <2>7. j \in Nat /\ j <= Len(committed) /\ c <= j
    BY <1>0, <2>2
  <2>8. ASSUME NEW k \in 1 .. c
        PROVE  full[s][k] = committed[k] /\ full[s][k].term \in Nat /\ full[s][k].term <= currentTerm[p]
    <3>1. k \in 1 .. j /\ k \in 1 .. Len(committed) /\ k <= j /\ j \in 1 .. Len(committed)
      BY <1>0, <2>7
    <3>2. full[s][k] = committed[k]
      BY <2>6, <3>1
    <3>3. committed[k].term <= committed[j].term /\ committed[k].term \in Nat
      BY <3>1, LogFacts
    <3>4. PICK a \in Nat : a = committed[k].term /\ a <= T
      BY <2>3, <3>3
    <3>5. a <= currentTerm[p]
      <4>1. T <= currentTerm[p]
        BY <2>3
      <4>2. a <= T
        BY <3>4
      <4> QED BY <1>0, <4>1, <4>2
    <3> QED BY <3>2, <3>4, <3>5
  <2>9. c <= last[s]
    BY <1>0, <2>6, <2>7
  <2> QED BY <1>1, <2>8, <2>9
<1> QED BY <1>2, <1>3

\* The commitIndex of a peer p of leader s moves up only as p takes a call of
\* s, which it answers.
LEMMA PeerCommit ==
    ASSUME IndexInv, TypeOK', Step, ElectionSafety', CallInv, LogInv, LogStep,
           NEW s \in Server, NEW p \in Server, s # p, state'[s] = Leader,
           currentTerm'[p] = currentTerm'[s]
    PROVE  \/ commitIndex'[p] <= commitIndex[p]
           \/ /\ state[s] = Leader
              /\ \E m \in Appends \cup Installs : m.src = s /\ m.dst = p /\ m.term = currentTerm[s] /\ m \notin rpcs'
              /\ \E r \in rpcs' : r.src = p /\ AckReply(r, s, commitIndex[p])'
<1> USE DEF LogStep
<1>0. /\ TypeOK /\ Matched /\ currentTerm'[s] = currentTerm[s] /\ currentTerm[s] \in Nat
      /\ commitIndex'[p] \in Nat
  BY LogFacts DEF IndexInv, LogInv, RoleStep, TypeOK, CommitTypeOK
<1>1. ASSUME NEW m \in Appends \cup Installs, m.dst = p, m.term = currentTerm[s], m \notin rpcs',
             Answered(m),
             m.type = "AppendEntries" => commitIndex'[p] <= Top(m),
             m.type = "InstallSnapshot" => commitIndex'[p] <= m.lastIncludedIndex
      PROVE  /\ state[s] = Leader
             /\ \E q \in Appends \cup Installs : q.src = s /\ q.dst = p /\ q.term = currentTerm[s] /\ q \notin rpcs'
             /\ \E r \in rpcs' : r.src = p /\ AckReply(r, s, commitIndex[p])'
  <2>1. state[s] = Leader
    BY <1>0, <1>1, WinnerNew DEF RoleStep, LogInv
  <2>2. m.src = s
    BY <1>1, <2>1 DEF LogInv, Origin
  <2>3. m.epoch = epoch[s]
    BY <1>1, <2>1, <2>2 DEF CallInv, CallEpochs, Follower, Leader
  <2>4. m.type \in {"AppendEntries", "InstallSnapshot"}
    BY DEF Appends, Installs
  <2>5. PICK r \in rpcs' :
           /\ r.src = p /\ r.dst = s /\ r.reqTerm = m.term /\ r.term = m.term
           /\ m.type = "AppendEntries" => r.type = "AppendReply" /\ r.success /\ r.newMatch = Top(m)
           /\ m.type = "InstallSnapshot" => r.type = "SnapshotReply" /\ r.lastIncludedIndex = m.lastIncludedIndex
    BY <1>1, <2>2, <2>3 DEF Answered
  <2>6. r.reqTerm = currentTerm'[s] /\ r.term <= r.reqTerm
    BY <1>0, <1>1, <2>5
  <2>7. AckReply(r, s, commitIndex[p])'
    BY <1>1, <2>4, <2>5, <2>6 DEF AckReply
  <2> QED BY <1>1, <2>1, <2>2, <2>5, <2>7
<1>2. ASSUME NEW n \in Nat, Advances(p, n) PROVE FALSE
  <2>1. state'[p] = Leader
    BY <1>2 DEF Advances
  <2> QED BY <2>1 DEF ElectionSafety
<1>3. ASSUME NEW m \in Appends, m.dst = p, Accepts(m), Answered(m), commitIndex'[p] = m.leaderCommit
      PROVE  /\ state[s] = Leader
             /\ \E q \in Appends \cup Installs : q.src = s /\ q.dst = p /\ q.term = currentTerm[s] /\ q \notin rpcs'
             /\ \E r \in rpcs' : r.src = p /\ AckReply(r, s, commitIndex[p])'
  <2>1. m.term = currentTerm[s] /\ m \notin rpcs'
    BY <1>0, <1>3 DEF Accepts, Handled
  <2>2. commitIndex'[p] <= Top(m) /\ m.type # "InstallSnapshot"
    BY <1>3 DEF LogInv, CallsKnown, Appends
  <2> QED BY <1>1, <1>3, <2>1, <2>2
<1>4. ASSUME NEW m \in Installs, m.dst = p, Adopts(m), Answered(m), commitIndex'[p] = m.lastIncludedIndex
      PROVE  /\ state[s] = Leader
             /\ \E q \in Appends \cup Installs : q.src = s /\ q.dst = p /\ q.term = currentTerm[s] /\ q \notin rpcs'
             /\ \E r \in rpcs' : r.src = p /\ AckReply(r, s, commitIndex[p])'
  <2>1. m.term = currentTerm[s] /\ m \notin rpcs'
    BY <1>0, <1>4 DEF Adopts, Handled
  <2>2. commitIndex'[p] <= m.lastIncludedIndex /\ m.type # "AppendEntries"
    BY <1>0, <1>4 DEF Installs
  <2> QED BY <1>1, <1>4, <2>1, <2>2
<1> QED BY <1>2, <1>3, <1>4 DEF CommitIndexStep

\* NextAboveCommit, what it says of calls.
LEMMA NextCallsKept ==
    ASSUME IndexInv, TypeOK', Step, ElectionSafety, ElectionSafety', CallInv, LogInv, LogStep,
           NEW m \in Appends'
    PROVE  /\ currentTerm'[m.dst] < m.term => \A k \in DOMAIN m.entries : m.entries[k].term = m.term
           /\ currentTerm'[m.dst] = m.term => commitIndex'[m.dst] <= m.prevLogIndex
<1> USE DEF LogStep
<1> DEFINE p == m.dst
<1>0. /\ TypeOK /\ Matched /\ p \in Server /\ m.src \in Server /\ m.term \in Nat
      /\ currentTerm[p] \in Nat /\ currentTerm'[p] \in Nat /\ currentTerm'[p] >= currentTerm[p]
      /\ commitIndex[p] \in Nat /\ commitIndex'[p] \in Nat /\ m.prevLogIndex \in Nat
  BY CallsAreNext, CallTypes DEF IndexInv, LogInv, Step, NodeStep, TypeOK, TermTypeOK, CommitTypeOK
<1>1. CASE m \in Appends
  <2>1. ASSUME currentTerm'[p] < m.term PROVE \A k \in DOMAIN m.entries : m.entries[k].term = m.term
    <3>1. currentTerm[p] < m.term
      BY <1>0, <2>1
    <3> QED BY <1>1, <3>1 DEF LogInv, NextAboveCommit
  <2>2. ASSUME currentTerm'[p] = m.term PROVE commitIndex'[p] <= m.prevLogIndex
    <3>1. currentTerm[p] <= m.term
      BY <1>0, <2>2
    <3>2. commitIndex[p] <= m.prevLogIndex
      BY <1>0, <1>1, <3>1, PrevAboveCommit DEF LogInv
    <3>3. ASSUME NEW r \in Appends \cup Installs, r.dst = p, r.term = m.term, r \notin rpcs' PROVE FALSE
      <4>1. r = m
        BY <1>1, <3>3 DEF LogInv, OneCallPerTerm
      <4> QED BY <3>3, <4>1 DEF Appends
    <3>4. ASSUME NEW n \in Nat, Advances(p, n) PROVE FALSE
      <4>1. state[p] = Leader /\ currentTerm[p] = m.term
        BY <2>2, <3>4 DEF Advances
      <4>2. m.src = p
        BY <1>0, <1>1, <4>1 DEF LogInv, Origin
      <4> QED BY <1>1, <4>2 DEF CallInv, CallEpochs
    <3>5. ASSUME NEW r \in Appends, r.dst = p, Accepts(r) PROVE FALSE
      BY <2>2, <3>3, <3>5 DEF Accepts, Handled
    <3>6. ASSUME NEW r \in Installs, r.dst = p, Adopts(r) PROVE FALSE
      BY <2>2, <3>3, <3>6 DEF Adopts, Handled
    <3>7. commitIndex'[p] <= commitIndex[p]
      BY <1>0, <3>4, <3>5, <3>6 DEF CommitIndexStep
    <3> QED BY <1>0, <3>2, <3>7
  <2> QED BY <2>1, <2>2
<1>2. CASE SendsEntries(m)
  <2>1. /\ state[m.src] = Leader /\ m.term = currentTerm[m.src] /\ m.src # p
        /\ \A r \in rpcs : ~IsCall(r, m.src, p)
        /\ currentTerm' = currentTerm /\ commitIndex' = commitIndex
        /\ m.prevLogIndex = nextIndex[m.src][p] - 1
        /\ Cut(CallFrag(m), NodeFrag(m.src)) /\ Top(m) = last[m.src]
    BY <1>2 DEF SendsEntries, Calls
  <2>2. nextIndex[m.src][p] \in Nat \ {0}
    BY <1>0 DEF TypeOK, LeaderTypeOK
  <2>3. ASSUME currentTerm'[p] < m.term, NEW k \in DOMAIN m.entries PROVE m.entries[k].term = m.term
    <3>1. m.entries \in Seq(Entry) /\ Top(m) = m.prevLogIndex + Len(m.entries) /\ Len(m.entries) \in Nat
      BY CallsAreNext, CallTypes DEF Top
    <3>2. PICK i \in Nat : i = m.prevLogIndex + k
      BY <1>0, <3>1
    <3>3. i \in m.prevLogIndex + 1 .. Top(m) /\ i - m.prevLogIndex = k /\ i \in nextIndex[m.src][p] .. last[m.src]
      <4>1. PICK q \in Nat : q = m.prevLogIndex
        BY <1>0
      <4>2. PICK x \in Nat : x = Len(m.entries)
        BY <3>1
      <4>3. k \in 1 .. x
        BY <3>1, <4>2
      <4>4. i \in q + 1 .. q + x /\ i - q = k
        BY <3>2, <4>1, <4>3
      <4>5. Top(m) = q + x /\ last[m.src] = q + x
        BY <2>1, <3>1, <4>1, <4>2
      <4>6. nextIndex[m.src][p] = q + 1
        BY <2>1, <2>2, <4>1
      <4> QED BY <4>1, <4>4, <4>5, <4>6
    <3>4. full[m.src][i].term = m.term
      BY <1>0, <2>1, <2>3, <3>3 DEF LogInv, NextAboveCommit
    <3>5. CallFrag(m).at[i] = m.entries[k] /\ CallFrag(m).base = m.prevLogIndex /\ CallFrag(m).top = Top(m)
      BY <3>3, CallFragIs
    <3>6. NodeFrag(m.src).at = full[m.src]
      BY <1>0, FragsAre
    <3>7. CallFrag(m).at[i] = full[m.src][i]
      BY <2>1, <3>3, <3>5, <3>6 DEF Cut
    <3> QED BY <3>4, <3>5, <3>7
  <2>4. ASSUME currentTerm'[p] = m.term PROVE commitIndex'[p] <= m.prevLogIndex
    <3>1. \A r \in rpcs : r.src = p => ~AckReply(r, m.src, commitIndex[p])
      BY <2>1 DEF AckReply, IsCall
    <3>2. commitIndex[p] < nextIndex[m.src][p]
      BY <1>0, <2>1, <2>4, <3>1 DEF LogInv, NextAboveCommit
    <3> QED BY <1>0, <2>1, <2>2, <3>2
  <2> QED BY <2>3, <2>4
<1> QED BY <1>1, <1>2 DEF SendStep

\* NextAboveCommit, what it says of replies.
LEMMA NextRepliesKept ==
    ASSUME IndexInv, TypeOK', Step, ElectionSafety', CallInv, LogInv, LogStep,
           NEW m \in rpcs', m.type = "AppendReply", state'[m.dst] = Leader,
           m.reqTerm = currentTerm'[m.dst], m.term <= m.reqTerm
    PROVE  /\ m.success => m.newMatch + 1 >= nextIndex'[m.dst][m.src]
           /\ currentTerm'[m.src] >= m.reqTerm
           /\ ~m.success /\ currentTerm'[m.src] = m.reqTerm =>
                 commitIndex'[m.src] + 1 < nextIndex'[m.dst][m.src]
<1> USE DEF LogStep
<1>0. m \in Message /\ m.src \in Server /\ m.dst \in Server
      /\ m.reqTerm \in Nat /\ m.term \in Nat /\ m.newMatch \in Nat
  BY CallTypes DEF TypeOK
<1>1. PICK s \in Server : s = m.dst
  BY <1>0
<1>2. PICK p \in Server : p = m.src
  BY <1>0
<1>3. /\ TypeOK /\ Matched /\ currentTerm[p] \in Nat /\ currentTerm'[p] \in Nat
      /\ currentTerm'[p] >= currentTerm[p] /\ currentTerm'[s] = currentTerm[s]
      /\ currentTerm[s] \in Nat /\ nextIndex[s][p] \in Nat \ {0}
      /\ commitIndex[p] \in Nat /\ commitIndex'[p] \in Nat
  <2>1. TypeOK /\ Matched
    BY DEF IndexInv, LogInv
  <2>2. currentTerm'[s] = currentTerm[s]
    BY <1>1 DEF RoleStep
  <2>3. currentTerm'[p] >= currentTerm[p]
    BY DEF Step, NodeStep
  <2>4. /\ currentTerm[p] \in Nat /\ currentTerm'[p] \in Nat /\ currentTerm[s] \in Nat
        /\ commitIndex[p] \in Nat /\ commitIndex'[p] \in Nat
    BY <2>1 DEF TypeOK, TermTypeOK, CommitTypeOK
  <2>5. nextIndex[s][p] \in Nat \ {0}
    BY <2>1 DEF TypeOK, LeaderTypeOK
  <2> QED BY <2>1, <2>2, <2>3, <2>4, <2>5
<1>4. CASE m \in rpcs
  <2>1. state[s] = Leader
    <3>1. CallOK(m)
      BY <1>4 DEF IndexInv
    <3>2. state[s] # Candidate
      BY <1>1, <1>3, <3>1 DEF CallOK, CallOf
    <3> QED BY <1>1, <3>2 DEF RoleStep, Wins
  <2>2. IsCall(m, s, p)
    BY <1>1, <1>2 DEF IsCall
  <2>3. s # p
    BY <1>4, <2>2 DEF CallInv, OneCall
  <2>4. nextIndex'[s][p] = nextIndex[s][p]
    <3>1. ASSUME NEW r \in rpcs, Counts(r, s, p), r \notin rpcs' PROVE FALSE
      <4>1. IsCall(r, s, p)
        BY <3>1 DEF Counts, IsCall
      <4>2. r = m
        BY <1>4, <2>2, <4>1 DEF CallInv, OneCall
      <4> QED BY <3>1, <4>2
    <3> QED BY <1>1, <2>1, <3>1 DEF IndexStep
  <2>5. /\ m.success => m.newMatch + 1 >= nextIndex[s][p]
        /\ currentTerm[p] >= m.reqTerm
        /\ ~m.success /\ currentTerm[p] = m.reqTerm => commitIndex[p] + 1 < nextIndex[s][p]
    BY <1>1, <1>2, <1>3, <1>4, <2>1 DEF LogInv, NextAboveCommit
  <2>6. currentTerm'[p] >= m.reqTerm /\ (currentTerm'[p] = m.reqTerm => currentTerm[p] = m.reqTerm)
    BY <1>0, <1>3, <2>5
  <2>7. ASSUME currentTerm'[p] = m.reqTerm PROVE commitIndex'[p] <= commitIndex[p]
    <3>1. ASSUME NEW q \in Appends \cup Installs, q.src = s, q.dst = p, q.term = currentTerm[s] PROVE FALSE
      BY <1>1, <1>2, <1>4, <2>1, <3>1, OneCallAtATime DEF CallInv
    <3>2. currentTerm'[p] = currentTerm'[s] /\ state'[s] = Leader
      BY <1>1, <2>7
    <3> QED BY <2>3, <3>1, <3>2, PeerCommit
  <2>8. ~m.success /\ currentTerm'[p] = m.reqTerm => commitIndex'[p] + 1 < nextIndex[s][p]
    BY <1>3, <2>5, <2>6, <2>7
  <2> QED BY <1>1, <1>2, <2>4, <2>5, <2>6, <2>8
<1>5. CASE m \notin rpcs
  <2>1. PICK c \in Appends :
          /\ Answers(m, c) /\ m.newMatch = Top(c)
          /\ m.success => Accepts(c)
          /\ ~m.success /\ currentTerm[c.dst] <= c.term => Rejects(c)
    BY <1>5 DEF AnswerStep
  <2>2. /\ c.src = s /\ c.dst = p /\ c.term = m.reqTerm /\ c.term = currentTerm[s]
        /\ m.term = currentTerm'[p]
    BY <1>1, <1>2, <1>3, <2>1 DEF Answers
  <2>3. state[s] = Leader
    BY <1>1, <1>3, <2>2, WinnerNew DEF RoleStep, LogInv
  <2>4. /\ s # p /\ c.prevLogIndex \in Nat /\ Top(c) \in Nat /\ c.prevLogIndex <= Top(c)
        /\ c.prevLogIndex = nextIndex[s][p] - 1
        /\ c.prevLogIndex > 0 => c.prevLogTerm = full[s][c.prevLogIndex].term
        /\ Top(c) <= last[s]
        /\ \A r \in rpcs : r.type \in {"AppendReply", "SnapshotReply"} => ~(r.dst = s /\ r.src = p)
    BY <1>3, <2>2, <2>3, LeaderCall DEF LogInv, CallInv
  <2>5. nextIndex'[s][p] = nextIndex[s][p]
    <3>1. \A r \in rpcs : ~Counts(r, s, p)
      BY <2>4 DEF Counts
    <3> QED BY <1>1, <2>3, <3>1 DEF IndexStep
  <2>6. m.newMatch + 1 >= nextIndex[s][p]
    BY <1>3, <2>1, <2>4
  <2>7. currentTerm[p] <= c.term
    BY <1>0, <1>3, <2>2
  <2>8. CASE m.success
    <3>1. currentTerm'[p] = c.term
      BY <2>1, <2>2, <2>8 DEF Accepts, Handled
    <3> QED BY <1>0, <1>1, <1>2, <2>2, <2>5, <2>6, <2>8, <3>1
  <2>9. CASE ~m.success
    <3>1. Rejects(c)
      BY <2>1, <2>2, <2>7, <2>9
    <3>2. currentTerm'[p] = c.term /\ ~Consistent(c) /\ commitIndex'[p] = commitIndex[p]
      BY <2>2, <3>1 DEF Rejects, Handled
    <3>3. commitIndex[p] <= c.prevLogIndex
      BY <1>3, <2>2, <2>7, PrevAboveCommit DEF LogInv
    <3>4. commitIndex[p] # c.prevLogIndex
      <4> SUFFICES ASSUME commitIndex[p] = c.prevLogIndex PROVE FALSE
        OBVIOUS
      <4>1. c.prevLogIndex > 0 /\ (c.prevLogIndex > last[p] \/ full[p][c.prevLogIndex].term # c.prevLogTerm)
        <5>1. last[p] \in Nat
          BY <1>3, LogFacts
        <5> QED BY <2>2, <2>4, <3>2, <5>1 DEF Consistent
      <4>2. PICK q \in Nat : q = c.prevLogIndex /\ q \in 1 .. commitIndex[p]
        BY <2>4, <4>1
      <4>3. commitIndex[p] <= last[p] /\ full[p][q] = committed[q]
        BY <4>2 DEF LogInv, CommitKnown
      <4>4. full[s][q] = committed[q]
        BY <1>3, <2>2, <2>3, <2>7, <4>2, LeaderHasCommit DEF LogInv
      <4>5. q <= last[p]
        BY <4>2, <4>3
      <4>6. last[p] \in Nat
        BY <1>3, LogFacts
      <4> QED BY <2>4, <4>1, <4>2, <4>3, <4>4, <4>5, <4>6
    <3>5. commitIndex'[p] + 1 < nextIndex[s][p]
      BY <1>3, <2>4, <3>2, <3>3, <3>4
    <3> QED BY <1>0, <1>1, <1>2, <2>2, <2>5, <2>9, <3>2, <3>5
  <2> QED BY <2>8, <2>9
<1> QED BY <1>4, <1>5

\* Of a peer that has not reached its term, a leader learns by snapshots only.
LEMMA NextOnlyUp ==
    ASSUME IndexInv, TypeOK', LogInv, LogStep, NEW s \in Server, NEW p \in Server,
           state[s] = Leader, state'[s] = Leader, currentTerm[p] < currentTerm[s]
    PROVE  nextIndex[s][p] \in Nat /\ nextIndex'[s][p] \in Nat /\ nextIndex[s][p] <= nextIndex'[s][p]
<1>0. TypeOK /\ currentTerm[p] \in Nat /\ currentTerm[s] \in Nat
  BY DEF IndexInv, TypeOK, TermTypeOK
<1>1. nextIndex[s][p] \in Nat /\ nextIndex'[s][p] \in Nat
  BY <1>0 DEF TypeOK, LeaderTypeOK
<1>2. ASSUME NEW r \in rpcs, Counts(r, s, p) PROVE nextIndex[s][p] <= nextIndex'[s][p]
  <2>1. CASE r.type = "AppendReply"
    <3>1. currentTerm[p] >= r.reqTerm /\ r.reqTerm = currentTerm[s]
      BY <1>2, <2>1 DEF LogInv, NextAboveCommit, Counts
    <3> QED BY <1>0, <3>1
  <2>2. CASE r.type = "SnapshotReply"
    <3>1. r.lastIncludedIndex \in Nat
      BY <1>0, <2>2, CallTypes DEF TypeOK
    <3>2. nextIndex'[s][p] = Resume(nextIndex[s][p], r.lastIncludedIndex)
      BY <1>2, <2>2 DEF Counts
    <3> QED BY <1>1, <3>1, <3>2 DEF Resume
  <2> QED BY <1>2, <2>1, <2>2 DEF Counts
<1> QED BY <1>1, <1>2 DEF LogStep, IndexStep

\* NextAboveCommit, what it says of a peer that has not reached the term.
LEMMA NextBehindKept ==
    ASSUME IndexInv, TypeOK', Step, LogInv, Matched', LogStep, NEW s \in Server, NEW p \in Server,
           s # p, state'[s] = Leader, currentTerm'[p] < currentTerm'[s]
    PROVE  \A i \in nextIndex'[s][p] .. last'[s] : full'[s][i].term = currentTerm'[s]
<1> SUFFICES ASSUME NEW i \in nextIndex'[s][p] .. last'[s] PROVE full'[s][i].term = currentTerm'[s]
  OBVIOUS
<1> USE DEF LogStep
<1>0. /\ TypeOK /\ Matched /\ last[s] \in Nat /\ last'[s] \in Nat
      /\ currentTerm[p] \in Nat /\ currentTerm[s] \in Nat /\ currentTerm'[p] \in Nat
  BY LogFacts, LogFactsNext DEF IndexInv, LogInv
<1>1. currentTerm'[s] = currentTerm[s] /\ (state[s] = Leader \/ Wins(s))
  BY DEF RoleStep
<1>2. currentTerm[p] < currentTerm[s]
  <2>1. currentTerm'[p] >= currentTerm[p]
    BY DEF Step, NodeStep
  <2> QED BY <1>0, <1>1, <2>1
<1>3. nextIndex'[s][p] \in Nat \ {0}
  BY DEF TypeOK, LeaderTypeOK
<1>4. CASE Wins(s)
  <2>1. nextIndex'[s][p] = last[s] + 1 /\ last'[s] = last[s]
    BY <1>4 DEF Wins, Kept
  <2> QED BY <1>0, <2>1
<1>5. CASE state[s] = Leader
  <2>1. nextIndex[s][p] \in Nat /\ nextIndex[s][p] <= nextIndex'[s][p]
    BY <1>2, <1>5, NextOnlyUp
  <2>2. \A k \in nextIndex[s][p] .. last[s] : full[s][k].term = currentTerm[s]
    BY <1>2, <1>5 DEF LogInv, NextAboveCommit
  <2>3. Kept(s) \/ Proposes(s)
    BY DEF LogsStep, LogStepOf, Accepts, Adopts, Handled, Follower, Leader
  <2>4. CASE Kept(s)
    <3>1. i \in nextIndex[s][p] .. last[s]
      BY <1>0, <1>3, <2>1, <2>4 DEF Kept
    <3> QED BY <1>1, <2>2, <2>4, <3>1 DEF Kept
  <2>5. CASE Proposes(s)
    <3>1. /\ last'[s] = last[s] + 1 /\ full'[s][last'[s]].term = currentTerm[s]
          /\ \A k \in 1 .. last[s] : full'[s][k] = full[s][k]
      BY <2>5, ExtendedLog
    <3>2. CASE i = last'[s]
      BY <1>1, <3>1, <3>2
    <3>3. CASE i # last'[s]
      <4>1. i \in nextIndex[s][p] .. last[s] /\ i \in 1 .. last[s]
        BY <1>0, <1>3, <2>1, <3>1, <3>3
      <4> QED BY <1>1, <2>2, <3>1, <4>1
    <3> QED BY <3>2, <3>3
  <2> QED BY <2>3, <2>4, <2>5
<1> QED BY <1>1, <1>4, <1>5

\* NextAboveCommit, what it says of a peer in the term of the leader.
LEMMA NextLevelKept ==
    ASSUME IndexInv, TypeOK', Step, ElectionInv, ElectionSafety', CallInv, LogInv, Matched', LogStep,
           NEW s \in Server, NEW p \in Server,
           s # p, state'[s] = Leader, currentTerm'[p] = currentTerm'[s]
    PROVE  \/ commitIndex'[p] < nextIndex'[s][p]
           \/ \E m \in rpcs' : m.src = p /\ AckReply(m, s, commitIndex[p])'
<1> USE DEF LogStep
<1>0. /\ TypeOK /\ Matched /\ last[s] \in Nat /\ last'[s] \in Nat
      /\ currentTerm[p] \in Nat /\ currentTerm[s] \in Nat /\ currentTerm'[p] \in Nat
  BY LogFacts, LogFactsNext DEF IndexInv, LogInv
<1>1. currentTerm'[s] = currentTerm[s] /\ (state[s] = Leader \/ Wins(s))
  BY DEF RoleStep
<1>2. commitIndex[p] \in Nat /\ commitIndex'[p] \in Nat
  BY <1>0 DEF TypeOK, CommitTypeOK
<1>3. nextIndex'[s][p] \in Nat \ {0} /\ nextIndex[s][p] \in Nat \ {0}
  BY <1>0 DEF TypeOK, LeaderTypeOK
<1>4. currentTerm[p] <= currentTerm[s]
  <2>1. currentTerm'[p] >= currentTerm[p]
    BY DEF Step, NodeStep
  <2> QED BY <1>0, <1>1, <2>1
<1>5. SUFFICES ASSUME commitIndex'[p] <= commitIndex[p] PROVE
           \/ commitIndex'[p] < nextIndex'[s][p]
           \/ \E m \in rpcs' : m.src = p /\ AckReply(m, s, commitIndex[p])'
  BY PeerCommit
<1>6. CASE Wins(s)
  <2>1. nextIndex'[s][p] = last[s] + 1
    BY <1>6 DEF Wins
  <2>2. commitIndex[p] <= last[s]
    <3>1. PICK c \in Nat : c = commitIndex[p]
      BY <1>2
    <3> SUFFICES ASSUME c > 0 PROVE c <= last[s]
      BY <1>0, <3>1
    <3>2. KnownBy(c, currentTerm[p])
      BY <3>1 DEF LogInv, CommitKnown
    <3>3. PICK j \in 1 .. Len(committed) :
              /\ c <= j /\ Anchor(j) /\ committed[j].term \in Nat /\ committed[j].term <= currentTerm[p]
      BY <1>0, <3>2, KnownLocks
    <3>4. PICK A \in SUBSET Server :
              /\ Majority(A \cup {v \in Server : currentTerm[v] <= committed[j].term})
              /\ \A v \in A : Holds(v, committed, j, committed[j].term)
      BY <1>0, <3>3, AnchorLocks
    <3>5. IsPrefix(committed, j, committed[j].term) /\ Locked(committed, j, committed[j].term)
      BY <1>0, <3>3, AnchorLocks
    <3>6. PICK f : f = committed
      OBVIOUS
    <3>7. PICK T \in Nat : T = committed[j].term
      BY <3>3
    <3>8. T <= currentTerm'[s]
      <4>1. T <= currentTerm[p]
        BY <3>3, <3>7
      <4> QED BY <1>0, <1>1, <1>4, <4>1
    <3>9. Over(T)
      <4>1. EntryIn(j, T)
        BY <3>7, CommittedEntry
      <4> QED BY <3>3, <4>1 DEF LogInv, Closed
    <3>10. /\ IsPrefix(f, j, T) /\ Locked(f, j, T)
           /\ Majority(A \cup {v \in Server : currentTerm[v] <= T})
           /\ \A v \in A : Holds(v, f, j, T)
      BY <3>4, <3>5, <3>6, <3>7
    <3>11. Agrees(s, f, j)'
      BY <1>0, <3>8, <3>9, <3>10, LeaderKeeps DEF LogInv
    <3>12. j <= last'[s] /\ last'[s] = last[s]
      BY <1>6, <3>11 DEF Agrees, Wins, Kept
    <3> QED BY <1>0, <3>3, <3>12
  <2> QED BY <1>0, <1>2, <1>5, <2>1, <2>2
<1>7. CASE state[s] = Leader /\ currentTerm[p] < currentTerm[s]
  <2>1. nextIndex[s][p] <= nextIndex'[s][p]
    BY <1>7, NextOnlyUp
  <2>2. commitIndex[p] < nextIndex[s][p]
    <3>1. PICK c \in Nat : c = commitIndex[p]
      BY <1>2
    <3> SUFFICES ASSUME c >= nextIndex[s][p] PROVE FALSE
      BY <1>3, <3>1
    <3>2. c <= last[s] /\ \A k \in 1 .. c : full[s][k].term \in Nat /\ full[s][k].term <= currentTerm[p]
      BY <1>0, <1>4, <1>7, <3>1, LeaderHasCommit DEF LogInv
    <3>3. c \in 1 .. c /\ c \in nextIndex[s][p] .. last[s]
      BY <1>0, <1>3, <3>2
    <3>4. full[s][c].term = currentTerm[s]
      BY <1>7, <3>3 DEF LogInv, NextAboveCommit
    <3>5. full[s][c].term <= currentTerm[p]
      BY <3>2, <3>3
    <3> QED BY <1>0, <1>7, <3>4, <3>5
  <2> QED BY <1>2, <1>3, <1>5, <2>1, <2>2
<1>8. CASE state[s] = Leader /\ currentTerm[p] = currentTerm[s]
  <2>0. \A r \in rpcs : r.type = "SnapshotReply" => r.lastIncludedIndex \in Nat
    BY <1>0, CallTypes DEF TypeOK
  <2>1. \A r \in rpcs : r.type = "AppendReply" => r.newMatch \in Nat
    BY <1>0, CallTypes DEF TypeOK
  <2>2. CASE commitIndex[p] < nextIndex[s][p]
    <3>1. ASSUME NEW r \in rpcs, Counts(r, s, p) PROVE commitIndex[p] < nextIndex'[s][p]
      <4>1. CASE r.type = "AppendReply" /\ r.success
        <5>1. r.newMatch + 1 >= nextIndex[s][p]
          BY <1>8, <3>1, <4>1 DEF Counts, LogInv, NextAboveCommit
        <5>2. nextIndex'[s][p] = r.newMatch + 1
          BY <3>1, <4>1 DEF Counts
        <5> QED BY <1>2, <1>3, <2>1, <2>2, <4>1, <5>1, <5>2
      <4>2. CASE r.type = "AppendReply" /\ ~r.success
        <5>1. commitIndex[p] + 1 < nextIndex[s][p]
          BY <1>8, <3>1, <4>2 DEF Counts, LogInv, NextAboveCommit
        <5>2. nextIndex'[s][p] = BackOff(nextIndex[s][p])
          BY <3>1, <4>2 DEF Counts
        <5> QED BY <1>2, <1>3, <5>1, <5>2 DEF BackOff
      <4>3. CASE r.type = "SnapshotReply"
        <5>1. nextIndex'[s][p] = Resume(nextIndex[s][p], r.lastIncludedIndex)
          BY <3>1, <4>3 DEF Counts
        <5> QED BY <1>2, <1>3, <2>0, <2>2, <4>3, <5>1 DEF Resume
      <4> QED BY <3>1, <4>1, <4>2, <4>3 DEF Counts
    <3>2. commitIndex[p] < nextIndex'[s][p]
      BY <1>8, <2>2, <3>1 DEF IndexStep
    <3> QED BY <1>2, <1>3, <1>5, <3>2
  <2>3. ASSUME NEW r \in rpcs, r.src = p, AckReply(r, s, commitIndex[p])
        PROVE  \/ commitIndex'[p] < nextIndex'[s][p]
               \/ \E m \in rpcs' : m.src = p /\ AckReply(m, s, commitIndex[p])'
    <3>1. /\ r.dst = s /\ r.type \in {"AppendReply", "SnapshotReply"} /\ r.reqTerm = currentTerm[s]
          /\ r.type = "AppendReply" => r.success /\ commitIndex[p] <= r.newMatch
          /\ r.type = "SnapshotReply" => r.term <= r.reqTerm /\ commitIndex[p] <= r.lastIncludedIndex
      BY <2>3 DEF AckReply
    <3>2. CASE r \in rpcs'
      <4>1. /\ r.type = "AppendReply" => r.success /\ commitIndex'[p] <= r.newMatch
            /\ r.type = "SnapshotReply" => r.term <= r.reqTerm /\ commitIndex'[p] <= r.lastIncludedIndex
        BY <1>2, <1>5, <2>0, <2>1, <3>1
      <4>2. AckReply(r, s, commitIndex[p])'
        BY <1>1, <3>1, <4>1 DEF AckReply
      <4> QED BY <2>3, <3>2, <4>2
    <3>3. CASE r \notin rpcs'
      <4>1. PICK q \in rpcs : Counts(q, s, p)
        BY <1>8, <2>3, <3>1, <3>3 DEF IndexStep
      <4>2. q.dst = s /\ q.src = p /\ q.type \in {"AppendReply", "SnapshotReply"}
        BY <4>1 DEF Counts
      <4>3. q = r
        BY <2>3, <3>1, <4>2, OneReply DEF CallInv
      <4>4. \/ r.type = "AppendReply" /\ nextIndex'[s][p] = r.newMatch + 1
            \/ r.type = "SnapshotReply" /\ nextIndex'[s][p] = Resume(nextIndex[s][p], r.lastIncludedIndex)
        BY <3>1, <4>1, <4>3 DEF Counts
      <4> QED BY <1>2, <1>3, <1>5, <2>0, <2>1, <3>1, <4>4 DEF Resume
    <3> QED BY <3>2, <3>3
  <2> QED BY <1>8, <2>2, <2>3 DEF LogInv, NextAboveCommit
<1> QED BY <1>0, <1>1, <1>4, <1>6, <1>7, <1>8

\* NextAboveCommit is preserved.
LEMMA NextAboveCommitKept ==
    ASSUME IndexInv, TypeOK', Step, ElectionInv, ElectionSafety, ElectionSafety', CallInv, LogInv,
           Matched', LogStep
    PROVE  NextAboveCommit'
<1>1. \A m \in Appends' :
          /\ currentTerm'[m.dst] < m.term => \A k \in DOMAIN m.entries : m.entries[k].term = m.term
          /\ currentTerm'[m.dst] = m.term => commitIndex'[m.dst] <= m.prevLogIndex
  BY NextCallsKept
<1>2. \A s, p \in Server : state'[s] = Leader /\ s # p =>
          /\ currentTerm'[p] < currentTerm'[s] =>
                \A i \in nextIndex'[s][p] .. last'[s] : full'[s][i].term = currentTerm'[s]
          /\ currentTerm'[p] = currentTerm'[s] =>
                \/ commitIndex'[p] < nextIndex'[s][p]
                \/ \E m \in rpcs' : m.src = p /\ AckReply(m, s, commitIndex[p])'
  BY NextBehindKept, NextLevelKept
<1>3. \A m \in rpcs' : m.type = "AppendReply" /\ state'[m.dst] = Leader
                       /\ m.reqTerm = currentTerm'[m.dst] /\ m.term <= m.reqTerm =>
          /\ m.success => m.newMatch + 1 >= nextIndex'[m.dst][m.src]
          /\ currentTerm'[m.src] >= m.reqTerm
          /\ ~m.success /\ currentTerm'[m.src] = m.reqTerm =>
                commitIndex'[m.src] + 1 < nextIndex'[m.dst][m.src]
  BY NextRepliesKept
<1> QED BY <1>1, <1>2, <1>3 DEF NextAboveCommit

\* Every step that logs, calls and commitment may take preserves LogInv.
LEMMA LogInvKept ==
    ASSUME IndexInv, IndexInv', Step, ElectionInv, ElectionInv', CallInv, CallInv', LogInv, LogStep
    PROVE  LogInv'
<1> USE DEF LogStep
<1>1. TypeOK /\ TypeOK' /\ ElectionSafety /\ ElectionSafety'
  <2>1. TypeOK /\ TypeOK'
    BY DEF IndexInv
  <2>2. ElectionSafety
    BY OneLeader
  <2>3. ElectionSafety'
    BY OneLeader, PTL
  <2> QED BY <2>1, <2>2, <2>3
<1>2. Matched'
  BY <1>1, MatchedKept DEF LogInv
<1>3. TermsBounded'
  BY <1>1, TermsBoundedKept DEF LogInv
<1>4. LeaderHasOwn'
  BY <1>1, <1>2, LeaderHasOwnKept DEF LogInv, CallInv
<1>5. Closed'
  BY <1>1, <1>2, ClosedKept DEF LogInv, CallInv
<1>6. Origin' /\ OneCallPerTerm'
  BY <1>1, <1>2, OriginKept DEF LogInv, CallInv
<1>7. CallShape'
  BY <1>1, <1>2, CallShapeKept
<1>8. AckTrue'
  BY <1>1, <1>2, AckTrueKept
<1>9. LeaderSafe'
  BY <1>1, <1>2, <1>5, <1>6, <1>7, <1>8, LeaderSafeKept
<1>10. CommitKnown'
  BY <1>1, <1>2, <1>9, CommitKnownKept
<1>11. CallsKnown'
  BY <1>1, <1>2, CallsKnownKept
<1>12. NextAboveCommit'
  BY <1>1, <1>2, NextAboveCommitKept
<1> QED BY <1>2, <1>3, <1>4, <1>5, <1>6, <1>7, <1>8, <1>9, <1>10, <1>11, <1>12 DEF LogInv

(***************************************************************************)
(* The log properties of Raft.  Every action is a LogStep, what a step may *)
(* do to logs, calls and commitment, and so keeps LogInv, from which the   *)
(* properties follow.                                                      *)
(***************************************************************************)

\* The code's view of node s's log, as FullLog relates it to last and full.
FullOK(s) ==
    /\ last[s] = LastLogIndex(s) /\ last[s] \in Nat
    /\ lastIncludedIndex[s] \in Nat /\ lastIncludedIndex[s] <= last[s]
    /\ lastIncludedIndex[s] <= Len(committed)
    /\ \A i \in 1 .. last[s] : i <= lastIncludedIndex[s] => full[s][i] = committed[i]
    /\ \A i \in lastIncludedIndex[s] + 1 .. last[s] :
          /\ full[s][i] = log[s][i - lastIncludedIndex[s]]
          /\ i - lastIncludedIndex[s] \in 1 .. Len(log[s])
    /\ \A i \in 1 .. last[s] : TermKnown(s, i) => TermAt(s, i) = full[s][i].term
    /\ LastLogTerm(s) = IF last[s] = 0 THEN 0 ELSE full[s][last[s]].term
AllFull == \A s \in Server : FullOK(s)

\* FullLog, for all nodes.
LEMMA LogsFull == ASSUME IndexInv, SnapshotTerm PROVE AllFull
<1> SUFFICES ASSUME NEW s \in Server PROVE FullOK(s)
  BY DEF AllFull
<1>1. TypeOK /\ CompactedApplied /\ CommitRecorded
  BY DEF IndexInv
<1> QED BY <1>1, FullLog DEF FullOK

\* The same after a step.
LEMMA LogsFullNext == ASSUME IndexInv', SnapshotTerm' PROVE \A s \in Server : FullOK(s)'
<1>1. AllFull'
  BY LogsFull, PTL
<1> QED BY <1>1 DEF AllFull

(***************************************************************************)
(* The parts of LogStep, for steps that leave most alone.                  *)
(***************************************************************************)

\* More entries may have been committed.
MoreCommitted ==
    /\ Len(committed) \in Nat /\ Len(committed') \in Nat /\ Len(committed) <= Len(committed')
    /\ \A k \in 1 .. Len(committed) : committed'[k] = committed[k]

\* A log that a step leaves alone is kept.
LEMMA KeptLog ==
    ASSUME IndexInv, MoreCommitted, NEW s \in Server,
           log'[s] = log[s], lastIncludedIndex'[s] = lastIncludedIndex[s]
    PROVE  Kept(s)
<1>1. LastLogIndex(s)' = LastLogIndex(s)
  BY DEF LastLogIndex
<1>2. lastIncludedIndex[s] \in Nat /\ lastApplied[s] \in Nat
  BY DEF IndexInv, TypeOK, LogTypeOK, ApplyTypeOK
<1>3. lastIncludedIndex[s] <= Len(committed)
  BY <1>2 DEF IndexInv, CompactedApplied, CommitRecorded, MoreCommitted
<1>4. full[s] = [i \in 1 .. LastLogIndex(s) |->
            IF i <= lastIncludedIndex[s] THEN committed[i] ELSE log[s][i - lastIncludedIndex[s]]]
  BY DEF full
<1>5. full'[s] = [i \in 1 .. LastLogIndex(s) |->
            IF i <= lastIncludedIndex[s] THEN committed'[i] ELSE log[s][i - lastIncludedIndex[s]]]
  BY <1>1 DEF full
<1>6. \A i \in 1 .. LastLogIndex(s) : i <= lastIncludedIndex[s] => committed'[i] = committed[i]
  BY <1>2, <1>3 DEF MoreCommitted
<1>7. full'[s] = full[s]
  BY <1>4, <1>5, <1>6
<1> QED BY <1>1, <1>7 DEF Kept, last

\* No log changes.
LEMMA QuietLogs ==
    ASSUME IndexInv, LogInv, UNCHANGED <<log, lastIncludedIndex, lastIncludedTerm, committed>>
    PROVE  LogsStep /\ CommittedStep /\ SnapshotTerm' /\ \A t \in Server : Kept(t)
<1>1. MoreCommitted
  BY DEF IndexInv, TypeOK, CommitTypeOK, MoreCommitted
<1>2. \A t \in Server : Kept(t)
  BY <1>1, KeptLog
<1>3. SnapshotTerm'
  BY DEF LogInv, SnapshotTerm
<1> QED BY <1>2, <1>3 DEF LogsStep, LogStepOf, CommittedStep

\* Nobody commits or applies.
LEMMA QuietCommit ==
    ASSUME IndexInv, IndexInv', LogInv, UNCHANGED <<commitIndex, lastApplied>>
    PROVE  CommitIndexStep /\ IndexOrder'
<1>1. CommitIndexStep
  BY DEF CommitIndexStep, IndexInv, TypeOK, CommitTypeOK
<1>2. \A s \in Server : lastApplied[s] <= commitIndex[s]
  BY DEF LogInv, CommitKnown
<1> QED BY <1>1, <1>2 DEF IndexOrder, IndexInv, CompactedApplied

\* Nobody is elected.
LEMMA QuietRoles ==
    ASSUME Step, \A t \in Server : state'[t] = Leader => state[t] = Leader
    PROVE  RoleStep
BY DEF Step, NodeStep, RoleStep

\* The types of message that replication uses.
CallType  == {"AppendEntries", "InstallSnapshot"}
ReplyType == {"AppendReply", "SnapshotReply"}

\* No calls are made.
LEMMA QuietCalls ==
    ASSUME \A m \in rpcs' : m.type \in CallType => m \in rpcs
    PROVE  SendStep
BY DEF SendStep, Appends, Installs, CallType

\* No calls are answered.
LEMMA QuietAnswers ==
    ASSUME \A m \in rpcs' : m.type \in ReplyType => m \in rpcs
    PROVE  AnswerStep
BY DEF AnswerStep, ReplyType

\* No answers are counted.
LEMMA QuietIndex ==
    ASSUME UNCHANGED <<nextIndex, matchIndex>>,
           \A r \in rpcs : r.type \in ReplyType /\ state'[r.dst] = Leader /\ state[r.dst] = Leader
                           /\ r.reqTerm = currentTerm[r.dst] => r \in rpcs'
    PROVE  IndexStep
BY DEF IndexStep, ReplyType

\* No votes are granted or counted.
LEMMA QuietClaims ==
    ASSUME UNCHANGED votes, \A m \in rpcs' : m.type = "VoteReply" => m \in rpcs
    PROVE  ClaimStep
<1> SUFFICES ASSUME NEW d \in Server, NEW v \in Server, NEW t \in Nat, Claims(d, v, t)'
             PROVE  Claims(d, v, t)
  BY DEF ClaimStep
<1> QED BY DEF Claims

\* A step that leaves logs, commitment and what leaders know alone.
LEMMA QuietLogStep ==
    ASSUME IndexInv, IndexInv', Step, LogInv,
           UNCHANGED <<log, lastIncludedIndex, lastIncludedTerm, committed, commitIndex, lastApplied>>,
           UNCHANGED <<nextIndex, matchIndex>>,
           \A t \in Server : state'[t] = Leader => state[t] = Leader,
           ClaimStep,
           \A m \in rpcs' : m.type \in CallType \cup ReplyType => m \in rpcs,
           \A r \in rpcs : r.type \in ReplyType /\ state'[r.dst] = Leader /\ state[r.dst] = Leader
                           /\ r.reqTerm = currentTerm[r.dst] => r \in rpcs'
    PROVE  LogStep
<1>1. LogsStep /\ CommittedStep /\ SnapshotTerm'
  BY QuietLogs
<1>2. CommitIndexStep /\ IndexOrder'
  BY QuietCommit
<1>3. RoleStep
  BY QuietRoles
<1>4. SendStep
  BY QuietCalls
<1>5. AnswerStep
  BY QuietAnswers
<1>6. IndexStep
  BY QuietIndex
<1> QED BY <1>1, <1>2, <1>3, <1>4, <1>5, <1>6 DEF LogStep

(***************************************************************************)
(* Elections.                                                              *)
(***************************************************************************)

\* ElectionTimeout.
LEMMA ElectionTimeoutLogs ==
    ASSUME IndexInv, IndexInv', Step, LogInv, NEW s \in Server, ElectionTimeout(s)
    PROVE  LogStep
<1>1. /\ UNCHANGED <<log, lastIncludedIndex, lastIncludedTerm, committed, commitIndex, lastApplied>>
      /\ UNCHANGED <<nextIndex, matchIndex>> /\ UNCHANGED votes /\ UNCHANGED rpcs
      /\ state' = [state EXCEPT ![s] = Candidate]
  BY DEF ElectionTimeout, logVars, applyVars, leaderVars, commitVars
<1>2. \A t \in Server : state'[t] = Leader => state[t] = Leader
  BY <1>1 DEF IndexInv, TypeOK, TermTypeOK, Leader, Candidate
<1>3. ClaimStep
  BY <1>1, QuietClaims
<1> QED BY <1>1, <1>2, <1>3, QuietLogStep

\* startElection counts the node's own vote, which nobody else claims.
LEMMA startElectionLogs ==
    ASSUME IndexInv, IndexInv', Step, LogInv, NEW s \in Server, NEW b \in spawned[s], startElection(s, b)
    PROVE  LogStep
<1>1. /\ UNCHANGED <<log, lastIncludedIndex, lastIncludedTerm, committed, commitIndex, lastApplied>>
      /\ UNCHANGED <<nextIndex, matchIndex>> /\ UNCHANGED state
      /\ votes' = [votes EXCEPT ![s][b] = [term |-> currentTerm[s], voters |-> {s}]]
  BY DEF startElection, logVars, applyVars, leaderVars, commitVars, termVars
<1>2. \A m \in rpcs' : m \in rpcs \/ m.type = "RequestVote"
  BY DEF startElection
<1>3. rpcs \subseteq rpcs'
  BY DEF startElection
<1>4. ClaimStep
  <2> SUFFICES ASSUME NEW d \in Server, NEW v \in Server, NEW t \in Nat, Claims(d, v, t)'
               PROVE  Claims(d, v, t)
    BY DEF ClaimStep
  <2>1. votes \in [Server -> [1 .. MaxTerm -> [term : Nat, voters : SUBSET Server]]] /\ b \in 1 .. MaxTerm
    BY DEF IndexInv, TypeOK, ElectionTypeOK
  <2>2. \A e \in 1 .. MaxTerm : v # d /\ v \in votes'[d][e].voters => votes'[d][e] = votes[d][e]
    <3> SUFFICES ASSUME NEW e \in 1 .. MaxTerm, v # d, v \in votes'[d][e].voters
                 PROVE  votes'[d][e] = votes[d][e]
      OBVIOUS
    <3>1. CASE d = s /\ e = b
      <4>1. votes'[d][e] = [term |-> currentTerm[s], voters |-> {s}]
        BY <1>1, <2>1, <3>1
      <4> QED BY <3>1, <4>1
    <3>2. CASE ~(d = s /\ e = b)
      BY <1>1, <2>1, <3>2
    <3> QED BY <3>1, <3>2
  <2> QED BY <1>2, <2>2 DEF Claims
<1> QED BY <1>1, <1>2, <1>3, <1>4, QuietLogStep DEF CallType, ReplyType

\* RequestVote: the only step that grants a vote.
LEMMA RequestVoteLogs ==
    ASSUME IndexInv, IndexInv', Step, LogInv, NEW m \in rpcs, RequestVote(m)
    PROVE  LogStep
<1> DEFINE s == m.dst
           newer == m.term > currentTerm[s]
           voted == IF newer THEN Nil ELSE votedFor[s]
           grant == VoteGranted(s, m, voted)
           r == [type |-> "VoteReply", src |-> s, dst |-> m.src, born |-> m.born,
                 reqTerm |-> m.term, term |-> currentTerm'[s], granted |-> grant]
<1>1. /\ UNCHANGED <<log, lastIncludedIndex, lastIncludedTerm, committed, commitIndex, lastApplied>>
      /\ UNCHANGED <<nextIndex, matchIndex>> /\ UNCHANGED votes
      /\ state' = [state EXCEPT ![s] = IF newer THEN Follower ELSE @]
      /\ currentTerm' = [currentTerm EXCEPT ![s] = IF newer THEN m.term ELSE @]
      /\ m.type = "RequestVote"
  BY DEF RequestVote, logVars, applyVars, leaderVars, commitVars, electionVars
<1>2. rpcs' = (rpcs \ {m}) \cup (IF m.epoch = epoch[m.src] THEN {r} ELSE {})
  BY DEF RequestVote, Reply
<1>3. /\ m.src \in Server /\ s \in Server /\ m.term \in Nat /\ currentTerm[s] \in Nat
      /\ currentTerm \in [Server -> Nat] /\ state \in [Server -> {Follower, Candidate, Leader}]
  BY <1>1, MessageFields DEF IndexInv, TypeOK, TermTypeOK
<1>4. \A t \in Server : state'[t] = Leader => state[t] = Leader
  BY <1>1, <1>3 DEF Leader, Follower
<1>5. r.type = "VoteReply" /\ r.src = s /\ r.dst = m.src /\ r.reqTerm = m.term /\ r.granted = grant
  OBVIOUS
<1>6. \A q \in rpcs' : q \in rpcs \/ q = r
  BY <1>2
<1>7. \A q \in rpcs : q = m \/ q \in rpcs'
  BY <1>2
<1> HIDE DEF r
<1>8. ClaimStep
  <2> SUFFICES ASSUME NEW d \in Server, NEW v \in Server, NEW t \in Nat, Claims(d, v, t)', ~Claims(d, v, t)
               PROVE  GrantStep(v, d, t)
    BY DEF ClaimStep
  <2>1. r.granted /\ r.src = v /\ r.dst = d /\ r.reqTerm = t
    BY <1>1, <1>6 DEF Claims
  <2>2. v = s /\ d = m.src /\ t = m.term
    BY <1>5, <2>1
  <2>3. grant
    BY <1>5, <2>1
  <2>4. /\ m.term >= currentTerm[s] /\ voted \in {Nil, m.src}
        /\ candidateLogIsUpToDate(s, m.lastLogIndex, m.lastLogTerm)
    BY <2>3 DEF VoteGranted
  <2>5. currentTerm[v] <= t /\ currentTerm'[v] = t
    BY <1>1, <1>3, <2>2, <2>4
  <2>6. currentTerm[v] = t => votedFor[v] \in {Nil, d}
    BY <1>3, <2>2, <2>4
  <2> QED BY <1>1, <2>2, <2>4, <2>5, <2>6 DEF GrantStep
<1> QED BY <1>1, <1>4, <1>5, <1>6, <1>7, <1>8, QuietLogStep DEF CallType, ReplyType

\* VoteReply counts a vote that was on its way, and may win the election.
LEMMA VoteReplyLogs ==
    ASSUME IndexInv, IndexInv', Step, ElectionInv, LogInv, NEW m \in rpcs, VoteReply(m)
    PROVE  LogStep
<1> DEFINE s == m.dst
           count == votes[s][m.born].voters \cup (IF m.granted THEN {m.src} ELSE {})
<1>1. /\ UNCHANGED <<log, lastIncludedIndex, lastIncludedTerm, committed, commitIndex, lastApplied>>
      /\ UNCHANGED currentTerm
      /\ votes' = [votes EXCEPT ![s][m.born].voters = count]
      /\ m.type = "VoteReply" /\ state[s] = Candidate /\ currentTerm[s] = m.reqTerm
      /\ rpcs' = rpcs \ {m}
  BY DEF VoteReply, logVars, applyVars, commitVars, StillIn, Finish
<1>2. IF m.granted /\ Majority(count) THEN becomeLeader(s) ELSE UNCHANGED <<state, leaderVars>>
  BY DEF VoteReply, WinsElection
<1>3. TypeOK /\ m.src \in Server /\ s \in Server /\ m.born \in 1 .. MaxTerm /\ m.reqTerm \in Nat
  BY <1>1, MessageFields DEF IndexInv, TypeOK, ReplyTypes
<1>4. votes \in [Server -> [1 .. MaxTerm -> [term : Nat, voters : SUBSET Server]]]
  BY <1>3 DEF TypeOK, ElectionTypeOK
<1>5. votes[s][m.born].term = m.reqTerm
  BY <1>1 DEF ElectionInv, RepliesKnown, GoroutineOf
<1>6. count \in SUBSET Server
  BY <1>3, NodeTypes
<1>7. \A v \in count : v = s \/ Claims(s, v, m.reqTerm)
  <2> SUFFICES ASSUME NEW v \in count, v # s PROVE Claims(s, v, m.reqTerm)
    OBVIOUS
  <2>1. CASE v \in votes[s][m.born].voters
    BY <1>3, <1>5, <2>1 DEF Claims
  <2>2. CASE m.granted /\ v = m.src
    BY <1>1, <2>2 DEF Claims
  <2> QED BY <2>1, <2>2
<1> HIDE DEF count
<1>8. LogsStep /\ CommittedStep /\ SnapshotTerm' /\ \A t \in Server : Kept(t)
  BY <1>1, QuietLogs
<1>9. CommitIndexStep /\ IndexOrder'
  BY <1>1, QuietCommit
<1>10. SendStep /\ AnswerStep
  BY <1>1, QuietCalls, QuietAnswers
<1>11. \A d \in Server, e \in 1 .. MaxTerm :
          /\ votes'[d][e].term = votes[d][e].term
          /\ votes'[d][e].voters = IF d = s /\ e = m.born THEN count ELSE votes[d][e].voters
  <2> SUFFICES ASSUME NEW d \in Server, NEW e \in 1 .. MaxTerm
               PROVE  /\ votes'[d][e].term = votes[d][e].term
                      /\ votes'[d][e].voters = IF d = s /\ e = m.born THEN count ELSE votes[d][e].voters
    OBVIOUS
  <2>1. votes[d][e] \in [term : Nat, voters : SUBSET Server]
    BY <1>4, ZenonT(60)
  <2>2. votes'[d][e] = IF d = s /\ e = m.born THEN [votes[d][e] EXCEPT !.voters = count] ELSE votes[d][e]
    BY <1>1, <1>3, <1>4
  <2> QED BY <2>1, <2>2
<1>12. ClaimStep
  <2> SUFFICES ASSUME NEW d \in Server, NEW v \in Server, NEW t \in Nat, Claims(d, v, t)'
               PROVE  Claims(d, v, t)
    BY DEF ClaimStep
  <2>1. ASSUME NEW e \in 1 .. MaxTerm, votes'[d][e].term = t, v \in votes'[d][e].voters, v # d
        PROVE  Claims(d, v, t)
    <3>1. CASE d = s /\ e = m.born
      BY <1>5, <1>7, <1>11, <2>1, <3>1
    <3>2. CASE ~(d = s /\ e = m.born)
      BY <1>11, <2>1, <3>2 DEF Claims
    <3> QED BY <3>1, <3>2
  <2>2. v # d
    BY DEF Claims
  <2> QED BY <1>1, <2>1, <2>2 DEF Claims
<1>13. CASE UNCHANGED <<state, leaderVars>>
  <2>1. RoleStep
    BY <1>13, QuietRoles
  <2>2. IndexStep
    BY <1>1, <1>13, QuietIndex DEF leaderVars, ReplyType
  <2> QED BY <1>8, <1>9, <1>10, <1>12, <2>1, <2>2 DEF LogStep
<1>14. CASE Majority(count) /\ becomeLeader(s)
  <2>1. /\ state' = [state EXCEPT ![s] = Leader]
        /\ nextIndex' = [nextIndex EXCEPT ![s] = [p \in Server |-> LastLogIndex(s) + 1]]
        /\ matchIndex' = [matchIndex EXCEPT ![s] = [p \in Server |-> 0]]
    BY <1>14 DEF becomeLeader
  <2>2. /\ state \in [Server -> {Follower, Candidate, Leader}]
        /\ nextIndex \in [Server -> [Server -> Nat \ {0}]] /\ matchIndex \in [Server -> [Server -> Nat]]
    BY <1>3 DEF TypeOK, TermTypeOK, LeaderTypeOK
  <2>3. \A p \in Server : matchIndex'[s][p] = 0 /\ nextIndex'[s][p] = last[s] + 1
    BY <1>3, <2>1, <2>2 DEF last
  <2>4. Wins(s)
    BY <1>1, <1>3, <1>6, <1>7, <1>8, <1>14, <2>3 DEF Wins
  <2>5. RoleStep
    BY <1>1, <2>1, <2>2, <2>4 DEF RoleStep
  <2>6. IndexStep
    <3> SUFFICES ASSUME NEW t \in Server, NEW p \in Server, state[t] = Leader
                 PROVE  /\ nextIndex'[t][p] = nextIndex[t][p] /\ matchIndex'[t][p] = matchIndex[t][p]
                        /\ \A r \in rpcs : r.type \in {"AppendReply", "SnapshotReply"} => r \in rpcs'
      BY DEF IndexStep
    <3>1. t # s
      BY <1>1 DEF Leader, Candidate
    <3> QED BY <1>1, <2>1, <2>2, <3>1
  <2> QED BY <1>8, <1>9, <1>10, <1>12, <2>5, <2>6 DEF LogStep
<1> QED BY <1>2, <1>13, <1>14

\* The caller's goroutine ends: m is gone from the network.
LEMMA FinishRpcs ==
    ASSUME NEW m, Finish(m)
    PROVE  rpcs' = rpcs \ {m}
BY DEF Finish

\* Steps that end a call without counting it, and steps of a round that make
\* no call.
LEMMA EndedCallLogs ==
    ASSUME IndexInv, IndexInv', Step, LogInv, NEW m \in rpcs, StepDown(m) \/ IgnoreReply(m) \/ FailRPC(m)
    PROVE  LogStep
<1>1. /\ UNCHANGED <<log, lastIncludedIndex, lastIncludedTerm, committed, commitIndex, lastApplied>>
      /\ UNCHANGED <<nextIndex, matchIndex>> /\ UNCHANGED votes /\ rpcs' = rpcs \ {m}
  BY FinishRpcs DEF StepDown, IgnoreReply, FailRPC, logVars, applyVars, leaderVars, commitVars, electionVars
<1>2. m.dst \in Server /\ state \in [Server -> {Follower, Candidate, Leader}]
  BY MessageFields DEF IndexInv, TypeOK, TermTypeOK
<1>3. ClaimStep
  BY <1>1, QuietClaims
<1>4. CASE StepDown(m)
  <2>1. state' = [state EXCEPT ![m.dst] = Follower]
    BY <1>4 DEF StepDown, becomeFollower
  <2>2. \A t \in Server : state'[t] = Leader => state[t] = Leader /\ t # m.dst
    BY <1>2, <2>1 DEF Leader, Follower
  <2>3. \A r \in rpcs : r.type \in ReplyType /\ state'[r.dst] = Leader => r \in rpcs'
    BY <1>1, <1>2, <2>2
  <2> QED BY <1>1, <1>3, <2>2, <2>3, QuietLogStep
<1>5. CASE IgnoreReply(m)
  <2>1. UNCHANGED state /\ (m.type \in ReplyType => ~(state[m.dst] = Leader /\ currentTerm[m.dst] = m.reqTerm))
    BY <1>5 DEF IgnoreReply, termVars, StillIn, ReplyType
  <2>2. \A r \in rpcs : r.type \in ReplyType /\ state[r.dst] = Leader
                        /\ r.reqTerm = currentTerm[r.dst] => r \in rpcs'
    BY <1>1, <2>1
  <2> QED BY <1>1, <1>3, <2>1, <2>2, QuietLogStep
<1>6. CASE FailRPC(m)
  <2>1. UNCHANGED state /\ m.type \notin ReplyType
    BY <1>6 DEF FailRPC, termVars, ReplyType
  <2> QED BY <1>1, <1>3, <2>1, QuietLogStep
<1> QED BY <1>4, <1>5, <1>6

\* A round begins, or a goroutine of it gives up or turns to the snapshot.
LEMMA RoundLogs ==
    ASSUME IndexInv, IndexInv', Step, LogInv, NEW s \in Server, UNCHANGED rpcs,
           \/ Heartbeat(s) \/ adoptSnapshot(s) \/ deliverPendingSnapshot(s)
           \/ \E p \in Peers(s) : replicateToPeer(s, p) \/ sendInstallSnapshot(s, p)
    PROVE  LogStep
<1>1. /\ UNCHANGED <<log, lastIncludedIndex, lastIncludedTerm, committed, commitIndex, lastApplied>>
      /\ UNCHANGED <<nextIndex, matchIndex>> /\ UNCHANGED votes /\ UNCHANGED state
  BY DEF Heartbeat, adoptSnapshot, deliverPendingSnapshot, replicateToPeer, sendInstallSnapshot,
         logVars, applyVars, leaderVars, commitVars, electionVars, termVars
<1>2. ClaimStep
  BY <1>1, QuietClaims
<1> QED BY <1>1, <1>2, QuietLogStep

\* Nothing happens.
LEMMA StutterLogs ==
    ASSUME IndexInv, IndexInv', Step, LogInv, UNCHANGED vars
    PROVE  LogStep
<1>1. /\ UNCHANGED <<log, lastIncludedIndex, lastIncludedTerm, committed, commitIndex, lastApplied>>
      /\ UNCHANGED <<nextIndex, matchIndex>> /\ UNCHANGED votes /\ UNCHANGED state /\ UNCHANGED rpcs
  BY DEF vars, logVars, applyVars, leaderVars, commitVars, electionVars, termVars
<1>2. ClaimStep
  BY <1>1, QuietClaims
<1> QED BY <1>1, <1>2, QuietLogStep

\* applyPending applies committed entries only.
LEMMA applyPendingLogs ==
    ASSUME IndexInv, IndexInv', Step, LogInv, NEW s \in Server, applyPending(s)
    PROVE  LogStep
<1>1. /\ UNCHANGED <<log, lastIncludedIndex, lastIncludedTerm, committed>> /\ UNCHANGED commitIndex
      /\ UNCHANGED <<nextIndex, matchIndex>> /\ UNCHANGED votes /\ UNCHANGED state /\ UNCHANGED rpcs
  BY DEF applyPending, logVars, applyVars, leaderVars, commitVars, electionVars, termVars
<1>2. \/ commitIndex[s] > lastApplied[s] /\ lastApplied' = [lastApplied EXCEPT ![s] = lastApplied[s] + 1]
      \/ lastApplied' = lastApplied
  BY DEF applyPending
<1>3. commitIndex \in [Server -> Nat] /\ lastApplied \in [Server -> Nat]
  BY DEF IndexInv, TypeOK, CommitTypeOK, ApplyTypeOK
<1>4. \A t \in Server : lastApplied[t] <= commitIndex[t]
  BY DEF LogInv, CommitKnown
<1>5. \A t \in Server : lastApplied'[t] <= commitIndex'[t]
  BY <1>1, <1>2, <1>3, <1>4
<1>6. IndexOrder'
  BY <1>5 DEF IndexOrder, IndexInv, CompactedApplied
<1>7. LogsStep /\ CommittedStep /\ SnapshotTerm'
  BY <1>1, QuietLogs
<1>8. CommitIndexStep
  BY <1>1, <1>3 DEF CommitIndexStep
<1>9. RoleStep
  BY <1>1, QuietRoles
<1>10. SendStep /\ AnswerStep /\ ClaimStep
  BY <1>1, QuietCalls, QuietAnswers, QuietClaims
<1>11. IndexStep
  BY <1>1, QuietIndex
<1> QED BY <1>6, <1>7, <1>8, <1>9, <1>10, <1>11 DEF LogStep

(***************************************************************************)
(* Logs that are compacted, and calls.                                     *)
(***************************************************************************)

\* The elements of a suffix.
LEMMA SuffixAt ==
    ASSUME NEW q \in Seq(Entry), NEW k \in 1 .. Len(q) + 1
    PROVE  /\ SubSeq(q, k, Len(q)) \in Seq(Entry)
           /\ Len(SubSeq(q, k, Len(q))) = Len(q) - k + 1
           /\ \A i \in 1 .. Len(q) - k + 1 : SubSeq(q, k, Len(q))[i] = q[k + i - 1]
<1>1. /\ SubSeq(q, k, Len(q)) \in Seq(Entry)
      /\ Len(SubSeq(q, k, Len(q))) = Len(q) - k + 1
  BY SuffixType
<1>2. Len(q) \in Int /\ k \in Int
  OBVIOUS
<1>3. SubSeq(q, k, Len(q)) = [i \in 1 .. (1 + Len(q) - k) |-> q[i + k - 1]]
  BY <1>2 DEF SubSeq
<1>4. ASSUME NEW i \in 1 .. Len(q) - k + 1
      PROVE  SubSeq(q, k, Len(q))[i] = q[k + i - 1]
  <2>1. i \in 1 .. (1 + Len(q) - k) /\ i + k - 1 = k + i - 1
    BY <1>2, <1>4
  <2> QED BY <1>3, <2>1
<1> QED BY <1>1, <1>4

\* The log of s is compacted through i, all of it committed.
CompactsTo(s, i) ==
    /\ lastIncludedIndex[s] <= i /\ i <= last[s] /\ i <= Len(committed) /\ UNCHANGED committed
    /\ \A k \in 1 .. i : full[s][k] = committed[k]
    /\ log'[s] = SubSeq(log[s], physicalIndex(s, i) + 1, Len(log[s]))
    /\ lastIncludedIndex'[s] = i

\* A log that is compacted is kept.
LEMMA CompactedLog ==
    ASSUME IndexInv, LogInv, NEW s \in Server, NEW i \in Nat, CompactsTo(s, i)
    PROVE  Kept(s)
<1>1. FullOK(s)
  BY LogsFull DEF LogInv, AllFull
<1>2. log[s] \in Seq(Entry) /\ Len(log[s]) \in Nat /\ Len(committed) \in Nat
  BY DEF IndexInv, TypeOK, LogTypeOK, CommitTypeOK
<1>3. PICK b \in Nat : b = lastIncludedIndex[s]
  BY <1>1 DEF FullOK
<1>4. PICK n \in Nat : n = last[s]
  BY <1>1 DEF FullOK
<1>5. PICK l \in Nat : l = Len(log[s])
  BY <1>2
<1>6. n = b + l /\ b <= i /\ i <= n
  BY <1>1, <1>3, <1>4, <1>5 DEF FullOK, LastLogIndex, CompactsTo
<1>7. PICK x \in Nat : x = i - b
  BY <1>6
<1>8. x + 1 \in 1 .. l + 1 /\ x <= l /\ i = x + b
  BY <1>6, <1>7
<1>9. physicalIndex(s, i) = x
  BY <1>3, <1>7 DEF physicalIndex
<1>10. Len(log'[s]) = l - x /\ \A k \in 1 .. l - x : log'[s][k] = log[s][x + k]
  <2>1. /\ Len(SubSeq(log[s], x + 1, l)) = l - (x + 1) + 1
        /\ \A k \in 1 .. l - (x + 1) + 1 : SubSeq(log[s], x + 1, l)[k] = log[s][(x + 1) + k - 1]
    BY <1>2, <1>5, <1>8, SuffixAt
  <2>2. log'[s] = SubSeq(log[s], x + 1, l)
    BY <1>5, <1>9 DEF CompactsTo
  <2>3. l - (x + 1) + 1 = l - x
    OBVIOUS
  <2>4. \A k \in 1 .. l - x : (x + 1) + k - 1 = x + k
    OBVIOUS
  <2> QED BY <2>1, <2>2, <2>3, <2>4
<1>11. LastLogIndex(s)' = n
  <2>1. i + (l - x) = n
    BY <1>6, <1>8
  <2>2. LastLogIndex(s)' = i + Len(log'[s])
    BY DEF LastLogIndex, CompactsTo
  <2> QED BY <1>10, <2>1, <2>2
<1>12. full'[s] = [k \in 1 .. n |-> IF k <= i THEN committed[k] ELSE log'[s][k - i]]
  BY <1>11 DEF full, CompactsTo
<1>13. full[s] = [k \in 1 .. n |-> IF k <= b THEN committed[k] ELSE log[s][k - b]]
  BY <1>1, <1>3, <1>4 DEF full, FullOK
<1>14. ASSUME NEW k \in 1 .. n PROVE full'[s][k] = full[s][k]
  <2>1. CASE k <= i
    <3>1. full'[s][k] = committed[k]
      BY <1>12, <2>1
    <3>2. full[s][k] = committed[k]
      BY <2>1 DEF CompactsTo
    <3> QED BY <3>1, <3>2
  <2>2. CASE k > i
    <3>1. full'[s][k] = log'[s][k - i]
      BY <1>12, <2>2
    <3>2. k - i \in 1 .. l - x /\ x + (k - i) = k - b /\ k > b
      BY <1>6, <1>8, <2>2
    <3>3. full[s][k] = log[s][k - b]
      BY <1>13, <3>2
    <3> QED BY <1>10, <3>1, <3>2, <3>3
  <2> QED BY <2>1, <2>2
<1>15. full'[s] = full[s]
  BY <1>12, <1>13, <1>14
<1>16. last'[s] = last[s]
  BY <1>4, <1>11 DEF last
<1> QED BY <1>15, <1>16 DEF Kept

\* applyEntry compacts what is applied.
LEMMA applyEntryLogs ==
    ASSUME IndexInv, IndexInv', Step, LogInv, NEW s \in Server, applyEntry(s)
    PROVE  LogStep
<1> DEFINE i == Head(applyCh[s]).index
<1>1. /\ UNCHANGED committed /\ UNCHANGED <<commitIndex, lastApplied>>
      /\ UNCHANGED <<nextIndex, matchIndex>> /\ UNCHANGED votes /\ UNCHANGED state /\ UNCHANGED rpcs
  BY DEF applyEntry, applyVars, leaderVars, commitVars, electionVars, termVars
<1>2. CASE UNCHANGED logVars
  <2>1. UNCHANGED <<log, lastIncludedIndex, lastIncludedTerm, committed, commitIndex, lastApplied>>
    BY <1>1, <1>2 DEF logVars
  <2>2. ClaimStep
    BY <1>1, QuietClaims
  <2> QED BY <1>1, <2>1, <2>2, QuietLogStep
<1>3. CASE Compacts(s, i)
  <2>1. /\ log' = [log EXCEPT ![s] = SubSeq(log[s], physicalIndex(s, i) + 1, Len(log[s]))]
        /\ lastIncludedIndex' = [lastIncludedIndex EXCEPT ![s] = i]
        /\ lastIncludedTerm' = [lastIncludedTerm EXCEPT ![s] = TermAt(s, i)]
    BY <1>3 DEF applyEntry
  <2>2. i > lastIncludedIndex[s] /\ i <= LastLogIndex(s) /\ i <= lastApplied[s]
    BY <1>3 DEF Compacts
  <2>3. /\ lastIncludedIndex \in [Server -> Nat] /\ lastIncludedTerm \in [Server -> Nat]
        /\ log \in [Server -> Seq(Entry)]
    BY DEF IndexInv, TypeOK, LogTypeOK
  <2>4. /\ lastIncludedIndex'[s] = i /\ lastIncludedTerm'[s] = TermAt(s, i)
        /\ log'[s] = SubSeq(log[s], physicalIndex(s, i) + 1, Len(log[s]))
    BY <2>1, <2>3
  <2>5. i \in Nat
    <3>1. lastIncludedIndex'[s] \in Nat
      BY DEF IndexInv, TypeOK, LogTypeOK
    <3> QED BY <2>4, <3>1
  <2>6. FullOK(s)
    BY LogsFull DEF LogInv, AllFull
  <2>7. /\ lastApplied[s] \in Nat /\ commitIndex[s] \in Nat /\ Len(committed) \in Nat
        /\ lastApplied[s] <= Len(committed)
    BY DEF IndexInv, TypeOK, ApplyTypeOK, CommitTypeOK, CommitRecorded
  <2>8. /\ lastApplied[s] <= commitIndex[s]
        /\ \A k \in 1 .. commitIndex[s] : full[s][k] = committed[k]
    BY DEF LogInv, CommitKnown
  <2> HIDE DEF i
  <2>9. /\ lastIncludedIndex[s] <= i /\ i <= last[s] /\ i <= Len(committed) /\ i \in 1 .. last[s]
        /\ i <= commitIndex[s]
    BY <2>2, <2>3, <2>5, <2>6, <2>7, <2>8 DEF FullOK
  <2>10. \A k \in 1 .. i : full[s][k] = committed[k]
    BY <2>5, <2>7, <2>8, <2>9
  <2>11. Kept(s)
    BY <1>1, <2>4, <2>5, <2>9, <2>10, CompactedLog DEF CompactsTo
  <2>12. \A t \in Server : Kept(t)
    <3>1. MoreCommitted
      BY <1>1, <2>7 DEF MoreCommitted
    <3>2. \A t \in Server : t # s => log'[t] = log[t] /\ lastIncludedIndex'[t] = lastIncludedIndex[t]
      BY <2>1, <2>3
    <3> QED BY <2>11, <3>1, <3>2, KeptLog
  <2>13. SnapshotTerm'
    <3>1. lastIncludedTerm'[s] = committed[i].term
      <4>1. TermKnown(s, i)
        BY <2>2, <2>3, <2>5, <2>6 DEF TermKnown, FullOK
      <4>2. TermAt(s, i) = full[s][i].term
        BY <2>6, <2>9, <4>1 DEF FullOK
      <4> QED BY <2>4, <2>5, <2>9, <2>10, <4>2
    <3>2. i # 0
      BY <2>9
    <3>3. \A t \in Server : t # s => /\ lastIncludedTerm'[t] = lastIncludedTerm[t]
                                     /\ lastIncludedIndex'[t] = lastIncludedIndex[t]
      BY <2>1, <2>3
    <3> QED BY <1>1, <2>4, <3>1, <3>2, <3>3 DEF LogInv, SnapshotTerm
  <2>14. LogsStep /\ CommittedStep
    BY <1>1, <2>12 DEF LogsStep, LogStepOf, CommittedStep
  <2>15. CommitIndexStep /\ IndexOrder'
    BY <1>1, QuietCommit
  <2>16. RoleStep
    BY <1>1, QuietRoles
  <2>17. SendStep /\ AnswerStep /\ ClaimStep
    BY <1>1, QuietCalls, QuietAnswers, QuietClaims
  <2>18. IndexStep
    BY <1>1, QuietIndex
  <2> QED BY <2>13, <2>14, <2>15, <2>16, <2>17, <2>18 DEF LogStep
<1> QED BY <1>2, <1>3 DEF applyEntry, diskVars

(***************************************************************************)
(* Crashes.                                                                *)
(***************************************************************************)

\* What a crash of s, while it serves the calls F, changes: not the log.
Crashes(s, F) ==
    /\ UNCHANGED <<log, lastIncludedIndex, lastIncludedTerm, committed>>
    /\ commitIndex' = [commitIndex EXCEPT ![s] = lastIncludedIndex[s]]
    /\ lastApplied' = [lastApplied EXCEPT ![s] = lastIncludedIndex[s]]
    /\ nextIndex' = [nextIndex EXCEPT ![s] = [p \in Server |-> 1]]
    /\ matchIndex' = [matchIndex EXCEPT ![s] = [p \in Server |-> 0]]
    /\ state' = [state EXCEPT ![s] = Follower]
    /\ votes' = [votes EXCEPT ![s] = NoVotes]
    /\ epoch' = [epoch EXCEPT ![s] = @ + 1]
    /\ applyCh' = [applyCh EXCEPT ![s] = <<>>]
    /\ rpcs' = {m \in rpcs \ F : ~(m.type \in ReplyTypes /\ m.dst = s)}
    /\ repl' = [q \in Server |-> [p \in Server |->
          IF q = s \/ \E m \in F : m.src = q /\ m.dst = p /\ m.epoch = epoch[q]
          THEN "idle" ELSE repl[q][p]]]
    /\ F \subseteq Installs

\* A process that starts from a state file with the node's log.
LEMMA BootCrash ==
    ASSUME IndexInv, NEW s \in Server, NEW d, NEW f, NEW F \in SUBSET Installs, Boot(s, d, f, F),
           d.log = log[s], d.lastIncludedIndex = lastIncludedIndex[s],
           d.lastIncludedTerm = lastIncludedTerm[s]
    PROVE  Crashes(s, F)
<1>1. /\ log \in [Server -> Seq(Entry)] /\ lastIncludedIndex \in [Server -> Nat]
      /\ lastIncludedTerm \in [Server -> Nat]
  BY DEF IndexInv, TypeOK, LogTypeOK
<1>2. /\ log' = [log EXCEPT ![s] = log[s]]
      /\ lastIncludedIndex' = [lastIncludedIndex EXCEPT ![s] = lastIncludedIndex[s]]
      /\ lastIncludedTerm' = [lastIncludedTerm EXCEPT ![s] = lastIncludedTerm[s]]
  BY DEF Boot
<1>3. UNCHANGED <<log, lastIncludedIndex, lastIncludedTerm>>
  BY <1>1, <1>2
<1> QED BY <1>3 DEF Boot, Crashes

\* Every crash of the model is one.
LEMMA NodeCrash ==
    ASSUME IndexInv, NEW s \in Server, Restart(s) \/ CrashInSnapshot(s)
    PROVE  Crashes(s, {})
<1>1. /\ disk[s].log = log[s] /\ disk[s].lastIncludedIndex = lastIncludedIndex[s]
      /\ disk[s].lastIncludedTerm = lastIncludedTerm[s]
  BY DiskFields DEF IndexInv
<1> QED BY <1>1, BootCrash DEF Restart, CrashInSnapshot

\* The one in InstallSnapshot, too.
LEMMA InstallCrash ==
    ASSUME IndexInv, NEW m \in rpcs, CrashInInstall(m)
    PROVE  Crashes(m.dst, {m}) /\ m \in Installs /\ m.dst \in Server
<1> DEFINE s == m.dst
           d == IF m.term > currentTerm[s]
                THEN [disk[s] EXCEPT !.currentTerm = m.term, !.votedFor = Nil]
                ELSE disk[s]
<1>1. m.type = "InstallSnapshot" /\ Boot(s, d, m.data, {m}) /\ m \in Installs
  BY DEF CrashInInstall, Installs
<1>2. s \in Server /\ disk[s] \in Persisted
  BY <1>1, MessageFields DEF IndexInv, TypeOK, DiskTypeOK
<1>3. /\ disk[s].log = log[s] /\ disk[s].lastIncludedIndex = lastIncludedIndex[s]
      /\ disk[s].lastIncludedTerm = lastIncludedTerm[s]
  BY <1>2, DiskFields DEF IndexInv
<1>4. /\ d.log = disk[s].log /\ d.lastIncludedIndex = disk[s].lastIncludedIndex
      /\ d.lastIncludedTerm = disk[s].lastIncludedTerm
  BY <1>2 DEF Persisted
<1> HIDE DEF s, d
<1> QED BY <1>1, <1>2, <1>3, <1>4, BootCrash DEF s

\* A crash loses no log and no call but those it served.
LEMMA CrashLogs ==
    ASSUME IndexInv, IndexInv', Step, LogInv, NEW s \in Server, NEW F, Crashes(s, F)
    PROVE  LogStep
<1>1. LogsStep /\ CommittedStep /\ SnapshotTerm'
  BY QuietLogs DEF Crashes
<1>2. TypeOK
  BY DEF IndexInv
<1>3. commitIndex \in [Server -> Nat] /\ lastApplied \in [Server -> Nat] /\ lastIncludedIndex \in [Server -> Nat]
  BY <1>2 DEF TypeOK, CommitTypeOK, ApplyTypeOK, LogTypeOK
<1>4. state \in [Server -> {Follower, Candidate, Leader}] /\ state' = [state EXCEPT ![s] = Follower]
  BY <1>2 DEF TypeOK, TermTypeOK, Crashes
<1>5. \A t \in Server : state'[t] = Leader => state[t] = Leader /\ t # s
  BY <1>4 DEF Leader, Follower
<1>6. \A t \in Server : /\ commitIndex'[t] = IF t = s THEN lastIncludedIndex[t] ELSE commitIndex[t]
                        /\ lastApplied'[t] = IF t = s THEN lastIncludedIndex[t] ELSE lastApplied[t]
  BY <1>3 DEF Crashes
<1>7. \A t \in Server : lastIncludedIndex[t] <= lastApplied[t] /\ lastApplied[t] <= commitIndex[t]
  BY DEF IndexInv, CompactedApplied, LogInv, CommitKnown
<1>8. CommitIndexStep
  <2> SUFFICES ASSUME NEW t \in Server
               PROVE  commitIndex'[t] <= commitIndex[t] /\ (state'[t] = Leader => commitIndex'[t] = commitIndex[t])
    BY DEF CommitIndexStep
  <2> QED BY <1>3, <1>5, <1>6, <1>7
<1>9. IndexOrder'
  <2>1. \A t \in Server : lastApplied'[t] <= commitIndex'[t]
    BY <1>3, <1>6, <1>7
  <2> QED BY <2>1 DEF IndexOrder, IndexInv, CompactedApplied
<1>10. RoleStep
  BY <1>5, QuietRoles
<1>11. \A m \in rpcs' : m \in rpcs
  BY DEF Crashes
<1>12. SendStep /\ AnswerStep
  BY <1>11, QuietCalls, QuietAnswers
<1>13. ClaimStep
  <2> SUFFICES ASSUME NEW e \in Server, NEW v \in Server, NEW t \in Nat, Claims(e, v, t)'
               PROVE  Claims(e, v, t)
    BY DEF ClaimStep
  <2>1. votes \in [Server -> [1 .. MaxTerm -> [term : Nat, voters : SUBSET Server]]]
    BY <1>2 DEF TypeOK, ElectionTypeOK
  <2>2. e # s => votes'[e] = votes[e]
    BY <2>1 DEF Crashes
  <2>3. \A b \in 1 .. MaxTerm : votes'[s][b].voters = {}
    BY <2>1 DEF Crashes, NoVotes
  <2> QED BY <1>11, <2>2, <2>3 DEF Claims
<1>14. IndexStep
  <2> SUFFICES ASSUME NEW t \in Server, NEW p \in Server, state'[t] = Leader
               PROVE  /\ nextIndex'[t][p] = nextIndex[t][p] /\ matchIndex'[t][p] = matchIndex[t][p]
                      /\ \A r \in rpcs : r.type \in {"AppendReply", "SnapshotReply"} /\ r.dst = t => r \in rpcs'
    BY DEF IndexStep
  <2>1. t # s
    BY <1>5
  <2>2. nextIndex \in [Server -> [Server -> Nat \ {0}]] /\ matchIndex \in [Server -> [Server -> Nat]]
    BY <1>2 DEF TypeOK, LeaderTypeOK
  <2>3. nextIndex'[t][p] = nextIndex[t][p] /\ matchIndex'[t][p] = matchIndex[t][p]
    BY <2>1, <2>2 DEF Crashes
  <2> QED BY <2>1, <2>3 DEF Crashes, Installs
<1> QED BY <1>1, <1>8, <1>9, <1>10, <1>12, <1>13, <1>14 DEF LogStep

(***************************************************************************)
(* Calls.                                                                  *)
(***************************************************************************)

\* A step that only makes the call m.
Sends(m) ==
    /\ UNCHANGED <<log, lastIncludedIndex, lastIncludedTerm, committed, commitIndex, lastApplied>>
    /\ UNCHANGED <<nextIndex, matchIndex>> /\ UNCHANGED votes /\ UNCHANGED <<state, currentTerm>>
    /\ rpcs' = rpcs \cup {m}

\* It is a LogStep if m is what the leader may send.
LEMMA SendLogs ==
    ASSUME IndexInv, IndexInv', Step, LogInv, NEW m, Sends(m),
           \/ m.type = "AppendEntries" /\ SendsEntries(m)
           \/ m.type = "InstallSnapshot" /\ SendsSnapshot(m)
    PROVE  LogStep
<1> USE DEF Sends
<1>1. LogsStep /\ CommittedStep /\ SnapshotTerm'
  BY QuietLogs
<1>2. CommitIndexStep /\ IndexOrder'
  BY QuietCommit
<1>3. RoleStep
  BY QuietRoles
<1>4. \A q \in rpcs' : q \in rpcs \/ q = m
  OBVIOUS
<1>5. SendStep
  BY <1>4 DEF SendStep, Appends, Installs
<1>6. AnswerStep
  BY <1>4, QuietAnswers DEF ReplyType
<1>7. IndexStep
  BY QuietIndex
<1>8. ClaimStep
  BY <1>4, QuietClaims
<1> QED BY <1>1, <1>2, <1>3, <1>5, <1>6, <1>7, <1>8 DEF LogStep

\* A goroutine that has not called is alone: no call or reply is in flight.
LEMMA SendCalls ==
    ASSUME IndexInv, LogInv, CallInv, NEW m, NEW s \in Server, NEW p \in Server, s # p, Sends(m),
           m.src = s, m.dst = p, m.term = currentTerm[s], state[s] = Leader, repl[s][p] # "call"
    PROVE  Calls(m)
<1>1. \A t \in Server : Kept(t)
  BY QuietLogs DEF Sends
<1>2. \A r \in rpcs : ~IsCall(r, s, p)
  BY DEF CallInv, OneCall
<1>3. UNCHANGED <<currentTerm, committed, commitIndex, nextIndex, matchIndex>> /\ state' = state
  BY DEF Sends
<1> QED BY <1>1, <1>2, <1>3 DEF Calls

\* replicateToPeer sends what follows nextIndex in the leader's log.
LEMMA replicateToPeerLogs ==
    ASSUME IndexInv, IndexInv', Step, CallInv, LogInv, NEW s \in Server, NEW p \in Peers(s),
           replicateToPeer(s, p)
    PROVE  LogStep
<1>1. CASE UNCHANGED rpcs
  BY <1>1, RoundLogs
<1>2. CASE state[s] = Leader /\ nextIndex[s][p] > lastIncludedIndex[s]
           /\ rpcs' = rpcs \cup
                  {[type |-> "AppendEntries", src |-> s, dst |-> p,
                    epoch |-> epoch[s], term |-> currentTerm[s],
                    prevLogIndex |-> nextIndex[s][p] - 1,
                    prevLogTerm |-> IF nextIndex[s][p] - 1 >= 1 THEN TermAt(s, nextIndex[s][p] - 1) ELSE 0,
                    entries |-> SubSeq(log[s], physicalIndex(s, nextIndex[s][p]), Len(log[s])),
                    leaderCommit |-> commitIndex[s]]}
  <2>1. PICK x : x = nextIndex[s][p]
    OBVIOUS
  <2>2. PICK m : m = [type |-> "AppendEntries", src |-> s, dst |-> p,
                    epoch |-> epoch[s], term |-> currentTerm[s], prevLogIndex |-> x - 1,
                    prevLogTerm |-> IF x - 1 >= 1 THEN TermAt(s, x - 1) ELSE 0,
                    entries |-> SubSeq(log[s], physicalIndex(s, x), Len(log[s])),
                    leaderCommit |-> commitIndex[s]]
    OBVIOUS
  <2>3. /\ m.type = "AppendEntries" /\ m.src = s /\ m.dst = p /\ m.term = currentTerm[s]
        /\ m.prevLogIndex = x - 1 /\ m.prevLogTerm = (IF x - 1 >= 1 THEN TermAt(s, x - 1) ELSE 0)
        /\ m.entries = SubSeq(log[s], physicalIndex(s, x), Len(log[s])) /\ m.leaderCommit = commitIndex[s]
    BY <2>2
  <2>4. Sends(m) /\ repl[s][p] = "ready"
    BY <1>2, <2>1, <2>2 DEF Sends, replicateToPeer, logVars, applyVars, leaderVars, commitVars, electionVars, termVars
  <2>5. Calls(m)
    <3>1. p \in Server /\ s # p
      BY DEF Peers
    <3> QED BY <1>2, <2>3, <2>4, <3>1, SendCalls
  <2>6. FullOK(s)
    BY LogsFull DEF LogInv, AllFull
  <2>7. /\ TypeOK /\ p \in Server /\ x \in Nat /\ x > 0 /\ x > lastIncludedIndex[s] /\ x <= last[s] + 1
    <3>1. TypeOK /\ p \in Server
      BY DEF IndexInv, Peers
    <3>2. nextIndex[s][p] \in Nat \ {0}
      BY <3>1 DEF TypeOK, LeaderTypeOK
    <3>3. nextIndex[s][p] <= LastLogIndex(s) + 1
      BY <1>2, <3>1 DEF IndexInv, NextWithinLog
    <3>4. last[s] = LastLogIndex(s)
      BY <2>6 DEF FullOK
    <3>5. x \in Nat \ {0} /\ x <= last[s] + 1
      BY <2>1, <3>2, <3>3, <3>4
    <3>6. x > lastIncludedIndex[s]
      BY <1>2, <2>1
    <3> QED BY <3>1, <3>5, <3>6
  <2>8. PICK b \in Nat : b = lastIncludedIndex[s]
    BY <2>6 DEF FullOK
  <2>9. PICK n \in Nat : n = last[s]
    BY <2>6 DEF FullOK
  <2>10. log[s] \in Seq(Entry) /\ Len(log[s]) \in Nat
    BY <2>7 DEF TypeOK, LogTypeOK
  <2>11. PICK l \in Nat : l = Len(log[s])
    BY <2>10
  <2>12. n = b + l
    BY <2>6, <2>8, <2>9, <2>11 DEF FullOK, LastLogIndex
  <2>13. PICK y \in Nat : y = x - b
    BY <2>7, <2>8
  <2>14. y \in 1 .. l + 1 /\ x = y + b
    BY <2>7, <2>8, <2>9, <2>12, <2>13
  <2>15. m.entries = SubSeq(log[s], y, l)
    BY <2>3, <2>8, <2>11, <2>13 DEF physicalIndex
  <2>16. /\ Len(m.entries) = l - y + 1
         /\ \A i \in 1 .. l - y + 1 : m.entries[i] = log[s][y + i - 1]
    BY <2>10, <2>11, <2>14, <2>15, SuffixAt
  <2>17. Top(m) = n
    <3>1. (x - 1) + (l - y + 1) = n
      BY <2>12, <2>14
    <3> QED BY <2>3, <2>16, <3>1 DEF Top
  <2>18. \A k \in x .. n : m.entries[k - (x - 1)] = full[s][k]
    <3> SUFFICES ASSUME NEW k \in x .. n PROVE m.entries[k - (x - 1)] = full[s][k]
      OBVIOUS
    <3>1. /\ k - (x - 1) \in 1 .. l - y + 1 /\ y + (k - (x - 1)) - 1 = k - b
          /\ k \in b + 1 .. n
      BY <2>7, <2>12, <2>14
    <3>2. full[s][k] = log[s][k - b]
      BY <2>6, <2>8, <2>9, <3>1 DEF FullOK
    <3> QED BY <2>16, <3>1, <3>2
  <2>19. m.prevLogTerm = IF x - 1 = 0 THEN 0 ELSE full[s][x - 1].term
    <3>1. CASE x = 1
      BY <2>3, <3>1
    <3>2. CASE x > 1
      <4>1. x - 1 \in 1 .. last[s] /\ TermKnown(s, x - 1)
        BY <2>6, <2>7, <2>8, <2>9, <3>2 DEF TermKnown, FullOK
      <4>2. TermAt(s, x - 1) = full[s][x - 1].term
        BY <2>6, <4>1 DEF FullOK
      <4>3. x - 1 >= 1 /\ x - 1 # 0
        BY <2>7, <3>2
      <4> QED BY <2>3, <4>2, <4>3
    <3> QED BY <2>7, <3>1, <3>2
  <2>20. Cut(CallFrag(m), NodeFrag(s))
    <3>1. /\ CallFrag(m).base = x - 1 /\ CallFrag(m).top = n
          /\ CallFrag(m).trm = IF x - 1 = 0 THEN 0 ELSE full[s][x - 1].term
      BY <2>3, <2>17, <2>19, CallFragIs
    <3>2. \A k \in x .. n : CallFrag(m).at[k] = full[s][k]
      <4>1. \A k \in (x - 1) + 1 .. n : CallFrag(m).at[k] = m.entries[k - (x - 1)]
        BY <2>3, <2>17, CallFragIs
      <4>2. (x - 1) + 1 = x
        BY <2>7
      <4> QED BY <2>18, <4>1, <4>2
    <3>3. NodeFrag(s).top = n /\ NodeFrag(s).at = full[s]
      BY <2>9, FragsAre
    <3>4. x - 1 \in Nat /\ x - 1 <= n /\ (x - 1) + 1 = x
      BY <2>7, <2>9
    <3> QED BY <3>1, <3>2, <3>3, <3>4 DEF Cut
  <2>21. SendsEntries(m)
    BY <2>1, <2>3, <2>5, <2>9, <2>17, <2>20 DEF SendsEntries
  <2> QED BY <2>3, <2>4, <2>21, SendLogs
<1> QED BY <1>1, <1>2 DEF replicateToPeer

\* sendInstallSnapshot sends the leader's snapshot.
LEMMA sendInstallSnapshotLogs ==
    ASSUME IndexInv, IndexInv', Step, CallInv, LogInv, NEW s \in Server, NEW p \in Peers(s),
           sendInstallSnapshot(s, p)
    PROVE  LogStep
<1>1. CASE UNCHANGED rpcs
  BY <1>1, RoundLogs
<1>2. CASE state[s] = Leader
           /\ rpcs' = rpcs \cup
               {[type |-> "InstallSnapshot", src |-> s, dst |-> p,
                 epoch |-> epoch[s], term |-> currentTerm[s],
                 lastIncludedIndex |-> lastIncludedIndex[s],
                 lastIncludedTerm |-> lastIncludedTerm[s],
                 data |-> snapshotData[s]]}
  <2>1. PICK m : m = [type |-> "InstallSnapshot", src |-> s, dst |-> p,
                 epoch |-> epoch[s], term |-> currentTerm[s],
                 lastIncludedIndex |-> lastIncludedIndex[s],
                 lastIncludedTerm |-> lastIncludedTerm[s],
                 data |-> snapshotData[s]]
    OBVIOUS
  <2>2. /\ m.type = "InstallSnapshot" /\ m.src = s /\ m.dst = p /\ m.term = currentTerm[s]
        /\ m.lastIncludedIndex = lastIncludedIndex[s] /\ m.lastIncludedTerm = lastIncludedTerm[s]
    BY <2>1
  <2>3. Sends(m) /\ repl[s][p] = "snap"
    BY <1>2, <2>1 DEF Sends, sendInstallSnapshot, logVars, applyVars, leaderVars, commitVars, electionVars, termVars
  <2>4. p \in Server /\ s # p
    BY DEF Peers
  <2>5. Calls(m)
    BY <1>2, <2>2, <2>3, <2>4, SendCalls
  <2> QED BY <2>2, <2>3, <2>5, SendLogs DEF SendsSnapshot
<1> QED BY <1>1, <1>2 DEF sendInstallSnapshot

(***************************************************************************)
(* Commitment.                                                             *)
(***************************************************************************)

\* The places of entries that are appended.
LEMMA AppendedPlaces ==
    ASSUME NEW L \in Nat, NEW b \in Nat, NEW n \in Nat, NEW l \in Nat, b <= L, L < n, n <= b + l
    PROVE  /\ L + 1 - b \in 1 .. l /\ n - b \in 1 .. l /\ L + 1 - b <= n - b
           /\ (n - b) - (L + 1 - b) + 1 = n - L /\ n - L \in Nat /\ L + (n - L) = n
           /\ \A k \in 1 .. L : k \in 1 .. n /\ k <= L
           /\ \A k \in L + 1 .. n : /\ k \in 1 .. n /\ ~(k <= L) /\ k - L \in 1 .. n - L
                                    /\ (L + 1 - b) + (k - L) - 1 = k - b
OBVIOUS

\* The entries of g after the first L - b are appended to those of c.
IsAppended(r, c, g, L, b, n) ==
    /\ c \in Seq(Entry) /\ g \in Seq(Entry) /\ L = Len(c) /\ n <= b + Len(g)
    /\ r = c \o SubSeq(g, L + 1 - b, n - b)

\* What is at which place then.
LEMMA Appended ==
    ASSUME NEW L \in Nat, NEW b \in Nat, NEW n \in Nat, b <= L, L < n, NEW c, NEW g, NEW r,
           IsAppended(r, c, g, L, b, n)
    PROVE  /\ Len(r) = n
           /\ \A k \in 1 .. L : r[k] = c[k]
           /\ \A k \in L + 1 .. n : r[k] = g[k - b]
<1>1. /\ c \in Seq(Entry) /\ g \in Seq(Entry) /\ L = Len(c) /\ n <= b + Len(g)
      /\ r = c \o SubSeq(g, L + 1 - b, n - b)
  BY DEF IsAppended
<1>2. PICK l \in Nat : l = Len(g)
  BY <1>1
<1>3. PICK x \in Nat : x = L + 1 - b
  OBVIOUS
<1>4. PICK y \in Nat : y = n - b
  OBVIOUS
<1>5. n <= b + l
  BY <1>1, <1>2
<1>6. /\ x \in 1 .. l /\ y \in 1 .. l /\ x <= y /\ y - x + 1 = n - L /\ n - L \in Nat /\ L + (n - L) = n
      /\ \A k \in 1 .. L : k \in 1 .. n /\ k <= L
      /\ \A k \in L + 1 .. n : /\ k \in 1 .. n /\ ~(k <= L) /\ k - L \in 1 .. n - L
                               /\ x + (k - L) - 1 = k - b
  BY <1>3, <1>4, <1>5, AppendedPlaces
<1>7. PICK q : q = SubSeq(g, x, y)
  OBVIOUS
<1>8. /\ q \in Seq(Entry) /\ Len(q) = IF x <= y THEN y - x + 1 ELSE 0
      /\ \A i \in 1 .. y - x + 1 : q[i] = g[x + i - 1]
  <2>1. \A i \in x .. y : g[i] \in Entry
    BY <1>1, <1>2, <1>6
  <2> QED BY <1>7, <2>1, SubSeqProperties
<1>9. Len(q) = n - L /\ \A i \in 1 .. n - L : q[i] = g[x + i - 1]
  BY <1>6, <1>8
<1>10. r = c \o q
  BY <1>1, <1>3, <1>4, <1>7
<1>11. PICK w : w = c \o q
  OBVIOUS
<1>12. c \in Seq(Entry) /\ q \in Seq(Entry)
  BY <1>1, <1>8
<1>13. /\ Len(w) = Len(c) + Len(q)
       /\ \A i \in 1 .. Len(c) + Len(q) : w[i] = IF i <= Len(c) THEN c[i] ELSE q[i - Len(c)]
  BY <1>11, <1>12, ConcatProperties
<1>14. Len(c) + Len(q) = n /\ Len(c) = L /\ r = w
  BY <1>1, <1>6, <1>9, <1>10, <1>11
<1>15. Len(r) = n /\ \A i \in 1 .. n : r[i] = IF i <= L THEN c[i] ELSE q[i - L]
  BY <1>13, <1>14
<1>16. \A k \in 1 .. L : r[k] = c[k]
  BY <1>6, <1>15
<1>17. ASSUME NEW k \in L + 1 .. n PROVE r[k] = g[k - b]
  <2>1. k \in 1 .. n /\ ~(k <= L) /\ k - L \in 1 .. n - L /\ x + (k - L) - 1 = k - b
    BY <1>6
  <2>2. r[k] = q[k - L]
    BY <1>15, <2>1
  <2>3. q[k - L] = g[x + (k - L) - 1]
    BY <1>9, <2>1
  <2> QED BY <2>1, <2>2, <2>3
<1> QED BY <1>15, <1>16, <1>17

\* Entries are only added to the committed ones: the leader's, through n.
LEMMA AdvanceMore ==
    ASSUME IndexInv, NEW s \in Server, NEW match, NEW lg \in Seq(Entry), advanceCommitIndex(s, match, lg),
           NEW n, n = NewCommitIndex(s, match, lg)
    PROVE  /\ n \in Nat /\ commitIndex[s] <= n /\ commitIndex' = [commitIndex EXCEPT ![s] = n]
           /\ MoreCommitted
           /\ n <= Len(committed) => committed' = committed
           /\ n > Len(committed) =>
                 /\ Len(committed') = n
                 /\ \A k \in Len(committed) + 1 .. n : committed'[k] = lg[k - lastIncludedIndex[s]]
<1>1. /\ n \in Nat /\ commitIndex[s] <= n
      /\ n = commitIndex[s] \/ n <= lastIncludedIndex[s] + Len(lg)
  BY NewCommit DEF IndexInv
<1>2. /\ commitIndex' = [commitIndex EXCEPT ![s] = n]
      /\ committed' = IF n <= Len(committed) THEN committed
                       ELSE committed \o
                            SubSeq(lg, physicalIndex(s, Len(committed) + 1),
                                       physicalIndex(s, n))
  BY DEF advanceCommitIndex
<1>3. committed \in Seq(Entry) /\ Len(lg) \in Nat
  BY DEF IndexInv, TypeOK, CommitTypeOK
<1>4. PICK L \in Nat : L = Len(committed)
  BY <1>3
<1>5. PICK b \in Nat : b = lastIncludedIndex[s]
  BY DEF IndexInv, TypeOK, LogTypeOK
<1>6. b <= L /\ commitIndex[s] <= L
  <2>1. lastApplied[s] \in Nat
    BY DEF IndexInv, TypeOK, ApplyTypeOK
  <2> QED BY <1>4, <1>5, <2>1 DEF IndexInv, CompactedApplied, CommitRecorded
<1>7. CASE n <= L
  <2>1. committed' = committed
    BY <1>2, <1>4, <1>7
  <2> QED BY <1>1, <1>2, <1>4, <1>7, <2>1 DEF MoreCommitted
<1>8. CASE n > L
  <2>1. n <= b + Len(lg)
    <3>1. commitIndex[s] \in Nat
      BY DEF IndexInv, TypeOK, CommitTypeOK
    <3> QED BY <1>1, <1>5, <1>6, <1>8, <3>1
  <2>2. committed' = committed \o SubSeq(lg, L + 1 - b, n - b)
    <3>1. ~(n <= Len(committed))
      BY <1>1, <1>4, <1>8
    <3>2. committed' = committed \o
              SubSeq(lg, physicalIndex(s, Len(committed) + 1), physicalIndex(s, n))
      BY <1>2, <3>1
    <3>3. \A k : physicalIndex(s, k) = k - b
      BY <1>5 DEF physicalIndex
    <3>4. physicalIndex(s, L + 1) = L + 1 - b /\ physicalIndex(s, n) = n - b
      BY <3>3
    <3> QED BY <1>4, <3>2, <3>4
  <2>3. /\ Len(committed') = n
        /\ \A k \in 1 .. L : committed'[k] = committed[k]
        /\ \A k \in L + 1 .. n : committed'[k] = lg[k - b]
    <3>1. L < n /\ n \in Nat
      BY <1>1, <1>8
    <3>2. b <= L
      BY <1>6
    <3>3. IsAppended(committed', committed, lg, L, b, n)
      BY <1>3, <1>4, <2>1, <2>2 DEF IsAppended
    <3> QED BY <3>1, <3>2, <3>3, Appended
  <2>4. MoreCommitted
    <3>1. L <= n /\ n \in Nat
      BY <1>1, <1>8
    <3> QED BY <1>4, <2>3, <3>1 DEF MoreCommitted
  <2>5. ~(n <= Len(committed))
    BY <1>1, <1>4, <1>8
  <2>6. \A k \in Len(committed) + 1 .. n : committed'[k] = lg[k - lastIncludedIndex[s]]
    BY <1>4, <1>5, <2>3
  <2> QED BY <1>1, <1>2, <2>3, <2>4, <2>5, <2>6
<1> QED BY <1>1, <1>4, <1>7, <1>8

\* Who has entry n, to the leader's knowledge.
Holders(s, match, lg, n) ==
    {p \in Server : (IF p = s THEN lastIncludedIndex[s] + Len(lg) ELSE match[p]) >= n}

\* What leads advanceCommitIndexLocked to n: a majority has the entry, which
\* is of the leader's term.
LEMMA AdvanceWhy ==
    ASSUME NEW s \in Server, NEW match, NEW lg, NEW n, n = NewCommitIndex(s, match, lg), n # commitIndex[s]
    PROVE  /\ n \in commitIndex[s] + 1 .. lastIncludedIndex[s] + Len(lg)
           /\ Majority(Holders(s, match, lg, n))
           /\ n - lastIncludedIndex[s] \in DOMAIN lg
           /\ lg[n - lastIncludedIndex[s]].term = currentTerm[s]
<1> DEFINE top     == lastIncludedIndex[s] + Len(lg)
           largest == {i \in commitIndex[s] + 1 .. top :
                      /\ HeldByMajority(s, match, top, i)
                      /\ ~HeldByMajority(s, match, top, i + 1)
                      /\ physicalIndex(s, i) \in DOMAIN lg
                      /\ OfCurrentTerm(s, lg[physicalIndex(s, i)])}
<1>1. n = IF largest = {} THEN commitIndex[s] ELSE CHOOSE i \in largest : TRUE
  BY DEF NewCommitIndex
<1> HIDE DEF largest
<1>2. n \in largest
  BY <1>1
<1> QED BY <1>2 DEF largest, HeldByMajority, OfCurrentTerm, physicalIndex, Holders

\* What a leader may commit agrees with all that was committed before it,
\* also if that was by leaders of later terms.
LEMMA LeaderCommit ==
    ASSUME IndexInv, LogInv, NEW s \in Server, state[s] = Leader, NEW n \in Nat \ {0},
           NEW H \in SUBSET Server, Majority(H),
           \/ n <= last[s] /\ full[s][n].term = currentTerm[s] /\ H \subseteq Acks(s, n)
           \/ n = last[s] + 1 /\ H \subseteq {s}
    PROVE  \A k \in 1 .. Len(committed) : k <= n => k <= last[s] /\ full[s][k] = committed[k]
<1>1. TypeOK /\ Matched
  BY DEF IndexInv, LogInv
<1>2. /\ last[s] \in Nat /\ currentTerm[s] \in Nat
      /\ \A i \in 1 .. Len(committed) : committed[i].term \in Nat
  BY <1>1, LogFacts
<1>3. PICK L \in Nat : L = Len(committed)
  BY <1>1 DEF TypeOK, CommitTypeOK
<1> SUFFICES ASSUME L > 0 PROVE \A k \in 1 .. L : k <= n => k <= last[s] /\ full[s][k] = committed[k]
  BY <1>3
<1>4. L \in 1 .. Len(committed) /\ Anchor(L)
  BY <1>3 DEF LogInv, CommitKnown
<1>5. PICK U \in Nat : U = committed[L].term
  BY <1>2, <1>4
<1>6. CASE U <= currentTerm[s]
  <2>1. Locked(committed, L, U)
    BY <1>1, <1>4, <1>5, AnchorLocks
  <2>2. Agrees(s, committed, L)
    BY <1>6, <2>1 DEF Locked
  <2> QED BY <1>2, <2>2 DEF Agrees
<1>7. CASE U > currentTerm[s] /\ n <= last[s]
  <2>0. full[s][n].term = currentTerm[s] /\ H \subseteq Acks(s, n)
    BY <1>2, <1>7
  <2>1. n \in 1 .. last[s]
    BY <1>2, <1>7
  <2>2. PICK f : f = full[s]
    OBVIOUS
  <2>3. PICK T \in Nat : T = currentTerm[s]
    BY <1>2
  <2>4. PICK A \in SUBSET Server : A = Acks(s, n)
    <3>1. Acks(s, n) \in SUBSET Server
      BY DEF Acks
    <3> QED BY <3>1
  <2>5. Safe(f, n, T, A)
    BY <2>0, <2>1, <2>2, <2>3, <2>4 DEF LogInv, LeaderSafe
  <2>6. Majority(A \cup {v \in Server : currentTerm[v] <= T})
    <3> DEFINE Q == A \cup {v \in Server : currentTerm[v] <= T}
    <3>1. H \subseteq Q /\ Q \in SUBSET Server
      BY <2>0, <2>4
    <3> HIDE DEF Q
    <3>2. Majority(Q)
      BY <3>1, MajorityGrows
    <3> QED BY <3>2 DEF Q
  <2>7. Locked(f, n, T)
    BY <2>5, <2>6 DEF Safe
  <2>8. committed[L].term > T
    BY <1>5, <1>7, <2>3
  <2>9. n < L /\ \A k \in 1 .. n : committed[k] = f[k]
    BY <1>4, <2>7, <2>8 DEF Locked
  <2> QED BY <1>2, <1>7, <2>2, <2>9
<1>8. CASE U > currentTerm[s] /\ n = last[s] + 1
  <2>0. H \subseteq {s}
    BY <1>2, <1>8
  <2>1. EntryIn(L, U)
    BY <1>4, <1>5, CommittedEntry
  <2>2. Over(U)
    BY <2>1 DEF LogInv, Closed
  <2>3. Majority({v \in Server : currentTerm[v] >= U})
    BY <2>2 DEF Over
  <2>4. PICK v \in Server : v \in H /\ v \in {w \in Server : currentTerm[w] >= U}
    <3> DEFINE Q == {w \in Server : currentTerm[w] >= U}
    <3>1. Q \in SUBSET Server /\ Majority(Q)
      BY <2>3
    <3> HIDE DEF Q
    <3>2. \E v \in Server : v \in H /\ v \in Q
      BY <3>1, MajoritiesMeet
    <3> QED BY <3>2 DEF Q
  <2>5. currentTerm[s] >= U
    BY <2>0, <2>4
  <2> QED BY <1>2, <1>8, <2>5
<1> QED BY <1>2, <1>6, <1>7, <1>8

\* Snapshots stay what they are while entries are committed.
LEMMA SnapshotTermKept ==
    ASSUME IndexInv, LogInv, MoreCommitted, UNCHANGED <<lastIncludedIndex, lastIncludedTerm>>
    PROVE  SnapshotTerm'
<1> SUFFICES ASSUME NEW s \in Server
             PROVE  lastIncludedTerm'[s] = IF lastIncludedIndex'[s] = 0 THEN 0
                                           ELSE committed'[lastIncludedIndex'[s]].term
  BY DEF SnapshotTerm
<1>1. lastIncludedIndex[s] \in Nat /\ lastApplied[s] \in Nat
  BY DEF IndexInv, TypeOK, LogTypeOK, ApplyTypeOK
<1>2. lastIncludedIndex[s] <= Len(committed)
  BY <1>1 DEF IndexInv, CompactedApplied, CommitRecorded, MoreCommitted
<1>3. lastIncludedIndex[s] # 0 => lastIncludedIndex[s] \in 1 .. Len(committed)
  BY <1>1, <1>2 DEF MoreCommitted
<1>4. lastIncludedTerm[s] = IF lastIncludedIndex[s] = 0 THEN 0 ELSE committed[lastIncludedIndex[s]].term
  BY DEF LogInv, SnapshotTerm
<1> QED BY <1>3, <1>4 DEF MoreCommitted

\* Leader s, whose log becomes lg, commits what the peers' match indices say.
Commits(s, match, lg) ==
    /\ advanceCommitIndex(s, match, lg) /\ state[s] = Leader
    /\ UNCHANGED <<state, currentTerm, lastIncludedIndex, lastIncludedTerm>>
    /\ log'[s] = lg /\ matchIndex'[s] = match
    /\ \A v \in Server : match[v] \in Nat
    /\ \A v \in Server : \A k \in Nat \ {0} : v # s /\ k <= match[v] => Acked(v, s, k)

\* Its commit index moves to n only if it may commit n.
LEMMA CommitAdvances ==
    ASSUME IndexInv, IndexInv', LogInv, SnapshotTerm', NEW s \in Server, NEW match, NEW lg \in Seq(Entry),
           Commits(s, match, lg), Grown(s), last'[s] = last[s] \/ last'[s] = last[s] + 1,
           NEW n, n = NewCommitIndex(s, match, lg), n # commitIndex[s]
    PROVE  Advances(s, n)
<1> DEFINE H == Holders(s, match, lg, n)
<1>1. /\ n \in commitIndex[s] + 1 .. lastIncludedIndex[s] + Len(lg)
      /\ Majority(H)
      /\ lg[n - lastIncludedIndex[s]].term = currentTerm[s]
  BY AdvanceWhy
<1>2. FullOK(s)' /\ FullOK(s)
  BY LogsFull, LogsFullNext DEF LogInv, AllFull
<1>3. PICK b \in Nat : b = lastIncludedIndex[s] /\ b = lastIncludedIndex'[s]
  BY <1>2 DEF FullOK, Commits
<1>4. PICK w \in Nat : w = last'[s]
  BY <1>2 DEF FullOK
<1>5. PICK x \in Nat : x = last[s]
  BY <1>2 DEF FullOK
<1>6. PICK c \in Nat : c = commitIndex[s] /\ b <= c
  <2>1. commitIndex[s] \in Nat /\ lastApplied[s] \in Nat
    BY DEF IndexInv, TypeOK, CommitTypeOK, ApplyTypeOK
  <2>2. lastIncludedIndex[s] <= lastApplied[s] /\ lastApplied[s] <= commitIndex[s]
    BY DEF IndexInv, CompactedApplied, LogInv, CommitKnown
  <2> QED BY <1>3, <2>1, <2>2
<1>7. w = lastIncludedIndex[s] + Len(lg)
  BY <1>2, <1>4 DEF FullOK, LastLogIndex, Commits
<1>8. n \in c + 1 .. w /\ n \in Nat \ {0} /\ n > b /\ n \in b + 1 .. w /\ n \in 1 .. w
  <2>1. n \in commitIndex[s] + 1 .. lastIncludedIndex[s] + Len(lg)
    BY <1>1
  <2>2. n \in c + 1 .. w
    BY <1>6, <1>7, <2>1
  <2>3. b <= c
    BY <1>6
  <2> QED BY <2>2, <2>3
<1>9. \A k \in b + 1 .. w : full'[s][k] = lg[k - b]
  BY <1>2, <1>3, <1>4 DEF FullOK, Commits
<1>10. full'[s][n].term = currentTerm[s]
  BY <1>1, <1>3, <1>8, <1>9
<1>11. \A v \in H : v # s => Acked(v, s, n)
  <2> SUFFICES ASSUME NEW v \in H, v # s PROVE Acked(v, s, n)
    OBVIOUS
  <2>1. v \in Server /\ match[v] >= n /\ match[v] \in Nat
    BY DEF Commits, Holders
  <2> QED BY <1>8, <2>1 DEF Commits
<1>12. H \in SUBSET Server
  BY DEF Holders
<1>13. Majority(Acks(s, n)')
  <2>1. PICK A : A = Acks(s, n)'
    OBVIOUS
  <2>2. A \in SUBSET Server
    BY <2>1 DEF Acks
  <2>3. H \subseteq A
    <3> SUFFICES ASSUME NEW v \in H PROVE v \in A
      OBVIOUS
    <3>1. CASE v = s
      BY <2>1, <3>1 DEF Acks
    <3>2. CASE v # s
      <4>1. v \in Server /\ match[v] >= n /\ match[v] \in Nat
        BY <3>2 DEF Commits, Holders
      <4>2. n <= matchIndex'[s][v]
        BY <1>8, <4>1 DEF Commits
      <4>3. Acked(v, s, n)'
        BY <3>2, <4>2 DEF Acked
      <4> QED BY <2>1, <4>1, <4>3 DEF Acks
    <3> QED BY <3>1, <3>2
  <2>4. Majority(A)
    BY <1>1, <2>2, <2>3, MajorityGrows
  <2>5. Acks(s, n)' = A
    BY <2>1
  <2> QED BY <2>4, <2>5 DEF Majority
<1> HIDE DEF H
<1>14. \A k \in 1 .. Len(committed) : k <= n => k <= last[s] /\ full[s][k] = committed[k]
  <2>1. CASE n <= x
    <3>1. full'[s][n] = full[s][n] /\ n <= last[s]
      <4>1. n \in 1 .. last[s]
        BY <1>5, <1>8, <2>1
      <4> QED BY <1>5, <2>1, <4>1 DEF Grown
    <3>2. H \subseteq Acks(s, n)
      BY <1>11, <1>12 DEF Acks
    <3>3. full[s][n].term = currentTerm[s]
      BY <1>10, <3>1
    <3>4. state[s] = Leader
      BY DEF Commits
    <3> QED BY <1>1, <1>8, <1>12, <3>1, <3>2, <3>3, <3>4, LeaderCommit
  <2>2. CASE n > x
    <3>1. w = x \/ w = x + 1
      BY <1>4, <1>5
    <3>2. n <= w /\ n \in Nat
      BY <1>8
    <3>3. n = x + 1
      BY <2>2, <3>1, <3>2
    <3>4. n = last[s] + 1
      BY <1>5, <3>3
    <3>5. H \subseteq {s}
      <4> SUFFICES ASSUME NEW v \in H, v # s PROVE FALSE
        OBVIOUS
      <4>1. Acked(v, s, n) /\ v \in Server /\ state[s] = Leader
        BY <1>11, <1>12 DEF Commits
      <4>2. n <= last[s]
        BY <1>8, <4>1 DEF LogInv, AckTrue
      <4> QED BY <1>5, <1>8, <2>2, <4>2
    <3>6. state[s] = Leader
      BY DEF Commits
    <3> QED BY <1>1, <1>8, <1>12, <3>4, <3>5, <3>6, LeaderCommit
  <2>3. n \in Nat
    BY <1>8
  <2>4. n <= x \/ n > x
    BY <2>3
  <2> QED BY <2>1, <2>2, <2>4
<1>15. \A k \in 1 .. Len(committed) : k <= n => full'[s][k] = committed[k]
  <2> SUFFICES ASSUME NEW k \in 1 .. Len(committed), k <= n PROVE full'[s][k] = committed[k]
    OBVIOUS
  <2>1. k <= last[s] /\ full[s][k] = committed[k]
    BY <1>14
  <2>2. k \in 1 .. last[s]
    BY <1>5, <2>1
  <2> QED BY <2>1, <2>2 DEF Grown
<1>16. PICK L \in Nat : L = Len(committed) /\ b <= L
  BY <1>2, <1>3 DEF FullOK, IndexInv, TypeOK, CommitTypeOK
<1>17. /\ n <= Len(committed) => committed' = committed
       /\ n > Len(committed) =>
                 /\ Len(committed') = n
                 /\ \A k \in Len(committed) + 1 .. n : committed'[k] = lg[k - lastIncludedIndex[s]]
       /\ MoreCommitted
  BY AdvanceMore DEF Commits
<1>18. n <= Len(committed') /\ \A k \in 1 .. n : full'[s][k] = committed'[k]
  <2>1. CASE n <= L
    <3>1. committed' = committed
      BY <1>16, <1>17, <2>1
    <3>2. \A k \in 1 .. n : k \in 1 .. Len(committed) /\ k <= n
      BY <1>8, <1>16, <2>1
    <3> QED BY <1>15, <1>16, <2>1, <3>1, <3>2
  <2>2. CASE n > L
    <3>1. Len(committed') = n /\ \A k \in L + 1 .. n : committed'[k] = lg[k - b]
      BY <1>3, <1>16, <1>17, <2>2
    <3>2. ASSUME NEW k \in 1 .. n PROVE full'[s][k] = committed'[k]
      <4>1. CASE k <= L
        <5>1. k \in 1 .. Len(committed) /\ k <= n
          BY <1>8, <1>16, <4>1
        <5> QED BY <1>15, <1>17, <5>1 DEF MoreCommitted
      <4>2. CASE k > L
        <5>1. k \in L + 1 .. n /\ k \in b + 1 .. w
          BY <1>8, <1>16, <4>2
        <5> QED BY <1>9, <3>1, <5>1
      <4> QED BY <1>8, <1>16, <4>1, <4>2
    <3>3. n <= Len(committed')
      BY <1>8, <3>1
    <3> QED BY <3>2, <3>3
  <2>3. n \in Nat
    BY <1>8
  <2>4. n <= L \/ n > L
    BY <2>3
  <2> QED BY <2>1, <2>2, <2>4
<1> QED BY <1>4, <1>8, <1>10, <1>13, <1>18 DEF Advances, Commits

\* Commitment is what the leader may do.
LEMMA CommitLogs ==
    ASSUME IndexInv, IndexInv', LogInv, SnapshotTerm', NEW s \in Server, NEW match, NEW lg \in Seq(Entry),
           Commits(s, match, lg), Grown(s), last'[s] = last[s] \/ last'[s] = last[s] + 1,
           UNCHANGED lastApplied
    PROVE  CommittedStep /\ CommitIndexStep /\ IndexOrder'
<1>1. PICK n : n = NewCommitIndex(s, match, lg)
  OBVIOUS
<1>2. /\ n \in Nat /\ commitIndex[s] <= n /\ commitIndex' = [commitIndex EXCEPT ![s] = n]
      /\ MoreCommitted
      /\ n <= Len(committed) => committed' = committed
      /\ n > Len(committed) => Len(committed') = n
  BY <1>1, AdvanceMore DEF Commits
<1>3. /\ commitIndex \in [Server -> Nat] /\ lastApplied \in [Server -> Nat] /\ Len(committed) \in Nat
      /\ commitIndex[s] <= Len(committed)
  BY DEF IndexInv, TypeOK, CommitTypeOK, ApplyTypeOK, CommitRecorded
<1>4. commitIndex'[s] = n /\ \A t \in Server : t # s => commitIndex'[t] = commitIndex[t]
  BY <1>2, <1>3
<1>5. n # commitIndex[s] => Advances(s, n) /\ n > commitIndex[s]
  BY <1>1, <1>2, <1>3, CommitAdvances
<1>6. CommitIndexStep
  <2> SUFFICES ASSUME NEW t \in Server
               PROVE  \/ commitIndex'[t] <= commitIndex[t] /\ (state'[t] = Leader => commitIndex'[t] = commitIndex[t])
                      \/ \E k \in Nat : k = commitIndex'[t] /\ k > commitIndex[t] /\ Advances(t, k)
    BY DEF CommitIndexStep
  <2>1. CASE t = s /\ n # commitIndex[s]
    BY <1>2, <1>4, <1>5, <2>1
  <2>2. CASE ~(t = s /\ n # commitIndex[s])
    BY <1>3, <1>4, <2>2
  <2> QED BY <2>1, <2>2
<1>7. CommittedStep
  <2>1. CASE n <= Len(committed)
    BY <1>2, <2>1 DEF CommittedStep
  <2>2. CASE n > Len(committed)
    <3>1. n # commitIndex[s]
      BY <1>2, <1>3, <2>2
    <3> QED BY <1>2, <1>5, <2>2, <3>1 DEF CommittedStep, MoreCommitted
  <2> QED BY <1>2, <1>3, <2>1, <2>2
<1>8. IndexOrder'
  <2>1. \A t \in Server : lastApplied[t] <= commitIndex[t]
    BY DEF LogInv, CommitKnown
  <2>2. \A t \in Server : lastApplied[t] <= commitIndex'[t]
    BY <1>2, <1>3, <1>4, <2>1
  <2> QED BY <2>2 DEF IndexOrder, IndexInv, CompactedApplied
<1> QED BY <1>6, <1>7, <1>8

\* The leader's log with one more entry.
LEMMA LongerLog ==
    ASSUME IndexInv, IndexInv', LogInv, SnapshotTerm', MoreCommitted, NEW s \in Server, NEW e \in Entry,
           log'[s] = Append(log[s], e), lastIncludedIndex'[s] = lastIncludedIndex[s],
           e.term = currentTerm[s]
    PROVE  /\ last'[s] = last[s] + 1 /\ Grown(s)
           /\ Extended(NodeFrag(s)', NodeFrag(s), currentTerm[s])
<1>1. FullOK(s)' /\ FullOK(s)
  BY LogsFull, LogsFullNext DEF LogInv, AllFull
<1>2. PICK b \in Nat : b = lastIncludedIndex[s] /\ b = lastIncludedIndex'[s]
  BY <1>1 DEF FullOK
<1>3. PICK n \in Nat : n = last[s]
  BY <1>1 DEF FullOK
<1>4. log[s] \in Seq(Entry)
  BY DEF IndexInv, TypeOK, LogTypeOK
<1>5. PICK l \in Nat : l = Len(log[s])
  BY <1>4
<1>6. /\ Len(log'[s]) = l + 1 /\ log'[s][l + 1] = e
      /\ \A k \in 1 .. l : log'[s][k] = log[s][k]
  BY <1>4, <1>5, AppendProperties
<1>7. n = b + l
  BY <1>1, <1>2, <1>3, <1>5 DEF FullOK, LastLogIndex
<1>8. last'[s] = n + 1
  <2>1. last'[s] = b + (l + 1)
    BY <1>1, <1>2, <1>6 DEF FullOK, LastLogIndex
  <2> QED BY <1>7, <2>1
<1>9. \A k \in 1 .. n : full'[s][k] = full[s][k]
  <2> SUFFICES ASSUME NEW k \in 1 .. n PROVE full'[s][k] = full[s][k]
    OBVIOUS
  <2>1. k \in 1 .. last[s] /\ k \in 1 .. last'[s]
    BY <1>3, <1>8
  <2>2. CASE k <= b
    <3>1. full'[s][k] = committed'[k] /\ full[s][k] = committed[k]
      BY <1>1, <1>2, <2>1, <2>2 DEF FullOK
    <3>2. b <= Len(committed) /\ Len(committed) \in Nat
      BY <1>1, <1>2 DEF FullOK, MoreCommitted
    <3>3. k \in 1 .. Len(committed)
      BY <2>2, <3>2
    <3> QED BY <3>1, <3>3 DEF MoreCommitted
  <2>3. CASE k > b
    <3>1. k \in b + 1 .. n /\ k \in b + 1 .. n + 1 /\ k - b \in 1 .. l
      BY <1>7, <2>3
    <3>2. full[s][k] = log[s][k - b]
      BY <1>1, <1>2, <1>3, <3>1 DEF FullOK
    <3>3. full'[s][k] = log'[s][k - b]
      BY <1>1, <1>2, <1>8, <3>1 DEF FullOK
    <3> QED BY <1>6, <3>1, <3>2, <3>3
  <2> QED BY <2>2, <2>3
<1>10. full'[s][n + 1] = e
  <2>1. n + 1 \in b + 1 .. n + 1 /\ (n + 1) - b = l + 1
    BY <1>7
  <2>2. full'[s][n + 1] = log'[s][(n + 1) - b]
    BY <1>1, <1>2, <1>8, <2>1 DEF FullOK
  <2> QED BY <1>6, <2>1, <2>2
<1>11. Grown(s)
  BY <1>3, <1>8, <1>9 DEF Grown
<1>12. \A k \in 1 .. n : full[s][k].term <= currentTerm[s]
  BY <1>3 DEF LogInv, TermsBounded
<1>13. Extended(NodeFrag(s)', NodeFrag(s), currentTerm[s])
  <2>1. PICK r : r = NodeFrag(s)'
    OBVIOUS
  <2>2. r.base = 0 /\ r.trm = 0 /\ r.top = n + 1 /\ r.at = full'[s]
    BY <1>8, <2>1, FragsAreNext
  <2>3. /\ NodeFrag(s).base = 0 /\ NodeFrag(s).trm = 0
        /\ NodeFrag(s).top = n /\ NodeFrag(s).at = full[s]
    BY <1>3, FragsAre
  <2>4. Extended(r, NodeFrag(s), currentTerm[s])
    BY <1>9, <1>10, <1>12, <2>2, <2>3 DEF Extended
  <2> QED BY <2>1, <2>4
<1> QED BY <1>3, <1>8, <1>11, <1>13

\* Propose.
LEMMA ProposeLogs ==
    ASSUME IndexInv, IndexInv', Step, LogInv, NEW s \in Server, NEW c \in Command, Propose(s, c)
    PROVE  LogStep
<1>1. PICK e : e = [term |-> currentTerm[s], command |-> c]
  OBVIOUS
<1>2. PICK lg : lg = Append(log[s], e)
  OBVIOUS
<1>3. /\ state[s] = Leader /\ log' = [log EXCEPT ![s] = lg]
      /\ UNCHANGED <<state, currentTerm, lastIncludedIndex, lastIncludedTerm>>
      /\ advanceCommitIndex(s, matchIndex[s], lg)
      /\ UNCHANGED lastApplied /\ UNCHANGED <<nextIndex, matchIndex>> /\ UNCHANGED votes /\ UNCHANGED rpcs
  BY <1>1, <1>2 DEF Propose, termVars, applyVars, leaderVars, electionVars
<1>4. TypeOK
  BY DEF IndexInv
<1>5. e \in Entry /\ e.term = currentTerm[s]
  BY <1>1, <1>4 DEF TypeOK, TermTypeOK, Entry
<1>6. log \in [Server -> Seq(Entry)] /\ matchIndex \in [Server -> [Server -> Nat]]
  BY <1>4 DEF TypeOK, LogTypeOK, LeaderTypeOK
<1>7. lg \in Seq(Entry)
  BY <1>2, <1>5, <1>6, AppendProperties
<1>8. log'[s] = lg /\ \A t \in Server : t # s => log'[t] = log[t]
  BY <1>3, <1>6
<1>9. MoreCommitted
  BY <1>3, <1>7, AdvanceMore
<1>10. SnapshotTerm'
  BY <1>3, <1>9, SnapshotTermKept
<1>11. /\ last'[s] = last[s] + 1 /\ Grown(s)
       /\ Extended(NodeFrag(s)', NodeFrag(s), currentTerm[s])
  BY <1>2, <1>3, <1>5, <1>8, <1>9, <1>10, LongerLog
<1>12. Commits(s, matchIndex[s], lg)
  <2>1. \A v \in Server : matchIndex[s][v] \in Nat
    BY <1>6
  <2>2. \A v \in Server : \A k \in Nat \ {0} : v # s /\ k <= matchIndex[s][v] => Acked(v, s, k)
    BY DEF Acked
  <2> QED BY <1>3, <1>8, <2>1, <2>2 DEF Commits
<1>13. CommittedStep /\ CommitIndexStep /\ IndexOrder'
  BY <1>3, <1>7, <1>10, <1>11, <1>12, CommitLogs
<1>14. \A t \in Server : t # s => Kept(t)
  BY <1>3, <1>8, <1>9, KeptLog
<1>15. LogsStep
  <2>1. Proposes(s)
    BY <1>3, <1>11 DEF Proposes
  <2> QED BY <1>14, <2>1 DEF LogsStep, LogStepOf
<1>16. RoleStep
  BY <1>3, QuietRoles
<1>17. SendStep /\ AnswerStep /\ ClaimStep
  BY <1>3, QuietCalls, QuietAnswers, QuietClaims
<1>18. IndexStep
  BY <1>3, QuietIndex
<1> QED BY <1>10, <1>13, <1>15, <1>16, <1>17, <1>18 DEF LogStep

\* The leader counts the reply m, and commits what match says then.
LEMMA CountLogs ==
    ASSUME IndexInv, IndexInv', Step, LogInv, NEW s \in Server, NEW match, NEW m \in rpcs,
           Commits(s, match, log[s]), Counts(m, s, m.src), m.dst = s, m.type \in ReplyType,
           UNCHANGED <<log, lastApplied, votes>>, rpcs' = rpcs \ {m},
           \A t, p \in Server : t # s \/ p # m.src =>
               nextIndex'[t][p] = nextIndex[t][p] /\ matchIndex'[t][p] = matchIndex[t][p]
    PROVE  LogStep
<1>1. /\ UNCHANGED <<state, currentTerm, lastIncludedIndex, lastIncludedTerm>>
      /\ advanceCommitIndex(s, match, log[s])
  BY DEF Commits
<1>2. log[s] \in Seq(Entry) /\ last[s] \in Nat
  BY LogsFull DEF IndexInv, TypeOK, LogTypeOK, LogInv, AllFull, FullOK
<1>3. MoreCommitted
  BY <1>1, <1>2, AdvanceMore
<1>4. SnapshotTerm'
  BY <1>1, <1>3, SnapshotTermKept
<1>5. \A t \in Server : Kept(t)
  BY <1>1, <1>3, KeptLog
<1>6. LogsStep
  BY <1>5 DEF LogsStep, LogStepOf
<1>7. Grown(s) /\ last'[s] = last[s]
  BY <1>2, <1>5 DEF Kept, Grown
<1>8. CommittedStep /\ CommitIndexStep /\ IndexOrder'
  BY <1>2, <1>4, <1>7, CommitLogs
<1>9. RoleStep
  BY <1>1, QuietRoles
<1>10. SendStep /\ AnswerStep /\ ClaimStep
  BY QuietCalls, QuietAnswers, QuietClaims
<1>11. IndexStep
  <2> SUFFICES ASSUME NEW t \in Server, NEW p \in Server
               PROVE  \/ /\ nextIndex'[t][p] = nextIndex[t][p] /\ matchIndex'[t][p] = matchIndex[t][p]
                         /\ \A r \in rpcs : r.dst = t /\ r.src = p => r \in rpcs'
                      \/ \E r \in rpcs : Counts(r, t, p) /\ r \notin rpcs'
    BY DEF IndexStep
  <2>1. CASE t = s /\ p = m.src
    BY <2>1
  <2>2. CASE t # s \/ p # m.src
    BY <2>2
  <2> QED BY <2>1, <2>2
<1> QED BY <1>4, <1>6, <1>8, <1>9, <1>10, <1>11 DEF LogStep

\* The fields of a reply that is counted.
LEMMA CountedReply ==
    ASSUME IndexInv, NEW m \in rpcs, AppendReply(m) \/ SnapshotReply(m)
    PROVE  /\ m.src \in Server /\ m.dst \in Server /\ m.type \in ReplyType
           /\ m.term \in Nat /\ m.reqTerm \in Nat /\ m.term <= m.reqTerm
           /\ state[m.dst] = Leader /\ m.reqTerm = currentTerm[m.dst] /\ rpcs' = rpcs \ {m}
           /\ UNCHANGED <<state, currentTerm, log, lastIncludedIndex, lastIncludedTerm, lastApplied, votes>>
<1>1. /\ m.type \in ReplyType /\ m.term <= currentTerm[m.dst]
      /\ state[m.dst] = Leader /\ currentTerm[m.dst] = m.reqTerm
  BY DEF AppendReply, SnapshotReply, StillIn, ReplyType
<1>2. rpcs' = rpcs \ {m}
  BY FinishRpcs DEF AppendReply, SnapshotReply
<1>3. UNCHANGED <<state, currentTerm, log, lastIncludedIndex, lastIncludedTerm, lastApplied, votes>>
  BY DEF AppendReply, SnapshotReply, termVars, logVars, applyVars, electionVars
<1>4. /\ m.src \in Server /\ m.dst \in Server /\ m.term \in Nat /\ m.reqTerm \in Nat
  BY <1>1, CallTypes DEF IndexInv, TypeOK, ReplyType
<1> QED BY <1>1, <1>2, <1>3, <1>4

\* AppendReply.
LEMMA AppendReplyLogs ==
    ASSUME IndexInv, IndexInv', Step, LogInv, NEW m \in rpcs, AppendReply(m)
    PROVE  LogStep
<1>1. PICK s \in Server : s = m.dst
  BY CountedReply
<1>2. PICK p \in Server : p = m.src
  BY CountedReply
<1>3. /\ m.type \in ReplyType /\ m.term <= m.reqTerm
      /\ state[s] = Leader /\ m.reqTerm = currentTerm[s] /\ rpcs' = rpcs \ {m}
      /\ UNCHANGED <<state, currentTerm, log, lastIncludedIndex, lastIncludedTerm, lastApplied, votes>>
  BY <1>1, CountedReply
<1>4. m.type = "AppendReply" /\ m.newMatch \in Nat /\ m.success \in BOOLEAN
  BY CallTypes DEF AppendReply, IndexInv, TypeOK
<1>5. nextIndex \in [Server -> [Server -> Nat \ {0}]] /\ matchIndex \in [Server -> [Server -> Nat]]
  BY DEF IndexInv, TypeOK, LeaderTypeOK
<1>6. CASE m.success
  <2>1. PICK y : y = IF m.newMatch > matchIndex[s][p] THEN m.newMatch ELSE matchIndex[s][p]
    OBVIOUS
  <2>2. PICK match : match = [matchIndex[s] EXCEPT ![p] = y]
    OBVIOUS
  <2>3. /\ matchIndex' = [matchIndex EXCEPT ![s] = match]
        /\ nextIndex' = [nextIndex EXCEPT ![s][p] = m.newMatch + 1]
        /\ advanceCommitIndex(s, match, log[s])
    BY <1>1, <1>2, <1>6, <2>1, <2>2 DEF AppendReply
  <2>4. y \in Nat /\ matchIndex[s][p] \in Nat
    BY <1>4, <1>5, <2>1
  <2>5. \A t, q \in Server : matchIndex'[t][q] = IF t = s /\ q = p THEN y ELSE matchIndex[t][q]
    BY <1>5, <2>2, <2>3
  <2>6. \A t, q \in Server : nextIndex'[t][q] = IF t = s /\ q = p THEN m.newMatch + 1 ELSE nextIndex[t][q]
    BY <1>5, <2>3
  <2>7. matchIndex'[s] = match /\ \A v \in Server : match[v] = IF v = p THEN y ELSE matchIndex[s][v]
    BY <1>5, <2>2, <2>3
  <2>8. Counts(m, s, p)
    BY <1>1, <1>2, <1>3, <1>4, <1>6, <2>1, <2>5, <2>6 DEF Counts
  <2>9. Commits(s, match, log[s])
    <3>1. \A v \in Server : match[v] \in Nat
      BY <1>5, <2>4, <2>7
    <3>2. ASSUME NEW v \in Server, NEW k \in Nat \ {0}, v # s, k <= match[v]
          PROVE  Acked(v, s, k)
      <4>1. CASE k <= matchIndex[s][v]
        BY <3>2, <4>1 DEF Acked
      <4>2. CASE v = p /\ k <= m.newMatch
        <5>1. AckReply(m, s, k)
          BY <1>1, <1>3, <1>4, <1>6, <4>2 DEF AckReply
        <5> QED BY <1>2, <3>2, <4>2, <5>1 DEF Acked
      <4> QED BY <2>1, <2>7, <3>2, <4>1, <4>2
    <3> QED BY <1>3, <2>3, <2>7, <3>1, <3>2 DEF Commits
  <2> QED BY <1>1, <1>2, <1>3, <2>5, <2>6, <2>8, <2>9, CountLogs
<1>7. CASE ~m.success
  <2>1. /\ nextIndex' = [nextIndex EXCEPT ![s][p] = BackOff(nextIndex[s][p])]
        /\ UNCHANGED <<matchIndex, committed, commitIndex>>
    BY <1>1, <1>2, <1>7 DEF AppendReply, commitVars
  <2>2. LogsStep /\ CommittedStep /\ SnapshotTerm'
    BY <1>3, <2>1, QuietLogs
  <2>3. CommitIndexStep /\ IndexOrder'
    BY <1>3, <2>1, QuietCommit
  <2>4. RoleStep
    BY <1>3, QuietRoles
  <2>5. SendStep /\ AnswerStep /\ ClaimStep
    BY <1>3, QuietCalls, QuietAnswers, QuietClaims
  <2>6. IndexStep
    <3> SUFFICES ASSUME NEW t \in Server, NEW q \in Server
                 PROVE  \/ /\ nextIndex'[t][q] = nextIndex[t][q] /\ matchIndex'[t][q] = matchIndex[t][q]
                           /\ \A r \in rpcs : r.dst = t /\ r.src = q => r \in rpcs'
                        \/ \E r \in rpcs : Counts(r, t, q) /\ r \notin rpcs'
      BY DEF IndexStep
    <3>0. nextIndex'[t][q] = IF t = s /\ q = p THEN BackOff(nextIndex[s][p]) ELSE nextIndex[t][q]
      BY <1>5, <2>1
    <3>1. CASE t = s /\ q = p
      <4>1. Counts(m, s, p)
        BY <1>1, <1>2, <1>3, <1>4, <1>7, <2>1, <3>0, <3>1 DEF Counts
      <4> QED BY <1>3, <3>1, <4>1
    <3>2. CASE t # s \/ q # p
      BY <1>1, <1>2, <1>3, <2>1, <3>0, <3>2
    <3> QED BY <3>1, <3>2
  <2> QED BY <2>2, <2>3, <2>4, <2>5, <2>6 DEF LogStep
<1> QED BY <1>6, <1>7

\* SnapshotReply.
LEMMA SnapshotReplyLogs ==
    ASSUME IndexInv, IndexInv', Step, LogInv, NEW m \in rpcs, SnapshotReply(m)
    PROVE  LogStep
<1>1. PICK s \in Server : s = m.dst
  BY CountedReply
<1>2. PICK p \in Server : p = m.src
  BY CountedReply
<1>3. /\ m.type \in ReplyType /\ m.term <= m.reqTerm
      /\ state[s] = Leader /\ m.reqTerm = currentTerm[s] /\ rpcs' = rpcs \ {m}
      /\ UNCHANGED <<state, currentTerm, log, lastIncludedIndex, lastIncludedTerm, lastApplied, votes>>
  BY <1>1, CountedReply
<1>4. m.type = "SnapshotReply" /\ m.lastIncludedIndex \in Nat
  BY CallTypes DEF SnapshotReply, IndexInv, TypeOK
<1>5. nextIndex \in [Server -> [Server -> Nat \ {0}]] /\ matchIndex \in [Server -> [Server -> Nat]]
  BY DEF IndexInv, TypeOK, LeaderTypeOK
<1>6. PICK i \in Nat : i = m.lastIncludedIndex
  BY <1>4
<1>7. PICK y : y = IF matchIndex[s][p] < i THEN i ELSE matchIndex[s][p]
  OBVIOUS
<1>8. PICK match : match = [matchIndex[s] EXCEPT ![p] = y]
  OBVIOUS
<1>9. /\ matchIndex' = [matchIndex EXCEPT ![s] = match]
      /\ nextIndex' = [nextIndex EXCEPT ![s][p] = Resume(nextIndex[s][p], i)]
      /\ advanceCommitIndex(s, match, log[s])
  BY <1>1, <1>2, <1>6, <1>7, <1>8 DEF SnapshotReply, AtLeast
<1>10. y \in Nat /\ matchIndex[s][p] \in Nat
  BY <1>5, <1>7
<1>11. \A t, q \in Server : matchIndex'[t][q] = IF t = s /\ q = p THEN y ELSE matchIndex[t][q]
  BY <1>5, <1>8, <1>9
<1>12. \A t, q \in Server : nextIndex'[t][q] = IF t = s /\ q = p THEN Resume(nextIndex[s][p], i)
                                               ELSE nextIndex[t][q]
  BY <1>5, <1>9
<1>13. matchIndex'[s] = match /\ \A v \in Server : match[v] = IF v = p THEN y ELSE matchIndex[s][v]
  BY <1>5, <1>8, <1>9
<1>14. Counts(m, s, p)
  <2>1. y = IF i > matchIndex[s][p] THEN i ELSE matchIndex[s][p]
    BY <1>7, <1>10
  <2> QED BY <1>1, <1>2, <1>3, <1>4, <1>6, <1>11, <1>12, <2>1 DEF Counts
<1>15. Commits(s, match, log[s])
  <2>1. \A v \in Server : match[v] \in Nat
    BY <1>5, <1>10, <1>13
  <2>2. ASSUME NEW v \in Server, NEW k \in Nat \ {0}, v # s, k <= match[v]
        PROVE  Acked(v, s, k)
    <3>1. CASE k <= matchIndex[s][v]
      BY <2>2, <3>1 DEF Acked
    <3>2. CASE v = p /\ k <= i
      <4>1. AckReply(m, s, k)
        BY <1>1, <1>3, <1>4, <1>6, <3>2 DEF AckReply
      <4> QED BY <1>2, <2>2, <3>2, <4>1 DEF Acked
    <3> QED BY <1>7, <1>13, <2>2, <3>1, <3>2
  <2> QED BY <1>3, <1>9, <1>13, <2>1, <2>2 DEF Commits
<1> QED BY <1>1, <1>2, <1>3, <1>11, <1>12, <1>14, <1>15, CountLogs

(***************************************************************************)
(* Calls that are handled.                                                 *)
(***************************************************************************)

\* A handler takes its call from the network and leaves the reply r there,
\* unless the caller has died.
LEMMA HandlerCalls ==
    ASSUME NEW m \in rpcs, NEW r, Reply(m, r), m.type \in CallType, r.type \in ReplyType,
           UNCHANGED <<nextIndex, matchIndex>>, UNCHANGED votes
    PROVE  /\ SendStep /\ ClaimStep /\ IndexStep /\ m \notin rpcs'
           /\ m.epoch = epoch[m.src] => r \in rpcs'
           /\ \A q \in rpcs' : q \in rpcs \/ (q = r /\ m.epoch = epoch[m.src])
<1>1. rpcs' = (rpcs \ {m}) \cup (IF m.epoch = epoch[m.src] THEN {r} ELSE {})
  BY DEF Reply
<1>2. /\ m.type \notin ReplyType /\ m.type # "VoteReply"
      /\ r.type \notin CallType /\ r.type # "VoteReply"
  BY DEF CallType, ReplyType
<1>3. /\ m.epoch = epoch[m.src] => r \in rpcs'
      /\ \A q \in rpcs' : q \in rpcs \/ (q = r /\ m.epoch = epoch[m.src])
      /\ \A q \in rpcs : q # m => q \in rpcs'
  BY <1>1
<1>4. m \notin rpcs'
  BY <1>1, <1>2
<1>5. SendStep
  BY <1>2, <1>3, QuietCalls
<1>6. ClaimStep
  BY <1>2, <1>3, QuietClaims
<1>7. IndexStep
  BY <1>2, <1>3, QuietIndex
<1> QED BY <1>3, <1>4, <1>5, <1>6, <1>7

\* w, of length n, is the first x of q continued with es.
IsContinued(w, q, es, x, n) ==
    /\ q \in Seq(Entry) /\ es \in Seq(Entry) /\ x \in 0 .. Len(q) /\ n = x + Len(es)
    /\ w = SubSeq(q, 1, x) \o es

\* What is at which place then.
IsPlaced(w, q, es, x, n) ==
    /\ Len(w) = n
    /\ \A k \in 1 .. x : w[k] = q[k]
    /\ \A k \in x + 1 .. n : w[k] = es[k - x]

\* Continuing a log puts its own entries first and the others after them.
LEMMA ContinuedAt ==
    ASSUME NEW x \in Nat, NEW n \in Nat, NEW w, NEW q, NEW es, IsContinued(w, q, es, x, n)
    PROVE  IsPlaced(w, q, es, x, n)
<1>0. /\ q \in Seq(Entry) /\ es \in Seq(Entry) /\ x \in 0 .. Len(q)
      /\ w = SubSeq(q, 1, x) \o es
  BY DEF IsContinued
<1>1. PICK l \in Nat : l = Len(es) /\ n = x + l
  BY DEF IsContinued
<1>2. PICK z \in Nat : z = x
  BY <1>0
<1>3. PICK v : v = SubSeq(q, 1, x)
  OBVIOUS
<1>4. /\ v \in Seq(Entry) /\ Len(v) = z /\ \A k \in 1 .. z : v[k] = q[k]
  <2>1. \A i \in 1 .. x : q[i] \in Entry
    BY <1>0
  <2>2. /\ v \in Seq(Entry) /\ Len(v) = (IF 1 <= x THEN x - 1 + 1 ELSE 0)
        /\ \A i \in 1 .. x - 1 + 1 : v[i] = q[1 + i - 1]
    BY <1>0, <1>3, <2>1, SubSeqProperties
  <2>3. (IF 1 <= x THEN x - 1 + 1 ELSE 0) = x /\ x - 1 + 1 = x /\ \A i \in 1 .. x : 1 + i - 1 = i
    BY <1>0
  <2> QED BY <1>2, <2>2, <2>3
<1>5. /\ Len(w) = Len(v) + Len(es)
      /\ \A i \in 1 .. Len(v) + Len(es) : w[i] = IF i <= Len(v) THEN v[i] ELSE es[i - Len(v)]
  BY <1>0, <1>3, <1>4, ConcatProperties
<1>6. Len(w) = z + l /\ \A i \in 1 .. z + l : w[i] = IF i <= z THEN v[i] ELSE es[i - z]
  BY <1>1, <1>4, <1>5
<1>7. /\ \A k \in 1 .. z : k \in 1 .. z + l /\ k <= z
      /\ \A k \in z + 1 .. z + l : k \in 1 .. z + l /\ ~(k <= z)
  OBVIOUS
<1>8. \A k \in 1 .. z : w[k] = q[k]
  BY <1>4, <1>6, <1>7
<1>9. \A k \in z + 1 .. z + l : w[k] = es[k - z]
  BY <1>6, <1>7
<1> QED BY <1>1, <1>2, <1>6, <1>8, <1>9 DEF IsPlaced

\* The peer's log is cut after prevLogIndex and continued with the entries.
Overwrites(m) ==
    /\ m \in Appends /\ UNCHANGED committed /\ Consistent(m)
    /\ lastIncludedIndex[m.dst] <= m.prevLogIndex /\ m.prevLogIndex <= last[m.dst]
    /\ lastIncludedIndex'[m.dst] = lastIncludedIndex[m.dst]
    /\ log'[m.dst] = Overwrite(m.dst, m.prevLogIndex, m.entries)

\* It is then spliced of the two.
LEMMA OverwrittenLog ==
    ASSUME IndexInv, IndexInv', LogInv, SnapshotTerm', NEW m, Overwrites(m)
    PROVE  last'[m.dst] = Top(m) /\ Spliced(NodeFrag(m.dst)', NodeFrag(m.dst), CallFrag(m))
<1>1. /\ m.dst \in Server /\ m.prevLogIndex \in Nat /\ m.entries \in Seq(Entry) /\ Len(m.entries) \in Nat
  BY CallsAre, CallTypes DEF Overwrites, IndexInv
<1>2. PICK s \in Server : s = m.dst
  BY <1>1
<1>3. PICK y \in Nat : y = m.prevLogIndex
  BY <1>1
<1>4. FullOK(s)' /\ FullOK(s)
  BY LogsFull, LogsFullNext DEF LogInv, AllFull
<1>5. PICK b \in Nat : b = lastIncludedIndex[s] /\ b = lastIncludedIndex'[s]
  BY <1>2, <1>4 DEF FullOK, Overwrites
<1>6. PICK n \in Nat : n = last[s]
  BY <1>4 DEF FullOK
<1>7. log[s] \in Seq(Entry)
  BY DEF IndexInv, TypeOK, LogTypeOK
<1>8. PICK l \in Nat : l = Len(log[s])
  BY <1>7
<1>9. PICK e \in Nat : e = Len(m.entries)
  BY <1>1
<1>10. n = b + l /\ b <= y /\ y <= n
  <2>1. last[s] = lastIncludedIndex[s] + Len(log[s])
    BY <1>4 DEF FullOK, LastLogIndex
  <2>2. lastIncludedIndex[s] <= y /\ y <= last[s]
    BY <1>2, <1>3 DEF Overwrites
  <2> QED BY <1>5, <1>6, <1>8, <2>1, <2>2
<1>11. PICK x \in Nat : x = y - b
  BY <1>10
<1>12. x \in 0 .. l /\ y = x + b
  BY <1>10, <1>11
<1>13. log'[s] = SubSeq(log[s], 1, x) \o m.entries
  BY <1>2, <1>3, <1>5, <1>11 DEF Overwrites, Overwrite, physicalIndex
<1>14. /\ Len(log'[s]) = x + e
       /\ \A k \in 1 .. x : log'[s][k] = log[s][k]
       /\ \A k \in x + 1 .. x + e : log'[s][k] = m.entries[k - x]
  <2>1. IsContinued(log'[s], log[s], m.entries, x, x + e)
    BY <1>1, <1>7, <1>8, <1>9, <1>12, <1>13 DEF IsContinued
  <2>2. IsPlaced(log'[s], log[s], m.entries, x, x + e)
    <3>1. x + e \in Nat
      OBVIOUS
    <3> QED BY <2>1, <3>1, ContinuedAt, Zenon
  <2> QED BY <2>2 DEF IsPlaced
<1>15. Top(m) = y + e
  BY <1>3, <1>9 DEF Top
<1>16. last'[s] = y + e
  <2>1. last'[s] = b + (x + e)
    BY <1>4, <1>5, <1>14 DEF FullOK, LastLogIndex
  <2> QED BY <1>12, <2>1
<1>17. \A k \in 1 .. y : full'[s][k] = full[s][k]
  <2> SUFFICES ASSUME NEW k \in 1 .. y PROVE full'[s][k] = full[s][k]
    OBVIOUS
  <2>1. k \in 1 .. n /\ k \in 1 .. y + e
    BY <1>10
  <2>2. CASE k <= b
    <3>1. full'[s][k] = committed'[k] /\ full[s][k] = committed[k]
      BY <1>4, <1>5, <1>6, <1>16, <2>1, <2>2 DEF FullOK
    <3> QED BY <3>1 DEF Overwrites
  <2>3. CASE k > b
    <3>1. k \in b + 1 .. n /\ k \in b + 1 .. y + e /\ k - b \in 1 .. x
      BY <1>10, <1>12, <2>3
    <3>2. full[s][k] = log[s][k - b]
      BY <1>4, <1>5, <1>6, <3>1 DEF FullOK
    <3>3. full'[s][k] = log'[s][k - b]
      BY <1>4, <1>5, <1>16, <3>1 DEF FullOK
    <3> QED BY <1>14, <3>1, <3>2, <3>3
  <2> QED BY <2>2, <2>3
<1>18. \A k \in y + 1 .. y + e : full'[s][k] = m.entries[k - y]
  <2> SUFFICES ASSUME NEW k \in y + 1 .. y + e PROVE full'[s][k] = m.entries[k - y]
    OBVIOUS
  <2>1. k \in b + 1 .. y + e /\ k - b \in x + 1 .. x + e /\ (k - b) - x = k - y
    BY <1>12
  <2>2. full'[s][k] = log'[s][k - b]
    BY <1>4, <1>5, <1>16, <2>1 DEF FullOK
  <2> QED BY <1>14, <2>1, <2>2
<1>19. PICK r : r = NodeFrag(s)'
  OBVIOUS
<1>20. r.base = 0 /\ r.trm = 0 /\ r.top = y + e /\ r.at = full'[s]
  BY <1>16, <1>19, FragsAreNext
<1>21. /\ NodeFrag(s).base = 0 /\ NodeFrag(s).trm = 0 /\ NodeFrag(s).top = n /\ NodeFrag(s).at = full[s]
  BY <1>6, FragsAre
<1>22. /\ CallFrag(m).base = y /\ CallFrag(m).trm = m.prevLogTerm /\ CallFrag(m).top = y + e
       /\ \A k \in y + 1 .. y + e : CallFrag(m).at[k] = m.entries[k - y]
  BY <1>3, <1>15, CallFragIs
<1>23. y > 0 => full[s][y].term = m.prevLogTerm
  BY <1>2, <1>3 DEF Overwrites, Consistent
<1>24. Spliced(r, NodeFrag(s), CallFrag(m))
  BY <1>10, <1>17, <1>18, <1>20, <1>21, <1>22, <1>23 DEF Spliced
<1> QED BY <1>2, <1>15, <1>16, <1>19, <1>24

\* AppendEntries' consistency check, seen on the whole log: what the peer has
\* compacted it has committed, and no call of its term reaches below that.
LEMMA CheckIs ==
    ASSUME IndexInv, LogInv, NEW m \in Appends, currentTerm[m.dst] <= m.term
    PROVE  /\ lastIncludedIndex[m.dst] <= m.prevLogIndex
           /\ LogConsistent(m.dst, m.prevLogIndex, m.prevLogTerm) <=> Consistent(m)
<1>1. m.dst \in Server /\ m.prevLogIndex \in Nat
  BY CallsAre, CallTypes DEF IndexInv
<1>2. PICK s \in Server : s = m.dst
  BY <1>1
<1>3. PICK y \in Nat : y = m.prevLogIndex
  BY <1>1
<1>4. FullOK(s)
  BY LogsFull DEF LogInv, AllFull
<1>5. PICK b \in Nat : b = lastIncludedIndex[s]
  BY <1>4 DEF FullOK
<1>6. PICK n \in Nat : n = last[s] /\ n = LastLogIndex(s)
  BY <1>4 DEF FullOK
<1>7. b <= y
  <2>1. commitIndex[s] <= y
    BY <1>2, <1>3, PrevAboveCommit DEF IndexInv, LogInv
  <2>2. lastIncludedIndex[s] <= lastApplied[s] /\ lastApplied[s] <= commitIndex[s]
    BY DEF IndexInv, CompactedApplied, LogInv, CommitKnown
  <2>3. commitIndex[s] \in Nat /\ lastApplied[s] \in Nat
    BY DEF IndexInv, TypeOK, CommitTypeOK, ApplyTypeOK
  <2> QED BY <1>5, <2>1, <2>2, <2>3
<1>8. LogConsistent(s, y, m.prevLogTerm) <=> (y > 0 => y <= n /\ full[s][y].term = m.prevLogTerm)
  <2>1. CASE y = 0
    BY <2>1 DEF LogConsistent
  <2>2. CASE y > 0 /\ y > n
    <3>1. ~TermKnown(s, y)
      BY <1>5, <1>6, <2>2 DEF TermKnown
    <3> QED BY <2>2, <3>1 DEF LogConsistent
  <2>3. CASE y > 0 /\ y <= n
    <3>1. TermKnown(s, y)
      BY <1>5, <1>6, <1>7, <2>3 DEF TermKnown
    <3>2. y \in 1 .. last[s]
      BY <1>6, <2>3
    <3>3. TermAt(s, y) = full[s][y].term
      BY <1>4, <3>1, <3>2 DEF FullOK
    <3>4. y # 0
      BY <2>3
    <3>5. LogConsistent(s, y, m.prevLogTerm) <=> full[s][y].term = m.prevLogTerm
      BY <3>1, <3>3, <3>4 DEF LogConsistent
    <3> QED BY <2>3, <3>5
  <2>4. y = 0 \/ (y > 0 /\ y > n) \/ (y > 0 /\ y <= n)
    OBVIOUS
  <2> QED BY <2>1, <2>2, <2>3, <2>4
<1>9. Consistent(m) <=> (y > 0 => y <= n /\ full[s][y].term = m.prevLogTerm)
  BY <1>2, <1>3, <1>6 DEF Consistent
<1>10. LogConsistent(s, y, m.prevLogTerm) <=> Consistent(m)
  BY <1>8, <1>9
<1> QED BY <1>2, <1>3, <1>5, <1>7, <1>10

\* What AppendEntries does, with the parts of a LogStep that are common to all
\* its outcomes.
LEMMA AppendEntriesParts ==
    ASSUME IndexInv, IndexInv', Step, LogInv, NEW m \in rpcs, AppendEntries(m), NEW ok,
           ok = (m.term >= currentTerm[m.dst] /\ LogConsistent(m.dst, m.prevLogIndex, m.prevLogTerm))
    PROVE  /\ m \in Appends /\ m.dst \in Server /\ m.src \in Server
           /\ UNCHANGED <<committed, lastIncludedIndex, lastIncludedTerm, lastApplied>>
           /\ \A t \in Server : t # m.dst => log'[t] = log[t] /\ commitIndex'[t] = commitIndex[t]
           /\ log'[m.dst] = IF ok /\ m.entries # <<>> THEN Overwrite(m.dst, m.prevLogIndex, m.entries)
                            ELSE log[m.dst]
           /\ commitIndex'[m.dst] = FollowerCommit(commitIndex[m.dst], ok, m.leaderCommit,
                                        lastIncludedIndex[m.dst] + Len(log'[m.dst]))
           /\ m.term >= currentTerm[m.dst] =>
                  currentTerm'[m.dst] = m.term /\ state'[m.dst] = Follower
           /\ RoleStep /\ ClaimStep /\ SendStep /\ IndexStep /\ m \notin rpcs'
           /\ \E r : /\ m.epoch = epoch[m.src] => r \in rpcs'
                     /\ \A q \in rpcs' : q \in rpcs \/ (q = r /\ m.epoch = epoch[m.src])
                     /\ r.type = "AppendReply" /\ r.src = m.dst /\ r.dst = m.src /\ r.reqTerm = m.term
                     /\ r.term = currentTerm'[m.dst] /\ r.success = ok /\ r.newMatch = Top(m)
<1>1. /\ m.type = "AppendEntries" /\ m \in Appends /\ m.dst \in Server /\ m.src \in Server /\ m.term \in Nat
  BY CallTypes DEF AppendEntries, Appends, IndexInv, TypeOK
<1>2. PICK s \in Server : s = m.dst
  BY <1>1
<1>3. PICK lg : lg = IF ok /\ m.entries # <<>> THEN Overwrite(s, m.prevLogIndex, m.entries) ELSE log[s]
  OBVIOUS
<1>4. PICK r : r = [type |-> "AppendReply", src |-> s, dst |-> m.src,
                    reqTerm |-> m.term, term |-> currentTerm'[s],
                    success |-> ok, newMatch |-> m.prevLogIndex + Len(m.entries)]
  OBVIOUS
<1>5. /\ IF m.term >= currentTerm[s] THEN becomeFollower(s, m.term) ELSE UNCHANGED termVars
      /\ log' = [log EXCEPT ![s] = lg]
      /\ UNCHANGED <<lastIncludedIndex, lastIncludedTerm>>
      /\ commitIndex' = [commitIndex EXCEPT ![s] =
              FollowerCommit(commitIndex[s], ok, m.leaderCommit, lastIncludedIndex[s] + Len(lg))]
      /\ Reply(m, r)
      /\ UNCHANGED <<applyVars, leaderVars, electionVars, committed>>
  BY <1>2, <1>3, <1>4 DEF AppendEntries
<1>6. /\ state \in [Server -> {Follower, Candidate, Leader}] /\ currentTerm \in [Server -> Nat]
      /\ log \in [Server -> Seq(Entry)] /\ commitIndex \in [Server -> Nat]
  BY DEF IndexInv, TypeOK, TermTypeOK, LogTypeOK, CommitTypeOK
<1>7. log'[s] = lg /\ \A t \in Server : t # s => log'[t] = log[t]
  BY <1>5, <1>6
<1>8. /\ commitIndex'[s] = FollowerCommit(commitIndex[s], ok, m.leaderCommit, lastIncludedIndex[s] + Len(lg))
      /\ \A t \in Server : t # s => commitIndex'[t] = commitIndex[t]
  BY <1>5, <1>6
<1>9. m.term >= currentTerm[s] => currentTerm'[s] = m.term /\ state'[s] = Follower
  <2> SUFFICES ASSUME m.term >= currentTerm[s] PROVE currentTerm'[s] = m.term /\ state'[s] = Follower
    OBVIOUS
  <2>1. /\ state' = [state EXCEPT ![s] = Follower]
        /\ currentTerm' = [currentTerm EXCEPT ![s] = IF m.term > currentTerm[s] THEN m.term ELSE currentTerm[s]]
    BY <1>5 DEF becomeFollower
  <2>2. (IF m.term > currentTerm[s] THEN m.term ELSE currentTerm[s]) = m.term
    BY <1>1, <1>6
  <2> QED BY <1>6, <2>1, <2>2
<1>10. \A t \in Server : state'[t] = Leader => state[t] = Leader
  BY <1>5, <1>6 DEF becomeFollower, termVars, Leader, Follower
<1>11. RoleStep
  BY <1>10, QuietRoles
<1>12. r.type \in ReplyType /\ m.type \in CallType /\ UNCHANGED <<nextIndex, matchIndex>> /\ UNCHANGED votes
  BY <1>1, <1>4, <1>5 DEF leaderVars, electionVars, ReplyType, CallType
<1>13. /\ SendStep /\ ClaimStep /\ IndexStep /\ m \notin rpcs'
       /\ m.epoch = epoch[m.src] => r \in rpcs'
       /\ \A q \in rpcs' : q \in rpcs \/ (q = r /\ m.epoch = epoch[m.src])
  BY <1>5, <1>12, HandlerCalls
<1>14. /\ r.type = "AppendReply" /\ r.src = s /\ r.dst = m.src /\ r.reqTerm = m.term
       /\ r.term = currentTerm'[s] /\ r.success = ok /\ r.newMatch = Top(m)
  BY <1>4 DEF Top
<1>15. UNCHANGED <<committed, lastIncludedIndex, lastIncludedTerm, lastApplied>>
  BY <1>5 DEF applyVars
<1> QED BY <1>1, <1>2, <1>3, <1>7, <1>8, <1>9, <1>11, <1>13, <1>14, <1>15

\* AppendEntries.
LEMMA AppendEntriesLogs ==
    ASSUME IndexInv, IndexInv', Step, LogInv, NEW m \in rpcs, AppendEntries(m)
    PROVE  LogStep
<1>1. PICK ok : ok = (m.term >= currentTerm[m.dst] /\ LogConsistent(m.dst, m.prevLogIndex, m.prevLogTerm))
  OBVIOUS
<1>2. /\ m \in Appends /\ m.dst \in Server /\ m.src \in Server
      /\ UNCHANGED <<committed, lastIncludedIndex, lastIncludedTerm, lastApplied>>
      /\ \A t \in Server : t # m.dst => log'[t] = log[t] /\ commitIndex'[t] = commitIndex[t]
      /\ log'[m.dst] = IF ok /\ m.entries # <<>> THEN Overwrite(m.dst, m.prevLogIndex, m.entries)
                       ELSE log[m.dst]
      /\ commitIndex'[m.dst] = FollowerCommit(commitIndex[m.dst], ok, m.leaderCommit,
                                   lastIncludedIndex[m.dst] + Len(log'[m.dst]))
      /\ m.term >= currentTerm[m.dst] =>
             currentTerm'[m.dst] = m.term /\ state'[m.dst] = Follower
      /\ RoleStep /\ ClaimStep /\ SendStep /\ IndexStep /\ m \notin rpcs'
  BY <1>1, AppendEntriesParts
<1>3. PICK r : /\ m.epoch = epoch[m.src] => r \in rpcs'
               /\ \A q \in rpcs' : q \in rpcs \/ (q = r /\ m.epoch = epoch[m.src])
               /\ r.type = "AppendReply" /\ r.src = m.dst /\ r.dst = m.src /\ r.reqTerm = m.term
               /\ r.term = currentTerm'[m.dst] /\ r.success = ok /\ r.newMatch = Top(m)
  BY <1>1, AppendEntriesParts
<1>4. PICK s \in Server : s = m.dst
  BY <1>2
<1>5. /\ TypeOK /\ m.term \in Nat /\ m.prevLogIndex \in Nat /\ m.leaderCommit \in Nat /\ Top(m) \in Nat
      /\ m.entries = <<>> => m.prevLogIndex = Top(m)
  BY <1>2, CallsAre, CallTypes DEF IndexInv
<1>6. /\ currentTerm[s] \in Nat /\ commitIndex[s] \in Nat /\ \A t \in Server : commitIndex[t] \in Nat
      /\ \A t \in Server : lastApplied[t] \in Nat
  BY <1>5 DEF TypeOK, TermTypeOK, CommitTypeOK, ApplyTypeOK
<1>7. MoreCommitted
  BY <1>2, <1>5 DEF TypeOK, CommitTypeOK, MoreCommitted
<1>8. SnapshotTerm'
  BY <1>2, <1>7, SnapshotTermKept
<1>9. \A t \in Server : t # s => Kept(t)
  BY <1>2, <1>4, <1>7, KeptLog
<1>10. log'[s] = log[s] => Kept(s)
  BY <1>2, <1>7, KeptLog
<1>11. CommittedStep
  BY <1>2 DEF CommittedStep
<1>12. m.term < currentTerm[s] \/ m.term >= currentTerm[s]
  BY <1>5, <1>6
<1>13. ASSUME commitIndex'[s] >= commitIndex[s] PROVE IndexOrder'
  <2>1. \A t \in Server : lastApplied[t] <= commitIndex[t]
    BY DEF LogInv, CommitKnown
  <2>2. commitIndex'[s] \in Nat
    BY DEF IndexInv, TypeOK, CommitTypeOK
  <2>3. \A t \in Server : lastApplied[t] <= commitIndex'[t]
    BY <1>2, <1>4, <1>6, <1>13, <2>1, <2>2
  <2> QED BY <1>2, <2>3 DEF IndexOrder, IndexInv, CompactedApplied
<1>14. CASE ~ok
  <2>1. log'[s] = log[s] /\ commitIndex'[s] = commitIndex[s]
    BY <1>2, <1>4, <1>14 DEF FollowerCommit
  <2>2. \A t \in Server : Kept(t) /\ commitIndex'[t] = commitIndex[t]
    BY <1>2, <1>4, <1>9, <1>10, <2>1
  <2>3. LogsStep
    BY <2>2 DEF LogsStep, LogStepOf
  <2>4. CommitIndexStep
    BY <1>6, <2>2 DEF CommitIndexStep
  <2>5. IndexOrder'
    BY <1>6, <1>13, <2>1
  <2>6. currentTerm[s] <= m.term => Rejects(m)
    <3> SUFFICES ASSUME currentTerm[s] <= m.term PROVE Rejects(m)
      OBVIOUS
    <3>1. m.term >= currentTerm[s]
      BY <1>5, <1>6
    <3>2. ~Consistent(m)
      BY <1>1, <1>2, <1>4, <1>14, <3>1, CheckIs
    <3>3. Handled(m)
      BY <1>2, <1>4, <3>1 DEF Handled
    <3> QED BY <1>2, <1>4, <2>1, <2>2, <3>2, <3>3 DEF Rejects
  <2>7. AnswerStep
    <3> SUFFICES ASSUME NEW q \in rpcs', q.type \in ReplyType, q \notin rpcs
                 PROVE  /\ q.type = "AppendReply" => \E k \in Appends :
                              /\ Answers(q, k) /\ q.newMatch = Top(k)
                              /\ q.success => Accepts(k)
                              /\ ~q.success /\ currentTerm[k.dst] <= k.term => Rejects(k)
                        /\ q.type # "SnapshotReply"
      BY DEF AnswerStep, ReplyType
    <3>1. q = r /\ m.epoch = epoch[m.src]
      BY <1>3
    <3>2. Answers(q, m) /\ q.newMatch = Top(m) /\ ~q.success /\ q.type # "SnapshotReply"
      BY <1>2, <1>3, <1>14, <3>1 DEF Answers
    <3> QED BY <1>2, <1>4, <2>6, <3>2
  <2> QED BY <1>2, <1>8, <1>11, <2>3, <2>4, <2>5, <2>7 DEF LogStep
<1>15. CASE ok
  <2>1. /\ m.term >= currentTerm[s] /\ currentTerm[s] <= m.term
        /\ LogConsistent(m.dst, m.prevLogIndex, m.prevLogTerm)
    BY <1>1, <1>4, <1>5, <1>6, <1>15
  <2>2. Consistent(m) /\ lastIncludedIndex[s] <= m.prevLogIndex
    BY <1>2, <1>4, <2>1, CheckIs
  <2>3. Handled(m)
    BY <1>2, <1>4, <2>1 DEF Handled
  <2>4. last[s] \in Nat /\ FullOK(s)
    BY LogsFull DEF LogInv, AllFull, FullOK
  <2>5. m.prevLogIndex <= last[s]
    <3>1. CASE m.prevLogIndex = 0
      BY <2>4, <3>1
    <3>2. CASE m.prevLogIndex > 0
      BY <1>4, <2>2, <3>2 DEF Consistent
    <3> QED BY <1>5, <3>1, <3>2
  <2>6. Accepts(m) /\ Top(m) <= last'[s] /\ (m.entries = <<>> => Kept(s))
    <3>1. CASE m.entries = <<>>
      <4>1. Kept(s)
        BY <1>2, <1>4, <1>10, <3>1
      <4>2. Top(m) <= last'[s]
        BY <1>5, <2>5, <3>1, <4>1 DEF Kept
      <4> QED BY <1>2, <1>4, <2>2, <2>3, <3>1, <4>1, <4>2 DEF Accepts
    <3>2. CASE m.entries # <<>>
      <4>1. Overwrites(m)
        BY <1>2, <1>4, <1>15, <2>2, <2>5, <3>2 DEF Overwrites
      <4>2. last'[m.dst] = Top(m) /\ Spliced(NodeFrag(m.dst)', NodeFrag(m.dst), CallFrag(m))
        BY <1>8, <4>1, OverwrittenLog
      <4>3. Top(m) <= last'[s]
        BY <1>4, <1>5, <4>2
      <4>4. Accepts(m)
        BY <1>2, <2>2, <2>3, <3>2, <4>2 DEF Accepts
      <4> QED BY <3>2, <4>3, <4>4
    <3> QED BY <3>1, <3>2
  <2>7. LogsStep
    <3>1. Kept(s) \/ m.entries # <<>>
      BY <2>6
    <3> QED BY <1>2, <1>4, <1>9, <2>6, <3>1 DEF LogsStep, LogStepOf
  <2>8. m.leaderCommit <= Top(m)
    BY <1>2 DEF LogInv, CallsKnown
  <2>9. FullOK(s)'
    BY <1>8, LogsFullNext
  <2>10. PICK z \in Nat : z = last'[s] /\ z = lastIncludedIndex[s] + Len(log'[s])
    BY <1>2, <2>9 DEF FullOK, LastLogIndex
  <2>11. commitIndex'[s] = IF m.leaderCommit > commitIndex[s] THEN m.leaderCommit ELSE commitIndex[s]
    <3>1. commitIndex'[s] = FollowerCommit(commitIndex[s], ok, m.leaderCommit, z)
      BY <1>2, <1>4, <2>10
    <3>2. m.leaderCommit <= z
      BY <1>5, <2>6, <2>8, <2>10
    <3>3. (IF m.leaderCommit < z THEN m.leaderCommit ELSE z) = m.leaderCommit
      BY <1>5, <3>2
    <3> QED BY <1>15, <3>1, <3>3 DEF FollowerCommit
  <2>12. Answered(m)
    <3> SUFFICES ASSUME m.epoch = epoch[m.src]
                 PROVE  \E q \in rpcs' : /\ q.src = m.dst /\ q.dst = m.src /\ q.reqTerm = m.term /\ q.term = m.term
                                         /\ q.type = "AppendReply" /\ q.success /\ q.newMatch = Top(m)
      BY <1>2 DEF Answered, Appends
    <3> QED BY <1>2, <1>3, <1>4, <1>15, <2>1
  <2>13. CommitIndexStep
    <3> SUFFICES ASSUME NEW t \in Server
                 PROVE  \/ /\ commitIndex'[t] <= commitIndex[t]
                           /\ state'[t] = Leader => commitIndex'[t] = commitIndex[t]
                        \/ \E k \in Appends : k.dst = t /\ Accepts(k) /\ Answered(k)
                                              /\ commitIndex'[t] = k.leaderCommit
      BY DEF CommitIndexStep
    <3>1. CASE t # s
      BY <1>2, <1>4, <1>6, <3>1
    <3>2. CASE t = s /\ commitIndex'[s] = commitIndex[s]
      BY <1>6, <3>2
    <3>3. CASE t = s /\ commitIndex'[s] = m.leaderCommit
      BY <1>2, <1>4, <2>6, <2>12, <3>3
    <3> QED BY <2>11, <3>1, <3>2, <3>3
  <2>14. IndexOrder'
    <3>1. commitIndex'[s] >= commitIndex[s]
      BY <1>5, <1>6, <2>11
    <3> QED BY <1>13, <3>1
  <2>15. AnswerStep
    <3> SUFFICES ASSUME NEW q \in rpcs', q.type \in ReplyType, q \notin rpcs
                 PROVE  /\ q.type = "AppendReply" => \E k \in Appends :
                              /\ Answers(q, k) /\ q.newMatch = Top(k)
                              /\ q.success => Accepts(k)
                              /\ ~q.success /\ currentTerm[k.dst] <= k.term => Rejects(k)
                        /\ q.type # "SnapshotReply"
      BY DEF AnswerStep, ReplyType
    <3>1. q = r /\ m.epoch = epoch[m.src]
      BY <1>3
    <3>2. Answers(q, m) /\ q.newMatch = Top(m) /\ q.success /\ q.type # "SnapshotReply"
      BY <1>2, <1>3, <1>15, <3>1 DEF Answers
    <3> QED BY <1>2, <2>6, <3>2
  <2> QED BY <1>2, <1>8, <1>11, <2>7, <2>13, <2>14, <2>15 DEF LogStep
<1> QED BY <1>1, <1>14, <1>15

\* What InstallSnapshot does, with the parts of a LogStep that are common to
\* all its outcomes.
LEMMA InstallSnapshotParts ==
    ASSUME IndexInv, IndexInv', Step, LogInv, NEW m \in rpcs, InstallSnapshot(m)
    PROVE  /\ m \in Installs /\ m.dst \in Server /\ m.src \in Server /\ UNCHANGED committed
           /\ m.term >= currentTerm[m.dst] =>
                  currentTerm'[m.dst] = m.term /\ state'[m.dst] = Follower
           /\ RoleStep /\ ClaimStep /\ SendStep /\ IndexStep /\ m \notin rpcs'
           /\ \E r : /\ m.epoch = epoch[m.src] => r \in rpcs'
                     /\ \A q \in rpcs' : q \in rpcs \/ (q = r /\ m.epoch = epoch[m.src])
                     /\ r.type = "SnapshotReply" /\ r.src = m.dst /\ r.dst = m.src /\ r.reqTerm = m.term
                     /\ r.term = currentTerm'[m.dst] /\ r.lastIncludedIndex = m.lastIncludedIndex
<1>1. /\ m.type = "InstallSnapshot" /\ m \in Installs /\ m.dst \in Server /\ m.src \in Server /\ m.term \in Nat
  BY CallTypes DEF InstallSnapshot, Installs, IndexInv, TypeOK
<1>2. PICK s \in Server : s = m.dst
  BY <1>1
<1>3. PICK r : r = [type |-> "SnapshotReply", src |-> s, dst |-> m.src,
                    reqTerm |-> m.term, term |-> currentTerm'[s],
                    lastIncludedIndex |-> m.lastIncludedIndex]
  OBVIOUS
<1>4. /\ IF m.term >= currentTerm[s] THEN becomeFollower(s, m.term) ELSE UNCHANGED termVars
      /\ Reply(m, r) /\ UNCHANGED <<leaderVars, electionVars, committed>>
  BY <1>2, <1>3 DEF InstallSnapshot
<1>5. state \in [Server -> {Follower, Candidate, Leader}] /\ currentTerm \in [Server -> Nat]
  BY DEF IndexInv, TypeOK, TermTypeOK
<1>6. m.term >= currentTerm[s] => currentTerm'[s] = m.term /\ state'[s] = Follower
  <2> SUFFICES ASSUME m.term >= currentTerm[s] PROVE currentTerm'[s] = m.term /\ state'[s] = Follower
    OBVIOUS
  <2>1. /\ state' = [state EXCEPT ![s] = Follower]
        /\ currentTerm' = [currentTerm EXCEPT ![s] = IF m.term > currentTerm[s] THEN m.term ELSE currentTerm[s]]
    BY <1>4 DEF becomeFollower
  <2>2. (IF m.term > currentTerm[s] THEN m.term ELSE currentTerm[s]) = m.term
    BY <1>1, <1>5
  <2> QED BY <1>5, <2>1, <2>2
<1>7. \A t \in Server : state'[t] = Leader => state[t] = Leader
  BY <1>4, <1>5 DEF becomeFollower, termVars, Leader, Follower
<1>8. RoleStep
  BY <1>7, QuietRoles
<1>9. r.type \in ReplyType /\ m.type \in CallType /\ UNCHANGED <<nextIndex, matchIndex>> /\ UNCHANGED votes
  BY <1>1, <1>3, <1>4 DEF leaderVars, electionVars, ReplyType, CallType
<1>10. /\ SendStep /\ ClaimStep /\ IndexStep /\ m \notin rpcs'
       /\ m.epoch = epoch[m.src] => r \in rpcs'
       /\ \A q \in rpcs' : q \in rpcs \/ (q = r /\ m.epoch = epoch[m.src])
  BY <1>4, <1>9, HandlerCalls
<1>11. /\ r.type = "SnapshotReply" /\ r.src = s /\ r.dst = m.src /\ r.reqTerm = m.term
       /\ r.term = currentTerm'[s] /\ r.lastIncludedIndex = m.lastIncludedIndex
  BY <1>3
<1> QED BY <1>1, <1>2, <1>4, <1>6, <1>8, <1>10, <1>11

\* The peer installs a snapshot that goes beyond its own.
Installed(m) ==
    /\ m \in Installs /\ UNCHANGED committed
    /\ lastIncludedIndex[m.dst] < m.lastIncludedIndex
    /\ m.lastIncludedTerm = committed[m.lastIncludedIndex].term
    /\ log'[m.dst] = LogAfterInstall(m.dst, m)
    /\ lastIncludedIndex'[m.dst] = m.lastIncludedIndex

\* It keeps its log, or has the snapshot instead; either way its log begins
\* with the committed entries that the snapshot stands for.
LEMMA InstalledLog ==
    ASSUME IndexInv, IndexInv', LogInv, SnapshotTerm', NEW m, Installed(m)
    PROVE  /\ Kept(m.dst) \/ Replaces(m)
           /\ m.lastIncludedIndex <= last'[m.dst]
           /\ \A k \in 1 .. m.lastIncludedIndex : full'[m.dst][k] = committed[k]
<1>1. m \in Installs /\ m \in rpcs /\ m.dst \in Server /\ m.lastIncludedIndex \in Nat
  BY CallsAre, CallTypes DEF Installed, IndexInv
<1>2. PICK s \in Server : s = m.dst
  BY <1>1
<1>3. FullOK(s) /\ FullOK(s)'
  BY LogsFull, LogsFullNext DEF LogInv, AllFull
<1>4. PICK b \in Nat : b = lastIncludedIndex[s]
  BY <1>3 DEF FullOK
<1>5. PICK n \in Nat : n = last[s] /\ n = LastLogIndex(s)
  BY <1>3 DEF FullOK
<1>6. PICK L \in Nat : L = Len(committed)
  BY DEF IndexInv, TypeOK, CommitTypeOK
<1>7. PICK i \in Nat : i = m.lastIncludedIndex
  BY <1>1
<1>8. b < i /\ i <= L
  <2>1. m.lastIncludedIndex <= Len(committed)
    BY <1>1, CallsAre DEF IndexInv, CallOK
  <2> QED BY <1>2, <1>4, <1>6, <1>7, <2>1 DEF Installed
<1>9. lastIncludedIndex'[s] = i /\ m.lastIncludedTerm = committed[i].term
  BY <1>2, <1>7 DEF Installed
<1>10. \A k \in 1 .. i : full'[s][k] = committed[k]
  <2> SUFFICES ASSUME NEW k \in 1 .. i PROVE full'[s][k] = committed[k]
    OBVIOUS
  <2>1. k \in 1 .. last'[s] /\ k <= lastIncludedIndex'[s]
    BY <1>3, <1>9 DEF FullOK
  <2>2. full'[s][k] = committed'[k]
    BY <1>3, <2>1 DEF FullOK
  <2> QED BY <2>2 DEF Installed
<1>11. i <= last'[s]
  BY <1>3, <1>9 DEF FullOK
<1>12. CASE i <= n /\ full[s][i].term = committed[i].term
  <2>1. i \in 1 .. n /\ i \in 1 .. L
    BY <1>8, <1>12
  <2>2. TermKnown(s, i) /\ TermAt(s, i) = full[s][i].term
    BY <1>3, <1>4, <1>5, <1>8, <2>1 DEF TermKnown, FullOK
  <2>3. log'[s] = SubSeq(log[s], physicalIndex(s, i) + 1, Len(log[s]))
    BY <1>2, <1>7, <1>9, <1>12, <2>2 DEF Installed, LogAfterInstall
  <2>4. \A k \in 1 .. i : full[s][k] = committed[k]
    <3>1. /\ Match(NodeFrag(s), CommittedFrag)
          /\ NodeFrag(s).base = 0 /\ NodeFrag(s).top = n /\ NodeFrag(s).at = full[s]
          /\ CommittedFrag.base = 0 /\ CommittedFrag.top = L /\ CommittedFrag.at = committed
      BY <1>5, <1>6, FragsAre DEF LogInv, Matched, AllMatch
    <3>2. i \in NodeFrag(s).base + 1 .. NodeFrag(s).top /\ i \in CommittedFrag.base + 1 .. CommittedFrag.top
      BY <2>1, <3>1
    <3>3. NodeFrag(s).at[i].term = CommittedFrag.at[i].term /\ i <= i
      BY <1>12, <3>1
    <3>4. \A k \in CommittedFrag.base + 1 .. i : k > NodeFrag(s).base => NodeFrag(s).at[k] = CommittedFrag.at[k]
      BY <3>1, <3>2, <3>3, MatchAt
    <3> QED BY <3>1, <3>4
  <2>5. CompactsTo(s, i)
    <3>1. lastIncludedIndex[s] <= i /\ i <= last[s] /\ i <= Len(committed)
      BY <1>4, <1>5, <1>6, <1>8, <2>1
    <3> QED BY <1>9, <2>3, <2>4, <3>1 DEF CompactsTo, Installed
  <2>6. Kept(s)
    BY <2>5, CompactedLog
  <2> QED BY <1>2, <1>7, <1>10, <1>11, <2>6
<1>13. CASE ~(i <= n /\ full[s][i].term = committed[i].term)
  <2>1. i <= n => TermKnown(s, i) /\ TermAt(s, i) = full[s][i].term
    <3> SUFFICES ASSUME i <= n PROVE TermKnown(s, i) /\ TermAt(s, i) = full[s][i].term
      OBVIOUS
    <3>1. i \in 1 .. last[s] /\ TermKnown(s, i)
      BY <1>4, <1>5, <1>8 DEF TermKnown
    <3> QED BY <1>3, <3>1 DEF FullOK
  <2>2. TermKnown(s, i) => i <= n
    BY <1>4, <1>5 DEF TermKnown
  <2>3. log'[s] = <<>>
    BY <1>2, <1>7, <1>9, <1>13, <2>1, <2>2 DEF Installed, LogAfterInstall
  <2>4. last'[s] = i
    <3>1. last'[s] = lastIncludedIndex'[s] + Len(log'[s])
      BY <1>3 DEF FullOK, LastLogIndex
    <3>2. Len(log'[s]) = 0
      BY <2>3
    <3> QED BY <1>9, <3>1, <3>2
  <2>5. Cut(NodeFrag(s)', CommittedFrag)
    <3>1. PICK r : r = NodeFrag(s)'
      OBVIOUS
    <3>2. r.base = 0 /\ r.trm = 0 /\ r.top = i /\ r.at = full'[s]
      BY <2>4, <3>1, FragsAreNext
    <3>3. CommittedFrag.base = 0 /\ CommittedFrag.top = L /\ CommittedFrag.at = committed
      BY <1>6, FragsAre
    <3>4. Cut(r, CommittedFrag)
      BY <1>8, <1>10, <3>2, <3>3 DEF Cut
    <3> QED BY <3>1, <3>4
  <2>6. i > 0
    BY <1>8
  <2>7. Replaces(m)
    BY <1>2, <1>5, <1>7, <1>9, <1>13, <2>4, <2>5, <2>6 DEF Replaces
  <2> QED BY <1>2, <1>7, <1>10, <1>11, <2>7
<1> QED BY <1>12, <1>13

\* InstallSnapshot.
LEMMA InstallSnapshotLogs ==
    ASSUME IndexInv, IndexInv', Step, LogInv, NEW m \in rpcs, InstallSnapshot(m)
    PROVE  LogStep
<1>1. /\ m \in Installs /\ m.dst \in Server /\ m.src \in Server /\ UNCHANGED committed
      /\ m.term >= currentTerm[m.dst] => currentTerm'[m.dst] = m.term /\ state'[m.dst] = Follower
      /\ RoleStep /\ ClaimStep /\ SendStep /\ IndexStep /\ m \notin rpcs'
  BY InstallSnapshotParts
<1>2. PICK r : /\ m.epoch = epoch[m.src] => r \in rpcs'
               /\ \A q \in rpcs' : q \in rpcs \/ (q = r /\ m.epoch = epoch[m.src])
               /\ r.type = "SnapshotReply" /\ r.src = m.dst /\ r.dst = m.src /\ r.reqTerm = m.term
               /\ r.term = currentTerm'[m.dst] /\ r.lastIncludedIndex = m.lastIncludedIndex
  BY InstallSnapshotParts
<1>3. PICK s \in Server : s = m.dst
  BY <1>1
<1>4. TypeOK /\ m.term \in Nat /\ m.lastIncludedIndex \in Nat
  BY <1>1, CallsAre, CallTypes DEF IndexInv
<1>5. PICK i \in Nat : i = m.lastIncludedIndex
  BY <1>4
<1>6. \A t \in Server : /\ currentTerm[t] \in Nat /\ commitIndex[t] \in Nat /\ lastApplied[t] \in Nat
                        /\ lastIncludedIndex[t] \in Nat
  BY <1>4 DEF TypeOK, TermTypeOK, CommitTypeOK, ApplyTypeOK, LogTypeOK
<1>7. MoreCommitted
  BY <1>1, <1>4 DEF TypeOK, CommitTypeOK, MoreCommitted
<1>8. CommittedStep
  BY <1>1 DEF CommittedStep
<1>9. \A t \in Server : lastIncludedIndex[t] <= lastApplied[t] /\ lastApplied[t] <= commitIndex[t]
  BY DEF LogInv, CommitKnown, IndexInv, CompactedApplied
<1>10. ASSUME currentTerm[s] <= m.term => Adopts(m) PROVE AnswerStep
  <2> SUFFICES ASSUME NEW q \in rpcs', q.type \in ReplyType, q \notin rpcs
               PROVE  /\ q.type # "AppendReply"
                      /\ \E k \in Installs :
                            /\ Answers(q, k) /\ q.lastIncludedIndex = k.lastIncludedIndex
                            /\ currentTerm[k.dst] <= k.term => Adopts(k)
    BY DEF AnswerStep, ReplyType
  <2>1. q = r /\ m.epoch = epoch[m.src]
    BY <1>2
  <2>2. Answers(q, m) /\ q.lastIncludedIndex = m.lastIncludedIndex /\ q.type # "AppendReply"
    BY <1>1, <1>2, <2>1 DEF Answers
  <2> QED BY <1>1, <1>3, <1>10, <2>2
<1>11. ASSUME m.term >= currentTerm[s] PROVE Handled(m) /\ Answered(m) /\ state'[s] = Follower
  <2>1. Handled(m) /\ state'[s] = Follower
    BY <1>1, <1>3, <1>4, <1>6, <1>11 DEF Handled
  <2>2. m.type = "InstallSnapshot"
    BY <1>1 DEF Installs
  <2>3. Answered(m)
    BY <1>1, <1>2, <1>3, <1>11, <2>2 DEF Answered
  <2> QED BY <2>1, <2>3
<1>12. CASE ~(m.term >= currentTerm[s] /\ i > lastIncludedIndex[s])
  <2>1. UNCHANGED <<log, lastIncludedIndex, lastIncludedTerm, committed, commitIndex, lastApplied>>
    BY <1>3, <1>5, <1>12 DEF InstallSnapshot, logVars, applyVars
  <2>2. LogsStep /\ SnapshotTerm' /\ \A t \in Server : Kept(t)
    BY <2>1, QuietLogs
  <2>3. CommitIndexStep /\ IndexOrder'
    BY <2>1, QuietCommit
  <2>4. ASSUME currentTerm[s] <= m.term PROVE Adopts(m)
    <3>1. m.term >= currentTerm[s] /\ i <= lastIncludedIndex[s]
      BY <1>4, <1>6, <1>12, <2>4
    <3>2. Handled(m) /\ Kept(s)
      BY <1>11, <2>2, <3>1
    <3>3. FullOK(s)
      BY LogsFull DEF LogInv, AllFull
    <3>4. i <= last[s]
      BY <1>6, <3>1, <3>3 DEF FullOK
    <3>5. \A k \in 1 .. i : full[s][k] = committed[k]
      BY <1>6, <3>1, <3>3, <3>4 DEF FullOK
    <3>6. i <= commitIndex'[s]
      BY <1>6, <1>9, <2>1, <3>1
    <3> QED BY <1>1, <1>3, <1>5, <3>2, <3>4, <3>5, <3>6 DEF Adopts, Kept
  <2> QED BY <1>1, <1>8, <1>10, <2>2, <2>3, <2>4 DEF LogStep
<1>13. CASE m.term >= currentTerm[s] /\ i > lastIncludedIndex[s]
  <2>1. /\ log' = [log EXCEPT ![s] = LogAfterInstall(s, m)]
        /\ lastIncludedIndex' = [lastIncludedIndex EXCEPT ![s] = i]
        /\ lastIncludedTerm' = [lastIncludedTerm EXCEPT ![s] = m.lastIncludedTerm]
        /\ commitIndex' = AtLeast(commitIndex, s, i)
        /\ lastApplied' = AtLeast(lastApplied, s, i)
    BY <1>3, <1>5, <1>13 DEF InstallSnapshot
  <2>2. /\ log \in [Server -> Seq(Entry)] /\ lastIncludedIndex \in [Server -> Nat]
        /\ lastIncludedTerm \in [Server -> Nat] /\ commitIndex \in [Server -> Nat]
        /\ lastApplied \in [Server -> Nat]
    BY <1>4 DEF TypeOK, CommitTypeOK, ApplyTypeOK, LogTypeOK
  <2>3. /\ log'[s] = LogAfterInstall(s, m) /\ lastIncludedIndex'[s] = i /\ lastIncludedTerm'[s] = m.lastIncludedTerm
        /\ commitIndex'[s] = IF commitIndex[s] < i THEN i ELSE commitIndex[s]
        /\ lastApplied'[s] = IF lastApplied[s] < i THEN i ELSE lastApplied[s]
    BY <2>1, <2>2 DEF AtLeast
  <2>4. \A t \in Server : t # s =>
           /\ log'[t] = log[t] /\ lastIncludedIndex'[t] = lastIncludedIndex[t]
           /\ lastIncludedTerm'[t] = lastIncludedTerm[t]
           /\ commitIndex'[t] = commitIndex[t] /\ lastApplied'[t] = lastApplied[t]
    BY <2>1, <2>2 DEF AtLeast
  <2>5. i > 0 /\ m.lastIncludedTerm = committed[i].term
    <3>1. i > 0
      BY <1>6, <1>13
    <3> QED BY <1>1, <1>5, <3>1 DEF LogInv, CallsKnown
  <2>6. SnapshotTerm'
    <3> SUFFICES ASSUME NEW t \in Server
                 PROVE  lastIncludedTerm'[t] =
                          IF lastIncludedIndex'[t] = 0 THEN 0 ELSE committed'[lastIncludedIndex'[t]].term
      BY DEF SnapshotTerm
    <3>1. CASE t = s
      BY <1>1, <2>3, <2>5, <3>1
    <3>2. CASE t # s
      BY <1>1, <2>4, <3>2 DEF LogInv, SnapshotTerm
    <3> QED BY <3>1, <3>2
  <2>7. Installed(m)
    BY <1>1, <1>3, <1>5, <1>6, <1>13, <2>3, <2>5 DEF Installed
  <2>8. /\ Kept(s) \/ Replaces(m)
        /\ i <= last'[s] /\ \A k \in 1 .. i : full'[s][k] = committed[k]
    BY <1>3, <1>5, <2>6, <2>7, InstalledLog
  <2>9. i <= commitIndex'[s] /\ commitIndex[s] <= commitIndex'[s] /\ lastApplied'[s] <= commitIndex'[s]
    <3>1. PICK c \in Nat, a \in Nat : c = commitIndex[s] /\ a = lastApplied[s] /\ a <= c
      BY <1>6, <1>9
    <3>2. (IF a < i THEN i ELSE a) <= (IF c < i THEN i ELSE c) /\ i <= (IF c < i THEN i ELSE c)
          /\ c <= (IF c < i THEN i ELSE c)
      BY <3>1
    <3> QED BY <2>3, <3>1, <3>2
  <2>10. Adopts(m) /\ Answered(m) /\ state'[s] = Follower
    BY <1>1, <1>3, <1>5, <1>11, <1>13, <2>8, <2>9 DEF Adopts
  <2>11. \A t \in Server : t # s => Kept(t)
    BY <1>7, <2>4, KeptLog
  <2>12. LogsStep
    BY <1>1, <1>3, <2>8, <2>10, <2>11 DEF LogsStep, LogStepOf
  <2>13. CommitIndexStep
    <3> SUFFICES ASSUME NEW t \in Server
                 PROVE  \/ /\ commitIndex'[t] <= commitIndex[t]
                           /\ state'[t] = Leader => commitIndex'[t] = commitIndex[t]
                        \/ \E k \in Installs : k.dst = t /\ Adopts(k) /\ Answered(k)
                                               /\ commitIndex'[t] = k.lastIncludedIndex
      BY DEF CommitIndexStep
    <3>1. CASE t # s
      BY <1>6, <2>4, <3>1
    <3>2. CASE t = s /\ commitIndex'[s] = commitIndex[s]
      BY <1>6, <3>2
    <3>3. CASE t = s /\ commitIndex'[s] = i
      BY <1>1, <1>3, <1>5, <2>10, <3>3
    <3> QED BY <2>3, <3>1, <3>2, <3>3
  <2>14. IndexOrder'
    <3>1. \A t \in Server : lastApplied'[t] <= commitIndex'[t]
      BY <1>9, <2>4, <2>9
    <3> QED BY <3>1 DEF IndexOrder, IndexInv, CompactedApplied
  <2> QED BY <1>1, <1>8, <1>10, <2>6, <2>10, <2>12, <2>13, <2>14 DEF LogStep
<1> QED BY <1>12, <1>13

(***************************************************************************)
(* Every step is a LogStep.                                                *)
(***************************************************************************)

\* The steps of a node of its own.
LEMMA NodeLogs ==
    ASSUME IndexInv, IndexInv', Step, CallInv, LogInv, NEW s \in Server,
           \/ ElectionTimeout(s)
           \/ \E b \in spawned[s] : startElection(s, b)
           \/ \E c \in Command : Propose(s, c)
           \/ Heartbeat(s)
           \/ \E p \in Peers(s) : replicateToPeer(s, p)
           \/ \E p \in Peers(s) : sendInstallSnapshot(s, p)
           \/ deliverPendingSnapshot(s) \/ applyPending(s) \/ applyEntry(s) \/ adoptSnapshot(s)
           \/ Restart(s) \/ CrashInSnapshot(s)
    PROVE  LogStep
<1>1. CASE ElectionTimeout(s)
  BY <1>1, ElectionTimeoutLogs
<1>2. CASE \E b \in spawned[s] : startElection(s, b)
  BY <1>2, startElectionLogs
<1>3. CASE \E c \in Command : Propose(s, c)
  BY <1>3, ProposeLogs
<1>4. CASE Heartbeat(s) \/ adoptSnapshot(s) \/ deliverPendingSnapshot(s)
  <2>1. UNCHANGED rpcs
    BY <1>4 DEF Heartbeat, adoptSnapshot, deliverPendingSnapshot
  <2> QED BY <1>4, <2>1, RoundLogs
<1>5. CASE \E p \in Peers(s) : replicateToPeer(s, p)
  BY <1>5, replicateToPeerLogs
<1>6. CASE \E p \in Peers(s) : sendInstallSnapshot(s, p)
  BY <1>6, sendInstallSnapshotLogs
<1>7. CASE applyPending(s)
  BY <1>7, applyPendingLogs
<1>8. CASE applyEntry(s)
  BY <1>8, applyEntryLogs
<1>9. CASE Restart(s) \/ CrashInSnapshot(s)
  BY <1>9, NodeCrash, CrashLogs
<1> QED BY <1>1, <1>2, <1>3, <1>4, <1>5, <1>6, <1>7, <1>8, <1>9

\* The steps that a message causes.
LEMMA MessageLogs ==
    ASSUME IndexInv, IndexInv', Step, ElectionInv, LogInv, NEW m \in rpcs,
           \/ RequestVote(m) \/ VoteReply(m) \/ StepDown(m) \/ IgnoreReply(m) \/ FailRPC(m)
           \/ AppendEntries(m) \/ AppendReply(m)
           \/ InstallSnapshot(m) \/ CrashInInstall(m) \/ SnapshotReply(m)
    PROVE  LogStep
<1>1. CASE RequestVote(m)
  BY <1>1, RequestVoteLogs
<1>2. CASE VoteReply(m)
  BY <1>2, VoteReplyLogs
<1>3. CASE StepDown(m) \/ IgnoreReply(m) \/ FailRPC(m)
  BY <1>3, EndedCallLogs
<1>4. CASE AppendEntries(m)
  BY <1>4, AppendEntriesLogs
<1>5. CASE AppendReply(m)
  BY <1>5, AppendReplyLogs
<1>6. CASE InstallSnapshot(m)
  BY <1>6, InstallSnapshotLogs
<1>7. CASE CrashInInstall(m)
  BY <1>7, InstallCrash, CrashLogs
<1>8. CASE SnapshotReply(m)
  BY <1>8, SnapshotReplyLogs
<1> QED BY <1>1, <1>2, <1>3, <1>4, <1>5, <1>6, <1>7, <1>8

\* Every step.
LEMMA NextLogStep ==
    ASSUME IndexInv, IndexInv', Step, ElectionInv, CallInv, LogInv, [Next]_vars
    PROVE  LogStep
<1>1. CASE UNCHANGED vars
  BY <1>1, StutterLogs
<1>2. ASSUME NEW s \in Server,
             \/ ElectionTimeout(s)
             \/ \E b \in spawned[s] : startElection(s, b)
             \/ \E c \in Command : Propose(s, c)
             \/ Heartbeat(s)
             \/ \E p \in Peers(s) : replicateToPeer(s, p)
             \/ \E p \in Peers(s) : sendInstallSnapshot(s, p)
             \/ deliverPendingSnapshot(s) \/ applyPending(s) \/ applyEntry(s) \/ adoptSnapshot(s)
             \/ Restart(s) \/ CrashInSnapshot(s)
      PROVE  LogStep
  BY <1>2, NodeLogs
<1>3. ASSUME NEW m \in rpcs,
             \/ RequestVote(m) \/ VoteReply(m) \/ StepDown(m) \/ IgnoreReply(m) \/ FailRPC(m)
             \/ AppendEntries(m) \/ AppendReply(m)
             \/ InstallSnapshot(m) \/ CrashInInstall(m) \/ SnapshotReply(m)
      PROVE  LogStep
  BY <1>3, MessageLogs
<1> QED BY <1>1, <1>2, <1>3 DEF Next

(***************************************************************************)
(* What a step may do to elections and to calls in flight.                 *)
(***************************************************************************)
VoteTermStep == \A s \in Server : \A b \in 1 .. MaxTerm :
    votes'[s][b].term \in {0, votes[s][b].term, currentTerm[s]}
AskStep == \A m \in rpcs' : m.type = "RequestVote" =>
    \/ m \in rpcs
    \/ /\ currentTerm'[m.src] = m.term /\ m.lastLogIndex = last'[m.src]
       /\ m.lastLogTerm = LastLogTerm(m.src)'
EpochStep == \A s \in Server :
    epoch'[s] = epoch[s] \/ (epoch'[s] = epoch[s] + 1 /\ state'[s] = Follower)
NewCallStep == \A m \in rpcs' : m.type \in CallType =>
    m \in rpcs \/ (m.src # m.dst /\ m.epoch = epoch'[m.src])
PairStep(s, p) ==
    \/ repl'[s][p] = repl[s][p] /\ \A q \in rpcs' : IsCall(q, s, p)' => q \in rpcs /\ IsCall(q, s, p)
    \/ \A q \in rpcs' : ~IsCall(q, s, p)'
    \/ s # p /\ repl'[s][p] = "call" /\ \E r : \A q \in rpcs' : IsCall(q, s, p)' => q = r

CallStep == VoteTermStep /\ AskStep /\ EpochStep /\ NewCallStep /\ \A s, p \in Server : PairStep(s, p)

\* IsCall by its types.
LEMMA IsCallIs ==
    ASSUME NEW m, NEW s, NEW p
    PROVE  /\ IsCall(m, s, p) <=> \/ m.type \in CallType /\ m.src = s /\ m.dst = p /\ m.epoch = epoch[s]
                                  \/ m.type \in ReplyType /\ m.dst = s /\ m.src = p
           /\ IsCall(m, s, p)' <=> \/ m.type \in CallType /\ m.src = s /\ m.dst = p /\ m.epoch = epoch'[s]
                                   \/ m.type \in ReplyType /\ m.dst = s /\ m.src = p
BY DEF IsCall, CallType, ReplyType

\* While no process dies, calls stay calls.
LEMMA SameCalls ==
    ASSUME UNCHANGED epoch
    PROVE  \A m, s, p : IsCall(m, s, p)' <=> IsCall(m, s, p)
BY DEF IsCall

\* No vote is counted, no call made, no process dies.
LEMMA QuietVotes ==
    ASSUME UNCHANGED votes, UNCHANGED epoch,
           \A m \in rpcs' : m.type \in CallType \cup {"RequestVote"} => m \in rpcs,
           \A s, p \in Server : PairStep(s, p)
    PROVE  CallStep
<1>1. VoteTermStep /\ EpochStep
  BY DEF VoteTermStep, EpochStep
<1>2. AskStep /\ NewCallStep
  BY DEF AskStep, NewCallStep
<1> QED BY <1>1, <1>2 DEF CallStep

\* Steps that leave calls, their goroutines and elections alone.
LEMMA QuietCallStep ==
    ASSUME UNCHANGED <<votes, epoch, rpcs, repl>>
    PROVE  CallStep
<1>1. \A s, p \in Server : PairStep(s, p)
  BY IsCallIs DEF PairStep
<1> QED BY <1>1, QuietVotes

\* startElection.
LEMMA startElectionCalls ==
    ASSUME IndexInv, NEW s \in Server, NEW b \in spawned[s], startElection(s, b)
    PROVE  CallStep
<1>1. /\ votes' = [votes EXCEPT ![s][b] = [term |-> currentTerm[s], voters |-> {s}]]
      /\ UNCHANGED <<currentTerm, log, lastIncludedIndex, lastIncludedTerm>> /\ UNCHANGED epoch /\ UNCHANGED repl
  BY DEF startElection, termVars, logVars, boundVars
<1>2. \A m \in rpcs' : m \in rpcs \/ (/\ m.type = "RequestVote" /\ m.src = s /\ m.term = currentTerm[s]
                                      /\ m.lastLogIndex = LastLogIndex(s) /\ m.lastLogTerm = LastLogTerm(s))
  BY DEF startElection
<1>3. votes \in [Server -> [1 .. MaxTerm -> [term : Nat, voters : SUBSET Server]]]
  BY DEF IndexInv, TypeOK, ElectionTypeOK
<1>4. VoteTermStep
  BY <1>1, <1>3 DEF VoteTermStep
<1>5. AskStep
  BY <1>1, <1>2 DEF AskStep, last, LastLogIndex, LastLogTerm
<1>6. EpochStep /\ NewCallStep
  BY <1>1, <1>2 DEF EpochStep, NewCallStep, CallType
<1>7. \A u, p \in Server : PairStep(u, p)
  BY <1>1, <1>2, IsCallIs DEF PairStep, CallType, ReplyType
<1> QED BY <1>4, <1>5, <1>6, <1>7 DEF CallStep

\* A round begins when the last one's calls have ended.
LEMMA HeartbeatCalls ==
    ASSUME IndexInv, CallInv, NEW s \in Server, Heartbeat(s)
    PROVE  CallStep
<1>1. /\ UNCHANGED votes /\ UNCHANGED epoch /\ UNCHANGED rpcs
      /\ \A p \in Peers(s) : repl[s][p] = "idle"
      /\ repl' = [repl EXCEPT ![s] = [p \in Server |-> IF p \in Reachable(s) THEN "ready" ELSE "idle"]]
  BY DEF Heartbeat, electionVars, boundVars
<1>2. repl \in [Server -> [Server -> {"idle", "ready", "snap", "call"}]]
  BY DEF IndexInv, TypeOK, LeaderTypeOK
<1>3. \A u, p \in Server : u # s => repl'[u][p] = repl[u][p]
  BY <1>1, <1>2
<1>4. \A p \in Server : \A q \in rpcs : ~IsCall(q, s, p)
  BY <1>1 DEF CallInv, OneCall, Peers
<1>5. ASSUME NEW u \in Server, NEW p \in Server PROVE PairStep(u, p)
  BY <1>1, <1>3, <1>4, SameCalls DEF PairStep
<1> QED BY <1>1, <1>5, QuietVotes

\* The goroutine of s for p has not called yet: it gives up, turns to the
\* snapshot, or makes its call.
LEMMA SendingCalls ==
    ASSUME IndexInv, CallInv, NEW s \in Server, NEW p \in Peers(s),
           replicateToPeer(s, p) \/ sendInstallSnapshot(s, p)
    PROVE  CallStep
<1>1. UNCHANGED votes /\ UNCHANGED epoch /\ repl[s][p] \in {"ready", "snap"}
  BY DEF replicateToPeer, sendInstallSnapshot, electionVars, boundVars
<1>2. PICK w : repl' = [repl EXCEPT ![s][p] = w]
               /\ \/ UNCHANGED rpcs
                  \/ w = "call" /\ \E m : /\ m.type \in CallType /\ m.src = s /\ m.dst = p /\ m.epoch = epoch[s]
                                          /\ rpcs' = rpcs \cup {m}
  <2>1. CASE UNCHANGED rpcs
    BY <2>1 DEF replicateToPeer, sendInstallSnapshot
  <2>2. CASE rpcs' # rpcs /\ replicateToPeer(s, p)
    <3> DEFINE m == [type |-> "AppendEntries", src |-> s, dst |-> p,
                    epoch |-> epoch[s], term |-> currentTerm[s],
                    prevLogIndex |-> nextIndex[s][p] - 1,
                    prevLogTerm |-> IF nextIndex[s][p] - 1 >= 1 THEN TermAt(s, nextIndex[s][p] - 1) ELSE 0,
                    entries |-> SubSeq(log[s], physicalIndex(s, nextIndex[s][p]), Len(log[s])),
                    leaderCommit |-> commitIndex[s]]
    <3>1. rpcs' = rpcs \cup {m} /\ repl' = [repl EXCEPT ![s][p] = "call"]
      BY <2>2 DEF replicateToPeer
    <3>2. m.type \in CallType /\ m.src = s /\ m.dst = p /\ m.epoch = epoch[s]
      BY DEF CallType
    <3> HIDE DEF m
    <3> QED BY <3>1, <3>2
  <2>3. CASE rpcs' # rpcs /\ sendInstallSnapshot(s, p)
    <3> DEFINE m == [type |-> "InstallSnapshot", src |-> s, dst |-> p,
                 epoch |-> epoch[s], term |-> currentTerm[s],
                 lastIncludedIndex |-> lastIncludedIndex[s],
                 lastIncludedTerm |-> lastIncludedTerm[s],
                 data |-> snapshotData[s]]
    <3>1. rpcs' = rpcs \cup {m} /\ repl' = [repl EXCEPT ![s][p] = "call"]
      BY <2>3 DEF sendInstallSnapshot
    <3>2. m.type \in CallType /\ m.src = s /\ m.dst = p /\ m.epoch = epoch[s]
      BY DEF CallType
    <3> HIDE DEF m
    <3> QED BY <3>1, <3>2
  <2> QED BY <2>1, <2>2, <2>3
<1>3. repl \in [Server -> [Server -> {"idle", "ready", "snap", "call"}]] /\ s # p /\ p \in Server
  BY DEF IndexInv, TypeOK, LeaderTypeOK, Peers
<1>4. repl'[s][p] = w /\ \A u, t \in Server : u # s \/ t # p => repl'[u][t] = repl[u][t]
  BY <1>2, <1>3
<1>5. \A q \in rpcs : ~IsCall(q, s, p)
  BY <1>1, <1>3 DEF CallInv, OneCall
<1>6. CASE UNCHANGED rpcs
  <2>1. ASSUME NEW u \in Server, NEW t \in Server PROVE PairStep(u, t)
    BY <1>1, <1>4, <1>5, <1>6, SameCalls DEF PairStep
  <2> QED BY <1>1, <1>6, <2>1, QuietVotes
<1>7. CASE rpcs' # rpcs
  <2>1. PICK m : w = "call" /\ m.type \in CallType /\ m.src = s /\ m.dst = p /\ m.epoch = epoch[s]
                 /\ rpcs' = rpcs \cup {m}
    BY <1>2, <1>7
  <2>2. m.type # "RequestVote" /\ m.type \notin ReplyType
    BY <2>1 DEF CallType, ReplyType
  <2>3. VoteTermStep /\ EpochStep
    BY <1>1 DEF VoteTermStep, EpochStep
  <2>4. AskStep /\ NewCallStep
    BY <1>1, <1>3, <2>1, <2>2 DEF AskStep, NewCallStep
  <2>5. ASSUME NEW u \in Server, NEW t \in Server PROVE PairStep(u, t)
    <3>1. CASE u # s \/ t # p
      <4>1. ~IsCall(m, u, t)
        BY <2>1, <2>2, <3>1, IsCallIs
      <4> QED BY <1>1, <1>4, <2>1, <3>1, <4>1, SameCalls DEF PairStep
    <3>2. CASE u = s /\ t = p
      BY <1>1, <1>3, <1>4, <1>5, <2>1, <3>2, IsCallIs DEF PairStep
    <3> QED BY <3>1, <3>2
  <2> QED BY <2>3, <2>4, <2>5 DEF CallStep
<1> QED BY <1>6, <1>7

\* A handler turns the call into its reply.
LEMMA HandledCalls ==
    ASSUME IndexInv, CallInv, NEW m \in rpcs, NEW r, Reply(m, r), UNCHANGED votes, UNCHANGED epoch, UNCHANGED repl,
           r.src = m.dst /\ r.dst = m.src,
           \/ m.type = "RequestVote" /\ r.type = "VoteReply"
           \/ m.type \in CallType /\ r.type \in ReplyType
    PROVE  CallStep
<1>1. m.src \in Server /\ m.dst \in Server
  BY CallTypes DEF IndexInv, TypeOK
<1>3. \A q \in rpcs' : (q \in rpcs /\ q # m) \/ (q = r /\ m.epoch = epoch[m.src])
  BY DEF Reply
<1>4. r.type \notin CallType /\ r.type # "RequestVote"
  BY DEF CallType, ReplyType
<1>5. ASSUME NEW s \in Server, NEW p \in Server PROVE PairStep(s, p)
  <2>1. CASE r \notin rpcs' \/ ~IsCall(r, s, p)
    BY <1>3, <2>1, SameCalls DEF PairStep
  <2>2. CASE r \in rpcs' /\ IsCall(r, s, p)
    <3>1. r.type \in ReplyType /\ r.dst = s /\ r.src = p
      BY <1>4, <2>2, IsCallIs
    <3>2. m.type \in CallType
      BY <3>1 DEF ReplyType
    <3>3. CASE r \in rpcs /\ r # m
      BY <1>3, <3>3, SameCalls DEF PairStep
    <3>4. CASE ~(r \in rpcs /\ r # m)
      <4>1. m.epoch = epoch[m.src]
        BY <1>3, <2>2, <3>4
      <4>2. IsCall(m, s, p)
        BY <3>1, <3>2, <4>1, IsCallIs
      <4>3. s # p /\ repl[s][p] = "call" /\ \A q \in rpcs : IsCall(q, s, p) => q = m
        BY <4>2 DEF CallInv, OneCall
      <4> QED BY <1>3, <4>3, SameCalls DEF PairStep
    <3> QED BY <3>3, <3>4
  <2> QED BY <2>1, <2>2
<1> QED BY <1>3, <1>4, <1>5, QuietVotes

\* The handlers.
LEMMA HandlerCallStep ==
    ASSUME IndexInv, CallInv, NEW m \in rpcs, RequestVote(m) \/ AppendEntries(m) \/ InstallSnapshot(m)
    PROVE  CallStep
<1>1. UNCHANGED votes /\ UNCHANGED epoch /\ UNCHANGED repl
  BY DEF RequestVote, AppendEntries, InstallSnapshot, electionVars, boundVars
<1>2. PICK r : /\ Reply(m, r) /\ r.src = m.dst /\ r.dst = m.src
               /\ \/ m.type = "RequestVote" /\ r.type = "VoteReply"
                  \/ m.type \in CallType /\ r.type \in ReplyType
  <2>1. CASE RequestVote(m)
    <3>1. m.type = "RequestVote" /\ \E b, g : Reply(m, [type |-> "VoteReply", src |-> m.dst, dst |-> m.src,
              born |-> b, reqTerm |-> m.term, term |-> currentTerm'[m.dst], granted |-> g])
      BY <2>1 DEF RequestVote
    <3> QED BY <3>1
  <2>2. CASE AppendEntries(m)
    <3>1. m.type = "AppendEntries" /\ \E ok, n : Reply(m, [type |-> "AppendReply", src |-> m.dst, dst |-> m.src,
              reqTerm |-> m.term, term |-> currentTerm'[m.dst], success |-> ok, newMatch |-> n])
      BY <2>2 DEF AppendEntries
    <3> QED BY <3>1 DEF CallType, ReplyType
  <2>3. CASE InstallSnapshot(m)
    <3>1. m.type = "InstallSnapshot" /\ Reply(m, [type |-> "SnapshotReply", src |-> m.dst, dst |-> m.src,
              reqTerm |-> m.term, term |-> currentTerm'[m.dst], lastIncludedIndex |-> m.lastIncludedIndex])
      BY <2>3 DEF InstallSnapshot
    <3> QED BY <3>1 DEF CallType, ReplyType
  <2> QED BY <2>1, <2>2, <2>3
<1> QED BY <1>1, <1>2, HandledCalls

\* A call has ended, for its goroutine too.
LEMMA EndedPairs ==
    ASSUME IndexInv, CallInv, NEW m \in rpcs, UNCHANGED epoch, rpcs' = rpcs \ {m},
           \/ UNCHANGED repl
           \/ \E u, t \in Server : IsCall(m, u, t) /\ repl' = [repl EXCEPT ![u][t] = "idle"]
    PROVE  \A s, p \in Server : PairStep(s, p)
<1> SUFFICES ASSUME NEW s \in Server, NEW p \in Server PROVE PairStep(s, p)
  OBVIOUS
<1>1. CASE UNCHANGED repl
  BY <1>1, SameCalls DEF PairStep
<1>2. CASE \E u, t \in Server : IsCall(m, u, t) /\ repl' = [repl EXCEPT ![u][t] = "idle"]
  <2>1. PICK u \in Server, t \in Server : IsCall(m, u, t) /\ repl' = [repl EXCEPT ![u][t] = "idle"]
    BY <1>2
  <2>2. repl \in [Server -> [Server -> {"idle", "ready", "snap", "call"}]]
    BY DEF IndexInv, TypeOK, LeaderTypeOK
  <2>3. s # u \/ p # t => repl'[s][p] = repl[s][p]
    BY <2>1, <2>2
  <2>4. \A q \in rpcs : IsCall(q, u, t) => q = m
    BY <2>1 DEF CallInv, OneCall
  <2>5. CASE s # u \/ p # t
    BY <2>3, <2>5, SameCalls DEF PairStep
  <2>6. CASE s = u /\ p = t
    BY <2>4, <2>6, SameCalls DEF PairStep
  <2> QED BY <2>5, <2>6
<1> QED BY <1>1, <1>2

\* Finish ends it at its caller.
LEMMA FinishPairs ==
    ASSUME IndexInv, CallInv, NEW m \in rpcs, m.type \in ReplyTypes, UNCHANGED epoch, Finish(m)
    PROVE  /\ \A s, p \in Server : PairStep(s, p)
           /\ \A q \in rpcs' : q \in rpcs
<1>1. m.src \in Server /\ m.dst \in Server
  BY CallTypes DEF IndexInv, TypeOK
<1>2. rpcs' = rpcs \ {m}
  BY DEF Finish
<1>3. CASE m.type = "VoteReply"
  <2>1. UNCHANGED repl
    BY <1>3 DEF Finish
  <2> QED BY <1>2, <2>1, EndedPairs
<1>4. CASE m.type # "VoteReply"
  <2>1. repl' = [repl EXCEPT ![m.dst][m.src] = "idle"]
    BY <1>4 DEF Finish
  <2>2. IsCall(m, m.dst, m.src)
    BY <1>4 DEF IsCall, ReplyTypes
  <2> QED BY <1>1, <1>2, <2>1, <2>2, EndedPairs
<1> QED BY <1>3, <1>4

\* A reply that does not count votes.
LEMMA ReplyCalls ==
    ASSUME IndexInv, CallInv, NEW m \in rpcs,
           StepDown(m) \/ IgnoreReply(m) \/ AppendReply(m) \/ SnapshotReply(m)
    PROVE  CallStep
<1>1. UNCHANGED votes /\ UNCHANGED epoch /\ Finish(m) /\ m.type \in ReplyTypes
  BY DEF StepDown, IgnoreReply, AppendReply, SnapshotReply, electionVars, boundVars, ReplyTypes
<1>2. (\A s, p \in Server : PairStep(s, p)) /\ \A q \in rpcs' : q \in rpcs
  BY <1>1, FinishPairs
<1> QED BY <1>1, <1>2, QuietVotes

\* A vote is counted in the election it was asked for.
LEMMA VoteReplyCalls ==
    ASSUME IndexInv, CallInv, NEW m \in rpcs, VoteReply(m)
    PROVE  CallStep
<1>1. UNCHANGED epoch /\ Finish(m) /\ m.type \in ReplyTypes
  BY DEF VoteReply, boundVars, ReplyTypes
<1>2. (\A s, p \in Server : PairStep(s, p)) /\ \A q \in rpcs' : q \in rpcs
  BY <1>1, FinishPairs
<1>3. m.dst \in Server /\ m.born \in 1 .. MaxTerm
  BY MessageFields DEF IndexInv, TypeOK, VoteReply
<1>4. PICK V : votes' = [votes EXCEPT ![m.dst][m.born].voters = V]
  BY DEF VoteReply
<1>5. votes \in [Server -> [1 .. MaxTerm -> [term : Nat, voters : SUBSET Server]]]
  BY DEF IndexInv, TypeOK, ElectionTypeOK
<1>6. \A s \in Server : \A b \in 1 .. MaxTerm : votes'[s][b].term = votes[s][b].term
  BY <1>3, <1>4, <1>5
<1>7. VoteTermStep /\ EpochStep
  BY <1>1, <1>6 DEF VoteTermStep, EpochStep
<1>8. AskStep /\ NewCallStep
  BY <1>2 DEF AskStep, NewCallStep
<1> QED BY <1>2, <1>7, <1>8 DEF CallStep

\* A call that the transport fails.
LEMMA FailRPCCalls ==
    ASSUME IndexInv, CallInv, NEW m \in rpcs, FailRPC(m)
    PROVE  CallStep
<1>1. UNCHANGED votes /\ UNCHANGED epoch /\ rpcs' = rpcs \ {m} /\ m.type \in CallType
  BY DEF FailRPC, electionVars, CallType
<1>2. m.src \in Server /\ m.dst \in Server
  BY CallTypes DEF IndexInv, TypeOK
<1>3. CASE m.epoch = epoch[m.src]
  <2>1. repl' = [repl EXCEPT ![m.src][m.dst] = "idle"]
    BY <1>3 DEF FailRPC
  <2>2. IsCall(m, m.src, m.dst)
    BY <1>1, <1>3, IsCallIs
  <2>3. \A s, p \in Server : PairStep(s, p)
    BY <1>1, <1>2, <2>1, <2>2, EndedPairs
  <2> QED BY <1>1, <2>3, QuietVotes
<1>4. CASE m.epoch # epoch[m.src]
  <2>1. UNCHANGED repl
    BY <1>4 DEF FailRPC
  <2>2. \A s, p \in Server : PairStep(s, p)
    BY <1>1, <2>1, EndedPairs
  <2> QED BY <1>1, <2>2, QuietVotes
<1> QED BY <1>3, <1>4

\* A crash.
LEMMA CrashCalls ==
    ASSUME IndexInv, CallInv, NEW s \in Server, NEW F, Crashes(s, F)
    PROVE  CallStep
<1>1. /\ votes' = [votes EXCEPT ![s] = NoVotes] /\ epoch' = [epoch EXCEPT ![s] = @ + 1]
      /\ state' = [state EXCEPT ![s] = Follower]
      /\ rpcs' = {m \in rpcs \ F : ~(m.type \in ReplyTypes /\ m.dst = s)}
      /\ F \subseteq Installs
  BY DEF Crashes
<1>2. /\ votes \in [Server -> [1 .. MaxTerm -> [term : Nat, voters : SUBSET Server]]]
      /\ epoch \in [Server -> Nat] /\ state \in [Server -> {Follower, Candidate, Leader}]
  BY DEF IndexInv, TypeOK, ElectionTypeOK, BoundTypeOK, TermTypeOK
<1>3. VoteTermStep
  <2>1. \A b \in 1 .. MaxTerm : votes'[s][b].term = 0
    BY <1>1, <1>2 DEF NoVotes
  <2>2. \A t \in Server : t # s => votes'[t] = votes[t]
    BY <1>1, <1>2
  <2> QED BY <2>1, <2>2 DEF VoteTermStep
<1>4. epoch'[s] = epoch[s] + 1 /\ state'[s] = Follower /\ \A t \in Server : t # s => epoch'[t] = epoch[t]
  BY <1>1, <1>2
<1>5. EpochStep
  BY <1>4 DEF EpochStep
<1>6. \A q \in rpcs' : q \in rpcs /\ q \notin F
  BY <1>1
<1>7. AskStep /\ NewCallStep
  BY <1>6 DEF AskStep, NewCallStep
<1>8. \A p \in Server : PairStep(s, p)
  <2> SUFFICES ASSUME NEW p \in Server, NEW q \in rpcs', IsCall(q, s, p)' PROVE FALSE
    BY DEF PairStep
  <2>1. q \in rpcs /\ ~(q.type \in ReplyType /\ q.dst = s)
    BY <1>1 DEF ReplyTypes, ReplyType
  <2>2. q.type \in CallType /\ q.src = s /\ q.epoch = epoch[s] + 1
    BY <1>4, <2>1, IsCallIs
  <2>3. q \in Appends \cup Installs /\ q.epoch \in Nat
    BY <2>1, <2>2, CallTypes DEF Appends, Installs, CallType, IndexInv, TypeOK
  <2>4. q.epoch <= epoch[s]
    BY <2>2, <2>3 DEF CallInv, CallEpochs
  <2> QED BY <1>2, <2>2, <2>3, <2>4
<1>9. \A u, p \in Server : u # s => PairStep(u, p)
  <2> SUFFICES ASSUME NEW u \in Server, NEW p \in Server, u # s PROVE PairStep(u, p)
    OBVIOUS
  <2>1. \A q : IsCall(q, u, p)' <=> IsCall(q, u, p)
    BY <1>4 DEF IsCall
  <2>2. CASE \E m \in F : m.src = u /\ m.dst = p /\ m.epoch = epoch[u]
    <3>1. PICK m \in F : m.src = u /\ m.dst = p /\ m.epoch = epoch[u]
      BY <2>2
    <3>2. m \in rpcs /\ m.type = "InstallSnapshot"
      BY <1>1, <3>1 DEF Installs
    <3>3. IsCall(m, u, p)
      BY <3>1, <3>2 DEF IsCall
    <3>4. \A q \in rpcs : IsCall(q, u, p) => q = m
      BY <3>2, <3>3 DEF CallInv, OneCall
    <3> QED BY <1>6, <2>1, <3>4 DEF PairStep
  <2>3. CASE ~\E m \in F : m.src = u /\ m.dst = p /\ m.epoch = epoch[u]
    <3>1. repl'[u][p] = repl[u][p]
      BY <2>3 DEF Crashes
    <3> QED BY <1>6, <2>1, <3>1 DEF PairStep
  <2> QED BY <2>2, <2>3
<1> QED BY <1>3, <1>5, <1>7, <1>8, <1>9 DEF CallStep

\* Every step.
LEMMA NextCallStep ==
    ASSUME IndexInv, CallInv, [Next]_vars
    PROVE  CallStep
<1>1. ASSUME NEW s \in Server,
             \/ ElectionTimeout(s) \/ \E c \in Command : Propose(s, c)
             \/ deliverPendingSnapshot(s) \/ applyPending(s) \/ applyEntry(s) \/ adoptSnapshot(s)
      PROVE  CallStep
  <2>1. UNCHANGED <<votes, epoch, rpcs, repl>>
    BY <1>1 DEF ElectionTimeout, Propose, deliverPendingSnapshot, applyPending, applyEntry,
                adoptSnapshot, electionVars, boundVars
  <2> QED BY <2>1, QuietCallStep
<1>2. CASE UNCHANGED vars
  <2>1. UNCHANGED <<votes, epoch, rpcs, repl>>
    BY <1>2 DEF vars, electionVars, boundVars
  <2> QED BY <2>1, QuietCallStep
<1>3. ASSUME NEW s \in Server,
             \/ \E b \in spawned[s] : startElection(s, b)
             \/ Heartbeat(s)
             \/ \E p \in Peers(s) : replicateToPeer(s, p)
             \/ \E p \in Peers(s) : sendInstallSnapshot(s, p)
             \/ Restart(s) \/ CrashInSnapshot(s)
      PROVE  CallStep
  BY <1>3, startElectionCalls, HeartbeatCalls, SendingCalls, NodeCrash, CrashCalls
<1>4. ASSUME NEW m \in rpcs,
             \/ RequestVote(m) \/ VoteReply(m) \/ StepDown(m) \/ IgnoreReply(m) \/ FailRPC(m)
             \/ AppendEntries(m) \/ AppendReply(m)
             \/ InstallSnapshot(m) \/ CrashInInstall(m) \/ SnapshotReply(m)
      PROVE  CallStep
  BY <1>4, HandlerCallStep, ReplyCalls, VoteReplyCalls, FailRPCCalls, InstallCrash, CrashCalls
<1> QED BY <1>1, <1>2, <1>3, <1>4 DEF Next

(***************************************************************************)
(* CallInv is preserved.                                                   *)
(***************************************************************************)

\* ApplyBounded for one node.
SentApplied(s) == \A k \in DOMAIN applyCh[s] :
    applyCh[s][k].kind = "entry" => applyCh[s][k].index <= lastApplied[s]

\* A node whose channel keeps, loses its first message, or is emptied.
LEMMA DrainedChannel ==
    ASSUME TypeOK, TypeOK', NEW s \in Server, SentApplied(s),
           \/ applyCh'[s] = <<>>
           \/ /\ applyCh'[s] = applyCh[s] \/ (applyCh[s] # <<>> /\ applyCh'[s] = Tail(applyCh[s]))
              /\ lastApplied[s] <= lastApplied'[s]
    PROVE  SentApplied(s)'
<1>1. applyCh[s] \in Seq(ApplyMsg) /\ lastApplied[s] \in Nat /\ lastApplied'[s] \in Nat
  BY DEF TypeOK, ApplyTypeOK
<1>2. \A k \in DOMAIN applyCh[s] : applyCh[s][k].index \in Nat
  BY <1>1 DEF ApplyMsg
<1>3. CASE applyCh'[s] = <<>>
  BY <1>3 DEF SentApplied
<1>4. CASE applyCh'[s] = applyCh[s] /\ lastApplied[s] <= lastApplied'[s]
  BY <1>1, <1>2, <1>4 DEF SentApplied
<1>5. CASE applyCh[s] # <<>> /\ applyCh'[s] = Tail(applyCh[s]) /\ lastApplied[s] <= lastApplied'[s]
  <2>1. \A k \in DOMAIN applyCh'[s] : k + 1 \in DOMAIN applyCh[s] /\ applyCh'[s][k] = applyCh[s][k + 1]
    BY <1>1, <1>5
  <2> QED BY <1>1, <1>2, <1>5, <2>1 DEF SentApplied
<1> QED BY <1>3, <1>4, <1>5

\* A node whose channel gets one more message.
LEMMA FedChannel ==
    ASSUME TypeOK, TypeOK', NEW s \in Server, SentApplied(s), NEW msg,
           applyCh'[s] = Append(applyCh[s], msg), lastApplied[s] <= lastApplied'[s],
           msg.kind = "entry" => msg.index = lastApplied'[s]
    PROVE  SentApplied(s)'
<1>1. applyCh[s] \in Seq(ApplyMsg) /\ lastApplied[s] \in Nat /\ lastApplied'[s] \in Nat
  BY DEF TypeOK, ApplyTypeOK
<1>2. \A k \in DOMAIN applyCh[s] : applyCh[s][k].index \in Nat
  BY <1>1 DEF ApplyMsg
<1>3. \A k \in DOMAIN applyCh'[s] : (k \in DOMAIN applyCh[s] /\ applyCh'[s][k] = applyCh[s][k])
                                    \/ applyCh'[s][k] = msg
  BY <1>1
<1> QED BY <1>1, <1>2, <1>3 DEF SentApplied

\* Every step sends the state machine what it applies.
LEMMA AppliedKept ==
    ASSUME IndexInv, IndexInv', ApplyBounded, [Next]_vars
    PROVE  ApplyBounded'
<1>0. TypeOK /\ TypeOK'
  BY DEF IndexInv
<1>1. \A s \in Server : SentApplied(s)
  BY DEF ApplyBounded, SentApplied
<1> SUFFICES \A s \in Server : SentApplied(s)'
  BY DEF ApplyBounded, SentApplied
<1>2. applyCh \in [Server -> Seq(ApplyMsg)] /\ lastApplied \in [Server -> Nat]
      /\ lastIncludedIndex \in [Server -> Nat]
  BY <1>0 DEF TypeOK, ApplyTypeOK, LogTypeOK
<1>3. CASE UNCHANGED applyCh /\ \A s \in Server : lastApplied[s] <= lastApplied'[s]
  BY <1>0, <1>1, <1>3, DrainedChannel
<1>4. CASE UNCHANGED applyCh /\ UNCHANGED lastApplied
  BY <1>2, <1>3, <1>4
<1>5. ASSUME NEW s \in Server, adoptSnapshot(s) \/ applyEntry(s) PROVE \A t \in Server : SentApplied(t)'
  <2>1. applyCh[s] # <<>> /\ applyCh' = [applyCh EXCEPT ![s] = Tail(@)] /\ UNCHANGED lastApplied
    BY <1>5 DEF adoptSnapshot, applyEntry, applyVars
  <2>2. \A t \in Server : applyCh'[t] = applyCh[t] \/ (applyCh[t] # <<>> /\ applyCh'[t] = Tail(applyCh[t]))
    BY <1>2, <2>1
  <2>3. \A t \in Server : lastApplied[t] <= lastApplied'[t]
    BY <1>2, <2>1
  <2> QED BY <1>0, <1>1, <2>2, <2>3, DrainedChannel
<1>6. ASSUME NEW s \in Server, deliverPendingSnapshot(s) PROVE \A t \in Server : SentApplied(t)'
  <2>1. CASE pendingSnapshot[s] = Nil
    BY <1>4, <1>6, <2>1 DEF deliverPendingSnapshot
  <2>2. CASE pendingSnapshot[s] # Nil
    <3>1. PICK msg : msg.kind = "snapshot" /\ applyCh' = [applyCh EXCEPT ![s] = Append(@, msg)]
      BY <1>6, <2>2 DEF deliverPendingSnapshot, Deliver
    <3>2. \A t \in Server : lastApplied[t] <= lastApplied'[t]
      BY <1>2, <1>6 DEF deliverPendingSnapshot
    <3>3. applyCh'[s] = Append(applyCh[s], msg) /\ \A t \in Server : t # s => applyCh'[t] = applyCh[t]
      BY <1>2, <3>1
    <3> QED BY <1>0, <1>1, <3>1, <3>2, <3>3, DrainedChannel, FedChannel
  <2> QED BY <2>1, <2>2
<1>7. ASSUME NEW s \in Server, applyPending(s) PROVE \A t \in Server : SentApplied(t)'
  <2>1. CASE UNCHANGED <<lastApplied, applyCh>>
    BY <1>4, <2>1
  <2>2. CASE ~UNCHANGED <<lastApplied, applyCh>>
    <3>1. lastApplied' = [lastApplied EXCEPT ![s] = lastApplied[s] + 1]
      BY <1>7, <2>2 DEF applyPending
    <3>2. PICK msg : msg.index = lastApplied[s] + 1 /\ applyCh' = [applyCh EXCEPT ![s] = Append(@, msg)]
      BY <1>7, <2>2 DEF applyPending, Deliver
    <3>3. lastApplied'[s] = lastApplied[s] + 1 /\ \A t \in Server : lastApplied[t] <= lastApplied'[t]
      BY <1>2, <3>1
    <3>4. applyCh'[s] = Append(applyCh[s], msg) /\ \A t \in Server : t # s => applyCh'[t] = applyCh[t]
      BY <1>2, <3>2
    <3> QED BY <1>0, <1>1, <3>2, <3>3, <3>4, DrainedChannel, FedChannel
  <2> QED BY <2>1, <2>2
<1>8. ASSUME NEW s \in Server, NEW F, Crashes(s, F) PROVE \A t \in Server : SentApplied(t)'
  <2>1. applyCh'[s] = <<>> /\ \A t \in Server : t # s => applyCh'[t] = applyCh[t]
    BY <1>2, <1>8 DEF Crashes
  <2>2. \A t \in Server : t # s => lastApplied[t] <= lastApplied'[t]
    BY <1>2, <1>8 DEF Crashes
  <2> QED BY <1>0, <1>1, <2>1, <2>2, DrainedChannel
<1>9. ASSUME NEW m \in rpcs, InstallSnapshot(m) PROVE \A t \in Server : SentApplied(t)'
  <2>1. m.dst \in Server /\ m.lastIncludedIndex \in Nat
    BY <1>0, <1>9, CallTypes DEF TypeOK, InstallSnapshot
  <2>2. UNCHANGED applyCh
    BY <1>9 DEF InstallSnapshot, smVars
  <2>3. UNCHANGED lastApplied \/ lastApplied' = AtLeast(lastApplied, m.dst, m.lastIncludedIndex)
    BY <1>9 DEF InstallSnapshot, applyVars
  <2>4. \A t \in Server : lastApplied[t] <= lastApplied'[t]
    <3>1. PICK s \in Server, i \in Nat : s = m.dst /\ i = m.lastIncludedIndex
      BY <2>1
    <3>2. CASE lastApplied' = AtLeast(lastApplied, s, i)
      <4>1. lastApplied'[s] = IF lastApplied[s] < i THEN i ELSE lastApplied[s]
        BY <1>2, <3>2 DEF AtLeast
      <4>2. \A t \in Server : t # s => lastApplied'[t] = lastApplied[t]
        BY <1>2, <3>2 DEF AtLeast
      <4>3. lastApplied[s] <= (IF lastApplied[s] < i THEN i ELSE lastApplied[s])
        BY <1>2
      <4>4. lastApplied[s] <= lastApplied'[s]
        BY <4>1, <4>3
      <4>5. \A t \in Server : lastApplied[t] <= lastApplied[t]
        BY <1>2
      <4> QED BY <4>2, <4>4, <4>5
    <3>3. CASE UNCHANGED lastApplied
      BY <1>2, <3>3
    <3> QED BY <2>3, <3>1, <3>2, <3>3
  <2> QED BY <1>3, <2>2, <2>4
<1>10. ASSUME NEW s \in Server,
              \/ ElectionTimeout(s)
              \/ \E b \in spawned[s] : startElection(s, b)
              \/ \E c \in Command : Propose(s, c)
              \/ Heartbeat(s)
              \/ \E p \in Peers(s) : replicateToPeer(s, p)
              \/ \E p \in Peers(s) : sendInstallSnapshot(s, p)
       PROVE  UNCHANGED applyCh /\ UNCHANGED lastApplied
  BY <1>10 DEF ElectionTimeout, startElection, Propose, Heartbeat, replicateToPeer,
               sendInstallSnapshot, smVars, applyVars
<1>11. ASSUME NEW m \in rpcs,
              \/ RequestVote(m) \/ VoteReply(m) \/ StepDown(m) \/ IgnoreReply(m) \/ FailRPC(m)
              \/ AppendEntries(m) \/ AppendReply(m) \/ SnapshotReply(m)
       PROVE  UNCHANGED applyCh /\ UNCHANGED lastApplied
  BY <1>11 DEF RequestVote, VoteReply, StepDown, IgnoreReply, FailRPC, AppendEntries,
               AppendReply, SnapshotReply, smVars, applyVars
<1>12. CASE UNCHANGED vars
  BY <1>4, <1>12 DEF vars, smVars, applyVars
<1>13. ASSUME NEW s \in Server, Restart(s) \/ CrashInSnapshot(s) PROVE \A t \in Server : SentApplied(t)'
  BY <1>8, <1>13, NodeCrash
<1>14. ASSUME NEW m \in rpcs, CrashInInstall(m) PROVE \A t \in Server : SentApplied(t)'
  BY <1>8, <1>14, InstallCrash
<1> QED BY <1>4, <1>5, <1>6, <1>7, <1>9, <1>10, <1>11, <1>12, <1>13, <1>14 DEF Next

\* Every step preserves CallInv.
LEMMA NextCallInv ==
    ASSUME IndexInv, IndexInv', Step, CallInv, LogInv, LogStep, [Next]_vars
    PROVE  CallInv'
<1>1. CallStep
  BY NextCallStep
<1>2. \A s \in Server : /\ currentTerm[s] \in Nat /\ currentTerm'[s] \in Nat /\ currentTerm[s] <= currentTerm'[s]
                        /\ epoch[s] \in Nat
  BY DEF Step, NodeStep, IndexInv, TypeOK, TermTypeOK, BoundTypeOK
<1>3. VotesBounded'
  <2> SUFFICES ASSUME NEW s \in Server, NEW b \in 1 .. MaxTerm PROVE votes'[s][b].term <= currentTerm'[s]
    BY DEF VotesBounded
  <2>1. votes[s][b].term \in Nat
    BY DEF IndexInv, TypeOK, ElectionTypeOK
  <2>2. votes[s][b].term <= currentTerm[s]
    BY DEF CallInv, VotesBounded
  <2>3. votes'[s][b].term \in {0, votes[s][b].term, currentTerm[s]}
    BY <1>1 DEF CallStep, VoteTermStep
  <2> QED BY <1>2, <2>1, <2>2, <2>3
<1>4. RequestCurrent'
  <2> SUFFICES ASSUME NEW m \in rpcs', m.type = "RequestVote"
               PROVE  /\ m.term <= currentTerm'[m.src]
                      /\ state'[m.src] = Candidate /\ currentTerm'[m.src] = m.term =>
                            m.lastLogIndex = last'[m.src] /\ m.lastLogTerm = LastLogTerm(m.src)'
    BY DEF RequestCurrent
  <2>1. m.src \in Server /\ m.term \in Nat
    BY MessageFields DEF IndexInv, TypeOK
  <2>2. CASE m \notin rpcs
    <3>1. currentTerm'[m.src] = m.term /\ m.lastLogIndex = last'[m.src] /\ m.lastLogTerm = LastLogTerm(m.src)'
      BY <1>1, <2>2 DEF CallStep, AskStep
    <3> QED BY <2>1, <3>1
  <2>3. CASE m \in rpcs
    <3>1. m.term <= currentTerm'[m.src]
      BY <1>2, <2>1, <2>3 DEF CallInv, RequestCurrent
    <3>2. ASSUME state'[m.src] = Candidate, currentTerm'[m.src] = m.term
          PROVE  m.lastLogIndex = last'[m.src] /\ m.lastLogTerm = LastLogTerm(m.src)'
      <4>1. m.term <= currentTerm[m.src]
        BY <2>3 DEF CallInv, RequestCurrent
      <4>2. currentTerm[m.src] = m.term
        BY <1>2, <2>1, <3>2, <4>1
      <4>3. state[m.src] = Candidate
        BY <2>1, <3>2, <4>2 DEF Step, NodeStep
      <4>4. m.lastLogIndex = last[m.src] /\ m.lastLogTerm = LastLogTerm(m.src)
        BY <2>3, <4>2, <4>3 DEF CallInv, RequestCurrent
      <4>5. Kept(m.src)
        <5>1. LogStepOf(m.src)
          BY <2>1 DEF LogStep, LogsStep
        <5> QED BY <3>2, <4>3, <5>1 DEF LogStepOf, Proposes, Accepts, Adopts, Handled, Leader, Candidate, Follower
      <4>6. FullOK(m.src) /\ FullOK(m.src)'
        BY <2>1, LogsFull, LogsFullNext DEF LogInv, LogStep, AllFull
      <4> QED BY <4>4, <4>5, <4>6 DEF FullOK, Kept
    <3> QED BY <3>1, <3>2
  <2> QED BY <2>2, <2>3
<1>5. OneCall'
  <2> SUFFICES ASSUME NEW s \in Server, NEW p \in Server, NEW m \in rpcs', IsCall(m, s, p)'
               PROVE  /\ s # p /\ repl'[s][p] = "call"
                      /\ \A r \in rpcs' : IsCall(r, s, p)' => r = m
    BY DEF OneCall
  <2>1. PairStep(s, p)
    BY <1>1 DEF CallStep
  <2>2. CASE repl'[s][p] = repl[s][p] /\ \A q \in rpcs' : IsCall(q, s, p)' => q \in rpcs /\ IsCall(q, s, p)
    <3>1. m \in rpcs /\ IsCall(m, s, p)
      BY <2>2
    <3>2. s # p /\ repl[s][p] = "call" /\ \A r \in rpcs : IsCall(r, s, p) => r = m
      BY <3>1 DEF CallInv, OneCall
    <3> QED BY <2>2, <3>2
  <2>3. CASE s # p /\ repl'[s][p] = "call" /\ \E r : \A q \in rpcs' : IsCall(q, s, p)' => q = r
    BY <2>3
  <2> QED BY <2>1, <2>2, <2>3 DEF PairStep
<1>6. CallEpochs'
  <2> SUFFICES ASSUME NEW m \in rpcs', m.type \in CallType
               PROVE  /\ m.src # m.dst /\ m.epoch <= epoch'[m.src]
                      /\ m.epoch # epoch'[m.src] /\ m.term = currentTerm'[m.src] => state'[m.src] = Follower
    BY DEF CallEpochs, Appends, Installs, CallType
  <2>1. m.src \in Server /\ m.term \in Nat /\ m.epoch \in Nat /\ epoch'[m.src] \in Nat
    BY MessageFields DEF IndexInv, TypeOK, CallType, BoundTypeOK
  <2>2. CASE m \notin rpcs
    <3>1. m.src # m.dst /\ m.epoch = epoch'[m.src]
      BY <1>1, <2>2 DEF CallStep, NewCallStep
    <3> QED BY <2>1, <3>1
  <2>3. CASE m \in rpcs
    <3>1. m \in Appends \cup Installs
      BY <2>3 DEF Appends, Installs, CallType
    <3>2. /\ m.src # m.dst /\ m.epoch <= epoch[m.src]
          /\ m.epoch # epoch[m.src] /\ m.term = currentTerm[m.src] => state[m.src] = Follower
      BY <3>1 DEF CallInv, CallEpochs
    <3>3. epoch'[m.src] = epoch[m.src] \/ (epoch'[m.src] = epoch[m.src] + 1 /\ state'[m.src] = Follower)
      BY <1>1, <2>1 DEF CallStep, EpochStep
    <3>4. m.epoch <= epoch'[m.src]
      BY <1>2, <2>1, <3>2, <3>3
    <3>5. m.term <= currentTerm[m.src]
      BY <2>3 DEF IndexInv, CallOK, CallOf, CallType
    <3>6. ASSUME m.epoch # epoch'[m.src], m.term = currentTerm'[m.src], epoch'[m.src] = epoch[m.src]
          PROVE  state'[m.src] = Follower
      <4>1. m.term = currentTerm[m.src]
        BY <1>2, <2>1, <3>5, <3>6
      <4>2. state[m.src] = Follower
        BY <3>2, <3>6, <4>1
      <4>3. state'[m.src] \in {Follower, Candidate, Leader}
        BY <2>1 DEF IndexInv, TypeOK, TermTypeOK
      <4> QED BY <2>1, <3>6, <4>1, <4>2, <4>3 DEF Step, NodeStep, Follower, Candidate, Leader
    <3> QED BY <3>2, <3>3, <3>4, <3>6
  <2> QED BY <2>2, <2>3
<1>7. ApplyBounded'
  BY AppliedKept DEF CallInv
<1> QED BY <1>3, <1>4, <1>5, <1>6, <1>7 DEF CallInv

(***************************************************************************)
(* A new cluster.                                                          *)
(***************************************************************************)

\* Nobody has asked for votes or made a call.
LEMMA InitCallInv == Init => CallInv
<1> SUFFICES ASSUME Init PROVE CallInv
  OBVIOUS
<1>1. rpcs = {} /\ \A s \in Server : currentTerm[s] = 0 /\ votes[s] = NoVotes /\ applyCh[s] = <<>>
  BY DEF Init
<1>2. VotesBounded
  <2>1. \A b \in 1 .. MaxTerm : NoVotes[b].term = 0
    BY DEF NoVotes
  <2>2. \A s \in Server : \A b \in 1 .. MaxTerm : votes[s][b].term = 0
    BY <1>1, <2>1
  <2>3. \A s \in Server : currentTerm[s] = 0
    BY <1>1
  <2> QED BY <2>2, <2>3 DEF VotesBounded
<1>3. RequestCurrent /\ OneCall /\ CallEpochs
  BY <1>1 DEF RequestCurrent, OneCall, CallEpochs, Appends, Installs
<1>4. ApplyBounded
  BY <1>1 DEF ApplyBounded
<1> QED BY <1>2, <1>3, <1>4 DEF CallInv

\* All logs are empty.
LEMMA InitLogInv == Init => LogInv
<1> SUFFICES ASSUME Init PROVE LogInv
  OBVIOUS
<1>1. /\ rpcs = {} /\ committed = <<>>
      /\ \A s \in Server : /\ log[s] = <<>> /\ lastIncludedIndex[s] = 0 /\ lastIncludedTerm[s] = 0
                           /\ commitIndex[s] = 0 /\ lastApplied[s] = 0 /\ state[s] # Leader
  BY DEF Init, Follower, Leader
<1>2. Len(committed) = 0 /\ Appends = {} /\ Installs = {}
  BY <1>1 DEF Appends, Installs
<1>3. \A s \in Server : last[s] = 0
  <2>1. \A s \in Server : Len(log[s]) = 0
    BY <1>1
  <2> QED BY <1>1, <2>1 DEF last, LastLogIndex
<1>4. \A a \in Frags : a.base = 0 /\ a.top = 0 /\ a.trm = 0
  BY <1>2, <1>3 DEF Frags, NodeFrag, CommittedFrag
<1>5. Matched
  <2>1. \A a \in Frags : FragOK(a)
    BY <1>4 DEF FragOK
  <2>2. \A a, b \in Frags : Match(a, b)
    BY <1>4 DEF Match
  <2> QED BY <2>1, <2>2 DEF Matched, AllMatch
<1>6. \A j, t \in Nat : ~EntryIn(j, t)
  BY <1>4 DEF EntryIn
<1>7. SnapshotTerm /\ TermsBounded
  BY <1>1, <1>2, <1>3 DEF SnapshotTerm, TermsBounded
<1>8. LeaderHasOwn /\ Origin /\ AckTrue /\ LeaderSafe
  BY <1>1 DEF LeaderHasOwn, Origin, AckTrue, LeaderSafe
<1>9. Closed /\ OneCallPerTerm /\ CallShape
  BY <1>2, <1>6 DEF Closed, OneCallPerTerm, CallShape
<1>10. CommitKnown
  BY <1>1, <1>2, <1>3 DEF CommitKnown, KnownBy
<1>11. CallsKnown /\ NextAboveCommit
  BY <1>1, <1>2 DEF CallsKnown, NextAboveCommit
<1> QED BY <1>5, <1>7, <1>8, <1>9, <1>10, <1>11 DEF LogInv

(***************************************************************************)
(* The inductive invariant, and what follows from it.                      *)
(***************************************************************************)
RaftInv == IndexInv /\ ElectionInv /\ CallInv /\ LogInv

\* It holds at first.
LEMMA InitRaftInv == Init => RaftInv
BY InitIndexInv, InitElection, InitCallInv, InitLogInv DEF RaftInv

\* Every step preserves it.
LEMMA NextRaftInv == RaftInv /\ [Next]_vars => RaftInv'
<1> SUFFICES ASSUME RaftInv, [Next]_vars PROVE RaftInv'
  OBVIOUS
<1>1. IndexInv /\ ElectionInv /\ CallInv /\ LogInv
  BY DEF RaftInv
<1>2. IndexInv' /\ Step
  BY <1>1, NextIndexInv
<1>3. ElectionInv'
  BY <1>1, <1>2, NextElection
<1>4. LogStep
  BY <1>1, <1>2, NextLogStep
<1>5. CallInv'
  BY <1>1, <1>2, <1>4, NextCallInv
<1>6. LogInv'
  BY <1>1, <1>2, <1>3, <1>4, <1>5, LogInvKept
<1> QED BY <1>2, <1>3, <1>5, <1>6 DEF RaftInv

\* Whatever the run, RaftInv holds.
LEMMA Invariance == Spec => []RaftInv
BY InitRaftInv, NextRaftInv, PTL DEF Spec

\* The entries that a node still has.
LEMMA LogIsFull ==
    ASSUME RaftInv, NEW s \in Server
    PROVE  /\ FullOK(s)
           /\ \A i \in lastIncludedIndex[s] + 1 .. last[s] : log[s][physicalIndex(s, i)] = full[s][i]
<1>1. FullOK(s)
  BY LogsFull DEF RaftInv, LogInv, AllFull
<1> QED BY <1>1 DEF FullOK, physicalIndex

\* Matching logs.
LEMMA LogsMatch == ASSUME RaftInv PROVE LogMatching
<1> SUFFICES ASSUME NEW s \in Server, NEW t \in Server, NEW i \in 1 .. LastLogIndex(s),
                    TermKnown(s, i), TermKnown(t, i), TermAt(s, i) = TermAt(t, i),
                    NEW j \in 1 .. i, j > lastIncludedIndex[s], j > lastIncludedIndex[t]
             PROVE  log[s][physicalIndex(s, j)] = log[t][physicalIndex(t, j)]
  BY DEF LogMatching
<1>1. FullOK(s) /\ FullOK(t)
  BY LogIsFull
<1>2. PICK n \in Nat : n = last[s] /\ n = LastLogIndex(s)
  BY <1>1 DEF FullOK
<1>3. PICK k \in Nat : k = last[t] /\ k = LastLogIndex(t)
  BY <1>1 DEF FullOK
<1>4. lastIncludedIndex[s] \in Nat /\ lastIncludedIndex[t] \in Nat
  BY <1>1 DEF FullOK
<1>5. i \in 1 .. n /\ i \in 1 .. k
  BY <1>2, <1>3, <1>4 DEF TermKnown
<1>6. full[s][i].term = full[t][i].term
  BY <1>1, <1>2, <1>3, <1>5 DEF FullOK
<1>7. full[s][j] = full[t][j]
  <2>1. /\ Match(NodeFrag(s), NodeFrag(t))
        /\ NodeFrag(s).base = 0 /\ NodeFrag(s).top = n /\ NodeFrag(s).at = full[s]
        /\ NodeFrag(t).base = 0 /\ NodeFrag(t).top = k /\ NodeFrag(t).at = full[t]
    BY <1>2, <1>3, FragsAre DEF RaftInv, LogInv, Matched, AllMatch
  <2>2. i \in NodeFrag(s).base + 1 .. NodeFrag(s).top /\ i \in NodeFrag(t).base + 1 .. NodeFrag(t).top
    BY <1>5, <2>1
  <2>3. NodeFrag(s).at[i].term = NodeFrag(t).at[i].term /\ i <= i
    BY <1>6, <2>1
  <2>4. \A x \in NodeFrag(t).base + 1 .. i : x > NodeFrag(s).base => NodeFrag(s).at[x] = NodeFrag(t).at[x]
    BY <2>1, <2>2, <2>3, MatchAt
  <2> QED BY <2>1, <2>4
<1>8. j \in lastIncludedIndex[s] + 1 .. last[s] /\ j \in lastIncludedIndex[t] + 1 .. last[t]
  BY <1>2, <1>3, <1>4, <1>5
<1> QED BY <1>7, <1>8, LogIsFull

\* What is committed, at nodes.
LEMMA CommitsAgree == ASSUME RaftInv PROVE CommittedAgreement
<1> SUFFICES ASSUME NEW s \in Server
             PROVE  /\ commitIndex[s] <= LastLogIndex(s) /\ commitIndex[s] <= Len(committed)
                    /\ \A i \in lastIncludedIndex[s] + 1 .. commitIndex[s] :
                          log[s][physicalIndex(s, i)] = committed[i]
                    /\ lastIncludedIndex[s] > 0 =>
                          lastIncludedTerm[s] = committed[lastIncludedIndex[s]].term
  BY DEF CommittedAgreement
<1>1. FullOK(s)
  BY LogIsFull
<1>2. last[s] = LastLogIndex(s) /\ last[s] \in Nat /\ lastIncludedIndex[s] \in Nat /\ commitIndex[s] \in Nat
  BY <1>1 DEF FullOK, RaftInv, IndexInv, TypeOK, CommitTypeOK
<1>3. commitIndex[s] <= last[s] /\ \A k \in 1 .. commitIndex[s] : full[s][k] = committed[k]
  BY DEF RaftInv, LogInv, CommitKnown
<1>4. commitIndex[s] <= Len(committed)
  BY DEF RaftInv, IndexInv, CommitRecorded
<1>5. ASSUME NEW i \in lastIncludedIndex[s] + 1 .. commitIndex[s]
      PROVE  log[s][physicalIndex(s, i)] = committed[i]
  <2>1. i \in lastIncludedIndex[s] + 1 .. last[s] /\ i \in 1 .. commitIndex[s]
    BY <1>2, <1>3
  <2> QED BY <1>3, <2>1, LogIsFull
<1>6. lastIncludedIndex[s] > 0 => lastIncludedTerm[s] = committed[lastIncludedIndex[s]].term
  BY DEF RaftInv, LogInv, SnapshotTerm
<1> QED BY <1>2, <1>3, <1>4, <1>5, <1>6

\* What is committed, at leaders.
LEMMA LeadersComplete == ASSUME RaftInv PROVE LeaderCompleteness
<1> SUFFICES ASSUME NEW s \in Server, state[s] = Leader, committed # <<>>,
                    committed[Len(committed)].term <= currentTerm[s]
             PROVE  /\ LastLogIndex(s) >= Len(committed)
                    /\ \A i \in lastIncludedIndex[s] + 1 .. Len(committed) :
                          log[s][physicalIndex(s, i)] = committed[i]
  BY DEF LeaderCompleteness
<1>1. FullOK(s)
  BY LogIsFull
<1>2. last[s] = LastLogIndex(s) /\ last[s] \in Nat /\ lastIncludedIndex[s] \in Nat
  BY <1>1 DEF FullOK
<1>3. committed \in Seq(Entry)
  BY DEF RaftInv, IndexInv, TypeOK, CommitTypeOK
<1>4. PICK L \in Nat : L = Len(committed) /\ L > 0
  BY <1>3
<1>5. PICK A \in SUBSET Server : Majority(A) /\ Safe(committed, L, committed[L].term, A)
  BY <1>4 DEF RaftInv, LogInv, CommitKnown, Anchor
<1>6. Locked(committed, L, committed[L].term)
  <2>1. Majority(A \cup {v \in Server : currentTerm[v] <= committed[L].term})
    BY <1>5, MajorityGrows
  <2> QED BY <1>5, <2>1 DEF Safe
<1>7. currentTerm[s] >= committed[L].term
  <2>1. currentTerm[s] \in Nat
    BY DEF RaftInv, IndexInv, TypeOK, TermTypeOK
  <2>2. L \in 1 .. Len(committed)
    BY <1>4
  <2>3. committed[L].term \in Nat
    <3>1. committed[L] \in Entry
      BY <1>3, <2>2
    <3> QED BY <3>1 DEF Entry
  <2> QED BY <1>4, <2>1, <2>3
<1>8. Agrees(s, committed, L)
  BY <1>6, <1>7 DEF Locked
<1>9. L <= last[s] /\ \A k \in 1 .. L : full[s][k] = committed[k]
  BY <1>8 DEF Agrees
<1>10. ASSUME NEW i \in lastIncludedIndex[s] + 1 .. L PROVE log[s][physicalIndex(s, i)] = committed[i]
  <2>1. i \in lastIncludedIndex[s] + 1 .. last[s] /\ i \in 1 .. L
    BY <1>2, <1>9
  <2> QED BY <1>9, <2>1, LogIsFull
<1> QED BY <1>2, <1>4, <1>9, <1>10

\* What leaders know of their peers.
LEMMA MatchesTrue == ASSUME RaftInv PROVE MatchIndexTruthful
<1> SUFFICES ASSUME NEW s \in Server, NEW p \in Peers(s), state[s] = Leader,
                    currentTerm[p] = currentTerm[s], matchIndex[s][p] > 0
             PROVE  /\ matchIndex[s][p] <= LastLogIndex(p)
                    /\ TermKnown(s, matchIndex[s][p]) /\ TermKnown(p, matchIndex[s][p]) =>
                          TermAt(s, matchIndex[s][p]) = TermAt(p, matchIndex[s][p])
  BY DEF MatchIndexTruthful
<1>1. p \in Server /\ p # s
  BY DEF Peers
<1>2. PICK n \in Nat \ {0} : n = matchIndex[s][p]
  BY <1>1 DEF RaftInv, IndexInv, TypeOK, LeaderTypeOK
<1>3. Acked(p, s, n)
  BY <1>1, <1>2 DEF Acked
<1>4. n <= last[s] /\ n <= last[p] /\ \A k \in 1 .. n : full[p][k] = full[s][k]
  BY <1>1, <1>3 DEF RaftInv, LogInv, AckTrue, Agrees
<1>5. FullOK(s) /\ FullOK(p)
  BY <1>1, LogIsFull
<1>6. last[s] \in Nat /\ last[p] \in Nat /\ last[p] = LastLogIndex(p)
  BY <1>5 DEF FullOK
<1>7. n \in 1 .. last[s] /\ n \in 1 .. last[p] /\ n \in 1 .. n
  BY <1>4, <1>6
<1>8. full[p][n] = full[s][n]
  BY <1>4, <1>7
<1>9. TermKnown(s, n) /\ TermKnown(p, n) => TermAt(s, n) = TermAt(p, n)
  BY <1>5, <1>7, <1>8 DEF FullOK
<1> QED BY <1>2, <1>4, <1>6, <1>9

\* Nothing to panic about.
LEMMA NothingPanics == ASSUME RaftInv PROVE NoPanic
<1>1. ASSUME NEW m \in rpcs, m.type = "AppendEntries", m.term >= currentTerm[m.dst],
             m.prevLogIndex = 0, m.entries # <<>>
      PROVE  lastIncludedIndex[m.dst] = 0
  <2>1. m \in Appends /\ m.dst \in Server /\ m.term \in Nat /\ Top(m) \in Nat /\ Top(m) > 0
        /\ m.entries \in Seq(Entry)
    BY <1>1, CallTypes DEF Appends, RaftInv, IndexInv, TypeOK
  <2>2. PICK p \in Server : p = m.dst
    BY <2>1
  <2>3. /\ currentTerm[p] \in Nat /\ commitIndex[p] \in Nat /\ lastIncludedIndex[p] \in Nat
        /\ lastApplied[p] \in Nat
    BY DEF RaftInv, IndexInv, TypeOK, TermTypeOK, CommitTypeOK, LogTypeOK, ApplyTypeOK
  <2>4. lastIncludedIndex[p] <= commitIndex[p]
    <3>1. lastIncludedIndex[p] <= lastApplied[p]
      BY DEF RaftInv, IndexInv, CompactedApplied
    <3>2. lastApplied[p] <= commitIndex[p]
      BY DEF RaftInv, LogInv, CommitKnown
    <3> QED BY <2>3, <3>1, <3>2
  <2>5. CASE currentTerm[p] = m.term
    <3>1. commitIndex[p] <= 0
      BY <1>1, <2>1, <2>2, <2>5 DEF RaftInv, LogInv, NextAboveCommit
    <3> QED BY <2>2, <2>3, <2>4, <3>1
  <2>6. CASE currentTerm[p] < m.term
    <3>1. \A k \in DOMAIN m.entries : m.entries[k].term = m.term
      BY <2>1, <2>2, <2>6 DEF RaftInv, LogInv, NextAboveCommit
    <3>2. CASE commitIndex[p] > 0
      <4>1. PICK j \in commitIndex[p] .. Len(committed) : Anchor(j) /\ committed[j].term <= currentTerm[p]
        BY <3>2 DEF RaftInv, LogInv, CommitKnown, KnownBy
      <4>2. PICK L \in Nat : L = Len(committed)
        BY DEF RaftInv, IndexInv, TypeOK, CommitTypeOK
      <4>3. j \in 1 .. L /\ 1 \in 1 .. L /\ 1 <= j
        BY <2>3, <3>2, <4>1, <4>2
      <4>4. PICK A \in SUBSET Server : Majority(A) /\ Safe(committed, j, committed[j].term, A)
        BY <4>1 DEF Anchor
      <4>5. Locked(committed, j, committed[j].term)
        <5>1. Majority(A \cup {v \in Server : currentTerm[v] <= committed[j].term})
          BY <4>4, MajorityGrows
        <5> QED BY <4>4, <5>1 DEF Safe
      <4>6. /\ FragOK(CommittedFrag)
            /\ CommittedFrag.base = 0 /\ CommittedFrag.top = L /\ CommittedFrag.at = committed
        BY <4>2, FragsAre DEF RaftInv, LogInv, Matched, AllMatch
      <4>7. committed[1].term <= committed[j].term /\ committed[1].term \in Nat /\ committed[j].term \in Nat
        BY <4>3, <4>6 DEF FragOK, Entry
      <4>8. CallAgrees(m, committed, j, committed[j].term)
        <5>1. PICK x \in Nat, c \in Nat, t \in Nat : x = committed[j].term /\ c = currentTerm[p] /\ t = m.term
          BY <2>1, <2>3, <4>7
        <5>2. x <= c /\ c < t
          BY <2>6, <4>1, <5>1
        <5>3. t >= x
          BY <5>2
        <5> QED BY <2>1, <4>5, <5>1, <5>3 DEF Locked
      <4>9. m.entries[1] = committed[1]
        <5>1. 1 \in m.prevLogIndex + 1 .. Top(m) /\ 1 - m.prevLogIndex = 1
          BY <1>1, <2>1
        <5> QED BY <4>3, <4>8, <5>1 DEF CallAgrees
      <4>10. 1 \in DOMAIN m.entries
        BY <1>1, <2>1
      <4>11. committed[1].term = m.term
        BY <3>1, <4>9, <4>10
      <4>12. PICK x \in Nat, c \in Nat, t \in Nat : x = committed[j].term /\ c = currentTerm[p] /\ t = m.term
        BY <2>1, <2>3, <4>7
      <4>13. x <= c /\ c < t /\ t <= x
        BY <2>6, <4>1, <4>7, <4>11, <4>12
      <4> QED BY <4>13
    <3> QED BY <2>2, <2>3, <2>4, <3>2
  <2> QED BY <1>1, <2>1, <2>2, <2>3, <2>5, <2>6
<1>2. ASSUME NEW s \in Server, NEW k \in DOMAIN applyCh[s], applyCh[s][k].kind = "entry"
      PROVE  applyCh[s][k].index <= LastLogIndex(s) /\ applyCh[s][k].index <= lastApplied[s]
  <2>1. applyCh[s][k].index <= lastApplied[s]
    BY <1>2 DEF RaftInv, CallInv, ApplyBounded
  <2>2. lastApplied[s] <= commitIndex[s] /\ commitIndex[s] <= last[s]
    BY DEF RaftInv, LogInv, CommitKnown
  <2>3. lastApplied[s] \in Nat /\ commitIndex[s] \in Nat /\ applyCh[s][k].index \in Nat
    <3>1. applyCh[s] \in Seq(ApplyMsg) /\ lastApplied[s] \in Nat /\ commitIndex[s] \in Nat
      BY DEF RaftInv, IndexInv, TypeOK, ApplyTypeOK, CommitTypeOK
    <3> QED BY <3>1 DEF ApplyMsg
  <2>4. last[s] \in Nat /\ last[s] = LastLogIndex(s)
    BY LogIsFull DEF FullOK
  <2> QED BY <2>1, <2>2, <2>3, <2>4
<1> QED BY <1>1, <1>2 DEF NoPanic

(***************************************************************************)
(* The theorems.                                                           *)
(***************************************************************************)

\* Logs that agree on the term of an entry agree on every entry up to it:
\* the consistency check of AppendEntries, for every number of nodes, crashes
\* and lost calls, and with any part of either log compacted away.
THEOREM MatchingLogs == Spec => []LogMatching
BY Invariance, LogsMatch, PTL

\* A leader that is not behind the last commit's term has everything that was
\* ever committed: the vote rule of RequestVote and the current-term rule of
\* advanceCommitIndexLocked together (raft.go, replication.go).
THEOREM CompleteLeaders == Spec => []LeaderCompleteness
BY Invariance, LeadersComplete, PTL

\* No node ever takes for committed what no leader committed, and none loses
\* an entry it took for committed.
THEOREM AgreedCommits == Spec => []CommittedAgreement
BY Invariance, CommitsAgree, PTL

\* matchIndex never runs ahead of what the peer holds.
THEOREM TruthfulMatches == Spec => []MatchIndexTruthful
BY Invariance, MatchesTrue, PTL

\* lastIncludedIndex <= lastApplied <= commitIndex at every node, whatever
\* order snapshots, entries and crashes come in.
THEOREM OrderedIndices == Spec => []IndexOrder
<1>1. RaftInv => IndexOrder
  BY DEF RaftInv, IndexInv, CompactedApplied, LogInv, CommitKnown, IndexOrder
<1> QED BY <1>1, Invariance, PTL

\* AppendEntries never slices below the compacted prefix of a log, and the
\* state machine never asks for a snapshot of what it has not applied.
THEOREM PanicFree == Spec => []NoPanic
BY Invariance, NothingPanics, PTL
=============================================================================
