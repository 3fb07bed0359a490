------------------------------- MODULE MCRaft -------------------------------
(***************************************************************************)
(* Raft on small instances: start states from which the runs spend their   *)
(* bounds on what they are about.                                          *)
(***************************************************************************)
EXTENDS Raft, TLC

CONSTANTS FirstLeader, FirstVoter   \* who won term 1 in InitLed, with whose vote

\* The state after an undisturbed first election: FirstLeader timed out, ran
\* startElection and won with FirstVoter's vote; the other nodes voted for it
\* too and their answers found it Leader already.  Runs about replication
\* start here and spend their bounds there.
Led ==
    /\ state = [s \in Server |-> IF s = FirstLeader THEN Leader ELSE Follower]
    /\ currentTerm = [s \in Server |-> 1]
    /\ votedFor = [s \in Server |-> FirstLeader]
    /\ log = [s \in Server |-> <<>>]
    /\ lastIncludedIndex = [s \in Server |-> 0]
    /\ lastIncludedTerm = [s \in Server |-> 0]
    /\ snapshotData = [s \in Server |-> <<>>]
    /\ commitIndex = [s \in Server |-> 0]
    /\ lastApplied = [s \in Server |-> 0]
    /\ pendingSnapshot = [s \in Server |-> Nil]
    /\ nextIndex = [s \in Server |-> [p \in Server |-> 1]]
    /\ matchIndex = [s \in Server |-> [p \in Server |-> 0]]
    /\ repl = [s \in Server |-> [p \in Server |-> "idle"]]
    /\ spawned = [s \in Server |-> {}]
    /\ votes = [s \in Server |-> [b \in 1 .. MaxTerm |->
                  IF s = FirstLeader /\ b = 1
                  THEN [term |-> 1, voters |-> {FirstLeader, FirstVoter}]
                  ELSE [term |-> 0, voters |-> {}]]]
    /\ applyPC = [s \in Server |-> "idle"]
    /\ applyCh = [s \in Server |-> <<>>]
    /\ sm = [s \in Server |-> <<>>]
    /\ disk = [s \in Server |->
                    [currentTerm |-> 1, votedFor |-> FirstLeader, log |-> <<>>,
                     lastIncludedIndex |-> 0, lastIncludedTerm |-> 0]]
    /\ snapFile = [s \in Server |-> <<>>]
    /\ epoch = [s \in Server |-> 0]
    /\ rpcs = {}
    /\ elections = 1 /\ rounds = 0
    /\ committed = <<>>
InitLed == Led /\ restarts = 0 /\ drops = 0

\* A later state of the same start, with a third node left behind: FirstLeader
\* replicated and committed one command with FirstVoter, which executed and
\* compacted it and then won term 2 with FirstLeader's vote.  The others are
\* still in term 1 with empty logs.  The new leader must find out by backing
\* nextIndex off, send its snapshot and go on with entries.  (Its own apply
\* loop rests in that run: by compacting the next entry too it would send the
\* follower a snapshot whether or not nextIndex was backed off.)
First == CHOOSE c \in Command : TRUE
Known == {FirstLeader, FirstVoter}
InitBehind ==
    LET at(v, s, x, y) == IF s = v THEN x ELSE y
        entry == [term |-> 1, command |-> First]
        term(s) == IF s \in Known THEN 2 ELSE 1
        vote(s) == IF s \in Known THEN FirstVoter ELSE FirstLeader
        entries(s) == at(FirstLeader, s, <<entry>>, <<>>)
        executed(s) == at(FirstVoter, s, <<First>>, <<>>)
        included(s) == at(FirstVoter, s, 1, 0)
    IN
    /\ state = [s \in Server |-> at(FirstVoter, s, Leader, Follower)]
    /\ currentTerm = [s \in Server |-> term(s)]
    /\ votedFor = [s \in Server |-> vote(s)]
    /\ log = [s \in Server |-> entries(s)]
    /\ lastIncludedIndex = [s \in Server |-> included(s)]
    /\ lastIncludedTerm = [s \in Server |-> included(s)]
    /\ snapshotData = [s \in Server |-> executed(s)]
    /\ commitIndex = [s \in Server |-> IF s \in Known THEN 1 ELSE 0]
    /\ lastApplied = [s \in Server |-> included(s)]
    /\ pendingSnapshot = [s \in Server |-> Nil]
    /\ nextIndex = [s \in Server |-> [p \in Server |->
                      IF s = FirstVoter \/ (s = FirstLeader /\ p = FirstVoter) THEN 2 ELSE 1]]
    /\ matchIndex = [s \in Server |-> [p \in Server |->
                      IF s = FirstLeader /\ p = FirstVoter THEN 1 ELSE 0]]
    /\ repl = [s \in Server |-> [p \in Server |-> "idle"]]
    /\ spawned = [s \in Server |-> {}]
    /\ votes = [s \in Server |-> [b \in 1 .. MaxTerm |->
                  IF <<s, b>> \in {<<FirstLeader, 1>>, <<FirstVoter, 2>>}
                  THEN [term |-> b, voters |-> Known]
                  ELSE [term |-> 0, voters |-> {}]]]
    /\ applyPC = [s \in Server |-> "idle"]
    /\ applyCh = [s \in Server |-> <<>>]
    /\ sm = [s \in Server |-> executed(s)]
    /\ disk = [s \in Server |->
                    [currentTerm |-> term(s), votedFor |-> vote(s), log |-> entries(s),
                     lastIncludedIndex |-> included(s), lastIncludedTerm |-> included(s)]]
    /\ snapFile = [s \in Server |-> executed(s)]
    /\ epoch = [s \in Server |-> 0]
    /\ rpcs = {}
    /\ elections = 2 /\ restarts = 0 /\ drops = 0 /\ rounds = 0
    /\ committed = <<entry>>

SpecLed == InitLed /\ [][Next]_vars

\* The state machine's runs leave out one interleaving, which has a run of its
\* own because it breaks everything they are about: InstallSnapshot between two
\* iterations of applyPending, whose snapshot the remaining entries overtake.
BetweenTicks == \A s \in Server : applyPC[s] = "applying" => pendingSnapshot[s] = Nil
SpecBetweenTicks == InitLed /\ [][Next /\ BetweenTicks']_vars

Symmetry == Permutations(Command)

\* From either start: with a node left behind and faults still to come, or
\* with an election still to come and the budget of faults spent.
InitLive == InitBehind \/ (Led /\ restarts = MaxRestarts /\ drops = MaxDrops)
LiveSpec == InitLive /\ [][Next]_vars /\ Fairness
=============================================================================
