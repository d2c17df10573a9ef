-------------------------------- MODULE Raft --------------------------------
(***************************************************************************)
(* The Raft consensus of a group (libconsensus/raft), which a chain may be *)
(* configured with in place of PBFT.  A leader is elected by a majority; a *)
(* node gives its vote only to the second request it sees, the first one   *)
(* is answered FIRST_VOTE.  The leader puts its sealed block, the          *)
(* "uncommitted" one, into its heartbeats and commits it once a majority   *)
(* has acknowledged it; the others get the committed block from the block  *)
(* synchronisation.                                                        *)
(*                                                                         *)
(* Two threads of a node are modelled.  The engine runs as follower,       *)
(* candidate or leader and handles one message at a time.  The sealer      *)
(* seals a block and waits in commit() until the engine lets it commit.    *)
(* They share the uncommitted block (m_commitMutex) and the highest block  *)
(* (m_mutex); `engine` and `sealer` say where each thread is between two   *)
(* critical sections.  Timeouts may fire at any time.                      *)
(***************************************************************************)
EXTENDS Naturals, Sequences, FiniteSets, Folds

CONSTANTS
  N,            \* m_nodeNum, the sealers of the group
  MaxTerm,      \* bound: terms an election may reach
  MaxBlocks,    \* bound: blocks sealed, by all nodes together
  LinkLimit,    \* bound: messages on the way from one node to another
  MaxFaults     \* bound: messages lost and nodes restarted

ASSUME SealersAssumption == N \in Nat /\ N >= 2
ASSUME BoundsAssumption == {MaxTerm, MaxBlocks, LinkLimit, MaxFaults} \subseteq Nat

Nodes == 1..N
m_f == (N - 1) \div 2
Quorum == N - m_f
InvalidIndex == 0

Flags == {"REJECT", "LASTTERM_ERROR", "OUTDATED", "FIRST_VOTE", "DISCARD", "GRANTED"}

(* A block stands for its hash: an id, its number and the id of its parent. *)
NoBlock == [id |-> 0, number |-> 0, parent |-> 0]

VARIABLES
  role, term, lastLeaderTerm, firstVote,
  votes,    \* VoteState: how many answers of each kind, counted up to Quorum
  net,      \* net[i][j]: the messages from i to j, in order
  chain,    \* the blocks of each node, without the genesis block
  store,    \* what the threads share: uncommitted, uncommittedNumber,
            \* consensusNumber, highest (the number of m_highestBlock), acks
            \* (m_commitFingerPrint, as pairs of a block and a node)
  members,  \* m_memberBlock: height and hash by the last answer of each node
  engine,   \* what the engine does between two critical sections
  sealer,   \* at, base (the parent's number of m_sealing), syncBlock, ready, block
  made,     \* blocks sealed so far
  faults

electVars == <<role, term, lastLeaderTerm, firstVote, votes>>
boundVars == <<made, faults>>
vars == <<electVars, net, chain, store, members, engine, sealer, boundVars>>

Number(i) == Len(chain[i])
HashAt(i, n) == IF n = 0 THEN 0 ELSE chain[i][n].id
Top(i) == HashAt(i, Number(i))

EngineIdle == [at |-> "idle"]
NoVotes == [f \in Flags |-> 0]
Total(v) == MapThenFoldSet(+, 0, LAMBDA f : v[f], LAMBDA S : CHOOSE f \in S : TRUE, DOMAIN v)

(* A node as it starts, with n blocks: Sealer::start reports the highest. *)
StoreAt(n) == [uncommitted |-> NoBlock, uncommittedNumber |-> 0,
               consensusNumber |-> n + 1, highest |-> n, acks |-> {}]
SealerAt(n) == [at |-> "idle", base |-> n, syncBlock |-> FALSE, ready |-> FALSE, block |-> NoBlock]

Init ==
  /\ role = [i \in Nodes |-> "follower"]
  /\ term = [i \in Nodes |-> 0] /\ lastLeaderTerm = [i \in Nodes |-> 0]
  /\ firstVote = [i \in Nodes |-> InvalidIndex] /\ votes = [i \in Nodes |-> NoVotes]
  /\ net = [i \in Nodes |-> [j \in Nodes |-> << >>]]
  /\ chain = [i \in Nodes |-> << >>]
  /\ store = [i \in Nodes |-> StoreAt(0)]
  /\ members = [i \in Nodes |-> {}]
  /\ engine = [i \in Nodes |-> EngineIdle]
  /\ sealer = [i \in Nodes |-> SealerAt(0)]
  /\ made = 0 /\ faults = 0

-----------------------------------------------------------------------------
(* The network                                                             *)

Append1(link, m) == IF Len(link) < LinkLimit THEN Append(link, m) ELSE link
Broadcast(i, m) ==
  net' = [net EXCEPT ![i] = [j \in Nodes |-> IF j = i THEN @[j] ELSE Append1(@[j], m)]]

(* i takes the first message of j off its queue, and may answer it. *)
Receives(i, j, type) == net[j][i] # << >> /\ Head(net[j][i]).type = type /\ engine[i] = EngineIdle
Taken(i, j) == [net EXCEPT ![j][i] = Tail(@)]
Replied(nw, i, j, m) == [nw EXCEPT ![i][j] = Append1(@, m)]

-----------------------------------------------------------------------------
(* Changes of role                                                         *)

Cleared(s) == [s EXCEPT !.uncommitted = NoBlock, !.uncommittedNumber = 0]

Stored(i, s) == store' = [store EXCEPT ![i] = s]

(* A sealer that waits in commit() is woken and finds no block; s is what  *)
(* the node has stored by then.                                            *)
switchToFollower(i, s) ==
  /\ role' = [role EXCEPT ![i] = "follower"]
  /\ votes' = [votes EXCEPT ![i] = NoVotes]
  /\ IF sealer[i].at = "waiting"
     THEN /\ Stored(i, Cleared(s))
          /\ sealer' = [sealer EXCEPT ![i].ready = TRUE]
     ELSE Stored(i, s) /\ UNCHANGED sealer

(* A follower hears nothing, a leader gets no answers, a candidate has     *)
(* answers of a majority but no decision: the next term, and the own vote. *)
StartElection(i) ==
  /\ engine[i] = EngineIdle /\ term[i] < MaxTerm
  /\ role[i] = "candidate" => Total(votes[i]) >= Quorum
  /\ role' = [role EXCEPT ![i] = "candidate"]
  /\ term' = [term EXCEPT ![i] = @ + 1]
  /\ firstVote' = [firstVote EXCEPT ![i] = i]
  /\ votes' = [votes EXCEPT ![i] = [NoVotes EXCEPT !["GRANTED"] = 1]]
  /\ Broadcast(i, [type |-> "VoteReq", term |-> term[i] + 1, lastLeaderTerm |-> lastLeaderTerm[i],
                   lastBlockNumber |-> Number(i) + (IF store[i].uncommitted = NoBlock THEN 0 ELSE 1)])
  /\ UNCHANGED <<lastLeaderTerm, chain, store, members, engine, sealer, boundVars>>

(* Mutant: the role stays. *)
GivesUpAgain(i) ==
  /\ engine[i] = EngineIdle /\ role[i] = "candidate" /\ Total(votes[i]) < Quorum
  /\ term' = [term EXCEPT ![i] = @ - 1]
  /\ UNCHANGED <<role, lastLeaderTerm, firstVote, votes, net, chain, store, members, engine, sealer, boundVars>>

(* A candidate that reached no majority goes back to its former term. *)
GiveUpElection(i) ==
  /\ engine[i] = EngineIdle /\ role[i] = "candidate" /\ Total(votes[i]) < Quorum
  /\ term' = [term EXCEPT ![i] = @ - 1]
  /\ switchToFollower(i, store[i])
  /\ UNCHANGED <<lastLeaderTerm, firstVote, net, chain, members, engine, boundVars>>

-----------------------------------------------------------------------------
(* Votes                                                                   *)

OwnNumber(i) == Number(i) + (IF store[i].uncommitted = NoBlock THEN 0 ELSE 1)

(* Mutant: the term of the last leader is not compared. *)
FlagByNumber(i, req) ==
  CASE role[i] # "leader" /\ req.term <= term[i] -> "REJECT"
    [] (role[i] = "leader" \/ req.term > term[i]) /\ req.lastBlockNumber < OwnNumber(i) -> "OUTDATED"
    [] OTHER -> IF firstVote[i] = InvalidIndex THEN "FIRST_VOTE" ELSE "GRANTED"

(* A leader does not return at a request of a term that is not above its   *)
(* own: it goes on to the other checks, and LEADER_REJECT is never sent.   *)
VoteFlag(i, req) ==
  CASE role[i] # "leader" /\ req.term = term[i] -> "DISCARD"
    [] role[i] # "leader" /\ req.term < term[i] -> "REJECT"
    [] OTHER ->
       CASE req.lastLeaderTerm < lastLeaderTerm[i] -> "LASTTERM_ERROR"
         [] req.lastLeaderTerm >= lastLeaderTerm[i] /\ req.lastBlockNumber < OwnNumber(i) -> "OUTDATED"
         [] OTHER -> IF firstVote[i] = InvalidIndex THEN "FIRST_VOTE" ELSE "GRANTED"

handleVoteRequest(i, j) ==
  /\ Receives(i, j, "VoteReq")
  /\ LET req == Head(net[j][i])
         flag == VoteFlag(i, req)
         granted == flag = "GRANTED"
     IN /\ term' = [term EXCEPT ![i] = IF granted THEN req.term ELSE @]
        /\ firstVote' = [firstVote EXCEPT ![i] = IF flag \in {"FIRST_VOTE", "GRANTED"} THEN j ELSE @]
        /\ net' = Replied(Taken(i, j), i, j, [type |-> "VoteResp", term |-> term'[i], flag |-> flag])
        /\ IF granted /\ role[i] # "follower"
           THEN switchToFollower(i, store[i])
           ELSE UNCHANGED <<role, votes, store, sealer>>
  /\ UNCHANGED <<lastLeaderTerm, chain, members, engine, boundVars>>

(* Answers of an earlier term count, unless it is more than one behind,    *)
(* and so do two answers of one node.                                      *)
handleVoteResponse(i, j) ==
  /\ Receives(i, j, "VoteResp")
  /\ net' = Taken(i, j)
  /\ LET resp == Head(net[j][i])
         counted == role[i] = "candidate" /\ resp.term + 1 >= term[i]
         majority == votes[i][resp.flag] + 1 >= Quorum
     IN CASE counted /\ majority /\ resp.flag = "GRANTED" ->
               (* switchToLeader, and the first lines of runAsLeader *)
               /\ role' = [role EXCEPT ![i] = "leader"]
               /\ lastLeaderTerm' = [lastLeaderTerm EXCEPT ![i] = term[i]]
               /\ firstVote' = [firstVote EXCEPT ![i] = InvalidIndex]
               /\ votes' = [votes EXCEPT ![i] = NoVotes]
               /\ UNCHANGED <<term, store, sealer>>
          [] counted /\ majority /\ resp.flag \in {"REJECT", "LASTTERM_ERROR", "FIRST_VOTE"} ->
               /\ term' = [term EXCEPT ![i] = IF resp.flag = "FIRST_VOTE" THEN @ - 1 ELSE @]
               /\ switchToFollower(i, store[i])
               /\ UNCHANGED <<lastLeaderTerm, firstVote>>
          [] OTHER ->
               /\ votes' = IF counted /\ votes[i][resp.flag] < Quorum
                           THEN [votes EXCEPT ![i][resp.flag] = @ + 1] ELSE votes
               /\ UNCHANGED <<role, term, lastLeaderTerm, firstVote, store, sealer>>
  /\ UNCHANGED <<chain, members, engine, boundVars>>

-----------------------------------------------------------------------------
(* Heartbeats                                                              *)

(* clearFirstVoteCache empties the first vote at every tenth heartbeat; the *)
(* count of heartbeats is left out.                                        *)
clearFirstVoteCache(i) ==
  \E v \in {firstVote[i], InvalidIndex} : firstVote' = [firstVote EXCEPT ![i] = v]

broadcastHeartbeat(i) ==
  /\ engine[i] = EngineIdle /\ role[i] = "leader"
  /\ LET s == store[i]
         b == s.uncommitted
     IN /\ Broadcast(i, [type |-> "HeartBeat", term |-> term[i], block |-> b,
                         number |-> IF b = NoBlock THEN 0 ELSE s.consensusNumber])
        /\ store' = IF b = NoBlock THEN store
                    ELSE [store EXCEPT ![i].acks = @ \union {<<b.id, i>>}]
  /\ clearFirstVoteCache(i)
  /\ UNCHANGED <<role, term, lastLeaderTerm, votes, chain, members, engine, sealer, boundVars>>

(* The terms after a heartbeat of the given term, which may be below m_term. *)
AdoptTerm(i, t, s) ==
  LET stepDown == \/ t > lastLeaderTerm[i]
                  \/ t > term[i]
                  \/ role[i] = "candidate" /\ t >= term[i]
  IN /\ term' = [term EXCEPT ![i] = IF stepDown THEN t ELSE @]
     /\ lastLeaderTerm' = [lastLeaderTerm EXCEPT ![i] = t]
     /\ clearFirstVoteCache(i)
     /\ IF stepDown /\ role[i] # "follower"
        THEN switchToFollower(i, s)
        ELSE Stored(i, s) /\ UNCHANGED <<role, votes, sealer>>

Ack(i, height, hash, ack) ==
  [type |-> "HeartBeatResp", term |-> term[i], height |-> height, hash |-> hash, ack |-> ack]

SmallerTerm(i, t) == t < term[i] /\ t <= lastLeaderTerm[i]

handleEmptyHeartbeat(i, j) ==
  /\ Receives(i, j, "HeartBeat")
  /\ LET hb == Head(net[j][i])
         h == store[i].highest
     IN /\ hb.block = NoBlock /\ ~SmallerTerm(i, hb.term)
        /\ net' = Replied(Taken(i, j), i, j, Ack(i, h, HashAt(i, h), 0))
        /\ AdoptTerm(i, hb.term, store[i])
  /\ UNCHANGED <<chain, members, engine, boundVars>>

(* A smaller term, or a block that does not follow the own: no answer. *)
DropHeartbeat(i, j) ==
  /\ Receives(i, j, "HeartBeat")
  /\ LET hb == Head(net[j][i])
     IN \/ SmallerTerm(i, hb.term)
        \/ hb.block # NoBlock /\ hb.number # store[i].highest + 1
  /\ net' = Taken(i, j)
  /\ UNCHANGED <<electVars, chain, store, members, engine, sealer, boundVars>>

(* The block follows m_highestBlock; m_commitMutex is taken afterwards.    *)
handleHeartbeat(i, j) ==
  /\ Receives(i, j, "HeartBeat")
  /\ LET hb == Head(net[j][i])
         h == store[i].highest
     IN /\ hb.block # NoBlock /\ ~SmallerTerm(i, hb.term) /\ hb.number = h + 1
        /\ engine' = [engine EXCEPT ![i] = [at |-> "store", from |-> j, term |-> hb.term,
                        block |-> hb.block, height |-> h, hash |-> HashAt(i, h)]]
  /\ net' = Taken(i, j)
  /\ UNCHANGED <<electVars, chain, store, members, sealer, boundVars>>

(* The answer goes out with the term from before the change. *)
StoreUncommitted(i) ==
  /\ engine[i].at = "store"
  /\ LET e == engine[i]
     IN /\ net' = Replied(net, i, e.from, Ack(i, e.height, e.hash, e.block.id))
        /\ AdoptTerm(i, e.term, [store[i] EXCEPT !.uncommitted = e.block,
                                                !.uncommittedNumber = e.height + 1])
  /\ engine' = [engine EXCEPT ![i] = EngineIdle]
  /\ UNCHANGED <<chain, members, boundVars>>

-----------------------------------------------------------------------------
(* Commits                                                                 *)

(* tryCommitUncommitedBlock: an answer that names no block, which every    *)
(* answer to an empty heartbeat does, also lets the block be committed.    *)
EngineCommits(i) ==
  IF sealer[i].at = "waiting"
  THEN sealer' = [sealer EXCEPT ![i].ready = TRUE] /\ UNCHANGED engine
  ELSE engine' = [engine EXCEPT ![i] = [at |-> "commit"]] /\ UNCHANGED sealer

tryCommitUncommitedBlock(i, j, ack) ==
  LET s == store[i]
      b == s.uncommitted
      acks == s.acks \union {<<b.id, j>>}
  IN \/ /\ b = NoBlock
        /\ UNCHANGED <<store, engine, sealer>>
     \/ /\ b # NoBlock /\ s.uncommittedNumber # s.consensusNumber
        /\ Stored(i, Cleared(s)) /\ UNCHANGED <<engine, sealer>>
     \/ /\ b # NoBlock /\ s.uncommittedNumber = s.consensusNumber
        /\ CASE ack = b.id ->
                  /\ Stored(i, [s EXCEPT !.acks = acks])
                  /\ IF Cardinality({n \in Nodes : <<b.id, n>> \in acks}) >= Quorum
                     THEN EngineCommits(i) ELSE UNCHANGED <<engine, sealer>>
             [] ack = 0 -> EngineCommits(i) /\ UNCHANGED store
             [] OTHER -> UNCHANGED <<store, engine, sealer>>

handleHeartbeatResp(i, j) ==
  /\ Receives(i, j, "HeartBeatResp")
  /\ net' = Taken(i, j)
  /\ LET resp == Head(net[j][i])
     IN IF role[i] = "leader" /\ resp.term = term[i]
        THEN /\ members' = [members EXCEPT ![i] =
                   {m \in @ : m.node # j} \union {[node |-> j, height |-> resp.height, hash |-> resp.hash]}]
             /\ tryCommitUncommitedBlock(i, j, resp.ack)
        ELSE UNCHANGED <<members, store, engine, sealer>>
  /\ UNCHANGED <<electVars, chain, boundVars>>

(* checkBlockValid, then commitBlock and checkAndSave under m_commitMutex.  *)
CanCommit(i, b) == b.number = Number(i) + 1 /\ b.parent = Top(i)
checkAndExecute(i, b) ==
  IF CanCommit(i, b)
  THEN /\ chain' = [chain EXCEPT ![i] = Append(@, b)]
       /\ Stored(i, Cleared(store[i]))
  ELSE UNCHANGED <<chain, store>>

(* reportBlock of a block with number n. *)
Reported(i, n) ==
  LET s == store[i]
  IN IF Number(i) = 0 \/ s.highest < n
     THEN [Cleared(s) EXCEPT !.highest = Number(i),
             !.acks = {a \in @ : a[1] # s.uncommitted.id},
             !.consensusNumber = IF Number(i) >= @ THEN Number(i) + 1 ELSE @]
     ELSE s

(* The engine commits what m_uncommittedBlock holds by now, and reports    *)
(* what it holds after that: nothing, when the commit succeeded.           *)
ExecuteUncommitted(i) ==
  /\ engine[i].at = "commit"
  /\ checkAndExecute(i, store[i].uncommitted)
  /\ sealer' = [sealer EXCEPT ![i].syncBlock = @ \/ chain'[i] # chain[i]]
  /\ engine' = [engine EXCEPT ![i] = [at |-> "report"]]
  /\ UNCHANGED <<electVars, net, members, boundVars>>

ReportUncommitted(i) ==
  /\ engine[i].at = "report"
  /\ Stored(i, Reported(i, store[i].uncommitted.number))
  /\ engine' = [engine EXCEPT ![i] = EngineIdle]
  /\ UNCHANGED <<electVars, net, chain, members, sealer, boundVars>>

-----------------------------------------------------------------------------
(* The sealer thread                                                       *)

reportNewBlock(i) ==
  /\ sealer[i].at = "idle" /\ sealer[i].syncBlock
  /\ Stored(i, Reported(i, Number(i)))
  /\ sealer' = [sealer EXCEPT ![i].syncBlock = FALSE, ![i].base = Number(i)]
  /\ UNCHANGED <<electVars, net, chain, members, engine, boundVars>>

(* Mutant: who has answered counts, whatever it has. *)
MajorityAnswered(i) == 1 + Cardinality(members[i]) >= Quorum
MajorityHolds(i) ==
  LET h == store[i].highest
      agree == {m \in members[i] : m.height = h /\ m.hash = HashAt(i, h)}
  IN 1 + Cardinality(agree) >= Quorum /\ \A m \in members[i] : m.height <= h

(* In doWork it follows reportNewBlock at once. *)
shouldSeal(i) ==
  /\ sealer[i].at = "idle" /\ ~sealer[i].syncBlock
  /\ role[i] = "leader" /\ MajorityHolds(i) /\ store[i].uncommitted = NoBlock
  /\ sealer' = [sealer EXCEPT ![i].at = "granted"]
  /\ UNCHANGED <<electVars, net, chain, store, members, engine, boundVars>>

(* shouldHandleBlock, then commit() up to its wait. *)
handleBlock(i) ==
  /\ sealer[i].at = "granted" /\ sealer[i].base = Number(i) /\ made < MaxBlocks
  /\ made' = made + 1
  /\ LET b == [id |-> made + 1, number |-> Number(i) + 1, parent |-> Top(i)]
     IN /\ Stored(i, [store[i] EXCEPT !.uncommitted = b, !.uncommittedNumber = store[i].consensusNumber])
        /\ sealer' = [sealer EXCEPT ![i].at = "waiting", ![i].ready = FALSE, ![i].block = b]
  /\ UNCHANGED <<electVars, net, chain, members, engine, faults>>

(* The chain has grown, or there are no transactions yet. *)
NotHandled(i) ==
  /\ sealer[i].at = "granted"
  /\ sealer' = [sealer EXCEPT ![i].at = "idle"]
  /\ UNCHANGED <<electVars, net, chain, store, members, engine, boundVars>>

(* commit() returns from its wait; if it fails, reset() starts a new block. *)
Wake(i) ==
  /\ sealer[i].at = "waiting" /\ sealer[i].ready
  /\ sealer' = IF store[i].uncommitted # NoBlock /\ role[i] = "leader"
               THEN [sealer EXCEPT ![i].at = "executing", ![i].ready = FALSE]
               ELSE [sealer EXCEPT ![i] = [SealerAt(Number(i)) EXCEPT !.syncBlock = sealer[i].syncBlock]]
  /\ UNCHANGED <<electVars, net, chain, store, members, engine, boundVars>>

CommitSealed(i) ==
  /\ sealer[i].at = "executing"
  /\ checkAndExecute(i, sealer[i].block)
  /\ sealer' = IF CanCommit(i, sealer[i].block)
               THEN [sealer EXCEPT ![i] = [SealerAt(@.base) EXCEPT !.syncBlock = TRUE]]
               ELSE [sealer EXCEPT ![i] = [SealerAt(Number(i)) EXCEPT !.syncBlock = sealer[i].syncBlock]]
  /\ UNCHANGED <<electVars, net, members, engine, boundVars>>

-----------------------------------------------------------------------------
(* The rest of the node, and faults                                        *)

(* The synchronisation takes over the next block of a longer chain.        *)
SyncBlock(i, j) ==
  /\ Number(j) > Number(i) /\ HashAt(j, Number(i)) = Top(i)
  /\ chain' = [chain EXCEPT ![i] = Append(@, chain[j][Number(i) + 1])]
  /\ sealer' = [sealer EXCEPT ![i].syncBlock = TRUE]
  /\ UNCHANGED <<electVars, net, store, members, engine, boundVars>>

Fault == faults < MaxFaults /\ faults' = faults + 1

Lose(i, j) ==
  /\ Fault /\ net[i][j] # << >>
  /\ net' = [net EXCEPT ![i][j] = Tail(@)]
  /\ UNCHANGED <<electVars, chain, store, members, engine, sealer, made>>

(* Only the chain is kept on disk: the terms start again at 0. *)
Restart(i) ==
  /\ Fault
  /\ role' = [role EXCEPT ![i] = "follower"]
  /\ term' = [term EXCEPT ![i] = 0] /\ lastLeaderTerm' = [lastLeaderTerm EXCEPT ![i] = 0]
  /\ firstVote' = [firstVote EXCEPT ![i] = InvalidIndex] /\ votes' = [votes EXCEPT ![i] = NoVotes]
  /\ net' = [k \in Nodes |-> [j \in Nodes |-> IF i \in {j, k} THEN << >> ELSE net[k][j]]]
  /\ Stored(i, StoreAt(Number(i)))
  /\ members' = [members EXCEPT ![i] = {}]
  /\ engine' = [engine EXCEPT ![i] = EngineIdle]
  /\ sealer' = [sealer EXCEPT ![i] = SealerAt(Number(i))]
  /\ UNCHANGED <<chain, made>>

Next ==
  \/ \E i \in Nodes :
       \/ StartElection(i) \/ GiveUpElection(i) \/ broadcastHeartbeat(i)
       \/ StoreUncommitted(i) \/ ExecuteUncommitted(i) \/ ReportUncommitted(i)
       \/ reportNewBlock(i) \/ shouldSeal(i) \/ handleBlock(i) \/ NotHandled(i)
       \/ Wake(i) \/ CommitSealed(i) \/ Restart(i)
  \/ \E i \in Nodes : \E j \in Nodes \ {i} :
       \/ handleVoteRequest(i, j) \/ handleVoteResponse(i, j)
       \/ handleEmptyHeartbeat(i, j) \/ DropHeartbeat(i, j) \/ handleHeartbeat(i, j)
       \/ handleHeartbeatResp(i, j) \/ SyncBlock(i, j) \/ Lose(i, j)

Spec == Init /\ [][Next]_vars

-----------------------------------------------------------------------------
(* Properties                                                              *)

(* The variables of the election and the places of the two threads.        *)
TypeOK ==
  /\ role \in [Nodes -> {"follower", "candidate", "leader"}]
  /\ term \in [Nodes -> 0..MaxTerm] /\ lastLeaderTerm \in [Nodes -> 0..MaxTerm]
  /\ firstVote \in [Nodes -> 0..N] /\ votes \in [Nodes -> [Flags -> 0..Quorum]]
  /\ \A i \in Nodes : \A j \in Nodes : Len(net[i][j]) <= LinkLimit
  /\ \A i \in Nodes : /\ engine[i].at \in {"idle", "store", "commit", "report"}
                      /\ sealer[i].at \in {"idle", "granted", "waiting", "executing"}
                      /\ store[i].highest \in 0..Number(i)

(* A leader keeps its term as long as it leads, and one that has not       *)
(* crashed leaves office, to follow or to stand again, only for a higher   *)
(* term.  handleVoteRequest does not return for a leader at a request of a *)
(* lower or the same term: it is the last leader's term which keeps an     *)
(* older candidate from its vote, and the leader from that candidate's     *)
(* term.                                                                   *)
LeaderKeepsTerm ==
  [][\A i \in Nodes : role[i] = "leader" =>
       /\ role'[i] = "leader" => term'[i] = term[i]
       /\ role'[i] # "leader" /\ faults' = faults => term'[i] > term[i]]_vars

(* A block is sealed only on a parent that a majority has on its chain, by  *)
(* answers to heartbeats that may be old and of other terms.               *)
SealsOnMajorityParent ==
  \A i \in Nodes : sealer[i].at \in {"waiting", "executing"} =>
    LET b == sealer[i].block
    IN Cardinality({j \in Nodes : Number(j) >= b.number - 1 /\ HashAt(j, b.number - 1) = b.parent}) >= Quorum

(* The block a sealer is let commit has been acknowledged by a majority.   *)
CommittedByMajority ==
  \A i \in Nodes : (sealer[i].at = "executing" /\ store[i].uncommitted # NoBlock) =>
    Cardinality({n \in Nodes : <<store[i].uncommitted.id, n>> \in store[i].acks}) >= Quorum
=============================================================================
