----------------------------- MODULE RaftProofs -----------------------------
(***************************************************************************)
(* Theorems about Raft, for every number of sealers and every bound: type  *)
(* correctness, that a leader only steps down for a higher term, and that  *)
(* blocks are sealed on parents that a majority has.                       *)
(***************************************************************************)
EXTENDS Raft, FiniteSetTheorems, TLAPS

Terms == 0..MaxTerm
Block == [id : Nat, number : Nat, parent : Nat]

VoteReq == {m \in [type : {"VoteReq"}, term : Terms, lastLeaderTerm : Terms, lastBlockNumber : Nat] :
              m.lastLeaderTerm < m.term}
VoteResp == [type : {"VoteResp"}, term : Terms, flag : Flags]
HeartBeat == [type : {"HeartBeat"}, term : Terms, block : Block, number : Nat]
HeartBeatResp == [type : {"HeartBeatResp"}, term : Terms, height : Nat, hash : Nat, ack : Nat]
Message == VoteReq \cup VoteResp \cup HeartBeat \cup HeartBeatResp
Link == {l \in Seq(Message) : Len(l) <= LinkLimit}

Store == [uncommitted : Block, uncommittedNumber : Nat, consensusNumber : Nat, highest : Nat,
          acks : SUBSET (Nat \X Nodes)]
Storing == [at : {"store"}, from : Nodes, term : Terms, block : Block, height : Nat, hash : Nat]
Engine == [at : {"idle", "commit", "report"}] \cup Storing
Sealer == [at : {"idle", "granted", "waiting", "executing"}, base : Nat, syncBlock : BOOLEAN,
           ready : BOOLEAN, block : Block]

(* What a candidate asks for is above every leader's term it has seen; a   *)
(* leader's own term is the last one it has seen.                          *)
TermsInOrder ==
  /\ role \in [Nodes -> {"follower", "candidate", "leader"}]
  /\ term \in [Nodes -> Terms] /\ lastLeaderTerm \in [Nodes -> Terms]
  /\ \A i \in Nodes :
       /\ lastLeaderTerm[i] <= term[i]
       /\ role[i] = "candidate" => lastLeaderTerm[i] < term[i]
       /\ role[i] = "leader" => lastLeaderTerm[i] = term[i]

VotesType == firstVote \in [Nodes -> 0..N] /\ votes \in [Nodes -> [Flags -> 0..Quorum]]

NetType == net \in [Nodes -> [Nodes -> Link]]

StoreType ==
  /\ chain \in [Nodes -> Seq(Block)] /\ store \in [Nodes -> Store]
  /\ \A i \in Nodes : store[i].highest <= Len(chain[i])
  /\ made \in Nat /\ faults \in Nat

ThreadType ==
  /\ engine \in [Nodes -> Engine] /\ sealer \in [Nodes -> Sealer]
  /\ \A i \in Nodes : engine[i].at = "store" => ~SmallerTerm(i, engine[i].term)

(* Every action keeps it: the types, and the order of the terms.           *)
IInv == TermsInOrder /\ VotesType /\ NetType /\ StoreType /\ ThreadType

AllAssumptions == /\ N \in Nat /\ N >= 2 /\ MaxTerm \in Nat /\ LinkLimit \in Nat
                  /\ MaxBlocks \in Nat /\ MaxFaults \in Nat

(* A majority is at least one node. *)
LEMMA Constant == AllAssumptions /\ Quorum \in Nat /\ Quorum >= 1 /\ Nodes \subseteq 0..N /\ 0 \in 0..N
<1>1. AllAssumptions  BY SealersAssumption, BoundsAssumption DEF AllAssumptions
<1>2. m_f \in Nat /\ m_f <= N - 1  BY <1>1 DEF m_f, AllAssumptions
<1> QED  BY <1>1, <1>2 DEF Quorum, Nodes, AllAssumptions

LEMMA NoBlockType == NoBlock \in Block
  BY DEF NoBlock, Block

(* The links keep their types as messages are sent and taken.              *)
LEMMA Sent ==
  ASSUME NEW l \in Link, NEW m \in Message
  PROVE  Append1(l, m) \in Link
<1>1. Append(l, m) \in Seq(Message) /\ Len(Append(l, m)) = Len(l) + 1  BY DEF Link
<1> QED  BY <1>1, Constant DEF Append1, Link, AllAssumptions

LEMMA TookOne ==
  ASSUME NEW l \in Link, l # << >>
  PROVE  Tail(l) \in Link /\ Head(l) \in Message
<1>1. Tail(l) \in Seq(Message) /\ Len(Tail(l)) = Len(l) - 1 /\ Head(l) \in Message  BY DEF Link
<1> QED  BY <1>1, Constant DEF Link, AllAssumptions

LEMMA BroadcastKeeps ==
  ASSUME NetType, NEW i \in Nodes, NEW m \in Message, Broadcast(i, m)
  PROVE  NetType'
  BY Sent DEF NetType, Broadcast

LEMMA TakenKeeps ==
  ASSUME NetType, NEW i \in Nodes, NEW j \in Nodes, net[j][i] # << >>
  PROVE  /\ Taken(i, j) \in [Nodes -> [Nodes -> Link]]
         /\ Head(net[j][i]) \in Message
  BY TookOne DEF NetType, Taken

LEMMA RepliedKeeps ==
  ASSUME NEW nw \in [Nodes -> [Nodes -> Link]], NEW i \in Nodes, NEW j \in Nodes, NEW m \in Message
  PROVE  Replied(nw, i, j, m) \in [Nodes -> [Nodes -> Link]]
  BY Sent DEF Replied

(* What a node does to its store and its sealer when it steps down.        *)
LEMMA StepDownKeeps ==
  ASSUME ThreadType, VotesType, StoreType, NEW i \in Nodes, NEW s \in Store, s.highest <= Len(chain[i]),
         switchToFollower(i, s), chain' = chain, made' = made, faults' = faults
  PROVE  /\ StoreType' /\ sealer' \in [Nodes -> Sealer] /\ votes' \in [Nodes -> [Flags -> 0..Quorum]]
         /\ role' = [role EXCEPT ![i] = "follower"]
<1>1. Cleared(s) \in Store /\ Cleared(s).highest = s.highest  BY NoBlockType DEF Cleared, Store
<1>2. NoVotes \in [Flags -> 0..Quorum]  BY Constant DEF NoVotes
<1>3. StoreType'  BY <1>1 DEF switchToFollower, Stored, StoreType
<1>4. sealer' \in [Nodes -> Sealer]
  <2>1. CASE sealer[i].at = "waiting"
    <3>1. sealer[i] \in Sealer  BY DEF ThreadType
    <3>2. [sealer[i] EXCEPT !.ready = TRUE] \in Sealer  BY <3>1 DEF Sealer
    <3>3. sealer' = [sealer EXCEPT ![i] = [sealer[i] EXCEPT !.ready = TRUE]]
      BY <2>1 DEF switchToFollower
    <3> QED  BY <3>2, <3>3 DEF ThreadType
  <2>2. CASE sealer[i].at # "waiting"  BY <2>2 DEF switchToFollower, ThreadType
  <2> QED  BY <2>1, <2>2
<1> QED  BY <1>2, <1>3, <1>4 DEF switchToFollower, VotesType

-----------------------------------------------------------------------------
(* One lemma per action: it keeps the invariant, a leader that stays one    *)
(* keeps its term, and none that has not crashed leaves office without a    *)
(* higher term.                                                             *)

KeepsTerm == \A k \in Nodes : role[k] = "leader" =>
  /\ role'[k] = "leader" => term'[k] = term[k]
  /\ role'[k] # "leader" /\ faults' = faults => term'[k] > term[k]

(* An engine that is not storing a block has nothing that a term could     *)
(* outdate.                                                                *)
LEMMA ThreadKeeps ==
  ASSUME ThreadType, NEW i \in Nodes, engine' \in [Nodes -> Engine], sealer' \in [Nodes -> Sealer],
         engine'[i].at # "store",
         \A k \in Nodes \ {i} : engine'[k] = engine[k] /\ term'[k] = term[k]
                                /\ lastLeaderTerm'[k] = lastLeaderTerm[k]
  PROVE  ThreadType'
  BY DEF ThreadType, SmallerTerm

LEMMA StepStartElection ==
  ASSUME IInv, NEW i \in Nodes, StartElection(i)
  PROVE  IInv' /\ KeepsTerm
<1> USE Constant DEF IInv
<1>1. TermsInOrder' /\ KeepsTerm
  BY DEF TermsInOrder, StartElection, KeepsTerm, Terms, AllAssumptions
<1>2. VotesType'
  <2>1. NoVotes \in [Flags -> 0..Quorum]  BY DEF NoVotes
  <2>2. 1 \in 0..Quorum /\ "GRANTED" \in Flags  BY DEF Flags
  <2>3. [NoVotes EXCEPT !["GRANTED"] = 1] \in [Flags -> 0..Quorum]  BY <2>1, <2>2
  <2> QED  BY <2>3 DEF VotesType, StartElection
<1>3. NetType'
  <2>1. Number(i) \in Nat  BY DEF StoreType, Number
  <2>2. [type |-> "VoteReq", term |-> term[i] + 1, lastLeaderTerm |-> lastLeaderTerm[i],
         lastBlockNumber |-> Number(i) + (IF store[i].uncommitted = NoBlock THEN 0 ELSE 1)] \in Message
    BY <2>1 DEF TermsInOrder, StartElection, Message, VoteReq, Terms, AllAssumptions
  <2> QED  BY <2>2, BroadcastKeeps DEF StartElection
<1>4. StoreType'  BY DEF StoreType, StartElection, boundVars
<1>5. ThreadType'
  <2>1. engine[i].at # "store"  BY DEF StartElection, EngineIdle
  <2>2. \A k \in Nodes \ {i} : term'[k] = term[k] /\ lastLeaderTerm'[k] = lastLeaderTerm[k]
    BY DEF StartElection, TermsInOrder
  <2> QED  BY <2>1, <2>2, ThreadKeeps DEF StartElection, ThreadType
<1> QED  BY <1>1, <1>2, <1>3, <1>4, <1>5

LEMMA StepGiveUpElection ==
  ASSUME IInv, NEW i \in Nodes, GiveUpElection(i)
  PROVE  IInv' /\ KeepsTerm
<1> USE Constant DEF IInv
<1>1. /\ StoreType' /\ sealer' \in [Nodes -> Sealer] /\ votes' \in [Nodes -> [Flags -> 0..Quorum]]
      /\ role' = [role EXCEPT ![i] = "follower"]
  <2>1. store[i] \in Store /\ store[i].highest <= Len(chain[i])  BY DEF StoreType
  <2> QED  BY <2>1, StepDownKeeps DEF GiveUpElection, boundVars
<1>2. TermsInOrder' /\ KeepsTerm
  BY <1>1 DEF TermsInOrder, GiveUpElection, KeepsTerm, Terms, AllAssumptions
<1>3. VotesType' /\ NetType'  BY <1>1 DEF VotesType, NetType, GiveUpElection
<1>4. ThreadType'
  <2>1. engine[i].at # "store"  BY DEF GiveUpElection, EngineIdle
  <2>2. \A k \in Nodes \ {i} : term'[k] = term[k] /\ lastLeaderTerm'[k] = lastLeaderTerm[k]
    BY DEF GiveUpElection, TermsInOrder
  <2> QED  BY <1>1, <2>1, <2>2, ThreadKeeps DEF GiveUpElection, ThreadType
<1> QED  BY <1>1, <1>2, <1>3, <1>4

LEMMA FirstVoteCache ==
  ASSUME VotesType, NEW i \in Nodes, clearFirstVoteCache(i)
  PROVE  firstVote' \in [Nodes -> 0..N]
  BY Constant DEF VotesType, clearFirstVoteCache, InvalidIndex

LEMMA StepBroadcastHeartbeat ==
  ASSUME IInv, NEW i \in Nodes, broadcastHeartbeat(i)
  PROVE  IInv' /\ KeepsTerm
<1> USE Constant DEF IInv
<1>1. TermsInOrder' /\ KeepsTerm  BY DEF TermsInOrder, broadcastHeartbeat, KeepsTerm
<1>2. VotesType'
  <2>1. firstVote' \in [Nodes -> 0..N]  BY FirstVoteCache DEF broadcastHeartbeat
  <2> QED  BY <2>1 DEF VotesType, broadcastHeartbeat
<1> DEFINE s == store[i]
           b == s.uncommitted
           hb == [type |-> "HeartBeat", term |-> term[i], block |-> b,
                  number |-> IF b = NoBlock THEN 0 ELSE s.consensusNumber]
<1>3. s \in Store  BY DEF StoreType
<1>4. NetType'
  <2>1. hb \in Message  BY <1>3 DEF TermsInOrder, Message, HeartBeat, Store
  <2>2. Broadcast(i, hb)  BY DEF broadcastHeartbeat
  <2> QED  BY <2>1, <2>2, BroadcastKeeps
<1>5. StoreType'
  <2>1. CASE b = NoBlock
    <3>1. store' = store  BY <2>1 DEF broadcastHeartbeat
    <3> QED  BY <3>1 DEF StoreType, broadcastHeartbeat, boundVars
  <2>2. CASE b # NoBlock
    <3>1. store' = [store EXCEPT ![i] = [s EXCEPT !.acks = @ \cup {<<b.id, i>>}]]
      BY <2>2 DEF broadcastHeartbeat
    <3>2. b.id \in Nat  BY <1>3 DEF Store, Block
    <3>3. [s EXCEPT !.acks = @ \cup {<<b.id, i>>}] \in Store
          /\ [s EXCEPT !.acks = @ \cup {<<b.id, i>>}].highest = s.highest
      BY <1>3, <3>2 DEF Store
    <3> HIDE DEF s, b
    <3> QED  BY <3>1, <3>3 DEF StoreType, broadcastHeartbeat, boundVars, s
  <2> QED  BY <2>1, <2>2
<1>6. ThreadType'  BY DEF ThreadType, broadcastHeartbeat, SmallerTerm
<1> QED  BY <1>1, <1>2, <1>4, <1>5, <1>6

LEMMA StepHandleVoteRequest ==
  ASSUME IInv, NEW i \in Nodes, NEW j \in Nodes, handleVoteRequest(i, j)
  PROVE  IInv' /\ KeepsTerm
<1> USE Constant DEF IInv
<1> DEFINE req == Head(net[j][i])
           flag == VoteFlag(i, req)
           resp == [type |-> "VoteResp", term |-> term'[i], flag |-> flag]
<1>1. req \in VoteReq /\ Taken(i, j) \in [Nodes -> [Nodes -> Link]]
  <2>1. req \in Message /\ req.type = "VoteReq" /\ Taken(i, j) \in [Nodes -> [Nodes -> Link]]
    BY TakenKeeps DEF handleVoteRequest, Receives
  <2> QED  BY <2>1 DEF Message, VoteReq, VoteResp, HeartBeat, HeartBeatResp
<1>2. flag \in Flags
  BY DEF VoteFlag, Flags
(* A vote is granted only for a higher term, by a leader too: its term is  *)
(* the last leader's, below which no request's last leader's term may be.  *)
<1>3. flag = "GRANTED" => req.term > term[i]
  <2>1. req.term \in Nat /\ req.lastLeaderTerm \in Nat /\ req.lastLeaderTerm < req.term
    BY <1>1 DEF VoteReq, Terms, AllAssumptions
  <2>2. term[i] \in Nat /\ lastLeaderTerm[i] \in Nat /\ lastLeaderTerm[i] <= term[i]
        /\ (role[i] = "leader" => lastLeaderTerm[i] = term[i])
    BY DEF TermsInOrder, Terms, AllAssumptions
  <2> HIDE DEF req
  <2>3. CASE role[i] = "leader"
    <3>1. flag = "GRANTED" => ~(req.lastLeaderTerm < lastLeaderTerm[i])  BY <2>3 DEF VoteFlag
    <3> QED  BY <2>1, <2>2, <2>3, <3>1
  <2>4. CASE role[i] # "leader"
    <3>1. flag = "GRANTED" => req.term # term[i] /\ ~(req.term < term[i])  BY <2>4 DEF VoteFlag
    <3> QED  BY <2>1, <2>2, <3>1
  <2> QED  BY <2>3, <2>4
<1> HIDE DEF req, flag
<1>4. /\ term' = [term EXCEPT ![i] = IF flag = "GRANTED" THEN req.term ELSE @]
      /\ firstVote' = [firstVote EXCEPT ![i] = IF flag \in {"FIRST_VOTE", "GRANTED"} THEN j ELSE @]
      /\ net' = Replied(Taken(i, j), i, j, resp)
      /\ IF flag = "GRANTED" /\ role[i] # "follower"
         THEN switchToFollower(i, store[i]) ELSE UNCHANGED <<role, votes, store, sealer>>
      /\ UNCHANGED <<lastLeaderTerm, chain, members, engine, boundVars>>
  BY DEF handleVoteRequest, req, flag
<1>5. engine[i] = EngineIdle  BY DEF handleVoteRequest, Receives
<1>6. /\ StoreType' /\ sealer' \in [Nodes -> Sealer] /\ votes' \in [Nodes -> [Flags -> 0..Quorum]]
      /\ \/ role' = [role EXCEPT ![i] = "follower"]
         \/ role' = role /\ (flag = "GRANTED" => role[i] = "follower")
  <2>1. CASE flag = "GRANTED" /\ role[i] # "follower"
    <3>1. store[i] \in Store /\ store[i].highest <= Len(chain[i])  BY DEF StoreType
    <3> QED  BY <1>4, <2>1, <3>1, StepDownKeeps DEF boundVars
  <2>2. CASE ~(flag = "GRANTED" /\ role[i] # "follower")
    BY <1>4, <2>2 DEF boundVars, StoreType, ThreadType, VotesType
  <2> QED  BY <2>1, <2>2
<1>7. TermsInOrder' /\ KeepsTerm
  <2>1. req.term \in Terms  BY <1>1 DEF VoteReq
  <2>2. CASE flag = "GRANTED"
    BY <1>3, <1>4, <1>6, <2>1, <2>2 DEF TermsInOrder, KeepsTerm, Terms, AllAssumptions
  <2>3. CASE flag # "GRANTED"
    <3>1. role' = role /\ term' = term  BY <1>4, <2>3 DEF TermsInOrder
    <3> QED  BY <1>4, <3>1 DEF TermsInOrder, KeepsTerm
  <2> QED  BY <2>2, <2>3
<1>8. VotesType'  BY <1>4, <1>6 DEF VotesType
<1>9. NetType'
  <2>1. term'[i] \in Terms  BY <1>7 DEF TermsInOrder
  <2>2. resp \in Message  BY <1>2, <2>1 DEF Message, VoteResp
  <2> QED  BY <1>1, <1>4, <2>2, RepliedKeeps DEF NetType
<1>10. ThreadType'
  <2>1. engine[i].at # "store"  BY <1>5 DEF EngineIdle
  <2>2. \A k \in Nodes \ {i} : term'[k] = term[k] /\ lastLeaderTerm'[k] = lastLeaderTerm[k]
    BY <1>4 DEF TermsInOrder
  <2> QED  BY <1>4, <1>6, <2>1, <2>2, ThreadKeeps DEF ThreadType
<1> QED  BY <1>6, <1>7, <1>8, <1>9, <1>10

LEMMA StepHandleVoteResponse ==
  ASSUME IInv, NEW i \in Nodes, NEW j \in Nodes, handleVoteResponse(i, j)
  PROVE  IInv' /\ KeepsTerm
<1> USE Constant DEF IInv
<1> DEFINE resp == Head(net[j][i])
           counted == role[i] = "candidate" /\ resp.term + 1 >= term[i]
           majority == votes[i][resp.flag] + 1 >= Quorum
<1>1. resp \in VoteResp /\ NetType'
  <2>1. resp \in Message /\ resp.type = "VoteResp" /\ Taken(i, j) \in [Nodes -> [Nodes -> Link]]
    BY TakenKeeps DEF handleVoteResponse, Receives
  <2> QED  BY <2>1 DEF Message, VoteReq, VoteResp, HeartBeat, HeartBeatResp, NetType, handleVoteResponse
<1>2. engine[i].at # "store"  BY DEF handleVoteResponse, Receives, EngineIdle
<1>3. engine' = engine /\ chain' = chain /\ made' = made /\ faults' = faults
  BY DEF handleVoteResponse, boundVars
<1>4. NoVotes \in [Flags -> 0..Quorum]  BY DEF NoVotes
<1> HIDE DEF resp, counted, majority
<1>5. CASE counted /\ majority /\ resp.flag = "GRANTED"
  <2>1. /\ role' = [role EXCEPT ![i] = "leader"]
        /\ lastLeaderTerm' = [lastLeaderTerm EXCEPT ![i] = term[i]]
        /\ firstVote' = [firstVote EXCEPT ![i] = InvalidIndex]
        /\ votes' = [votes EXCEPT ![i] = NoVotes]
        /\ UNCHANGED <<term, store, sealer>>
    BY <1>5 DEF handleVoteResponse, resp, counted, majority
  <2>2. TermsInOrder' /\ KeepsTerm  BY <2>1 DEF TermsInOrder, KeepsTerm, Terms, AllAssumptions
  <2>3. VotesType'  BY <1>4, <2>1 DEF VotesType, InvalidIndex
  <2>4. StoreType'  BY <1>3, <2>1 DEF StoreType
  <2>5. \A k \in Nodes \ {i} : term'[k] = term[k] /\ lastLeaderTerm'[k] = lastLeaderTerm[k]
    BY <2>1 DEF TermsInOrder
  <2>6. ThreadType'  BY <1>2, <1>3, <2>1, <2>5, ThreadKeeps DEF ThreadType
  <2> QED  BY <1>1, <2>2, <2>3, <2>4, <2>6
<1>6. CASE counted /\ majority /\ resp.flag \in {"REJECT", "LASTTERM_ERROR", "FIRST_VOTE"}
  <2>1. /\ term' = [term EXCEPT ![i] = IF resp.flag = "FIRST_VOTE" THEN @ - 1 ELSE @]
        /\ switchToFollower(i, store[i])
        /\ UNCHANGED <<lastLeaderTerm, firstVote>>
    BY <1>6 DEF handleVoteResponse, resp, counted, majority
  <2>2. store[i] \in Store /\ store[i].highest <= Len(chain[i])  BY DEF StoreType
  <2>3. /\ StoreType' /\ sealer' \in [Nodes -> Sealer] /\ votes' \in [Nodes -> [Flags -> 0..Quorum]]
        /\ role' = [role EXCEPT ![i] = "follower"]
    BY <1>3, <2>1, <2>2, StepDownKeeps
  <2>4. role[i] = "candidate"  BY <1>6 DEF counted
  <2>5. TermsInOrder' /\ KeepsTerm
    BY <2>1, <2>3, <2>4 DEF TermsInOrder, KeepsTerm, Terms, AllAssumptions
  <2>6. \A k \in Nodes \ {i} : term'[k] = term[k] /\ lastLeaderTerm'[k] = lastLeaderTerm[k]
    BY <2>1 DEF TermsInOrder
  <2>7. ThreadType'  BY <1>2, <1>3, <2>3, <2>6, ThreadKeeps DEF ThreadType
  <2> QED  BY <1>1, <2>1, <2>3, <2>5, <2>7 DEF VotesType
<1>7. CASE ~(counted /\ majority /\ resp.flag \in {"GRANTED", "REJECT", "LASTTERM_ERROR", "FIRST_VOTE"})
  <2>1. /\ votes' = IF counted /\ votes[i][resp.flag] < Quorum
                    THEN [votes EXCEPT ![i][resp.flag] = @ + 1] ELSE votes
        /\ UNCHANGED <<role, term, lastLeaderTerm, firstVote, store, sealer>>
    BY <1>7 DEF handleVoteResponse, resp, counted, majority
  <2>2. VotesType'
    <3>1. resp.flag \in Flags  BY <1>1 DEF VoteResp
    <3>2. votes[i][resp.flag] \in 0..Quorum  BY <3>1 DEF VotesType
    <3>3. CASE counted /\ votes[i][resp.flag] < Quorum
      <4>1. votes[i][resp.flag] + 1 \in 0..Quorum  BY <3>2, <3>3
      <4>2. votes' = [votes EXCEPT ![i] = [@ EXCEPT ![resp.flag] = votes[i][resp.flag] + 1]]
        BY <2>1, <3>1, <3>3 DEF VotesType
      <4> QED  BY <2>1, <3>1, <4>1, <4>2 DEF VotesType
    <3>4. CASE ~(counted /\ votes[i][resp.flag] < Quorum)  BY <2>1, <3>4 DEF VotesType
    <3> QED  BY <3>3, <3>4
  <2>3. TermsInOrder' /\ KeepsTerm  BY <2>1 DEF TermsInOrder, KeepsTerm
  <2>4. StoreType' /\ ThreadType'  BY <1>3, <2>1 DEF StoreType, ThreadType, SmallerTerm
  <2> QED  BY <1>1, <2>2, <2>3, <2>4
<1> QED  BY <1>5, <1>6, <1>7

(* A heartbeat that is not dropped has the term of the last leader or a    *)
(* later one; then term and last leader's term become its own.             *)
LEMMA AdoptKeeps ==
  ASSUME IInv, NEW i \in Nodes, NEW t \in Terms, ~SmallerTerm(i, t),
         NEW s \in Store, s.highest <= Len(chain[i]), AdoptTerm(i, t, s),
         chain' = chain, made' = made, faults' = faults
  PROVE  /\ TermsInOrder' /\ KeepsTerm /\ VotesType' /\ StoreType' /\ sealer' \in [Nodes -> Sealer]
         /\ \A k \in Nodes \ {i} : term'[k] = term[k] /\ lastLeaderTerm'[k] = lastLeaderTerm[k]
<1> USE Constant DEF IInv
<1> DEFINE stepDown == \/ t > lastLeaderTerm[i]
                       \/ t > term[i]
                       \/ role[i] = "candidate" /\ t >= term[i]
<1>1. /\ term' = [term EXCEPT ![i] = IF stepDown THEN t ELSE @]
      /\ lastLeaderTerm' = [lastLeaderTerm EXCEPT ![i] = t]
      /\ clearFirstVoteCache(i)
      /\ IF stepDown /\ role[i] # "follower"
         THEN switchToFollower(i, s) ELSE Stored(i, s) /\ UNCHANGED <<role, votes, sealer>>
  BY DEF AdoptTerm
<1>2. /\ StoreType' /\ sealer' \in [Nodes -> Sealer] /\ votes' \in [Nodes -> [Flags -> 0..Quorum]]
      /\ \/ stepDown /\ role' = [role EXCEPT ![i] = "follower"]
         \/ role' = role /\ (stepDown => role[i] = "follower")
  <2>1. CASE stepDown /\ role[i] # "follower"
    BY <1>1, <2>1, StepDownKeeps
  <2>2. CASE ~(stepDown /\ role[i] # "follower")
    <3>1. Stored(i, s) /\ UNCHANGED <<role, votes, sealer>>  BY <1>1, <2>2
    <3>2. StoreType'  BY <3>1 DEF Stored, StoreType
    <3> QED  BY <2>2, <3>1, <3>2 DEF ThreadType, VotesType
  <2> QED  BY <2>1, <2>2
<1>3. TermsInOrder' /\ KeepsTerm
  <2>1. term[i] \in Nat /\ lastLeaderTerm[i] \in Nat /\ t \in Nat
        /\ ~(t < term[i] /\ t <= lastLeaderTerm[i])
    BY DEF TermsInOrder, Terms, AllAssumptions, SmallerTerm
  <2>2. term'[i] = t /\ lastLeaderTerm'[i] = t
    BY <1>1, <2>1 DEF TermsInOrder, Terms, AllAssumptions
  <2>3. role[i] = "leader" => \/ role'[i] = "leader" /\ t = term[i]
                              \/ role'[i] = "follower" /\ t > term[i]
    BY <1>2, <2>1 DEF TermsInOrder
  <2>4. role'[i] # "candidate"
    BY <1>2, <2>1 DEF TermsInOrder
  <2>5. /\ term' \in [Nodes -> Terms] /\ lastLeaderTerm' \in [Nodes -> Terms]
        /\ role' \in [Nodes -> {"follower", "candidate", "leader"}]
    BY <1>1, <1>2 DEF TermsInOrder
  <2>6. \A k \in Nodes \ {i} : term'[k] = term[k] /\ lastLeaderTerm'[k] = lastLeaderTerm[k]
                               /\ role'[k] = role[k]
    BY <1>1, <1>2 DEF TermsInOrder
  <2>7. TermsInOrder'
    <3>1. ASSUME NEW k \in Nodes
          PROVE  /\ lastLeaderTerm'[k] <= term'[k]
                 /\ role'[k] = "candidate" => lastLeaderTerm'[k] < term'[k]
                 /\ role'[k] = "leader" => lastLeaderTerm'[k] = term'[k]
      <4>1. CASE k = i  BY <2>1, <2>2, <2>4, <4>1
      <4>2. CASE k # i  BY <2>6, <4>2 DEF TermsInOrder
      <4> QED  BY <4>1, <4>2
    <3> QED  BY <2>5, <3>1 DEF TermsInOrder
  <2>8. KeepsTerm
    <3>1. ASSUME NEW k \in Nodes, role[k] = "leader"
          PROVE  /\ role'[k] = "leader" => term'[k] = term[k]
                 /\ role'[k] # "leader" => term'[k] > term[k]
      <4>1. CASE k = i  BY <2>2, <2>3, <3>1, <4>1
      <4>2. CASE k # i  BY <2>6, <3>1, <4>2
      <4> QED  BY <4>1, <4>2
    <3> QED  BY <3>1 DEF KeepsTerm
  <2> QED  BY <2>7, <2>8
<1>4. VotesType'  BY <1>1, <1>2, FirstVoteCache DEF VotesType
<1>5. \A k \in Nodes \ {i} : term'[k] = term[k] /\ lastLeaderTerm'[k] = lastLeaderTerm[k]
  BY <1>1 DEF TermsInOrder
<1> QED  BY <1>2, <1>3, <1>4, <1>5

(* m_highestBlock is on the chain, and its hash is a block's. *)
LEMMA HighestType ==
  ASSUME StoreType, NEW i \in Nodes
  PROVE  /\ store[i] \in Store /\ store[i].highest \in Nat /\ store[i].highest <= Len(chain[i])
         /\ HashAt(i, store[i].highest) \in Nat
<1>1. store[i] \in Store /\ store[i].highest \in Nat /\ store[i].highest <= Len(chain[i])
      /\ chain[i] \in Seq(Block)
  BY DEF StoreType, Store
<1>2. CASE store[i].highest = 0  BY <1>1, <1>2 DEF HashAt
<1>3. CASE store[i].highest # 0
  <2>1. chain[i][store[i].highest] \in Block  BY <1>1, <1>3
  <2> QED  BY <1>1, <1>3, <2>1 DEF HashAt, Block
<1> QED  BY <1>1, <1>2, <1>3

LEMMA HeartBeatReceived ==
  ASSUME NetType, NEW i \in Nodes, NEW j \in Nodes, Receives(i, j, "HeartBeat")
  PROVE  Head(net[j][i]) \in HeartBeat /\ Taken(i, j) \in [Nodes -> [Nodes -> Link]]
<1>1. Head(net[j][i]) \in Message /\ Head(net[j][i]).type = "HeartBeat"
      /\ Taken(i, j) \in [Nodes -> [Nodes -> Link]]
  BY TakenKeeps DEF Receives
<1> QED  BY <1>1 DEF Message, VoteReq, VoteResp, HeartBeat, HeartBeatResp

LEMMA StepHandleEmptyHeartbeat ==
  ASSUME IInv, NEW i \in Nodes, NEW j \in Nodes, handleEmptyHeartbeat(i, j)
  PROVE  IInv' /\ KeepsTerm
<1> USE Constant DEF IInv
<1> DEFINE hb == Head(net[j][i])
           h == store[i].highest
           m == Ack(i, h, HashAt(i, h), 0)
<1>1. hb \in HeartBeat /\ Taken(i, j) \in [Nodes -> [Nodes -> Link]]
  BY HeartBeatReceived DEF handleEmptyHeartbeat
<1>2. hb.term \in Terms  BY <1>1 DEF HeartBeat
<1>3. store[i] \in Store /\ h \in Nat /\ h <= Len(chain[i]) /\ HashAt(i, h) \in Nat  BY HighestType
<1>4. /\ ~SmallerTerm(i, hb.term) /\ net' = Replied(Taken(i, j), i, j, m)
      /\ AdoptTerm(i, hb.term, store[i])
      /\ UNCHANGED <<chain, members, engine, boundVars>> /\ engine[i] = EngineIdle
  BY DEF handleEmptyHeartbeat, Receives
<1> HIDE DEF hb, h
<1>5. /\ TermsInOrder' /\ KeepsTerm /\ VotesType' /\ StoreType' /\ sealer' \in [Nodes -> Sealer]
      /\ \A k \in Nodes \ {i} : term'[k] = term[k] /\ lastLeaderTerm'[k] = lastLeaderTerm[k]
  BY <1>2, <1>3, <1>4, AdoptKeeps DEF boundVars, h
<1>6. NetType'
  <2>1. m \in Message  BY <1>3 DEF Ack, Message, HeartBeatResp, TermsInOrder
  <2> QED  BY <1>1, <1>4, <2>1, RepliedKeeps DEF NetType
<1>7. ThreadType'
  <2>1. engine' = engine /\ engine[i].at # "store"  BY <1>4 DEF EngineIdle
  <2>2. engine' \in [Nodes -> Engine] /\ engine'[i].at # "store"  BY <2>1 DEF ThreadType
  <2> QED  BY <1>5, <2>1, <2>2, ThreadKeeps
<1> QED  BY <1>5, <1>6, <1>7

LEMMA StepDropHeartbeat ==
  ASSUME IInv, NEW i \in Nodes, NEW j \in Nodes, DropHeartbeat(i, j)
  PROVE  IInv' /\ KeepsTerm
<1>1. NetType'  BY HeartBeatReceived DEF DropHeartbeat, NetType, IInv
<1>2. UNCHANGED <<electVars, chain, store, members, engine, sealer, boundVars>>  BY DEF DropHeartbeat
<1> QED
  BY <1>1, <1>2 DEF IInv, KeepsTerm, electVars, boundVars, TermsInOrder, VotesType, StoreType,
     ThreadType, SmallerTerm

LEMMA StepHandleHeartbeat ==
  ASSUME IInv, NEW i \in Nodes, NEW j \in Nodes, handleHeartbeat(i, j)
  PROVE  IInv' /\ KeepsTerm
<1> USE Constant DEF IInv
<1> DEFINE hb == Head(net[j][i])
           h == store[i].highest
           e == [at |-> "store", from |-> j, term |-> hb.term, block |-> hb.block,
                 height |-> h, hash |-> HashAt(i, h)]
<1>1. hb \in HeartBeat /\ Taken(i, j) \in [Nodes -> [Nodes -> Link]]
  BY HeartBeatReceived DEF handleHeartbeat
<1>2. h \in Nat /\ HashAt(i, h) \in Nat  BY HighestType
<1>3. /\ ~SmallerTerm(i, hb.term) /\ engine' = [engine EXCEPT ![i] = e] /\ net' = Taken(i, j)
      /\ UNCHANGED <<electVars, chain, store, members, sealer, boundVars>>
  BY DEF handleHeartbeat
<1> HIDE DEF hb, h
<1>4. e \in Storing  BY <1>1, <1>2 DEF HeartBeat, Storing
<1>5. ThreadType'
  <2>1. engine' \in [Nodes -> Engine] /\ sealer' \in [Nodes -> Sealer]
    BY <1>3, <1>4 DEF ThreadType, Engine
  <2>2. \A k \in Nodes : term'[k] = term[k] /\ lastLeaderTerm'[k] = lastLeaderTerm[k]
    BY <1>3 DEF electVars
  <2> QED  BY <1>3, <2>1, <2>2 DEF ThreadType, SmallerTerm
<1> QED
  BY <1>1, <1>3, <1>5 DEF NetType, KeepsTerm, electVars, boundVars, TermsInOrder, VotesType, StoreType

LEMMA StepStoreUncommitted ==
  ASSUME IInv, NEW i \in Nodes, StoreUncommitted(i)
  PROVE  IInv' /\ KeepsTerm
<1> USE Constant DEF IInv
<1> DEFINE e == engine[i]
           s == [store[i] EXCEPT !.uncommitted = e.block, !.uncommittedNumber = e.height + 1]
           m == Ack(i, e.height, e.hash, e.block.id)
<1>1. e \in Storing /\ ~SmallerTerm(i, e.term)
  <2>1. engine[i].at = "store" /\ engine[i] \in Engine  BY DEF StoreUncommitted, ThreadType
  <2> QED  BY <2>1 DEF Engine, Storing, ThreadType
<1>2. /\ net' = Replied(net, i, e.from, m) /\ AdoptTerm(i, e.term, s)
      /\ engine' = [engine EXCEPT ![i] = EngineIdle]
      /\ UNCHANGED <<chain, members, boundVars>>
  BY DEF StoreUncommitted
<1>3. store[i] \in Store /\ store[i].highest <= Len(chain[i])  BY HighestType
<1> HIDE DEF e
<1>4. s \in Store /\ s.highest <= Len(chain[i])
  <2>1. e.block \in Block /\ e.height + 1 \in Nat  BY <1>1 DEF Storing
  <2>2. s \in Store /\ s.highest = store[i].highest  BY <1>3, <2>1 DEF Store
  <2> QED  BY <1>3, <2>2
<1>5. /\ TermsInOrder' /\ KeepsTerm /\ VotesType' /\ StoreType' /\ sealer' \in [Nodes -> Sealer]
      /\ \A k \in Nodes \ {i} : term'[k] = term[k] /\ lastLeaderTerm'[k] = lastLeaderTerm[k]
  <2>1. e.term \in Terms  BY <1>1 DEF Storing
  <2> HIDE DEF s
  <2> QED  BY <1>1, <1>2, <1>4, <2>1, AdoptKeeps DEF boundVars
<1>6. NetType'
  <2>1. m \in Message  BY <1>1 DEF Ack, Storing, Block, Message, HeartBeatResp, TermsInOrder
  <2> QED  BY <1>1, <1>2, <2>1, RepliedKeeps DEF NetType, Storing
<1>7. ThreadType'
  <2>1. engine' \in [Nodes -> Engine] /\ engine'[i].at # "store"
    BY <1>2 DEF ThreadType, Engine, EngineIdle
  <2>2. \A k \in Nodes \ {i} : engine'[k] = engine[k]  BY <1>2 DEF ThreadType
  <2> QED  BY <1>5, <2>1, <2>2, ThreadKeeps
<1> QED  BY <1>5, <1>6, <1>7

-----------------------------------------------------------------------------
(* The actions that leave the terms alone.                                 *)

LEMMA NoTermChanges ==
  ASSUME IInv, UNCHANGED <<electVars, net>>, StoreType', engine' \in [Nodes -> Engine],
         sealer' \in [Nodes -> Sealer],
         \A k \in Nodes : engine'[k].at = "store" => engine'[k] = engine[k]
  PROVE  IInv' /\ KeepsTerm
  BY DEF IInv, electVars, TermsInOrder, VotesType, NetType, ThreadType, SmallerTerm, KeepsTerm

LEMMA ClearedType ==
  ASSUME NEW s \in Store
  PROVE  Cleared(s) \in Store /\ Cleared(s).highest = s.highest
  BY NoBlockType DEF Cleared, Store

LEMMA EngineCommitsType ==
  ASSUME ThreadType, NEW i \in Nodes, EngineCommits(i)
  PROVE  /\ engine' \in [Nodes -> Engine] /\ sealer' \in [Nodes -> Sealer]
         /\ \A k \in Nodes : engine'[k].at = "store" => engine'[k] = engine[k]
<1>1. CASE sealer[i].at = "waiting"
  <2>1. sealer' = [sealer EXCEPT ![i].ready = TRUE] /\ engine' = engine
    BY <1>1 DEF EngineCommits
  <2>2. [sealer[i] EXCEPT !.ready = TRUE] \in Sealer  BY DEF ThreadType, Sealer
  <2> QED  BY <2>1, <2>2 DEF ThreadType
<1>2. CASE sealer[i].at # "waiting"
  <2>1. engine' = [engine EXCEPT ![i] = [at |-> "commit"]] /\ sealer' = sealer
    BY <1>2 DEF EngineCommits
  <2>2. [at |-> "commit"] \in Engine  BY DEF Engine
  <2> QED  BY <2>1, <2>2 DEF ThreadType
<1> QED  BY <1>1, <1>2

LEMMA TryCommitType ==
  ASSUME IInv, NEW i \in Nodes, NEW j \in Nodes, NEW a \in Nat, tryCommitUncommitedBlock(i, j, a),
         chain' = chain, made' = made, faults' = faults
  PROVE  /\ StoreType' /\ engine' \in [Nodes -> Engine] /\ sealer' \in [Nodes -> Sealer]
         /\ \A k \in Nodes : engine'[k].at = "store" => engine'[k] = engine[k]
<1> USE DEF IInv
<1> DEFINE s == store[i]
           b == s.uncommitted
           acks == s.acks \cup {<<b.id, j>>}
           counted == [s EXCEPT !.acks = acks]
<1>1. s \in Store /\ b.id \in Nat  BY HighestType DEF Store, Block
<1>2. counted \in Store /\ counted.highest = s.highest
  <2>1. acks \in SUBSET (Nat \X Nodes)  BY <1>1 DEF Store
  <2> QED  BY <1>1, <2>1 DEF Store
<1>3. \/ UNCHANGED <<store, engine, sealer>>
      \/ Stored(i, Cleared(s)) /\ UNCHANGED <<engine, sealer>>
      \/ Stored(i, counted) /\ (EngineCommits(i) \/ UNCHANGED <<engine, sealer>>)
      \/ EngineCommits(i) /\ UNCHANGED store
  BY DEF tryCommitUncommitedBlock
<1> HIDE DEF s, b, acks, counted
<1>4. StoreType'
  <2>1. CASE store' = store  BY <2>1 DEF StoreType
  <2>2. CASE Stored(i, Cleared(s))  BY <1>1, <2>2, ClearedType DEF StoreType, Stored, s
  <2>3. CASE Stored(i, counted)  BY <1>2, <2>3 DEF StoreType, Stored, s
  <2> QED  BY <1>3, <2>1, <2>2, <2>3
<1>5. CASE EngineCommits(i)  BY <1>4, <1>5, EngineCommitsType
<1>6. CASE UNCHANGED <<engine, sealer>>  BY <1>4, <1>6 DEF ThreadType
<1> QED  BY <1>3, <1>5, <1>6

LEMMA StepHandleHeartbeatResp ==
  ASSUME IInv, NEW i \in Nodes, NEW j \in Nodes, handleHeartbeatResp(i, j)
  PROVE  IInv' /\ KeepsTerm
<1> USE DEF IInv
<1> DEFINE resp == Head(net[j][i])
<1>1. resp \in HeartBeatResp /\ NetType'
  <2>1. resp \in Message /\ resp.type = "HeartBeatResp" /\ Taken(i, j) \in [Nodes -> [Nodes -> Link]]
    BY TakenKeeps DEF handleHeartbeatResp, Receives
  <2> QED  BY <2>1 DEF Message, VoteReq, VoteResp, HeartBeat, HeartBeatResp, NetType, handleHeartbeatResp
<1>2. resp.ack \in Nat  BY <1>1 DEF HeartBeatResp
<1>3. /\ tryCommitUncommitedBlock(i, j, resp.ack) \/ UNCHANGED <<store, engine, sealer>>
      /\ UNCHANGED <<electVars, chain, boundVars>>
  BY DEF handleHeartbeatResp
<1> HIDE DEF resp
<1>4. /\ StoreType' /\ engine' \in [Nodes -> Engine] /\ sealer' \in [Nodes -> Sealer]
      /\ \A k \in Nodes : engine'[k].at = "store" => engine'[k] = engine[k]
  <2>1. CASE tryCommitUncommitedBlock(i, j, resp.ack)
    BY <1>2, <1>3, <2>1, TryCommitType DEF boundVars
  <2>2. CASE UNCHANGED <<store, engine, sealer>>
    BY <1>3, <2>2 DEF boundVars, StoreType, ThreadType
  <2> QED  BY <1>3, <2>1, <2>2
<1> QED
  BY <1>1, <1>3, <1>4 DEF electVars, TermsInOrder, VotesType, ThreadType, SmallerTerm, KeepsTerm

(* A block that is committed extends the chain, so that m_highestBlock     *)
(* stays on it.                                                            *)
LEMMA ExecuteType ==
  ASSUME StoreType, NEW i \in Nodes, NEW b \in Block, checkAndExecute(i, b),
         made' = made, faults' = faults
  PROVE  StoreType'
<1>1. store[i] \in Store /\ chain[i] \in Seq(Block) /\ store[i].highest <= Len(chain[i])
      /\ store[i].highest \in Nat
  BY HighestType DEF StoreType
<1>2. CASE CanCommit(i, b)
  <2>1. chain' = [chain EXCEPT ![i] = Append(@, b)] /\ Stored(i, Cleared(store[i]))
    BY <1>2 DEF checkAndExecute
  <2>2. Append(chain[i], b) \in Seq(Block) /\ Len(Append(chain[i], b)) = Len(chain[i]) + 1  BY <1>1
  <2>3. chain' \in [Nodes -> Seq(Block)] /\ store' \in [Nodes -> Store]
    BY <1>1, <2>1, <2>2, ClearedType DEF StoreType, Stored
  <2>4. store'[i].highest <= Len(chain'[i])  BY <1>1, <2>1, <2>2, ClearedType DEF StoreType, Stored
  <2>5. \A k \in Nodes \ {i} : store'[k] = store[k] /\ chain'[k] = chain[k]
    BY <2>1 DEF StoreType, Stored
  <2> QED  BY <2>3, <2>4, <2>5 DEF StoreType
<1>3. CASE ~CanCommit(i, b)  BY <1>3 DEF checkAndExecute, StoreType
<1> QED  BY <1>2, <1>3

LEMMA ReportedType ==
  ASSUME StoreType, NEW i \in Nodes, NEW n \in Nat
  PROVE  Reported(i, n) \in Store /\ Reported(i, n).highest <= Len(chain[i])
<1> DEFINE s == store[i]
<1>1. s \in Store /\ s.highest <= Len(chain[i]) /\ Number(i) \in Nat /\ Number(i) = Len(chain[i])
  BY HighestType DEF StoreType, Number
<1>2. CASE Number(i) = 0 \/ s.highest < n
  <2> DEFINE acks == {a \in s.acks : a[1] # s.uncommitted.id}
             next == IF Number(i) >= s.consensusNumber THEN Number(i) + 1 ELSE s.consensusNumber
             r == [Cleared(s) EXCEPT !.highest = Number(i), !.acks = acks, !.consensusNumber = next]
  <2>1. Cleared(s) \in Store /\ Cleared(s).acks = s.acks /\ Cleared(s).consensusNumber = s.consensusNumber
    BY <1>1, ClearedType DEF Cleared, Store
  <2>2. Reported(i, n) = r  BY <1>2, <2>1 DEF Reported
  <2>3. acks \in SUBSET (Nat \X Nodes) /\ next \in Nat  BY <1>1 DEF Store
  <2> HIDE DEF acks, next
  <2>4. r \in Store /\ r.highest = Number(i)  BY <1>1, <2>1, <2>3 DEF Store
  <2> QED  BY <1>1, <2>2, <2>4
<1>3. CASE ~(Number(i) = 0 \/ s.highest < n)  BY <1>1, <1>3 DEF Reported
<1> QED  BY <1>2, <1>3

LEMMA StepExecuteUncommitted ==
  ASSUME IInv, NEW i \in Nodes, ExecuteUncommitted(i)
  PROVE  IInv' /\ KeepsTerm
<1> USE DEF IInv
<1>1. store[i].uncommitted \in Block  BY HighestType DEF Store
<1>2. StoreType'  BY <1>1, ExecuteType DEF ExecuteUncommitted, boundVars
<1>3. engine' \in [Nodes -> Engine] /\ \A k \in Nodes : engine'[k].at = "store" => engine'[k] = engine[k]
  <2>1. [at |-> "report"] \in Engine  BY DEF Engine
  <2> QED  BY <2>1 DEF ExecuteUncommitted, ThreadType
<1>4. sealer' \in [Nodes -> Sealer]
  <2> DEFINE f == sealer[i].syncBlock \/ chain'[i] # chain[i]
  <2>1. sealer' = [sealer EXCEPT ![i] = [@ EXCEPT !.syncBlock = f]]
    BY DEF ExecuteUncommitted
  <2>2. f \in BOOLEAN  OBVIOUS
  <2> HIDE DEF f
  <2>3. [sealer[i] EXCEPT !.syncBlock = f] \in Sealer  BY <2>2 DEF ThreadType, Sealer
  <2> QED  BY <2>1, <2>3 DEF ThreadType
<1> QED  BY <1>2, <1>3, <1>4, NoTermChanges DEF ExecuteUncommitted

LEMMA StepReportUncommitted ==
  ASSUME IInv, NEW i \in Nodes, ReportUncommitted(i)
  PROVE  IInv' /\ KeepsTerm
<1> USE DEF IInv
<1>1. store[i].uncommitted.number \in Nat  BY HighestType DEF Store, Block
<1>2. StoreType'
  <2>1. Stored(i, Reported(i, store[i].uncommitted.number))  BY DEF ReportUncommitted
  <2> QED  BY <1>1, <2>1, ReportedType DEF ReportUncommitted, StoreType, Stored, boundVars
<1>3. engine' \in [Nodes -> Engine] /\ \A k \in Nodes : engine'[k].at = "store" => engine'[k] = engine[k]
  <2>1. EngineIdle \in Engine  BY DEF Engine, EngineIdle
  <2> QED  BY <2>1 DEF ReportUncommitted, ThreadType, EngineIdle
<1> QED  BY <1>2, <1>3, NoTermChanges DEF ReportUncommitted, ThreadType

LEMMA StepReportNewBlock ==
  ASSUME IInv, NEW i \in Nodes, reportNewBlock(i)
  PROVE  IInv' /\ KeepsTerm
<1> USE DEF IInv
<1>1. Number(i) \in Nat  BY DEF StoreType, Number
<1>2. StoreType'
  <2>1. Stored(i, Reported(i, Number(i)))  BY DEF reportNewBlock
  <2> QED  BY <1>1, <2>1, ReportedType DEF reportNewBlock, StoreType, Stored, boundVars
<1>3. sealer' \in [Nodes -> Sealer]
  <2>1. [sealer[i] EXCEPT !.syncBlock = FALSE, !.base = Number(i)] \in Sealer
    BY <1>1 DEF ThreadType, Sealer
  <2>2. sealer' = [sealer EXCEPT ![i] = [sealer[i] EXCEPT !.syncBlock = FALSE, !.base = Number(i)]]
    BY DEF reportNewBlock, ThreadType
  <2> QED  BY <2>1, <2>2 DEF ThreadType
<1> QED  BY <1>2, <1>3, NoTermChanges DEF reportNewBlock, ThreadType

LEMMA StepShouldSeal ==
  ASSUME IInv, NEW i \in Nodes, shouldSeal(i) \/ NotHandled(i)
  PROVE  IInv' /\ KeepsTerm
<1> USE DEF IInv
<1>1. sealer' \in [Nodes -> Sealer]
  <2>1. [sealer[i] EXCEPT !.at = "granted"] \in Sealer /\ [sealer[i] EXCEPT !.at = "idle"] \in Sealer
    BY DEF ThreadType, Sealer
  <2> QED  BY <2>1 DEF ThreadType, shouldSeal, NotHandled
<1>2. UNCHANGED <<electVars, net, chain, store, engine, boundVars>>  BY DEF shouldSeal, NotHandled
<1> QED  BY <1>1, <1>2, NoTermChanges DEF ThreadType, StoreType, boundVars

LEMMA StepHandleBlock ==
  ASSUME IInv, NEW i \in Nodes, handleBlock(i)
  PROVE  IInv' /\ KeepsTerm
<1> USE DEF IInv
<1> DEFINE b == [id |-> made + 1, number |-> Number(i) + 1, parent |-> Top(i)]
           n == store[i].consensusNumber
           s == [store[i] EXCEPT !.uncommitted = b, !.uncommittedNumber = n]
<1>1. store[i] \in Store /\ n \in Nat /\ store[i].highest <= Len(chain[i])  BY HighestType DEF Store
<1>2. b \in Block
  <2>1. Number(i) \in Nat /\ chain[i] \in Seq(Block) /\ Number(i) = Len(chain[i])
    BY DEF StoreType, Number
  <2>2. Top(i) \in Nat
    <3>1. CASE Number(i) = 0  BY <3>1 DEF Top, HashAt
    <3>2. CASE Number(i) # 0
      <4>1. chain[i][Number(i)] \in Block  BY <2>1, <3>2
      <4> QED  BY <3>2, <4>1 DEF Top, HashAt, Block
    <3> QED  BY <3>1, <3>2
  <2> QED  BY <2>1, <2>2 DEF Block, StoreType
<1>3. /\ Stored(i, s) /\ made' = made + 1 /\ faults' = faults /\ chain' = chain
      /\ sealer' = [sealer EXCEPT ![i] = [sealer[i] EXCEPT !.at = "waiting", !.ready = FALSE, !.block = b]]
  BY DEF handleBlock, ThreadType
<1> HIDE DEF b, n
<1>4. s \in Store /\ s.highest = store[i].highest  BY <1>1, <1>2 DEF Store
<1> HIDE DEF s
<1>5. StoreType'
  <2>1. made' \in Nat /\ faults' \in Nat  BY <1>3 DEF StoreType
  <2> QED  BY <1>1, <1>3, <1>4, <2>1 DEF StoreType, Stored
<1>6. sealer' \in [Nodes -> Sealer]
  <2>1. [sealer[i] EXCEPT !.at = "waiting", !.ready = FALSE, !.block = b] \in Sealer
    BY <1>2 DEF ThreadType, Sealer
  <2> QED  BY <1>3, <2>1 DEF ThreadType
<1> QED  BY <1>5, <1>6, NoTermChanges DEF handleBlock, ThreadType

LEMMA RestingSealer ==
  ASSUME NEW n \in Nat, NEW f \in BOOLEAN
  PROVE  SealerAt(n) \in Sealer /\ [SealerAt(n) EXCEPT !.syncBlock = f] \in Sealer
  BY NoBlockType DEF SealerAt, Sealer

LEMMA StepWake ==
  ASSUME IInv, NEW i \in Nodes, Wake(i)
  PROVE  IInv' /\ KeepsTerm
<1> USE DEF IInv
<1>1. sealer' \in [Nodes -> Sealer]
  <2>1. sealer[i] \in Sealer /\ sealer[i].syncBlock \in BOOLEAN /\ Number(i) \in Nat
    BY DEF ThreadType, Sealer, StoreType, Number
  <2>2. [sealer[i] EXCEPT !.at = "executing", !.ready = FALSE] \in Sealer  BY <2>1 DEF Sealer
  <2>3. [SealerAt(Number(i)) EXCEPT !.syncBlock = sealer[i].syncBlock] \in Sealer
    BY <2>1, RestingSealer
  <2>4. \/ sealer' = [sealer EXCEPT ![i] = [sealer[i] EXCEPT !.at = "executing", !.ready = FALSE]]
        \/ sealer' = [sealer EXCEPT ![i] = [SealerAt(Number(i)) EXCEPT !.syncBlock = sealer[i].syncBlock]]
    BY DEF Wake, ThreadType
  <2> QED  BY <2>2, <2>3, <2>4 DEF ThreadType
<1> QED  BY <1>1, NoTermChanges DEF Wake, ThreadType, StoreType, boundVars

LEMMA StepCommitSealed ==
  ASSUME IInv, NEW i \in Nodes, CommitSealed(i)
  PROVE  IInv' /\ KeepsTerm
<1> USE DEF IInv
<1>1. /\ sealer[i] \in Sealer /\ sealer[i].block \in Block /\ sealer[i].base \in Nat
      /\ sealer[i].syncBlock \in BOOLEAN /\ Number(i) \in Nat
  BY DEF ThreadType, Sealer, StoreType, Number
<1>2. StoreType'  BY <1>1, ExecuteType DEF CommitSealed, boundVars
<1>3. sealer' \in [Nodes -> Sealer]
  <2>1. /\ [SealerAt(sealer[i].base) EXCEPT !.syncBlock = TRUE] \in Sealer
        /\ [SealerAt(Number(i)) EXCEPT !.syncBlock = sealer[i].syncBlock] \in Sealer
    BY <1>1, RestingSealer
  <2>2. \/ sealer' = [sealer EXCEPT ![i] = [SealerAt(sealer[i].base) EXCEPT !.syncBlock = TRUE]]
        \/ sealer' = [sealer EXCEPT ![i] = [SealerAt(Number(i)) EXCEPT !.syncBlock = sealer[i].syncBlock]]
    BY DEF CommitSealed, ThreadType
  <2> QED  BY <2>1, <2>2 DEF ThreadType
<1> QED  BY <1>2, <1>3, NoTermChanges DEF CommitSealed, ThreadType

LEMMA StepSyncBlock ==
  ASSUME IInv, NEW i \in Nodes, NEW j \in Nodes, SyncBlock(i, j)
  PROVE  IInv' /\ KeepsTerm
<1> USE DEF IInv
<1>1. StoreType'
  <2>1. chain[i] \in Seq(Block) /\ chain[j] \in Seq(Block) /\ Len(chain[i]) < Len(chain[j])
        /\ store[i].highest \in Nat /\ store[i].highest <= Len(chain[i])
    BY HighestType DEF SyncBlock, StoreType, Number
  <2> DEFINE b == chain[j][Len(chain[i]) + 1]
  <2>2. b \in Block  BY <2>1
  <2>3. chain' = [chain EXCEPT ![i] = Append(@, b)]  BY DEF SyncBlock, Number
  <2> HIDE DEF b
  <2>4. Append(chain[i], b) \in Seq(Block) /\ Len(Append(chain[i], b)) = Len(chain[i]) + 1
    BY <2>1, <2>2
  <2>5. store' = store /\ made' = made /\ faults' = faults  BY DEF SyncBlock, boundVars
  <2> QED  BY <2>1, <2>3, <2>4, <2>5 DEF StoreType
<1>2. sealer' \in [Nodes -> Sealer]
  <2>1. [sealer[i] EXCEPT !.syncBlock = TRUE] \in Sealer  BY DEF ThreadType, Sealer
  <2> QED  BY <2>1 DEF SyncBlock, ThreadType
<1> QED  BY <1>1, <1>2, NoTermChanges DEF SyncBlock, ThreadType

LEMMA StepLose ==
  ASSUME IInv, NEW i \in Nodes, NEW j \in Nodes, Lose(i, j)
  PROVE  IInv' /\ KeepsTerm
<1> USE DEF IInv
<1>1. NetType'  BY TookOne DEF NetType, Lose
<1>2. StoreType'  BY DEF StoreType, Lose, Fault
<1> QED
  BY <1>1, <1>2 DEF Lose, electVars, TermsInOrder, VotesType, ThreadType, SmallerTerm, KeepsTerm

LEMMA StepRestart ==
  ASSUME IInv, NEW i \in Nodes, Restart(i)
  PROVE  IInv' /\ KeepsTerm
<1> USE Constant DEF IInv
<1>1. faults' = faults + 1 /\ faults \in Nat /\ chain' = chain /\ made' = made
  BY DEF Restart, Fault, StoreType
<1>2. Number(i) \in Nat /\ Number(i) = Len(chain[i])  BY DEF StoreType, Number
<1>3. TermsInOrder' /\ KeepsTerm
  BY <1>1 DEF TermsInOrder, Restart, KeepsTerm, Terms, AllAssumptions
<1>4. VotesType'
  <2>1. NoVotes \in [Flags -> 0..Quorum]  BY DEF NoVotes
  <2> QED  BY <2>1 DEF VotesType, Restart, InvalidIndex
<1>5. NetType'
  <2>1. << >> \in Link  BY DEF Link, AllAssumptions
  <2> QED  BY <2>1 DEF NetType, Restart
<1>6. StoreType'
  <2>1. StoreAt(Number(i)) \in Store /\ StoreAt(Number(i)).highest = Number(i)
    BY <1>2, NoBlockType DEF StoreAt, Store
  <2> QED  BY <1>1, <1>2, <2>1 DEF StoreType, Restart, Stored
<1>7. ThreadType'
  <2>1. EngineIdle \in Engine /\ EngineIdle.at # "store"  BY DEF EngineIdle, Engine
  <2>2. engine' \in [Nodes -> Engine] /\ sealer' \in [Nodes -> Sealer]
    BY <1>2, <2>1, RestingSealer DEF Restart, ThreadType
  <2>3. engine'[i].at # "store"  BY <2>1 DEF Restart, ThreadType
  <2>4. \A k \in Nodes \ {i} : engine'[k] = engine[k] /\ term'[k] = term[k]
                               /\ lastLeaderTerm'[k] = lastLeaderTerm[k]
    BY DEF Restart, ThreadType, TermsInOrder
  <2> QED  BY <2>2, <2>3, <2>4, ThreadKeeps
<1> QED  BY <1>3, <1>4, <1>5, <1>6, <1>7

-----------------------------------------------------------------------------
(* The theorems                                                            *)

LEMMA Initially == Init => IInv
<1> SUFFICES ASSUME Init PROVE IInv  OBVIOUS
<1> USE Constant
<1>1. TermsInOrder  BY DEF Init, TermsInOrder, Terms, AllAssumptions
<1>2. VotesType
  <2>1. NoVotes \in [Flags -> 0..Quorum]  BY DEF NoVotes
  <2> QED  BY <2>1 DEF Init, VotesType, InvalidIndex
<1>3. NetType
  <2>1. << >> \in Link  BY DEF Link, AllAssumptions
  <2> QED  BY <2>1 DEF Init, NetType
<1>4. StoreType
  <2>1. StoreAt(0) \in Store /\ StoreAt(0).highest = 0  BY NoBlockType DEF StoreAt, Store
  <2>2. << >> \in Seq(Block) /\ Len(<< >>) = 0  OBVIOUS
  <2> QED  BY <2>1, <2>2 DEF Init, StoreType
<1>5. ThreadType
  <2>1. EngineIdle \in Engine /\ EngineIdle.at # "store"  BY DEF EngineIdle, Engine
  <2> QED  BY <2>1, RestingSealer DEF Init, ThreadType
<1> QED  BY <1>1, <1>2, <1>3, <1>4, <1>5 DEF IInv

LEMMA Inductive == IInv /\ [Next]_vars => IInv' /\ KeepsTerm
<1> SUFFICES ASSUME IInv, [Next]_vars PROVE IInv' /\ KeepsTerm  OBVIOUS
<1>1. CASE Next
  <2>1. ASSUME NEW i \in Nodes,
               StartElection(i) \/ GiveUpElection(i) \/ broadcastHeartbeat(i) \/ StoreUncommitted(i)
               \/ ExecuteUncommitted(i) \/ ReportUncommitted(i) \/ reportNewBlock(i) \/ shouldSeal(i)
               \/ handleBlock(i) \/ NotHandled(i) \/ Wake(i) \/ CommitSealed(i) \/ Restart(i)
        PROVE  IInv' /\ KeepsTerm
    BY <2>1, StepStartElection, StepGiveUpElection, StepBroadcastHeartbeat, StepStoreUncommitted,
       StepExecuteUncommitted, StepReportUncommitted, StepReportNewBlock, StepShouldSeal,
       StepHandleBlock, StepWake, StepCommitSealed, StepRestart
  <2>2. ASSUME NEW i \in Nodes, NEW j \in Nodes,
               handleVoteRequest(i, j) \/ handleVoteResponse(i, j) \/ handleEmptyHeartbeat(i, j)
               \/ DropHeartbeat(i, j) \/ handleHeartbeat(i, j) \/ handleHeartbeatResp(i, j)
               \/ SyncBlock(i, j) \/ Lose(i, j)
        PROVE  IInv' /\ KeepsTerm
    BY <2>2, StepHandleVoteRequest, StepHandleVoteResponse, StepHandleEmptyHeartbeat,
       StepDropHeartbeat, StepHandleHeartbeat, StepHandleHeartbeatResp, StepSyncBlock, StepLose
  <2> QED  BY <1>1, <2>1, <2>2 DEF Next
<1>2. CASE UNCHANGED vars
  BY <1>2 DEF vars, electVars, boundVars, IInv, KeepsTerm, TermsInOrder, VotesType, NetType,
     StoreType, ThreadType, SmallerTerm
<1> QED  BY <1>1, <1>2

(* Every variable of the election keeps its range, no queue outgrows its   *)
(* limit, and m_highestBlock is never ahead of the chain.                  *)
THEOREM RaftTypeCorrect == Spec => []TypeOK
<1>1. IInv => TypeOK
  <2> SUFFICES ASSUME IInv PROVE TypeOK  OBVIOUS
  <2>1. \A i \in Nodes : /\ engine[i].at \in {"idle", "store", "commit", "report"}
                         /\ sealer[i].at \in {"idle", "granted", "waiting", "executing"}
    BY DEF IInv, ThreadType, Engine, Storing, Sealer
  <2>2. \A i \in Nodes : store[i].highest \in 0..Number(i)
    BY DEF IInv, StoreType, Store, Number
  <2> QED  BY <2>1, <2>2 DEF IInv, TypeOK, TermsInOrder, VotesType, NetType, Link, Terms
<1> QED  BY <1>1, Initially, Inductive, PTL DEF Spec

(* A leader keeps its term while it leads, and unless it crashes leaves    *)
(* office only for a higher term, although handleVoteRequest lets a leader *)
(* fall through its check of the request's term.                           *)
THEOREM LeaderKeepsItsTerm == Spec => LeaderKeepsTerm
<1>1. IInv /\ [Next]_vars =>
        [\A i \in Nodes : role[i] = "leader" =>
           /\ role'[i] = "leader" => term'[i] = term[i]
           /\ role'[i] # "leader" /\ faults' = faults => term'[i] > term[i]]_vars
  BY Inductive DEF KeepsTerm
<1> QED  BY <1>1, Initially, Inductive, PTL DEF Spec, LeaderKeepsTerm

-----------------------------------------------------------------------------
(* The parent of a sealed block.                                           *)

(* Node j has the block with hash h at height n of its chain.              *)
Holds(j, n, h) == n \in 0..Number(j) /\ HashAt(j, n) = h

(* The parts of the invariant behind SealsOnMajorityParent.  What a node   *)
(* says of its highest block, or is about to say, is on its chain for good *)
(* (HonestNet, HonestEngines), and so is what others remember of it        *)
(* (MembersHold); a sealer that has no new block to report has its base at *)
(* the end of the chain (CaughtUp), and once it is granted to seal, a      *)
(* majority has this base (GrantedOnMajority).                             *)
Honest(j, m) == m.type = "HeartBeatResp" => Holds(j, m.height, m.hash)
HonestLinks(nw) == \A j, i \in Nodes : \A k \in DOMAIN nw[j][i] : Honest(j, nw[j][i][k])
HonestNet == HonestLinks(net)
HonestEngines == \A i \in Nodes : engine[i].at = "store" => Holds(i, engine[i].height, engine[i].hash)
Member == [node : Nodes, height : Nat, hash : Nat]
MembersHold ==
  /\ members \in [Nodes -> SUBSET Member]
  /\ \A i \in Nodes : \A m \in members[i] :
       /\ m.node # i /\ Holds(m.node, m.height, m.hash)
       /\ \A o \in members[i] : o.node = m.node => o = m
CaughtUp(i) == ~sealer[i].syncBlock =>
  sealer[i].base = Number(i) /\ store[i].highest = Number(i)
OnMajority(n, h) == Cardinality({j \in Nodes : Holds(j, n, h)}) >= Quorum
GrantedOnMajority(i) == sealer[i].at = "granted" =>
  sealer[i].base <= Number(i) /\ OnMajority(sealer[i].base, HashAt(i, sealer[i].base))
SealedOnMajority(i) == sealer[i].at \in {"waiting", "executing"} =>
  sealer[i].block.number >= 1 /\ OnMajority(sealer[i].block.number - 1, sealer[i].block.parent)
SealerInv == \A i \in Nodes : CaughtUp(i) /\ GrantedOnMajority(i) /\ SealedOnMajority(i)
MajorityInv == HonestNet /\ HonestEngines /\ MembersHold /\ SealerInv

(* Chains only grow at the end. *)
ChainsGrow == \A j \in Nodes : \A n, h : Holds(j, n, h) => Holds(j, n, h)'

LEMMA ChainAppended ==
  ASSUME StoreType, NEW i \in Nodes, NEW b, chain' = [chain EXCEPT ![i] = Append(@, b)]
  PROVE  ChainsGrow
<1> SUFFICES ASSUME NEW j \in Nodes, NEW n, NEW h, Holds(j, n, h) PROVE Holds(j, n, h)'
  BY DEF ChainsGrow
<1>1. n \in 0..Len(chain[j]) /\ chain[j] \in Seq(Block)  BY DEF Holds, Number, StoreType
<1>2. Len(chain[j]) <= Len(chain'[j]) /\ Len(chain'[j]) \in Nat
      /\ \A k \in 1..Len(chain[j]) : chain'[j][k] = chain[j][k]
  <2>1. CASE j = i
    <3>1. chain'[j] = Append(chain[j], b)  BY <2>1 DEF StoreType
    <3> QED  BY <1>1, <3>1
  <2>2. CASE j # i
    <3>1. chain'[j] = chain[j]  BY <2>2 DEF StoreType
    <3> QED  BY <1>1, <3>1
  <2> QED  BY <2>1, <2>2
<1> QED  BY <1>1, <1>2 DEF Holds, Number, HashAt

LEMMA ChainsKept == chain' = chain => ChainsGrow
  BY DEF ChainsGrow, Holds, Number, HashAt

(* Where a majority has a block, it keeps it.                              *)
LEMMA MajorityKept ==
  ASSUME ChainsGrow, NEW n, NEW h, OnMajority(n, h)
  PROVE  OnMajority(n, h)'
<1> DEFINE S == {j \in Nodes : Holds(j, n, h)}
           T == {j \in Nodes : Holds(j, n, h)'}
<1>1. S \subseteq T  BY DEF ChainsGrow
<1>2. IsFiniteSet(T)
  <2>1. IsFiniteSet(1..N)  BY Constant, FS_Interval DEF AllAssumptions
  <2>2. T \in SUBSET (1..N)  BY DEF Nodes
  <2> QED  BY <2>1, <2>2, FS_Subset
<1>3. Cardinality(S) \in Nat /\ Cardinality(T) \in Nat /\ Cardinality(S) <= Cardinality(T)
  BY <1>1, <1>2, FS_Subset, FS_CardinalityType
<1>4. Cardinality(S) >= Quorum /\ Quorum \in Nat  BY Constant DEF OnMajority
<1>5. Cardinality(T) >= Quorum
  <2> HIDE DEF S, T
  <2> QED  BY <1>3, <1>4
<1> QED  BY <1>5 DEF OnMajority

(* The links stay honest as messages are taken and sent.                   *)
LEMMA HonestTaken ==
  ASSUME NetType, HonestNet, NEW i \in Nodes, NEW j \in Nodes, net[j][i] # << >>
  PROVE  HonestLinks(Taken(i, j)) /\ Honest(j, Head(net[j][i]))
<1>1. /\ net[j][i] \in Seq(Message)
      /\ \A k \in DOMAIN net[j][i] : Honest(j, net[j][i][k])
  BY DEF NetType, Link, HonestNet, HonestLinks
<1>2. Honest(j, Head(net[j][i]))
  <2>1. 1 \in DOMAIN net[j][i] /\ Head(net[j][i]) = net[j][i][1]  BY <1>1
  <2> QED  BY <1>1, <2>1
<1>3. \A k \in DOMAIN Tail(net[j][i]) : Honest(j, Tail(net[j][i])[k])
  <2> DEFINE l == net[j][i]
  <2>1. \A k \in DOMAIN Tail(l) : k + 1 \in DOMAIN l /\ Tail(l)[k] = l[k + 1]  BY <1>1
  <2> QED  BY <1>1, <2>1
<1>4. HonestLinks(Taken(i, j))
  <2> SUFFICES ASSUME NEW a \in Nodes, NEW c \in Nodes, NEW k \in DOMAIN Taken(i, j)[a][c]
               PROVE  Honest(a, Taken(i, j)[a][c][k])
    BY DEF HonestLinks
  <2>1. CASE a = j /\ c = i
    <3>1. Taken(i, j)[a][c] = Tail(net[j][i])  BY <2>1 DEF Taken, NetType
    <3> QED  BY <1>3, <2>1, <3>1
  <2>2. CASE ~(a = j /\ c = i)
    <3>1. Taken(i, j)[a][c] = net[a][c]  BY <2>2 DEF Taken, NetType
    <3> QED  BY <3>1 DEF HonestNet, HonestLinks
  <2> QED  BY <2>1, <2>2
<1> QED  BY <1>2, <1>4

LEMMA HonestAppended ==
  ASSUME NEW j, NEW l \in Link, NEW m, Honest(j, m), \A k \in DOMAIN l : Honest(j, l[k])
  PROVE  \A k \in DOMAIN Append1(l, m) : Honest(j, Append1(l, m)[k])
<1>1. CASE Len(l) < LinkLimit
  <2>1. Append1(l, m) = Append(l, m) /\ l \in Seq(Message)  BY <1>1 DEF Append1, Link
  <2>2. /\ DOMAIN Append(l, m) = DOMAIN l \cup {Len(l) + 1} /\ Append(l, m)[Len(l) + 1] = m
        /\ \A k \in DOMAIN l : Append(l, m)[k] = l[k]
    BY <2>1
  <2> QED  BY <2>1, <2>2
<1>2. CASE ~(Len(l) < LinkLimit)  BY <1>2 DEF Append1
<1> QED  BY <1>1, <1>2

LEMMA HonestReplied ==
  ASSUME NEW nw \in [Nodes -> [Nodes -> Link]], HonestLinks(nw), NEW i \in Nodes, NEW j \in Nodes,
         NEW m, Honest(i, m)
  PROVE  HonestLinks(Replied(nw, i, j, m))
<1> SUFFICES ASSUME NEW a \in Nodes, NEW c \in Nodes, NEW k \in DOMAIN Replied(nw, i, j, m)[a][c]
             PROVE  Honest(a, Replied(nw, i, j, m)[a][c][k])
  BY DEF HonestLinks
<1>1. CASE a = i /\ c = j
  <2>1. Replied(nw, i, j, m)[a][c] = Append1(nw[a][c], m)  BY <1>1 DEF Replied
  <2>2. \A x \in DOMAIN Append1(nw[a][c], m) : Honest(a, Append1(nw[a][c], m)[x])
    BY <1>1, HonestAppended DEF HonestLinks
  <2> QED  BY <2>1, <2>2
<1>2. CASE ~(a = i /\ c = j)
  <2>1. Replied(nw, i, j, m)[a][c] = nw[a][c]  BY <1>2 DEF Replied
  <2> QED  BY <2>1 DEF HonestLinks
<1> QED  BY <1>1, <1>2

LEMMA HonestBroadcast ==
  ASSUME NetType, HonestNet, NEW i \in Nodes, NEW m, Honest(i, m), Broadcast(i, m)
  PROVE  HonestLinks(net')
<1> SUFFICES ASSUME NEW a \in Nodes, NEW c \in Nodes, NEW k \in DOMAIN net'[a][c]
             PROVE  Honest(a, net'[a][c][k])
  BY DEF HonestLinks
<1>1. CASE a = i /\ c # i
  <2>1. net'[a][c] = Append1(net[a][c], m) /\ net[a][c] \in Link  BY <1>1 DEF Broadcast, NetType
  <2>2. \A x \in DOMAIN Append1(net[a][c], m) : Honest(a, Append1(net[a][c], m)[x])
    BY <1>1, <2>1, HonestAppended DEF HonestNet, HonestLinks
  <2> QED  BY <2>1, <2>2
<1>2. CASE ~(a = i /\ c # i)
  <2>1. net'[a][c] = net[a][c]  BY <1>2 DEF Broadcast, NetType
  <2> QED  BY <2>1 DEF HonestNet, HonestLinks
<1> QED  BY <1>1, <1>2

(* An honest message stays honest, since chains only grow.                 *)
LEMMA HonestKept ==
  ASSUME ChainsGrow, HonestLinks(net')
  PROVE  HonestNet'
<1>1. ASSUME NEW j \in Nodes, NEW i \in Nodes, NEW k \in DOMAIN net'[j][i], NEW m, m = net'[j][i][k],
             m.type = "HeartBeatResp"
      PROVE  Holds(j, m.height, m.hash)'
  BY <1>1 DEF HonestLinks, Honest, ChainsGrow
<1> QED  BY <1>1 DEF HonestNet, HonestLinks, Honest

LEMMA HonestRequests ==
  ASSUME IInv, HonestNet, NEW i \in Nodes,
         StartElection(i) \/ broadcastHeartbeat(i) \/ StoreUncommitted(i) \/ Restart(i), HonestEngines
  PROVE  HonestLinks(net')
<1>1. CASE StartElection(i)
  <2> DEFINE m == [type |-> "VoteReq", term |-> term[i] + 1, lastLeaderTerm |-> lastLeaderTerm[i],
                   lastBlockNumber |-> Number(i) + (IF store[i].uncommitted = NoBlock THEN 0 ELSE 1)]
  <2>1. Honest(i, m)  BY DEF Honest
  <2>2. Broadcast(i, m)  BY <1>1 DEF StartElection
  <2> HIDE DEF m
  <2> QED  BY <2>1, <2>2, HonestBroadcast DEF IInv
<1>2. CASE broadcastHeartbeat(i)
  <2> DEFINE m == [type |-> "HeartBeat", term |-> term[i], block |-> store[i].uncommitted,
                   number |-> IF store[i].uncommitted = NoBlock THEN 0 ELSE store[i].consensusNumber]
  <2>1. Honest(i, m)  BY DEF Honest
  <2>2. Broadcast(i, m)  BY <1>2 DEF broadcastHeartbeat
  <2> HIDE DEF m
  <2> QED  BY <2>1, <2>2, HonestBroadcast DEF IInv
<1>3. CASE StoreUncommitted(i)
  <2> DEFINE e == engine[i]
             m == Ack(i, e.height, e.hash, e.block.id)
  <2>1. Honest(i, m)  BY <1>3 DEF StoreUncommitted, HonestEngines, Ack, Honest
  <2>2. e.from \in Nodes  BY <1>3 DEF StoreUncommitted, IInv, ThreadType, Engine, Storing
  <2>3. net' = Replied(net, i, e.from, m)  BY <1>3 DEF StoreUncommitted
  <2> HIDE DEF m, e
  <2> QED  BY <2>1, <2>2, <2>3, HonestReplied DEF IInv, NetType, HonestNet
<1>4. CASE Restart(i)
  <2>1. net' = [k \in Nodes |-> [j \in Nodes |-> IF i \in {j, k} THEN << >> ELSE net[k][j]]]
    BY <1>4 DEF Restart
  <2>2. ASSUME NEW j \in Nodes, NEW k \in Nodes PROVE net'[j][k] = << >> \/ net'[j][k] = net[j][k]
    <3>1. net'[j][k] = IF i \in {k, j} THEN << >> ELSE net[j][k]  BY <2>1, SMTT(30)
    <3> QED  BY <3>1
  <2> QED  BY <2>2 DEF HonestNet, HonestLinks
<1> QED  BY <1>1, <1>2, <1>3, <1>4

LEMMA HonestAnswers ==
  ASSUME IInv, HonestNet, NEW i \in Nodes, NEW j \in Nodes,
         \/ handleVoteRequest(i, j) \/ handleVoteResponse(i, j) \/ handleEmptyHeartbeat(i, j)
         \/ DropHeartbeat(i, j) \/ handleHeartbeat(i, j) \/ handleHeartbeatResp(i, j) \/ Lose(j, i)
  PROVE  HonestLinks(net')
<1>1. net[j][i] # << >>
  BY DEF Receives, handleVoteRequest, handleVoteResponse, handleEmptyHeartbeat, DropHeartbeat,
         handleHeartbeat, handleHeartbeatResp, Lose
<1>2. HonestLinks(Taken(i, j)) /\ Taken(i, j) \in [Nodes -> [Nodes -> Link]]
  BY <1>1, HonestTaken, TakenKeeps DEF IInv
<1>3. CASE net' = Taken(i, j)
  BY <1>2, <1>3
<1>4. CASE handleVoteRequest(i, j)
  <2>1. PICK m : net' = Replied(Taken(i, j), i, j, m) /\ m.type = "VoteResp"
    BY <1>4 DEF handleVoteRequest
  <2> QED  BY <1>2, <2>1, HonestReplied DEF Honest
<1>5. CASE handleEmptyHeartbeat(i, j)
  <2> DEFINE h == store[i].highest
             m == Ack(i, h, HashAt(i, h), 0)
  <2>1. h \in Nat /\ h <= Len(chain[i]) /\ Len(chain[i]) \in Nat  BY HighestType DEF IInv, StoreType
  <2>2. Honest(i, m)  BY <2>1 DEF Honest, Holds, Ack, Number
  <2>3. net' = Replied(Taken(i, j), i, j, m)  BY <1>5 DEF handleEmptyHeartbeat
  <2> HIDE DEF m
  <2> QED  BY <1>2, <2>2, <2>3, HonestReplied
<1> QED
  BY <1>3, <1>4, <1>5, ZenonT(30) DEF handleVoteResponse, DropHeartbeat, handleHeartbeat, handleHeartbeatResp, Lose, Taken

-----------------------------------------------------------------------------
(* The sealers                                                             *)

(* The rest of a node may let the sealer on, but changes nothing else of it. *)
Quiet(i) ==
  /\ chain'[i] = chain[i] /\ store'[i].highest = store[i].highest
  /\ sealer'[i].at = sealer[i].at /\ sealer'[i].base = sealer[i].base
  /\ sealer'[i].syncBlock = sealer[i].syncBlock /\ sealer'[i].block = sealer[i].block

LEMMA QuietStepDown ==
  ASSUME IInv, NEW i \in Nodes, NEW s \in Store, s.highest = store[i].highest,
         switchToFollower(i, s), chain' = chain
  PROVE  \A k \in Nodes : Quiet(k)
<1>1. Cleared(s).highest = s.highest  BY ClearedType
<1>2. \A k \in Nodes : store'[k].highest = store[k].highest
  BY <1>1 DEF switchToFollower, Stored, IInv, StoreType
<1>3. sealer' = [sealer EXCEPT ![i].ready = TRUE] \/ sealer' = sealer
  BY DEF switchToFollower
<1>4. sealer \in [Nodes -> Sealer]  BY DEF IInv, ThreadType
<1> QED  BY <1>2, <1>3, <1>4 DEF Quiet, Sealer

LEMMA QuietAdopt ==
  ASSUME IInv, NEW i \in Nodes, NEW t, NEW s \in Store, s.highest = store[i].highest,
         AdoptTerm(i, t, s), chain' = chain
  PROVE  \A k \in Nodes : Quiet(k)
<1>1. CASE switchToFollower(i, s)  BY <1>1, QuietStepDown
<1>2. CASE Stored(i, s) /\ UNCHANGED sealer
  BY <1>2 DEF Stored, Quiet, IInv, StoreType
<1> QED  BY <1>1, <1>2 DEF AdoptTerm

LEMMA QuietEngine ==
  ASSUME IInv, NEW i \in Nodes,
         \/ StartElection(i) \/ GiveUpElection(i) \/ broadcastHeartbeat(i) \/ StoreUncommitted(i)
  PROVE  \A k \in Nodes : Quiet(k)
<1> USE DEF IInv
<1>0. store[i] \in Store  BY DEF StoreType
<1>1. CASE StartElection(i)  BY <1>1 DEF StartElection, Quiet
<1>2. CASE GiveUpElection(i)
  BY <1>0, <1>2, QuietStepDown DEF GiveUpElection
<1>3. CASE broadcastHeartbeat(i)
  <2>1. \A k \in Nodes : store'[k].highest = store[k].highest
    BY <1>3 DEF broadcastHeartbeat, StoreType, Store
  <2> QED  BY <1>3, <2>1 DEF broadcastHeartbeat, Quiet
<1>4. CASE StoreUncommitted(i)
  <2> DEFINE e == engine[i]
             s == [store[i] EXCEPT !.uncommitted = e.block, !.uncommittedNumber = e.height + 1]
  <2>1. e \in Storing  BY <1>4 DEF StoreUncommitted, ThreadType, Engine, Storing
  <2>2. e.block \in Block /\ e.height + 1 \in Nat  BY <2>1 DEF Storing
  <2>3. s \in Store /\ s.highest = store[i].highest  BY <1>0, <2>2 DEF Store
  <2>4. AdoptTerm(i, e.term, s) /\ chain' = chain  BY <1>4 DEF StoreUncommitted
  <2> HIDE DEF s, e
  <2> QED  BY <2>3, <2>4, QuietAdopt
<1> QED  BY <1>1, <1>2, <1>3, <1>4

LEMMA QuietTryCommit ==
  ASSUME IInv, NEW i \in Nodes, NEW j \in Nodes, NEW a, tryCommitUncommitedBlock(i, j, a), chain' = chain
  PROVE  \A k \in Nodes : Quiet(k)
<1> DEFINE s == store[i]
           b == s.uncommitted
           acks == s.acks \cup {<<b.id, j>>}
           counted == [s EXCEPT !.acks = acks]
<1>1. s \in Store /\ store \in [Nodes -> Store] /\ sealer \in [Nodes -> Sealer]
  BY DEF IInv, StoreType, ThreadType
<1>2. counted.highest = s.highest /\ Cleared(s).highest = s.highest  BY <1>1, ClearedType DEF Store
<1>3. /\ store' = store \/ Stored(i, Cleared(s)) \/ Stored(i, counted)
      /\ EngineCommits(i) \/ UNCHANGED <<engine, sealer>>
  BY DEF tryCommitUncommitedBlock
<1>4. sealer' = sealer \/ sealer' = [sealer EXCEPT ![i].ready = TRUE]
  BY <1>3 DEF EngineCommits
<1> HIDE DEF counted
<1>5. \A k \in Nodes : store'[k].highest = store[k].highest
  BY <1>1, <1>2, <1>3 DEF Stored
<1> QED  BY <1>1, <1>4, <1>5 DEF Quiet, Sealer

LEMMA QuietAnswers ==
  ASSUME IInv, NEW i \in Nodes, NEW j \in Nodes,
         \/ handleVoteRequest(i, j) \/ handleVoteResponse(i, j) \/ handleEmptyHeartbeat(i, j)
         \/ DropHeartbeat(i, j) \/ handleHeartbeat(i, j) \/ handleHeartbeatResp(i, j) \/ Lose(i, j)
  PROVE  \A k \in Nodes : Quiet(k)
<1>0. store[i] \in Store  BY DEF IInv, StoreType
<1>1. CASE UNCHANGED <<chain, store, sealer>>  BY <1>1 DEF Quiet
<1>2. CASE switchToFollower(i, store[i]) /\ chain' = chain  BY <1>0, <1>2, QuietStepDown
<1>3. CASE handleEmptyHeartbeat(i, j)  BY <1>0, <1>3, QuietAdopt DEF handleEmptyHeartbeat
<1>4. CASE handleHeartbeatResp(i, j)
  <2> DEFINE a == Head(net[j][i]).ack
  <2>1. chain' = chain /\ (tryCommitUncommitedBlock(i, j, a) \/ UNCHANGED <<store, sealer>>)
    BY <1>4 DEF handleHeartbeatResp
  <2> HIDE DEF a
  <2> QED  BY <1>1, <2>1, QuietTryCommit
<1>5. CASE handleVoteRequest(i, j)
  <2>1. chain' = chain /\ (switchToFollower(i, store[i]) \/ UNCHANGED <<role, votes, store, sealer>>)
    BY <1>5, SMTT(30) DEF handleVoteRequest
  <2> QED  BY <1>1, <1>2, <2>1
<1>6. CASE handleVoteResponse(i, j)
  BY <1>1, <1>2, <1>6 DEF handleVoteResponse
<1>7. CASE DropHeartbeat(i, j) \/ handleHeartbeat(i, j) \/ Lose(i, j)
  BY <1>1, <1>7 DEF DropHeartbeat, handleHeartbeat, Lose
<1> QED  BY <1>3, <1>4, <1>5, <1>6, <1>7

(* A sealer that stays where it is, at the same block and base.            *)
LEMMA GrantKept ==
  ASSUME IInv, ChainsGrow, NEW i \in Nodes, GrantedOnMajority(i), SealedOnMajority(i),
         sealer'[i].at = sealer[i].at \/ sealer'[i].at = "idle"
           \/ (sealer[i].at = "waiting" /\ sealer'[i].at = "executing"),
         sealer'[i].at # "idle" => sealer'[i].base = sealer[i].base /\ sealer'[i].block = sealer[i].block
  PROVE  GrantedOnMajority(i)' /\ SealedOnMajority(i)'
<1> DEFINE n == sealer[i].base
           h == HashAt(i, n)
           b == sealer[i].block
<1>1. GrantedOnMajority(i)'
  <2> SUFFICES ASSUME sealer'[i].at = "granted"
               PROVE  sealer'[i].base <= Number(i)' /\ OnMajority(sealer[i].base, HashAt(i, sealer[i].base))'
    BY DEF GrantedOnMajority
  <2>1. sealer[i].at = "granted" /\ sealer'[i].base = n  OBVIOUS
  <2>2. n <= Number(i) /\ OnMajority(n, h) /\ n \in Nat /\ Number(i) \in Nat
    BY <2>1 DEF GrantedOnMajority, IInv, ThreadType, Sealer, StoreType, Number
  <2>3. Holds(i, n, h)  BY <2>2 DEF Holds
  <2>4. PICK x, y : x = n /\ y = h  OBVIOUS
  <2>5. Holds(i, x, y)' /\ OnMajority(x, y)'
    BY <2>2, <2>3, <2>4, MajorityKept DEF ChainsGrow
  <2>6. x <= Number(i)' /\ HashAt(i, x)' = y  BY <2>5 DEF Holds
  <2> QED  BY <2>1, <2>4, <2>5, <2>6
<1>2. SealedOnMajority(i)'
  <2> SUFFICES ASSUME sealer'[i].at \in {"waiting", "executing"}
               PROVE  /\ sealer'[i].block.number >= 1
                      /\ OnMajority(sealer[i].block.number - 1, sealer[i].block.parent)'
    BY DEF SealedOnMajority
  <2>1. sealer[i].at \in {"waiting", "executing"} /\ sealer'[i].block = b  OBVIOUS
  <2>2. b.number >= 1 /\ OnMajority(b.number - 1, b.parent)
    BY <2>1 DEF SealedOnMajority
  <2>4. PICK x, y : x = b.number - 1 /\ y = b.parent  OBVIOUS
  <2>5. OnMajority(x, y)'  BY <2>2, <2>4, MajorityKept
  <2> QED  BY <2>1, <2>2, <2>4, <2>5
<1> QED  BY <1>1, <1>2

LEMMA QuietKeepsSealers ==
  ASSUME IInv, ChainsGrow, NEW i \in Nodes, Quiet(i),
         CaughtUp(i) /\ GrantedOnMajority(i) /\ SealedOnMajority(i)
  PROVE  (CaughtUp(i) /\ GrantedOnMajority(i) /\ SealedOnMajority(i))'
<1>1. CaughtUp(i)'  BY DEF CaughtUp, Quiet, Number
<1>2. GrantedOnMajority(i)' /\ SealedOnMajority(i)'  BY GrantKept DEF Quiet
<1> QED  BY <1>1, <1>2

(* What a step does to the other nodes. *)
OthersQuiet(i) == \A k \in Nodes \ {i} : Quiet(k)

LEMMA OneSealer ==
  ASSUME IInv, ChainsGrow, SealerInv, NEW i \in Nodes, OthersQuiet(i),
         (CaughtUp(i) /\ GrantedOnMajority(i) /\ SealedOnMajority(i))'
  PROVE  SealerInv'
  BY QuietKeepsSealers DEF SealerInv, OthersQuiet

(* m_highestBlock after reportBlock: as before, or the end of the chain.   *)
LEMMA ReportedHighest ==
  ASSUME StoreType, NEW i \in Nodes, NEW n \in Nat
  PROVE  /\ Reported(i, n).highest \in {store[i].highest, Number(i)}
         /\ n = Number(i) => Reported(i, n).highest = Number(i)
<1> DEFINE s == store[i]
<1>1. s \in Store /\ s.highest <= Number(i) /\ Number(i) \in Nat /\ s.highest \in Nat
  BY HighestType DEF StoreType, Number
<1>2. CASE Number(i) = 0 \/ s.highest < n
  <2> DEFINE acks == {a \in s.acks : a[1] # s.uncommitted.id}
             next == IF Number(i) >= s.consensusNumber THEN Number(i) + 1 ELSE s.consensusNumber
             r == [Cleared(s) EXCEPT !.highest = Number(i), !.acks = acks, !.consensusNumber = next]
  <2>1. Cleared(s) \in Store /\ Cleared(s).acks = s.acks /\ Cleared(s).consensusNumber = s.consensusNumber
    BY <1>1, ClearedType DEF Cleared, Store
  <2>2. Reported(i, n) = r  BY <1>2, <2>1 DEF Reported
  <2> HIDE DEF acks, next
  <2>3. r.highest = Number(i)  BY <2>1 DEF Store
  <2> QED  BY <2>2, <2>3
<1>3. CASE ~(Number(i) = 0 \/ s.highest < n)
  BY <1>1, <1>3 DEF Reported
<1> QED  BY <1>2, <1>3

(* The engine commits a block, or the chain grows from elsewhere: there is *)
(* a new block to report.                                                  *)
GrowsWithNotice(i) ==
  /\ \A k \in Nodes \ {i} : chain'[k] = chain[k] /\ store'[k] = store[k] /\ sealer'[k] = sealer[k]
  /\ \E b : chain' = [chain EXCEPT ![i] = Append(@, b)]
  /\ sealer'[i].syncBlock
  /\ sealer'[i].at # "idle" => /\ sealer'[i].at = sealer[i].at /\ sealer'[i].base = sealer[i].base
                               /\ sealer'[i].block = sealer[i].block

LEMMA NoticeKeepsSealers ==
  ASSUME IInv, SealerInv, NEW i \in Nodes, GrowsWithNotice(i)
  PROVE  ChainsGrow /\ SealerInv'
<1>1. ChainsGrow  BY ChainAppended DEF GrowsWithNotice, IInv
<1>2. OthersQuiet(i)  BY DEF GrowsWithNotice, OthersQuiet, Quiet
<1>3. CaughtUp(i)'  BY DEF GrowsWithNotice, CaughtUp
<1>4. GrantedOnMajority(i)' /\ SealedOnMajority(i)'
  BY <1>1, GrantKept DEF GrowsWithNotice, SealerInv
<1> QED  BY <1>1, <1>2, <1>3, <1>4, OneSealer

LEMMA SealerExecuteUncommitted ==
  ASSUME IInv, SealerInv, NEW i \in Nodes, ExecuteUncommitted(i)
  PROVE  ChainsGrow /\ SealerInv'
<1> DEFINE b == store[i].uncommitted
           f == sealer[i].syncBlock \/ chain'[i] # chain[i]
<1>0. /\ sealer \in [Nodes -> Sealer] /\ store \in [Nodes -> Store]
      /\ chain \in [Nodes -> Seq(Block)]
  BY DEF IInv, ThreadType, StoreType
<1>1. sealer' = [sealer EXCEPT ![i] = [@ EXCEPT !.syncBlock = f]] /\ checkAndExecute(i, b)
  BY DEF ExecuteUncommitted
<1> HIDE DEF b
<1>2. CASE CanCommit(i, b)
  <2>1. chain' = [chain EXCEPT ![i] = Append(@, b)] /\ Stored(i, Cleared(store[i]))
    BY <1>1, <1>2 DEF checkAndExecute
  <2>2. chain'[i] # chain[i]
    <3>1. chain'[i] = Append(chain[i], b) /\ chain[i] \in Seq(Block)  BY <1>0, <2>1
    <3>2. Len(chain'[i]) = Len(chain[i]) + 1 /\ Len(chain[i]) \in Nat  BY <3>1
    <3> QED  BY <3>2
  <2>3. f = TRUE  BY <2>2
  <2>4. sealer'[i].syncBlock /\ sealer'[i].at = sealer[i].at /\ sealer'[i].base = sealer[i].base
        /\ sealer'[i].block = sealer[i].block
    BY <1>0, <1>1, <2>3 DEF Sealer
  <2>5. \A k \in Nodes \ {i} : chain'[k] = chain[k] /\ store'[k] = store[k] /\ sealer'[k] = sealer[k]
    BY <1>0, <1>1, <2>1 DEF Stored
  <2>6. GrowsWithNotice(i)  BY <2>1, <2>4, <2>5 DEF GrowsWithNotice
  <2> QED  BY <2>6, NoticeKeepsSealers
<1>3. CASE ~CanCommit(i, b)
  <2>1. chain' = chain /\ store' = store  BY <1>1, <1>3 DEF checkAndExecute
  <2>2. f = sealer[i].syncBlock
    <3>1. sealer[i].syncBlock \in BOOLEAN  BY <1>0 DEF Sealer
    <3> QED  BY <2>1, <3>1
  <2>3. \A k \in Nodes : Quiet(k)
    <3> HIDE DEF f
    <3> QED  BY <1>0, <1>1, <2>1, <2>2 DEF Quiet, Sealer
  <2>4. ChainsGrow  BY <2>1, ChainsKept
  <2> QED  BY <2>3, <2>4, QuietKeepsSealers DEF SealerInv
<1> QED  BY <1>2, <1>3

LEMMA SealerReports ==
  ASSUME IInv, SealerInv, NEW i \in Nodes, ReportUncommitted(i) \/ reportNewBlock(i)
  PROVE  ChainsGrow /\ SealerInv'
<1>0. /\ sealer \in [Nodes -> Sealer] /\ store \in [Nodes -> Store] /\ StoreType
      /\ Number(i) \in Nat
  BY DEF IInv, ThreadType, StoreType, Number
<1>1. chain' = chain /\ ChainsGrow  BY ChainsKept DEF ReportUncommitted, reportNewBlock
<1>2. OthersQuiet(i)
  BY <1>0 DEF ReportUncommitted, reportNewBlock, OthersQuiet, Quiet, Stored
<1>3. Number(i)' = Number(i)  BY <1>1 DEF Number
<1>4. CaughtUp(i)'
  <2>1. CASE ReportUncommitted(i)
    <3> DEFINE n == store[i].uncommitted.number
    <3>1. n \in Nat  BY <1>0 DEF Store, Block
    <3>2. store'[i] = Reported(i, n) /\ sealer' = sealer
      BY <1>0, <2>1 DEF ReportUncommitted, Stored
    <3> HIDE DEF n
    <3>3. store'[i].highest \in {store[i].highest, Number(i)}
      BY <1>0, <3>1, <3>2, ReportedHighest
    <3> QED  BY <1>3, <3>2, <3>3 DEF CaughtUp, SealerInv
  <2>2. CASE reportNewBlock(i)
    <3>1. store'[i] = Reported(i, Number(i)) /\ sealer'[i].base = Number(i)
      BY <1>0, <2>2 DEF reportNewBlock, Stored, Sealer
    <3>2. store'[i].highest = Number(i)  BY <1>0, <3>1, ReportedHighest
    <3> QED  BY <1>3, <3>1, <3>2 DEF CaughtUp
  <2> QED  BY <2>1, <2>2
<1>5. GrantedOnMajority(i)' /\ SealedOnMajority(i)'
  <2>1. CASE ReportUncommitted(i)
    <3>1. sealer' = sealer  BY <2>1 DEF ReportUncommitted
    <3> QED  BY <1>1, <3>1, GrantKept DEF SealerInv
  <2>2. CASE reportNewBlock(i)
    <3>1. sealer'[i].at = "idle"  BY <1>0, <2>2 DEF reportNewBlock, Sealer
    <3> QED  BY <3>1 DEF GrantedOnMajority, SealedOnMajority
  <2> QED  BY <2>1, <2>2
<1> QED  BY <1>1, <1>2, <1>4, <1>5, OneSealer

(* The answers that let a leader seal come from a majority, itself         *)
(* included, and each of them has the block at m_highestBlock.             *)
LEMMA AnswersOfMajority ==
  ASSUME IInv, MembersHold, NEW i \in Nodes, MajorityHolds(i)
  PROVE  OnMajority(store[i].highest, HashAt(i, store[i].highest))
<1> DEFINE h == store[i].highest
           agree == {m \in members[i] : m.height = h /\ m.hash = HashAt(i, h)}
           S == {j \in Nodes : Holds(j, h, HashAt(i, h))}
           node == [m \in agree |-> m.node]
<1>0. h \in 0..Number(i) /\ 1 + Cardinality(agree) >= Quorum
  BY HighestType DEF MajorityHolds, IInv, StoreType, Number
<1>1. i \in S  BY <1>0 DEF Holds
<1>2. IsFiniteSet(S)
  <2>1. IsFiniteSet(1..N)  BY Constant, FS_Interval DEF AllAssumptions
  <2>2. S \in SUBSET (1..N)  BY DEF Nodes
  <2> QED  BY <2>1, <2>2, FS_Subset
<1>3. node \in Injection(agree, S \ {i})
  <2>1. \A m \in agree : m.node \in S \ {i}
    BY DEF MembersHold, Member
  <2>2. \A m, o \in agree : m.node = o.node => m = o
    BY DEF MembersHold
  <2> QED  BY <2>1, <2>2 DEF Injection, IsInjective
<1>4. IsFiniteSet(S \ {i}) /\ Cardinality(S \ {i}) = Cardinality(S) - 1 /\ Cardinality(S) \in Nat
  BY <1>1, <1>2, FS_RemoveElement, FS_CardinalityType
<1>5. IsFiniteSet(agree) /\ Cardinality(agree) <= Cardinality(S \ {i})
  BY <1>3, <1>4, FS_Injection
<1>6. Cardinality(agree) \in Nat /\ Quorum \in Nat  BY <1>5, FS_CardinalityType, Constant
<1>7. Cardinality(S) >= Quorum
  <2> HIDE DEF S, agree
  <2> QED  BY <1>0, <1>4, <1>5, <1>6
<1> QED  BY <1>7 DEF OnMajority

LEMMA SealerSeals ==
  ASSUME IInv, SealerInv, MembersHold, NEW i \in Nodes, shouldSeal(i) \/ handleBlock(i) \/ NotHandled(i)
  PROVE  ChainsGrow /\ SealerInv'
<1>0. /\ sealer \in [Nodes -> Sealer] /\ store \in [Nodes -> Store] /\ Number(i) \in Nat
  BY DEF IInv, ThreadType, StoreType, Number
<1>1. chain' = chain /\ ChainsGrow  BY ChainsKept DEF shouldSeal, handleBlock, NotHandled
<1>2. OthersQuiet(i)
  BY <1>0, <1>1 DEF shouldSeal, handleBlock, NotHandled, OthersQuiet, Quiet, Stored
<1>3. Number(i)' = Number(i) /\ \A n : HashAt(i, n)' = HashAt(i, n)  BY <1>1 DEF Number, HashAt
<1>4. sealer'[i].syncBlock = sealer[i].syncBlock /\ sealer'[i].base = sealer[i].base
      /\ store'[i].highest = store[i].highest
  <2>1. CASE shouldSeal(i) \/ NotHandled(i)
    BY <1>0, <2>1 DEF shouldSeal, NotHandled, Sealer
  <2>2. CASE handleBlock(i)
    <3> DEFINE b == [id |-> made + 1, number |-> Number(i) + 1, parent |-> Top(i)]
               n == store[i].consensusNumber
    <3>1. Stored(i, [store[i] EXCEPT !.uncommitted = b, !.uncommittedNumber = n])
      BY <2>2 DEF handleBlock
    <3>2. sealer' = [sealer EXCEPT ![i].at = "waiting", ![i].ready = FALSE, ![i].block = b]
      BY <2>2 DEF handleBlock
    <3> HIDE DEF b, n
    <3>3. store'[i].highest = store[i].highest  BY <1>0, <3>1 DEF Stored, Store
    <3> QED  BY <1>0, <3>2, <3>3 DEF Sealer
  <2> QED  BY <2>1, <2>2
<1>5. CaughtUp(i)'  BY <1>3, <1>4 DEF CaughtUp, SealerInv
<1>6. CASE shouldSeal(i)
  <2>1. /\ sealer'[i].at = "granted"
        /\ sealer[i].base = Number(i) /\ store[i].highest = Number(i) /\ MajorityHolds(i)
    BY <1>0, <1>6 DEF shouldSeal, SealerInv, CaughtUp, Sealer
  <2>2. OnMajority(Number(i), HashAt(i, Number(i)))
    BY <2>1, AnswersOfMajority
  <2>3. OnMajority(sealer[i].base, HashAt(i, sealer[i].base))'
    <3>1. PICK x, y : x = Number(i) /\ y = HashAt(i, x)  OBVIOUS
    <3>2. OnMajority(x, y)'  BY <1>1, <2>2, <3>1, MajorityKept
    <3>3. sealer'[i].base = x /\ HashAt(i, x)' = y  BY <1>3, <1>4, <2>1, <3>1
    <3> QED  BY <3>2, <3>3
  <2>4. GrantedOnMajority(i)'
    BY <1>0, <1>3, <1>4, <2>1, <2>3 DEF GrantedOnMajority
  <2>5. SealedOnMajority(i)'  BY <2>1 DEF SealedOnMajority
  <2> QED  BY <1>1, <1>2, <1>5, <2>4, <2>5, OneSealer
<1>7. CASE handleBlock(i)
  <2> DEFINE b == [id |-> made + 1, number |-> Number(i) + 1, parent |-> Top(i)]
  <2>1. /\ sealer[i].at = "granted" /\ sealer[i].base = Number(i)
        /\ sealer'[i].at = "waiting" /\ sealer'[i].block = b
    BY <1>0, <1>7 DEF handleBlock, Sealer
  <2>2. OnMajority(Number(i), Top(i))
    BY <2>1 DEF SealerInv, GrantedOnMajority, Top
  <2>3. PICK x, y : x = Number(i) /\ y = Top(i)  OBVIOUS
  <2>4. OnMajority(x, y)'  BY <1>1, <2>2, <2>3, MajorityKept
  <2>5. sealer'[i].block.number >= 1 /\ sealer'[i].block.number - 1 = x /\ sealer'[i].block.parent = y
    BY <1>0, <2>1, <2>3
  <2>6. SealedOnMajority(i)'  BY <2>4, <2>5 DEF SealedOnMajority
  <2>7. GrantedOnMajority(i)'  BY <2>1 DEF GrantedOnMajority
  <2> QED  BY <1>1, <1>2, <1>5, <2>6, <2>7, OneSealer
<1>8. CASE NotHandled(i)
  <2>1. sealer'[i].at = "idle"  BY <1>0, <1>8 DEF NotHandled, Sealer
  <2>2. GrantedOnMajority(i)' /\ SealedOnMajority(i)'  BY <2>1 DEF GrantedOnMajority, SealedOnMajority
  <2> QED  BY <1>1, <1>2, <1>5, <2>2, OneSealer
<1> QED  BY <1>6, <1>7, <1>8

LEMMA SealerWakes ==
  ASSUME IInv, SealerInv, NEW i \in Nodes, Wake(i)
  PROVE  ChainsGrow /\ SealerInv'
<1>0. sealer \in [Nodes -> Sealer]  BY DEF IInv, ThreadType
<1>1. chain' = chain /\ store' = store /\ ChainsGrow  BY ChainsKept DEF Wake
<1>2. OthersQuiet(i)  BY <1>0, <1>1 DEF Wake, OthersQuiet, Quiet
<1>3. Number(i)' = Number(i)  BY <1>1 DEF Number
<1>4. CASE sealer' = [sealer EXCEPT ![i].at = "executing", ![i].ready = FALSE]
  <2>1. /\ sealer[i].at = "waiting" /\ sealer'[i].at = "executing" /\ sealer'[i].base = sealer[i].base
        /\ sealer'[i].block = sealer[i].block /\ sealer'[i].syncBlock = sealer[i].syncBlock
    BY <1>0, <1>4 DEF Wake, Sealer
  <2>2. CaughtUp(i)'  BY <1>1, <1>3, <2>1 DEF CaughtUp, SealerInv
  <2>3. GrantedOnMajority(i)' /\ SealedOnMajority(i)'  BY <1>1, <2>1, GrantKept DEF SealerInv
  <2> QED  BY <1>1, <1>2, <2>2, <2>3, OneSealer
<1>5. CASE sealer' = [sealer EXCEPT ![i] = [SealerAt(Number(i)) EXCEPT !.syncBlock = sealer[i].syncBlock]]
  <2>1. /\ sealer'[i].at = "idle" /\ sealer'[i].base = Number(i)
        /\ sealer'[i].syncBlock = sealer[i].syncBlock
    BY <1>0, <1>5 DEF SealerAt
  <2>2. CaughtUp(i)'  BY <1>1, <1>3, <2>1 DEF CaughtUp, SealerInv
  <2>3. GrantedOnMajority(i)' /\ SealedOnMajority(i)'  BY <2>1 DEF GrantedOnMajority, SealedOnMajority
  <2> QED  BY <1>1, <1>2, <2>2, <2>3, OneSealer
<1> QED  BY <1>4, <1>5 DEF Wake

LEMMA SealerCommits ==
  ASSUME IInv, SealerInv, NEW i \in Nodes, CommitSealed(i)
  PROVE  ChainsGrow /\ SealerInv'
<1> DEFINE b == sealer[i].block
<1>0. /\ sealer \in [Nodes -> Sealer] /\ store \in [Nodes -> Store]
      /\ chain \in [Nodes -> Seq(Block)]
  BY DEF IInv, ThreadType, StoreType
<1>1. checkAndExecute(i, b)  BY DEF CommitSealed
<1>2. CASE CanCommit(i, b)
  <2>1. chain' = [chain EXCEPT ![i] = Append(@, b)] /\ Stored(i, Cleared(store[i]))
    BY <1>1, <1>2 DEF checkAndExecute
  <2>2. sealer' = [sealer EXCEPT ![i] = [SealerAt(@.base) EXCEPT !.syncBlock = TRUE]]
    BY <1>2 DEF CommitSealed
  <2>3. sealer'[i].syncBlock /\ sealer'[i].at = "idle"  BY <1>0, <2>2 DEF SealerAt
  <2>4. GrowsWithNotice(i)  BY <1>0, <2>1, <2>2, <2>3 DEF GrowsWithNotice, Stored
  <2> QED  BY <2>4, NoticeKeepsSealers
<1>3. CASE ~CanCommit(i, b)
  <2>1. chain' = chain /\ store' = store /\ ChainsGrow
    BY <1>1, <1>3, ChainsKept DEF checkAndExecute
  <2>2. sealer' = [sealer EXCEPT ![i] = [SealerAt(Number(i)) EXCEPT !.syncBlock = sealer[i].syncBlock]]
    BY <1>3 DEF CommitSealed
  <2>3. /\ sealer'[i].at = "idle" /\ sealer'[i].base = Number(i)
        /\ sealer'[i].syncBlock = sealer[i].syncBlock
    BY <1>0, <2>2 DEF SealerAt
  <2>4. OthersQuiet(i)  BY <1>0, <2>1, <2>2 DEF OthersQuiet, Quiet
  <2>5. CaughtUp(i)'  BY <2>1, <2>3 DEF CaughtUp, SealerInv, Number
  <2>6. GrantedOnMajority(i)' /\ SealedOnMajority(i)'  BY <2>3 DEF GrantedOnMajority, SealedOnMajority
  <2> QED  BY <2>1, <2>4, <2>5, <2>6, OneSealer
<1> QED  BY <1>2, <1>3

LEMMA SealerSyncs ==
  ASSUME IInv, SealerInv, NEW i \in Nodes, NEW j \in Nodes, SyncBlock(i, j)
  PROVE  ChainsGrow /\ SealerInv'
<1>0. /\ sealer \in [Nodes -> Sealer] /\ chain \in [Nodes -> Seq(Block)]
  BY DEF IInv, ThreadType, StoreType
<1>1. /\ sealer'[i].syncBlock /\ sealer'[i].at = sealer[i].at /\ sealer'[i].base = sealer[i].base
      /\ sealer'[i].block = sealer[i].block
  BY <1>0 DEF SyncBlock, Sealer
<1>2. chain' = [chain EXCEPT ![i] = Append(@, chain[j][Number(i) + 1])] /\ store' = store
  BY DEF SyncBlock
<1>3. GrowsWithNotice(i)  BY <1>0, <1>1, <1>2 DEF GrowsWithNotice, SyncBlock
<1> QED  BY <1>3, NoticeKeepsSealers

LEMMA SealerRestarts ==
  ASSUME IInv, SealerInv, NEW i \in Nodes, Restart(i)
  PROVE  ChainsGrow /\ SealerInv'
<1>0. /\ sealer \in [Nodes -> Sealer] /\ store \in [Nodes -> Store]
  BY DEF IInv, ThreadType, StoreType
<1>1. chain' = chain /\ ChainsGrow  BY ChainsKept DEF Restart
<1>2. /\ sealer'[i].at = "idle" /\ sealer'[i].base = Number(i) /\ store'[i].highest = Number(i)
  BY <1>0 DEF Restart, Stored, StoreAt, SealerAt
<1>3. OthersQuiet(i)  BY <1>0, <1>1 DEF Restart, OthersQuiet, Quiet, Stored
<1>4. CaughtUp(i)'  BY <1>1, <1>2 DEF CaughtUp, Number
<1>5. GrantedOnMajority(i)' /\ SealedOnMajority(i)'  BY <1>2 DEF GrantedOnMajority, SealedOnMajority
<1> QED  BY <1>1, <1>3, <1>4, <1>5, OneSealer

-----------------------------------------------------------------------------
(* The engines, and what a node remembers of the others.                   *)

LEMMA EnginesKept ==
  ASSUME HonestEngines, ChainsGrow,
         \A k \in Nodes : engine'[k].at = "store" => \/ engine'[k] = engine[k]
                                                     \/ Holds(k, engine'[k].height, engine'[k].hash)
  PROVE  HonestEngines'
<1>1. ASSUME NEW k \in Nodes, engine'[k].at = "store", NEW n, NEW h, n = engine'[k].height, h = engine'[k].hash
      PROVE  Holds(k, n, h)'
  BY <1>1 DEF HonestEngines, ChainsGrow
<1> QED  BY <1>1 DEF HonestEngines

LEMMA MembersKept ==
  ASSUME MembersHold, ChainsGrow, members' = members
  PROVE  MembersHold'
<1>1. ASSUME NEW i \in Nodes, NEW m \in members[i] PROVE Holds(m.node, m.height, m.hash)'
  BY <1>1 DEF MembersHold, ChainsGrow, Member
<1> QED  BY <1>1 DEF MembersHold

LEMMA MembersAnswer ==
  ASSUME IInv, HonestNet, MembersHold, ChainsGrow, NEW i \in Nodes, NEW j \in Nodes \ {i},
         handleHeartbeatResp(i, j)
  PROVE  MembersHold'
<1> DEFINE resp == Head(net[j][i])
           o == [node |-> j, height |-> resp.height, hash |-> resp.hash]
<1>1. resp \in Message /\ resp.type = "HeartBeatResp" /\ Honest(j, resp)
  BY HonestTaken, TakenKeeps DEF handleHeartbeatResp, Receives, IInv
<1>2. resp \in HeartBeatResp  BY <1>1 DEF Message, VoteReq, VoteResp, HeartBeat, HeartBeatResp
<1>3. Holds(j, resp.height, resp.hash)  BY <1>1 DEF Honest
<1>4. o \in Member  BY <1>2 DEF HeartBeatResp, Member
<1>5. \/ members' = members
      \/ members' = [members EXCEPT ![i] = {m \in @ : m.node # j} \cup {o}]
  BY DEF handleHeartbeatResp
<1>6. /\ members' \in [Nodes -> SUBSET Member]
      /\ \A k \in Nodes : \A m \in members'[k] :
           /\ m.node # k /\ Holds(m.node, m.height, m.hash)
           /\ \A p \in members'[k] : p.node = m.node => p = m
  <2>1. CASE members' = members  BY <2>1 DEF MembersHold
  <2>2. CASE members' = [members EXCEPT ![i] = {m \in @ : m.node # j} \cup {o}]
    <3>0. members \in [Nodes -> SUBSET Member]  BY DEF MembersHold
    <3>1. o.node = j /\ Holds(o.node, o.height, o.hash)  BY <1>3
    <3> HIDE DEF o
    <3>2. \A k \in Nodes : members'[k] = IF k = i THEN {m \in members[k] : m.node # j} \cup {o} ELSE members[k]
      BY <2>2, <3>0
    <3>3. members' \in [Nodes -> SUBSET Member]  BY <1>4, <2>2, <3>0
    <3> QED  BY <3>1, <3>2, <3>3 DEF MembersHold
  <2> QED  BY <1>5, <2>1, <2>2
<1>7. ASSUME NEW k \in Nodes, NEW m, m \in members'[k] PROVE Holds(m.node, m.height, m.hash)'
  BY <1>6, <1>7 DEF ChainsGrow, Member
<1> QED  BY <1>6, <1>7 DEF MembersHold

LEMMA MembersRestart ==
  ASSUME MembersHold, ChainsGrow, NEW i \in Nodes, Restart(i)
  PROVE  MembersHold'
<1>1. members' = [members EXCEPT ![i] = {}] /\ members \in [Nodes -> SUBSET Member]
  BY DEF Restart, MembersHold
<1>2. \A k \in Nodes : members'[k] \subseteq members[k]  BY <1>1
<1>3. members' \in [Nodes -> SUBSET Member]  BY <1>1
<1>4. ASSUME NEW k \in Nodes, NEW m, m \in members'[k] PROVE Holds(m.node, m.height, m.hash)'
  BY <1>1, <1>2, <1>4 DEF MembersHold, ChainsGrow, Member
<1> QED  BY <1>2, <1>3, <1>4 DEF MembersHold

-----------------------------------------------------------------------------

LEMMA MajorityInit == Init => MajorityInv
<1> SUFFICES ASSUME Init PROVE MajorityInv  OBVIOUS
<1>1. HonestNet  BY DEF Init, HonestNet, HonestLinks
<1>2. HonestEngines  BY DEF Init, HonestEngines, EngineIdle
<1>3. MembersHold  BY DEF Init, MembersHold
<1>4. SealerInv
  <2>1. \A i \in Nodes : /\ sealer[i].at = "idle" /\ sealer[i].base = 0
                         /\ store[i].highest = 0 /\ Number(i) = 0
    BY DEF Init, SealerAt, StoreAt, Number
  <2> QED  BY <2>1 DEF SealerInv, CaughtUp, GrantedOnMajority, SealedOnMajority
<1> QED  BY <1>1, <1>2, <1>3, <1>4 DEF MajorityInv

LEMMA MajorityNext == IInv /\ MajorityInv /\ [Next]_vars => MajorityInv'
<1> SUFFICES ASSUME IInv, MajorityInv, [Next]_vars PROVE MajorityInv'  OBVIOUS
<1> USE DEF MajorityInv
<1>0. ASSUME ChainsGrow, HonestLinks(net'), SealerInv', MembersHold',
             \A k \in Nodes : engine'[k].at = "store" => \/ engine'[k] = engine[k]
                                                         \/ Holds(k, engine'[k].height, engine'[k].hash)
      PROVE  MajorityInv'
  BY <1>0, HonestKept, EnginesKept
<1>1. CASE UNCHANGED vars
  <2>1. ChainsGrow /\ HonestLinks(net')  BY <1>1, ChainsKept DEF vars, HonestNet, HonestLinks
  <2>2. \A k \in Nodes : Quiet(k)  BY <1>1 DEF vars, Quiet
  <2>3. SealerInv'  BY <2>1, <2>2, QuietKeepsSealers DEF SealerInv
  <2> QED  BY <1>0, <1>1, <2>1, <2>3, MembersKept DEF vars
<1>2. ASSUME NEW i \in Nodes,
             StartElection(i) \/ GiveUpElection(i) \/ broadcastHeartbeat(i) \/ StoreUncommitted(i)
      PROVE  MajorityInv'
  <2>1. chain' = chain /\ members' = members
    BY <1>2 DEF StartElection, GiveUpElection, broadcastHeartbeat, StoreUncommitted
  <2>2. ChainsGrow  BY <2>1, ChainsKept
  <2>3. HonestLinks(net')
    <3>1. CASE GiveUpElection(i)  BY <3>1 DEF GiveUpElection, HonestNet, HonestLinks
    <3> QED  BY <1>2, <3>1, HonestRequests
  <2>4. SealerInv'  BY <1>2, <2>2, QuietEngine, QuietKeepsSealers DEF SealerInv
  <2>5. \A k \in Nodes : engine'[k].at = "store" => engine'[k] = engine[k]
    BY <1>2 DEF StartElection, GiveUpElection, broadcastHeartbeat, StoreUncommitted, IInv, ThreadType, EngineIdle
  <2> QED  BY <1>0, <2>1, <2>2, <2>3, <2>4, <2>5, MembersKept
<1>3. ASSUME NEW i \in Nodes,
             \/ ExecuteUncommitted(i) \/ ReportUncommitted(i) \/ reportNewBlock(i) \/ shouldSeal(i)
             \/ handleBlock(i) \/ NotHandled(i) \/ Wake(i) \/ CommitSealed(i)
             \/ \E j \in Nodes : SyncBlock(i, j)
      PROVE  MajorityInv'
  <2>1. ChainsGrow /\ SealerInv'
    BY <1>3, SealerExecuteUncommitted, SealerReports, SealerSeals, SealerWakes, SealerCommits, SealerSyncs
  <2>2. net' = net /\ members' = members
    BY <1>3 DEF ExecuteUncommitted, ReportUncommitted, reportNewBlock, shouldSeal, handleBlock, NotHandled,
                Wake, CommitSealed, SyncBlock
  <2>3. \A k \in Nodes : engine'[k].at = "store" => engine'[k] = engine[k]
    BY <1>3 DEF ExecuteUncommitted, ReportUncommitted, reportNewBlock, shouldSeal, handleBlock, NotHandled,
                Wake, CommitSealed, SyncBlock, IInv, ThreadType, EngineIdle
  <2>4. HonestLinks(net')  BY <2>2 DEF HonestNet, HonestLinks
  <2> QED  BY <1>0, <2>1, <2>2, <2>3, <2>4, MembersKept
<1>4. ASSUME NEW i \in Nodes, Restart(i) PROVE MajorityInv'
  <2>1. \A k \in Nodes : engine'[k].at = "store" => engine'[k] = engine[k]
    BY <1>4 DEF Restart, IInv, ThreadType, EngineIdle
  <2> QED  BY <1>0, <1>4, <2>1, SealerRestarts, HonestRequests, MembersRestart
<1>5. ASSUME NEW i \in Nodes, NEW j \in Nodes \ {i},
             \/ handleVoteRequest(i, j) \/ handleVoteResponse(i, j) \/ handleEmptyHeartbeat(i, j)
             \/ DropHeartbeat(i, j) \/ handleHeartbeat(i, j) \/ handleHeartbeatResp(i, j) \/ Lose(j, i)
      PROVE  MajorityInv'
  <2>1. chain' = chain
    BY <1>5 DEF handleVoteRequest, handleVoteResponse, handleEmptyHeartbeat, DropHeartbeat,
                handleHeartbeat, handleHeartbeatResp, Lose
  <2>2. ChainsGrow  BY <2>1, ChainsKept
  <2>3. HonestLinks(net')  BY <1>5, HonestAnswers
  <2>4. \A k \in Nodes : Quiet(k)
    <3>1. CASE Lose(j, i)  BY <3>1 DEF Lose, Quiet
    <3> QED  BY <1>5, <3>1, QuietAnswers
  <2>5. SealerInv'  BY <2>2, <2>4, QuietKeepsSealers DEF SealerInv
  <2>6. MembersHold'
    <3>1. CASE handleHeartbeatResp(i, j)  BY <2>2, <3>1, MembersAnswer
    <3>2. CASE ~handleHeartbeatResp(i, j)
      <4>1. members' = members
        <5>1. CASE handleVoteRequest(i, j)  BY <5>1 DEF handleVoteRequest
        <5>2. CASE handleVoteResponse(i, j)  BY <5>2 DEF handleVoteResponse
        <5>3. CASE handleEmptyHeartbeat(i, j)  BY <5>3 DEF handleEmptyHeartbeat
        <5>4. CASE DropHeartbeat(i, j)  BY <5>4 DEF DropHeartbeat
        <5>5. CASE handleHeartbeat(i, j)  BY <5>5 DEF handleHeartbeat
        <5>6. CASE Lose(j, i)  BY <5>6, SMTT(30) DEF Lose
        <5> QED  BY <1>5, <3>2, <5>1, <5>2, <5>3, <5>4, <5>5, <5>6
      <4> QED  BY <2>2, <4>1, MembersKept
    <3> QED  BY <3>1, <3>2
  <2>7. ASSUME NEW k \in Nodes, engine'[k].at = "store"
        PROVE  engine'[k] = engine[k] \/ Holds(k, engine'[k].height, engine'[k].hash)
    <3>1. CASE handleHeartbeat(i, j)
      <4> DEFINE h == store[i].highest
                 e == [at |-> "store", from |-> j, term |-> Head(net[j][i]).term,
                       block |-> Head(net[j][i]).block, height |-> h, hash |-> HashAt(i, h)]
      <4>1. engine' = [engine EXCEPT ![i] = e] /\ engine \in [Nodes -> Engine]
        BY <3>1 DEF handleHeartbeat, IInv, ThreadType
      <4>2. h \in 0..Number(i)  BY HighestType DEF IInv, StoreType, Number
      <4>3. Holds(i, e.height, e.hash)  BY <4>2 DEF Holds
      <4> HIDE DEF e
      <4> QED  BY <4>1, <4>3
    <3>2. CASE engine' = engine  BY <3>2
    <3>3. CASE \E a : tryCommitUncommitedBlock(i, j, a)
      <4>1. engine' = engine \/ engine' = [engine EXCEPT ![i] = [at |-> "commit"]]
        BY <3>3 DEF tryCommitUncommitedBlock, EngineCommits
      <4> QED  BY <2>7, <4>1 DEF IInv, ThreadType
    <3> QED
      BY <1>5, <3>1, <3>2, <3>3 DEF handleVoteRequest, handleVoteResponse, handleEmptyHeartbeat,
                                   DropHeartbeat, handleHeartbeatResp, Lose
  <2>8. \A k \in Nodes : engine'[k].at = "store" => \/ engine'[k] = engine[k]
                                                     \/ Holds(k, engine'[k].height, engine'[k].hash)
    BY <2>7
  <2> QED  BY <1>0, <2>2, <2>3, <2>5, <2>6, <2>8, ZenonT(30)
<1> QED  BY <1>1, <1>2, <1>3, <1>4, <1>5 DEF Next

(* A sealer that has passed shouldSeal works on a block whose parent a     *)
(* majority has on its chain, however old the answers to its heartbeats,   *)
(* whatever its engine and the synchronisation commit in between, and      *)
(* whoever restarts.                                                       *)
THEOREM SealsOnMajority == Spec => []SealsOnMajorityParent
<1>1. IInv /\ MajorityInv => SealsOnMajorityParent
  <2> SUFFICES ASSUME IInv, SealerInv, NEW i \in Nodes, sealer[i].at \in {"waiting", "executing"}
               PROVE  LET b == sealer[i].block
                      IN Cardinality({j \in Nodes : Number(j) >= b.number - 1 /\ HashAt(j, b.number - 1) = b.parent}) >= Quorum
    BY DEF SealsOnMajorityParent, MajorityInv
  <2> DEFINE b == sealer[i].block
  <2>1. b.number - 1 \in Nat /\ OnMajority(b.number - 1, b.parent)
    BY DEF SealerInv, SealedOnMajority, IInv, ThreadType, Sealer, Block
  <2>2. \A j \in Nodes : Holds(j, b.number - 1, b.parent)
          <=> Number(j) >= b.number - 1 /\ HashAt(j, b.number - 1) = b.parent
    <3>1. \A j \in Nodes : Number(j) \in Nat  BY DEF IInv, StoreType, Number
    <3> QED  BY <2>1, <3>1 DEF Holds
  <2>3. {j \in Nodes : Holds(j, b.number - 1, b.parent)}
          = {j \in Nodes : Number(j) >= b.number - 1 /\ HashAt(j, b.number - 1) = b.parent}
    BY <2>2
  <2> QED  BY <2>1, <2>3 DEF OnMajority
<1> QED  BY <1>1, Initially, Inductive, MajorityInit, MajorityNext, PTL DEF Spec
=============================================================================
