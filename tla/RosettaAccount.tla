--------------------------- MODULE RosettaAccount ---------------------------
(***************************************************************************)
(* The Rosetta account endpoints (sui-rosetta/src/account.rs): balance,   *)
(* with its three sub-account kinds, and coins.  A handler is an async    *)
(* task: each .await on the full node is one step, and between two steps  *)
(* the chain may advance.  The chain is one address's history: at each    *)
(* checkpoint height its SUI balance, the status and estimated reward of  *)
(* each of its stakes, and its coins.                                      *)
(***************************************************************************)
EXTENDS Integers, FiniteSets, FiniteSetsExt

CONSTANTS
  Reqs,         \* the requests served, one handler task each
  MaxHeight,    \* the last checkpoint the chain reaches in a run
  Balance,      \* height -> the address's balance at that checkpoint
  StakeIds,     \* the address's StakedSui objects
  Validator,    \* stake -> validator_address of its DelegatedStake
  Principal,    \* stake -> principal
  StakeStatus,  \* height -> stake -> "none", "pending" or "active"
  Reward,       \* height -> stake -> estimated_reward while active
  Coins,        \* the address's coins (ids)
  CoinsAt,      \* height -> the coins the address owns
  None

Heights == 0..MaxHeight
SubKinds == {"Stake", "PendingStake", "EstimatedReward"}

ASSUME RosettaAssumption ==
  /\ MaxHeight \in Nat /\ Balance \in [Heights -> Nat]
  /\ Principal \in [StakeIds -> Nat]
  /\ StakeStatus \in [Heights -> [StakeIds -> {"none", "pending", "active"}]]
  /\ Reward \in [Heights -> [StakeIds -> Nat]]
  /\ CoinsAt \in [Heights -> SUBSET Coins]
  /\ None \notin Heights /\ None \notin SubKinds

\* A request: the network identifier matches or not; a balance request
\* names a sub-account kind or None, and a block identifier with an
\* optional index and an optional hash (a hash names the block of a height).
BlockIds == [index : Heights \cup {None}, hash : Heights \cup {None}]
Requests ==
  [op : {"balance"}, net : BOOLEAN, sub : SubKinds \cup {None}, blk : BlockIds]
  \cup [op : {"coins"}, net : BOOLEAN]

VARIABLES
  height,   \* the full node's latest checkpoint
  pc,       \* per task: "idle", the await it is at, "done" or "error"
  req,      \* per task: the request it serves
  fetched,  \* per task: what the last await returned
  resp,     \* per task: the response, [block, body]
  startH    \* per task: the latest checkpoint when the request arrived

vars == <<height, pc, req, fetched, resp, startH>>

-----------------------------------------------------------------------------
(* get_sub_account_balances.                                               *)

\* Amount::new: a plain amount.
PlainAmount(v) == [value |-> v, subs |-> None]

\* Amount::new_from_sub_balances: the sum, with the sub-balances.
AmountFromSubBalances(subs) ==
  [value |-> MapThenSumSet(LAMBDA b : b.value, subs), subs |-> subs]

\* Mutant of Selected: Stake and EstimatedReward take every stake.
SelectedAnyStake(kind, status) ==
  IF kind = "PendingStake" THEN status = "pending" ELSE status # "none"

\* The StakeStatus arm each kind matches: Pending for PendingStake,
\* Active { .. } for Stake and EstimatedReward.
Selected(kind, status) ==
  IF kind = "PendingStake" THEN status = "pending" ELSE status = "active"

\* The fold over the DelegatedStakes of get_stakes at checkpoint h: one
\* SubBalance per matching stake, its principal or its estimated reward.
SubBalances(kind, h) ==
  {[stake |-> s, validator |-> Validator[s],
    value |-> IF kind = "EstimatedReward" THEN Reward[h][s] ELSE Principal[s]] :
     s \in {st \in StakeIds : Selected(kind, StakeStatus[h][st])}}

\* Always one amount: zero when nothing matches.
GetSubAccountBalances(kind, h) ==
  IF SubBalances(kind, h) = {} THEN PlainAmount(0)
  ELSE AmountFromSubBalances(SubBalances(kind, h))

-----------------------------------------------------------------------------
(* The handlers, one action per await.                                     *)

\* A request arrives; check_network_identifier fails it or the handler
\* goes to its first await.
Start(r) ==
  /\ pc[r] = "idle"
  /\ \E q \in Requests :
       /\ req' = [req EXCEPT ![r] = q]
       /\ pc' = [pc EXCEPT ![r] =
                   IF ~q.net THEN "error"
                   ELSE IF q.op = "coins" THEN "get_sui"
                   ELSE IF q.sub # None THEN "get_stakes"
                   ELSE "block"]
  /\ startH' = [startH EXCEPT ![r] = height]
  /\ UNCHANGED <<height, fetched, resp>>

\* client.get_stakes(address).await, folded into one amount.
GetStakes(r) ==
  /\ pc[r] = "get_stakes"
  /\ fetched' = [fetched EXCEPT ![r] = GetSubAccountBalances(req[r].sub, height)]
  /\ pc' = [pc EXCEPT ![r] = "tip"]
  /\ UNCHANGED <<height, req, resp, startH>>

\* fullnode.get_sui(address).await, mapped to Coins.
GetSui(r) ==
  /\ pc[r] = "get_sui"
  /\ fetched' = [fetched EXCEPT ![r] = CoinsAt[height]]
  /\ pc' = [pc EXCEPT ![r] = "tip"]
  /\ UNCHANGED <<height, req, resp, startH>>

\* Mutant of AnswerAtTip: the block after the latest is reported.
AnswerAtNextBlock(r) ==
  /\ pc[r] = "tip"
  /\ resp' = [resp EXCEPT ![r] = [block |-> height + 1, body |-> fetched[r]]]
  /\ pc' = [pc EXCEPT ![r] = "done"]
  /\ UNCHANGED <<height, req, fetched, startH>>

\* blocks().current_block_identifier().await, after the lookup: the
\* response pairs what was fetched with the checkpoint now latest.
AnswerAtTip(r) ==
  /\ pc[r] = "tip"
  /\ resp' = [resp EXCEPT ![r] = [block |-> height, body |-> fetched[r]]]
  /\ pc' = [pc EXCEPT ![r] = "done"]
  /\ UNCHANGED <<height, req, fetched, startH>>

\* The block of a plain balance request: get_block_by_index if an index
\* is given, else get_block_by_hash if a hash is, else the latest.  A
\* block the node does not have yet is an error.
ResolveBlock(r) ==
  /\ pc[r] = "block"
  /\ LET b == req[r].blk
         h == IF b.index # None THEN b.index
              ELSE IF b.hash # None THEN b.hash ELSE height IN
     IF h <= height
     THEN /\ fetched' = [fetched EXCEPT ![r] = h]
          /\ pc' = [pc EXCEPT ![r] = "balance"]
     ELSE /\ pc' = [pc EXCEPT ![r] = "error"]
          /\ UNCHANGED fetched
  /\ UNCHANGED <<height, req, resp, startH>>

\* Mutant of GetBalanceAtBlock: the balance is read at the latest checkpoint.
GetBalanceAtTip(r) ==
  /\ pc[r] = "balance"
  /\ resp' = [resp EXCEPT ![r] = [block |-> fetched[r], body |-> PlainAmount(Balance[height])]]
  /\ pc' = [pc EXCEPT ![r] = "done"]
  /\ UNCHANGED <<height, req, fetched, startH>>

\* get_balance_at_block(address, block_identifier.index).await.
GetBalanceAtBlock(r) ==
  /\ pc[r] = "balance"
  /\ resp' = [resp EXCEPT ![r] = [block |-> fetched[r], body |-> PlainAmount(Balance[fetched[r]])]]
  /\ pc' = [pc EXCEPT ![r] = "done"]
  /\ UNCHANGED <<height, req, fetched, startH>>

\* Any await on the full node returns an error, which ? propagates.
FullNodeError(r) ==
  /\ pc[r] \in {"get_stakes", "get_sui", "tip", "block", "balance"}
  /\ pc' = [pc EXCEPT ![r] = "error"]
  /\ UNCHANGED <<height, req, fetched, resp, startH>>

\* The chain produces a checkpoint, concurrently with the handlers.
AdvanceChain ==
  /\ height < MaxHeight
  /\ height' = height + 1
  /\ UNCHANGED <<pc, req, fetched, resp, startH>>

Init ==
  /\ height = 0
  /\ pc = [r \in Reqs |-> "idle"]
  /\ req = [r \in Reqs |-> None]
  /\ fetched = [r \in Reqs |-> None]
  /\ resp = [r \in Reqs |-> None]
  /\ startH = [r \in Reqs |-> None]

Next ==
  \/ AdvanceChain
  \/ \E r \in Reqs :
       \/ Start(r) \/ GetStakes(r) \/ GetSui(r) \/ AnswerAtTip(r)
       \/ ResolveBlock(r) \/ GetBalanceAtBlock(r) \/ FullNodeError(r)

Spec == Init /\ [][Next]_vars

-----------------------------------------------------------------------------
(* What the Rosetta Account API asks of a response, from spec section 6  *)
(* and the doc comment of balance: the balances at the block identifier   *)
(* returned, which is the requested block when one is given.              *)

\* The stakes the spec's sub-account kind selects at checkpoint h: active
\* stakes by principal, pending stakes by principal, active stakes by
\* estimated reward; one zero amount if there are none.
SpecSubAmount(kind, h) ==
  LET chosen == {s \in StakeIds : StakeStatus[h][s] =
                   IF kind = "PendingStake" THEN "pending" ELSE "active"}
      subs == {[stake |-> s, validator |-> Validator[s],
                value |-> IF kind = "EstimatedReward" THEN Reward[h][s] ELSE Principal[s]] :
                 s \in chosen}
  IN IF chosen = {} THEN [value |-> 0, subs |-> None]
     ELSE [value |-> MapThenSumSet(LAMBDA b : b.value, subs), subs |-> subs]

\* What a request should be answered with at checkpoint h.
SpecAnswer(q, h) ==
  IF q.op = "coins" THEN CoinsAt[h]
  ELSE IF q.sub # None THEN SpecSubAmount(q.sub, h)
  ELSE [value |-> Balance[h], subs |-> None]

\* The block a balance request names, or None.
RequestedBlock(q) ==
  IF q.blk.index # None THEN q.blk.index ELSE q.blk.hash

\* A plain balance request that names a block.
Historical(q) == q.op = "balance" /\ q.sub = None /\ RequestedBlock(q) # None

Answered(r) == pc[r] = "done"

-----------------------------------------------------------------------------
(* Properties.                                                             *)

TypeOK ==
  /\ height \in Heights
  /\ pc \in [Reqs -> {"idle", "get_stakes", "get_sui", "tip", "block", "balance",
                      "done", "error"}]
  /\ req \in [Reqs -> Requests \cup {None}]
  /\ startH \in [Reqs -> Heights \cup {None}]
  /\ \A r \in Reqs : resp[r] = None \/ resp[r].block \in Heights

\* A plain balance response is the balance at the block it names, that
\* block is the requested one if the request names one and otherwise a
\* checkpoint no older than the request: the handler resolves the block
\* before it reads the balance at it, whatever the chain does meanwhile.
BalanceAtBlock ==
  \A r \in Reqs :
     Answered(r) /\ req[r].op = "balance" /\ req[r].sub = None =>
       /\ resp[r].body = SpecAnswer(req[r], resp[r].block)
       /\ RequestedBlock(req[r]) # None => resp[r].block = RequestedBlock(req[r])
       /\ RequestedBlock(req[r]) = None => startH[r] <= resp[r].block

\* Every response to a request for the current state (a coins request, a
\* sub-account request, a balance request naming no block) is what the
\* API asks at one checkpoint the chain passed while the request was
\* served: get_stakes and get_sui each read one snapshot, and the block
\* reported is never older than the request.
AnsweredFromOneSnapshot ==
  \A r \in Reqs :
     Answered(r) /\ ~Historical(req[r]) =>
       /\ startH[r] <= resp[r].block
       /\ \E h \in startH[r]..resp[r].block : resp[r].body = SpecAnswer(req[r], h)

\* Every response holds the balances at the block identifier it returns,
\* as the doc comment of balance says ("the BlockIdentifier at which the
\* balance lookup was performed").
AnsweredAtItsBlock ==
  \A r \in Reqs : Answered(r) => resp[r].body = SpecAnswer(req[r], resp[r].block)

\* A balance request that names a block is answered at that block.
RequestedBlockHonoured ==
  \A r \in Reqs :
     Answered(r) /\ req[r].op = "balance" /\ RequestedBlock(req[r]) # None =>
       resp[r].block = RequestedBlock(req[r])
=============================================================================
