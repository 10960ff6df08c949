------------------------ MODULE RosettaAccountProofs -----------------------
(***************************************************************************)
(* Proofs about RosettaAccount for every chain history, every set of       *)
(* requests and every last checkpoint that satisfy RosettaAssumption:      *)
(* BalanceAtBlock, and AnsweredFromOneSnapshot, which the run checks on    *)
(* three checkpoints.                                                      *)
(***************************************************************************)
EXTENDS RosettaAccount, TLAPS

PCs == {"idle", "get_stakes", "get_sui", "tip", "block", "balance", "done", "error"}

\* A plain balance request: no sub-account.
Plain(q) == q.op = "balance" /\ q.sub = None

\* Block h is what the request asks for: the named block, or one no older
\* than the request.
Resolved(r, h) ==
  /\ RequestedBlock(req[r]) # None => h = RequestedBlock(req[r])
  /\ RequestedBlock(req[r]) = None => startH[r] <= h

\* The type facts the proofs need: a task past idle holds a request and
\* the checkpoint it arrived at, which the chain has not gone back from.
PTypeOK ==
  /\ height \in Heights
  /\ pc \in [Reqs -> PCs]
  /\ req \in [Reqs -> Requests \cup {None}]
  /\ startH \in [Reqs -> Heights \cup {None}]
  /\ fetched = [r \in Reqs |-> fetched[r]]
  /\ resp = [r \in Reqs |-> resp[r]]
  /\ \A r \in Reqs : pc[r] # "idle" =>
        req[r] \in Requests /\ startH[r] \in Heights /\ startH[r] <= height

\* The plain path: a plain request is at "block", "balance", "done" or
\* "error", the block it holds at "balance" is resolved, and so is the one
\* it answered at.
PlainInv ==
  \A r \in Reqs :
     /\ pc[r] \in {"get_stakes", "get_sui", "tip"} => ~Plain(req[r])
     /\ pc[r] = "block" => Plain(req[r])
     /\ pc[r] = "balance" =>
          Plain(req[r]) /\ fetched[r] \in Heights /\ Resolved(r, fetched[r])
     /\ pc[r] = "done" /\ Plain(req[r]) =>
          /\ resp[r].block \in Heights
          /\ resp[r].body = PlainAmount(Balance[resp[r].block])
          /\ Resolved(r, resp[r].block)

BInv == PTypeOK /\ PlainInv

\* The fields of a balance request.
LEMMA BalanceFields ==
  ASSUME NEW q \in Requests, q.op = "balance"
  PROVE  /\ q.sub \in SubKinds \cup {None}
         /\ q.blk.index \in Heights \cup {None}
         /\ q.blk.hash \in Heights \cup {None}
         /\ q.net \in BOOLEAN
BY DEF Requests, BlockIds

\* A request is for a balance or for coins.
LEMMA RequestOps ==
  ASSUME NEW q \in Requests PROVE q.op \in {"balance", "coins"}
BY DEF Requests

\* A named block is a height.
LEMMA RequestedHeight ==
  ASSUME NEW q \in Requests, q.op = "balance", RequestedBlock(q) # None
  PROVE  RequestedBlock(q) \in Heights
BY BalanceFields DEF RequestedBlock

\* Before any request, no task is past idle.
LEMMA InitBInv == Init => BInv
BY RosettaAssumption DEF Init, BInv, PTypeOK, PlainInv, PCs, Heights

\* PlainInv for one task.
PlainAt(r) ==
  /\ pc[r] \in {"get_stakes", "get_sui", "tip"} => ~Plain(req[r])
  /\ pc[r] = "block" => Plain(req[r])
  /\ pc[r] = "balance" =>
       Plain(req[r]) /\ fetched[r] \in Heights /\ Resolved(r, fetched[r])
  /\ pc[r] = "done" /\ Plain(req[r]) =>
       /\ resp[r].block \in Heights
       /\ resp[r].body = PlainAmount(Balance[resp[r].block])
       /\ Resolved(r, resp[r].block)

\* PlainInv is PlainAt for every task.
LEMMA PlainInvAt == PlainInv <=> \A r \in Reqs : PlainAt(r)
BY DEF PlainInv, PlainAt

\* The same, after a step.
LEMMA PlainInvPrimed == (\A r \in Reqs : PlainAt(r)') => PlainInv'
BY DEF PlainInv, PlainAt

\* A step of task r that keeps its own part of PlainInv keeps all of it:
\* the other tasks' parts read only their own entries.
LEMMA StepOfTask ==
  ASSUME NEW r \in Reqs, \A s \in Reqs : PlainAt(s), PlainAt(r)',
         pc' = [pc EXCEPT ![r] = pc'[r]], req' = [req EXCEPT ![r] = req'[r]],
         fetched' = [fetched EXCEPT ![r] = fetched'[r]],
         resp' = [resp EXCEPT ![r] = resp'[r]],
         startH' = [startH EXCEPT ![r] = startH'[r]],
         pc \in [Reqs -> PCs], req \in [Reqs -> Requests \cup {None}],
         startH \in [Reqs -> Heights \cup {None}],
         fetched = [x \in Reqs |-> fetched[x]], resp = [x \in Reqs |-> resp[x]]
  PROVE  PlainInv'
<1>1. ASSUME NEW s \in Reqs, s # r PROVE PlainAt(s)'
  BY <1>1 DEF PlainAt, Resolved
<1>2. QED
  BY <1>1, PlainInvPrimed

\* Every handler step and every checkpoint keeps BInv.
LEMMA NextBInv == BInv /\ [Next]_vars => BInv'
<1> SUFFICES ASSUME BInv, [Next]_vars PROVE BInv'
  OBVIOUS
<1> USE RosettaAssumption DEF BInv
<1>0. PTypeOK /\ \A r \in Reqs : PlainAt(r)
  BY PlainInvAt
<1>1. CASE AdvanceChain
  <2>1. PTypeOK'
    BY <1>0, <1>1 DEF AdvanceChain, PTypeOK, Heights
  <2>2. \A r \in Reqs : PlainAt(r)'
    BY <1>0, <1>1 DEF AdvanceChain, PlainAt, Resolved
  <2>3. QED
    BY <2>1, <2>2, PlainInvPrimed
<1>2. ASSUME NEW r \in Reqs, Start(r) PROVE BInv'
  <2>p. PICK q \in Requests :
        /\ req' = [req EXCEPT ![r] = q]
        /\ pc' = [pc EXCEPT ![r] =
                    IF ~q.net THEN "error"
                    ELSE IF q.op = "coins" THEN "get_sui"
                    ELSE IF q.sub # None THEN "get_stakes"
                    ELSE "block"]
    BY <1>2 DEF Start
  <2>0. /\ pc[r] = "idle" /\ startH' = [startH EXCEPT ![r] = height]
        /\ UNCHANGED <<height, fetched, resp>>
    BY <1>2 DEF Start
  <2>1. PTypeOK'
    BY <1>0, <2>0, <2>p DEF PTypeOK, PCs, Heights
  <2>2. PlainAt(r)'
    <3>1. q.op \in {"balance", "coins"}
      BY RequestOps
    <3>2. req'[r] = q
      BY <1>0, <2>p DEF PTypeOK
    <3>3. CASE ~q.net
      <4>1. pc'[r] = "error"
        BY <1>0, <2>p, <3>3 DEF PTypeOK
      <4>2. QED
        BY <4>1 DEF PlainAt
    <3>4. CASE q.net /\ q.op = "coins"
      <4>1. pc'[r] = "get_sui"
        BY <1>0, <2>p, <3>4 DEF PTypeOK
      <4>2. QED
        BY <3>2, <3>4, <4>1 DEF PlainAt, Plain
    <3>5. CASE q.net /\ q.op = "balance" /\ q.sub # None
      <4>1. pc'[r] = "get_stakes"
        BY <1>0, <2>p, <3>5 DEF PTypeOK
      <4>2. QED
        BY <3>2, <3>5, <4>1 DEF PlainAt, Plain
    <3>6. CASE q.net /\ q.op = "balance" /\ q.sub = None
      <4>1. pc'[r] = "block"
        BY <1>0, <2>p, <3>6 DEF PTypeOK
      <4>2. QED
        BY <3>2, <3>6, <4>1 DEF PlainAt, Plain
    <3>7. QED
      BY <3>1, <3>3, <3>4, <3>5, <3>6
  <2>3. /\ pc' = [pc EXCEPT ![r] = pc'[r]] /\ req' = [req EXCEPT ![r] = req'[r]]
        /\ fetched' = [fetched EXCEPT ![r] = fetched'[r]]
        /\ resp' = [resp EXCEPT ![r] = resp'[r]]
        /\ startH' = [startH EXCEPT ![r] = startH'[r]]
    BY <1>0, <2>0, <2>p DEF PTypeOK
  <2>4. QED
    BY <1>0, <2>1, <2>2, <2>3, StepOfTask DEF PTypeOK
<1>3. ASSUME NEW r \in Reqs, GetStakes(r) PROVE BInv'
  <2>0. /\ pc[r] = "get_stakes" /\ pc' = [pc EXCEPT ![r] = "tip"]
        /\ fetched' = [fetched EXCEPT ![r] = fetched'[r]]
        /\ UNCHANGED <<height, req, resp, startH>>
    BY <1>3 DEF GetStakes
  <2>1. PTypeOK' /\ PlainAt(r)'
    BY <1>0, <2>0 DEF PTypeOK, PlainAt, PCs
  <2>2. QED
    BY <1>0, <2>0, <2>1, StepOfTask DEF PTypeOK
<1>4. ASSUME NEW r \in Reqs, GetSui(r) PROVE BInv'
  <2>0. /\ pc[r] = "get_sui" /\ pc' = [pc EXCEPT ![r] = "tip"]
        /\ fetched' = [fetched EXCEPT ![r] = fetched'[r]]
        /\ UNCHANGED <<height, req, resp, startH>>
    BY <1>4 DEF GetSui
  <2>1. PTypeOK' /\ PlainAt(r)'
    BY <1>0, <2>0 DEF PTypeOK, PlainAt, PCs
  <2>2. QED
    BY <1>0, <2>0, <2>1, StepOfTask DEF PTypeOK
<1>5. ASSUME NEW r \in Reqs, AnswerAtTip(r) PROVE BInv'
  <2>0. /\ pc[r] = "tip" /\ pc' = [pc EXCEPT ![r] = "done"]
        /\ resp' = [resp EXCEPT ![r] = resp'[r]]
        /\ UNCHANGED <<height, req, fetched, startH>>
    BY <1>5 DEF AnswerAtTip
  <2>1. PTypeOK' /\ PlainAt(r)'
    BY <1>0, <2>0 DEF PTypeOK, PlainAt, PCs
  <2>2. QED
    BY <1>0, <2>0, <2>1, StepOfTask DEF PTypeOK
<1>6. ASSUME NEW r \in Reqs, ResolveBlock(r) PROVE BInv'
  <2> DEFINE b == req[r].blk
             h == IF b.index # None THEN b.index
                  ELSE IF b.hash # None THEN b.hash ELSE height
  <2>0. /\ pc[r] = "block" /\ UNCHANGED <<height, req, resp, startH>>
        /\ \/ h <= height /\ fetched' = [fetched EXCEPT ![r] = h]
                          /\ pc' = [pc EXCEPT ![r] = "balance"]
           \/ ~(h <= height) /\ pc' = [pc EXCEPT ![r] = "error"]
                             /\ fetched' = fetched
    BY <1>6 DEF ResolveBlock
  <2>1. req[r] \in Requests /\ req[r].op = "balance" /\ req[r].sub = None
         /\ startH[r] <= height /\ height \in Heights /\ startH[r] \in Heights
    BY <1>0, <2>0 DEF PTypeOK, PlainAt, Plain
  <2>2. h \in Heights /\ Resolved(r, h)
    <3>1. b.index \in Heights \cup {None} /\ b.hash \in Heights \cup {None}
      BY <2>1, BalanceFields
    <3>2. QED
      BY <2>1, <3>1 DEF Resolved, RequestedBlock
  <2>3. fetched' = [fetched EXCEPT ![r] = fetched'[r]]
    BY <1>0, <2>0 DEF PTypeOK
  <2>4. PTypeOK' /\ PlainAt(r)'
    <3>1. CASE h <= height
      <4>1. fetched' = [fetched EXCEPT ![r] = h] /\ pc' = [pc EXCEPT ![r] = "balance"]
        BY <2>0, <3>1
      <4>2. PTypeOK'
        BY <1>0, <2>0, <4>1 DEF PTypeOK, PCs
      <4>3. PlainAt(r)'
        <5>1. pc'[r] = "balance" /\ fetched'[r] = h /\ req' = req /\ startH' = startH
          <6>1. pc'[r] = "balance" /\ fetched'[r] = h
            BY <1>0, <4>1 DEF PTypeOK
          <6>2. req' = req /\ startH' = startH
            BY <2>0
          <6>3. QED
            BY <6>1, <6>2
        <5>2. /\ RequestedBlock(req'[r]) # None => h = RequestedBlock(req'[r])
              /\ RequestedBlock(req'[r]) = None => startH'[r] <= h
          BY <2>2, <5>1 DEF Resolved
        <5>3. QED
          BY <2>1, <2>2, <5>1, <5>2 DEF PlainAt, Plain, Resolved
      <4>4. QED
        BY <4>2, <4>3
    <3>2. CASE ~(h <= height)
      <4>1. fetched' = fetched /\ pc' = [pc EXCEPT ![r] = "error"]
        BY <2>0, <3>2
      <4>2. QED
        BY <1>0, <2>0, <4>1 DEF PTypeOK, PlainAt, PCs
    <3>3. QED
      BY <3>1, <3>2
  <2>5. QED
    BY <1>0, <2>0, <2>3, <2>4, StepOfTask DEF PTypeOK
<1>7. ASSUME NEW r \in Reqs, GetBalanceAtBlock(r) PROVE BInv'
  <2>0. /\ pc[r] = "balance" /\ pc' = [pc EXCEPT ![r] = "done"]
        /\ resp' = [resp EXCEPT ![r] = [block |-> fetched[r],
                                        body |-> PlainAmount(Balance[fetched[r]])]]
        /\ UNCHANGED <<height, req, fetched, startH>>
    BY <1>7 DEF GetBalanceAtBlock
  <2>1. PTypeOK'
    BY <1>0, <2>0 DEF PTypeOK, PCs
  <2>2. PlainAt(r)'
    BY <1>0, <2>0 DEF PTypeOK, PlainAt, Resolved
  <2>3. QED
    BY <1>0, <2>0, <2>1, <2>2, StepOfTask DEF PTypeOK
<1>8. ASSUME NEW r \in Reqs, FullNodeError(r) PROVE BInv'
  <2>0. /\ pc[r] # "idle" /\ pc' = [pc EXCEPT ![r] = "error"]
        /\ UNCHANGED <<height, req, fetched, resp, startH>>
    BY <1>8 DEF FullNodeError
  <2>1. PTypeOK' /\ PlainAt(r)'
    BY <1>0, <2>0 DEF PTypeOK, PlainAt, PCs
  <2>2. QED
    BY <1>0, <2>0, <2>1, StepOfTask DEF PTypeOK
<1>9. CASE UNCHANGED vars
  BY <1>9 DEF vars, PTypeOK, PlainInv, PlainAt, Resolved
<1>10. QED
  BY <1>1, <1>2, <1>3, <1>4, <1>5, <1>6, <1>7, <1>8, <1>9 DEF Next

\* BInv gives BalanceAtBlock: a plain answer is the PlainAmount the spec asks.
LEMMA BInvBalanceAtBlock == BInv => BalanceAtBlock
BY RosettaAssumption DEF BInv, PTypeOK, PlainInv, BalanceAtBlock, Answered, Plain,
   Resolved, SpecAnswer, PlainAmount

\* A plain balance response is the balance at the block it reports, which
\* is the block the request named or one no older than the request,
\* whatever checkpoints the chain produces between the awaits of balance.
THEOREM BalanceAtItsBlock == Spec => []BalanceAtBlock
<1>1. Init => BInv
  BY InitBInv
<1>2. BInv /\ [Next]_vars => BInv'
  BY NextBInv
<1>3. BInv => BalanceAtBlock
  BY BInvBalanceAtBlock
<1>4. QED
  BY <1>1, <1>2, <1>3, PTL DEF Spec
-----------------------------------------------------------------------------
(* AnsweredFromOneSnapshot.  A task on the lookup path holds, between its *)
(* two awaits, what the API asks at some checkpoint since its request, and *)
(* answers with it at a checkpoint no older.                              *)

\* The fold of get_sub_account_balances computes the amount the spec
\* describes for each sub-account kind.
LEMMA SubAccountAmount ==
  ASSUME NEW kind \in SubKinds, NEW h \in Heights
  PROVE  GetSubAccountBalances(kind, h) = SpecSubAmount(kind, h)
<1> DEFINE chosen == {s \in StakeIds : StakeStatus[h][s] =
                       IF kind = "PendingStake" THEN "pending" ELSE "active"}
<1>1. {st \in StakeIds : Selected(kind, StakeStatus[h][st])} = chosen
  BY DEF Selected
<1>2. SubBalances(kind, h) = {} <=> chosen = {}
  BY <1>1 DEF SubBalances
<1>3. QED
  BY <1>1, <1>2 DEF GetSubAccountBalances, SpecSubAmount, SubBalances,
     PlainAmount, AmountFromSubBalances

\* SnapInv for one task.
SnapAt(r) ==
  /\ pc[r] = "get_stakes" => req[r].op = "balance" /\ req[r].sub \in SubKinds
  /\ pc[r] = "get_sui" => req[r].op = "coins"
  /\ pc[r] = "tip" => \E h \in startH[r]..height : fetched[r] = SpecAnswer(req[r], h)
  /\ pc[r] = "done" /\ ~Plain(req[r]) =>
       /\ resp[r].block \in Heights /\ startH[r] <= resp[r].block
       /\ \E h \in startH[r]..resp[r].block : resp[r].body = SpecAnswer(req[r], h)

SnapInv == \A r \in Reqs : SnapAt(r)

SInv == BInv /\ SnapInv

\* Before any request, SInv holds.
LEMMA InitSInv == Init => SInv
BY InitBInv DEF Init, SInv, SnapInv, SnapAt

\* A step of task r that keeps its own part of SnapInv, and leaves the
\* chain where it is, keeps all of it.
LEMMA SnapStepOfTask ==
  ASSUME NEW r \in Reqs, SnapInv, SnapAt(r)', height' = height,
         pc' = [pc EXCEPT ![r] = pc'[r]], req' = [req EXCEPT ![r] = req'[r]],
         fetched' = [fetched EXCEPT ![r] = fetched'[r]],
         resp' = [resp EXCEPT ![r] = resp'[r]],
         startH' = [startH EXCEPT ![r] = startH'[r]],
         pc \in [Reqs -> PCs], req \in [Reqs -> Requests \cup {None}],
         startH \in [Reqs -> Heights \cup {None}],
         fetched = [x \in Reqs |-> fetched[x]], resp = [x \in Reqs |-> resp[x]]
  PROVE  SnapInv'
<1>1. ASSUME NEW s \in Reqs, s # r PROVE SnapAt(s)'
  BY <1>1 DEF SnapInv, SnapAt
<1>2. QED
  BY <1>1 DEF SnapInv

\* The frame of a step of task r that leaves the chain where it is.
TaskFrame(r) ==
  /\ height' = height
  /\ pc' = [pc EXCEPT ![r] = pc'[r]] /\ req' = [req EXCEPT ![r] = req'[r]]
  /\ fetched' = [fetched EXCEPT ![r] = fetched'[r]]
  /\ resp' = [resp EXCEPT ![r] = resp'[r]]
  /\ startH' = [startH EXCEPT ![r] = startH'[r]]

\* Every handler step and every checkpoint keeps SnapInv.
LEMMA NextSnapInv == SInv /\ [Next]_vars => SnapInv'
<1> SUFFICES ASSUME SInv, [Next]_vars PROVE SnapInv'
  OBVIOUS
<1> USE RosettaAssumption
<1>0. PTypeOK /\ \A r \in Reqs : PlainAt(r) /\ SnapAt(r)
  BY PlainInvAt DEF SInv, BInv, SnapInv
<1>1. CASE AdvanceChain
  <2>1. ASSUME NEW r \in Reqs PROVE SnapAt(r)'
    <3>1. height \in Heights /\ height' = height + 1
      BY <1>0, <1>1 DEF AdvanceChain, PTypeOK
    <3>2. UNCHANGED <<pc, req, fetched, resp, startH>>
      BY <1>1 DEF AdvanceChain
    <3>3. pc[r] = "tip" => \E h \in startH[r]..height' : fetched[r] = SpecAnswer(req[r], h)
      <4>1. SUFFICES ASSUME pc[r] = "tip" PROVE \E h \in startH[r]..height' : fetched[r] = SpecAnswer(req[r], h)
        OBVIOUS
      <4>2. PICK h \in startH[r]..height : fetched[r] = SpecAnswer(req[r], h)
        BY <1>0, <4>1 DEF SnapAt
      <4>3. h \in startH[r]..height'
        BY <3>1, <4>2 DEF Heights
      <4>4. QED
        BY <4>2, <4>3
    <3>4. QED
      BY <1>0, <3>2, <3>3 DEF SnapAt
  <2>2. QED
    BY <2>1 DEF SnapInv
<1>2. ASSUME NEW r \in Reqs, Start(r) PROVE SnapInv'
  <2>1. PICK q \in Requests :
        /\ req' = [req EXCEPT ![r] = q]
        /\ pc' = [pc EXCEPT ![r] =
                    IF ~q.net THEN "error"
                    ELSE IF q.op = "coins" THEN "get_sui"
                    ELSE IF q.sub # None THEN "get_stakes"
                    ELSE "block"]
    BY <1>2 DEF Start
  <2>2. /\ startH' = [startH EXCEPT ![r] = height]
        /\ UNCHANGED <<height, fetched, resp>>
    BY <1>2 DEF Start
  <2>3. req'[r] = q /\ q.op \in {"balance", "coins"}
    BY <1>0, <2>1, RequestOps DEF PTypeOK
  <2>4. q.op = "balance" => q.sub \in SubKinds \cup {None}
    BY BalanceFields
  <2>5. pc'[r] \in {"error", "get_sui", "get_stakes", "block"}
    BY <1>0, <2>1 DEF PTypeOK
  <2>6. pc'[r] = "get_stakes" => q.op = "balance" /\ q.sub \in SubKinds
    BY <1>0, <2>1, <2>3, <2>4 DEF PTypeOK
  <2>7. pc'[r] = "get_sui" => q.op = "coins"
    BY <1>0, <2>1, <2>3 DEF PTypeOK
  <2>8. SnapAt(r)'
    BY <2>3, <2>5, <2>6, <2>7 DEF SnapAt
  <2>9. TaskFrame(r)
    BY <1>0, <2>1, <2>2 DEF PTypeOK, TaskFrame
  <2>10. QED
    BY <1>0, <2>8, <2>9, SnapStepOfTask DEF PTypeOK, TaskFrame, SInv
<1>3. ASSUME NEW r \in Reqs, GetStakes(r) PROVE SnapInv'
  <2>1. /\ pc[r] = "get_stakes" /\ pc' = [pc EXCEPT ![r] = "tip"]
        /\ fetched' = [fetched EXCEPT ![r] = GetSubAccountBalances(req[r].sub, height)]
        /\ UNCHANGED <<height, req, resp, startH>>
    BY <1>3 DEF GetStakes
  <2>2. /\ req[r].op = "balance" /\ req[r].sub \in SubKinds
        /\ startH[r] \in Heights /\ startH[r] <= height /\ height \in Heights
    BY <1>0, <2>1 DEF SnapAt, PTypeOK
  <2>3. fetched'[r] = SpecAnswer(req[r], height)
    <3>1. fetched'[r] = GetSubAccountBalances(req[r].sub, height)
      BY <1>0, <2>1 DEF PTypeOK
    <3>2. GetSubAccountBalances(req[r].sub, height) = SpecSubAmount(req[r].sub, height)
      BY <2>2, SubAccountAmount
    <3>3. SpecAnswer(req[r], height) = SpecSubAmount(req[r].sub, height)
      BY <2>2 DEF SpecAnswer, SubKinds
    <3>4. QED
      BY <3>1, <3>2, <3>3
  <2>4. height \in startH[r]..height
    BY <2>2 DEF Heights
  <2>5. SnapAt(r)'
    BY <1>0, <2>1, <2>3, <2>4 DEF SnapAt, PTypeOK
  <2>6. TaskFrame(r)
    BY <1>0, <2>1 DEF PTypeOK, TaskFrame
  <2>7. QED
    BY <1>0, <2>5, <2>6, SnapStepOfTask DEF PTypeOK, TaskFrame, SInv
<1>4. ASSUME NEW r \in Reqs, GetSui(r) PROVE SnapInv'
  <2>1. /\ pc[r] = "get_sui" /\ pc' = [pc EXCEPT ![r] = "tip"]
        /\ fetched' = [fetched EXCEPT ![r] = CoinsAt[height]]
        /\ UNCHANGED <<height, req, resp, startH>>
    BY <1>4 DEF GetSui
  <2>2. /\ req[r].op = "coins"
        /\ startH[r] \in Heights /\ startH[r] <= height /\ height \in Heights
    BY <1>0, <2>1 DEF SnapAt, PTypeOK
  <2>3. fetched'[r] = SpecAnswer(req[r], height)
    BY <1>0, <2>1, <2>2 DEF PTypeOK, SpecAnswer
  <2>4. height \in startH[r]..height
    BY <2>2 DEF Heights
  <2>5. SnapAt(r)'
    BY <1>0, <2>1, <2>3, <2>4 DEF SnapAt, PTypeOK
  <2>6. TaskFrame(r)
    BY <1>0, <2>1 DEF PTypeOK, TaskFrame
  <2>7. QED
    BY <1>0, <2>5, <2>6, SnapStepOfTask DEF PTypeOK, TaskFrame, SInv
<1>5. ASSUME NEW r \in Reqs, AnswerAtTip(r) PROVE SnapInv'
  <2>1. /\ pc[r] = "tip" /\ pc' = [pc EXCEPT ![r] = "done"]
        /\ resp' = [resp EXCEPT ![r] = [block |-> height, body |-> fetched[r]]]
        /\ UNCHANGED <<height, req, fetched, startH>>
    BY <1>5 DEF AnswerAtTip
  <2>2. PICK h \in startH[r]..height : fetched[r] = SpecAnswer(req[r], h)
    BY <1>0, <2>1 DEF SnapAt
  <2>3. startH[r] \in Heights /\ startH[r] <= height /\ height \in Heights
    BY <1>0, <2>1 DEF PTypeOK
  <2>4. resp'[r] = [block |-> height, body |-> fetched[r]] /\ pc'[r] = "done"
    BY <1>0, <2>1 DEF PTypeOK
  <2>5. SnapAt(r)'
    BY <2>1, <2>2, <2>3, <2>4 DEF SnapAt
  <2>6. TaskFrame(r)
    BY <1>0, <2>1 DEF PTypeOK, TaskFrame
  <2>7. QED
    BY <1>0, <2>5, <2>6, SnapStepOfTask DEF PTypeOK, TaskFrame, SInv
<1>6. ASSUME NEW r \in Reqs, ResolveBlock(r) PROVE SnapInv'
  <2>1. /\ pc[r] = "block" /\ pc'[r] \in {"balance", "error"}
        /\ UNCHANGED <<height, req, resp, startH>>
        /\ fetched' = [fetched EXCEPT ![r] = fetched'[r]]
    BY <1>0, <1>6 DEF ResolveBlock, PTypeOK
  <2>2. SnapAt(r)'
    BY <2>1 DEF SnapAt
  <2>3. TaskFrame(r)
    BY <1>0, <1>6, <2>1 DEF PTypeOK, TaskFrame, ResolveBlock
  <2>4. QED
    BY <1>0, <2>2, <2>3, SnapStepOfTask DEF PTypeOK, TaskFrame, SInv
<1>7. ASSUME NEW r \in Reqs, GetBalanceAtBlock(r) PROVE SnapInv'
  <2>1. /\ pc[r] = "balance" /\ pc' = [pc EXCEPT ![r] = "done"]
        /\ resp' = [resp EXCEPT ![r] = resp'[r]]
        /\ UNCHANGED <<height, req, fetched, startH>>
    BY <1>7 DEF GetBalanceAtBlock
  <2>2. Plain(req[r]) /\ pc'[r] = "done" /\ req' = req
    BY <1>0, <2>1 DEF PlainAt, PTypeOK
  <2>3. SnapAt(r)'
    BY <2>2 DEF SnapAt
  <2>4. TaskFrame(r)
    BY <1>0, <2>1 DEF PTypeOK, TaskFrame
  <2>5. QED
    BY <1>0, <2>3, <2>4, SnapStepOfTask DEF PTypeOK, TaskFrame, SInv
<1>8. ASSUME NEW r \in Reqs, FullNodeError(r) PROVE SnapInv'
  <2>1. /\ pc' = [pc EXCEPT ![r] = "error"]
        /\ UNCHANGED <<height, req, fetched, resp, startH>>
    BY <1>8 DEF FullNodeError
  <2>2. pc'[r] = "error"
    BY <1>0, <2>1 DEF PTypeOK
  <2>3. SnapAt(r)'
    BY <2>2 DEF SnapAt
  <2>4. TaskFrame(r)
    BY <1>0, <2>1 DEF PTypeOK, TaskFrame
  <2>5. QED
    BY <1>0, <2>3, <2>4, SnapStepOfTask DEF PTypeOK, TaskFrame, SInv
<1>9. CASE UNCHANGED vars
  BY <1>9 DEF vars, SInv, SnapInv, SnapAt
<1>10. QED
  BY <1>1, <1>2, <1>3, <1>4, <1>5, <1>6, <1>7, <1>8, <1>9 DEF Next

\* Every step keeps SInv.
LEMMA NextSInv == SInv /\ [Next]_vars => SInv'
BY NextBInv, NextSnapInv DEF SInv

\* SInv gives AnsweredFromOneSnapshot: the lookup path by SnapInv, a plain
\* request naming no block by PlainInv.
LEMMA SInvSnapshot == SInv => AnsweredFromOneSnapshot
<1> SUFFICES ASSUME SInv, NEW r \in Reqs, Answered(r), ~Historical(req[r])
             PROVE  /\ startH[r] <= resp[r].block
                    /\ \E h \in startH[r]..resp[r].block :
                          resp[r].body = SpecAnswer(req[r], h)
  BY DEF AnsweredFromOneSnapshot
<1>0. PTypeOK /\ PlainAt(r) /\ SnapAt(r) /\ pc[r] = "done"
  BY PlainInvAt DEF SInv, BInv, SnapInv, Answered
<1>1. CASE ~Plain(req[r])
  BY <1>0, <1>1 DEF SnapAt
<1>2. CASE Plain(req[r])
  <2>1. RequestedBlock(req[r]) = None
    BY <1>2 DEF Historical, Plain
  <2>2. /\ resp[r].block \in Heights
        /\ resp[r].body = PlainAmount(Balance[resp[r].block])
        /\ startH[r] <= resp[r].block
    BY <1>0, <1>2, <2>1 DEF PlainAt, Resolved
  <2>3. resp[r].body = SpecAnswer(req[r], resp[r].block)
    BY <1>2, <2>2 DEF SpecAnswer, Plain, PlainAmount
  <2>4. startH[r] \in Heights /\ resp[r].block \in startH[r]..resp[r].block
    BY <1>0, <2>2 DEF PTypeOK, Heights
  <2>5. QED
    BY <2>2, <2>3, <2>4
<1>3. QED
  BY <1>1, <1>2

\* Every answer to a request for the current state is what the API asks at
\* one checkpoint the chain passed while the request was served, and the
\* block reported is no older than the request: get_stakes and get_sui
\* each read one snapshot, and current_block_identifier is awaited after.
THEOREM OneSnapshot == Spec => []AnsweredFromOneSnapshot
<1>1. Init => SInv
  BY InitSInv
<1>2. SInv /\ [Next]_vars => SInv'
  BY NextSInv
<1>3. SInv => AnsweredFromOneSnapshot
  BY SInvSnapshot
<1>4. QED
  BY <1>1, <1>2, <1>3, PTL DEF Spec
-----------------------------------------------------------------------------
(* Type correctness of the responses.                                      *)

\* A request has a response only once it is answered: a handler writes
\* the response in the step that finishes it, and a request is served once.
RespInv == \A r \in Reqs : pc[r] # "done" => resp[r] = None

\* Every step keeps RespInv.
LEMMA NextRespInv == SInv /\ RespInv /\ [Next]_vars => RespInv'
<1> SUFFICES ASSUME SInv, RespInv, [Next]_vars, NEW s \in Reqs, pc'[s] # "done"
             PROVE  resp'[s] = None
  BY DEF RespInv
<1>0. PTypeOK
  BY DEF SInv, BInv
<1>1. CASE AdvanceChain \/ UNCHANGED vars
  BY <1>1 DEF AdvanceChain, vars, RespInv
<1>2. ASSUME NEW r \in Reqs,
             Start(r) \/ GetStakes(r) \/ GetSui(r) \/ ResolveBlock(r) \/ FullNodeError(r)
      PROVE  resp'[s] = None
  <2>1. resp' = resp /\ pc[r] # "done"
    BY <1>2 DEF Start, GetStakes, GetSui, ResolveBlock, FullNodeError
  <2>2. s # r => pc'[s] = pc[s]
    BY <1>0, <1>2 DEF Start, GetStakes, GetSui, ResolveBlock, FullNodeError, PTypeOK
  <2>. QED  BY <2>1, <2>2 DEF RespInv
<1>3. ASSUME NEW r \in Reqs, AnswerAtTip(r) \/ GetBalanceAtBlock(r)
      PROVE  resp'[s] = None
  <2>1. pc'[r] = "done"
    BY <1>0, <1>3 DEF AnswerAtTip, GetBalanceAtBlock, PTypeOK
  <2>2. s # r
    BY <2>1
  <2>3. resp'[s] = resp[s] /\ pc'[s] = pc[s]
    BY <1>0, <1>3, <2>2 DEF AnswerAtTip, GetBalanceAtBlock, PTypeOK
  <2>. QED  BY <2>3 DEF RespInv
<1>. QED  BY <1>1, <1>2, <1>3 DEF Next

\* SInv and RespInv give TypeOK: an unanswered request has no response,
\* and an answered one names a checkpoint, by PlainInv on the plain path
\* and SnapInv on the lookup path.
LEMMA TypeOKOfInv == SInv /\ RespInv => TypeOK
<1> SUFFICES ASSUME SInv, RespInv PROVE TypeOK
  OBVIOUS
<1>0. PTypeOK /\ \A r \in Reqs : PlainAt(r) /\ SnapAt(r)
  BY PlainInvAt DEF SInv, BInv, SnapInv
<1>1. ASSUME NEW r \in Reqs PROVE resp[r] = None \/ resp[r].block \in Heights
  BY <1>0 DEF RespInv, PlainAt, SnapAt
<1>. QED  BY <1>0, <1>1 DEF PTypeOK, TypeOK, PCs

\* Every variable of the handlers keeps its type, and every response names
\* a checkpoint of the chain, for every chain and every set of requests.
THEOREM RosettaTypeCorrect == Spec => []TypeOK
<1>1. Init => SInv /\ RespInv
  BY InitSInv DEF Init, RespInv
<1>2. SInv /\ RespInv /\ [Next]_vars => (SInv /\ RespInv)'
  BY NextSInv, NextRespInv
<1>3. QED
  BY <1>1, <1>2, TypeOKOfInv, PTL DEF Spec
=============================================================================
