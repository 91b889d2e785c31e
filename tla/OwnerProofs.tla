----------------------------- MODULE OwnerProofs -----------------------------
(***************************************************************************)
(* Theorems of Owner, for any number of proposals, failures and waits that *)
(* are given up: transactions that are mined late do no harm, and a tree   *)
(* is saved only when its report was mined.                                *)
(***************************************************************************)
EXTENDS Owner, OracleProofs

(* What is waited for, or whose trees are saved.                           *)
CallInv ==
  \A m \in Member : /\ pc[m] \in {"post", "price", "balance"} => call \in Tx
                    /\ pc[m] \in {"price", "balance"} => call.kind = "report"

OwnerIInv == OwnerTypeOK /\ CallInv
-----------------------------------------------------------------------------
(* A queue that grows at its end and is emptied from its front.            *)
LEMMA AppendIs ==
  ASSUME NEW S, NEW q \in Seq(S), NEW t \in S
  PROVE  /\ Append(q, t) \in Seq(S) /\ Len(Append(q, t)) = Len(q) + 1
         /\ \A i \in 1 .. Len(q) : Append(q, t)[i] = q[i]
         /\ Append(q, t)[Len(q) + 1] = t
         /\ Append(q, t) # <<>>
OBVIOUS

LEMMA TailIs ==
  ASSUME NEW S, NEW q \in Seq(S), q # <<>>
  PROVE  /\ Tail(q) \in Seq(S) /\ Len(Tail(q)) = Len(q) - 1 /\ Len(q) \in Nat \ {0}
         /\ \A i \in 1 .. Len(q) - 1 : Tail(q)[i] = q[i + 1]
         /\ Head(q) = q[1] /\ Head(q) \in S
OBVIOUS

(* The member is the only one.                                             *)
LEMMA OneMember ==
  ASSUME NEW m \in Member, NEW n \in Member
  PROVE  m = n
<1>1. \E x : Member = {x}
  BY OwnerAssumption, QuorumAssumption, FS_Singleton
<1>2. QED
  BY <1>1

LEMMA TxTyped ==
  ASSUME NEW t \in Tx
  PROVE  /\ t.kind \in {"report", "verify"}
         /\ t.kind = "report" => /\ t.data \in Data
                                 /\ t.data.price \in Root /\ t.data.balance \in Root
         /\ t.kind = "verify" => t.index \in Index /\ t.index \in Nat
<1>1. \A d \in Data : d.price \in Root /\ d.balance \in Root
  BY DEF Root
<1>2. \A i \in Index : i \in Nat
  BY SizeAssumption DEF Index
<1>3. QED
  BY <1>1, <1>2 DEF Tx

(* What the member does to itself in a step.                               *)
Moves(m) ==
  /\ pc' \in [Member -> Labels] /\ view' \in [Member -> Block] /\ Faded
  /\ tx' \in [Member -> 0 .. Validators] /\ fresh' \in [Member -> BOOLEAN]
  /\ left' \in [Member -> Nat \ {0}] /\ faults' \in 0 .. MaxFaults

Away == {"idle", "stopped", "report", "verify"}

(* It moves to a label and may forget; what fails is bounded.              *)
LEMMA GotoMoves ==
  ASSUME TypeOK, NEW m \in Member, NEW l \in Labels, Goto(m, l),
         UNCHANGED submission \/ Forget(m),
         faults' = faults \/ (faults < MaxFaults /\ faults' = faults + 1)
  PROVE  Moves(m) /\ pc'[m] = l
<1>1. faults' \in 0 .. MaxFaults
  BY SizeAssumption DEF TypeOK
<1>2. /\ pc' \in [Member -> Labels] /\ view' \in [Member -> Block] /\ Faded /\ pc'[m] = l
  BY GotoTyped
<1>3. CASE UNCHANGED submission
  BY <1>1, <1>2, <1>3 DEF Moves, TypeOK, submission
<1>4. CASE Forget(m)
  BY <1>1, <1>2, <1>4, ForgetTyped DEF Moves, Forgotten
<1>5. QED
  BY <1>3, <1>4

(* The end of a step that may send t.                                      *)
Sending(m, t) ==
  /\ Moves(m)
  /\ \/ pc'[m] = "post" /\ call' = t /\ mempool' = Append(mempool, t)
     \/ pc'[m] \in Away /\ call' = NoTx /\ mempool' \in {mempool, Append(mempool, t)}

LEMMA FailedMoves ==
  ASSUME TypeOK, NEW m \in Member, NEW t, Failed(m, t), UNCHANGED submission,
         faults' = faults \/ (faults < MaxFaults /\ faults' = faults + 1)
  PROVE  Moves(m) /\ pc'[m] \in {"verify", "idle"} /\ call' = NoTx
<1> DEFINE l == IF t.kind = "report" THEN "verify" ELSE "idle"
<1>1. l \in Labels /\ l \in {"verify", "idle"}
  BY DEF Labels
<1>2. Goto(m, l) /\ call' = NoTx
  BY DEF Failed
<1> HIDE DEF l
<1>3. Moves(m) /\ pc'[m] = l
  BY <1>1, <1>2, GotoMoves
<1>4. QED
  BY <1>1, <1>2, <1>3

LEMMA TransactMoves ==
  ASSUME TypeOK, NEW m \in Member, NEW t \in Tx, Transact(m, t), UNCHANGED submission
  PROVE  Sending(m, t)
<1>1. CASE mempool' = Sent(t) /\ call' = t /\ Goto(m, "post") /\ UNCHANGED faults
  <2>1. "post" \in Labels
    BY DEF Labels
  <2>2. Moves(m) /\ pc'[m] = "post"
    BY <1>1, <2>1, GotoMoves
  <2>3. QED
    BY <1>1, <2>2 DEF Sending, Sent
<1>2. CASE Failed(m, t) /\ UNCHANGED <<mempool, faults>>
  BY <1>2, FailedMoves DEF Sending, Away
<1>3. CASE HandleFails(m, t) /\ (mempool' = mempool \/ mempool' = Sent(t))
  BY <1>3, FailedMoves DEF HandleFails, Sending, Sent, Away
<1>4. QED
  BY <1>1, <1>2, <1>3 DEF Transact

(* The end of OwnerReport and OwnerVerify.                                 *)
Tried(m) ==
  \/ Moves(m) /\ pc'[m] \in Away /\ call' \in {call, NoTx} /\ mempool' = mempool
  \/ \E t \in Tx : /\ Sending(m, t)
                   /\ t.kind = "verify" => Verifies(m, t.index)

LEMMA OverTried ==
  ASSUME TypeOK, NEW m \in Member, Return(m) \/ Stop(m), UNCHANGED <<faults, mempool, call>>
  PROVE  Tried(m)
<1>1. PICK l \in {"idle", "stopped"} : Goto(m, l) /\ Forget(m)
  BY DEF Return, Stop
<1>2. l \in Labels /\ l \in Away
  BY DEF Labels, Away
<1>3. Moves(m) /\ pc'[m] = l
  BY <1>1, <1>2, GotoMoves
<1>4. QED
  BY <1>2, <1>3 DEF Tried

LEMMA SubmittersMove ==
  ASSUME TypeOK, NEW m \in Member, OwnerReport(m) \/ OwnerVerify(m)
  PROVE  /\ UNCHANGED <<index, blocks, sigs, fired, known, status, trees, roots, timeouts>>
         /\ verified' = verified \/ Checks(m)
         /\ Tried(m)
<1>1. CASE OwnerReport(m)
  <2>1. UNCHANGED <<index, blocks, sigs, fired, known, status, trees, roots, timeouts, verified>>
    BY <1>1 DEF OwnerReport, chainVars
  <2>2. CASE Goto(m, "verify") /\ UNCHANGED <<submission, faults, mempool, call>>
    <3>1. "verify" \in Labels /\ "verify" \in Away
      BY DEF Labels, Away
    <3>2. Moves(m) /\ pc'[m] = "verify"
      BY <2>2, <3>1, GotoMoves
    <3>3. QED
      BY <2>1, <2>2, <3>1, <3>2 DEF Tried
  <2>3. CASE Stop(m) /\ UNCHANGED <<faults, mempool, call>>
    BY <2>1, <2>3, OverTried
  <2>4. CASE (\E d \in Data : Transact(m, [kind |-> "report", data |-> d])) /\ UNCHANGED submission
    <3>1. PICK d \in Data : Transact(m, [kind |-> "report", data |-> d])
      BY <2>4
    <3> DEFINE t == [kind |-> "report", data |-> d]
    <3>2. t \in Tx /\ t.kind = "report"
      BY DEF Tx
    <3>3. Transact(m, t)
      BY <3>1
    <3> HIDE DEF t
    <3>4. Sending(m, t)
      BY <2>4, <3>2, <3>3, TransactMoves
    <3>5. QED
      BY <2>1, <3>2, <3>4 DEF Tried
  <2>5. QED
    BY <1>1, <2>2, <2>3, <2>4 DEF OwnerReport
<1>2. CASE OwnerVerify(m)
  <2>1. UNCHANGED <<index, blocks, sigs, fired, known, status, trees, roots, timeouts>>
    BY <1>2 DEF OwnerVerify, chainVars
  <2>2. CASE (Stop(m) \/ Return(m)) /\ (UNCHANGED verified \/ Checks(m))
             /\ UNCHANGED <<faults, mempool, call>>
    BY <2>1, <2>2, OverTried
  <2>3. CASE /\ Pending(m) # {} /\ Checks(m) /\ Aliens(m) = {}
             /\ Transact(m, [kind |-> "verify", index |-> NewIndex(m)])
             /\ UNCHANGED submission
    <3> DEFINE t == [kind |-> "verify", index |-> NewIndex(m)]
    <3>1. NewIndex(m) \in Index
      BY <2>3, NewIndexIsMax
    <3>2. t \in Tx /\ t.index = NewIndex(m)
      BY <3>1 DEF Tx
    <3>3. Transact(m, t)
      BY <2>3
    <3> HIDE DEF t
    <3>4. Sending(m, t)
      BY <2>3, <3>2, <3>3, TransactMoves
    <3>5. Verifies(m, t.index)
      BY <1>2, <2>1, <2>3, <3>2 DEF Verifies, OwnerVerify
    <3>6. QED
      BY <2>1, <2>3, <3>2, <3>4, <3>5 DEF Tried
  <2>4. QED
    BY <1>2, <2>2, <2>3 DEF OwnerVerify
<1>3. QED
  BY <1>1, <1>2

(* A block that includes the next transaction, or reverts it.              *)
LEMMA MineMoves ==
  ASSUME OwnerTypeOK, Mine
  PROVE  /\ UNCHANGED <<blocks, sigs, memberVars, call, trees, timeouts>>
         /\ faults' \in 0 .. MaxFaults /\ status' \in {0, 1}
         /\ mempool # <<>> /\ mempool' = Tail(mempool) /\ mempool' \in Seq(Tx)
         /\ Head(mempool) \in Tx /\ roots \subseteq roots' /\ roots' \subseteq Root
         /\ \/ index' = index
            \/ Head(mempool).kind = "verify" /\ index' = Head(mempool).index
         /\ status' = 1 /\ Head(mempool).kind = "report" =>
              {Head(mempool).data.price, Head(mempool).data.balance} \subseteq roots'
<1>1. /\ UNCHANGED <<blocks, sigs, memberVars, call, trees, timeouts>>
      /\ mempool # <<>> /\ mempool' = Tail(mempool)
  BY DEF Mine
<1>2. mempool' \in Seq(Tx) /\ Head(mempool) \in Tx
  BY <1>1, TailIs DEF OwnerTypeOK
<1>3. faults \in 0 .. MaxFaults /\ roots \subseteq Root
  BY DEF OwnerTypeOK, TypeOK
<1>4. CASE status' = 1 /\ Accept(Head(mempool)) /\ UNCHANGED faults
  BY <1>1, <1>2, <1>3, <1>4, TxTyped DEF Accept
<1>5. CASE /\ faults < MaxFaults /\ faults' = faults + 1
           /\ status' = 0 /\ UNCHANGED <<index, roots>>
  <2>1. faults' \in 0 .. MaxFaults
    BY <1>3, <1>5, SizeAssumption
  <2>2. QED
    BY <1>1, <1>2, <1>3, <1>5, <2>1
<1>6. QED
  BY <1>4, <1>5 DEF Mine

(* The end of a wait.                                                      *)
LEMMA WaitMoves ==
  ASSUME OwnerTypeOK, NEW m \in Member, Receipt(m) \/ WaitFails(m)
  PROVE  /\ UNCHANGED <<index, blocks, sigs, fired, known, verified, mempool, status, trees, roots>>
         /\ Moves(m) /\ pc[m] = "post" /\ timeouts' \in 0 .. MaxTimeouts
         /\ \/ pc'[m] \in Away /\ call' = NoTx
            \/ /\ pc'[m] = "price" /\ call' = call
               /\ mempool = <<>> /\ status = 1 /\ call.kind = "report"
<1>1. /\ UNCHANGED <<index, blocks, sigs, fired, known, verified, mempool, status, trees, roots>>
      /\ UNCHANGED submission /\ pc[m] = "post" /\ TypeOK
  BY DEF Receipt, WaitFails, chainVars, OwnerTypeOK
<1>2. timeouts' \in 0 .. MaxTimeouts
  BY TimeoutAssumption DEF Receipt, WaitFails, OwnerTypeOK
<1>3. CASE Failed(m, call) /\ (faults' = faults \/ (faults < MaxFaults /\ faults' = faults + 1))
  BY <1>1, <1>2, <1>3, FailedMoves DEF Away
<1>4. CASE /\ Goto(m, "price") /\ UNCHANGED <<call, faults>>
           /\ mempool = <<>> /\ Succeeded /\ call.kind = "report"
  <2>1. "price" \in Labels
    BY DEF Labels
  <2>2. Moves(m) /\ pc'[m] = "price"
    BY <1>1, <1>4, <2>1, GotoMoves
  <2>3. QED
    BY <1>1, <1>2, <1>4, <2>2 DEF Succeeded
<1>5. QED
  BY <1>3, <1>4 DEF Receipt, WaitFails, HandleFails

(* insert_merkle_tree_json, and the two ways it may end.                   *)
LEMMA SaveMoves ==
  ASSUME OwnerIInv, NEW m \in Member, SavePrices(m) \/ SaveBalances(m) \/ SavedAlready(m)
  PROVE  /\ UNCHANGED <<index, blocks, sigs, fired, known, verified, mempool, status, roots, timeouts>>
         /\ Moves(m) /\ pc[m] \in {"price", "balance"}
         /\ \/ pc'[m] \in Away /\ call' = NoTx
            \/ pc'[m] = "balance" /\ call' = call
         /\ trees' \subseteq trees \cup {call.data.price, call.data.balance}
<1>1. /\ UNCHANGED <<index, blocks, sigs, fired, known, verified, mempool, status, roots, timeouts>>
      /\ pc[m] \in {"price", "balance"} /\ UNCHANGED faults
      /\ trees' \subseteq trees \cup {call.data.price, call.data.balance}
  BY DEF SavePrices, SaveBalances, SavedAlready, SaveTree, chainVars
<1>2. \E l \in Labels : /\ Goto(m, l) /\ (UNCHANGED submission \/ Forget(m))
                        /\ \/ l \in Away /\ call' = NoTx
                           \/ l = "balance" /\ call' = call
  <2>1. CASE SavePrices(m)
    BY <2>1 DEF SavePrices, SaveTree, Labels
  <2>2. CASE SaveBalances(m)
    BY <2>2 DEF SaveBalances, SaveTree, Labels, Away
  <2>3. CASE SavedAlready(m)
    BY <2>3 DEF SavedAlready, Stop, Labels, Away
  <2>4. QED
    BY <2>1, <2>2, <2>3
<1>3. PICK l \in Labels : /\ Goto(m, l) /\ (UNCHANGED submission \/ Forget(m))
                          /\ \/ l \in Away /\ call' = NoTx
                             \/ l = "balance" /\ call' = call
  BY <1>2
<1>4. Moves(m) /\ pc'[m] = l
  BY <1>1, <1>3, GotoMoves DEF OwnerIInv, OwnerTypeOK
<1>5. QED
  BY <1>1, <1>3, <1>4

(* The process ends, or is started again.                                  *)
LEMMA ProcessMoves ==
  ASSUME OwnerTypeOK, NEW m \in Member, OwnerCrash(m) \/ (Restart(m) /\ UNCHANGED own)
  PROVE  /\ UNCHANGED <<index, blocks, sigs, fired, known, verified, mempool, status,
                        trees, roots, timeouts>>
         /\ Moves(m) /\ pc'[m] \in Away /\ call' \in {call, NoTx}
<1>1. /\ UNCHANGED <<index, blocks, sigs, fired, known, verified, mempool, status,
                     trees, roots, timeouts>>
      /\ call' \in {call, NoTx} /\ TypeOK
  BY DEF OwnerCrash, Crash, Restart, own, chainVars, OwnerTypeOK
<1>2. \E l \in {"idle", "stopped"} :
        /\ Goto(m, l) /\ (UNCHANGED submission \/ Forget(m))
        /\ faults' = faults \/ (faults < MaxFaults /\ faults' = faults + 1)
  BY DEF OwnerCrash, Crash, Restart, Stop
<1>3. PICK l \in {"idle", "stopped"} :
        /\ Goto(m, l) /\ (UNCHANGED submission \/ Forget(m))
        /\ faults' = faults \/ (faults < MaxFaults /\ faults' = faults + 1)
  BY <1>2
<1>4. l \in Labels /\ l \in Away
  BY DEF Labels, Away
<1>5. Moves(m) /\ pc'[m] = l
  BY <1>1, <1>3, <1>4, GotoMoves
<1>6. QED
  BY <1>1, <1>4, <1>5

(* The indexer.                                                            *)
LEMMA FireMoves ==
  ASSUME TypeOK, NEW m \in Member, Fire(m)
  PROVE  /\ TypeOK' /\ pc'[m] = "report"
         /\ UNCHANGED <<index, blocks, sigs, tx, fresh, left, verified, faults>>
         /\ known[m] \subseteq known'[m]
<1>1. blocks[1] \in Block /\ view[m] \in Block
  BY BlocksTyped DEF TypeOK
<1>2. NewDeposits(m) \subseteq Index
  BY <1>1, SizeAssumption DEF NewDeposits, Index, Block
<1>3. pc' \in [Member -> Labels] /\ pc'[m] = "report"
  BY DEF Fire, TypeOK, Labels
<1>4. /\ view' \in [Member -> Block] /\ fired' \in [Member -> BOOLEAN]
      /\ known' \in [Member -> SUBSET Index] /\ known[m] \subseteq known'[m]
  BY <1>1, <1>2 DEF Fire, TypeOK
<1>5. UNCHANGED <<index, blocks, sigs, tx, fresh, left, verified, faults>>
  BY DEF Fire, chainVars, submission
<1>6. QED
  BY <1>3, <1>4, <1>5 DEF TypeOK

(* Every step is one of these.                                             *)
Acts(m) ==
  \/ OwnerReport(m) \/ OwnerVerify(m) \/ Receipt(m) \/ WaitFails(m)
  \/ SavePrices(m) \/ SaveBalances(m) \/ SavedAlready(m)
  \/ OwnerCrash(m) \/ (Restart(m) /\ UNCHANGED own)

LEMMA OwnerSteps ==
  ASSUME [OwnerNext]_ownerVars
  PROVE  \/ UNCHANGED ownerVars \/ Mine
         \/ Tick /\ UNCHANGED own
         \/ \E m \in Member : (Fire(m) /\ UNCHANGED own) \/ Acts(m)
BY DEF OwnerNext, Acts

(* What the member does by itself.                                         *)
LEMMA ActsMove ==
  ASSUME OwnerIInv, NEW m \in Member, Acts(m)
  PROVE  /\ UNCHANGED <<index, blocks, sigs, fired, known, status, roots>>
         /\ Moves(m) /\ (verified' = verified \/ Checks(m))
         /\ mempool' \in Seq(Tx) /\ call' \in Tx \cup {NoTx}
         /\ trees' \subseteq Root /\ timeouts' \in 0 .. MaxTimeouts
         /\ CallInv'
<1>1. /\ TypeOK /\ OwnerTypeOK /\ mempool \in Seq(Tx) /\ call \in Tx \cup {NoTx}
      /\ trees \subseteq Root /\ timeouts \in 0 .. MaxTimeouts
  BY DEF OwnerIInv, OwnerTypeOK
<1>2. /\ pc[m] \in {"post", "price", "balance"} => call \in Tx
      /\ pc[m] \in {"price", "balance"} => call.kind = "report"
  BY DEF OwnerIInv, CallInv
<1>3. CallInv' <=> /\ pc'[m] \in {"post", "price", "balance"} => call' \in Tx
                   /\ pc'[m] \in {"price", "balance"} => call'.kind = "report"
  BY OneMember DEF CallInv
<1>4. CASE OwnerReport(m) \/ OwnerVerify(m)
  <2>1. /\ UNCHANGED <<index, blocks, sigs, fired, known, status, trees, roots, timeouts>>
        /\ verified' = verified \/ Checks(m)
        /\ Tried(m)
    BY <1>1, <1>4, SubmittersMove
  <2>2. /\ Moves(m) /\ mempool' \in Seq(Tx) /\ call' \in Tx \cup {NoTx}
        /\ pc'[m] \in Away \/ (pc'[m] = "post" /\ call' \in Tx)
    BY <1>1, <2>1 DEF Tried, Sending
  <2>3. QED
    BY <1>1, <1>3, <2>1, <2>2 DEF Away
<1>5. CASE Receipt(m) \/ WaitFails(m)
  BY <1>1, <1>2, <1>3, <1>5, WaitMoves DEF Away
<1>6. CASE SavePrices(m) \/ SaveBalances(m) \/ SavedAlready(m)
  BY <1>1, <1>2, <1>3, <1>6, SaveMoves, TxTyped DEF Away
<1>7. CASE OwnerCrash(m) \/ (Restart(m) /\ UNCHANGED own)
  BY <1>1, <1>3, <1>7, ProcessMoves DEF Away
<1>8. QED
  BY <1>4, <1>5, <1>6, <1>7 DEF Acts

LEMMA OwnerNextIInv == OwnerIInv /\ [OwnerNext]_ownerVars => OwnerIInv'
<1> SUFFICES ASSUME OwnerIInv, [OwnerNext]_ownerVars PROVE OwnerIInv'
  OBVIOUS
<1>1. TypeOK /\ OwnerTypeOK /\ CallInv
  BY DEF OwnerIInv, OwnerTypeOK
<1>2. CASE UNCHANGED ownerVars
  BY <1>2 DEF OwnerIInv, OwnerTypeOK, TypeOK, CallInv, ownerVars, vars, own, chainVars,
              memberVars, submission
<1>3. CASE Mine
  <2>1. UNCHANGED <<blocks, sigs, pc, fired, view, known, tx, fresh, left, verified, call, trees, timeouts>>
    BY <1>1, <1>3, MineMoves DEF memberVars, submission
  <2>2. index' \in 0 .. Validators
    <3>1. \A i \in Index : i \in 0 .. Validators
      BY SizeAssumption DEF Index
    <3>2. QED
      BY <1>1, <1>3, <3>1, MineMoves, TxTyped DEF TypeOK
  <2>3. TypeOK'
    BY <1>1, <1>3, <2>1, <2>2, MineMoves DEF TypeOK
  <2>4. QED
    BY <1>1, <1>3, <2>1, <2>3, MineMoves DEF OwnerIInv, OwnerTypeOK, CallInv
<1>4. CASE Tick /\ UNCHANGED own
  <2>1. blocks' \in Seq(Block) /\ Len(blocks') = Lag + 1
    BY <1>1, <1>4, TickMoves, BlockAdded
  <2>2. /\ UNCHANGED <<index, sigs, pc, view, known, tx, fresh, left, verified, faults>>
        /\ fired' \in [Member -> BOOLEAN]
    BY <1>1, <1>4, TickMoves DEF submission
  <2>3. TypeOK'
    BY <1>1, <2>1, <2>2 DEF TypeOK
  <2>4. QED
    BY <1>1, <1>4, <2>2, <2>3 DEF OwnerIInv, OwnerTypeOK, CallInv, own
<1>5. ASSUME NEW m \in Member, Fire(m), UNCHANGED own
      PROVE  OwnerIInv'
  <2>1. TypeOK' /\ pc'[m] = "report" /\ sigs' = sigs
    BY <1>1, <1>5, FireMoves
  <2>2. CallInv'
    BY <2>1, OneMember DEF CallInv
  <2>3. QED
    BY <1>1, <1>5, <2>1, <2>2 DEF OwnerIInv, OwnerTypeOK, own
<1>6. ASSUME NEW m \in Member, Acts(m)
      PROVE  OwnerIInv'
  <2>1. /\ UNCHANGED <<index, blocks, sigs, fired, known, status, roots>>
        /\ Moves(m) /\ verified' \in [Member -> SUBSET Index]
    BY <1>1, <1>6, ActsMove, ChecksTyped
  <2>2. TypeOK'
    BY <1>1, <2>1 DEF TypeOK, Moves
  <2>3. QED
    BY <1>1, <1>6, <2>1, <2>2, ActsMove DEF OwnerIInv, OwnerTypeOK
<1>7. QED
  BY <1>2, <1>3, <1>4, <1>5, <1>6, OwnerSteps

LEMMA OwnerSpecIInv == OwnerSpec => []OwnerIInv
<1>1. OwnerInit => OwnerIInv
  BY InitIInv, TimeoutAssumption DEF OwnerInit, OwnerIInv, OwnerTypeOK, CallInv, IInv, Init
<1>2. QED
  BY <1>1, OwnerNextIInv, PTL DEF OwnerSpec

(* Every variable keeps its type, with an account as the oracle.           *)
THEOREM OwnerTyped == OwnerSpec => []OwnerTypeOK
<1>1. OwnerIInv => OwnerTypeOK
  BY DEF OwnerIInv
<1>2. QED
  BY <1>1, OwnerSpecIInv, PTL
-----------------------------------------------------------------------------
(* Why the index cannot go back: what is queued for it is in order, from   *)
(* the index of the Portal on, and is known to the member that sends more. *)
InOrder(q, low, K) ==
  /\ \A i, j \in 1 .. Len(q) :
       i <= j /\ q[i].kind = "verify" /\ q[j].kind = "verify" => q[i].index <= q[j].index
  /\ \A i \in 1 .. Len(q) :
       q[i].kind = "verify" => low <= q[i].index /\ q[i].index \in K

QueueInv ==
  \A m \in Member : /\ InOrder(mempool, index, known[m])
                    /\ index = 0 \/ index \in known[m]

LEMMA InOrderGrows ==
  ASSUME NEW q, NEW low, NEW K, NEW L, K \subseteq L, InOrder(q, low, K)
  PROVE  InOrder(q, low, L)
BY DEF InOrder

LEMMA InOrderAppend ==
  ASSUME NEW q \in Seq(Tx), NEW low \in Nat, NEW K, InOrder(q, low, K), NEW t \in Tx,
         t.kind = "verify" => /\ low <= t.index /\ t.index \in K
                              /\ \A i \in 1 .. Len(q) : q[i].kind = "verify" => q[i].index <= t.index
  PROVE  InOrder(Append(q, t), low, K)
<1> DEFINE r == Append(q, t)
<1>1. /\ Len(r) = Len(q) + 1 /\ Len(q) \in Nat /\ r[Len(q) + 1] = t
      /\ \A i \in 1 .. Len(q) : r[i] = q[i]
  BY AppendIs
<1> HIDE DEF r
<1>2. ASSUME NEW i \in 1 .. Len(r), r[i].kind = "verify"
      PROVE  low <= r[i].index /\ r[i].index \in K
  <2>1. CASE i \in 1 .. Len(q)
    BY <1>1, <1>2, <2>1 DEF InOrder
  <2>2. CASE i = Len(q) + 1
    BY <1>1, <1>2, <2>2
  <2>3. QED
    BY <1>1, <2>1, <2>2
<1>3. ASSUME NEW i \in 1 .. Len(r), NEW j \in 1 .. Len(r), i <= j,
             r[i].kind = "verify", r[j].kind = "verify"
      PROVE  r[i].index <= r[j].index
  <2>1. CASE j \in 1 .. Len(q)
    <3>1. i \in 1 .. Len(q)
      BY <1>1, <1>3, <2>1
    <3>2. QED
      BY <1>1, <1>3, <2>1, <3>1 DEF InOrder
  <2>2. CASE j = Len(q) + 1 /\ i \in 1 .. Len(q)
    BY <1>1, <1>3, <2>2
  <2>3. CASE j = Len(q) + 1 /\ i = Len(q) + 1
    <3>1. t.kind = "verify" /\ t.index \in Nat
      BY <1>1, <1>3, <2>3, TxTyped
    <3>2. QED
      BY <1>1, <2>3, <3>1
  <2>4. QED
    BY <1>1, <2>1, <2>2, <2>3
<1>4. QED
  BY <1>2, <1>3 DEF InOrder, r

LEMMA InOrderTail ==
  ASSUME NEW q \in Seq(Tx), q # <<>>, NEW low, NEW K, InOrder(q, low, K)
  PROVE  /\ InOrder(Tail(q), low, K)
         /\ Head(q).kind = "verify" => /\ InOrder(Tail(q), Head(q).index, K)
                                       /\ low <= Head(q).index /\ Head(q).index \in K
<1> DEFINE r == Tail(q)
<1>1. /\ Len(r) = Len(q) - 1 /\ Len(q) \in Nat \ {0} /\ Head(q) = q[1]
      /\ \A i \in 1 .. Len(q) - 1 : r[i] = q[i + 1]
  BY TailIs
<1> HIDE DEF r
<1>2. \A i \in 1 .. Len(r) : i + 1 \in 1 .. Len(q) /\ 1 <= i + 1 /\ r[i] = q[i + 1]
  BY <1>1
<1>3. 1 \in 1 .. Len(q)
  BY <1>1
<1>4. ASSUME NEW i \in 1 .. Len(r), NEW j \in 1 .. Len(r), i <= j,
             r[i].kind = "verify", r[j].kind = "verify"
      PROVE  r[i].index <= r[j].index
  <2>1. i + 1 <= j + 1
    BY <1>1, <1>4
  <2>2. QED
    BY <1>2, <1>4, <2>1 DEF InOrder
<1>5. \A i \in 1 .. Len(r) : r[i].kind = "verify" => low <= r[i].index /\ r[i].index \in K
  BY <1>2 DEF InOrder
<1>6. ASSUME Head(q).kind = "verify", NEW i \in 1 .. Len(r), r[i].kind = "verify"
      PROVE  Head(q).index <= r[i].index
  BY <1>1, <1>2, <1>3, <1>6 DEF InOrder
<1>7. InOrder(r, low, K)
  BY <1>4, <1>5 DEF InOrder
<1>8. ASSUME Head(q).kind = "verify"
      PROVE  /\ InOrder(r, Head(q).index, K)
             /\ low <= Head(q).index /\ Head(q).index \in K
  <2>1. InOrder(r, Head(q).index, K)
    BY <1>4, <1>5, <1>6, <1>8 DEF InOrder
  <2>2. QED
    BY <1>1, <1>3, <1>8, <2>1 DEF InOrder
<1>9. QED
  BY <1>7, <1>8 DEF r

(* Only a verification that is sent concerns the queue of verifications.   *)
LEMMA ActsSend ==
  ASSUME OwnerIInv, NEW m \in Member, Acts(m)
  PROVE  \/ mempool' = mempool
         \/ \E t \in Tx : /\ mempool' = Append(mempool, t)
                          /\ t.kind = "verify" => Verifies(m, t.index)
<1>1. CASE OwnerReport(m) \/ OwnerVerify(m)
  BY <1>1, SubmittersMove DEF Tried, Sending, OwnerIInv, OwnerTypeOK
<1>2. CASE ~ (OwnerReport(m) \/ OwnerVerify(m))
  BY <1>2, WaitMoves, SaveMoves, ProcessMoves DEF Acts, OwnerIInv
<1>3. QED
  BY <1>1, <1>2

LEMMA NextQueueInv ==
  ASSUME OwnerIInv, QueueInv, [OwnerNext]_ownerVars
  PROVE  QueueInv' /\ index' >= index
<1>1. /\ TypeOK /\ OwnerTypeOK /\ mempool \in Seq(Tx) /\ index \in Nat
  BY SizeAssumption DEF OwnerIInv, OwnerTypeOK, TypeOK
<1>2. ASSUME UNCHANGED <<mempool, index>>, \A m \in Member : known[m] \subseteq known'[m]
      PROVE  QueueInv' /\ index' >= index
  <2>1. ASSUME NEW m \in Member
        PROVE  /\ InOrder(mempool', index', known'[m])
               /\ index' = 0 \/ index' \in known'[m]
    BY <1>2, InOrderGrows DEF QueueInv
  <2>2. QED
    BY <1>1, <1>2, <2>1 DEF QueueInv
<1>3. CASE UNCHANGED ownerVars
  BY <1>2, <1>3 DEF ownerVars, vars, own, chainVars, memberVars
<1>4. CASE Tick /\ UNCHANGED own
  BY <1>2, <1>4 DEF Tick, own
<1>5. ASSUME NEW m \in Member, Fire(m), UNCHANGED own
      PROVE  QueueInv' /\ index' >= index
  <2>1. \A n \in Member : known[n] \subseteq known'[n]
    BY <1>1, <1>5, FireMoves, OneMember
  <2>2. QED
    BY <1>2, <1>5, <2>1 DEF Fire, chainVars, own
<1>6. CASE Mine
  <2> DEFINE h == Head(mempool)
  <2>1. /\ known' = known /\ mempool # <<>> /\ mempool' = Tail(mempool) /\ h \in Tx
        /\ index' = index \/ (h.kind = "verify" /\ index' = h.index)
    BY <1>1, <1>6, MineMoves DEF memberVars
  <2>2. h.kind = "verify" => h.index \in Nat
    BY <2>1, TxTyped
  <2>3. ASSUME NEW m \in Member
        PROVE  /\ InOrder(mempool', index', known'[m])
               /\ index' = 0 \/ index' \in known'[m]
               /\ index' >= index
    <3>1. /\ InOrder(mempool, index, known[m])
          /\ index = 0 \/ index \in known[m]
      BY DEF QueueInv
    <3>2. /\ InOrder(mempool', index, known[m])
          /\ h.kind = "verify" => /\ InOrder(mempool', h.index, known[m])
                                  /\ index <= h.index /\ h.index \in known[m]
      BY <1>1, <2>1, <3>1, InOrderTail
    <3>3. QED
      BY <1>1, <2>1, <2>2, <3>1, <3>2
  <2>4. PICK m : m \in Member
    BY QuorumAssumption, FS_EmptySet
  <2>5. QED
    BY <2>3, <2>4 DEF QueueInv
<1>7. ASSUME NEW m \in Member, Acts(m)
      PROVE  QueueInv' /\ index' >= index
  <2>1. UNCHANGED <<index, known>>
    BY <1>7, ActsMove
  <2>2. ASSUME NEW t \in Tx, mempool' = Append(mempool, t),
               t.kind = "verify" => Verifies(m, t.index)
        PROVE  QueueInv' /\ index' >= index
    <3>1. /\ InOrder(mempool, index, known[m])
          /\ index = 0 \/ index \in known[m]
      BY DEF QueueInv
    <3>2. ASSUME t.kind = "verify"
          PROVE  /\ index <= t.index /\ t.index \in known[m]
                 /\ \A i \in 1 .. Len(mempool) :
                      mempool[i].kind = "verify" => mempool[i].index <= t.index
      <4>1. t.index \in Index /\ t.index \in Nat
        BY <3>2, TxTyped
      <4>2. t.index \in known[m] /\ \A j \in known[m] : t.index >= j
        BY <1>1, <2>2, <3>2, <4>1, VerifiesAhead
      <4>3. index <= t.index
        BY <1>1, <3>1, <4>1, <4>2
      <4>4. ASSUME NEW i \in 1 .. Len(mempool), mempool[i].kind = "verify"
            PROVE  mempool[i].index <= t.index
        <5>1. mempool[i] \in Tx /\ mempool[i].index \in known[m]
          BY <1>1, <3>1, <4>4 DEF InOrder
        <5>2. mempool[i].index \in Nat
          BY <4>4, <5>1, TxTyped
        <5>3. QED
          BY <4>1, <4>2, <5>1, <5>2
      <4>5. QED
        BY <4>2, <4>3, <4>4
    <3>3. InOrder(Append(mempool, t), index, known[m])
      BY <1>1, <3>1, <3>2, InOrderAppend
    <3>4. ASSUME NEW n \in Member
          PROVE  InOrder(mempool', index, known[n]) /\ (index = 0 \/ index \in known[n])
      BY <2>2, <3>1, <3>3, OneMember
    <3>5. QED
      BY <1>1, <2>1, <3>4 DEF QueueInv
  <2>3. QED
    BY <1>2, <1>7, <2>1, <2>2, ActsSend
<1>8. QED
  BY <1>3, <1>4, <1>5, <1>6, <1>7, OwnerSteps

LEMMA OwnerSpecQueueInv == OwnerSpec => []QueueInv
<1>1. OwnerInit => QueueInv
  BY DEF OwnerInit, Init, QueueInv, InOrder
<1>2. OwnerIInv /\ QueueInv /\ [OwnerNext]_ownerVars => QueueInv'
  BY NextQueueInv
<1>3. QED
  BY <1>1, <1>2, OwnerSpecIInv, PTL DEF OwnerSpec

(* A transaction that was given up may be mined after its proposals were   *)
(* verified again, and after later ones: the verification index of the     *)
(* Portal never goes back.                                                 *)
THEOREM OwnerNeverGoesBack == OwnerSpec => NeverBack
<1>1. OwnerIInv /\ QueueInv /\ [OwnerNext]_ownerVars => [index' >= index]_ownerVars
  BY NextQueueInv
<1>2. QED
  BY <1>1, OwnerSpecIInv, OwnerSpecQueueInv, PTL DEF OwnerSpec, NeverBack
-----------------------------------------------------------------------------
(* Why a tree that is saved was reported: the member waits for the last    *)
(* transaction of the queue, so the status it reads is that transaction's. *)
RootsOf(d) == {d.price, d.balance}

Reported(t) == t.kind = "report" => RootsOf(t.data) \subseteq roots

WaitInv ==
  \A m \in Member :
    /\ pc[m] = "post" => IF mempool = <<>> THEN status = 1 => Reported(call)
                         ELSE mempool[Len(mempool)] = call
    /\ pc[m] \in {"price", "balance"} => Reported(call)

ReportedInv == WaitInv /\ SavedWereReported

LEMMA NextReportedInv ==
  ASSUME OwnerIInv, ReportedInv, [OwnerNext]_ownerVars
  PROVE  ReportedInv'
<1>1. /\ TypeOK /\ OwnerTypeOK /\ mempool \in Seq(Tx)
  BY DEF OwnerIInv, OwnerTypeOK
<1>2. ASSUME UNCHANGED <<trees, roots>>, NEW m \in Member, pc'[m] \in Away
      PROVE  ReportedInv'
  <2>1. WaitInv'
    BY <1>2, OneMember DEF WaitInv, Away
  <2>2. QED
    BY <1>2, <2>1 DEF ReportedInv, SavedWereReported
<1>3. CASE UNCHANGED ownerVars
  BY <1>3 DEF ownerVars, vars, own, memberVars, ReportedInv, WaitInv, Reported, SavedWereReported
<1>4. CASE Tick /\ UNCHANGED own
  BY <1>4 DEF Tick, own, ReportedInv, WaitInv, Reported, SavedWereReported
<1>5. ASSUME NEW m \in Member, Fire(m), UNCHANGED own
      PROVE  ReportedInv'
  <2>1. pc'[m] = "report"
    BY <1>1, <1>5, FireMoves
  <2>2. QED
    BY <1>2, <1>5, <2>1 DEF Away, own
<1>6. CASE Mine
  <2>1. /\ UNCHANGED <<pc, call, trees>> /\ mempool # <<>> /\ mempool' = Tail(mempool)
        /\ roots \subseteq roots'
        /\ status' = 1 => (Head(mempool).kind = "report" => RootsOf(Head(mempool).data) \subseteq roots')
    BY <1>1, <1>6, MineMoves DEF memberVars, RootsOf
  <2>2. ASSUME NEW m \in Member, pc[m] = "post"
        PROVE  IF mempool' = <<>> THEN status' = 1 => Reported(call)'
               ELSE mempool'[Len(mempool')] = call'
    <3>1. mempool[Len(mempool)] = call
      BY <2>1, <2>2 DEF ReportedInv, WaitInv
    <3>2. /\ Len(mempool') = Len(mempool) - 1 /\ Len(mempool) \in Nat \ {0}
          /\ \A i \in 1 .. Len(mempool) - 1 : mempool'[i] = mempool[i + 1]
          /\ Head(mempool) = mempool[1] /\ mempool' \in Seq(Tx)
      BY <1>1, <2>1, TailIs
    <3>3. CASE mempool' = <<>>
      <4>1. Len(mempool') = 0
        BY <3>3
      <4>2. Len(mempool) = 1
        BY <3>2, <4>1
      <4>3. Head(mempool) = call
        BY <3>1, <3>2, <4>2
      <4>4. QED
        BY <2>1, <3>3, <4>3 DEF Reported
    <3>4. CASE mempool' # <<>>
      <4>1. Len(mempool') \in Nat /\ Len(mempool') # 0
        BY <3>2, <3>4
      <4>2. mempool'[Len(mempool')] = mempool[Len(mempool)]
        BY <3>2, <4>1
      <4>3. QED
        BY <2>1, <3>1, <3>4, <4>2
    <3>5. QED
      BY <3>3, <3>4
  <2>3. ASSUME NEW m \in Member, pc[m] \in {"price", "balance"}
        PROVE  Reported(call)'
    BY <2>1, <2>3 DEF ReportedInv, WaitInv, Reported
  <2>4. WaitInv'
    BY <2>1, <2>2, <2>3 DEF WaitInv
  <2>5. SavedWereReported'
    BY <2>1 DEF ReportedInv, SavedWereReported
  <2>6. QED
    BY <2>4, <2>5 DEF ReportedInv
<1>7. ASSUME NEW m \in Member, OwnerReport(m) \/ OwnerVerify(m)
      PROVE  ReportedInv'
  <2>1. UNCHANGED <<trees, roots>> /\ Tried(m)
    BY <1>1, <1>7, SubmittersMove
  <2>2. CASE pc'[m] \in Away
    BY <1>2, <2>1, <2>2
  <2>3. CASE \E t \in Tx : pc'[m] = "post" /\ call' = t /\ mempool' = Append(mempool, t)
    <3>1. PICK t \in Tx : pc'[m] = "post" /\ call' = t /\ mempool' = Append(mempool, t)
      BY <2>3
    <3>2. /\ mempool' # <<>> /\ Len(mempool') = Len(mempool) + 1
          /\ mempool'[Len(mempool) + 1] = t
      BY <1>1, <3>1, AppendIs
    <3>3. mempool' # <<>> /\ mempool'[Len(mempool')] = call'
      BY <3>1, <3>2
    <3>4. WaitInv'
      BY <3>1, <3>3, OneMember DEF WaitInv
    <3>5. QED
      BY <2>1, <3>4 DEF ReportedInv, SavedWereReported
  <2>4. QED
    BY <2>1, <2>2, <2>3 DEF Tried, Sending
<1>8. ASSUME NEW m \in Member, Receipt(m) \/ WaitFails(m)
      PROVE  ReportedInv'
  <2>1. /\ UNCHANGED <<mempool, status, trees, roots>> /\ pc[m] = "post"
        /\ \/ pc'[m] \in Away
           \/ pc'[m] = "price" /\ call' = call /\ mempool = <<>> /\ status = 1
    BY <1>1, <1>8, WaitMoves
  <2>2. CASE pc'[m] = "price" /\ call' = call /\ mempool = <<>> /\ status = 1
    <3>1. Reported(call)'
      BY <2>1, <2>2 DEF ReportedInv, WaitInv, Reported
    <3>2. WaitInv'
      BY <2>2, <3>1, OneMember DEF WaitInv
    <3>3. QED
      BY <2>1, <3>2 DEF ReportedInv, SavedWereReported
  <2>3. QED
    BY <1>2, <2>1, <2>2
<1>9. ASSUME NEW m \in Member, SavePrices(m) \/ SaveBalances(m) \/ SavedAlready(m)
      PROVE  ReportedInv'
  <2>1. /\ UNCHANGED <<mempool, status, roots>> /\ pc[m] \in {"price", "balance"}
        /\ pc'[m] \in Away \/ (pc'[m] = "balance" /\ call' = call)
        /\ trees' \subseteq trees \cup RootsOf(call.data)
    BY <1>9, SaveMoves DEF RootsOf
  <2>2. Reported(call) /\ call.kind = "report"
    BY <2>1 DEF ReportedInv, WaitInv, OwnerIInv, CallInv
  <2>3. SavedWereReported'
    BY <2>1, <2>2 DEF Reported, ReportedInv, SavedWereReported
  <2>4. WaitInv'
    BY <2>1, <2>2, OneMember DEF WaitInv, Reported, Away
  <2>5. QED
    BY <2>3, <2>4 DEF ReportedInv
<1>10. ASSUME NEW m \in Member, OwnerCrash(m) \/ (Restart(m) /\ UNCHANGED own)
       PROVE  ReportedInv'
  BY <1>1, <1>2, <1>10, ProcessMoves
<1>11. QED
  BY <1>3, <1>4, <1>5, <1>6, <1>7, <1>8, <1>9, <1>10, OwnerSteps DEF Acts

(* No tree is saved without a report that was mined and succeeded, whatever *)
(* was reverted, given up or sent twice.                                   *)
THEOREM SavedTreesWereReported == OwnerSpec => []SavedWereReported
<1>1. OwnerInit => ReportedInv
  BY DEF OwnerInit, Init, ReportedInv, WaitInv, SavedWereReported
<1>2. OwnerIInv /\ ReportedInv /\ [OwnerNext]_ownerVars => ReportedInv'
  BY NextReportedInv
<1>3. ReportedInv => SavedWereReported
  BY DEF ReportedInv
<1>4. QED
  BY <1>1, <1>2, <1>3, OwnerSpecIInv, PTL DEF OwnerSpec
-----------------------------------------------------------------------------
(* Why the account moves the index as a quorum would, when no deposit is   *)
(* missed: all a queued verification passes was checked before it was sent *)
(* and found good.                                                         *)
QueuedInv ==
  \A m \in Member : \A k \in 1 .. Len(mempool) :
    mempool[k].kind = "verify" =>
      \A i \in 1 .. mempool[k].index :
        i > index => i \in verified[m] /\ i \notin Bad

OwnerTrustInv == OwnerIInv /\ QueueInv /\ BlocksInv /\ ViewInv /\ QueuedInv

LEMMA NextOwnerTrustInv ==
  ASSUME OwnerTrustInv, Missable = {}, [OwnerNext]_ownerVars
  PROVE  OwnerTrustInv'
<1>1. /\ OwnerIInv /\ OwnerIInv' /\ QueueInv /\ QueueInv' /\ TypeOK /\ TypeOK' /\ OwnerTypeOK
      /\ index' >= index /\ mempool \in Seq(Tx)
  BY OwnerNextIInv, NextQueueInv DEF OwnerTrustInv, OwnerIInv, OwnerTypeOK
<1>2. index \in Nat /\ index' \in Nat /\ verified \in [Member -> SUBSET Index]
  BY <1>1, SizeAssumption DEF TypeOK
<1>3. /\ Tick \/ blocks' = blocks
      /\ \A n \in Member : Kept(n) \/ Sees(n)
  <2>1. CASE UNCHANGED ownerVars \/ Mine \/ Tick
    BY <1>1, <2>1, MineMoves DEF ownerVars, vars, chainVars, memberVars, Tick, Kept
  <2>2. ASSUME NEW m \in Member, Fire(m)
        PROVE  blocks' = blocks /\ \A n \in Member : Kept(n) \/ Sees(n)
    <3>1. blocks' = blocks
      BY <2>2 DEF Fire, chainVars
    <3>2. QED
      BY <1>1, <2>2, <3>1, FireSees
  <2>3. ASSUME NEW m \in Member, Acts(m)
        PROVE  blocks' = blocks /\ \A n \in Member : Kept(n)
    BY <1>1, <2>3, ActsMove DEF Moves, Faded, Kept
  <2>4. QED
    BY <2>1, <2>2, <2>3, OwnerSteps
<1>4. BlocksInv' /\ ViewInv'
  BY <1>1, <1>3, NextViewInv DEF OwnerTrustInv
<1>5. ASSUME UNCHANGED <<mempool, index, verified>>
      PROVE  QueuedInv'
  BY <1>5 DEF OwnerTrustInv, QueuedInv
<1>6. UNCHANGED ownerVars => QueuedInv'
  BY <1>5 DEF ownerVars, vars, own, chainVars, memberVars
<1>7. Tick /\ UNCHANGED own => QueuedInv'
  BY <1>5 DEF Tick, own
<1>8. ASSUME NEW m \in Member, Fire(m), UNCHANGED own
      PROVE  QueuedInv'
  BY <1>5, <1>8 DEF Fire, own, chainVars
<1>9. ASSUME Mine PROVE QueuedInv'
  <2>1. /\ mempool # <<>> /\ mempool' = Tail(mempool) /\ verified' = verified
    BY <1>1, <1>9, MineMoves DEF memberVars
  <2>2. /\ Len(mempool') = Len(mempool) - 1 /\ Len(mempool) \in Nat \ {0}
        /\ \A k \in 1 .. Len(mempool) - 1 : mempool'[k] = mempool[k + 1] /\ mempool[k + 1] \in Tx
    BY <1>1, <2>1, TailIs
  <2>3. ASSUME NEW m \in Member, NEW k \in 1 .. Len(mempool'), mempool'[k].kind = "verify",
               NEW i \in 1 .. mempool'[k].index, i > index'
        PROVE  i \in verified'[m] /\ i \notin Bad
    <3>1. k + 1 \in 1 .. Len(mempool) /\ mempool'[k] = mempool[k + 1] /\ mempool[k + 1] \in Tx
      BY <2>2
    <3>2. mempool[k + 1].index \in Nat
      BY <2>3, <3>1, TxTyped
    <3>3. i > index /\ i \in 1 .. mempool[k + 1].index
      BY <1>1, <1>2, <2>3, <3>1, <3>2
    <3>4. QED
      BY <2>1, <2>3, <3>1, <3>3 DEF OwnerTrustInv, QueuedInv
  <2>4. QED
    BY <2>3 DEF QueuedInv
<1>10. ASSUME NEW m \in Member, Acts(m)
       PROVE  QueuedInv'
  <2>1. index' = index /\ verified[m] \subseteq verified'[m]
    BY <1>1, <1>2, <1>10, ActsMove DEF Checks
  <2>2. ASSUME NEW k \in 1 .. Len(mempool), mempool[k].kind = "verify",
               NEW i \in 1 .. mempool[k].index, i > index
        PROVE  i \in verified'[m] /\ i \notin Bad
    BY <2>1, <2>2 DEF OwnerTrustInv, QueuedInv
  <2>3. CASE mempool' = mempool
    BY <2>1, <2>2, <2>3, OneMember DEF QueuedInv
  <2>4. ASSUME NEW t \in Tx, mempool' = Append(mempool, t),
               t.kind = "verify" => Verifies(m, t.index)
        PROVE  QueuedInv'
    <3>1. /\ Len(mempool') = Len(mempool) + 1 /\ Len(mempool) \in Nat
          /\ mempool'[Len(mempool) + 1] = t
          /\ \A k \in 1 .. Len(mempool) : mempool'[k] = mempool[k]
      BY <1>1, <2>4, AppendIs
    <3>2. ASSUME t.kind = "verify", NEW i \in 1 .. t.index, i > index
          PROVE  i \in verified'[m] /\ i \notin Bad
      <4>1. t.index \in Index
        BY <3>2, TxTyped
      <4>2. QED
        BY <1>1, <2>4, <3>2, <4>1, VerifiesAll DEF OwnerTrustInv
    <3>3. ASSUME NEW k \in 1 .. Len(mempool'), mempool'[k].kind = "verify",
                 NEW i \in 1 .. mempool'[k].index, i > index
          PROVE  i \in verified'[m] /\ i \notin Bad
      <4>1. CASE k \in 1 .. Len(mempool)
        BY <2>2, <3>1, <3>3, <4>1
      <4>2. CASE k = Len(mempool) + 1
        BY <3>1, <3>2, <3>3, <4>2
      <4>3. QED
        BY <3>1, <4>1, <4>2
    <3>4. QED
      BY <2>1, <3>3, OneMember DEF QueuedInv
  <2>5. QED
    BY <1>1, <1>10, <2>3, <2>4, ActsSend
<1>11. QED
  BY <1>1, <1>4, <1>6, <1>7, <1>8, <1>9, <1>10, OwnerSteps DEF OwnerTrustInv

LEMMA OwnerSpecTrustInv ==
  ASSUME Missable = {}
  PROVE  OwnerSpec => []OwnerTrustInv
<1>1. OwnerInit => BlocksInv /\ ViewInv /\ QueuedInv
  BY InitTrustInv DEF OwnerInit, TrustInv, SeenInv, QueuedInv
<1>2. OwnerInit => OwnerIInv
  BY InitIInv, TimeoutAssumption DEF OwnerInit, OwnerIInv, OwnerTypeOK, CallInv, IInv, Init
<1>3. OwnerInit => QueueInv
  BY DEF OwnerInit, Init, QueueInv, InOrder
<1>4. OwnerInit => OwnerTrustInv
  BY <1>1, <1>2, <1>3 DEF OwnerTrustInv
<1>5. OwnerTrustInv /\ [OwnerNext]_ownerVars => OwnerTrustInv'
  BY NextOwnerTrustInv
<1>6. QED
  BY <1>4, <1>5, PTL DEF OwnerSpec

(* A step of the account is one of Approval.                               *)
LEMMA OwnerApprovalStep ==
  ASSUME OwnerTrustInv, [OwnerNext]_ownerVars
  PROVE  [Approvals!Next]_(Approvals!vars)
<1>1. /\ OwnerIInv /\ QueueInv /\ TypeOK /\ OwnerTypeOK /\ mempool \in Seq(Tx)
      /\ index \in Nat /\ index' >= index
  BY NextQueueInv, SizeAssumption DEF OwnerTrustInv, OwnerIInv, OwnerTypeOK, TypeOK
<1>2. CASE UNCHANGED <<index, verified>>
  BY <1>2 DEF Approvals!vars
<1>3. ASSUME NEW m \in Member, Checks(m), index' = index
      PROVE  Approvals!Next
  <2>1. Pending(m) \in SUBSET (1 .. Validators)
    BY <1>1 DEF Pending, TypeOK, Index
  <2>2. Approvals!Check
    BY <1>3, <2>1 DEF Approvals!Check, Checks
  <2>3. QED
    BY <2>2 DEF Approvals!Next
<1>4. CASE Mine
  <2> DEFINE h == Head(mempool)
  <2>1. /\ mempool # <<>> /\ verified' = verified /\ h \in Tx
        /\ index' = index \/ (h.kind = "verify" /\ index' = h.index)
    BY <1>1, <1>4, MineMoves DEF memberVars
  <2>2. h = mempool[1] /\ 1 \in 1 .. Len(mempool)
    BY <1>1, <2>1, TailIs
  <2>3. CASE h.kind = "verify" /\ index' = h.index
    <3>1. h.index \in Index /\ index <= h.index
      <4>1. h.index \in Index /\ h.index \in Nat
        BY <2>1, <2>3, TxTyped
      <4>2. QED
        BY <1>1, <2>3, <4>1
    <3>2. \A m \in Member : \A i \in 1 .. h.index :
            i > index => i \in verified[m] /\ i \notin Bad
      BY <2>2, <2>3 DEF OwnerTrustInv, QueuedInv
    <3>3. Cardinality(Member) >= Threshold
      <4>1. Cardinality(Member) \in Nat
        BY QuorumAssumption, FS_CardinalityType
      <4>2. QED
        BY <4>1, QuorumAssumption
    <3> HIDE DEF h
    <3>4. QED
      BY <1>1, <2>1, <2>3, <3>1, <3>2, <3>3, IndexMovesAsApproved
  <2>4. QED
    BY <1>2, <2>1, <2>3
<1>5. CASE UNCHANGED ownerVars \/ Tick
  BY <1>2, <1>5 DEF ownerVars, vars, chainVars, memberVars, Tick
<1>6. ASSUME NEW m \in Member, Fire(m)
      PROVE  UNCHANGED <<index, verified>>
  BY <1>6 DEF Fire, chainVars
<1>7. ASSUME NEW m \in Member, Acts(m)
      PROVE  index' = index /\ (verified' = verified \/ Checks(m))
  BY <1>1, <1>7, ActsMove
<1>8. QED
  BY <1>2, <1>3, <1>4, <1>5, <1>6, <1>7, OwnerSteps

(* An account with a queue of its transactions moves the index as Approval *)
(* does, over what it has checked and found good, if no deposit is missed. *)
THEOREM AccountApproves ==
  ASSUME Missable = {}
  PROVE  OwnerSpec => ImplementsApproval
<1>1. OwnerInit => Approvals!Init
  BY DEF OwnerInit, Init, Approvals!Init
<1>2. OwnerTrustInv /\ [OwnerNext]_ownerVars => [Approvals!Next]_(Approvals!vars)
  BY OwnerApprovalStep
<1>3. QED
  BY <1>1, <1>2, OwnerSpecTrustInv, PTL DEF OwnerSpec, ImplementsApproval, Approvals!Spec
=============================================================================
