---------------------------- MODULE OracleProofs ----------------------------
(***************************************************************************)
(* Theorems of Oracle, for any number of members, any quorum of more than  *)
(* half of them, any number of watchers, proposals and failures: how the   *)
(* verification index of the Portal moves.                                 *)
(***************************************************************************)
EXTENDS Oracle, FiniteNumbers

(* What is submitted is a new index, and there is a watcher for it.        *)
TxInv ==
  \A m \in Member : IF pc[m] = "post" THEN tx[m] \in Index /\ left[m] \in Watcher
                    ELSE left[m] = 1

IInv == TypeOK /\ TxInv
-----------------------------------------------------------------------------
(* max() of the proposals a member verifies.                               *)
LEMMA NewIndexIsMax ==
  ASSUME TypeOK, NEW m \in Member, Pending(m) # {}
  PROVE  /\ NewIndex(m) \in Pending(m) /\ NewIndex(m) \in Index
         /\ \A i \in Pending(m) : i <= NewIndex(m)
<1>1. Pending(m) \subseteq Index /\ Index \subseteq Nat
  BY SizeAssumption DEF Pending, TypeOK, Index
<1>2. IsFiniteSet(Pending(m))
  <2>1. IsFiniteSet(Index)
    BY FS_Interval, SizeAssumption DEF Index
  <2>2. QED
    BY <1>1, <2>1, FS_Subset
<1>3. PICK i \in Pending(m) : \A j \in Pending(m) : j <= i
  BY <1>1, <1>2, GreatestExists
<1>4. QED
  BY <1>1, <1>3 DEF NewIndex, MaxOf

(* What is left of a view when a trigger is over, for whatever reason.     *)
Faded ==
  \A n \in Member : /\ view'[n].deposits = view[n].deposits
                    /\ view'[n].index = view[n].index \/ view'[n].index = 0

LEMMA GotoTyped ==
  ASSUME TypeOK, NEW m \in Member, NEW l \in Labels, Goto(m, l)
  PROVE  /\ pc' \in [Member -> Labels] /\ view' \in [Member -> Block]
         /\ pc'[m] = l /\ \A n \in Member : n # m => pc'[n] = pc[n]
         /\ Faded
<1>1. view \in [Member -> Block] /\ pc \in [Member -> Labels]
  BY DEF TypeOK
<1>2. ASSUME NEW b \in Block
      PROVE  Seen(b) \in Block /\ Seen(b).deposits = b.deposits /\ Seen(b).index = 0
  BY SizeAssumption DEF Seen, Block
<1>3. CASE view' = [view EXCEPT ![m] = Seen(@)]
  BY <1>1, <1>2, <1>3 DEF Goto, Faded
<1>4. CASE view' = view
  BY <1>1, <1>4 DEF Goto, Faded
<1>5. QED
  BY <1>3, <1>4 DEF Goto

(* A member that forgets is in none of its submissions any more.           *)
Forgotten(m) ==
  /\ tx' \in [Member -> 0 .. Validators] /\ fresh' \in [Member -> BOOLEAN]
  /\ left' \in [Member -> Nat \ {0}] /\ fresh'[m] = FALSE /\ left'[m] = 1
  /\ \A n \in Member : n # m => UNCHANGED <<tx[n], fresh[n], left[n]>>

LEMMA ForgetTyped ==
  ASSUME TypeOK, NEW m \in Member, Forget(m)
  PROVE  Forgotten(m)
BY SizeAssumption DEF Forget, TypeOK, Forgotten

(* handle_* returns, or the process ends: the trigger is over.             *)
Over(m) ==
  /\ pc' \in [Member -> Labels] /\ view' \in [Member -> Block]
  /\ pc'[m] \in {"idle", "stopped"} /\ \A n \in Member : n # m => pc'[n] = pc[n]
  /\ Forgotten(m) /\ Faded

LEMMA ReturnTyped ==
  ASSUME TypeOK, NEW m \in Member, Return(m) \/ Stop(m)
  PROVE  Over(m)
<1>1. PICK l \in {"idle", "stopped"} : Goto(m, l) /\ Forget(m)
  BY DEF Return, Stop
<1>2. l \in Labels
  BY DEF Labels
<1>3. QED
  BY <1>1, <1>2, GotoTyped, ForgetTyped DEF Over

(* post_submit_batch up to its loop: signed for the nonce of now, or not   *)
(* submitted.                                                              *)
Signed(m, i) ==
  /\ pc' \in [Member -> Labels] /\ view' \in [Member -> Block]
  /\ pc'[m] = "post" /\ \A n \in Member : n # m => pc'[n] = pc[n]
  /\ tx' \in [Member -> 0 .. Validators] /\ fresh' \in [Member -> BOOLEAN]
  /\ tx'[m] = i /\ \A n \in Member : n # m => UNCHANGED <<tx[n], fresh[n]>>
  /\ left' = left /\ Faded

LEMMA SubmitTyped ==
  ASSUME TypeOK, NEW m \in Member, NEW i \in Index, Submit(m, i)
  PROVE  faults' \in 0 .. MaxFaults /\ (Signed(m, i) \/ Over(m))
<1>1. CASE Sign(m, i) /\ Goto(m, "post") /\ UNCHANGED <<left, faults>>
  <2>1. "post" \in Labels /\ i \in 0 .. Validators
    BY SizeAssumption DEF Labels, Index
  <2>2. /\ tx' \in [Member -> 0 .. Validators] /\ fresh' \in [Member -> BOOLEAN] /\ tx'[m] = i
        /\ \A n \in Member : n # m => UNCHANGED <<tx[n], fresh[n]>>
    BY <1>1, <2>1 DEF Sign, TypeOK
  <2>3. faults' \in 0 .. MaxFaults
    BY <1>1 DEF TypeOK
  <2>4. QED
    BY <1>1, <2>1, <2>2, <2>3, GotoTyped DEF Signed
<1>2. CASE faults < MaxFaults /\ faults' = faults + 1 /\ Return(m)
  <2>1. faults' \in 0 .. MaxFaults
    BY <1>2, SizeAssumption DEF TypeOK
  <2>2. QED
    BY <1>2, <2>1, ReturnTyped
<1>3. QED
  BY <1>1, <1>2 DEF Submit

(* What Verify(m) may do.                                                  *)
LEMMA VerifyMoves ==
  ASSUME TypeOK, NEW m \in Member, Verify(m)
  PROVE  /\ pc[m] = "verify" /\ UNCHANGED <<index, blocks, sigs, fired, known>>
         /\ faults' \in 0 .. MaxFaults
         /\ \/ Over(m) /\ (verified' = verified \/ Checks(m))
            \/ /\ Pending(m) # {} /\ Checks(m) /\ Aliens(m) = {} /\ Watchers # 0
               /\ NewIndex(m) \in Index /\ Signed(m, NewIndex(m))
<1>1. pc[m] = "verify" /\ UNCHANGED <<index, blocks, sigs, fired, known>>
  BY DEF Verify, chainVars
<1>2. faults \in 0 .. MaxFaults
  BY DEF TypeOK
<1>3. CASE (Return(m) \/ Stop(m)) /\ UNCHANGED faults /\ (verified' = verified \/ Checks(m))
  BY <1>1, <1>2, <1>3, ReturnTyped
<1>4. CASE Pending(m) # {} /\ Checks(m) /\ ~ Unsigned(m) /\ Submit(m, NewIndex(m))
  <2>1. NewIndex(m) \in Index
    BY <1>4, NewIndexIsMax
  <2>2. Aliens(m) = {} /\ Watchers # 0
    BY <1>4 DEF Unsigned
  <2>3. QED
    BY <1>1, <1>4, <2>1, <2>2, SubmitTyped
<1>5. QED
  BY <1>3, <1>4 DEF Verify

(* ... and Post(m).                                                        *)
LEMMA PostMoves ==
  ASSUME IInv, NEW m \in Member, Post(m)
  PROVE  /\ pc[m] = "post" /\ UNCHANGED <<index, blocks, fired, known, verified>>
         /\ faults' \in 0 .. MaxFaults /\ sigs' \in {sigs, Received(m)}
         /\ Received(m) \subseteq Watcher \X Member \X Index
         /\ \/ Over(m)
            \/ /\ left[m] < Watchers /\ left' = [left EXCEPT ![m] = @ + 1]
               /\ UNCHANGED <<pc, view, tx, fresh>>
<1>1. pc[m] = "post" /\ UNCHANGED <<index, blocks, fired, known, verified>>
  BY DEF Post
<1>2. faults' \in 0 .. MaxFaults
  <2>1. faults' = faults \/ (faults < MaxFaults /\ faults' = faults + 1)
    BY DEF Post
  <2>2. QED
    BY <2>1, SizeAssumption DEF IInv, TypeOK
<1>3. Received(m) \subseteq Watcher \X Member \X Index
  BY <1>1 DEF Received, IInv, TypeOK, TxInv
<1>4. sigs' \in {sigs, Received(m)}
  BY DEF Post
<1>5. CASE Return(m)
  BY <1>1, <1>2, <1>3, <1>4, <1>5, ReturnTyped DEF IInv
<1>6. CASE left[m] < Watchers /\ left' = [left EXCEPT ![m] = @ + 1] /\ UNCHANGED <<pc, view, tx, fresh>>
  BY <1>1, <1>2, <1>3, <1>4, <1>6
<1>7. QED
  BY <1>5, <1>6 DEF Post
-----------------------------------------------------------------------------
LEMMA InitIInv == Init => IInv
<1> SUFFICES ASSUME Init PROVE IInv
  OBVIOUS
<1>1. FirstBlock \in Block
  BY SizeAssumption DEF FirstBlock, Block
<1>2. blocks \in Seq(Block) /\ Len(blocks) = Lag + 1
  BY <1>1, SizeAssumption DEF Init
<1>3. TypeOK
  BY <1>1, <1>2, SizeAssumption DEF Init, TypeOK, Labels
<1>4. TxInv
  BY DEF Init, TxInv
<1>5. QED
  BY <1>3, <1>4 DEF IInv

(* The block that is added is one.                                         *)
LEMMA BlockAdded ==
  ASSUME TypeOK, NEW b \in Block, blocks' = Append(Tail(blocks), b)
  PROVE  /\ blocks' \in Seq(Block) /\ Len(blocks') = Lag + 1
         /\ blocks'[Lag + 1] = b
         /\ \A i \in 1 .. Lag : blocks'[i] = blocks[i + 1]
<1>1. blocks \in Seq(Block) /\ Len(blocks) = Lag + 1 /\ Lag \in Nat /\ blocks # <<>>
  BY SizeAssumption DEF TypeOK
<1>2. /\ Tail(blocks) \in Seq(Block) /\ Len(Tail(blocks)) = Lag
      /\ \A i \in 1 .. Lag : Tail(blocks)[i] = blocks[i + 1]
  BY <1>1
<1> DEFINE rest == Tail(blocks)
<1> HIDE DEF rest
<1>3. /\ rest \in Seq(Block) /\ Len(rest) = Lag /\ blocks' = Append(rest, b)
      /\ \A i \in 1 .. Lag : rest[i] = blocks[i + 1]
  BY <1>2 DEF rest
<1>4. blocks' \in Seq(Block) /\ Len(blocks') = Lag + 1 /\ blocks'[Lag + 1] = b
  BY <1>1, <1>3
<1>5. \A i \in 1 .. Lag : blocks'[i] = rest[i]
  BY <1>1, <1>3
<1>6. QED
  BY <1>3, <1>4, <1>5

(* The block seen and the newest one are blocks.                           *)
LEMMA BlocksTyped ==
  ASSUME TypeOK
  PROVE  Lag \in Nat /\ \A i \in 1 .. Lag + 1 : blocks[i] \in Block
BY SizeAssumption DEF TypeOK

(* The block of a Tick.                                                    *)
LEMMA TickMoves ==
  ASSUME TypeOK, Tick
  PROVE  /\ \E b \in Block : /\ blocks' = Append(Tail(blocks), b)
                             /\ b.index = index /\ b.deposits >= blocks[Lag + 1].deposits
         /\ fired' = [m \in Member |-> FALSE]
         /\ UNCHANGED <<index, sigs, pc, view, known, submission, verified, faults>>
<1> DEFINE newest == blocks[Lag + 1]
           b(n) == [index |-> index, deposits |-> n,
                    settled |-> IF Delayed THEN newest.deposits ELSE n,
                    waiting |-> IF Delayed THEN newest.settled ELSE n]
<1>1. PICK n \in newest.deposits .. Validators : blocks' = Append(Tail(blocks), b(n))
  BY DEF Tick
<1>2. newest \in Block
  BY BlocksTyped
<1>3. newest.deposits \in 0 .. Validators /\ newest.settled \in 0 .. Validators
  BY <1>2 DEF Block
<1>4. n \in 0 .. Validators /\ n >= newest.deposits
  BY <1>3, SizeAssumption
<1>5. b(n) \in Block
  BY <1>3, <1>4, ChoiceAssumption DEF Block, TypeOK
<1>6. b(n).index = index /\ b(n).deposits >= newest.deposits
  BY <1>4
<1> HIDE DEF b, newest
<1>7. \E x \in Block : blocks' = Append(Tail(blocks), x) /\ x.index = index
                       /\ x.deposits >= newest.deposits
  BY <1>1, <1>5, <1>6
<1>8. QED
  BY <1>7 DEF Tick, newest

LEMMA TickIInv == IInv /\ Tick => IInv'
<1> SUFFICES ASSUME IInv, Tick PROVE IInv'
  OBVIOUS
<1>1. blocks' \in Seq(Block) /\ Len(blocks') = Lag + 1
  BY TickMoves, BlockAdded DEF IInv
<1>2. /\ UNCHANGED <<index, sigs, pc, view, known, tx, fresh, left, verified, faults>>
      /\ fired' \in [Member -> BOOLEAN]
  BY TickMoves DEF IInv, submission
<1>3. QED
  BY <1>1, <1>2 DEF IInv, TypeOK, TxInv

LEMMA ExecuteIInv == IInv /\ Execute => IInv'
<1> SUFFICES ASSUME IInv, Execute PROVE IInv'
  OBVIOUS
<1>1. index' \in 0 .. Validators
  BY SizeAssumption DEF Execute, Index
<1>2. /\ sigs' = {} /\ fresh' \in [Member -> BOOLEAN]
      /\ UNCHANGED <<blocks, pc, fired, view, known, tx, left, verified, faults>>
  BY DEF Execute
<1>3. QED
  BY <1>1, <1>2 DEF IInv, TypeOK, TxInv

LEMMA FireIInv ==
  ASSUME IInv, NEW m \in Member, Fire(m)
  PROVE  IInv'
<1> USE DEF IInv
<1>1. blocks[1] \in Block /\ view[m] \in Block
  BY BlocksTyped DEF TypeOK
<1>2. NewDeposits(m) \subseteq Index
  BY <1>1, SizeAssumption DEF NewDeposits, Index, Block
<1>3. pc' \in [Member -> Labels] /\ \A n \in Member : pc'[n] = "post" <=> pc[n] = "post"
  BY DEF Fire, TypeOK, Labels
<1>4. /\ view' \in [Member -> Block] /\ fired' \in [Member -> BOOLEAN]
      /\ known' \in [Member -> SUBSET Index]
  BY <1>1, <1>2 DEF Fire, TypeOK
<1>5. UNCHANGED <<index, blocks, sigs, tx, fresh, left, verified, faults>>
  BY DEF Fire, chainVars, submission
<1>6. QED
  BY <1>3, <1>4, <1>5 DEF TypeOK, TxInv

(* A member whose trigger is over keeps the types.                         *)
LEMMA OverIInv ==
  ASSUME IInv, NEW m \in Member, Over(m),
         UNCHANGED <<index, blocks, fired, known>>,
         sigs' \subseteq Watcher \X Member \X Index,
         verified' \in [Member -> SUBSET Index], faults' \in 0 .. MaxFaults
  PROVE  IInv'
<1>1. TypeOK'
  BY DEF IInv, TypeOK, Over, Forgotten
<1>2. TxInv'
  BY DEF IInv, TxInv, Over, Forgotten
<1>3. QED
  BY <1>1, <1>2 DEF IInv

LEMMA ReportIInv ==
  ASSUME IInv, NEW m \in Member, Report(m)
  PROVE  IInv'
<1>1. pc[m] = "report" /\ UNCHANGED <<index, blocks, sigs, fired, known, verified, faults>>
  BY DEF Report, chainVars
<1>2. CASE Stop(m)
  BY <1>1, <1>2, ReturnTyped, OverIInv DEF IInv, TypeOK
<1>3. CASE Goto(m, "verify") /\ UNCHANGED submission
  <2>1. "verify" \in Labels
    BY DEF Labels
  <2>2. /\ pc' \in [Member -> Labels] /\ view' \in [Member -> Block]
        /\ pc'[m] = "verify" /\ \A n \in Member : n # m => pc'[n] = pc[n]
    BY <1>3, <2>1, GotoTyped DEF IInv
  <2>3. QED
    BY <1>1, <1>3, <2>2 DEF IInv, TypeOK, TxInv, submission
<1>4. QED
  BY <1>2, <1>3 DEF Report

LEMMA ChecksTyped ==
  ASSUME TypeOK, NEW m \in Member, verified' = verified \/ Checks(m)
  PROVE  verified' \in [Member -> SUBSET Index]
<1>1. Pending(m) \subseteq Index
  BY DEF TypeOK, Pending
<1>2. QED
  BY <1>1 DEF Checks, TypeOK

LEMMA VerifyIInv ==
  ASSUME IInv, NEW m \in Member, Verify(m)
  PROVE  IInv'
<1>1. TypeOK /\ sigs \subseteq Watcher \X Member \X Index
  BY DEF IInv, TypeOK
<1>2. /\ pc[m] = "verify" /\ UNCHANGED <<index, blocks, sigs, fired, known>>
      /\ faults' \in 0 .. MaxFaults /\ verified' \in [Member -> SUBSET Index]
  BY <1>1, VerifyMoves, ChecksTyped
<1>3. CASE Over(m)
  BY <1>1, <1>2, <1>3, OverIInv
<1>4. CASE Pending(m) # {} /\ Watchers # 0 /\ NewIndex(m) \in Index /\ Signed(m, NewIndex(m))
  <2>1. TypeOK'
    BY <1>1, <1>2, <1>4 DEF TypeOK, Signed
  <2>2. 1 \in Watcher /\ left[m] = 1
    BY <1>2, <1>4, SizeAssumption DEF Watcher, IInv, TxInv
  <2>3. TxInv'
    BY <1>4, <2>2 DEF Signed, IInv, TxInv
  <2>4. QED
    BY <2>1, <2>3 DEF IInv
<1>5. QED
  BY <1>1, <1>3, <1>4, VerifyMoves

LEMMA PostIInv ==
  ASSUME IInv, NEW m \in Member, Post(m)
  PROVE  IInv'
<1>1. /\ pc[m] = "post" /\ UNCHANGED <<index, blocks, fired, known, verified>>
      /\ faults' \in 0 .. MaxFaults /\ sigs' \subseteq Watcher \X Member \X Index
  <2>1. sigs \subseteq Watcher \X Member \X Index
    BY DEF IInv, TypeOK
  <2>2. QED
    BY <2>1, PostMoves
<1>2. CASE Over(m)
  BY <1>1, <1>2, OverIInv DEF IInv, TypeOK
<1>3. CASE /\ left[m] < Watchers /\ left' = [left EXCEPT ![m] = @ + 1]
           /\ UNCHANGED <<pc, view, tx, fresh>>
  <2>1. left' \in [Member -> Nat \ {0}] /\ left'[m] \in Watcher
    BY <1>3, SizeAssumption DEF IInv, TypeOK, Watcher
  <2>2. \A n \in Member : n # m => left'[n] = left[n]
    BY <1>3 DEF IInv, TypeOK
  <2>3. QED
    BY <1>1, <1>3, <2>1, <2>2 DEF IInv, TypeOK, TxInv
<1>4. QED
  BY <1>2, <1>3, PostMoves

LEMMA CrashIInv ==
  ASSUME IInv, NEW m \in Member, Crash(m)
  PROVE  IInv'
<1>1. faults' \in 0 .. MaxFaults /\ Over(m)
  BY ReturnTyped, SizeAssumption DEF Crash, IInv, TypeOK
<1>2. QED
  BY <1>1, OverIInv DEF Crash, chainVars, IInv, TypeOK

LEMMA RestartIInv ==
  ASSUME IInv, NEW m \in Member, Restart(m)
  PROVE  IInv'
<1>1. "idle" \in Labels
  BY DEF Labels
<1>2. /\ pc' \in [Member -> Labels] /\ view' \in [Member -> Block]
      /\ pc'[m] = "idle" /\ pc[m] = "stopped" /\ \A n \in Member : n # m => pc'[n] = pc[n]
  BY <1>1, GotoTyped DEF Restart, IInv
<1>3. UNCHANGED <<index, blocks, sigs, fired, known, tx, fresh, left, verified, faults>>
  BY DEF Restart, chainVars, submission
<1>4. QED
  BY <1>2, <1>3 DEF IInv, TypeOK, TxInv

LEMMA NextIInv == IInv /\ [Next]_vars => IInv'
<1> SUFFICES ASSUME IInv, [Next]_vars PROVE IInv'
  OBVIOUS
<1>1. CASE UNCHANGED vars
  BY <1>1 DEF IInv, TypeOK, TxInv, vars, chainVars, memberVars, submission
<1>2. CASE Tick \/ Execute
  BY <1>2, TickIInv, ExecuteIInv
<1>3. ASSUME NEW m \in Member,
             Fire(m) \/ Report(m) \/ Verify(m) \/ Post(m) \/ Crash(m) \/ Restart(m)
      PROVE  IInv'
  BY <1>3, FireIInv, ReportIInv, VerifyIInv, PostIInv, CrashIInv, RestartIInv
<1>4. QED
  BY <1>1, <1>2, <1>3 DEF Next

LEMMA SpecIInv == Spec => []IInv
BY InitIInv, NextIInv, PTL DEF Spec

(* Every variable keeps its type, whatever fails and in whatever order.    *)
THEOREM OracleTyped == Spec => []TypeOK
<1>1. IInv => TypeOK
  BY DEF IInv
<1>2. QED
  BY <1>1, SpecIInv, PTL
-----------------------------------------------------------------------------
(* The indices that a member has signed, or may still sign, for the nonce  *)
(* the Safe has now.                                                       *)
Verifying(m) ==
  {i \in Index : \/ \E w \in Watcher : <<w, m, i>> \in sigs
                 \/ fresh[m] /\ tx[m] = i}

(* verify_validators_batch with no fault found, and the index it gives.    *)
Verifies(m, i) ==
  /\ pc[m] = "verify" /\ Pending(m) # {} /\ Aliens(m) = {} /\ i = NewIndex(m)
  /\ Checks(m)
  /\ UNCHANGED <<index, known>>

(* A member that keeps its submission, or forgets it, signs nothing new.   *)
LEMMA KeepVerifying ==
  ASSUME sigs' \subseteq sigs,
         \A n \in Member : fresh'[n] = FALSE \/ UNCHANGED <<fresh[n], tx[n]>>,
         NEW n \in Member, NEW i \in Verifying(n)'
  PROVE  i \in Verifying(n)
BY DEF Verifying

LEMMA OverVerifying ==
  ASSUME NEW m \in Member, Over(m), sigs' \subseteq sigs,
         NEW n \in Member, NEW i \in Verifying(n)'
  PROVE  i \in Verifying(n)
BY KeepVerifying DEF Over, Forgotten

LEMMA PostVerifying ==
  ASSUME IInv, NEW m \in Member, Post(m), NEW n \in Member, NEW i \in Verifying(n)'
  PROVE  i \in Verifying(n)
<1>1. \A k \in Member : fresh'[k] = FALSE \/ UNCHANGED <<fresh[k], tx[k]>>
  BY PostMoves DEF Over, Forgotten
<1>2. i \in Index
  BY DEF Verifying
<1>3. CASE fresh'[n] /\ tx'[n] = i
  BY <1>1, <1>2, <1>3 DEF Verifying
<1>4. CASE \E w \in Watcher : <<w, n, i>> \in sigs'
  <2>1. PICK w \in Watcher : <<w, n, i>> \in sigs'
    BY <1>4
  <2>2. sigs' = sigs \/ sigs' = Received(m)
    BY PostMoves
  <2>3. <<w, n, i>> \in sigs \/ (fresh[m] /\ n = m /\ i = tx[m])
    BY <2>1, <2>2 DEF Received
  <2>4. QED
    BY <1>2, <2>3 DEF Verifying
<1>5. QED
  BY <1>3, <1>4 DEF Verifying

(* Nobody signs for an index without having verified up to it, and found   *)
(* no fault.                                                               *)
LEMMA VerifyingGrows ==
  ASSUME IInv, [Next]_vars, NEW n \in Member, NEW i \in Verifying(n)'
  PROVE  i \in Verifying(n) \/ Verifies(n, i)
<1>1. CASE UNCHANGED vars
  BY <1>1, KeepVerifying DEF vars, chainVars, memberVars, submission
<1>2. CASE Tick
  BY <1>2, KeepVerifying DEF Tick, submission
<1>3. CASE Execute
  BY <1>3, KeepVerifying DEF Execute
<1>4. ASSUME NEW m \in Member, Fire(m) \/ Restart(m)
      PROVE  i \in Verifying(n)
  BY <1>4, KeepVerifying DEF Fire, Restart, chainVars, submission
<1>5. ASSUME NEW m \in Member, Report(m)
      PROVE  i \in Verifying(n)
  <2>1. sigs' = sigs /\ (UNCHANGED submission \/ Over(m))
    BY <1>5, ReturnTyped DEF Report, chainVars, IInv
  <2>2. QED
    BY <2>1, KeepVerifying, OverVerifying DEF submission
<1>6. ASSUME NEW m \in Member, Crash(m)
      PROVE  i \in Verifying(n)
  <2>1. sigs' = sigs /\ Over(m)
    BY <1>6, ReturnTyped DEF Crash, chainVars, IInv
  <2>2. QED
    BY <2>1, OverVerifying
<1>7. ASSUME NEW m \in Member, Verify(m)
      PROVE  i \in Verifying(n) \/ Verifies(n, i)
  <2>1. pc[m] = "verify" /\ UNCHANGED <<index, known, sigs>>
    BY <1>7, VerifyMoves DEF IInv
  <2>2. CASE Over(m)
    BY <2>1, <2>2, OverVerifying
  <2>3. CASE /\ Pending(m) # {} /\ Checks(m) /\ Aliens(m) = {}
             /\ Signed(m, NewIndex(m))
    <3>1. i \in Verifying(n) \/ (n = m /\ i = NewIndex(m))
      BY <2>1, <2>3 DEF Signed, Verifying
    <3>2. QED
      BY <2>1, <2>3, <3>1 DEF Verifies
  <2>4. QED
    BY <1>7, <2>2, <2>3, VerifyMoves DEF IInv
<1>8. QED
  BY <1>1, <1>2, <1>3, <1>4, <1>5, <1>6, <1>7, PostVerifying DEF Next

(* What a member knows and has verified only grows.                        *)
LEMMA KnowledgeGrows ==
  ASSUME IInv, [Next]_vars, NEW n \in Member
  PROVE  known[n] \subseteq known'[n] /\ verified[n] \subseteq verified'[n]
<1>1. known \in [Member -> SUBSET Index] /\ verified \in [Member -> SUBSET Index]
  BY DEF IInv, TypeOK
<1>2. CASE UNCHANGED vars \/ Tick \/ Execute
  BY <1>2 DEF vars, memberVars, Tick, Execute
<1>3. ASSUME NEW m \in Member, Fire(m)
      PROVE  known[n] \subseteq known'[n] /\ verified[n] \subseteq verified'[n]
  BY <1>1, <1>3 DEF Fire
<1>4. ASSUME NEW m \in Member, Verify(m)
      PROVE  known[n] \subseteq known'[n] /\ verified[n] \subseteq verified'[n]
  <2>1. known' = known /\ (verified' = verified \/ Checks(m))
    BY <1>4, VerifyMoves DEF IInv
  <2>2. QED
    BY <1>1, <2>1 DEF Checks
<1>5. ASSUME NEW m \in Member, Report(m) \/ Post(m) \/ Crash(m) \/ Restart(m)
      PROVE  UNCHANGED <<known, verified>>
  BY <1>5 DEF Report, Post, Crash, Restart
<1>6. QED
  BY <1>2, <1>3, <1>4, <1>5 DEF Next

(* The Safe moves the index for a quorum that has signed.                  *)
Approves(w, i) ==
  /\ Cardinality(Signers(w, i)) >= Threshold
  /\ index' = i
  /\ UNCHANGED <<blocks, view, known, verified>>

LEMMA IndexMovesByQuorum ==
  ASSUME IInv, [Next]_vars
  PROVE  \/ index' = index
         \/ \E w \in Watcher, i \in Index :
              /\ Approves(w, i)
              /\ \A m \in Signers(w, i) : i \in Verifying(m)
              /\ \A m \in Member : Verifying(m)' = {}
<1>1. CASE UNCHANGED vars \/ Tick
  BY <1>1 DEF vars, chainVars, Tick
<1>2. ASSUME NEW m \in Member,
             Fire(m) \/ Report(m) \/ Verify(m) \/ Post(m) \/ Crash(m) \/ Restart(m)
      PROVE  index' = index
  BY <1>2 DEF Fire, Report, Verify, Post, Crash, Restart, chainVars
<1>3. CASE Execute
  <2>1. PICK w \in Watcher, i \in Index :
          Cardinality(Signers(w, i)) >= Threshold /\ index' = i
    BY <1>3 DEF Execute
  <2>2. Approves(w, i)
    BY <1>3, <2>1 DEF Execute, Approves
  <2>3. \A m \in Signers(w, i) : i \in Verifying(m)
    BY DEF Signers, Verifying
  <2>4. \A m \in Member : Verifying(m)' = {}
    BY <1>3 DEF Execute, Verifying
  <2>5. QED
    BY <2>2, <2>3, <2>4
<1>4. QED
  BY <1>1, <1>2, <1>3 DEF Next
-----------------------------------------------------------------------------
(* Why the index cannot go back: it is a quorum's that knows the proposal  *)
(* it points to, and so never signs for an earlier one.                    *)
KnownInv == \A m \in Member : Verifying(m) \subseteq known[m]

Backs(m) == index \in known[m] /\ \A i \in Verifying(m) : i >= index

QuorumInv ==
  \/ index = 0
  \/ \E Q \in SUBSET Member :
       Cardinality(Q) >= Threshold /\ \A m \in Q : Backs(m)

IndexInv == IInv /\ KnownInv /\ QuorumInv

LEMMA QuorumsMeet ==
  ASSUME NEW Q \in SUBSET Member, NEW R \in SUBSET Member,
         Cardinality(Q) >= Threshold, Cardinality(R) >= Threshold
  PROVE  \E m \in Member : m \in Q /\ m \in R
<1>1. /\ Cardinality(Q) \in Nat /\ Cardinality(R) \in Nat /\ Cardinality(Member) \in Nat
  BY QuorumAssumption, FS_Subset, FS_CardinalityType
<1>2. Cardinality(Q) + Cardinality(R) > Cardinality(Member)
  BY <1>1, QuorumAssumption
<1>3. Q \cap R # {}
  BY <1>2, QuorumAssumption, FS_MajoritiesIntersect
<1>4. QED
  BY <1>3

(* What is signed for is never behind a proposal known and approved.       *)
LEMMA VerifiesAhead ==
  ASSUME TypeOK, NEW m \in Member, NEW i \in Index, Verifies(m, i)
  PROVE  i \in known[m] /\ \A j \in known[m] : i >= j
<1>1. i \in Pending(m) /\ \A j \in Pending(m) : j <= i
  BY NewIndexIsMax DEF Verifies
<1>2. view[m].index \in Nat /\ i \in Nat /\ known[m] \subseteq Nat
  BY SizeAssumption DEF TypeOK, Block, Index
<1>3. i \in known[m] /\ i > view[m].index
  BY <1>1 DEF Pending
<1>4. ASSUME NEW j \in known[m]
      PROVE  i >= j
  <2>1. CASE j > view[m].index
    BY <1>1, <1>2, <2>1 DEF Pending
  <2>2. CASE ~ (j > view[m].index)
    BY <1>2, <1>3, <2>2
  <2>3. QED
    BY <2>1, <2>2
<1>5. QED
  BY <1>3, <1>4

LEMMA NextIndexInv ==
  ASSUME IndexInv, [Next]_vars
  PROVE  IndexInv' /\ index' >= index
<1> USE DEF IndexInv
<1>1. IInv' /\ index \in Nat /\ index' \in Nat
  BY NextIInv, SizeAssumption DEF IInv, TypeOK
<1>2. ASSUME NEW m \in Member, NEW i \in Verifying(m)'
      PROVE  i \in known'[m]
  <2>1. i \in Index /\ (i \in Verifying(m) \/ Verifies(m, i))
    BY <1>2, VerifyingGrows DEF Verifying
  <2>2. i \in known[m]
    BY <2>1, VerifiesAhead DEF KnownInv, IInv
  <2>3. QED
    BY <2>2, KnowledgeGrows
<1>3. CASE index' = index
  <2>1. ASSUME NEW m \in Member, Backs(m)
        PROVE  Backs(m)'
    <3>1. index' \in known'[m]
      BY <1>3, <2>1, KnowledgeGrows DEF Backs
    <3>2. ASSUME NEW i \in Verifying(m)'
          PROVE  i >= index'
      <4>1. i \in Index /\ (i \in Verifying(m) \/ Verifies(m, i))
        BY <3>2, VerifyingGrows DEF Verifying
      <4>2. QED
        BY <1>3, <2>1, <4>1, VerifiesAhead DEF Backs, IInv
    <3>3. QED
      BY <3>1, <3>2 DEF Backs
  <2>2. QuorumInv'
    BY <1>3, <2>1 DEF QuorumInv
  <2>3. QED
    BY <1>1, <1>2, <1>3, <2>2 DEF KnownInv
<1>4. CASE \E w \in Watcher, i \in Index :
             /\ Approves(w, i)
             /\ \A m \in Signers(w, i) : i \in Verifying(m)
             /\ \A m \in Member : Verifying(m)' = {}
  <2>1. PICK w \in Watcher, i \in Index :
             /\ Approves(w, i)
             /\ \A m \in Signers(w, i) : i \in Verifying(m)
             /\ \A m \in Member : Verifying(m)' = {}
    BY <1>4
  <2>2. Signers(w, i) \in SUBSET Member /\ Cardinality(Signers(w, i)) >= Threshold
    BY <2>1 DEF Signers, Approves
  <2>3. \A m \in Signers(w, i) : Backs(m)'
    <3>1. SUFFICES ASSUME NEW m \in Signers(w, i) PROVE Backs(m)'
      OBVIOUS
    <3>2. m \in Member /\ i \in Verifying(m) /\ Verifying(m)' = {} /\ index' = i
      BY <2>1, <2>2 DEF Approves
    <3>3. i \in known'[m]
      BY <3>2, KnowledgeGrows DEF KnownInv
    <3>4. QED
      BY <3>2, <3>3 DEF Backs
  <2>4. QuorumInv'
    BY <2>2, <2>3 DEF QuorumInv
  <2>5. index' >= index
    <3>1. CASE index = 0
      BY <1>1, <3>1
    <3>2. CASE \E Q \in SUBSET Member : Cardinality(Q) >= Threshold /\ \A m \in Q : Backs(m)
      <4>1. PICK m \in Member : Backs(m) /\ m \in Signers(w, i)
        BY <2>2, <3>2, QuorumsMeet
      <4>2. QED
        BY <2>1, <4>1 DEF Backs, Approves
    <3>3. QED
      BY <3>1, <3>2 DEF QuorumInv
  <2>6. QED
    BY <1>1, <1>2, <2>4, <2>5 DEF KnownInv
<1>5. QED
  BY <1>3, <1>4, IndexMovesByQuorum

LEMMA SpecIndexInv == Spec => []IndexInv
<1>1. Init => IndexInv
  BY InitIInv DEF Init, IndexInv, KnownInv, QuorumInv, Verifying
<1>2. IndexInv /\ [Next]_vars => IndexInv'
  BY NextIndexInv
<1>3. QED
  BY <1>1, <1>2, PTL DEF Spec

(* However late the members sign, however old the blocks they look at and  *)
(* whatever they miss or however often they crash: the verification index  *)
(* never goes back.                                                        *)
THEOREM NeverGoesBack == Spec => IndexNeverBack
<1>1. IndexInv /\ [Next]_vars => [index' >= index]_vars
  BY NextIndexInv
<1>2. QED
  BY <1>1, SpecIndexInv, PTL DEF Spec, IndexNeverBack
-----------------------------------------------------------------------------
(* Why a quorum has verified all that it approves, when no deposit is      *)
(* missed: what a member knows are the deposits of the block it looks at,  *)
(* and that block is not ahead of the Portal.                              *)
BlocksInv ==
  /\ \A i, j \in 1 .. Lag + 1 : i <= j => blocks[i].deposits <= blocks[j].deposits
  /\ \A i \in 1 .. Lag + 1 : blocks[i].index <= index

ViewInv ==
  \A m \in Member : /\ known[m] = 1 .. view[m].deposits
                    /\ view[m].deposits <= blocks[1].deposits
                    /\ view[m].index <= index

(* What is signed has been verified from where the index is, and is good.  *)
CheckedInv ==
  \A m \in Member : \A t \in Verifying(m) : \A i \in 1 .. t :
    i > index => i \in verified[m] /\ i \notin Bad

SeenInv == IndexInv /\ BlocksInv /\ ViewInv

TrustInv == SeenInv /\ CheckedInv /\ ApprovedWereVerified /\ NoFaultyApproved

(* Blocks come and go with Tick only, and a view changes with Fire.        *)
Kept(n) ==
  /\ known'[n] = known[n] /\ view'[n].deposits = view[n].deposits
  /\ view'[n].index = view[n].index \/ view'[n].index = 0
Sees(n) ==
  /\ view'[n] = blocks[1] /\ blocks' = blocks
  /\ known'[n] = known[n] \cup NewDeposits(n)

LEMMA FireSees ==
  ASSUME TypeOK, Missable = {}, NEW m \in Member, Fire(m), NEW n \in Member
  PROVE  blocks' = blocks /\ (Kept(n) \/ Sees(n))
<1>1. blocks' = blocks /\ view' = [view EXCEPT ![m] = blocks[1]]
  BY DEF Fire, chainVars
<1>2. PICK lost \in SUBSET (Missable \cap NewDeposits(m)) :
        known' = [known EXCEPT ![m] = @ \cup (NewDeposits(m) \ lost)]
  BY DEF Fire
<1>3. NewDeposits(m) \ lost = NewDeposits(m)
  BY <1>2
<1>4. known' = [known EXCEPT ![m] = @ \cup NewDeposits(m)]
  BY <1>2, <1>3
<1>5. QED
  BY <1>1, <1>4 DEF TypeOK, Kept, Sees

LEMMA ViewMoves ==
  ASSUME IInv, Missable = {}, [Next]_vars, NEW n \in Member
  PROVE  (Tick \/ blocks' = blocks) /\ (Kept(n) \/ Sees(n))
<1>1. CASE UNCHANGED vars \/ Tick \/ Execute
  BY <1>1 DEF vars, chainVars, memberVars, Tick, Execute, Kept
<1>2. ASSUME known' = known, Faded
      PROVE  Kept(n)
  BY <1>2 DEF Faded, Kept
<1>3. ASSUME NEW m \in Member, Report(m) \/ Crash(m) \/ Restart(m)
      PROVE  blocks' = blocks /\ known' = known /\ Faded
  <2>1. blocks' = blocks /\ known' = known
    BY <1>3 DEF Report, Crash, Restart, chainVars
  <2>2. \E l \in Labels : Goto(m, l)
    BY <1>3 DEF Report, Crash, Restart, Stop, Labels
  <2>3. QED
    BY <2>1, <2>2, GotoTyped DEF IInv
<1>4. ASSUME NEW m \in Member, Verify(m)
      PROVE  blocks' = blocks /\ known' = known /\ Faded
  BY <1>4, VerifyMoves DEF Over, Signed, IInv
<1>5. ASSUME NEW m \in Member, Post(m)
      PROVE  blocks' = blocks /\ known' = known /\ (Faded \/ view' = view)
  BY <1>5, PostMoves DEF Over
<1>6. QED
  BY <1>1, <1>2, <1>3, <1>4, <1>5, FireSees DEF Next, Kept, IInv

(* The next three lemmas do not say which steps they are about: those of   *)
(* module Owner are like those of Oracle.                                  *)
LEMMA NextBlocksInv ==
  ASSUME TypeOK, TypeOK', index' >= index, BlocksInv, Tick \/ blocks' = blocks
  PROVE  BlocksInv' /\ blocks[1].deposits <= blocks'[1].deposits
<1>1. index \in Nat /\ index' \in Nat
  BY SizeAssumption DEF TypeOK
<1>2. Lag \in Nat /\ \A i \in 1 .. Lag + 1 : /\ blocks[i] \in Block
                                             /\ blocks[i].deposits \in Int
                                             /\ blocks[i].index \in Int
  BY BlocksTyped DEF Block
<1>3. CASE blocks' = blocks
  <2>1. ASSUME NEW i \in 1 .. Lag + 1
        PROVE  blocks'[i].index <= index'
    BY <1>1, <1>2, <1>3 DEF BlocksInv
  <2>2. QED
    BY <1>2, <1>3, <2>1 DEF BlocksInv
<1>4. CASE Tick
  <2>1. PICK b \in Block : /\ blocks' = Append(Tail(blocks), b)
                           /\ b.index = index /\ b.deposits >= blocks[Lag + 1].deposits
    BY <1>4, TickMoves
  <2>2. index' = index /\ b.deposits \in Int
    BY <1>4, <2>1 DEF Tick, Block
  <2>3. blocks'[Lag + 1] = b /\ \A i \in 1 .. Lag : blocks'[i] = blocks[i + 1]
    BY <2>1, BlockAdded
  <2>4. ASSUME NEW i \in 1 .. Lag + 1
        PROVE  blocks'[i].index <= index'
    <3>1. CASE i = Lag + 1
      BY <1>1, <2>1, <2>2, <2>3, <3>1
    <3>2. CASE i \in 1 .. Lag
      BY <1>2, <2>2, <2>3, <3>2 DEF BlocksInv
    <3>3. QED
      BY <1>2, <3>1, <3>2
  <2>5. ASSUME NEW i \in 1 .. Lag + 1, NEW j \in 1 .. Lag + 1, i <= j
        PROVE  blocks'[i].deposits <= blocks'[j].deposits
    <3>1. CASE j \in 1 .. Lag
      <4>1. /\ i \in 1 .. Lag /\ i + 1 \in 1 .. Lag + 1 /\ j + 1 \in 1 .. Lag + 1
            /\ i + 1 <= j + 1
        BY <1>2, <2>5, <3>1
      <4>2. QED
        BY <2>3, <3>1, <4>1 DEF BlocksInv
    <3>2. CASE j = Lag + 1 /\ i \in 1 .. Lag
      <4>1. /\ i + 1 \in 1 .. Lag + 1 /\ Lag + 1 \in 1 .. Lag + 1 /\ i + 1 <= Lag + 1
        BY <1>2, <3>2
      <4>2. blocks[i + 1].deposits <= blocks[Lag + 1].deposits
        BY <4>1 DEF BlocksInv
      <4>3. /\ blocks'[i].deposits = blocks[i + 1].deposits /\ blocks'[j] = b
            /\ blocks[i + 1].deposits \in Int /\ blocks[Lag + 1].deposits \in Int
        BY <1>2, <2>3, <3>2, <4>1
      <4>4. \A x, y, z \in Int : x <= y /\ z >= y => x <= z
        OBVIOUS
      <4>5. blocks'[i].deposits <= b.deposits
        BY <2>1, <2>2, <4>2, <4>3, <4>4
      <4>6. QED
        BY <4>3, <4>5
    <3>3. CASE j = Lag + 1 /\ i = Lag + 1
      BY <2>2, <2>3, <3>3
    <3>4. QED
      BY <1>2, <3>1, <3>2, <3>3
  <2>6. blocks[1].deposits <= blocks'[1].deposits
    <3>1. CASE Lag = 0
      <4>1. Lag + 1 = 1
        BY <3>1
      <4>2. blocks'[1] = b /\ b.deposits >= blocks[1].deposits
        BY <2>1, <2>3, <4>1
      <4>3. 1 \in 1 .. Lag + 1 /\ blocks[1].deposits \in Int
        BY <1>2
      <4>4. QED
        BY <2>2, <4>2, <4>3
    <3>2. CASE Lag # 0
      <4>1. 1 \in 1 .. Lag /\ 1 \in 1 .. Lag + 1 /\ 2 \in 1 .. Lag + 1
        BY <1>2, <3>2
      <4>2. blocks'[1] = blocks[2]
        BY <2>3, <4>1
      <4>3. QED
        BY <4>1, <4>2 DEF BlocksInv
    <3>3. QED
      BY <3>1, <3>2
  <2>7. QED
    BY <2>4, <2>5, <2>6 DEF BlocksInv
<1>5. QED
  BY <1>3, <1>4

(* The numbers of a block a member looks at, and of the Portal.            *)
LEMMA NumbersTyped ==
  ASSUME TypeOK
  PROVE  /\ index \in Nat /\ verified \in [Member -> SUBSET Index]
         /\ \A m \in Member : view[m].deposits \in Nat /\ view[m].index \in Nat
         /\ 1 \in 1 .. Lag + 1 /\ blocks[1].deposits \in Nat /\ blocks[1].index \in Nat
<1>1. 1 \in 1 .. Lag + 1 /\ blocks[1] \in Block /\ index \in Nat
  BY BlocksTyped, SizeAssumption DEF TypeOK
<1>2. blocks[1].deposits \in Nat /\ blocks[1].index \in Nat
  BY <1>1, SizeAssumption DEF Block
<1>3. ASSUME NEW m \in Member
      PROVE  view[m].deposits \in Nat /\ view[m].index \in Nat
  <2>1. view[m] \in Block
    BY DEF TypeOK
  <2>2. QED
    BY <2>1, SizeAssumption DEF Block
<1>4. QED
  BY <1>1, <1>2, <1>3 DEF TypeOK

LEMMA NextViewInv ==
  ASSUME TypeOK, TypeOK', index' >= index, BlocksInv, ViewInv,
         Tick \/ blocks' = blocks, \A m \in Member : Kept(m) \/ Sees(m)
  PROVE  BlocksInv' /\ ViewInv'
<1>1. BlocksInv' /\ blocks[1].deposits <= blocks'[1].deposits
  BY NextBlocksInv
<1>2. /\ index \in Nat /\ index' \in Nat /\ 1 \in 1 .. Lag + 1
      /\ blocks[1].deposits \in Nat /\ blocks'[1].deposits \in Nat /\ blocks[1].index \in Nat
  <2>1. blocks'[1] \in Block /\ index' \in Nat
    BY SizeAssumption DEF TypeOK
  <2>2. QED
    BY <2>1, NumbersTyped, SizeAssumption DEF Block
<1>3. ASSUME NEW m \in Member
      PROVE  /\ known'[m] = 1 .. view'[m].deposits
             /\ view'[m].deposits <= blocks'[1].deposits
             /\ view'[m].index <= index'
  <2>1. /\ known[m] = 1 .. view[m].deposits /\ view[m].deposits <= blocks[1].deposits
        /\ view[m].index <= index
    BY DEF ViewInv
  <2>2. view[m].deposits \in Nat /\ view[m].index \in Nat
    BY NumbersTyped
  <2>3. CASE Kept(m)
    BY <1>1, <1>2, <2>1, <2>2, <2>3 DEF Kept
  <2>4. CASE Sees(m)
    <3>1. known'[m] = 1 .. blocks[1].deposits
      BY <1>2, <2>1, <2>2, <2>4 DEF NewDeposits, Sees
    <3>2. blocks[1].index <= index
      BY <1>2 DEF BlocksInv
    <3>3. QED
      BY <1>2, <2>4, <3>1, <3>2 DEF Sees
  <2>5. QED
    BY <2>3, <2>4
<1>4. QED
  BY <1>1, <1>3 DEF ViewInv

(* A batch holds every proposal from the index of the Portal to its own,   *)
(* and is signed for only if it holds no fault.                            *)
LEMMA VerifiesAll ==
  ASSUME TypeOK, ViewInv, NEW m \in Member, NEW t \in Index, Verifies(m, t),
         NEW i \in 1 .. t, i > index
  PROVE  i \in verified'[m] /\ i \notin Bad
<1>1. t \in Pending(m) /\ Aliens(m) = {} /\ Checks(m)
  BY NewIndexIsMax DEF Verifies
<1>2. /\ view[m].deposits \in Nat /\ view[m].index \in Nat /\ index \in Nat
      /\ verified \in [Member -> SUBSET Index]
  BY NumbersTyped
<1>3. known[m] = 1 .. view[m].deposits /\ view[m].index <= index
  BY DEF ViewInv
<1>4. t \in known[m] /\ t \in Nat
  BY <1>1, SizeAssumption DEF Pending, Index
<1>5. i \in Pending(m)
  BY <1>2, <1>3, <1>4 DEF Pending
<1>6. QED
  BY <1>1, <1>2, <1>5 DEF Aliens, Checks

LEMMA NextSeenInv ==
  ASSUME SeenInv, Missable = {}, [Next]_vars
  PROVE  SeenInv'
<1>1. IInv /\ TypeOK /\ TypeOK' /\ IndexInv' /\ index' >= index
  BY NextIndexInv DEF SeenInv, IndexInv, IInv
<1>2. \A m \in Member : (Tick \/ blocks' = blocks) /\ (Kept(m) \/ Sees(m))
  BY <1>1, ViewMoves
<1>3. Tick \/ blocks' = blocks
  <2>1. Member # {}
    BY QuorumAssumption, FS_EmptySet
  <2>2. QED
    BY <1>2, <2>1
<1>4. QED
  BY <1>1, <1>2, <1>3, NextViewInv DEF SeenInv

LEMMA BadTyped == \A i \in Bad : i \in Nat /\ i >= 1
BY ChoiceAssumption DEF Index

LEMMA NextTrustInv ==
  ASSUME TrustInv, Missable = {}, [Next]_vars
  PROVE  TrustInv'
<1>1. IInv /\ TypeOK /\ TypeOK' /\ SeenInv' /\ index' >= index
  BY NextSeenInv, NextIndexInv DEF TrustInv, SeenInv, IndexInv, IInv
<1>2. index \in Nat /\ index' \in Nat
  BY <1>1, SizeAssumption DEF TypeOK
<1>3. CheckedInv'
  <2>1. SUFFICES ASSUME NEW m \in Member, NEW t \in Verifying(m)', NEW i \in 1 .. t,
                        i > index'
                 PROVE  i \in verified'[m] /\ i \notin Bad
    BY DEF CheckedInv
  <2>2. t \in Index /\ (t \in Verifying(m) \/ Verifies(m, t))
    BY <1>1, VerifyingGrows DEF Verifying
  <2>3. t \in Nat /\ i \in Nat /\ i > index
    <3>1. t \in Nat
      BY <2>2, SizeAssumption DEF Index
    <3>2. QED
      BY <1>1, <1>2, <2>1, <3>1
  <2>4. CASE t \in Verifying(m)
    BY <1>1, <2>3, <2>4, KnowledgeGrows DEF TrustInv, CheckedInv
  <2>5. CASE Verifies(m, t)
    BY <1>1, <2>2, <2>3, <2>5, VerifiesAll DEF TrustInv, SeenInv
  <2>6. QED
    BY <2>2, <2>4, <2>5
<1>4. ASSUME NEW i \in Nat, NEW A \in SUBSET {m \in Member : i \in verified'[m]},
             Cardinality(A) >= Threshold
      PROVE  Cardinality({m \in Member : i \in verified'[m]}) >= Threshold
  <2> DEFINE B == {m \in Member : i \in verified'[m]}
  <2>1. IsFiniteSet(B)
    BY QuorumAssumption, FS_Subset
  <2>2. /\ Cardinality(A) <= Cardinality(B)
        /\ Cardinality(A) \in Nat /\ Cardinality(B) \in Nat
    BY <2>1, FS_Subset, FS_CardinalityType
  <2>3. QED
    BY <1>4, <2>2, QuorumAssumption
<1>5. ASSUME NEW i \in 1 .. index
      PROVE  Cardinality({m \in Member : i \in verified'[m]}) >= Threshold
  <2> DEFINE A == {m \in Member : i \in verified[m]}
  <2>1. A \in SUBSET {m \in Member : i \in verified'[m]}
    BY <1>1, KnowledgeGrows
  <2>2. Cardinality(A) >= Threshold
    BY DEF TrustInv, ApprovedWereVerified
  <2>3. QED
    BY <1>4, <2>1, <2>2
<1>6. CASE index' = index
  BY <1>1, <1>3, <1>5, <1>6 DEF TrustInv, ApprovedWereVerified, NoFaultyApproved
<1>7. CASE \E w \in Watcher, t \in Index :
             /\ Approves(w, t)
             /\ \A m \in Signers(w, t) : t \in Verifying(m)
             /\ \A m \in Member : Verifying(m)' = {}
  <2>1. PICK w \in Watcher, t \in Index :
             /\ Approves(w, t)
             /\ \A m \in Signers(w, t) : t \in Verifying(m)
    BY <1>7
  <2>2. /\ index' = t /\ verified' = verified
        /\ Signers(w, t) \in SUBSET Member /\ Cardinality(Signers(w, t)) >= Threshold
    BY <2>1 DEF Approves, Signers
  <2>3. ASSUME NEW i \in 1 .. index', i > index
        PROVE  /\ \A m \in Signers(w, t) : i \in verified'[m]
               /\ i \notin Bad
    <3>1. \A m \in Signers(w, t) : i \in verified'[m] /\ i \notin Bad
      BY <2>1, <2>2, <2>3 DEF TrustInv, CheckedInv
    <3>2. PICK m \in Member : m \in Signers(w, t)
      BY <2>2, QuorumsMeet
    <3>3. QED
      BY <3>1, <3>2
  <2>4. ApprovedWereVerified'
    <3>1. SUFFICES ASSUME NEW i \in 1 .. index'
                   PROVE  Cardinality({m \in Member : i \in verified'[m]}) >= Threshold
      BY DEF ApprovedWereVerified
    <3>2. CASE i <= index
      BY <1>2, <1>5, <3>2
    <3>3. CASE i > index
      <4>1. Signers(w, t) \in SUBSET {m \in Member : i \in verified'[m]}
        BY <2>2, <2>3, <3>3
      <4>2. QED
        BY <1>2, <1>4, <2>2, <4>1
    <3>4. QED
      BY <1>2, <3>2, <3>3
  <2>5. NoFaultyApproved'
    <3>1. SUFFICES ASSUME NEW i \in Bad, ~ (index' < i) PROVE FALSE
      BY DEF NoFaultyApproved
    <3>2. i \in Nat /\ i >= 1 /\ index < i
      BY BadTyped DEF TrustInv, NoFaultyApproved
    <3>3. i \in 1 .. index' /\ i > index
      BY <1>2, <3>1, <3>2
    <3>4. QED
      BY <2>3, <3>3
  <2>6. QED
    BY <1>1, <1>3, <2>4, <2>5 DEF TrustInv
<1>8. QED
  BY <1>1, <1>6, <1>7, IndexMovesByQuorum

LEMMA InitTrustInv ==
  ASSUME Init
  PROVE  TrustInv
<1>1. /\ index = 0 /\ 1 \in 1 .. Lag + 1
      /\ \A i \in 1 .. Lag + 1 : blocks[i].deposits = 0 /\ blocks[i].index = 0
      /\ \A m \in Member : known[m] = {} /\ view[m].deposits = 0 /\ view[m].index = 0
      /\ \A m \in Member : Verifying(m) = {}
  BY SizeAssumption DEF Init, FirstBlock, Verifying
<1>2. IndexInv
  BY <1>1, InitIInv DEF IndexInv, KnownInv, QuorumInv
<1>3. BlocksInv
  BY <1>1 DEF BlocksInv
<1>4. ViewInv
  <2>1. blocks[1].deposits = 0 /\ 1 .. 0 = {} /\ 0 <= 0
    BY <1>1
  <2>2. QED
    BY <1>1, <2>1 DEF ViewInv
<1>5. CheckedInv /\ ApprovedWereVerified
  BY <1>1 DEF CheckedInv, ApprovedWereVerified
<1>6. NoFaultyApproved
  <2>1. \A i \in Bad : 0 < i
    BY BadTyped
  <2>2. QED
    BY <1>1, <2>1 DEF NoFaultyApproved
<1>7. QED
  BY <1>2, <1>3, <1>4, <1>5, <1>6 DEF TrustInv, SeenInv

LEMMA SpecTrustInv ==
  ASSUME Missable = {}
  PROVE  Spec => []TrustInv
<1>1. Init => TrustInv
  BY InitTrustInv
<1>2. TrustInv /\ [Next]_vars => TrustInv'
  BY NextTrustInv
<1>3. QED
  BY <1>1, <1>2, PTL DEF Spec

(* Every proposal the index has passed has been verified by a quorum, if   *)
(* no deposit is missed.  (The run "missed" shows what it takes.)          *)
THEOREM ApprovalIsEarned ==
  ASSUME Missable = {}
  PROVE  Spec => []ApprovedWereVerified
<1>1. TrustInv => ApprovedWereVerified
  BY DEF TrustInv
<1>2. QED
  BY <1>1, SpecTrustInv, PTL

(* The index stops short of the first faulty one, on the same terms.       *)
THEOREM NoFaultPasses ==
  ASSUME Missable = {}
  PROVE  Spec => []NoFaultyApproved
<1>1. TrustInv => NoFaultyApproved
  BY DEF TrustInv
<1>2. QED
  BY <1>1, SpecTrustInv, PTL
-----------------------------------------------------------------------------
(* A member that checks proposals does nothing else.                       *)
LEMMA VerifiedMoves ==
  ASSUME IInv, [Next]_vars
  PROVE  \/ verified' = verified
         \/ /\ \E m \in Member, P \in SUBSET Index :
                 verified' = [verified EXCEPT ![m] = @ \cup P]
            /\ index' = index
<1>1. CASE UNCHANGED vars \/ Tick \/ Execute
  BY <1>1 DEF vars, Tick, Execute, memberVars
<1>2. ASSUME NEW m \in Member,
             Fire(m) \/ Report(m) \/ Post(m) \/ Crash(m) \/ Restart(m)
      PROVE  verified' = verified
  BY <1>2 DEF Fire, Report, Post, Crash, Restart
<1>3. ASSUME NEW m \in Member, Verify(m)
      PROVE  \/ verified' = verified
             \/ /\ \E P \in SUBSET Index : verified' = [verified EXCEPT ![m] = @ \cup P]
                /\ index' = index
  <2>1. Pending(m) \in SUBSET Index
    BY DEF Pending, IInv, TypeOK
  <2>2. index' = index /\ (verified' = verified \/ Checks(m))
    BY <1>3, VerifyMoves DEF IInv
  <2>3. QED
    BY <2>1, <2>2 DEF Checks
<1>4. QED
  BY <1>1, <1>2, <1>3 DEF Next

(* The step of Approval that a new index makes, whoever carries it out:    *)
(* all between the two was checked by a quorum, and nothing was faulty.    *)
LEMMA IndexMovesAsApproved ==
  ASSUME index \in Nat, NEW t \in Index, index <= t,
         NEW Q \in SUBSET Member, Cardinality(Q) >= Threshold,
         \A m \in Q : \A i \in 1 .. t : i > index => i \in verified[m] /\ i \notin Bad,
         index' = t, verified' = verified
  PROVE  [Approvals!Next]_(Approvals!vars)
<1>1. t \in Nat /\ t \in 1 .. Validators
  BY SizeAssumption DEF Index
<1>2. CASE t = index
  BY <1>2 DEF Approvals!vars
<1>3. CASE t > index
  <2>1. \A i \in index + 1 .. t : i \in 1 .. t /\ i > index
    BY <1>1
  <2>2. \A m \in Q : index + 1 .. t \subseteq verified[m]
    BY <2>1
  <2>3. PICK m : m \in Q
    BY QuorumsMeet
  <2>4. Bad \cap (index + 1 .. t) = {}
    BY <2>1, <2>3
  <2>5. t \in index + 1 .. Validators
    BY <1>1, <1>3, SizeAssumption
  <2>6. Approvals!Approve
    BY <2>2, <2>4, <2>5 DEF Quorums, Approvals!Approve
  <2>7. QED
    BY <2>6 DEF Approvals!Next
<1>4. QED
  BY <1>1, <1>2, <1>3

LEMMA ApprovalStep ==
  ASSUME TrustInv, Missable = {}, [Next]_vars
  PROVE  [Approvals!Next]_(Approvals!vars)
<1>1. IInv /\ TypeOK /\ IndexInv /\ CheckedInv
  BY DEF TrustInv, SeenInv, IndexInv, IInv
<1>2. CASE index' = index
  <2>1. CASE verified' = verified
    BY <1>2, <2>1 DEF Approvals!vars
  <2>2. CASE \E m \in Member, P \in SUBSET Index :
               verified' = [verified EXCEPT ![m] = @ \cup P]
    <3>1. Approvals!Check
      BY <1>2, <2>2 DEF Approvals!Check, Index
    <3>2. QED
      BY <3>1 DEF Approvals!Next
  <2>3. QED
    BY <1>1, <2>1, <2>2, VerifiedMoves
<1>3. CASE \E w \in Watcher, t \in Index :
             /\ Approves(w, t)
             /\ \A m \in Signers(w, t) : t \in Verifying(m)
             /\ \A m \in Member : Verifying(m)' = {}
  <2>1. PICK w \in Watcher, t \in Index :
             Approves(w, t) /\ \A m \in Signers(w, t) : t \in Verifying(m)
    BY <1>3
  <2>2. Signers(w, t) \in SUBSET Member /\ Cardinality(Signers(w, t)) >= Threshold
    BY <2>1 DEF Signers, Approves
  <2>3. index' = t /\ verified' = verified
    BY <2>1 DEF Approves
  <2>4. index \in Nat /\ index <= t
    BY <1>1, <2>3, NextIndexInv, NumbersTyped
  <2>5. \A m \in Signers(w, t) : \A i \in 1 .. t :
          i > index => i \in verified[m] /\ i \notin Bad
    BY <1>1, <2>1, <2>2 DEF CheckedInv
  <2>6. QED
    BY <2>2, <2>3, <2>4, <2>5, IndexMovesAsApproved
<1>4. QED
  BY <1>1, <1>2, <1>3, IndexMovesByQuorum

(* Any number of members with their signatures, views, crashes and late    *)
(* submissions is one index that a quorum moves over what it has checked   *)
(* and found good, if no deposit is missed.                                *)
THEOREM SafeApproves ==
  ASSUME Missable = {}
  PROVE  Spec => ImplementsApproval
<1>1. Init => Approvals!Init
  BY DEF Init, Approvals!Init
<1>2. TrustInv /\ [Next]_vars => [Approvals!Next]_(Approvals!vars)
  BY ApprovalStep
<1>3. QED
  BY <1>1, <1>2, SpecTrustInv, PTL DEF Spec, ImplementsApproval, Approvals!Spec
=============================================================================
