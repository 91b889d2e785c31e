------------------------------- MODULE Oracle -------------------------------
(***************************************************************************)
(* The second half of BeaconTrigger.process_slots, for all the members of  *)
(* the oracle at once, up to the verification index of the Portal:         *)
(* updateVerificationIndex (actions/portal.py) is submitted to the         *)
(* watchers (actions/watchers.py) as a transaction of the Safe that is the *)
(* oracle (helpers/gnosis.py).  The two other calls, regulateOperators and *)
(* reportBeacon, are never signed: what they are given cannot be encoded.  *)
(*                                                                         *)
(* Every member runs its own geoscope.  A transaction is signed for the    *)
(* nonce the Safe has when it is prepared, and a Safe executes one         *)
(* transaction for a nonce: executing one kills every signature given for  *)
(* that nonce.  So only the signatures for the current nonce are kept      *)
(* (sigs), and a member remembers whether the nonce it read is the current *)
(* one (fresh).  What a trigger does to the tables of the indexer is       *)
(* module Indexer; here it is one step, Fire.                              *)
(***************************************************************************)
EXTENDS Integers, FiniteSets, Sequences

CONSTANTS
  Member,      \* owners of the Safe that run geoscope
  Threshold,   \* signatures the Safe asks for
  Watchers,    \* length of the configured list of watchers, which may be empty
  Lag,         \* triggers between a block and its finality, 0 for "head"
  Validators,  \* proposals of the Portal, numbered by portal_index from 1
  Bad,         \* the proposals that verify_validator finds faulty
  Missable,    \* the deposits whose block may be taken for a missed slot
  MaxPending,  \* MAX_PENDING_VALIDATORS
  Delayed,     \* MIN and MAX_VERIFICATION_DELAY are one and two triggers, not zero
  MaxFaults    \* bound on crashes and failed submissions

Index == 1 .. Validators
Watcher == 1 .. Watchers

ASSUME QuorumAssumption ==
  /\ IsFiniteSet(Member) /\ Threshold \in Nat \ {0}
  /\ Threshold <= Cardinality(Member) /\ 2 * Threshold > Cardinality(Member)
ASSUME SizeAssumption ==
  /\ Watchers \in Nat /\ Lag \in Nat /\ Validators \in Nat
  /\ MaxPending \in Nat /\ MaxFaults \in Nat
ASSUME ChoiceAssumption ==
  Bad \subseteq Index /\ Missable \subseteq Index /\ Delayed \in BOOLEAN

(* The Portal and the beacon chain as of one block: the verification       *)
(* index, and the proposal deposits made so far, more than the minimal     *)
(* delay ago, and more than the maximal delay ago.                         *)
Block ==
  [ index    : 0 .. Validators,
    deposits : 0 .. Validators,
    settled  : 0 .. Validators,
    waiting  : 0 .. Validators ]

VARIABLES
  \* the chain
  index,     \* the verification index of the Portal
  blocks,    \* the last blocks; the members see the first of them
  sigs,      \* <<watcher, member, new index>>: signatures for the current nonce
  \* each member
  pc,
  fired,     \* the visible block has been processed
  view,      \* the block being processed, or what is left of the last one
  known,     \* validators with a proposal_signature
  tx,        \* the index being submitted, 0 for none
  fresh,     \* ... and whether its nonce is the Safe's
  left,      \* ... and the next watcher
  \* history
  verified,  \* validators verify_validator has been asked about
  \* bound
  faults

chainVars == <<index, blocks, sigs>>
submission == <<tx, fresh, left>>
memberVars == <<pc, fired, view, known, submission, verified>>
vars == <<chainVars, memberVars, faults>>

(* In the last two the account of module Owner saves its trees.            *)
Labels == {"idle", "stopped", "report", "verify", "post", "price", "balance"}

TypeOK ==
  /\ index \in 0 .. Validators
  /\ blocks \in Seq(Block) /\ Len(blocks) = Lag + 1
  /\ sigs \subseteq Watcher \X Member \X Index
  /\ pc \in [Member -> Labels]
  /\ fired \in [Member -> BOOLEAN] /\ view \in [Member -> Block]
  /\ known \in [Member -> SUBSET Index]
  /\ tx \in [Member -> 0 .. Validators] /\ fresh \in [Member -> BOOLEAN]
  /\ left \in [Member -> Nat \ {0}]
  /\ verified \in [Member -> SUBSET Index]
  /\ faults \in 0 .. MaxFaults
-----------------------------------------------------------------------------
FirstBlock == [index |-> 0, deposits |-> 0, settled |-> 0, waiting |-> 0]

Init ==
  /\ index = 0 /\ blocks = [i \in 1 .. Lag + 1 |-> FirstBlock] /\ sigs = {}
  /\ pc = [m \in Member |-> "idle"] /\ fired = [m \in Member |-> TRUE]
  /\ view = [m \in Member |-> FirstBlock]
  /\ known = [m \in Member |-> {}]
  /\ tx = [m \in Member |-> 0] /\ fresh = [m \in Member |-> FALSE]
  /\ left = [m \in Member |-> 1]
  /\ verified = [m \in Member |-> {}]
  /\ faults = 0
-----------------------------------------------------------------------------
(* The next slot that is a multiple of the period.                         *)
Tick ==
  LET newest == blocks[Lag + 1] IN
  /\ \E n \in newest.deposits .. Validators :
       blocks' = Append(Tail(blocks),
         [index |-> index, deposits |-> n,
          settled |-> IF Delayed THEN newest.deposits ELSE n,
          waiting |-> IF Delayed THEN newest.settled ELSE n])
  /\ fired' = [m \in Member |-> FALSE]
  /\ UNCHANGED <<index, sigs, pc, view, known, submission, verified, faults>>

(* Enough owners have given one watcher their signature.                   *)
Signers(w, i) == {m \in Member : <<w, m, i>> \in sigs}

(* The Safe executes it; its nonce grows.                                  *)
Execute ==
  \E w \in Watcher, i \in Index :
    /\ Cardinality(Signers(w, i)) >= Threshold
    /\ index' = i
    /\ sigs' = {} /\ fresh' = [m \in Member |-> FALSE]
    /\ UNCHANGED <<blocks, pc, fired, view, known, tx, left, verified, faults>>
-----------------------------------------------------------------------------
(* After a trigger only how far the tables have got is remembered.         *)
Seen(b) == [index |-> 0, deposits |-> b.deposits, settled |-> 0, waiting |-> 0]

Goto(m, l) ==
  /\ pc' = [pc EXCEPT ![m] = l]
  /\ view' = IF l \in {"idle", "stopped"} THEN [view EXCEPT ![m] = Seen(@)] ELSE view

(* What a member remembers of a submission is gone when it returns.        *)
Forget(m) ==
  /\ tx' = [tx EXCEPT ![m] = 0]
  /\ fresh' = [fresh EXCEPT ![m] = FALSE]
  /\ left' = [left EXCEPT ![m] = 1]

Stop(m) == Goto(m, "stopped") /\ Forget(m)

(* SlotDaemon fires and process_slots indexes up to the block.  A deposit  *)
(* whose block is taken for a missed slot is not seen later either.        *)
NewDeposits(m) == view[m].deposits + 1 .. blocks[1].deposits

Fire(m) ==
  /\ pc[m] = "idle" /\ ~ fired[m]
  /\ fired' = [fired EXCEPT ![m] = TRUE]
  /\ view' = [view EXCEPT ![m] = blocks[1]]
  /\ \E lost \in SUBSET (Missable \cap NewDeposits(m)) :
       known' = [known EXCEPT ![m] = @ \cup (NewDeposits(m) \ lost)]
  /\ pc' = [pc EXCEPT ![m] = "report"]
  /\ UNCHANGED <<chainVars, submission, verified, faults>>

(* handle_regulate_operators and process_report_beacon.  The first returns *)
(* whatever happens: proofs are block numbers and no bytes.  The second    *)
(* may raise at every trigger, before handle_report_beacon (a balance, a   *)
(* status or a supply that cannot be read, a leaf that cannot be hashed);  *)
(* the roots are no bytes32, so that handle_report_beacon signs nothing.   *)
Report(m) ==
  /\ pc[m] = "report"
  /\ \/ Goto(m, "verify") /\ UNCHANGED submission
     \/ Stop(m)
  /\ UNCHANGED <<chainVars, fired, known, verified, faults>>

(* read_proposed_validators, should_verify_validators (which raises when   *)
(* there is none), verify_validators_batch, and the new index.             *)
Pending(m) == {i \in known[m] : i > view[m].index}

MaxOf(S) == CHOOSE i \in S : \A j \in S : j <= i
NewIndexCount(m) == Cardinality(Pending(m))                         \* mutant
NewIndexBefore(m) == MaxOf(Pending(m)) - 1                          \* mutant
NewIndexNext(m) ==                                                  \* mutant
  IF MaxOf(Pending(m)) < Validators THEN MaxOf(Pending(m)) + 1 ELSE Validators
NewIndex(m) == MaxOf(Pending(m))

ShouldVerify(m) ==
  \/ \E i \in Pending(m) : i <= view[m].waiting
  \/ /\ Cardinality(Pending(m)) > MaxPending
     /\ \A i \in Pending(m) : i <= view[m].settled

AliensButLast(m) == Bad \cap (Pending(m) \ {NewIndex(m)})           \* mutant
Aliens(m) == Bad \cap Pending(m)

(* handle_* returns, ok or not; the trigger is over.                       *)
Return(m) == Goto(m, "idle") /\ Forget(m)

(* get_nonce and prepare_tx: the transaction is hashed and signed with the *)
(* nonce the Safe has now.                                                 *)
Sign(m, i) ==
  /\ tx' = [tx EXCEPT ![m] = i]
  /\ fresh' = [fresh EXCEPT ![m] = TRUE]

(* post_submit_batch, up to its loop, when there is a watcher.             *)
Submit(m, i) ==
  \/ /\ Sign(m, i)
     /\ Goto(m, "post")
     /\ UNCHANGED <<left, faults>>
  \/ /\ faults < MaxFaults /\ faults' = faults + 1       \* an exception
     /\ Return(m)

(* The aliens of a batch are portal indices for a parameter of bytes[]:    *)
(* get_encoded_data raises, always, and handle_* swallows it.  Without a   *)
(* watcher there is nothing to do.  Either way nothing is signed.          *)
Unsigned(m) == Watchers = 0 \/ Aliens(m) # {}

Checks(m) == verified' = [verified EXCEPT ![m] = @ \cup Pending(m)]

Verify(m) ==
  /\ pc[m] = "verify"
  /\ \/ /\ Pending(m) = {}
        /\ Stop(m)
        /\ UNCHANGED <<verified, faults>>
     \/ /\ Pending(m) # {} /\ ~ ShouldVerify(m)
        /\ Return(m)
        /\ UNCHANGED <<verified, faults>>
     \/ /\ Pending(m) # {} /\ ShouldVerify(m) /\ Checks(m)
        /\ Unsigned(m)
        /\ Return(m)
        /\ UNCHANGED faults
     \/ /\ Pending(m) # {} /\ ShouldVerify(m) /\ Checks(m)
        /\ ~ Unsigned(m)
        /\ Submit(m, NewIndex(m))
  /\ UNCHANGED <<chainVars, fired, known>>

(* The loop of post_submit_batch: one watcher after the other; the first   *)
(* failure ends it.  A request that timed out may have been received.      *)
Received(m) == IF fresh[m] THEN sigs \cup {<<left[m], m, tx[m]>>} ELSE sigs

Post(m) ==
  /\ pc[m] = "post"
  /\ \/ /\ sigs' = Received(m)
        /\ IF left[m] < Watchers
           THEN left' = [left EXCEPT ![m] = @ + 1] /\ UNCHANGED <<pc, view, tx, fresh>>
           ELSE Return(m)
        /\ UNCHANGED faults
     \/ /\ faults < MaxFaults /\ faults' = faults + 1
        /\ sigs' \in {sigs, Received(m)}
        /\ Return(m)
  /\ UNCHANGED <<index, blocks, fired, known, verified>>

(* The process ends; the trigger is lost, its slots are saved already.     *)
Crash(m) ==
  /\ pc[m] # "stopped" /\ faults < MaxFaults
  /\ faults' = faults + 1
  /\ Stop(m)
  /\ UNCHANGED <<chainVars, fired, known, verified>>

Restart(m) ==
  /\ pc[m] = "stopped"
  /\ Goto(m, "idle")
  /\ UNCHANGED <<chainVars, fired, known, submission, verified, faults>>
-----------------------------------------------------------------------------
Next ==
  \/ Tick \/ Execute
  \/ \E m \in Member :
       Fire(m) \/ Report(m) \/ Verify(m) \/ Post(m) \/ Crash(m) \/ Restart(m)

Spec == Init /\ [][Next]_vars
-----------------------------------------------------------------------------
(* The verification index of the Portal never goes back, however late the  *)
(* members sign and however old the block they look at: two quorums share  *)
(* a member, and what a member knows only grows.                           *)
IndexNeverBack == [][index' >= index]_vars

(* Verification Index "points to the last validator that has been approved *)
(* by the oracle": every proposal up to it has been verified by a quorum.  *)
ApprovedWereVerified ==
  \A i \in 1 .. index : Cardinality({m \in Member : i \in verified[m]}) >= Threshold

(* A faulty proposal is never passed by the index, in whatever batches the *)
(* members verified: updateVerificationIndex would have to name it as an   *)
(* alien, and a call that names one is never made.                         *)
NoFaultyApproved == \A i \in Bad : index < i

(* The Portal, whatever the members saw, signed and lost, is moved the way *)
(* Approval allows: by a quorum that has checked all that the index passes *)
(* and found no fault.                                                     *)
Quorums == {Q \in SUBSET Member : Cardinality(Q) >= Threshold}

Approvals == INSTANCE Approval WITH Quorum <- Quorums, checked <- verified
ImplementsApproval == Approvals!Spec
=============================================================================
