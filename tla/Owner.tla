-------------------------------- MODULE Owner --------------------------------
(***************************************************************************)
(* The other way geoscope talks to the Portal: the oracle is the address   *)
(* of the one who runs it, not a Safe.  handle_* then sends a transaction  *)
(* of its own (transact_* in actions/portal.py), after a look at the price *)
(* of gas (utils/gas.py), and waits for its receipt.  What is verified and *)
(* when is that of module Oracle, whose signatures stay unused.            *)
(*                                                                         *)
(* The transactions of an account are mined in the order of their nonces,  *)
(* so the ones sent and not mined yet are a queue.  Geoscope sends one     *)
(* after the other: the one it waits for is always the last of the queue.  *)
(***************************************************************************)
EXTENDS Oracle

CONSTANTS
  Data,         \* what a report may say: the roots of its two trees
  Gas,          \* what a look at the price of gas may end in
  MaxTimeouts   \* bound on how often the wait for a receipt is too long

Root == UNION {{d.price, d.balance} : d \in Data}

ASSUME OwnerAssumption == Cardinality(Member) = 1
ASSUME DataAssumption == Data \subseteq [price : Root, balance : Root]
ASSUME GasAssumption ==
  Gas \subseteq {"unset", "zero", "price", "high", "error"} /\ Gas # {}
ASSUME TimeoutAssumption == MaxTimeouts \in Nat

Tx == [kind : {"report"}, data : Data] \cup [kind : {"verify"}, index : Index]
NoTx == [kind |-> "none"]

VARIABLES
  mempool,   \* the transactions sent and not mined yet, in nonce order
  status,    \* status of the last one mined
  call,      \* the transaction waited for, and then the one whose trees are saved
  trees,     \* Merkles: roots
  roots,     \* history: the roots that were ever reported to the Portal
  timeouts

own == <<mempool, status, call, trees, roots, timeouts>>
ownerVars == <<vars, own>>

OwnerTypeOK ==
  /\ TypeOK /\ sigs = {}
  /\ mempool \in Seq(Tx) /\ status \in {0, 1} /\ call \in Tx \cup {NoTx}
  /\ trees \subseteq Root /\ roots \subseteq Root
  /\ timeouts \in 0 .. MaxTimeouts

OwnerInit ==
  /\ Init
  /\ mempool = <<>> /\ status = 1 /\ call = NoTx
  /\ trees = {} /\ roots = {} /\ timeouts = 0
-----------------------------------------------------------------------------
(* tx_params.  Without a gas API, or when a price it tells is zero, the    *)
(* node chooses the fees.  A price that is too high raises, and so does    *)
(* one that is not: to_wei makes it an int, __float_to_hexstring takes no  *)
(* int.                                                                    *)
GasRaises == Gas \ {"unset", "zero"}
GasPasses == Gas \cap {"unset", "zero"}

(* handle_* has failed, which is logged and swallowed.                     *)
Failed(m, t) ==
  /\ Goto(m, IF t.kind = "report" THEN "verify" ELSE "idle")
  /\ call' = NoTx

(* An exception of the environment in handle_*.                            *)
HandleFails(m, t) ==
  /\ faults < MaxFaults /\ faults' = faults + 1
  /\ Failed(m, t)

(* transact: the nonce counts what is sent and not mined yet.              *)
SentFirst(t) == <<t>> \o mempool                                    \* mutant
Sent(t) == Append(mempool, t)

(* handle_* and transact_* up to the wait.  The price of gas may raise at  *)
(* every look, the node now and then; it may have taken a transaction      *)
(* although the call raised.                                               *)
Transact(m, t) ==
  \/ /\ GasPasses # {}
     /\ mempool' = Sent(t) /\ call' = t
     /\ Goto(m, "post")
     /\ UNCHANGED faults
  \/ /\ GasRaises # {}
     /\ Failed(m, t)
     /\ UNCHANGED <<mempool, faults>>
  \/ /\ HandleFails(m, t)
     /\ UNCHANGED mempool
  \/ /\ GasPasses # {}
     /\ HandleFails(m, t)
     /\ mempool' = Sent(t)

(* handle_regulate_operators, which sends nothing, as in module Oracle,    *)
(* and process_report_beacon.  No report is due, or its root begins with   *)
(* 0x, which bytes.fromhex refuses every time; what is needed for a report *)
(* cannot be read or hashed; or one is made.                               *)
OwnerReport(m) ==
  /\ pc[m] = "report"
  /\ \/ /\ Goto(m, "verify")
        /\ UNCHANGED <<submission, faults, mempool, call>>
     \/ /\ Stop(m)
        /\ UNCHANGED <<faults, mempool, call>>
     \/ /\ \E d \in Data : Transact(m, [kind |-> "report", data |-> d])
        /\ UNCHANGED submission
  /\ UNCHANGED <<chainVars, fired, known, verified, status, trees, roots, timeouts>>

(* process_verifications.  Aliens are portal indices: web3 refuses them    *)
(* for a parameter of bytes[], always, and handle_* swallows it.           *)
OwnerVerify(m) ==
  /\ pc[m] = "verify"
  /\ \/ /\ Pending(m) = {}
        /\ Stop(m)
        /\ UNCHANGED <<verified, faults, mempool, call>>
     \/ /\ Pending(m) # {} /\ ~ ShouldVerify(m)
        /\ Return(m)
        /\ UNCHANGED <<verified, faults, mempool, call>>
     \/ /\ Pending(m) # {} /\ ShouldVerify(m) /\ Checks(m)
        /\ Aliens(m) # {}
        /\ Return(m)
        /\ UNCHANGED <<faults, mempool, call>>
     \/ /\ Pending(m) # {} /\ ShouldVerify(m) /\ Checks(m)
        /\ Aliens(m) = {}
        /\ Transact(m, [kind |-> "verify", index |-> NewIndex(m)])
        /\ UNCHANGED submission
  /\ UNCHANGED <<chainVars, fired, known, status, trees, roots, timeouts>>

(* A block includes the next transaction; it may be reverted.              *)
Accept(t) ==
  \/ /\ t.kind = "report"
     /\ roots' = roots \cup {t.data.price, t.data.balance}
     /\ UNCHANGED index
  \/ /\ t.kind = "verify"
     /\ index' = t.index
     /\ UNCHANGED roots

Mine ==
  /\ mempool # <<>>
  /\ mempool' = Tail(mempool)
  /\ \/ /\ status' = 1 /\ Accept(Head(mempool))
        /\ UNCHANGED faults
     \/ /\ faults < MaxFaults /\ faults' = faults + 1
        /\ status' = 0
        /\ UNCHANGED <<index, roots>>
  /\ UNCHANGED <<blocks, sigs, memberVars, call, trees, timeouts>>

(* wait_for_transaction_receipt ended: success is a status of 1.           *)
SucceededMined == TRUE                                              \* mutant
Succeeded == status = 1

Receipt(m) ==
  /\ pc[m] = "post" /\ mempool = <<>>
  /\ IF Succeeded /\ call.kind = "report"
     THEN Goto(m, "price") /\ UNCHANGED call
     ELSE Failed(m, call)
  /\ UNCHANGED <<chainVars, fired, known, submission, verified, faults,
                 mempool, status, trees, roots, timeouts>>

(* TimeExhausted, or any other failure while waiting: the transaction      *)
(* stays where it is.                                                      *)
WaitFails(m) ==
  /\ pc[m] = "post"
  /\ \/ /\ timeouts < MaxTimeouts /\ timeouts' = timeouts + 1
        /\ mempool # <<>>
        /\ Failed(m, call)
        /\ UNCHANGED faults
     \/ HandleFails(m, call) /\ UNCHANGED timeouts
  /\ UNCHANGED <<chainVars, fired, known, submission, verified,
                 mempool, status, trees, roots>>

(* insert_merkle_tree_json, twice, root_hash being the primary key.        *)
SaveTree(m, root) ==
  /\ trees' = trees \cup {root}
  /\ UNCHANGED <<chainVars, fired, known, submission, verified, faults,
                 mempool, status, roots, timeouts>>

SavePrices(m) ==
  /\ pc[m] = "price" /\ call.data.price \notin trees
  /\ SaveTree(m, call.data.price)
  /\ Goto(m, "balance") /\ UNCHANGED call

SaveBalances(m) ==
  /\ pc[m] = "balance" /\ call.data.balance \notin trees
  /\ SaveTree(m, call.data.balance)
  /\ Goto(m, "verify") /\ call' = NoTx

SavedAlready(m) ==
  /\ \/ pc[m] = "price" /\ call.data.price \in trees
     \/ pc[m] = "balance" /\ call.data.balance \in trees
  /\ Stop(m) /\ call' = NoTx
  /\ UNCHANGED <<chainVars, fired, known, verified, faults,
                 mempool, status, trees, roots, timeouts>>

OwnerCrash(m) ==
  /\ Crash(m) /\ call' = NoTx
  /\ UNCHANGED <<mempool, status, trees, roots, timeouts>>
-----------------------------------------------------------------------------
OwnerNext ==
  \/ Tick /\ UNCHANGED own
  \/ Mine
  \/ \E m \in Member :
       \/ (Fire(m) \/ Restart(m)) /\ UNCHANGED own
       \/ OwnerReport(m) \/ OwnerVerify(m) \/ Receipt(m) \/ WaitFails(m)
       \/ SavePrices(m) \/ SaveBalances(m) \/ SavedAlready(m) \/ OwnerCrash(m)

OwnerSpec == OwnerInit /\ [][OwnerNext]_ownerVars
-----------------------------------------------------------------------------
(* "If submission is successful, inserts Merkle tree JSON data": a tree    *)
(* that is saved is one the Portal has been told of, whatever transactions *)
(* were reverted, given up or sent twice.                                  *)
SavedWereReported == trees \subseteq roots

(* The verification index never goes back, although a transaction that     *)
(* was given up may be mined after its proposals were verified again.      *)
NeverBack == [][index' >= index]_ownerVars
=============================================================================
