------------------------------ MODULE Indexer ------------------------------
(***************************************************************************)
(* The indexing pipeline of geoscope: BeaconTrigger.process_slots and      *)
(* index_slots (src/triggers/slot/beacon_trigger.py) with the helpers that *)
(* read the chain and the database functions they call.  Every database    *)
(* function opens its own connection and commits on its own, so a batch is *)
(* a chain of transactions: one action each, and the process may die       *)
(* between any two of them.                                                *)
(*                                                                         *)
(* The beacon chain and the Portal contract are read-only history, chosen  *)
(* once in Init (chain); what the oracle knows of them is the tables.      *)
(***************************************************************************)
EXTENDS Integers, FiniteSets

CONSTANTS
  Start,         \* the configured start slot
  MaxSlot,       \* the last slot of the chain (bounds the model)
  BatchSize,     \* slots indexed together, batch_size of process_slots
  Period,        \* the slot period of the daemon
  EventRange,    \* the blocks a request for events may span
  Pools,         \* how many pools the Portal may hold
  Pk,            \* validators
  Deposit,       \* beacon chain deposits, numbered in chain order
  Withdrawal,    \* beacon chain withdrawals
  None,          \* SQL NULL, and the proposer that is not one of Pk
  Chains,        \* the histories considered
  Lossy,         \* slots whose fetch may fail although they have a block
  BalanceReads,  \* what reading a stored balance may do: "value", "raise"
  ResetChoices,  \* the sets of tables an operator may reset
  MaxCrashes,    \* bound on the crashes
  MaxResets      \* bound on the resets

Slot == Start + 1 .. MaxSlot
Pool == 0 .. Pools - 1
Table == {"Pools", "Validators", "Deposits", "Withdrawals", "Slots"}

(* A history.  An event dated Start happened before the oracle's first     *)
(* slot and is never seen.                                                 *)
Chain ==
  [ block      : SUBSET Slot,                     \* slots not missed
    pool       : [Pool -> Start .. MaxSlot],      \* when each pool appears
    poolOf     : [Pk -> Pool],
    proposed   : [Pk -> Start .. MaxSlot],        \* StakeProposal events
    deposit    : [Deposit -> [pk : Pk, slot : Start .. MaxSlot, valid : BOOLEAN]],
    withdrawal : [Withdrawal -> [pk : Pk, slot : Start .. MaxSlot]],
    proposer   : [Slot -> Pk \cup {None}],
    theft      : SUBSET Slot ]                    \* wrong fee recipient

(* Events are in blocks, deposits are numbered in chain order, a pool      *)
(* exists before it gets a validator, a proposer has made a deposit.       *)
LegalChain(c) ==
  LET dated(s) == s \in c.block \cup {Start} IN
  /\ \A pk \in Pk : dated(c.proposed[pk]) /\ c.pool[c.poolOf[pk]] <= c.proposed[pk]
  /\ \A d \in Deposit : dated(c.deposit[d].slot)
  /\ \A d, e \in Deposit : d < e => c.deposit[d].slot <= c.deposit[e].slot
  /\ \A w \in Withdrawal : dated(c.withdrawal[w].slot)
  /\ \A s \in Slot : c.proposer[s] # None =>
       \E d \in Deposit : c.deposit[d].pk = c.proposer[s] /\ c.deposit[d].slot < s
  /\ \A p, q \in Pool : p < q => c.pool[p] <= c.pool[q]

ASSUME SlotAssumption ==
  /\ Start \in Nat /\ MaxSlot \in Nat /\ Start <= MaxSlot
  /\ BatchSize \in Nat \ {0} /\ Period \in Nat \ {0} /\ EventRange \in Nat \ {0}
ASSUME PoolAssumption == Pools \in Nat \ {0}
ASSUME NoneAssumption == None \notin Pk /\ None \notin Deposit
ASSUME DepositAssumption == Deposit \subseteq Nat /\ IsFiniteSet(Deposit)
ASSUME ChainAssumption == \A c \in Chains : c \in Chain /\ LegalChain(c)
ASSUME BoundAssumption == MaxCrashes \in Nat /\ MaxResets \in Nat
ASSUME ResetAssumption == ResetChoices \subseteq SUBSET Table
ASSUME ReadAssumption == BalanceReads \subseteq {"value", "raise"}

VARIABLES
  chain,       \* the history
  \* the tables
  poolRows,    \* Pools: number of rows (they are inserted in Portal order)
  valRows,     \* Validators: primary keys
  psig, ssig,  \* Validators: the deposit proposal_signature, stake_signature is of
  withdrawn,   \* Validators.withdrawn_balance: times each withdrawal is in it
  fees,        \* Validators.fee_recipient_balance: times each block's fee is in it
  depRows,     \* Deposits
  wdRows,      \* Withdrawals
  slotRows,    \* Slots: primary keys
  blockRows,   \* Slots: those with a block number
  \* the memory of the process
  pc,
  recent,      \* SlotDaemon.__recent_slot
  head,        \* curr_slot_num of the last trigger
  batches,     \* iterations left of the batch loop
  first, last, \* index_slots' start_slot and end_slot
  got,         \* the slots of the batch fetched with a block
  thefts,      \* all_thefts
  \* the outside
  reported,    \* blocks given to the Portal as proof of theft
  crashes, resets

balances == <<withdrawn, fees>>
validators == <<valRows, psig, ssig, balances>>
tables == <<poolRows, validators, depRows, wdRows, slotRows, blockRows>>
daemon == <<recent, head>>
batch == <<first, last, got>>
outside == <<chain, reported, crashes, resets>>
vars == <<tables, pc, daemon, batches, batch, thefts, outside>>

Stages == {"fetch", "pools", "validators", "deposits", "insertDeposits",
           "withdrawals", "insertWithdrawals", "slots", "fees", "detect"}
Labels == Stages \cup {"idle", "stopped", "loop", "regulate", "report", "verify"}

TypeOK ==
  /\ chain \in Chain /\ LegalChain(chain)
  /\ poolRows \in 0 .. Pools
  /\ valRows \subseteq Pk
  /\ psig \in [Pk -> Deposit \cup {None}] /\ ssig \in [Pk -> Deposit \cup {None}]
  /\ withdrawn \in [Withdrawal -> Nat] /\ fees \in [Slot -> Nat]
  /\ depRows \subseteq Deposit /\ wdRows \subseteq Withdrawal
  /\ slotRows \subseteq Slot /\ blockRows \subseteq slotRows
  /\ pc \in Labels
  /\ recent \in Start .. MaxSlot /\ head \in Start .. MaxSlot
  /\ batches \in Nat
  /\ first \in Nat /\ last \in Nat /\ got \subseteq Slot
  /\ thefts \subseteq Slot /\ reported \subseteq Slot
  /\ crashes \in 0 .. MaxCrashes /\ resets \in 0 .. MaxResets
-----------------------------------------------------------------------------
(* read_max_slot: the greatest slot saved, or the start slot.              *)
MaxRow ==
  IF slotRows = {} THEN Start
  ELSE CHOOSE s \in slotRows : \A t \in slotRows : t <= s

(* The next trigger and the next statement.                                *)
Goto(l) == pc' = l

(* The daemon's loop reports an exception and sets shutdown_event: the     *)
(* process ends and its memory is lost.                                    *)
Stop ==
  /\ pc' = "stopped"
  /\ batches' = 0 /\ first' = 0 /\ last' = 0 /\ got' = {} /\ thefts' = {}
  /\ recent' = Start

(* An exception leaves process_slots.  Leaving "with Database()" by an     *)
(* exception rolls back what the transaction did.                          *)
Raise == Stop /\ UNCHANGED <<tables, head, outside>>

Init ==
  /\ chain \in Chains
  /\ poolRows = 0 /\ valRows = {} /\ depRows = {} /\ wdRows = {}
  /\ psig = [pk \in Pk |-> None] /\ ssig = [pk \in Pk |-> None]
  /\ withdrawn = [w \in Withdrawal |-> 0] /\ fees = [s \in Slot |-> 0]
  /\ slotRows = {} /\ blockRows = {}
  /\ pc = "idle" /\ recent = Start /\ head = Start
  /\ batches = 0 /\ first = 0 /\ last = 0 /\ got = {} /\ thefts = {}
  /\ reported = {} /\ crashes = 0 /\ resets = 0
-----------------------------------------------------------------------------
(* SlotDaemon.listen_slots fires: the latest slot, which has a block, is a *)
(* multiple of the period and at least a period after the recent one.      *)
FiresAtExact(c) == c - recent = Period /\ c % Period = 0            \* mutant
FiresAt(c) == c - recent >= Period /\ c % Period = 0

(* process_slots: -((curr - max + 1) // -batch_size).                      *)
BatchCountFloor(c) == (c - MaxRow) \div BatchSize                   \* mutant
BatchCount(c) == ((c - MaxRow + 1) + (BatchSize - 1)) \div BatchSize

Trigger ==
  /\ pc = "idle"
  /\ \E c \in chain.block :
       /\ c >= head /\ FiresAt(c)
       /\ head' = c /\ recent' = c
       /\ batches' = BatchCount(c)
  /\ Goto("loop")
  /\ UNCHANGED <<tables, batch, thefts, outside>>

(* The head of the batch loop.                                             *)
BatchEndUncut == MaxRow + BatchSize                                 \* mutant
BatchEnd == IF MaxRow + BatchSize <= head THEN MaxRow + BatchSize ELSE head

NextBatch ==
  /\ pc = "loop" /\ batches > 0
  /\ first' = MaxRow + 1 /\ last' = BatchEnd
  /\ batches' = batches - 1
  /\ Goto("fetch")
  /\ UNCHANGED <<tables, daemon, got, thefts, outside>>

LoopEnd ==
  /\ pc = "loop" /\ batches = 0
  /\ Goto("regulate")
  /\ UNCHANGED <<tables, daemon, batches, batch, thefts, outside>>

(* fetch_slots_batch: fetch_slot records any failure as a missed slot.     *)
(* min() and max() raise when no slot of the batch has a block.            *)
FetchSlots ==
  /\ pc = "fetch"
  /\ \E lost \in SUBSET Lossy :
       LET found == ((first .. last) \cap chain.block) \ lost IN
       \/ /\ found # {} /\ got' = found
          /\ Goto("pools")
          /\ UNCHANGED <<tables, daemon, batches, first, last, thefts, outside>>
       \/ found = {} /\ Raise

(* update_portal_pools at the batch's last block.  Only the rows are       *)
(* modelled: the figures fill_pools_table refreshes are read by the report *)
(* alone.                                                                  *)
PortalPoolsFirst == {p \in Pool : \A s \in got : chain.pool[p] <= s} \* mutant
PortalPools == {p \in Pool : \E s \in got : chain.pool[p] <= s}

UpdatePools ==
  LET portalCount == Cardinality(PortalPools) IN
  /\ pc = "pools"
  /\ poolRows' = IF portalCount > poolRows THEN portalCount ELSE poolRows
  /\ Goto("validators")
  /\ UNCHANGED <<validators, depRows, wdRows, slotRows, blockRows,
                 daemon, batches, batch, thefts, outside>>

(* gather_all_events: from the batch's first block to its last.            *)
InEventRange(slot) == \E s, t \in got : s <= slot /\ slot <= t

(* The pubkeys of the StakeProposal events in that range.                  *)
Proposed == {pk \in Pk : InEventRange(chain.proposed[pk])}

(* The requests of fetch_event_logs start every EventRange blocks before   *)
(* the last one and reach to the start of the next, that block included:   *)
(* its events come twice.                                                  *)
BlocksBefore(slot) == {s \in chain.block : s < slot /\ \E t \in got : t <= s}
StartsRange(slot) ==
  /\ slot \in chain.block /\ BlocksBefore(slot) # {}
  /\ Cardinality(BlocksBefore(slot)) % EventRange = 0
RequestsMeet == {s \in Slot : StartsRange(s) /\ \E t \in got : s < t}

FetchedTwice(pk) == chain.proposed[pk] \in RequestsMeet

(* check_validator_by_pubkey.                                              *)
Known(pk) == pk \in valRows

(* insert_validators_batch: one INSERT, pubkey is the primary key.         *)
InsertRows(P) ==
  /\ \A pk \in P : ~ Known(pk) /\ ~ FetchedTwice(pk)
  /\ valRows' = valRows \cup P

InsertValidators ==
  /\ pc = "validators"
  /\ \/ /\ InsertRows(Proposed)
        /\ Goto("deposits")
        /\ UNCHANGED <<poolRows, psig, ssig, balances, depRows, wdRows, slotRows,
                       blockRows, daemon, batches, batch, thefts, outside>>
     \/ (\E pk \in Proposed : Known(pk) \/ FetchedTwice(pk)) /\ Raise

DepPk(d) == chain.deposit[d].pk
DepSlot(d) == chain.deposit[d].slot

(* check_deposit_by_slot: the slot's deposits are saved, all or none.      *)
SavedDeposits(slot) == \E d \in depRows : DepSlot(d) = slot

(* filter_deposits_batch: deposits of known validators, unless a deposit   *)
(* of the same slot is saved already.                                      *)
NewDepositsOfNew ==                                                 \* mutant
  {d \in Deposit : DepSlot(d) \in got /\ Known(DepPk(d)) /\ psig[DepPk(d)] = None}
NewDepositsAgain ==                                                 \* mutant
  {d \in Deposit : DepSlot(d) \in got /\ Known(DepPk(d))}
NewDeposits ==
  {d \in Deposit : DepSlot(d) \in got /\ Known(DepPk(d)) /\ ~ SavedDeposits(DepSlot(d))}

(* A pubkey is on the beacon chain from its first valid deposit on.        *)
OnBeacon(pk, slot) ==
  \E d \in Deposit : DepPk(d) = pk /\ chain.deposit[d].valid /\ DepSlot(d) <= slot

(* executemany: the last update of a row stays.                            *)
LatestOf(D, pk) ==
  CHOOSE d \in D : DepPk(d) = pk /\ \A e \in D : DepPk(e) = pk => e <= d
Touched(D) == {DepPk(d) : d \in D}

(* process_deposits_batch and update_beacon_constants: one transaction.    *)
(* Which signature a deposit fills is decided from the row as it was       *)
(* before the batch.                                                       *)
FillsProposalInverted(pk) == psig[pk] # None                        \* mutant
FillsProposalAlways(pk) == TRUE                                     \* mutant
FillsProposal(pk) == psig[pk] = None
FillsStakeAlways(pk) == TRUE                                        \* mutant
FillsStake(pk) == psig[pk] # None

ProcessDeposits ==
  LET D == NewDeposits IN
  /\ pc = "deposits"
  /\ \/ /\ D = {}
        /\ Goto("withdrawals")
        /\ UNCHANGED <<tables, daemon, batches, batch, thefts, outside>>
     \/ /\ D # {}
        /\ \A pk \in Touched(D) : OnBeacon(pk, last) /\ ssig[pk] = None
        /\ psig' = [pk \in Pk |-> IF pk \in Touched(D) /\ FillsProposal(pk)
                                  THEN LatestOf(D, pk) ELSE psig[pk]]
        /\ ssig' = [pk \in Pk |-> IF pk \in Touched(D) /\ FillsStake(pk)
                                  THEN LatestOf(D, pk) ELSE ssig[pk]]
        /\ Goto("insertDeposits")
        /\ UNCHANGED <<poolRows, valRows, balances, depRows, wdRows, slotRows,
                       blockRows, daemon, batches, batch, thefts, outside>>
     \/ /\ \E pk \in Touched(D) : ~ OnBeacon(pk, last) \/ ssig[pk] # None
        /\ Raise

(* insert_deposits_batch: the same deposits, filtered before.              *)
InsertDeposits ==
  /\ pc = "insertDeposits"
  /\ depRows' = depRows \cup NewDeposits
  /\ Goto("withdrawals")
  /\ UNCHANGED <<poolRows, validators, wdRows, slotRows, blockRows,
                 daemon, batches, batch, thefts, outside>>

WdPk(w) == chain.withdrawal[w].pk
WdSlot(w) == chain.withdrawal[w].slot

(* check_withdrawal_by_slot.                                               *)
SavedWithdrawals(slot) == \E w \in wdRows : WdSlot(w) = slot

(* check_validator_by_beacon_index: the index of a validator is saved with *)
(* its proposal deposit.                                                   *)
KnownIndex(pk) == Known(pk) /\ psig[pk] # None

(* filter_withdrawals_batch: those of validators whose index is known.     *)
NewWithdrawalsEver ==                                               \* mutant
  {w \in Withdrawal :
     WdSlot(w) \in chain.block /\ WdSlot(w) <= last /\ KnownIndex(WdPk(w))}
NewWithdrawalsStaked ==                                             \* mutant
  {w \in Withdrawal : WdSlot(w) \in got /\ ssig[WdPk(w)] # None}
NewWithdrawals ==
  {w \in Withdrawal :
     WdSlot(w) \in got /\ KnownIndex(WdPk(w)) /\ ~ SavedWithdrawals(WdSlot(w))}

(* increase_withdrawn_balances: the balances are read and written back     *)
(* with the sums added, in one transaction.                                *)
IncreaseWithdrawn(W) ==
  withdrawn' = [w \in Withdrawal |-> withdrawn[w] + IF w \in W THEN 1 ELSE 0]

(* process_withdrawals_batch.                                              *)
ProcessWithdrawals ==
  LET W == NewWithdrawals IN
  /\ pc = "withdrawals"
  /\ \/ /\ W = {}
        /\ Goto("slots")
        /\ UNCHANGED <<tables, daemon, batches, batch, thefts, outside>>
     \/ /\ W # {} /\ "value" \in BalanceReads
        /\ IncreaseWithdrawn(W)
        /\ Goto("insertWithdrawals")
        /\ UNCHANGED <<poolRows, valRows, psig, ssig, fees, depRows, wdRows, slotRows,
                       blockRows, daemon, batches, batch, thefts, outside>>
     \/ W # {} /\ "raise" \in BalanceReads /\ Raise

InsertWithdrawals ==
  /\ pc = "insertWithdrawals"
  /\ wdRows' = wdRows \cup NewWithdrawals
  /\ Goto("slots")
  /\ UNCHANGED <<poolRows, validators, depRows, slotRows, blockRows,
                 daemon, batches, batch, thefts, outside>>

(* insert_slots_batch: a row per slot of the batch; slot is the key.       *)
SlotBatchFetched == got                                             \* mutant
SlotBatch == first .. last

InsertSlots ==
  /\ pc = "slots"
  /\ \/ /\ slotRows \cap SlotBatch = {}
        /\ slotRows' = slotRows \cup SlotBatch
        /\ blockRows' = blockRows \cup got
        /\ Goto("fees")
        /\ UNCHANGED <<poolRows, validators, depRows, wdRows,
                       daemon, batches, batch, thefts, outside>>
     \/ slotRows \cap SlotBatch # {} /\ Raise

(* index_slots returns.                                                    *)
EndBatch == first' = 0 /\ last' = 0 /\ got' = {} /\ Goto("loop")

(* filter_slots_by_proposer: saved blocks AFTER min_slot whose proposer is *)
(* known, with its pool.                                                   *)
OurBlocksEver ==                                                    \* mutant
  {s \in blockRows : KnownIndex(chain.proposer[s])}
OurBlocksPastEnd == {s \in blockRows : s > last /\ KnownIndex(chain.proposer[s])} \* mutant
OurBlocks ==
  {s \in blockRows :
     /\ s > first
     /\ KnownIndex(chain.proposer[s])
     /\ chain.poolOf[chain.proposer[s]] < poolRows}

(* compute_recipient_fee: a stolen fee counts as none.                     *)
Fee(s) == IF s \in chain.theft THEN 0 ELSE 1

(* increase_fee_recipient_balances: as for the withdrawals.                *)
IncreaseFees(S) ==
  fees' = [s \in Slot |-> fees[s] + IF s \in S THEN Fee(s) ELSE 0]

(* process_fee_recipients, first half.                                     *)
ProcessFees ==
  /\ pc = "fees"
  /\ \/ /\ OurBlocks = {}
        /\ EndBatch
        /\ UNCHANGED <<tables, daemon, batches, thefts, outside>>
     \/ /\ OurBlocks # {} /\ "value" \in BalanceReads
        /\ IncreaseFees(OurBlocks)
        /\ Goto("detect")
        /\ UNCHANGED <<poolRows, valRows, psig, ssig, withdrawn, depRows, wdRows, slotRows,
                       blockRows, daemon, batches, batch, thefts, outside>>
     \/ OurBlocks # {} /\ "raise" \in BalanceReads /\ Raise

(* process_fee_recipients, second half: detect_theft.                      *)
DetectThefts ==
  /\ pc = "detect"
  /\ thefts' = thefts \cup (OurBlocks \cap chain.theft)
  /\ EndBatch
  /\ UNCHANGED <<tables, daemon, batches, outside>>

(* handle_regulate_operators swallows every failure and process_slots      *)
(* ignores its result.  all_thefts is gone when process_slots returns.     *)
ThievesKept == thefts                                               \* mutant
ThievesLeft == {}

Regulate ==
  /\ pc = "regulate"
  /\ thefts' = ThievesLeft
  /\ reported' \in {reported, reported \cup thefts}
  /\ Goto("report")
  /\ UNCHANGED <<tables, daemon, batches, batch, chain, crashes, resets>>

(* read_validators_by_pool, for every pool.                                *)
PooledRows == {pk \in valRows : chain.poolOf[pk] < poolRows}

(* process_report_beacon, as far as the tables are concerned: the prices   *)
(* need the stored balances of the validators of every pool.  They raise   *)
(* when a status of the beacon chain is no number, or a pool has no gETH.  *)
Report ==
  /\ pc = "report"
  /\ \/ /\ PooledRows = {} \/ "value" \in BalanceReads
        /\ Goto("verify")
        /\ UNCHANGED <<tables, daemon, batches, batch, thefts, outside>>
     \/ Raise

(* process_verifications either returns or raises (it raises, for one,     *)
(* when no validator is pending); it writes no table.                      *)
Verify ==
  /\ pc = "verify"
  /\ \/ Goto("idle") /\ UNCHANGED <<tables, daemon, batches, batch, thefts, outside>>
     \/ Raise
-----------------------------------------------------------------------------
(* SIGTERM, SIGKILL, power loss, or an exception from the network: all end *)
(* the process where it is.  Committed transactions stay.                  *)
Crash ==
  /\ pc # "stopped" /\ crashes < MaxCrashes
  /\ crashes' = crashes + 1
  /\ Stop
  /\ UNCHANGED <<tables, head, chain, reported, resets>>

(* The operator starts geoscope again; SlotDaemon reads the last slot.     *)
Restart ==
  /\ pc = "stopped"
  /\ recent' = MaxRow
  /\ Goto("idle")
  /\ UNCHANGED <<tables, head, batches, batch, thefts, outside>>

(* reinitialize_*_table: a table named in T is dropped and created again.  *)
ResetPools(T) == poolRows' = IF "Pools" \in T THEN 0 ELSE poolRows
ResetValidators(T) ==
  IF "Validators" \in T
  THEN /\ valRows' = {}
       /\ psig' = [pk \in Pk |-> None] /\ ssig' = [pk \in Pk |-> None]
       /\ withdrawn' = [w \in Withdrawal |-> 0] /\ fees' = [s \in Slot |-> 0]
  ELSE UNCHANGED validators
ResetDeposits(T) == depRows' = IF "Deposits" \in T THEN {} ELSE depRows
ResetWithdrawals(T) == wdRows' = IF "Withdrawals" \in T THEN {} ELSE wdRows
ResetSlots(T) ==
  /\ slotRows' = IF "Slots" \in T THEN {} ELSE slotRows
  /\ blockRows' = IF "Slots" \in T THEN {} ELSE blockRows

(* geoscope reset --database, while geoscope is not running.               *)
Reset ==
  /\ pc = "stopped" /\ resets < MaxResets
  /\ resets' = resets + 1
  /\ \E T \in ResetChoices :
       /\ ResetPools(T) /\ ResetValidators(T) /\ ResetDeposits(T)
       /\ ResetWithdrawals(T) /\ ResetSlots(T)
  /\ UNCHANGED <<pc, daemon, batches, batch, thefts, chain, reported, crashes>>
-----------------------------------------------------------------------------
Index ==
  \/ FetchSlots \/ UpdatePools \/ InsertValidators
  \/ ProcessDeposits \/ InsertDeposits
  \/ ProcessWithdrawals \/ InsertWithdrawals
  \/ InsertSlots \/ ProcessFees \/ DetectThefts

Step == NextBatch \/ LoopEnd \/ Index \/ Regulate \/ Report \/ Verify

Next == Trigger \/ Step \/ Crash \/ Restart \/ Reset

Spec == Init /\ [][Next]_vars

(* A running process goes on, the head of the chain advances, and a        *)
(* stopped process is started again.  Crashes and resets need not happen.  *)
FairSpec == Spec /\ WF_vars(Step) /\ WF_vars(Trigger) /\ WF_vars(Restart)
-----------------------------------------------------------------------------
(* The Slots table has no holes: it holds every slot from the first to the *)
(* last it has seen, which is what makes read_max_slot a safe cursor for   *)
(* process_slots after any crash, restart or reset.                        *)
SlotsContiguous == \E top \in Start .. MaxSlot : slotRows = Start + 1 .. top

(* A trigger that did not raise has indexed everything up to the slot it   *)
(* was fired for, however many batches that took: the batch count of       *)
(* process_slots is never too small, and the daemon's recent slot and the  *)
(* table agree whenever the daemon is waiting.                             *)
TriggerCoversAll == pc \in {"regulate", "report", "verify", "idle"} => MaxRow = recent

(* index_slots saves the slots last so that saved means processed: no      *)
(* deposit made in a saved block after the proposal of its validator is    *)
(* missing from Deposits.                                                  *)
SavedDepositsRecorded ==
  \A d \in Deposit :
    /\ DepSlot(d) \in blockRows /\ Known(DepPk(d))
    /\ chain.proposed[DepPk(d)] <= DepSlot(d)
    => d \in depRows

(* The same for withdrawals: one made in a saved block, after a deposit    *)
(* that its validator made after its proposal, is in the validator's       *)
(* withdrawn balance.                                                      *)
SavedWithdrawalsCredited ==
  \A w \in Withdrawal, d \in depRows :
    /\ WdSlot(w) \in blockRows /\ DepPk(d) = WdPk(w)
    /\ chain.proposed[DepPk(d)] <= DepSlot(d) /\ DepSlot(d) <= WdSlot(w)
    => withdrawn[w] > 0

(* Deposits and Validators are written by two transactions, in the order   *)
(* that never records a deposit which no validator row accounts for.       *)
DepositsProcessed == \A d \in depRows : psig[DepPk(d)] # None

(* A validator row's pool is always in Pools: filter_slots_by_proposer     *)
(* joins on it, a missing pool would hide the validator's blocks.          *)
NoOrphanValidators == \A pk \in valRows : chain.poolOf[pk] < poolRows

(* Fees are processed after the slots are saved, so a crash may lose them, *)
(* but a restart never counts a block's fee twice; only wiping Slots can.  *)
FeesOnce == \A s \in Slot : fees[s] <= 1 + resets

(* Balances and Withdrawals are written by two transactions: a crash       *)
(* between them adds a withdrawal once more when its batch is indexed      *)
(* again, and nothing else does, neither a read that raises later in the   *)
(* batch nor a reset of Slots.                                             *)
WithdrawnOnce == \A w \in Withdrawal : withdrawn[w] <= 1 + crashes

(* No block is given to the Portal twice as proof of theft, unless the     *)
(* tables were wiped.                                                      *)
ThievesReportedOnce == resets = 0 => thefts \cap reported = {}

(* The values update_beacon_constants saves "should be updated only once": *)
(* a signature, once there, is never replaced by a running geoscope.       *)
SignaturesWrittenOnce ==
  [][pc # "stopped" => \A pk \in valRows \cap valRows' :
       /\ psig[pk] # None => psig'[pk] = psig[pk]
       /\ ssig[pk] # None => ssig'[pk] = ssig[pk]]_vars

(* stake_signature is the signature of a second deposit, which is why      *)
(* verify_validator takes a validator that has one for an alien.           *)
StakeSignatureIsSecond == \A pk \in Pk : ssig[pk] # None => psig[pk] < ssig[pk]

(* ... and a validator that has a second deposit has a stake_signature.    *)
SecondDepositIsStake ==
  \A d, e \in depRows : d # e /\ DepPk(d) = DepPk(e) => ssig[DepPk(d)] # None

(* process_fee_recipients looks at the blocks after min_slot, and          *)
(* index_slots gives it the first slot of the batch: the theft of any      *)
(* other block of the batch, by a validator that is known when the batch   *)
(* ends, is found, and those of the batches before are kept.               *)
KnownThefts ==
  {s \in (first + 1 .. last) \cap got \cap chain.theft : KnownIndex(chain.proposer[s])}
TheftsFound ==
  [][(pc \in {"fees", "detect"} /\ pc' = "loop") =>
       KnownThefts \cup thefts \subseteq thefts']_vars

(* "min_slot (int): The slot number to start processing the block fees":   *)
(* the theft of any block of the batch that is just indexed is found.      *)
BatchThefts ==
  {s \in (first .. last) \cap got \cap chain.theft : KnownIndex(chain.proposer[s])}
EveryTheftFound ==
  [][(pc \in {"fees", "detect"} /\ pc' = "loop") => BatchThefts \subseteq thefts']_vars

(* A slot is eventually saved when the daemon can fire at it or later,     *)
(* although all the slots before it are saved.                             *)
Due == {s \in Slot : \E c \in chain.block : c % Period = 0 /\ s - 1 + Period <= c}
CatchesUp == \A s \in Slot : s \in Due ~> s \in slotRows

(* What a batch had written when it was interrupted, or what a reset of    *)
(* Slots alone left: validators of slots that are not saved, a deposit     *)
(* that is applied and not recorded, or that has been applied again.       *)
Torn ==
  /\ pc = "stopped" /\ crashes + resets > 0
  /\ \E pk \in valRows :
       \/ chain.proposed[pk] > MaxRow
       \/ ~ {psig[pk], ssig[pk]} \subseteq depRows \cup {None}
       \/ psig[pk] # None /\ psig[pk] = ssig[pk]

(* A withdrawal of a known validator is in the next batch, and the balance *)
(* it is added to may not be readable.                                     *)
Unread ==
  /\ pc = "stopped" /\ "raise" \in BalanceReads
  /\ \E w \in Withdrawal :
       KnownIndex(WdPk(w)) /\ MaxRow < WdSlot(w) /\ WdSlot(w) <= MaxRow + BatchSize

(* Only these two can keep geoscope from catching up: it recovers from a   *)
(* crash anywhere else in a batch, from a reset of everything and from a   *)
(* batch whose fees were not read.                                         *)
CatchesUpUnlessTorn == \A s \in Slot : s \in Due ~> s \in slotRows \/ Torn \/ Unread

(* The step that this is about: once a batch has a block, nothing but such *)
(* a withdrawal makes it raise before its slots are saved, and nothing but *)
(* a fee to be added to a balance that is not readable makes it raise      *)
(* then.  The replay of a batch, like its first pass, finds no primary key *)
(* of its own, no event twice, and no signature filled.                    *)
UnreadFee == pc = "fees" /\ OurBlocks # {} /\ "raise" \in BalanceReads
GoesThroughUnlessTorn ==
  [][(/\ pc \in Stages \ {"fetch"} /\ pc' = "stopped"
      /\ crashes' = crashes) => Torn' \/ Unread' \/ UnreadFee]_vars

(* ... and without a crash no deposit is ever applied again.               *)
StakeIsSecondUntilCrash == crashes = 0 => StakeSignatureIsSecond
=============================================================================
