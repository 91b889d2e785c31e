# geoscope: TLA+ specifications

geoscope is the off-chain oracle of the geodefi Portal: every member of the
oracle runs a process that follows the beacon chain slot by slot, keeps what it
saw in a SQLite database, and regulates operators, reports prices and balances,
and approves validator proposals: with the other members, through a multisig (a
Safe) and the *watchers* that collect its signatures, or alone, from an account
that is the oracle itself. This directory holds the specifications of that
process, the models TLC checks, and the theorems TLAPS proves about them. Paths
below are relative to `src/src/`.

## 1. The system

| component | state | operations | interacts with | hard because |
|---|---|---|---|---|
| Daemons (`classes/daemon.py`, `setup/daemons.py`, `daemons/`) | worker and monitor thread of each daemon, `shutdown_event`, `stop_flag` | `run`, `__loop`, `__graceful_delay`, `__check_shutdown`, signal handlers | fire the triggers | threads, shutdown at any moment, exceptions of one daemon that must stop the other |
| Pools of threads (`utils/thread.py`) | a pool per call of `multithread`, pools nested in pools | run, wait a minute for each result, interrupt | called by most helpers | `KeyboardInterrupt` in a pool thread is not an `Exception`: the thread dies without a result |
| Slot daemon (`daemons/slot_daemon.py`) | `__recent_slot` | `listen_slots` | fires `BeaconTrigger` | slots may be missed, the start slot comes from the database |
| Indexing (`triggers/slot/beacon_trigger.py`, `helpers/`, `database/`) | tables Pools, Validators, Deposits, Withdrawals, Slots; the batch in memory | `process_slots`, `index_slots` and its transactions | reads the beacon chain and the Portal | each database function commits on its own: a crash falls between any two; batches are replayed |
| Fee thefts (`helpers/fee_recipient.py`) | fee balances, the list of thefts of the trigger | `process_fee_recipients`, `detect_theft` | Slots, Validators, the oracle actions | runs after the slots are committed; a balance that cannot be read loses the fees and thefts of a batch |
| Oracle actions of a multisig (`actions/`, `helpers/gnosis.py`) | nothing: the nonce is the Safe's | `handle_regulate_operators`, `handle_report_beacon`, `handle_update_verification_index`, `post_submit_batch` | watchers, Safe, Portal | members sign for one nonce; a post may time out after it was received; what cannot be encoded is never signed |
| Oracle actions of an account (`actions/portal.py`, `utils/gas.py`) | nothing: the nonce is the account's | `transact_*`, the wait for the receipt, the look at the gas price | node, Portal | a call that raised may have been sent, a transaction whose wait was given up may still be mined |
| Verification (`helpers/validators.py`) | reads Validators and the Portal | `should_verify_validators`, `verify_validators_batch` | oracle actions | members look at different blocks and batches |
| Merkle report (`helpers/merkle.py`, `database/merkles.py`) | table Merkles | `gather_merkle_data`, two inserts | oracle actions | two transactions, `root_hash` is the key; whatever raises in it ends the trigger |
| Backups (`triggers/time/database_trigger.py`, `classes/database.py`) | the files in the backup directory | `backup`, `cleanup`, `locate_backup`, `restore` | copies the tables while they are written; the daemon and the commands share a directory | page by page, lists of files that are old when they are worked off, names made of the local time |
| CLI (`commands/`) | | `run`, `reset`, `restore`, `backup`, `config` | the tables while the process is down, the backups at any time | resets single tables, puts back what a batch was halfway through |
| Setup, configuration, SQL generators, BLS, e-mail | | | | sequential or pure |

`PROJECT.json` lists every component with its status, and under `hazards` the
places that are hard to test, with the properties that watch them. Five of them
have no property, and a note that says why: the cached oracle address
(`helpers/portal.py:173`), the negative sleep at the end of a delay
(`classes/daemon.py:282`), daemons that fail to start (`setup/daemons.py:89`),
reports that are due (`helpers/merkle.py:243`), and the price of gas
(`utils/gas.py:144`).

What makes the parts correct:

* **Indexing**: the Slots table is a cursor (`read_max_slot`), so it must be an
  append-only log without holes, saved after everything else of its batch, and so
  must be every copy of it; a trigger indexes up to the slot it fired for; what is
  in Deposits and Withdrawals has been applied to Validators, and what was applied
  is not applied again, except for what a crash leaves between two tables; no fee is
  counted twice; no theft is overlooked (but one in the first slot of a batch);
  everything is indexed in the end, unless an interrupted batch or a withdrawal whose
  balance cannot be read stands in the way.
* **Oracle**: whatever members sign, and however late, the verification index does
  not go back, and passes only what a quorum verified and nothing faulty; the trees of
  Merkles are those of reports that were made (by an account).
* **Backups**: a finished one is a database of one commit; a cleanup never costs
  the newest files; there is one to restore.
* **Daemons**: a shutdown, or an unhandled exception that can be mailed, ends every
  thread; nothing else ends the slot daemon.

### How far the code as it is gets

Some conversions of the code fail whenever they are reached. The models take them for
what they do, so that the properties below are about the program as it is:

* **Stored balances.** The default of `withdrawn_balance` and `fee_recipient_balance` is the text
  `{BigInteger.TYPE_PREFIX}0` (the string at `globals/schemas/database.py:291` is not
  an f-string), and `increase_*_balances` write numbers without the prefix
  (`database/validators.py:570`, `:634`). `BigInteger.convert` rejects both. So the first
  withdrawal of a validator whose index is known raises before the slots of its batch
  are saved, at every attempt: indexing stays there (`Unread`). A fee raises after
  the slots were saved: the fees and thefts of that batch are lost, and the next one goes on
  (`UnreadFee`). `gather_merkle_data` raises as soon as Validators has a row, which ends
  the trigger before `process_verifications`: what is said of verification is about
  triggers that get there.
* **The calls to the Portal.** The proofs of thefts are block numbers and the aliens are
  portal indices (`int`), both for a parameter of `bytes[]`; the roots of a report are
  hex strings for `bytes32`. With a Safe, `get_encoded_data` (`helpers/gnosis.py:126`)
  refuses all three, before anything is signed; with an account, web3 refuses proofs and
  aliens, and `bytes.fromhex` (`actions/portal.py:239`) a root that begins with
  `0x`. `handle_*` swallows it. So `regulateOperators` is never made; a Safe never
  gets a report; and `updateVerificationIndex` is made for batches without a
  faulty proposal only: a faulty proposal keeps the index below it for good.
* **The price of gas.** With a gas API configured, every price but zero raises.

## 2. The modules

```
SlotLog  <--implements--  IndexerBackups  <-- MCIndexerBackups (TLC)
                             | extends
                          Indexer         <-- MCIndexer (TLC)
Approval <--implements--  Oracle          <-- MCOracle (TLC)
   ^                         ^ extends
   '------implements------  Owner           <-- MCOwner (TLC)
Backups  <-- MCBackups (TLC)
Daemons  <-- MCDaemons (TLC)

TLAPS:
FiniteNumbers <-- IndexerProofs <-- IndexerBackupsProofs <-- IndexerEventsProofs
FiniteNumbers <-- OracleProofs  <-- OwnerProofs
BackupsProofs, DaemonsProofs
```

**`SlotLog`** is what the Slots table promises: it only grows at its end, by a
batch that has at least one block; it is wiped; it is copied, and a copy is put
back.

**`Indexer`** is one process of geoscope with its tables. The history of the beacon
chain and of the Portal (`chain`: which slots have a block, when pools,
proposals, deposits and withdrawals appear, who proposes and who steals) is
chosen once in `Init`, since the code only ever reads finalized data. Each row of
the tables is represented by its key and by what the pipeline decides on: a
validator by the deposits its two signatures come from and by how often each
withdrawal and each fee has been added to its balances. One action is one
database transaction:

| action | code |
|---|---|
| `Trigger` | `SlotDaemon.listen_slots`, the batch count of `process_slots` |
| `NextBatch`, `LoopEnd` | the batch loop of `process_slots` |
| `FetchSlots` | `fetch_slots_batch`; a failure is recorded as a missed slot (`Lossy`), `min()` of nothing raises |
| `UpdatePools`, `InsertValidators` | `update_portal_pools`, `update_portal_validators` with the requests of `helpers/events.py` |
| `ProcessDeposits`, `InsertDeposits` | `filter_deposits_batch` with `process_deposits_batch`/`update_beacon_constants`, and `insert_deposits_batch` |
| `ProcessWithdrawals`, `InsertWithdrawals` | the same for withdrawals |
| `InsertSlots` | `insert_slots_batch` |
| `ProcessFees`, `DetectThefts` | `process_fee_recipients`, `detect_theft` |
| `Regulate`, `Report`, `Verify` | what the rest of `process_slots` does to the tables and to the process: give the thefts away, raise, or return. `reported` is a superset: a theft is given to `handle_regulate_operators` once, whatever becomes of the call |
| `Crash`, `Restart`, `Reset` | the end of the process anywhere, `geoscope run`, `geoscope reset --database` |

`Raise` is an exception that reaches `Daemon.__loop`: the process ends with what it
has committed. `BalanceReads` says what reading a stored balance may do: `"raise"`
is the database as shipped, `"value"` one that stores proper balances. With both, each
look may end either way, which covers a database of which some rows can be read;
the passing runs take both, and the run `thefts` takes `"raise"` alone.

`EventRange` is the `max_block_range` of `helpers/events.py`. `gather_all_events` cuts
the blocks of a batch into requests, and each of them (`fetch_event_logs`) ends with
the block the next one starts with, so an event in a block where two requests meet
comes twice (`FetchedTwice`). With a range shorter than the batch, a proposal in
such a block is inserted twice by one statement, which fails on the primary key:
geoscope stops, and stops again at every start. The defaults (3000 blocks, batches of
1000 slots) never get there; the run `indexer_live` has the smallest range that does
not.

`Torn` is what a batch may stumble on when it is replayed: validators, or a deposit's
signature, that were written before the process ended and are beyond the cursor. `Unread` is
a withdrawal of a known validator in the next batch, when a balance may be
unreadable. The runs `restore` and `replay` show that the code leaves the former
behind; the run `indexer_live` shows that nothing else stops the indexing.

**`IndexerBackups`** adds the copies: `Backup` takes one between any two
transactions, `Restore` puts one back while the process is stopped. It implements
`SlotLog` with its copies (`ImplementsSavedLog`), and everything `Indexer`
promises is asked of it again, since a restored copy may be of a batch that was
halfway through.

**`Backups`** is how such a copy is made: the files of the backup directory, and
the processes that work on them, the database daemon and runs of `geoscope backup`
and `geoscope reset --backups`. A backup gets the local time for a name (`Begin`),
creates the file (`Open`), copies page by page (`CopyPage`), is started anew by a
commit of the slot daemon (`Commit`: SQLite does that), and is complete with
`Finish`. A cleanup lists the files (`List`) and deletes from that list one after
the other (`Remove`), while other processes list, delete and write; a file that
was deleted by somebody else is an error (`RemoveFails`). `Crash` leaves an incomplete
file, which counts like any other; `SetBack` is the end of summer time. `Restore` takes the
newest name.

**`Oracle`** is the second half of `process_slots` for all members at once, the
watchers, the Safe and the verification index of the Portal. `blocks` is the window between the
block the members may look at (`Lag` triggers old) and the newest. A member's trigger is
`Fire` (indexing, in one step); `Report`, which stands for `handle_regulate_operators`
and `process_report_beacon`: neither signs anything, and the second may raise, which
ends the trigger; and `Verify`, which checks what is pending (`Checks`) and, unless
there is no watcher or a faulty proposal (`Unsigned`), prepares a transaction at the
Safe's nonce (`Sign`) and `Post`s it to one watcher after the other. Signatures count for
the current nonce only, so executing a transaction (`Execute`) empties them and makes
every transaction being posted stale. A member without watchers is told that it
succeeded (`actions/watchers.py:50`), and has sent nothing; the trees of a report it would
save all the same are not modelled, Merkles being part of `Owner` only.
Watchers, Safe and Portal are outside of `src/` and are modelled as far as the code uses them.

**`Approval`** is what all that is for: the verification index only moves on, for
a quorum each of whose members has itself checked every proposal it passes, and none
of these is faulty. Both modes implement it
(`ImplementsApproval`): `Oracle` with the threshold of the Safe, `Owner`, which extends
`Oracle`, with a quorum of the one account.

**`Owner`** is the same trigger for an oracle that is one account. The
transactions of an account are mined in the order of their nonces, so those sent
and not mined yet are a queue (`mempool`). `OwnerReport` is a report that is not due or
whose root is refused, one that raises before anything is sent, or one that is sent:
`Transact` looks at the gas price and
sends, or raises, or raises although the node has taken the transaction. `OwnerVerify` sends
nothing for a batch with a faulty proposal. `Mine`
is a block that includes the first of the queue, reverted or not; `Receipt` is the
end of the wait, which reads the `status`; `WaitFails` is a wait that is given up,
whose transaction stays in the queue. `SavePrices`, `SaveBalances` and `SavedAlready`
are the inserts after a report that succeeded; the last one is a root that is there already,
which raises. `Gas` is what a look at the price may
come to, at every look and as often as it likes: with a gas API configured, a price that is
not too high raises as well,
because `to_wei` returns an `int` and `__float_to_hexstring` (`utils/gas.py:34`)
takes a `float` only; a price of zero is the one that gets through.

**`Daemons`** has the main thread that starts the daemons, each daemon's worker
and monitor, and inside a trigger the pools it waits for, of which a thread may
wait for a pool of its own (`nested`). `Fail` is the handler of unhandled exceptions,
`AfterWarning` that of failed calls and high gas. Both mail an alert first. `send_email`
turns what happens while it sends into an `EmailError`, which is logged; but it looks up the sender
and the receivers before its `try`, they have no default, and their check at the start
is commented out (`setup/main.py:145`): without them a `KeyError` ends the
worker alone, and nobody is told to shut down. `mailing` says whether the configuration has them.
The handler of `EventFetchingError` is not there: nothing in the code raises it.

The modules whose names end in `Proofs`, and `FiniteNumbers` (finite sets of
numbers have a greatest element), hold theorems only.
Operators marked `mutant` are faulty variants of the operator below them;
no specification uses them.

## 3. The runs

| run | shows |
|---|---|
| `indexer` | `MCIndexerBackups`: with one crash between any two transactions, one backup taken between any two, one reset of Slots or of everything or one restore, and balances readable or not: eleven properties of the tables and of the thefts, and that the Slots table and its copies implement `SlotLog` |
| `indexer_live` | with one crash between any two transactions, one reset, a slot whose fetch may fail and balances that may or may not be readable: every due slot is indexed in the end, unless an interrupted batch, or a reset of Slots alone, left rows that the replay stumbles on, or a withdrawal that may not be added is next (`CatchesUpUnlessTorn`), since no step of a batch that has a block raises for another reason (`GoesThroughUnlessTorn`); a withdrawal is added to its balance at most once more than there were crashes, whatever raises and whatever is read again (`WithdrawnOnce`); until a crash a stake signature is always a second deposit's (`StakeIsSecondUntilCrash`) |
| `oracle` | three members with a quorum of two that finish their triggers in any order and at any time, the last proposal being faulty: `ApprovedWereVerified`, `NoFaultyApproved`, `IndexNeverBack`, and all of it at once as `ImplementsApproval` |
| `oracle_faults` | the same of two members who have to agree, with two watchers, a verification delay, a visible block that is a trigger old, and one crash, exception, lost post or late answer anywhere |
| `owner` | one account, one failure or crash anywhere and two waits that are too long: the index never goes back although a transaction may be mined after its successors were sent (`NeverBack`), a saved tree was reported (`SavedWereReported`); the account implements `Approval` (`ImplementsApproval`) |
| `daemons` | signals, failures and pool interrupts at any moment, with a configuration to mail from or without: a shutdown ends every thread (`ShutdownEnds`); with one, the slot daemon never ends alone (`NoLoneDeath`) and a failure ends all (`FailureStopsAll`) |
| `backups` | the daemon beside commands, commits during a copy, interrupted copies, names that collide, a clock set back: `FinishedIsCurrent`, `NewestStay`, `Recoverable` |

Five runs are expected to be violated. Each states what the repository says of
the program, and shows what the code does:

| run | what the code does |
|---|---|
| `restore` | a crash after the batch's Validators insert and before its Slots insert makes every replay fail on the primary key: indexing never gets past the batch |
| `one_batch` | two deposits of a validator in one batch both fill `proposal_signature`; `stake_signature` stays NULL and the second deposit goes unnoticed |
| `replay` | a crash between the update of a validator and the insert of its deposit: the replay takes the only deposit for a second one, the validator becomes an alien |
| `missed` | a fetch failure hides a proposal's deposit, and the index passes the proposal unverified |
| `thefts` | no crash and no failure: the theft is in the first slot of its batch, which `filter_slots_by_proposer` leaves out |

The counterexample of `restore` needs no more than one crash.

Other things the models take as the code has them, and the properties leave room for:

* The first slot of every batch is never checked for theft: `filter_slots_by_proposer`
  asks for `slot > min_slot` (`database/slots.py:61`), and `index_slots` gives it the
  first slot of the batch (`triggers/slot/beacon_trigger.py:163`). `TheftsFound`
  is about the other slots, `EveryTheftFound` (run `thefts`) about all.
* Balances and Withdrawals are written by two transactions, so a crash between them
  adds a withdrawal again: `WithdrawnOnce` allows one more for each crash, and no more. Putting
  back a backup that was made between the two does the same without a crash, and so does
  a reset of Withdrawals alone; both are outside of the property, the first because its run
  has no backups, the second by the hypothesis of its theorem.
* A report with a root of an earlier one raises on the primary key of Merkles
  (`database/merkles.py:91`), maybe between its two trees (`SavedAlready`): the
  other tree is missing then.
* A report that is mined after the wait for it was given up is in the Portal, and
  its trees are never saved: the next trigger finds it is not old.
* No progress of the verification index is promised: what is submitted depends on balances,
  statuses, supplies, gas prices and watchers, each of which may fail at every trigger.
* A batch that crashed after Validators and Deposits were written has its deposits
  filtered by slot at the replay. If at the first attempt a slot was taken for a
  missed one (`Lossy`) and at the replay not, the tables filled together no longer
  agree; the properties on saved deposits and withdrawals are for `Lossy = {}`.
* `MinKeep` interrupted backups count like whole ones and may displace all of
  those; `Recoverable` says so.

### Bounds, and why they are enough

* Indexer: four slots, batches of three, a period of two, requests for events of
  two blocks (what a batch of three spans). A trigger then takes
  one or two batches, full and cut; a slot may be missed at any place, be it the
  first or the last of a batch. Two validators and three deposits give second
  deposits in the same and in a later batch, before and after the proposal; one
  withdrawal and up to two blocks of ours, stolen or honest. One crash, one backup and
  one reset or restore: each property is about what one interruption leaves for the
  other side of it, and the theorems below drop these bounds.
* Oracle: three members with a threshold of two is the smallest instance in which
  two quorums differ; three proposals give batches in which members differ and an index
  that moves twice before it meets the faulty one, which comes last. `MaxPending = 1` and `Delayed` make
  `should_verify_validators` take all of its branches. `oracle_faults` has two
  watchers, so that a transaction reaches one and not the other, and `Lag = 1`, as with
  the default `finalized` identifier.
* Owner: one account (that is what the mode is), three proposals, two
  different reports that share a tree. Two transactions whose waits are given
  up, with another one sent behind them, are what the queue is about; one
  failure is a revert, an exception with or without the transaction sent, or a crash.
  `Gas` has a price that gets through, one that is too high and a failing API.
* Daemons: the program has two.
* Backups: three names, two pages, two files kept, one commit, one clock set back,
  two interrupted copies (as many as are kept), one restore, and a command beside
  the daemon that comes again and again, with `--keep` or without, or as a reset.

Every property has a mutant in `PROJECT.json`: a plausible fault of the code
under which TLC finds the property violated.

### Fairness

* Indexer: a running process goes on; the chain advances (`WF(Trigger)`); a stopped
  process is started again. geoscope does not restart itself; its README (l. 64)
  says "it is crucial to check if it is still alive every now and then".
  Crashes, resets and failures are never assumed.
* Daemons: threads that can run do. Nothing is assumed of the timers: the shutdown
  does not rely on a delay or an interval coming to its end.
* Nothing is assumed of the oracle: no property of `Oracle` and `Owner` needs it.

## 4. The proofs

All for every value of the constants that satisfies the named assumptions: any
length of the chain, any batch size and period, any number of members, daemons,
commands and files, and any bound on crashes, resets, backups and failures.

* `IndexerProofs`. First `TypeCorrect` and `LogHasNoHole` (SlotsContiguous), from
  `TypeOK /\ SlotsContiguous /\ BatchFollowsLog /\ BatchHasBlock /\ RowsBehindHead`.
  SlotsContiguous alone is not inductive: that `InsertSlots` appends to the log
  needs to know that the batch in memory starts right after the log, has a block
  and ends at the head, over all the stages in between; that the number of batches of a
  trigger is never negative needs that nothing is saved beyond the slots triggers
  were fired for (`RowsBehindHead`). Then one invariant per table on top of that
  one: fees, thefts, signatures, withdrawals, deposits, pools. `WithdrawalsAddedOnce` (WithdrawnOnce) adds that
  a withdrawal which is neither recorded nor about to be was added once for each crash at most
  (`WithdrawnInv`). The lemma `Writers`
  says which actions write which variables, so a proof has a case only for those.
* `IndexerBackupsProofs` proves the same theorems of `BackupSpec`, with `CopiesInv`: what
  is always true of the tables is true of every copy, and therefore of the tables
  after a restore. `SlotsAreALog` is the refinement of `SlotLog`.
* `IndexerEventsProofs`, first of `BackupSpec` as well: `TriggersCoverAll`, from an invariant that
  a trigger has enough batches left for the slots up to its head (`CoversInv`,
  with the arithmetic of the rounded division); `SavedMeansDepositsRecorded`
  and `SavedMeansWithdrawalsCredited`, which follow an event through the stages of its batch;
  and `TheftsAreFound`.
  Then, of `Spec`, `StakeSignaturesAreSecond` (StakeIsSecondUntilCrash). That every stake
  signature is later than the proposal's (`psig < ssig`) is not inductive: a deposit let through
  later must be numbered higher, so the invariant adds that every deposit up to the
  one in `proposal_signature` is *behind*: in a recorded slot, in a saved one, or in
  the batch in progress (`OrderInv`, `Behind`). A raised batch, a restart and a reset
  must all leave it there. `StakeSignaturesOutliveReset` treats the one reset that does not,
  Slots alone, with the invariant of `SavedMeansDepositsRecorded`: the deposits of the
  slots read again are recorded already.
* `BatchesGoThrough`, in the same module, is the safety part of `CatchesUpUnlessTorn`: once a batch
  has a block, only torn rows, or a balance that cannot be read, make it raise. Until
  the first crash or reset, what is beyond the cursor was written by the batch in
  progress, or by one that raised on a withdrawal, which is then still ahead
  (`RowsClean`, `WithdrawalAhead`), and every signature is that
  of a deposit recorded or about to be, no two the same (`DepositsClean`); each of the ways to
  raise contradicts this, or shows a row that is torn or the withdrawal. `NoRequestsMeet` is the
  counting argument on requests for events: if one spans a whole batch, the
  requests of a batch meet in none of its blocks, and no event comes twice.
  `BatchesGoThroughAfterRestore` is the same of `BackupSpec`: of a copy it needs no more than that
  its signatures are in order, since putting it back counts as a reset.
* `BackupsProofs`: `RecoverableAlways`, `NewestStayAlways`, `FinishedIsCurrentAlways`. A process
  deletes from a list that may be old. The argument is that each list has `MinKeep`
  keepers, files newer than all it names (`KeepersStay`): when another process
  deletes one of them, the keepers of that process are newer still and take over.
* `OracleProofs`: `OracleTyped`; `NeverGoesBack` by quorum intersection: whoever
  may still sign for the current nonce knows the proposals its transaction passes
  (`Verifying`), a quorum knows the proposal approved last (`QuorumInv`), and two
  quorums share a member (`QuorumsMeet`), whose transaction is therefore not behind.
  `ApprovalIsEarned` and `NoFaultPasses` add that a member knows all the deposits of the
  block it looks at (`ViewInv`), and that this block is not ahead of the Portal (`BlocksInv`),
  so what it signs has been verified from the Portal's index on and found good
  (`CheckedInv`): that a batch with a fault is not signed would not be enough, since
  members sign for batches that begin at different indices.
  `SafeApproves` is the refinement of `Approval`: a step of a member, of the Safe or a crash
  is a `Check`, an `Approve`, or a stutter. The quorum to name is that of the owners who
  signed.
* `OwnerProofs`: `OwnerNeverGoesBack`, since what is queued for the index is in order and
  known to the member that sends more (`QueueInv`); `SavedTreesWereReported`, since the
  process waits for the last transaction of its queue, and the status it reads is
  that one's (`WaitInv`).
  `AccountApproves` is the same refinement as `SafeApproves` for a queue: a transaction may be
  mined long after it was sent, so the invariant speaks of the whole queue: of each
  transaction in it, the account has checked all that the index would pass, from where it is
  now, and has found it good (`QueuedInv`).
* `DaemonsProofs`: `ThreadsTyped` and `NeverAlone` (NoLoneDeath), which is of a configuration
  to mail from (`mailing`). The invariant adds
  that only a shutdown sets a stop flag and that a
  worker in a pool has a pool left to count, which is what keeps the count
  natural; `Moves` is what all steps of a worker have in common.

Some theorems have hypotheses on the constants, without which the property
fails; TLC shows it on a history, or with a value of the constant, that violates the hypothesis:

| theorem | hypothesis |
|---|---|
| `DepositsAreProcessed` | a reset of Validators also resets Deposits; `geoscope reset` lets the operator choose otherwise |
| `PoolsBeforeValidators` | a reset of Pools also resets Validators |
| `WithdrawalsAddedOnce` | a reset of Withdrawals also resets Validators (`ResetsBalancesToo`) |
| `DepositsAreProcessedWithBackups`, `PoolsBeforeValidatorsWithBackups`, `TheftsAreFound` | both, since one invariant of the copies serves all three |
| `SavedMeansDepositsRecorded`, `SavedMeansWithdrawalsCredited` | no fetch fails (`Lossy = {}`), and the tables filled together are reset together |
| `StakeSignaturesAreSecond` | Validators is reset whenever Slots or Deposits is (`ResetsReadAgain`), and no fetch fails or stored balances can be read (`ReadsKeepDeposits`): a batch that raises over a balance after it missed a deposit's block would apply that deposit later, out of order |
| `StakeSignaturesOutliveReset` | no fetch fails; the tables filled together are reset together, and Deposits never without Validators (`ResetsTogether`, `ResetsRecords`); a deposit comes after its validator's proposal (`DepositsFollow`) |
| `BatchesGoThrough`, `BatchesGoThroughAfterRestore` | a request for events spans a batch (`RangeSpansBatch`: 3000 blocks and 1000 slots by default), validators make two deposits at most, valid ones (`OrdinaryDeposits`: `update_beacon_constants` raises for a third) |
| `ApprovalIsEarned`, `NoFaultPasses`, `SafeApproves`, `AccountApproves` | no deposit is missed (`Missable = {}`); the run `missed` is the case without |

Only model-checked: all liveness, which the prover does not treat (`CatchesUpUnlessTorn`,
`ShutdownEnds`, `FailureStopsAll`); of the first the safety part is proved
(`BatchesGoThrough`), of the others that no daemon ends alone (`NeverAlone`). Every
invariant the runs check is stated by a theorem. One is proved for less than what its run checks:
`StakeIsSecondUntilCrash` in the run `indexer_live`, which resets Slots alone, has a slot
whose fetch may fail and balances that may not be readable. Neither theorem takes these together, since the property fails then. A reset of
Slots alone reads slots of known validators again, and a deposit that was passed over
the first time is applied after a later one: one made before the proposal of its
validator, or one whose slot was lost, if at the second reading the slot of the
proposal is lost instead. TLC finds both in histories the run does not have (its first deposits
are in the slot of the proposal, and the one slot it may lose is too late for
a withdrawal to raise between the two readings).
ENABLED and induction over data are out of the prover's reach too; nothing here needs them.

## 5. What is not modelled

* Merkle hashing, price arithmetic, BLS: `Bad` and `Data` stand for their results. Of the
  encoding of calls, what it refuses.
* What the Portal would make of proofs of theft and of aliens, since it is never given any.
* `setup/`, prompts, configuration, logging, the sending of e-mail, SQL text, the conversion of
  `BigInteger`: sequential or stateless. (`__verify_watcher` in `setup/` is not called,
  and its test of the signer is the wrong way round.)
* SIGTERM before the handlers are registered, which ends the process at once.
* A change of the Portal's owner, which `fetch_oracle_address` would
  not see since it caches by block identifier, `latest` included.
* When a report is due (the 24 hours of `helpers/merkle.py`): one may be made at any trigger.
* The arithmetic of the gas price: since no price but zero gets through the
  conversion, what it computes has no effect.

## 6. What could be added

1. That both daemons run or none does: with the slot daemon running and the database
   daemon failing, `run` logs "Exiting..." and the worker goes on; a delay whose
   sleep is negative ends the backups silently. `Daemons` has both steps
   (`StartFails`, `EndDelay`); no text of the repository promises otherwise.
2. Several owners of the Portal in succession, with the cached address.
3. The price and balance arithmetic of the report as pure functions, checked
   against a reference over bounded inputs.
