# Verification of the Koinos bridge validator

TLA+ modules, TLC runs and TLAPS proofs about the validator of the Koinos
bridge. A validator watches Ethereum and Koinos; when tokens are locked on one
chain it signs the transfer, exchanges signatures with the other validators and
serves the list to relayers, who complete the transfer on the other chain.
There is one module per component, composed where components interact.

## 1. Inventory

| Component | Code | State | Operations |
|---|---|---|---|
| Event handlers | `internal/streamer/*_streamer.go` | the transaction records | lock, request for new signatures, completion; one set per chain |
| Block streamers | `StreamEthereumBlocks`, `StreamKoinosBlocks` | `fromBlock`, `last...BlockParsed` | poll, fetch a range, dispatch its events, save on stop |
| SubmitSignature API | `internal/api/api.go` | the transaction records | refuse, merge, adopt, answer with the own signature |
| Query API | `internal/api/api.go` | none | read a record, Koinos operation 1 or else 3 |
| Broadcast | `util.BroadcastTransaction` | the answers of one call | post the record to each peer in turn |
| Stores | `internal/store/*.go` | key-value backends, two mutexes each | `Get`, `Put`, `Lock`, `Reset` |
| Metadata, start and stop | `main.go`, `metadata_store.go` | last parsed block per chain | start, reset, signal, shutdown |
| Quorums | inline in handlers and API | none | three thresholds over `len(validators)` |
| Hash and signatures | `util.go`, handlers | none | hash a transfer, sign, recover |
| JSON-RPC client, configuration, generated code | `internal/rpc`, `util.go`, `proto` | none | |

How they interact. The two streamers and the HTTP server are goroutines of one
process that share two transaction stores (one per source chain) and the
metadata store. Each store embeds a mutex that the handlers and the API hold
over a whole read-modify-write. A source-chain handler has **two** critical
sections: it stores its own signature, releases the mutex, posts the record to
each peer (a peer's handler runs meanwhile, and so does this process's API),
takes the mutex again, re-reads the record and merges the answers. The
destination-chain streamer marks the same record completed at any moment. The
stores are on disk; the positions of the streamers are written only when the
process stops on a signal.

What is hard, and what makes each part correct:

- *exchange of signatures*: interleavings of handlers, API calls and peers; late
  and repeated submissions; validators that re-sign at different times; crashes
  between the halves. A record must list only signatures over its own hash, keep
  those it has, be reported signed only with a quorum, stay completed, and get
  everybody's signature in the end.
- *streamers*: off-by-one at the trailing edge and between batches, stop before
  the first batch. Every event handled, in order, never one lost.
- *metadata and lifecycle*: two writers at shutdown, crash before the save. The
  saved position is never ahead of what was handled.
- *broadcast*: timeouts, calls repeated for a peer. One answer per peer.
- *stores*: a missing key must read as absent on every backend; nested locks.
- *quorums, hash*: integer division, 64-bit casts.

`PROJECT.json` lists every hazard at its line with the properties that cover it.

## 2. Plan

Modules in order, the most important first. All but the last are written.

1. `SignatureQuorums`: the thresholds.
2. `SignatureExchange`, `MCSignatureExchange`: handlers, API, broadcast, crashes,
   restarts and completion for one transfer at all validators. The proofs are in
   four modules, each on top of the invariant of the first one:
   `SignatureExchangeProofs`, `SignedIsBackedProofs` (quorums and thresholds),
   `SignedHashesProofs` (where signatures and hashes come from) and
   `SettledRecordsProofs` (what one round of calls achieves).
3. `BlockStreaming`, the abstract promise of a streamer, over `ChainEvents`, and
   `StreamEthereumBlocks`, `StreamKoinosBlocks` with the cursor arithmetic,
   shown to implement it by TLC and by TLAPS.
4. `ValidatorLifecycle`: reset, start, signal, the two streamers' writes of the
   one metadata record, shutdown of the HTTP server.
5. `TransferLedger`: the abstract exchange, implemented by `SignatureExchange`
   (proved at the end of `SignatureExchangeProofs`).
6. `CompleteTransferHash`, `BroadcastTransaction` and `LockedTransfers`, which
   composes them, `LockedTransfersProofs`: what is hashed, the loop over the
   peers, and several transfers at one validator.
7. `TransactionsStore`: the two lock levels and the backends' answers for a
   missing key. Open; the other modules take a critical section of the outer
   mutex, which every handler and the API hold, as one step.

## 3. The exchange of signatures

`SignatureExchange` follows one transfer through all validators. Its constants
are the validators, the source chain, the source chain's events about the
transfer (a lock, then requests for new signatures, each with a block time), the
expiration option, whether calls may fail, whether a start may be told to reset
the stores, and a bound on restarts.

| Variable | In the code |
|---|---|
| `store[n]` | the record under the transfer's key in n's store of the source chain |
| `position[n]` | how many of the source events n's streamer has handled |
| `checkpoint[n]` | how many lie before the block n would start from (metadata store) |
| `broadcast[n]` | the call of `BroadcastTransaction` in progress, with its answers |
| `requests` | every body posted to `SubmitSignature` so far |
| `transferCompleted`, `completionRead[n]` | the destination chain's completion event, and whether n's other streamer read it |
| `restarts` | a counter for the bound |

Each action is a critical section of the store's mutex, or one network event:

| Action | Code |
|---|---|
| `ProcessEthereumTokensLockedEvent`, `ProcessKoinosTokensLockedEvent` | up to the unlock and the start of the broadcast |
| `ProcessEthereumRequestNewSignaturesEvent`, `ProcessRequestNewSignaturesEvent`, `IgnoreRequest` | the same for a request, and its two early exits |
| `MergeEthereumLock`, `MergeKoinosLock`, `MergeEthereumRequest`, `MergeKoinosRequest` | from the second lock to the end of the handler |
| `SubmitEthereumSignature`, `SubmitKoinosSignature` | a whole API call: `SubmitRefused`, `SubmitToCompleted`, `SubmitMerged` or `SubmitAdopted` |
| `PeerFails` | a failed or timed out call |
| `CompleteTransfer` | the destination contract (external): accepts a quorum over one hash |
| `ProcessKoinosTransferCompletedEvent`, `ProcessEthereumTransferCompletedEvent` | the completion handlers |
| `Crash`, `GracefulRestart`, `PanicOnHashMismatch` | the process dies or stops, and is started again |

Abstractions, and why they are sound for what is checked:

- The transfer's fields other than the expiration never change after the lock,
  so its hash is written as its expiration and a signature as the hash it signs;
  hashes are taken as injective and signatures as unforgeable.
- The lists `Validators` and `Signatures` are a map from validators to
  signatures plus `surplus`, the number of entries beyond one per address. Only
  a replayed lock event appends a second entry, with the same signature
  (`LockedInv` of the proofs); every merge goes through a Go map and removes it.
- Peers are called in any order; the code calls them one after another in the
  map's iteration order, so every order of the code is among the model's.
- `requests` only grows and a request is handled any number of times: this
  covers calls that are late, doubled or never arrive. A request expires after
  one minute in the code; the model lets it arrive at any later time.
- All validators run this code with the same configuration and event logs.
- `GracefulRestart` resumes where it stopped or from the beginning: the latter
  when a block start is configured or nothing was parsed yet.

### Runs

| Run | Instance | Shows |
|---|---|---|
| `exchange_koinos` | 2 validators, Koinos, an early request and two re-signings, failing calls, 1 restart, with or without a reset | all safety properties and `KeepsLedger`; a validator adopts its own old signature back |
| `spreads_three` | 3 validators, all of which are a quorum of the API, lock only, fair | everybody's signature spreads, records travel through a third party; all but one at most report it signed (`AllButOneReportSigned`) |
| `spreads_resigned` | 2 validators, Ethereum, two re-signings, fair | the records fill up after re-signing as well, with the other quorums; every streamer reaches the end; a completed transfer is completed everywhere; `SettledRecordsAreFull`, `MismatchNeedsFailure` |
| `crash_replay` | 2 validators, one crash, fair | **violated**: see findings |
| `completed_peer` | 2 validators, re-signing | **violated**: see findings |

The properties are stated and explained in the module. In short:
`SignaturesMatchHash` (only signatures over the record's hash),
`OwnSignatureIsCurrent` (the own signature is listed and current),
`SignedIsBacked` (reported signed only with a quorum, less one per restart),
`CompletionNeedsLocks` (the destination completes only what a quorum of
validators read on the source chain), `SignaturesNeverOverlap` (the hashes that
are ever signed are two expiration times apart), `RecordsAgree` (validators that
have handled the same events hold the same hash), `SettledRecordsAreFull` (and
list each other's signatures), `AllButOneReportSigned` (and all of them but one
at most report the transfer signed), `MismatchNeedsFailure` (the lock handler's
panic needs a failure) as invariants; `CompletedIsFinal`, `HashNeverGoesBack`, `SignaturesAreKept` (action
properties), `EverySignatureSpreads`, `SomebodyReportsSigned`,
`StreamersCatchUp`, `EverybodyCompletes` (liveness). Every one is broken by a
mutated definition listed in `PROJECT.json`.

### The ledger

`TransferLedger` is what the exchange promises about one transfer, without
handlers, broadcasts and messages. Each validator has an entry: the newest hash
it knows, the validators that signed that hash, and whether the transfer is
completed. One entry changes at a time. Until the transfer is completed, an
entry that keeps its hash keeps its signers; a hash is only replaced by a newer
one; completed is final, and no entry says so before the destination contract
has accepted a quorum of **one** entry's signers. `EntryOf` maps a record to its
entry, with those signatures only that verify, and `KeepsLedger` says that
`SignatureExchange` implements the ledger; a late merge, an adopted record or a
replayed event that took anything back would not be one of its steps. A wiped
store is an empty entry. The module's steps are checked in `exchange_koinos` and
proved for any instance in `SignatureExchangeProofs`.

Bounds. Two validators already show every race between a handler and the API,
and of validators that are one or two re-signings apart; three are the least
for which a record carries a third validator's signature and for which
`LockQuorum` is out of reach. One lock, a request that comes too early, and two
that count reach every branch of the handlers. One restart puts a crash between
any two steps; panics are not counted, as the container repeats them without
end. Symmetry is used in `exchange_koinos` and `completed_peer` only, which
check no liveness.

Fairness (`FairSpec`). Weak fairness of each streamer's steps (it polls for
ever), of the panic, and of each outstanding call until it is answered (the
HTTP client delivers it or gives up after 30 seconds). Nothing is assumed of
crashes, of calls the client has given up on, or of the relayer. Without
`NetworkFails` an outstanding call is in the end answered; with it, it may fail.

## 4. The block streamers

`ChainEvents` numbers the bridge contract's events on one chain in chain order;
`BlockStreaming` is the promise made to the handlers, in three variables: the
events that are `final`, those `handled` in any run, and the `last` one handled
in this run. In one run the final events are handled in order, each once, none
skipped; the first one of a run may repeat an old event but never leaves one
out. `StreamEthereumBlocks` and `StreamKoinosBlocks` are the two loops:

| Variable | In the code |
|---|---|
| `blockNumber`, `lastIrreversibleBlock` | what the node answers |
| `metadata` | the chain's field of the metadata record |
| `fromBlock`, `toBlock`, `last...BlockParsed` | the variables of the loop |
| `logs`; `block`, `lastBlock`, `events` | what is left of the batch (Ethereum: logs; Koinos: blocks, and events of the current one) |
| `running`, `restarts` | is there a process; a counter for the bound |
| `handled`, `last` | history, for the promise |

| Action | Code |
|---|---|
| `Start` | main's choice between block start and saved block, `startBlock++` |
| `FetchLogs`, `FetchNoLogs`, `WaitForBlock`; `FetchBlocks`, `WaitForBlock` | one poll |
| `HandleLog`; `HandleEvent`, `FinishBlock` | the loop over a batch |
| `Stop` | the `ctx.Done()` branch, only between two batches |
| `Crash` | the process dies, in a handler too |
| `NewBlock`, `NewIrreversibleBlock` | the chain (external) |

Abstractions. A failed call only logs, so it is a poll that does not happen. A
handler is one step; its inside is section 3. A query returns the logs of the
range as the chain has it, never removed ones. A Koinos node returns some of the
blocks asked for from the cursor on, without a gap, and at least one if it is
asked for one. Height and block number do not overflow 64 bits. The Koinos loop
never asks for the last irreversible block itself, so the liveness property
there is about the events of the blocks before it.

| Run | Instance | Shows |
|---|---|---|
| `ethereum_stream`, `koinos_stream` | events in blocks 2, 2, 3 and 7, ranges of 2 and 3, two restarts | refinement of `BlockStreaming`, the saved block is handled, every final event is handled in the end |
| `ethereum_stop_early` | the same | **violated**: see findings |

Bounds. Ranges of two and three blocks and a gap of three empty blocks make
full, partial and empty ranges; two events in one block separate a cursor on
logs from one on blocks; two restarts let a run that parsed nothing follow one
that did. Fairness: the process is started again and the polls are in the end
answered. Stops and crashes are finitely many in a run, or nothing could be
promised.

## 5. Start and stop

`ValidatorLifecycle` is one process: `main`, the two streamers, the HTTP server
and the three databases.

| Variable | In the code |
|---|---|
| `main` | where main is: the three resets, the start, the wait |
| `metadata`, `records` | the metadata record; has a transactions store records? |
| `cancelled` | the context of `signal.NotifyContext` |
| `streamer`, `startBlock`, `parsed` | where a streamer is, where it starts, its last parsed block |
| `copy`, `mutex` | the record as a stopping streamer read it; the store's mutex |
| `server`, `active` | the HTTP server and its requests in progress |

`StartAll` is main from the read of the metadata to the start of the
goroutines; `LockMetadata`, `GetMetadata`, `PutMetadata` and `SaveFails` are the
`ctx.Done()` branch in the steps another goroutine can come between, and the
deferred unlock belongs to the last one; `ReturnEarly` is a streamer that cannot
connect or decode an address (or, with a maximum of 0, is not started);
`ListenFails`, `ShutdownBegins` and `ShutdownEnds` are the server's two
goroutines; `Exit` is `wg.Wait()` returning. A panic is a `Crash`. Which blocks
are parsed is left open here.

| Run | Instance | Shows |
|---|---|---|
| `lifecycle` | 3 blocks, a block start for Koinos, 1 request, 2 launches with or without a reset, fair | `SavedStays`, `OnlyOwnPositionIsSaved`, `ResetIsComplete`, `SignalStops` |
| `lifecycle_reset_fails` | the same, but a database may refuse to be reset | `ResetIsComplete` **violated**: see findings |

Two launches put a run after a saved one; three blocks make positions that
differ by chain and by run; one request is enough to hold up a shutdown.
Deadlock is not checked, as a process that stopped after its last launch stays
down. Fairness: goroutines go on, and every request in progress ends, which the
client's timeouts justify for the API's short handlers; `Shutdown` itself waits
without a limit.

## 6. Several transfers, their hashes and broadcasts

`LockedTransfers` looks at the source streamer of one validator over a log of
locks and requests that belong to several transfers. It EXTENDS two modules:

- `CompleteTransferHash`, without state: the hash that is signed, as the lock
  handler computes it from the event, the re-signing handler from the stored
  record, and a peer from the record it is sent. The three convert amounts,
  tokens and absent names differently, and a signature is only worth something
  where they agree. A hash is the record of the values hashed. 2^63 is the
  constant `Half`, so that `Half = 2` makes 3 an amount that is not an int64 and
  5 one that is wider than a word.
- `BroadcastTransaction`: the loop over the validators map, where every
  validator is listed twice, in any order, with the peers that answered
  (`processedApiUrls`), how the calls to each peer ended, in order (`calls`, a
  history that only the properties read), and the time since the body was made.
  Answering takes up to `Latency`, a failed call up to `ClientTimeout`, and a peer that is called after `Validity` finds the body
  expired.

| Variable | In the code |
|---|---|
| `log`, `position` | the source chain's events and how many are handled |
| `store[k]` | the record under key k: transaction hash and, on Koinos, operation |
| `broadcasting` | the key of the record whose handler is in its broadcast |
| `panics` | history: the events whose handler has panicked |
| `crashes` | a counter for the bound `MaxCrashes` |
| `unvisited`, `processedApiUrls`, `signatures`, `expired`, `elapsed`, `calls` | the variables of the loop, and its history |

| Action | Code |
|---|---|
| `TokensLocked`, `RequestNewSignatures` | a handler up to its broadcast |
| `IgnoreRequest` | its early exits: unknown, completed or too early |
| `PanicOnLock`, `PanicOnRequest` | its panics, and the restart of the process |
| `VisitEntry`, `Answer` | an iteration of the loop: skipped, failed, answered |
| `MergeAnswers` | the second half of the handler |
| `TransferCompleted` | the destination streamer's handler, at any moment |
| `SubmitSignature` | the API adopts a peer's record (`SubmitAdopted`) or merges its signatures (`SubmitMerged`), at any moment |
| `Crash` | the process dies for another reason, in a broadcast too |

What the peers submit. They run the same handlers on the same log, ahead of this
validator or behind it. So a submission is of the transfer of some lock, and its
hash is the lock's or that of a later request that re-signs it (`HashesOf`),
signed by any of its `Submitters`. A peer that would panic on the lock, because
it cannot decode it or an earlier lock of the transaction has left another hash,
submits nothing of it (`PeersLock`). A submission may arrive before this
validator reads the lock, between the halves of its handler, or after a crash;
one that is refused changes nothing and is not a step. Handlers of the peers are
not steps here, only what they can send: for any number of validators with
stores of their own see section 3.

Abstractions. The payment goes through the amount's conversions and is left out,
as are sender and metadata, which nobody converts. Recipient and relayer are
given or both absent. Signatures of earlier hashes and the stale answer of a
completed peer are the matter of `SignatureExchange`, and so are the thresholds
and stores that are wiped. A restart after a panic or a crash reads the log from
its beginning: nothing was saved. The clocks of the validators agree. The two
queries of the API change no state and are left out; `GetKoinosTransaction`
looks up operations 1 and 3 in two `Get` calls outside the store's mutex
(`api.go:123`, `129`), so its answer may mix two moments.

| Run | Instance | Shows |
|---|---|---|
| `transfers` | 3 validators, one of which submits, 1 crash, 6 Ethereum and 4 Koinos logs, `Half` 2, times 1, 2 and 1 | see below |
| `resign_panics` | 2 validators, a lock without a relayer and a request | `StreamerStartsBackUp` **violated**: see findings |

- `RecordsKeepTheirTransfer`: what a key's hash says, its expiration apart,
  never changes, although two locks of one Ethereum transaction share a key. The
  text beside the hash may be replaced, which is the next property but one.
- `GatheredAmountsWereLocked`: every lock handler, here and at the peers, signs
  the truncated amount of a wide lock, but no record lists another validator's
  signature over it, because answers and submissions are checked against the
  parsed text. So no such record can gather a quorum of more than one. Koinos
  amounts of 2^63 and more are the exception: everybody hashes them as their
  two's complement.
- `GatheredTextsVerify`: what others have signed of a record is computed from
  its text, so the peers that get it next verify it and a request can re-sign it.
  The exception are two locks in one Ethereum transaction whose amounts are
  truncated to the same.
- `RequestsHitTheirTransfer`: the fallback from operation 1 to 3 never re-signs
  another transfer than the one named.
- `PanicsAreExplained`: a handler panics only for a reason in the log, and the
  property lists them: a token that is not configured, two different locks in one
  Ethereum transaction, a request for a transfer without a relayer or with an
  amount wider than 64 bits, and a lock that a later request re-signs. In the last
  case the lock meets the newer hash after a crash or a panic, or because the
  record was adopted from a peer that had re-signed it already. A log without
  these never stops a validator, whatever crashes and submissions there are.
- `ExpiresOnlyAfterFailures`: a body expires at a peer only after calls that
  used up its validity, and if one prompt answer of each peer fits into it, one
  of those calls has failed. `PeersAreTriedTwice`: an answered call is the last
  one to its peer, and a peer without an answer is called twice.
  `StreamerGoesOn`: no answer, failure or expiry holds up the streamer.

Bounds. Two peers are the least for which the failure of one costs the other its
validity. The client's timeout is half the validity, as in the code (30 and 60
seconds). The logs are chosen one per hazard: two locks with amounts that
differ, and two that agree modulo a word; an amount wider than a word; a request
that is too early and one that counts; an absent relayer; two operations of a
Koinos transaction, and a request that names none; operation 3 alone, asked for
as 1 and re-signed twice; an operation that is not looked for; a token that is
not configured. One submitter and one crash are enough for every reason of a
panic: with the lock, a request and a submission of the re-signed record, the
lock is met with another hash with and without a restart. The run has 480,358
states. Fairness (`FairSpec`): weak fairness of the streamer, whose calls
end at the client's timeout.

## 7. Findings

- **A crash after a re-signing stops a streamer for good** (`crash_replay`).
  Positions are saved only by a graceful stop, records at once. The replayed
  lock event has another hash than the re-signed record and the handler panics;
  the container starts it again and it panics again.
- **A completed peer's signature over the old hash is merged**
  (`completed_peer`). The API answers for a completed record before it compares
  hashes and the second half of the re-signing handler merges what it gets, so
  the record lists signatures that do not match its hash, contrary to the
  comment in the first half. `SignaturesMatchHash` is therefore stated until
  the transfer is completed.
- **A stop before the first batch forgets the position** (`ethereum_stop_early`).
  The variable that is saved starts at 0 in every run; no event is lost, but the
  next start reads the chain from block 1 (or the block start) again, and a
  replay of a re-signed transfer panics as above. Both loops do it.
- **A reset that fails is not noticed** (`lifecycle_reset_fails`). The errors of
  the second and third reset are dropped and the first one's is tested again.
- **A request for a transfer without a relayer stops a streamer for good**
  (`resign_panics`). The lock handler and the API let an empty recipient or
  relayer pass; the re-signing handler decodes both always, and `base58.Decode`
  refuses the empty string. It panics, and does so again after every restart,
  contrary to the README's "it will start back up".

More facts met on the way. The other panics of `PanicsAreExplained` work the
same way: a token that is not configured on Ethereum, an amount wider than 64
bits that is re-signed, two locks of different transfers in one Ethereum
transaction. If two such locks have amounts that agree modulo 2^64, the second
one's text replaces the first one's under the same hash. A Koinos token that is
not configured is signed by nobody but oneself: the lock handler hashes the zero
address and the peers no bytes (`KoinosPeersAgree`). A peer that does not answer
is called twice and alone uses up the minute for which a body is valid. A query of Ethereum logs includes both ends and
so asks for one block more than `ethereum-max-blocks-stream`; the Koinos loop asks
for exactly its maximum. Proved rather than run: `LockQuorum` exceeds the number of
validators from three on (`LockQuorumIsUnreachable`), so that half of the
handler never marks a record signed; and `RequestQuorum` is less than the API's
quorum for 17 validators (`RequestQuorumIsTooSmall`), though not for 18 and 19.

Four facts were found while looking for what the invariants of the exchange need:

- `MismatchNeedsFailure` needs its `~NetworkFails`. If the one call that carries
  the first hash to a validator fails, its peers may re-sign, and it adopts
  the re-signed record when they call again; then it reads the lock event, finds another hash
  and panics, again after every restart. No crash is needed.
- `SettledRecordsAreFull` needs its `restarts = 0`. A validator that crashes in
  the broadcast of a re-signing after its position was saved replays the request,
  finds it not allowed any more, and never sends the signature again: its peers
  may handle everything and not list it.
- A replayed lock appends the own entry a second time, which the lock handler and
  every peer that adopts the record count as one more signature. So a record
  may be reported signed with one signer less than the quorum, per restart and no
  more: `SignedIsBacked` says so, and is proved in that form. The destination
  contract counts signers, so the relayer's transaction fails rather than
  completes.
- `AllButOneReportSigned` cannot be all: the validator that locks last may have
  been called by everybody before. Its lock handler sets the status back, the
  answers are merged with `LockQuorum`, and nobody calls it again. After a
  re-signing it needs `MergeThresholdInReach`. The first to re-sign calls the others
  before they do and is refused; they get its signature in an answer only, and
  where the merge cannot mark the record they do not report it signed. On
  Ethereum `RequestQuorum` is 5 for four validators, so three of them may stay
  unsigned until the next request. It exceeds two validators as well; there only
  the second can be affected.

## 8. Proofs

`SignatureExchangeProofs` proves for every set of validators, log, option and
number of restarts that `Spec` implies `TypeOK`, `SignaturesMatchHash`,
`OwnSignatureIsCurrent`, `CompletedIsFinal`, `HashNeverGoesBack` and
`SignaturesAreKept`. None is inductive alone. `ExchangeInv` adds:

- `BroadcastInv`: while n broadcasts, its record exists and has the hash that
  was sent, which is the hash of the event at its position;
- `LockedInv`: whoever read the lock event, in this run or before a restart, has
  a record with its own signature over the record's hash;
- `CheckpointInv`: the saved position is never ahead of the handled one;
- `OpenInv`: until the transfer is completed, records and requests list only
  signatures over their own hash, no record is marked completed, and the
  answers gathered by a broadcast are over the record's hash or none.

Each action has one step per conjunct it can disturb; the step lemmas are
combined in `ExchangeInvariant`. The action properties follow from the
invariant on the pre-state.

`SignedIsBackedProofs` proves `SignedIsBacked` for up to 16 validators and any
number of restarts. A list is longer than its set of signers by its `surplus`,
and `BackedInv` bounds every surplus by `Slack`: the restarts that no replaying
validator has used up. A restart adds one; reading the lock again uses it up and
appends the entry. Records and requests that are signed then have the quorum
less the restarts, until the transfer is completed; all signers are valid by
`OpenInv`. The bound of 16 comes from `RequestQuorumIsEnough`, and is tight:
`RequestQuorumIsTooSmall`. `SubmitQuorumIsByzantine` is what the API's quorum is
for: it can be reached, and two quorums share more than a third. The cardinality
facts are those of `FiniteSetTheorems`.

`SignedHashesProofs` is about where signatures and hashes come from. `GenuineInv`
says that a listed, sent or awaited signature was broadcast by its own validator
at some time, whatever was adopted, merged or wiped since, which gives
`CompletionNeedsLocks`. `HashAfter` is a recursive function of the source log
alone: the hash after each of its events. `HashInv` says that every record and
every request has one of these hashes, that a signing validator is never behind
the hash of the events it has handled and, without restarts, has exactly that
one. `HashesExist`, `HashesAreApart` and `HashesGrow` need induction over
positions; it is done by taking a least counterexample (`LeastNatural`, from the
minimum that a well-founded relation has). `SignaturesNeverOverlap` and
`RecordsAgree` follow.

`SettledRecordsProofs` proves `SettledRecordsAreFull`, `MismatchNeedsFailure`
and `AllButOneReportSigned`. The first two are the safety part of
`EverySignatureSpreads` and of `StreamersCatchUp`: what is left to fairness is
that the streamers go on. `QuietInv` holds while no call fails and nobody
restarts:

- `SentInv`: who has sent a record has signed it, and all it lists verifies;
- `UnlockedInv`: a record adopted before the lock event has the lock's hash, and
  one made by a completion has none;
- `KnownInv`: a validator is past the lock event only when all others have a
  record, so nobody re-signs before, which is why the lock handler does not panic;
- `SpreadInv`: for two validators that hold the same hash, the signature of each
  is listed by the other, or still on its way: a call that is outstanding, or an
  answer that is not merged yet (`Reaches`). A call that finds the other one
  without a signature leaves it to the call in the other direction.

`AllButOneSigned`, the safety part of `SomebodyReportsSigned`, needs more: a full
list says nothing of who has compared it with a threshold that can be met.
`ReportsInv` holds as long as no record is completed. Who has been called about
the lock event lists the caller (`HeardInv`), and of two validators one locked
before the other called it: the last call it is owed finds the list complete
but for the caller, and the API marks the record, unless calls are still to come
(`Owes`, `LockReported`). After a re-signing a list may be completed by
answers instead, so a full record is marked when its broadcast is over, by
either threshold (`ResignReported`, `MarkSignedReports`).

`StreamEthereumBlocksProofs` and `StreamKoinosBlocksProofs` prove for every
chain, option and number of restarts that the loop implements `BlockStreaming`
(`StreamsInOrder`) and `SavedIsHandled`. The inductive `StreamInv` is about the
events that the cursor has `Passed`: they are handled, they are a prefix of the
chain's events, and the last of them is the last handled (`PassedInv`); a batch
consists of final events, and between two batches the last parsed block is
behind the cursor (`BatchInv`), which is why saving it loses nothing. The next
event of a batch is then the successor of the last one, which is what a step of
the promise asks for. Of the abstract specification, and so of both loops,
`HandledIsFirstPart` is proved: what has been handled, in any runs, is a first
part of the final events.

`ValidatorLifecycleProofs` proves `SavedStays` and `OnlyOwnPositionIsSaved` from
`SaveInv`: a streamer between its lock and its write holds the mutex
(`MutexInv`), so what it has read is what is stored (`CopyInv`), and its write
changes its own field only. `ResetLeavesNothing` proves `ResetIsComplete`,
provided that no database refuses to drop its contents, from `ResetInv`: while
main resets, nothing runs that could write to the stores.

At its end, `SignatureExchangeProofs` proves `KeepsLedger` from `ExchangeInv`: a
step of any handler changes one record (`OneRecordChanges`), and that record's entry moves
as the ledger allows (`EntryMoves`); a completion by the contract needs a
quorum of one record's valid signers, which is what the mapped `Quorums` are.

`LockedTransfersProofs` is about any logs, validators, times and `Half`. Its
lemmas on the hashes say where the three computations agree
(`EthereumPeersAgree`, `KoinosPeersAgree`, `RecordAgreesWithLock`) and which
Koinos amounts are confused (`PaddedAmountsCollide`). `CallsInv` (the calls
to a peer so far are determined by which of its entries the loop has visited and
whether it has answered) carries `PeersAreTriedTwice`; `TimeInv` (the elapsed
time is at most what the failed and answered calls may take) carries
`ExpiresOnlyAfterFailures`. `BroadcastIsBounded` gives the time for which a
broadcast can hold up its streamer, two timeouts per peer, from the number of
entries that are left to visit (`LengthInv`). `TransferInv` says that a record's
hash agrees, its expiration apart, with the lock handler's hash of its transfer,
or that the record has only been completed: without
it neither `TypeOK` (an amount wider than a word has no padded bytes) nor
`RecordsKeepTheirTransfer` is inductive. `SubmissionsMove` says what a
submission does to it: it adopts a record with a hash that handlers make
(`HandlersHash`), or adds signers. `AmountsInv` adds that the transfer of a
record is one that was locked under its key, and that a peer's signature, merged,
submitted or just received, vouches for an amount of such a lock;
`GatheredAmounts` follows. `TextsInv` says that the text of a record that lists
others, or is being broadcast with an answer, verifies, unless two truncated
locks collide; `GatheredTexts` follows. Two theorems assume `LocksComeFirst`: a
request comes after the locks of
the transaction it names, as on the chains and in every log of the runs. Then
`HandledInv` (every lock behind the streamer has a record, for good) gives
`RequestsHit`: the fallback to operation 3 is taken only if operation 1 has
locked nothing. And `OriginInv` (a record's hash is that of one of its locks, or
one that a request of the log makes, here or at a peer whose record was adopted)
gives `PanicsExplained`: a lock that meets another hash shares its key with
another lock, or the log goes on with the request that made it.

Assumptions used: `ValidatorsAssumption`, `OptionsAssumption`,
`SourceLogAssumption`, `SentinelsAssumption`, `EventsAssumption`,
`EthereumOptionsAssumption`, `KoinosOptionsAssumption`, `LifecycleAssumption`,
`HalfAssumption`, `PeersAssumption`, `TimesAssumption`, `LogsAssumption`,
`ExpirationAssumption`, `SubmittersAssumption`;
TLC evaluates them in the runs of their modules.

Only model-checked: the liveness properties `EverySignatureSpreads`,
`SomebodyReportsSigned`, `StreamersCatchUp`, `EverybodyCompletes`,
`FinalEventsAreHandled`, `SignalStops` and `StreamerGoesOn`, which need fairness
and `ENABLED`, and the violated properties. Every invariant and action property
of a passing run is proved; `SignedIsBacked` for up to 16 validators,
`ResetIsComplete` if no database refuses to be reset, and
`RequestsHitTheirTransfer` and `PanicsAreExplained` under `LocksComeFirst`.

## 9. Not modelled

Parsing and formatting of messages, logging, configuration files, the
generated protobuf code and the JSON-RPC client, which keep no state of their
own; the contracts and the chains beyond the events they emit; SHA-256,
Keccak-256 and the recovery of a signer, which are taken as injective and
unforgeable. Of the stores, the inner read-write lock around a single `Get` or
`Put` and the errors of a backend, which end in a panic: a crash covers them.
