# A TLA+ verification of qbit

qbit is a Bitcoin Core fork with post-quantum wallet keys, merged mining, the
compaction of old witnesses, and PHOTON, a relay daemon that sends new blocks
over UDP (`src/contrib/photon`). The modules here model the parts that qbit adds
or changes and whose errors need several steps of several actors to show, and one
inherited part of that kind, the transaction request tracker.
`PROJECT.json` maps every definition to the lines it models and lists the runs,
the hazards, the findings and the theorems.

## The system and its hard behaviours

| Part | State | Operations | Hard behaviour |
|---|---|---|---|
| PHOTON peer sessions | a slot per peer: state, packet counter, remote identity, retired identities, timers, reconnect backoff | `Tick`, `HandleInbound`, the sends | datagrams lost, repeated, reordered; restarts; counter wrap; bounded history; getting back together |
| PHOTON relay engine | the outbound block, an entry per peer and incoming block, known blocks | `OnNewBlock`, `OnBlockHeader`, `OnBlockChunk`, `PumpOutbound` | chunks before headers, two peers with one block, limits, expiry |
| Witness compaction | block files and two side copies, block index on disk and in memory | prepare, install, index commit, finalize, recovery | crash, power loss or I/O failure between any two steps |
| Block serving | one request between lookup and read | `ProcessGetBlockData` | the file is replaced after cs_main is released |
| Post-quantum wallet keys | counters and tags in memory and database, signers, master key | reserve, sign, lock, unlock, encrypt, validate | a counter value must never be used twice; failed commits; crashes; threads |
| Merged-mining cache | cached candidates | `createauxblock`, `submitauxblock` | calls overlap, and the tip moves within one |
| Transaction requests | an announcement per hash and peer | `ReceivedInv`, `GetRequestable`, `RequestedTx`, `ReceivedResponse`, `SetTimePoint`, the download manager's calls | peers that do not answer or leave, a clock that goes back, orphans whose parents are announced for others |

The peer sessions decide which datagrams reach the relay engine, which submits
blocks to the node over RPC. Witness compaction runs inside the flush of
`validation.cpp`, beside the threads that serve blocks. The transaction request
tracker is only called by `TxDownloadManagerImpl`, under one mutex.

## Modules

- `PhotonSlot`: what a slot does with a packet: authentication, the replay window,
  replacing and retiring a remote session. It has no variables, and the next two
  modules extend it.
- `PhotonSession`: daemons with a slot per link. `net` only grows, and a receive
  leaves the datagram there; so loss, repetition, delay and reordering are all
  behaviours. An identity is the number of the process's incarnation. Timeouts
  may fire at any time: the clock and the backoff are left out.
- `PhotonLink`: one link with the clock, the timers of `Tick`, keepalives and the
  reconnect backoff. Timers count down, and a unit of time passes when nothing is
  due or in flight. Datagrams can be lost but not overtake each other, so a packet
  either continues the counter or comes after a gap: `gap` replaces the counters.
  The network can be cut and repaired, daemons crash or shut down. `calm` is the
  time since the last fault.
- `RelayEngine`: `store` holds `m_inbound` and its byte count, in chunks.
  The map's key is the hash prefix and the peer. A decoder group is complete with
  `DataChunks` chunks; `BadChunk` is one the decoder refuses. The handlers may
  come in any order, which includes that of the main loop.
- `WitnessCompaction`: `dir` is the blocks directory, `dirs` what a power loss
  may leave of it: its states since the last directory sync. `pc` is the next
  step of the flush or of the startup. `MaxFaults` I/O calls may fail. A preparation
  that meets a file stripped already may fail or, if it has one block, succeed.
- `WitnessServing`: composes the above with the two steps of a block request.
- `PQCWallet`: `db` and `mem` are the records of a descriptor's keys. A tag is
  represented by the counter it is computed over. `cs_wallet` makes each step
  atomic. A commit reported as failed may have been done. `crypted` stands for
  `mapMasterKeys`: `EncryptWallet` fills it before its transaction is begun and
  leaves it so when that fails. The wallet is then `Locked`, and provides no key,
  although its records are in plaintext.
- `AuxTemplateCache`: one action for each stretch of an RPC call under one lock.
  The tip, the clock and block validation are external: the clock is the system's and
  may be put back, and a block of a side branch may be accepted and become the tip.
- `TxRequest`: `ann[h][p]` is the announcement of a hash by a peer, with its state
  in `m_index` and the time that is left. The per-peer counts are computed from it.
  The loops of `SetTimePoint` and of `GetRequestsToSend` run one iteration per
  step. `AlreadyHaveTx` may give either answer.
- `TxRequestRules`: what `txrequest.h` promises, with no clock and no priorities:
  who announced, was asked or failed. `TxRequest` is shown to implement it with
  `status` mapped to the state of each announcement.

`MC*` modules add symmetry and constants. `*Proofs` modules hold the theorems.
Operators named `Mut...` are wrong variants of the definition that follows them:
with one in its place the property named in `PROJECT.json` fails.

## Runs

| Run | Question | Result |
|---|---|---|
| `photon_session` | replay order, retired sessions stay retired, the first packet after a replaced session continues its counter | holds |
| `photon_wrap` | is no datagram accepted twice, across the wrap too? | violated |
| `photon_restart` | is the session of a running process never retired? | violated |
| `photon_link` | does the link come back within a timeout and the longest wait, and does every exchange end? | holds |
| `witness_compaction` | files, index, flag and watermark agree; every startup succeeds; every file deep enough is compacted at last | holds for one fault |
| `witness_reindex` | is `-reindex` refused at every startup that finds a stripped file? | violated |
| `witness_serving` | are witness requests answered with witnesses? | violated |
| `pqc_wallet` | counters durable before use, handed out once, never taken back; tags; `Lock` waits and ends | holds |
| `aux_cache` | limit and expiry under overlapping calls | holds |
| `aux_stale_tip` | does a candidate stay cached as documented when calls overlap? | violated |
| `relay_inbound` | limits, byte count, known blocks leave nothing and only the oldest is forgotten, expired entries stay dead, a full buffer displaces nothing | holds |
| `tx_request` | the assertions of `SanityCheck`; the best peer due is asked; limit per peer; the rules of `txrequest.h`; no candidate waits for ever | holds |

The violated ones state what a comment, a help text or `RUNBOOK.md` says. The
findings in `PROJECT.json` quote it. In short: a counter in the wrap window repeats
numbers of the session's start; a delayed `Syn` of an incarnation the slot never
held replaces the running one, which is then retired; a process that ends between the
installation of the first compacted file and the commit of its index leaves a stripped
file without the flag that makes `-reindex` refuse; a block read after a compaction is sent stripped; a
call that read the old tip prunes candidates of the new one.

**Bounds.** Two daemons are one link in each direction. One restarts once, which is
what retiring a session takes; at most six datagrams are in flight in
`photon_session` (`NetBound`). Counter maximum 4 and gap 1 or 2 put the wrap within
reach in the wrap run and out of it in the others. On the link one cut, two losses
and two restarts meet in every order, and a backoff of 1 to 3 is doubled and capped.
Four block files, one of them empty, and heights up to 4 let a later file become
eligible first and the watermark pass a gap; at the bound the chain goes on growing
but makes no other file eligible. One key, two signers and three signatures reach
the limit in a single and in a batched reservation; counters of different keys do
not meet. An unlocking that writes the tags of some keys and fails for others takes two
keys and is left to the proofs, which have any number. Two workers and a cache of one or
two candidates make eviction, expiry and a moving tip meet. For the relay, three
blocks from two peers with two entries force displacement, three chunks fill the
buffer, and a history of two blocks forces forgetting. Three peers (one preferred,
one exempt from the limits), a transaction and its parent, three announcements at
once and a clock that goes back once reach every operation of the tracker. An orphan
with several parents, whose announcements are counted before they are added, is left to
the proof of `LimitIsKept`. Symmetry is
over workers, candidate contents or chunk ids, none of which the code compares, and
only in runs without liveness.

**Deadlock** is checked except for `PhotonSession`, whose send and restart bounds
end every behaviour.

**Fairness** is assumed of what the code does by itself:

- `pqc_wallet`: weak fairness of the steps of a thread that has begun to sign, and
  of the locking thread. `SignTransaction` loops over the inputs of one transaction,
  and the wait is a condition variable that the last signer notifies. Nothing is
  assumed of threads that have not begun, of unlocking, or of crashes.
- `photon_link`: weak fairness of `Tick` and of receiving (the daemon's loop does
  both for ever), of time, and of the repair of a network that was cut.
- `witness_compaction`: weak fairness of a flush or startup that has begun. Strong
  fairness of connecting a block and of the check in the flush after it, which other
  flushes may get ahead of; background validation, which defers the check, ends. A
  node that has reported a fatal error is restarted. Crashes are not bounded:
  `EligibleCompacted` assumes that they end, and TLC refutes it when any one of the
  strong conditions is dropped.
- `tx_request`: weak fairness of the loops of a call, strong fairness of
  `SendMessages` for each peer (the message thread visits them in turn) and of the
  clock going forward. Nothing is assumed of answers.

## Proofs

`PhotonSessionProofs`, for any number of daemons and datagrams: `TypeCorrect`,
`ReplayProtection`, `NothingAcceptedTwice`, `RetiredStaysRetired` and
`BaselineAfterReset`. Where a theorem needs them it assumes `NoWrap` (no process comes
within the gap of the counter's maximum) and `HistoryHolds` (no more incarnations than
the history has room for: a full history forgets its oldest session by design, and
nothing is claimed of it). `photon_wrap` shows why the first is needed: it refutes
`AcceptedOnce`, which `NothingAcceptedTwice` proves without a wrap. The logs alone are
not inductive: the invariant ties each slot's remote identity, last counter, baseline
flag and retired identities to the log of what it accepted.

`PhotonLinkProofs`, for every choice of timers and backoffs and any number of cuts,
losses and restarts: `TypeCorrect`, `Recovery` (both ends are active once `RecoveryTime`
has passed without a fault) and `RunningNotRetired`. `TimeLeft(n)` bounds how long `n`
waits before it dials if nothing reaches it; it never exceeds `RecoveryTime`, shrinks
with time and no step enlarges it without a fault, so an end that hears nothing dials
in time (`OnTime`). A packet can revive an end and put its dial off. `Recovering` says
why that does no harm: the end is then settled with a peer that keeps it alive, or the
peer is silent and dials in time itself, or a handshake is in flight. `Settled`
includes that the peer's next keepalive comes before the end turns stale. That is
where `KeepaliveAssumption` enters (the interval is below the stale timeout: 5 and 15
seconds in `PeerManagerConfig`). `CounterRoom` says that the three counters the module
tells apart differ. `RunningNotRetired` holds because packets do not overtake each
other here: the retirement that `photon_restart` finds needs a delayed `Syn`.

`PQCWalletProofs`, for any keys, threads and limits: `TypeCorrect`,
`DurableBeforeSigning`, `TagsAlwaysMatch`, `LockWaitsForSigners`, `HandedOutOnce` and
`CountersOnlyGrow`. The properties speak of what was signed or handed out. What makes
them inductive is an order: every value handed out is below the counter in memory,
and that is at most the one in the database (`Covered`). Two more conjuncts are
needed: a validation in progress knows the current counter of a pending key, and
counted signers exist only while `mapMasterKeys` has an entry. `LockWaits` is about
private keys of either form: a provider has none that was made while the wallet was
locked, and none survives in a counted signer when the lock completes. The constants'
assumptions are `WalletAssumption` and those named in `PhotonSession`.

`WitnessCompactionProofs`, for any number of files, heights, crashes, power losses and
failing I/O calls: `RecoverySucceeds`, `WatermarkIsSound`, `PreparationNotRefused` and
`TypeCorrect`. With at most one failing call also `FilesMatchIndex`, `WitnessesSurvive`
and `FlagIsInTime` (between hand-offs, a stripped file implies the flag that `-reindex`
looks for; `witness_reindex` refutes it within one). One invariant serves both. It says of every directory a power
loss may leave that the index on disk alone tells which copy to keep (`DirOK`); of the
file being handed off which copies exist at each step (`PendingOK`); of every other
file that it is as the index in memory says (`OthersOK`). What may stand for a complete
file is `Complete`: only the complete file when at most one call fails, since the
rollback is reached only after a failure and so does not fail itself; otherwise the
compacted one too. The bound is needed: with `MaxFaults = 2` TLC refutes
`WitnessesKept`, since the directory sync of an installation and the rename that rolls
it back may both fail, and the flush at shutdown then renames the stripped file over
the complete copy.

`WitnessServingProofs`: `RequestsServed` (with at most one failing call, a request gets
the block in the form it asked for, unless the compaction has reached the file since
the lookup). It uses the theorems above, since requests leave the compaction as it is. `witness_serving` shows what happens otherwise.

`AuxTemplateCacheProofs`, for any number of workers: `LimitKept`,
`NothingExpiredSubmitted`, `TypeCorrect`. The second is about candidates that were
stored before the call's prune, measured by the clock of that prune. No two cached candidates have the same
sequence number, so the oldest one that trimming keeps has all the others after it.
`CachedWithOneWorker` proves with one worker what `aux_stale_tip` refutes with two:
a tip that changes within a call ends all promises, and no other call makes new ones
before the prune (`PromisesKept`).

`RelayEngineProofs`, for any blocks, peers, chunks and limits: `TypeCorrect`,
`BuffersCounted`, `FullBufferRejects`, `KnownBlocksDone`, `SeenIsMirrored`,
`SeenLongEnough`, `EntriesLimited`, `ExpiredNotRevived`. The history needs two facts
(`SeenOK`, `SinceOK`): the queue has no block twice, and what follows a block in the
queue became known after it. A handler is followed through the map it makes (`MapOK`,
`Current`), from the eviction of what has expired on. The byte count is the number of
pairs of an entry and a chunk it buffers, so each change of the map is one of a set's
cardinality (`Counted`, `BufferedSplit`). Its limit rests on the order in
`OnBlockChunk`: the capacity is checked before room is made, which can only free more
(`CapacityFreed`).

`TxRequestProofs`, for any peers, hashes, priorities and delays: `IndexStaysSane`,
`RequestsAreBest`, `NothingStrays`, `LimitIsKept`, `TheBestIsAsked`, `TypeCorrect`, and
`RulesImplemented`, the refinement of `TxRequestRules`. Every operation changes the
announcements of one hash at a time; `ColumnStep` says what it may make of them, and
that a new one is only made for a peer that stays within its limit (`Welcome`). The
assumption on `Rank` is that of `PriorityComputer`: priorities never tie. The hashes
are finitely many, which counting them needs.

Only model-checked: the liveness properties `LockEnds`, `ExchangesEnd`,
`EligibleCompacted` and `CandidatesServed`, which are out of the prover's reach. Every
other property of a run that holds has a theorem. Of the properties that runs refute,
`AcceptedOnce` and `CachedWhileCurrent` have one under the condition that the
counterexample breaks; `RunningNotRetired`, `RequestsServed` and `FlagIsInTime` are the
like for `LiveNotRetired`, `WitnessBlocksWhole` and `ReindexGuarded`.

## Not modelled

- Difficulty adjustment and AuxPoW validation: pure functions of one header and its
  ancestors. Nothing interleaves, and what could be wrong lies in 256-bit widths.
- Header synchronisation: one sequential object per peer, whose two phases are tied
  together by salted hash commitments; their strength is a probability.
- PHOTON's scheduler, main loop, ZMQ and RPC clients: input and output around the
  handlers. A ZMQ reconnection that fails is not tried again by the loop
  (`zmq_listener.cpp`); no line of the repository says otherwise, and it is listed
  as a hazard without a property.
- Ordinary pruning together with compaction: a file that pruning has removed is one
  of `EmptyFiles` from the start. Reorganisations below the compaction depth: the
  height of the chain only grows.
- Compact and filtered blocks in `WitnessServing`.

Left out for good: the codecs and cryptography, script, the memory pool, sockets, the
GUI and the tools; `PROJECT.json` gives the reason for each. 64-bit hash prefixes are
taken to be distinct for distinct blocks.
