# zkas-signer: TLA+ specification, model checking and proofs

This directory holds a formal model of the zkas-signer repository: TLA+ modules translated
from the source, TLC configurations that check them on small instances, and theorems that
TLAPS proves for instances of every size. `PROJECT.json` maps each definition to the lines it
stands for and lists the runs, the mutants of each property, the findings and the hazards.

## 1. The system

The repository is a set of client libraries around one secret. Most of it is pure functions;
the state is in the embedded engine, in the app around it and in the release pipeline.

| Component | Source | State it keeps | Operations |
|---|---|---|---|
| Embedded engine | `walletd-mobile/src/lib.rs` | `ENGINE` (the one running engine, behind a mutex), `MEM_BUDGET_MB`; beyond the crate: the serve task, its port, the checkpoint on disk | `start`, `stop`, `port`, `set_memory_budget_mb`, `release_memory` |
| Log ring | the same file | `LOGGER_SET`, the `log` facade's level, the panic hook, `LOG_RING` | `install_logger`, `install_panic_hook`, `RingLogger::log`, `logs`, `set_debug_logs` |
| Money signer | `src/lib.rs` (wasm) | none | wallet generation, account derivation, `sign_message` / `verify_message`, `verify_and_sign_payment` |
| Mobile signer | `mobile/src/lib.rs` (UniFFI) | `Signer` (one secret) | `from_secret`, `address`, `viewing_key`, `sign_message`, `verify_and_sign_payment`, `account_key` |
| Chat identity | `chat-identity/src/lib.rs` | none | routing of a secret to the NIP-06 or the legacy derivation |
| Chat events | `chat-identity/src/event.rs` | none, but for the nonce loop of `mine` | canonical form, id, sign, mine, verify, NIP-19 |
| Release pipeline | `.github/workflows/mobile.yml` | the branch, the tag, the release's assets, the Maven version | six jobs; `publish` is a sequence of steps that may each fail and be run again |
| Paper wallet | `paper-wallet/template.html` | the page's fields | boot, generate, restore, reveal, print |
| Generated glue | `pkg-new/*`, `mobile/Sources/*` | handle map, buffers, memory views | lifting and lowering of arguments |

How they interact. The app calls the signer libraries synchronously; it calls the engine's
exported functions from any thread, polls `port()` about once a second and talks HTTP to the
port. The engine's serve task runs on its own tokio runtime, scans blocks, and writes a
checkpoint from time to time and at a graceful shutdown. The daemon the app talks to prepares a
payment; the signer verifies what it was handed before it signs, and the daemon submits the
signatures. The paper wallet page runs offline on the wasm module; nothing but the printed paper
joins it to the phone that spends, perhaps years later.

What is hard, and what makes each part correct:

* **Engine** - threads interleave around a mutex one call holds for up to 15 s; a call may
  panic while it holds it; the wait for the runtime may time out; the port is free for a moment
  between two binds; the app may be killed. Correct means: at most one engine on the wallet
  directory; no engine or port that nobody can stop; every call returns; a fault in one call
  does not end the next; scan progress on disk never goes back.
* **Log ring** - threads race to install, stamp and push. Correct means: one installer, and a
  ring that is exactly the newest lines.
* **Chat events** - the mined fast path must hash the bytes that `canonical` would; a deadline
  is measured on a clock that may be set; widths are truncated.
* **Signers and identity** - three libraries must route one secret alike; a signature proves
  control of the address that is shown, on the network that is shown, and of no other; a chat
  identity comes from the secret and never from what is public.
* **Payment** - the daemon is trusted for nothing: its answer may be wrong, late, of another
  payment, or repeated. Correct means: whatever reaches the chain is what the user approved, on
  the network they approved it on, and an honest answer is never refused.
* **Release** - the steps of `publish` are not atomic: branch, tag, checksum and assets must
  agree after failures and reruns.
* **Paper wallet** - the page is written piece by piece and a QR code may fail half-way. Correct
  means: what is printed is of one wallet, a seed in clear was asked for, and coins sent to what
  is printed as the address can be spent with what is printed as the seed.

## 2. Modules

| Module | Models | Notes |
|---|---|---|
| `Logging` | `LOGGER_SET`, the level of the `log` facade, the panic hook; the steps of `install_logger` and `install_panic_hook` | no behaviour of its own; `Engine` and `LogRing` extend it |
| `Engine` | the engine's life cycle: every step of `start`, `stop`, `port` between two points where another thread, the serve task, another process or the system can come in | the core |
| `EngineApi` | what the three calls promise an app | abstract; `Engine` refines it |
| `EngineProofs` | theorems about `Engine` | TLAPS |
| `LogRing` | the ring of log lines and its writers | extends `Logging` |
| `LogRingProofs` | theorems about `LogRing` | TLAPS |
| `ChatEvent` | canonical form, ids, signing with and without a mined nonce, verification, and a relay that alters events | bytes where the serialisation is the point, ideal hashes and signatures |
| `ChatEventProofs` | theorems about `ChatEvent` | TLAPS |
| `Mining` | the nonce loop of `mine` against a wall clock | |
| `MiningProofs` | theorems about `Mining` | TLAPS |
| `Keys` | the pure functions of the three libraries: routing, derivation, addresses and networks, message signatures, chat identities, NIP-19 | no state; `Secrets`, `PaperWallet` and `Payment` extend it |
| `KeysProofs` | lemmas about `Keys` | TLAPS |
| `Secrets` | the app between the three libraries | extends `Keys` |
| `SecretsProofs` | theorems about `Secrets` | TLAPS |
| `PaperWallet` | the page: its texts, QR codes, mask and error line, and the printer | extends `Keys` |
| `Payment` | approve, prepare, verify and sign, submit, with an untrusted daemon and a chain | extends `Keys` |
| `ColdStorage` | a paper from the printer to the chain | composes `PaperWallet` and `Payment` |
| `ColdStorageProofs` | theorems about `ColdStorage` and both its parts | TLAPS |
| `Release` | runs, their gating jobs and the steps of `publish` | |
| `ReleaseProofs` | theorems about `Release` | TLAPS |
| `MCEngine`, `MCLogRing`, `MCChatEvent`, `MCMining`, `MCSecrets`, `MCColdStorage`, `MCRelease` | instances for TLC | the `.cfg` files give the constants |

### Engine

State and code. `ENGINE` is the guarded `Option<Running>`; `portOf` is `Running.port`, and the
oneshot sender and the runtime are the identity of an instance (an element of `Engines`):
`Signalled(e)` says its shutdown signal was sent, `Closed(e)` that its runtime has begun to shut
down. `lock` and `poisoned` are the mutex. Per thread, `pc` is the point in the call, `op` the
call, `answer` the value it returns, `probe` the port `start` found and `target` the `Running`
that `stop` took.

Actions and code, in the order of the source:

* `start`: `StartInstall`, `StartLevel` (l.152-153), `StartReuse` (the early return, l.155-157),
  `StartEnter`, `StartBind` / `StartBindFails` (l.159-166), `StartDrop` (l.167), `StartBuild` /
  `StartBuildFails` / `StartBuildPanics` (l.174-181; tokio's builder panics when a worker thread
  is refused), `StartSpawn` (l.183-266: the cap from the budget, the spawn and the slot).
* `stop`: `StopIdle`, `StopTake` (l.272-273: take and signal), `StopClose` (shutdown_timeout
  closes the scheduler), `StopDone` (the threads ended) or `StopTimesOut` (15 s passed). The
  guard is a temporary of the `if let`, which edition 2021 keeps to the end of the body: the
  mutex is held throughout.
* `port` is `PortRead`; `set_memory_budget_mb`, `set_debug_logs` and `release_memory` take no
  lock and are one step each.
* External, from how the code uses it: the serve task (`ServeBind`, `Scan`, `ServeDrain`,
  `ServeDrained`, `ServeFlush`, `ServeFails`), tokio's dropping of a task at an await
  (`TaskDropped`), other processes that bind a free port, and `Kill`.

`leaked`, `timedOut` and `announced` record history for the properties. The action
`StartSpawn` joins the spawn and the assignment of the slot, and `StopTake` the take and the
signal: both pairs happen under the mutex and nothing reads the difference.

### LogRing

`Stamp` is `RingLogger::log` up to the lock: the time is read and the line formatted (l.40-44);
`Push` is the part under the lock. A line is its thread and its number; `pushed` is the history
of all lines.

### Mining

One action per round of the loop: `Mined` (the target is tested first), `GiveUp` (the look at the
clock), `NextNonce`. The nonce is kept modulo `CHECK_EVERY` (8192 in the code), which is all the
loop tests of it; the id of a round is any value. `now` is the wall clock that `now_ms` reads.
`elapsed`, `ahead` and `behind` record what the code cannot see: the time that has really passed,
and how far the clock was set on (`SetOn`) and back (`SetBack`) since the call began. The caller may
expect an end at `Deadline`, `max_ms` plus what the clock was set back; `overrun` counts the nonces
tried after it (up to `CHECK_EVERY`). `Tick` follows true time until one past the deadline, and
`MaxBack` bounds how far the clock is set back in one call. `leading_zero_bits` counts with `Pow2`,
the powers of 2 an id needs, a recursive function so that the provers can unfold it.

### ChatEvent

Strings are sequences of code points, because what can go wrong is a quote or a backslash in the
wrong place. A hash is the record of what was hashed and a signature names its key and the id it
is over, so both are ideal. `canonical` and `FastPathId` follow the two serialisers of the code;
`Written` is the digit loop of `mine` and `NonceDigits` the part of the array it fills;
`Escaped` is one round of `escape`. Numbers and codes are recursive functions and folds, so that
what they do can be proved of every input. `Alter` is a relay: it replaces a field, hashes again, or
puts in the key or the signature of another event; it cannot sign. `U32` stands for 2^32.

### Keys and Secrets

A secret is what a string spells, with its white space and its capitals apart. Derivation is ideal:
a key is its origin and its account, and stands for its viewing key and for the part of its address
after the prefix, both of which belong to one key. `resolve_secret`, `account_secret`,
`from_secret`, `account_key`, `sign`, `verify`, `chat_identity`, `decode_nip19` and the others are
the functions of those names, each with its own way to tell a phrase from a key; one that fails
returns the empty set, one that succeeds the set of its result. The functions of addresses leave the
network to `prefix_from` and `address_string`; `from_secret` has it, because a constructor given an
unknown network must fail. `HARDENED` stands for 2^31. A public key as bytes is no secret key, but
it is 32 bytes like one: only the prefix of the NIP-19 string tells them apart. `TooShort` and
`NoScalar` are the bytes that `decode_nip19` and `nsec_to_hex` refuse in a string whose checksum is
right.

The actions of `Secrets` are an app's use of them: start or import a wallet, retype the secret, keep
the key of one account in place of the phrase, restore the backup, show addresses, open and drop a
signer, enter a chat room, import a pasted identity, a damaged one included. Signing a message
changes nothing, so `ProofsHold` asks of every state what each signature made in it would prove.

### PaperWallet

`text`, `qr`, `unblurred`, `out` and `error` are the elements of the page: the three texts, the
three QR codes, the mask over the seed, the part that is displayed and printed, and the error
line. `boot`, `gen`, `derive`, `reveal` and `print` are the handlers. `render` writes the texts
first and then the codes, the seed's last; `qrcode` throws on a text too long for a code, and
what stands after it (the mask, the display, the clearing of the error) is then not done.
`print` works as soon as the page is ready; with nothing displayed the sheet has no wallet on it.
`unblurred` and `papers` remember what was asked for and what was printed. The detail of texts,
codes and error line is what `PaperWhole` and `RevealedOnRequest` tell apart.

### Payment

`signer` is the secret in the open `Signer`, `intent` what the user approved last.
`Authorize` is a call of `verify_and_sign_payment` with any bundle of the daemon at all, against
what was approved last: an answer to an earlier request, or one repeated, is among them. The
functions follow the code from the network (`Genesis`: only mainnet's genesis is pinned) over
the recipient (`Recipient`: decoded from what the user typed) and the fee (`BundleFee`:
`u64::try_from` of the signed balance, or 0) to what is passed to the SDK twice, as a claim about
the bundle (`Claimed`) and as what it is held against (`Wanted`). The SDK's
`SoftwareSigner::verify_and_sign` (`PaysIntent`), the daemon's choice of a bundle (`Bundles`)
and the chain's acceptance of one (`Accepted`, `Mine`) are external: their code is not here, and
they do what the code and its comments rely on. A bundle has two actions, the padding Orchard
gives the smallest one.

### ColdStorage

`stage` goes from the page to the paper to the signer. `Receive` sends coins to an address read
off the paper, as text or as code, and closes the tab; `Open` reads the seed off it, as text or
as code, into the signer; then payments are made as in `Payment`.

### Release

A run is dispatched on any ref (`Dispatch`): its jobs build that ref, while `publish` checks out
main. A run is a record: what it was asked for, the state of its four gating jobs, the artifacts they
left, and how far `publish` is. `Prepare` is the part of `publish` on the runner's own disk
(checkout of main, artifacts, rewrite, commit or "nothing to commit"); `PushMain`, `PushTag`,
`CreateRelease`, `Upload` (each asset on its own; a failed one may have lost the old asset) and
`PublishMaven` are the steps others can see, and `Fail` may come at any of them. `RerunFailed`
keeps the jobs that passed and their artifacts, `RerunAll` builds everything anew. A commit is
the sequence of contents that lead up to it, so ancestry is the prefix order. A build is its
run and its attempt: two builds never have one checksum. The package in the registry is a pair:
this run's libraries, and the sources of the module that Gradle builds around them, which are
those `publish` checked out. Which ref the libraries themselves were built from is not followed.
Runs that do not publish change
nothing here.

## 3. Runs

| Run | Checks | Bounds | Shows |
|---|---|---|---|
| `engine_safety` | `TypeOK`, `LockInv`, `NoOrphan`, `SingleEngine`, `PortAccounted`, `LossBounded`, `SlotNeverOverwritten`, `CheckpointForward` | 2 threads, 2 ports, 2 instances, 2 blocks, checkpoint every 2; symmetric | the safety of the calls under panics, timeouts, kills and stolen ports |
| `engine_live` | `EveryCallReturns`, `ApiRefined`, `CapWithinBudget` | 2 threads, 1 port, 2 instances, no blocks, a budget of 0 or 200 MB | no call hangs, `Engine` implements `EngineApi`, and caps fit a budget that changes at any moment |
| `engine_flush` | `StopFlushes` (refuted) | 1 thread | finding 1 |
| `engine_port` | `ReusedPortIsLive` (refuted) | 1 thread | finding 2 |
| `log_ring` | `RingTypeOK`, `RingIsRecent`, `OneInstaller` | 2 threads, ring of 2, 3 lines each | the ring and the installation |
| `mining` | `TypeOK`, `MinedBelowTarget`, `OverrunBounded`, `GivesUpLate`, `MiningEnds` | look every 3 nonces, ids of 2 bytes of 2 bits, `max_ms` of 0 and 2, clock set to 0 or 5 at any moment, back by 6 in all | the loop ends, overruns little and gives up early only by what the clock was set on, and returns what it should |
| `chat_event` | `VerifiedIsSigned`, `HonestVerifies` | 2 authors, 2 signed events, contents and tags of quotes, backslashes and commas, 2 alterations | canonical form, fast path and verification agree, and nothing of one event can be put into another |
| `chat_kind` | `TamperingRejected` (refuted) | kinds 1 and 1 + `U32` | finding 3 |
| `secrets` | `SameWallet`, `PhoneAndWebAgree`, `ProofsHold`, `ChatAndMoneyAgree`, `RoomIsOfBackup`, `RoomsDistinct` | 2 phrases, a good and a bad seed, 5 accounts around `HARDENED`, 4 spellings of a network, 2 messages | one secret means one thing, the phone opens what the web has an address for, a signed message proves control of exactly the right addresses, and two rooms are two identities of the backup |
| `cold_storage` | `PaperWhole`, `RevealedOnRequest`, `FundsReachable`, `PaidAsApproved`, `NoOtherChain`, `HonestAccepted` | a page seed, 5 typed secrets (one too long for a code, one bad, one a typo), coins of 3 and 1, a payee, amounts and ceilings of 1 and 2, outputs of 0 to 3, 2 payments | what is printed can be spent, and what is mined was approved |
| `release` | `TypeOK`, `TagOnMain`, `PinIsWhole`, `BinariesWereGated`, `AloneResolves`, `PublishedTogether` | 2 runs, 2 versions, 3 attempts in all, 1 other push to main; symmetric | what a publish leaves in branch, tag, release and registry after failures, reruns and pushes to main |
| `release_tag` | `TagResolves` (refuted) | 2 runs of one version, 3 attempts | finding 4 |

Why the bounds are enough. Two threads are what a race needs; a second instance is what an overlap
needs, and `InstanceToSpare` only bounds the instances alive at once, so starts, stops, kills and
timeouts may follow each other without end. Two ports let another process take the probed one while
a later start finds another. Two blocks with a checkpoint every two give progress that is saved,
unsaved, and older than another engine's. The ring of two is overwritten twice. For `mine`, an
interval of 3 nonces is passed many times before the deadline; a clock set back by 6 in all goes
back to before the call, and back again; two bytes make a count go over a byte boundary. Two
alterations are what a consistent forgery takes (a field, and the id or the signature to fit it).
Two coins let a bundle spend one, the other, or both; with two payments an answer to the first can
be passed on after the second was approved, and a coin made as change by the first can be spent by
the second; amounts and ceilings of 1 and 2 tell the amount, the fee and the ceiling apart, and
outputs of 0 to 3 make the balance negative, zero, right, and above the ceiling. Two runs with three
attempts between them give overlapping publishes, reruns that keep artifacts and reruns that do not.
The budget of 200 MB is the one that halves and divides to nothing; the theorem `CapsFit` is about
every budget. TLC's bounds are `Tip`, `Engines`, `MaxLines`, `MaxSigned`, `MaxAlterations`,
`MaxAttempts`, `MaxSrc`, `MaxCalls`, `MaxBack` and the finite sets of the `.cfg` files. `Release`
and `ColdStorage` may stop (a release is done, and the attempts are bounded; a paper is spent, and
the calls are bounded), so their runs do not check deadlock.

Fairness (`Engine!Fairness`). A thread that can take its next step takes it; the 15 s timer of
`shutdown_timeout` fires; and a thread that waits for a mutex which is free again and again gets
it (strong fairness: `std::sync::Mutex` promises no order, but the app's calls are seconds
apart). Nothing is assumed of the serve task, so `EveryCallReturns` holds though it may hang.
The safety properties need no fairness. `Mining!Fairness`: the loop runs on (nothing in it
blocks) and time passes; nothing is assumed of the hashes. A clock set back again and again would
keep the loop running for ever: `MiningEnds` is about one that is not (`MaxBack`).

Every property has a mutant: a plausible bug written beside the definition it replaces (marked
`mutant`), under which TLC finds the property violated.

## 4. Findings

1. **stop() may lose what it waits for** (`engine_flush`). The comment at l.274-279 says the
   graceful path gets time to drain and flush. `Runtime::shutdown_timeout` closes the scheduler
   first; a task is then dropped at its next await, as with `shutdown_background`. The timeout
   only bounds the wait for threads. The counterexample stops an engine with one unsaved block,
   the task is dropped while it serves, and `stop` returns with the block lost.
2. **start() may return a dead port** (`engine_port`). The Result of `serve` is ignored, so an
   engine that failed (for one, because its port was taken after `drop(listener)`) stays in the
   slot; the next `start` returns its port, against "returns the live port" (l.149). Only a
   `stop` ends this.
3. **The kind is cut to 32 bits** (`chat_kind`): a verified event may show a kind nobody signed,
   against "kind ... [is] rejected" in the README of chat-identity.
4. **A tag may pin what the release does not hold** (`release_tag`): the tag moves before the
   assets do. A repeated publish that fails in between leaves this at rest.
Other divergences were read while modelling and have no run of their own:

* "CI proves each release on a real Android emulator (`device` job) before anything is published"
  (`mobile/README.md` l.51-53) holds of the native libraries, and `BinariesWereGated` says so much
  and no more. The AAR in the registry is built again, around those libraries, from the Gradle
  module of main as `publish` finds it; the sources at the tag are main's too. The gates saw the
  dispatched ref, so they need have seen neither.
* After a `stop` that timed out, the engine left behind goes on until its threads end: the next
  `start` may run a second one beside it, which scans into the same directory and may flush late.
  `SingleEngine`, `NoOrphan`, `CheckpointForward` and `LossBounded` except exactly this.
* A running engine keeps the cap of the budget at its `start`; `set_memory_budget_mb` counts from
  the next one. `CapWithinBudget` therefore allows any budget that was announced.
* A network spelled "Mainnet" is accepted by every address function and by `from_secret`, and
  refused by `verify_and_sign_payment`: a signer opened that way can do everything but pay.
  `HonestAccepted` is about the exact spelling; `NoOtherChain` is about all.
* The prefix of the recipient's address is never compared with the network: a payment approved
  for a testnet address is made on mainnet, to the same key. `PaidAsApproved` speaks of the key.
* "Re-hide the seed each time a new wallet is generated" (`paper-wallet/template.html`) does not
  hold when the seed's QR code throws. The new seed then stands in clear if the one before was
  revealed, beside the old seed's code; the error line tells of it, but stays off the paper.
  `PaperWhole`, `RevealedOnRequest` and `FundsReachable` except exactly this.
* Log lines are not quite "oldest first" (`walletd-mobile/src/lib.rs` l.64): the time is read
  before the ring's lock (l.40), so two threads may push against the order of their times.
* Debug logging asked for before the first `start` is switched off by it (l.61).
* `mine` measures `max_ms` on the wall clock (`event.rs` l.304): a clock that is set back puts the
  end off by that much, one that is set on brings it forward. `OverrunBounded` and `GivesUpLate`
  say that it does no more than that.
* `account | HARDENED` (`chat-identity/src/lib.rs` l.163) takes accounts a and a + 2^31 for one
  path, where the money signer refuses the second. `RoomsDistinct` excepts that pair.

## 5. Proofs

`EngineProofs` proves, for every set of threads, ports, instances, budgets, every `Tip` and
every `CHECKPOINT_EVERY`, from `EngineAssumption` alone (the constants are numbers or distinct
values):

* `Typing` - `TypeOK`, which is inductive.
* `LockCorrect` - `LockInv`, inductive with `TypeOK`: a thread is inside a critical section
  exactly when it holds the mutex, and then the slot is empty. The second half is what makes
  the rest work: a `start` that passed the early return, and a `stop` past its take, both know
  that nobody can have filled the slot.
* `EnginesAccounted` - `NoOrphan`, inductive with the two above: `start` fills only an empty
  slot, so no instance is forgotten; `stop` leaves its critical section only when its instance
  has ended or is recorded as leaked.
* `OneEngineAtATime` - `SingleEngine` follows: two live instances that no stop gave up on
  would both be in the slot, or both with the holder of the mutex, or one in the slot while the
  mutex is held, and each is excluded.
* `SlotKept` - the action property `SlotNeverOverwritten`, from `LockInv`.
* `CapsFit` - `CapWithinBudget`, with the invariant that the current budget is among those
  announced and the lemma `CapFitsBudget` about the two divisions.
* `PortsAccounted` - `PortAccounted`, from `NoOrphan` and the invariant `PortInv` (an instance
  holds a port only while it serves or drains; the probe only between bind and drop).

* `LossIsBounded`, `CheckpointKept` - `LossBounded` and the action property
  `CheckpointForward`, from the invariant `ProgressInv`: while no stop has timed out, the
  lag of a working engine behind the checkpoint is at most `scanned % CHECKPOINT_EVERY`. A
  checkpoint is written only by the sole engine (`OneEngineAtATime`), which is why no other
  engine can move it back in between.
* `ApiImplemented` - `ApiRefined`: `Engine` implements `EngineApi`. The mapping shows the port of
  the engine in the slot, the call of each thread, whether it has its answer, and who is between
  taking the engine and returning. Each action of `Next` is shown to be one abstract step or to
  change nothing an app sees: the early return is `StartLive`, the spawn `StartFresh`, the
  failures and the panic `StartFails`, the take `StopBegins`, both ends of `shutdown_timeout`
  `StopEnds`; installing the logger, binding, dropping, closing the runtime and every step of
  the serve task stutter. The invariant `CallInv` supplies what the mapping needs beside
  `LockInv`: a thread with no call is idle, the port a `start` is about to answer with is one it
  probed, and an engine a `stop` gave up on never comes back to the slot.

`MiningProofs`, for every interval, byte width, clock and setting of it: `MiningTyping`;
`OverrunIsBounded` (`OverrunBounded`); `GivesUpNoSooner` (`GivesUpLate`). Both rest on `ClockInv`,
which relates the clock to true time: it shows the start of the call plus the time that has passed
and what it was set on, less what it was set back. So, past the deadline, the next nonce at which
the loop looks ends it, and fewer than `CHECK_EVERY` lie before it (`DeadlineInv`); and a loop that
gave up saw a clock more than `max_ms` past the start (`GaveUpInv`).
`MinedIsBelowTarget` (`MinedBelowTarget`) compares two ways of reading an id, as bytes whose
leading zero bits are counted and as one number. Its lemmas are by induction: powers of 2 grow
and their exponents add up; a byte with z zero bits in front is below 2^(`BYTE` - z); each
further byte raises the power its prefix lies below by `BYTE`.

`ChatEventProofs`, for every set of authors, texts, tags, numbers and nonces that
`ChatAssumption` admits, and for the real width of the kind:

* `CanonicalInjective` - two events with one canonical form agree in key, time, kind, tags and
  content. The argument is about codes, functions from values to texts: a code can be read back
  (`Delimited`) when a text starts with the code of at most one value. What `escape` writes for a
  character has this property and never starts with a quote (`EscapedDelimited`); a list of such
  codes, ended by something none of them starts with, has it too (`TerminatedDelimits`, by
  induction over the list); so quoted strings have it, tags, and the list of tags
  (`BracketsDelimited`, used twice). Numbers end at the comma (`Split`) and differ when their
  digits do (`DecimalInjective`). The key is not escaped: the theorem asks that it holds no
  quote, which is what `hex::decode` has checked before `verify_event_json` looks at the
  signature.
* `FastPathIsEventId` - prefix, digits and suffix of `mine` are the bytes of `canonical` with the
  nonce tag appended. It rests on `NonceIsDecimal` (the digits written backwards into the array
  are those `to_string` gives), `TagAppended` (the array of tags left open), and `PlainText` (the
  word "nonce" and digits need no escape). This is the `debug_assert` of `mine`, which a release
  build leaves out, for every event.
* `ChatInvariant` - the invariant `ChatInv`: every event an author got back is over its own
  fields (the mined ones by `FastPathIsEventId`), the one event in transit carries a signature
  that was made, it is unaltered while no relay touched it, and the verdict is that of
  `verify_event_json` on it. The relay's step keeps it field by field.
* `VerifiedEventsWereSigned` (`VerifiedIsSigned`) - a signature that fits the recomputed id was
  made over that id; ids are hashes, so the canonical forms are one, and so are the events.
* `SignedEventsVerify` (`HonestVerifies`).

`LogRingProofs`, for any threads, lines and capacity: `RingTyping`; `RingIsTail`
(`RingIsRecent`: the ring is the last lines of the history, as many as fit), by the positions of
a sequence that loses its head and gains an end; `InstallerIsOne` (`OneInstaller`, an
invariant) from the swap of `LOGGER_SET`.

`KeysProofs` holds what the other proofs need of the pure functions, for every secret: a key
resolves to at most one key, trimming does not change what it resolves to, the phone opens exactly
what the web makes an address of and makes the same one, and the chat tells a phrase from a key as
the money does.

`SecretsProofs`, for any phrases, seeds, accounts and messages, from `SecretsAssumption`:

* `ShownBelongs` (`SameWallet`), from `SecretInv`: the secret, and that of an open signer, stand
  for the account the app takes them for: a phrase only for account 0, a key for the account it
  was derived for.
* `SignedMessageProves` (`ProofsHold`): in every state of `SecretInv`, a signature made now
  verifies against an address that was shown if and only if account, network and message fit.
* `RoomBelongs` (`RoomIsOfBackup`), from `RoomInv`: the room's identity is derived from the backup
  or the key of one of its accounts. The import keeps it because `nsec` is the only prefix that
  decodes, and what it decodes to is the identity itself.
* `RoomsUnlinked` (`RoomsDistinct`): `index | HARDENED` keeps accounts apart modulo `HARDENED`.
* `PhoneAgrees` (`PhoneAndWebAgree`: same secrets, same addresses, on every network) and
  `ChatAgrees` (`ChatAndMoneyAgree`) hold in every state, because they hold of every string.

`ColdStorageProofs`, for any seeds, typed secrets, payees, amounts, ceilings, output values,
coins and number of payments (nothing is assumed of the page's seeds):

* `PaperIsWhole`, `PaperOpensItsFunds`, `OnlyRevealedIsClear` (`PaperWhole`, `FundsReachable`,
  `RevealedOnRequest`), from `PageInv`: the texts, the codes and each paper are of one wallet,
  but for the seed's code under a displayed error.
* `OnlyApprovedIsPaid`, `OneChain` (`PaidAsApproved`, `NoOtherChain`), from `ChainInv`: every
  released signature belongs to a call whose intent its bundle fulfils, and every mined bundle
  was signed for. The step that signs is the lemma `Checked` (what the SDK was told to hold the
  bundle against is what the user approved); the step that mines is `MineStep`, where the coins
  a bundle spends are old ones, so that what it fulfilled when it was signed it still fulfils.
* `HonestIsPaid` (`HonestAccepted`): for a signer that holds one valid secret, every check on
  the way passes on an honest answer.

`ReleaseProofs`, for any runs, versions, attempts and pushes:

* `ReleaseTyping`, with the invariant that a run that uploads has a release to upload to.
* `TagsOnMain` (`TagOnMain`), from the invariant that the commit a run has pushed stays in main's
  history. It rests on `MainGrows` (a push is a fast-forward, so main only moves forward) and on
  the transitivity of the prefix order.
* `PinsAreWhole` and `BinariesAreGated` (`PinIsWhole`, `BinariesWereGated`), from `GateInv`: every
  artifact, asset and tagged manifest is of a build whose gates were passed, with one lemma per
  step of `publish`.
* `AloneDoesResolve` (`AloneResolves`), from `AloneInv`, which says how far tag and assets have
  come at each step of the one run of a version.
* `PublishesTogether` (`PublishedTogether`), from `TogetherInv`: while no other run of its version
  comes in between, the tag stays at the commit the run made and the AAR in the release is that of
  its libraries, so what Gradle builds in the same checkout belongs to both.

Induction. The theorems about text, digits and leading zeros are by induction over lengths and
numbers. The induction theorems of the library take an operator, which the provers cannot
instantiate, so these modules state induction over a set of numbers and prove it from the
well-founded order (`Induction`, `StepInduction`). That a recursive function is what its
definition says is proved too (`Recursion`, `DecimalIs`, `WrittenIs`, `Pow2Def`, `IdValueDef`,
`FlattenIs`): TLA+ defines it by `CHOOSE`, and a solution must be shown to exist.

What is assumed. The named assumptions of the modules say only that constants are numbers, texts
or distinct values. In `ChatEvent` the ideal hash is injective and only the owner of a key signs
with it by construction of the model; the theorems are about everything around the two.

Only model-checked: liveness (`EveryCallReturns`, `MiningEnds`), which TLAPS does not treat. Every
invariant, action property and refinement of the passing runs has its theorem.

## 6. Not modelled, and why

* The inside of `zkas_walletd::serve`, tokio and the payment SDK: their code is not in this
  repository. They appear as external actions, as free as the calling code lets them be.
* `sign_spend_auth` of the money signer: it signs a bare hash, and nothing in the repository
  calls it or says of what. A property would have to invent its caller.
* The page's network selector (it chooses the prefix of the address, which the keys here do
  without), and `build.mjs`, which pastes the parts of the page together.
* Generated bindings (Swift, JavaScript): their handle maps and buffers are the
  generators' work. Android packaging and the smoke test have no state of their own.
* Cryptography, key derivation arithmetic and JSON parsing: ideal where they appear.
* GitHub itself: jobs, reruns, branches and the registry appear as the workflow uses them. The
  copies in `publish` that end in `|| true` are taken to succeed.
* Different `wallet_dir`s: one directory is the case in which engines can disturb each other.
* The other fields of `Config` (constants), and the text of log lines.

## 7. Plan

In order, the most important behaviour first. Each module declares its parameters as constants
with named assumptions, one action per operation, and no recursive operator where a proof is
meant. A new question joins the run of its module where one instance answers both; runs are kept
few, and each new module gets one of its own.

Done: all the modules above, with the theorems of section 5. Left:

1. `ChatEvent`: an abstract signed channel (an event in the set is verified; only its author adds
   one) that it refines, from `ChatInv`.
2. `Release`: an abstract release (tag and assets change in one step) that the pipeline refines
   as long as the publishes of a version do not overlap and do not fail.
3. The handle map and the buffer ownership of the generated bindings.
