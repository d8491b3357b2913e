# Ethos Aegis: models, checks and proofs

TLA+ models of the stateful parts of Ethos Aegis, the TLC configurations that
check them on small instances and the TLAPS proofs of their main properties.
Paths below are relative to `python/ethos_aegis/` unless they say otherwise.

    tlc -workers 2 -config EthosAegis.cfg MCEthosAegis     # one run
    tlapm AuditLedgerProofs.tla                            # one proof module

`PROJECT.json` lists the components, the runs, for every definition the lines
it models, for every checked property a plausible bug that breaks it, the
hazards of the code, the disagreements found by runs and the theorems.

## 1. Inventory

| component | state | operations | what is hard |
|---|---|---|---|
| Immune core, `core/aegis.py` | acuity of seven cells, antibody vault, engram list, three lifetime counters | `adjudicate` (calls the cells, then `inscribe` and `broadcast_cytokine_storm`) | a verdict depends on every earlier verdict through acuity and memory; long sequences reach states no test does |
| `NeuroStressBuffer`, `vitality/protocol.py` | token bucket, breaker, window of verdicts | `acquire`, `record_result` | a caller is between the two for a whole adjudication; fractional refill; an open breaker cuts off what would close it |
| `AegisVitality`, `vitality/protocol.py`, `agent/genesis.py` | nutrients, synthesized patterns, regimen results, boost | `adjudicate_with_vitality`, `nourish`, `exercise`, `consolidate`, `evolve`, `health_report` | callers inside one another's calls, between the gate, the core and the assessment; `consolidate` rewrites the core's memory, `exercise` heightens its cells |
| Policy engine, `private_shield/policy.py`, `models.py` | none (pure) | `evaluate` | intersection of project, agent, tool, time, risk and data flow |
| Secret broker, MCP mediator, audit chain, `private_shield/` | secrets, leases, receipts | `register`, `request_lease`, `execute`, `revoke`, `invoke`, `append` | foreign code runs in the middle of `execute` and `invoke` and may call back; exceptions between use and receipt |
| Agent harness, `harness/` | conversation and turn counter in memory, checkpoint files, progress file | `run`, `assemble`, `parse`, `verify`, `save`, `load_latest`, `write_progress`, `execute_batch` | crash and resume, retries of three kinds, prompts that mask and summarise, concurrent read-only tools |
| `SentinelAI` and provider adapters, `agent/` | conversation, counters | `chat`, `stream_chat`, `reset_conversation`, `evolve_now`, `complete` | streams that overlap, fail or are dropped; providers that want turns to alternate |
| `AuditLedger`, `security/vault.py` | chain in memory and in a file | `record`, `verify_chain`, `_load` | crash in an append, swallowed write errors, edits of the file |
| Evidence ledger, `mythos_runtime/assurance.py`, `veriflow_runtime.py` | ledger file, lock file, a flag per process | `append`, `events`, `verify`, `authorize`, `record` | several writers, stale lock, retention, removal of the file |
| Strict writes, `mythos_runtime/swd.py`, `memory.py`, `drift.py` | files, ledger of receipts | `write_text`, `append_verified`, `scan` | no lock anywhere; crash between file and receipt |
| HTTP server, client SDKs, `server.py`, `sdk/` | core of the process, counters of a client | `POST /adjudicate`, `guard` | timeouts, retries of what was already judged, restarts |
| `AutonomicSentinel`, task simulation, TypeScript emitter | digests; task state; listeners | | see section 8 |
| VeriFlow, Celestial, security toolkit, Ethos-4D, graph | none, or external | | see section 8 |

Interactions: `AegisVitality` calls the buffer, then the core, then the buffer
again; the server calls the core directly, without the gate. The harness and
`SentinelAI` put every text to the core or the pipeline and act on the depth of
its verdict. Broker and mediator put every request to the policy engine and
append to one audit chain; adapters and handlers may call either again.
Processes meet only in files: the evidence ledger under a lock, strict writes
and checkpoints without one. Everything else is synchronous in one thread but
the harness's read-only tools, which run in a pool.

## 2. Modules

| module | models | uses |
|---|---|---|
| `EthosAegis` | the immune core | |
| `NeuroStressBuffer` | the stress gate | |
| `RateMeter` | what the bucket promises, measured from outside | extends `NeuroStressBuffer` |
| `AegisVitality` | the pipeline around the core | instances of `EthosAegis` and `NeuroStressBuffer` |
| `PolicyEngine` | `evaluate` as an operator | |
| `RiskEnvelope` | one request evaluated again as risk and time change | extends `PolicyEngine` |
| `PrivateShield` | broker, mediator and chain at run time | extends `PolicyEngine` |
| `CheckpointStore` | the files of one session_id | |
| `HarnessContext` | what the model is shown of a conversation | |
| `OutputParser` | what a response is taken for, and the verifiers | |
| `AegisHarness` | the agent loop, with crashes | extends the three above |
| `SentinelAI` | the guarded conversation and the requests to providers | |
| `EventLog` | abstract: a log that is extended at its end, may lose a tail, or drops from its front under retention | |
| `AuditLedger` | the vault's ledger | implements `EventLog`'s steps `Extend(0)` and `Lose` |
| `EvidenceLedger` | the evidence ledger and its writers | implements `EventLog!RetainedSpec` |
| `StrictWrite` | `write_text`, receipts, drift scan | |
| `AegisClient` | clients, server, and the core behind it | an instance of `EthosAegis` |
| `MC*` | values of the constants for TLC | |
| `EthosAegisProofs`, `PrivateShieldProofs`, `AegisHarnessProofs`, `AuditLedgerProofs`, `EvidenceLedgerProofs`, `StrictWriteProofs`, `AegisClientProofs`, `AegisVitalityProofs` | lemmas and theorems about the module of that name | extends it, and TLAPS |

Three proof modules also hold the theorems of a smaller module that stands
beside theirs and extend it too: `EthosAegisProofs` those of the gate (`RateMeter`),
`PrivateShieldProofs` those of the policy engine alone (`RiskEnvelope`),
`AegisHarnessProofs` those of the guarded conversation (`SentinelAI`). That is why
the smaller three name their parts apart (`BufferSpec`, `EnvelopeSpec`,
`SentinelSpec`); nothing in these proofs relates the two specifications.

**EthosAegis.** A payload is a value and `Scan[payload]` says what the regular
expressions and counts of each cell find in it; text never appears. Everything
that decides what follows is kept: which findings are compared with acuity,
which sigils are CONDEMNED, the order in which the stages run, which findings
reach memory and which of those are long enough to become an engram, and that
the engram list, unlike the vault, keeps duplicates. Confidence and acuity are
integers, hundredths. `adjudicate` is one action because it takes no callback and
yields nowhere. `attenuate` is not an action: nothing calls it.

**NeuroStressBuffer.** `acquire` is `Permit` or `Refuse`, `record_result` is
`RecordResult`, and `inFlight` counts the callers between the two. The bucket
counts units, `Cost` of them to a token, so that a tick may refill a fraction of
a token as the float does. `elapsed` is the time since `_last_refill`; it stops
at the first value that is sure to fill the bucket. `RateMeter` adds no
behaviour: it starts a meter at any moment and counts permits and ticks.

**AegisVitality.** A text has a `Scan` with and without zinc, and a `Reading`:
what protein, B12 and the synthesized patterns find in it, whether vitamin C
does, and what the probiome makes of it; `Said` are the texts that callers bring.
Each of the callers goes through
`adjudicate_with_vitality` in four steps, as the gate's lock covers no more than
one call of it: `Admit` (or `Block`) up to the gate's answer, `Judge`, the
`Record` of the verdict, and `Assess`, which may activate the boost. Between them
other callers go through theirs, and `Direct` is somebody else's call of the same
core. `Evolve` keeps the patterns of the best coverage, `MaxPatterns` of them. A
regimen runs its corpus text by text (`Train`), on the live core and past the
gate, while no caller is inside. `Consolidate` prunes, deduplicates and rebuilds; the
engram list is the bag of `EthosAegis`, so the order among equals is a choice.
The score and the assessment are integer arithmetic in tenths, rounded where the
code rounds; `CellLevel` takes account of what the floats 0.1, 0.2 and 0.3 are, and
`CellLevels` adds up the seven cells one by one.

**PolicyEngine.** Resource, action, path, environment and network destination of
a request are one target, and a policy or a grant covers a set of targets, which
is what the code's conjunction of five tests amounts to. Data flow (destination
and classification), time, risk and approval are kept as they are.
`RiskEnvelope` and `PrivateShield` both use this operator.

**PrivateShield.** `stack` holds the `execute` and `invoke` calls in progress,
innermost last: `BeginUse` and `BeginTool` are the code up to the call of the
foreign function, `EndUse` and `EndTool` the code after it, and everything else
may happen in between. `Escape` is an exception nobody handles before the
receipt (an output string that does not encode, an output too deep for json);
`Interrupt` unwinds every call, because the code catches `Exception` only. The
hashes of the receipts are left out: the chain is a list in memory to which
only `append` writes.

**CheckpointStore, HarnessContext, OutputParser, AegisHarness.** A checkpoint
file is absent, torn (truncated by `open(..., "w")` and not written yet) or holds
a state. A message is what it is for, and a session is told by the run that
began it, since one session_id may see several goals. The model answers with any
of `Response`, native dicts and texts of every form the parser tells apart;
`Parse` decides between handoff, final answer and calls. `Prompt` is
`ContextManager.assemble`: old tool outputs masked and, over the budget, the middle
summarised; whether a prompt is over is a choice. What is shown is a set of places
of the conversation, because nothing depends on how it is put together. `Crash` is a dropped
generator, an exception that leaves `run`, or the end of the process. A
session_id is used by one process at a time.

**SentinelAI.** A text is the number of its adjudication. `stream_chat` is a
generator, so `StreamBegin` and `StreamEnd` are separate steps and the caller does
anything in between; `StreamDrop` is a dropped or failing stream, and
`ChatInterrupted` an exception out of `complete` that is no `Exception`, which leaves
the question in the conversation. `Contents` is
`_to_gemini_contents`, its two loops as recursive functions of the number of
messages dealt with (`Gathered`, `Emitted`), and each provider has an operator for
the request it is sent.

**EventLog, AuditLedger, EvidenceLedger.** `EventLog` is a log that is extended
at its end and never rewritten, with an anchor for what was dropped from its
front. `AuditLedger` has the chain in memory, the file line by line, writes that
land whole, cut short, without their newline or not at all, deaths, reloads, and
edits of the file from outside: `Alter` (any field but the two hashes, the sequence
number among them), `Garble`, `Delete`, and `Forge`, which inserts or replaces an
entry by one with any number, any link and a hash that fits it, for the hash has no
key. An entry is as `record` hashed it, forged, or stale; the history `forged`
remembers that somebody forged one, or took out a line that did not parse and so
gave back those behind it. `EvidenceLedger` has writers that take the time,
the lock, load, replace and release in separate steps, and fail or die at each; a
dead writer's lock file stays until `CleanLock`. Hashes are ids: as good as unique.

**StrictWrite.** The snapshot, the replacement, the second snapshot and the
receipt of `write_text` are separate steps, and so are the reading of the ledger
and each comparison of a scan. Nothing excludes two writers, an editor or the scan
from coming in between. `CompareUnread` is a comparison whose own snapshot raises
(`drift.py:32`): the path is reported as drifted, and the history `unread` keeps it.
A content is as good as its SHA-256.

**AegisClient.** The server handles one connection at a time (`Serve`), judging
with the immune core itself, and does not notice clients that gave up. A client is
a thread that guards one message after the other, in Python without retries, in
Go with `MaxRetries` of them. A verdict is counted first; then the call fails in
`auto_evolve`, raises (the clients in `Raising`, when the message is condemned), is
forwarded to the model or is refused (`Outcome`). `Attempts` is the set of attempts that the calls made
so far allow, against which the judgements of the server are counted.

## 3. Runs

| run | checks | bounds, and why they are enough |
|---|---|---|
| `immune_core` | `AcuityFollowsStorms`, `MemoryWindow`, `FirstRepeatCaught`, `UnconditionalFloor`, `VaultMatchesEngrams`, `DetectionOnlyShrinks` | eight payloads, one for each way a finding depends on acuity and memory; five adjudications: four storms take the lowest acuity (0.65) to the ceiling |
| `storms_sharpen` | `StormsSharpen`, violated | three adjudications |
| `stress_buffer` | `CircuitMatchesWindow`, `RateHolds`, `BreakerLatches`, `NoStarvation` | token of 3 units, 2 a tick, capacity 7: every remainder occurs; window of 5, 3 verdicts to begin, 80 %: open, hysteresis and closed all occur; two callers inside; meter of 6 ticks |
| `vitality` | `LearnedPatternsMuted`, `OnlyStressAsksForABoost`, `OverwhelmedStays`, `NeverForgets`, `FitnessOnlyFalls` | the code's own corpora (the five clean warm-ups as one); two callers (symmetric) and three texts they may bring; three operations, each an admission, a verdict from elsewhere or a regimen, and any number of treatments, evolutions and consolidations; three patterns a cycle where up to five are made; a bucket of 2 that a tick fills and a window of one verdict, so that with a caller inside the verdict of the other opens the breaker, and the late one closes it or is assessed while it is open; a condemned phrase of 32 characters inside the 40 of a template that quotes it (redundant by rank), a fragment of nine characters (pruned), memory cap 3, so a fourth listing is over it |
| `risk_envelope` | `NoConfusedDeputy`, `CapabilitiesContract` | five grants that differ in ceiling, lifetime, egress and approval; risk 0..2 in five domains; time 0..3, past every expiry that is on a boundary |
| `private_shield` | `UsesWithinLease`, `EvidenceWithinUses`, `ConsumptionTraced`, `DeadStaysDead` | two leases (symmetric), two uses each, calls nested two deep, time 0..2, a grant that ends before its leases, three receipts: a lease, its nested use and a tool call |
| `harness_sessions` | `HistoryDurable`, `FinishedStaysFinished`, `LostOnlyToShadow`, `PromptShowsWork`, `RunEnds` | two turns, three runs (two sessions and a resumption, or a session resumed twice), one retry, two verifiers, anchor and recent window of 2 (2 and 6 in the code), so that a batch fills the window |
| `sentinel` | `TurnsPair`, `ContentsFaithful` | four messages: two overlapping streams around a chat and a reset; a cycle every two messages, two cycles; a system message inserted at every place |
| `audit_ledger` | `OnlyHarmBreaks`, `SequencesIncrease`, `VouchedIsAppendOnly` | four entries, forged ones included, two edits of any of the kinds above: a line can be cut, garbled by the next, lost on reload and written after again, and an edited number or a forged entry be loaded and recorded after |
| `evidence_ledger` | `LedgerVerifies`, `KeptIsRetainedLog`, `GoneStaysGone`, `AppendEnds` | two writers, three events against a limit of two, age limit of one tick in two, one removal of the file, a grant that expires and one that is refused |
| `strict_write` | `NoFalseAlarm`, `ReceiptsFollow` | two writers, two paths, two contents (all symmetric), two receipts, one edit from outside; any comparison may fail to read |
| `sdk_clients` | `RetriesAreBounded`, `StatsTellOutcomes`, `CallEnds` | a Python client with two calls and evolution every second, a Go client with one call and two retries; both raise on condemned; four messages: one sanctified, one sanitized, one condemned until the core is heightened, one not taken; one restart of the server |

Constants that only bound the state space: `MaxAdjudications`,
`MaxOperations`, `MaxInFlight`, `MaxTicks`, `MaxRisk` (the grain of the risk scale),
`MaxNow`, `MaxClock`, `MaxDepth`, `MaxReceipts`, `MaxRuns`, `MaxRecords`,
`MaxHarms`, `MaxMinted`, `MaxRemovals`, `MaxEdits`, `MaxEvolutions`,
`MaxRestarts`. `MaxTurns`, `MaxToolRetries`, `MaxEngramRetention`, `MaxPatterns`, `MaxEvents`,
`MaxAge`, `MaxTtl`, `Retries`, `Anchor` and `Recent` are settings of the code.
Deadlock is switched off where the bounds let the system stop (five
adjudications, three runs, time at its end); the stress buffer can always tick
and an idle evidence writer can always die and start, and there it is on.

What the passing runs show.

- *Core.* The counters and the seven acuities, changed in different methods,
  never drift apart; the memory works in exactly one window, after the first storm
  and before the second; findings that should not depend on acuity do not, after
  any history; the two memory structures agree.
- *Gate.* In every interval, wherever it begins, permits are at most a full
  bucket plus the rate; the breaker never disagrees with its window beyond the
  hysteresis; refused callers never keep one another from the next token.
- *Pipeline.* Two storms mute everything protein and evolution taught the probe.
  A system overwhelmed before its boost came never gets one, once the callers that
  were inside have left. Consolidation,
  whatever it prunes and merges, keeps an engram for every text it recognised,
  unless the list is over its cap. No regimen scores above the one before. The
  report asks for a boost under stress and at no other time: without stress the
  score stays at 50 or above, however worn the cells are.
- *Shield.* A nested or failing use is still a use; a revoked lease is dead even
  while a use of it is in progress; the chain never shows a consumption without an
  earlier authorization for the same subject, secret, capabilities and risk, nor
  more consumptions than uses.
- *Harness.* A resumption continues exactly one conversation, a finished one
  never runs again, only one thing can hide the last checkpoint; the prompt shows
  the goal, the last message and every result not yet read, as long as a batch is
  no longer than the recent window.
- *Conversation.* Whatever order streams end, fail or are dropped in, each
  question has its one answer behind it or none; each provider is sent all of it.
- *Ledgers.* The vault's chain looks tampered with only if it was, or if a write
  was lost in silence. While the process runs, what `verify_chain` vouches for is
  never rewritten even if the file is; after a restart it is a beginning of what it
  was, unless somebody forged a line, and then it may be anything (section 4). The evidence ledger verifies for a reader without the lock at
  any moment; nothing but retention drops an event.
- *Strict writes.* The drift scan accuses only a path that something happened to,
  or that it could not read;
  receipts of a path form a chain unless writes crossed.
- *Clients.* A message can storm the core at most once an attempt; stats agree
  with outcomes up to the difference between the languages that the property
  spells out; every call ends without the help of the server.

## 4. Disagreements between the code and what is said of it

One has a run:

| run | the code | the text |
|---|---|---|
| `storms_sharpen` | `heighten` raises the threshold a finding must reach, so cells find less after a storm (`core/aegis.py:325`, comparisons at 439, 555, 664) | "making the system more sensitive to subsequent inputs" (`core/aegis.py:1148`) |

The others show in the models without a run of their own:

- Every attack of a regimen is a storm on the live core, so a regimen measures
  cells that the ones before have dulled, and none scores above the last:
  `FitnessOnlyFalls` holds, and falls are reached. The docstrings say the opposite:
  "regular stress testing that keeps every SentinelCell in peak condition"
  (`vitality/protocol.py:754`), "consistent moderate exercise builds lasting immune
  resilience" (769), and the report advises "Re-run KineticRegimen — fitness score
  below threshold" (1528).
- `verify_chain` recomputes a SHA-256 without a key and looks at no signature
  (`security/vault.py:118`, `171`), so an entry that is rewritten together with its
  hash, or added at the end, is vouched for: `Forge`, and the exemption of `forged`
  edits in `VouchedIsAppendOnly` and `SequencesIncrease`. The docstrings: "altering
  any entry breaks the chain for all subsequent entries" (`vault.py:91`), "Deleting
  or modifying any entry breaks the hash chain starting at that point" (128).
- An open breaker refuses everything, and only a recorded verdict can close it
  (`vitality/protocol.py:1170`): `BreakerLatches`. The docstring (1130) says it
  "restricts full-pipeline processing to a reduced rate".
- A grant past its risk ceiling no longer asks for approval: REQUIRE_APPROVAL at a
  low risk may be ALLOW at a higher one (`policy.py:146`). What does contract is the
  set of capabilities: `CapabilitiesContract`. `docs/private-shield/CONSTITUTION.md:21`:
  "Authority contracts as uncertainty increases."
- A string with a lone surrogate makes the output check raise
  `UnicodeEncodeError`: the use is taken and no receipt appended
  (`secret_broker.py:296`, `Escape`). Hence `EvidenceWithinUses` is an inequality.
  `CONSTITUTION.md:105`: "lease consumed/revoked -> evidence receipt".
- `execute` looks at the lease's expiry only, so a lease outlives the grant it was
  issued under (`secret_broker.py:183`). `CONSTITUTION.md:20`: "Grants expire with
  the task/session."
- The last checkpoint by name is the highest turn, which an older finished session
  may own (`harness/state.py:67`): `LostOnlyToShadow` says this is the only way to
  lose one. `state.py:60`: "Load the most recent checkpoint for a session."
- Only `tripwire` is tested on an answer, and GRAVE sets none
  (`orchestrator.py:206`): `Answers` admits a GRAVE answer. `guardrails.py:87`:
  "GRAVE risk detected — blocked for safety".
- Once `progress.json` exists `load_latest` opens it as a checkpoint and raises
  `KeyError` (`Loadable`); "one retry" of a failed verification
  (`orchestrator.py:217`) is a retry every turn (`Correct`);
  "checkpoint-on-every-superstep" (`state.py:4`) does not hold for turns that end in
  a correction or a transient error. A verifier that fails with a score of 0.4 or
  more passes, though `verification.py` says the first failing result is returned.
- A batch of eight tool results (seven after a crash and a resumption) is masked
  before the model has read it (`context.py:99`); over the budget with fewer than
  eight messages the two ends of a compacted prompt overlap, and it gets longer.
- Deleting the last entries does not break the chain either. After a line cut
  short everything recorded later is unreachable on every load, and its sequence numbers are used again; a swallowed
  write error makes the ledger look tampered with after a restart.
- An evidence event is stamped before the lock is taken, so stamps may be out of
  order and retention by age stops at the first fresh one; `append` may raise with
  its event on file; a grant may expire while its evidence waits and still be
  returned; a file removed while a writer has it loaded comes back.
- A retry of `write_text` after a death between file and receipt finds the content
  "unchanged" and writes no receipt, so the path stays reported as drifted; a
  receipt cut short makes `list_events` and `scan` raise for ever. A path whose
  snapshot raises `OSError` in the scan itself is reported as drifted
  (`drift.py:31`), untouched as it may be, and not as unknown, the field of the
  result that nothing ever fills: `CompareUnread`.
- `stream_chat` counts an adjudication without looking whether a cycle is due, so a
  multiple of `evolve_every_n` reached by a stream is skipped; `forwarded` is the
  raw message, though the normalised one was adjudicated; a blank prompt of a call
  suppresses the adapter's own.
- Consolidation "merges into single, stronger entries" (`protocol.py:952`): of two
  entries with one text the milder depth wins. Evolution without nourishment adds
  patterns nothing consults. The levels LEUKOPENIC and SEPTIC of the whole system
  cannot be reached (`OnlyStressAsksForABoost`).
- The server never sends `purified_payload`, so `guard` refuses every sanitized
  message over HTTP. `auto_evolve` over HTTP raises at every n-th adjudication,
  after counting it. A message that was condemned twice, its answers lost, is
  sanctified at the third attempt of a Go client, because the first two were storms.
  Go and Rust count as blocked the condemned only and refuse more. With
  `raise_on_condemned` or `ThrowOnCondemned` a call ends in an error after it was
  counted as adjudicated and blocked.

## 5. Fairness

- `NeuroStressBuffer`, `RateMeter`: weak fairness of `Tick` (`time.monotonic`
  advances), of `Record` (`adjudicate` is a finite computation and
  `adjudicate_with_vitality` records its verdict) and of `Acquire` (callers keep
  asking; without it nobody would be there to starve). `Permit` has no
  fairness of its own: which answer a caller gets is the code's.
- `AegisHarness`: weak fairness of `Loop` as a whole. The consumer keeps asking
  the generator for events, and model and tools return or raise. Which of its
  outcomes a step has is never forced, and neither is a crash.
- `EvidenceLedger`: weak fairness of `Proceed(w)`, the steps of a call already in
  `append`: the wait for the lock has a deadline (`assurance.py:74`) and the rest is
  local work. Neither the operator nor any other writer is required to do anything.
- `AegisClient`: weak fairness of `ClientStep(c)`: a socket has a timeout
  (`client.py:232`; Go's `http.Client` and its context). Nothing is asked of the
  server.

The other specifications state safety only and need no fairness.

## 6. Proofs

Theorems hold for every value of the constants that satisfies the named ASSUMEs
of the modules; TLC evaluates those on every run.

| theorem | property | the argument |
|---|---|---|
| `EthosAegisProofs!TypeCorrect` | `TypeOK` | Every cell returns a finite set of Maligna (lemma per cell), so `Signals` and the increments of `inscribe` are naturals. |
| `AcuityTracks`, `MemoryCloses` | `AcuityFollowsStorms`, `MemoryWindow` | `Respond` raises `Storms` by one exactly when it heightens; two storms put the memory's acuity at 0.90, above its confidence. |
| `StormsNeverSharpen` | `DetectionOnlyShrinks` | `Heighten` never lowers an acuity, and findings are antitone in it. |
| `FloorHolds` | `UnconditionalFloor` | The verdict is a maximum that exists (a finite range of naturals) over a set holding every unconditional depth. |
| `StoresAgree` | `VaultMatchesEngrams` | Both halves inductive together; a listing grows only by a counted, hence existing, finding that is also put in the vault. |
| `RepeatCaught` | `FirstRepeatCaught` | `Remembered`: the step of the first storm finds the cells at their first calibration, so it lists an engram of the payload that raised it, if that one can be remembered at all; a step without a storm leaves the list alone. One storm leaves the memory's acuity at 0.80, below its confidence of 0.87, and what memory reports is GRAVE. |
| the same module: `BufferTypeCorrect`, `BreakerAgrees` | `CircuitMatchesWindow` | A verdict changes window and breaker in one step; `Hysteresis` says a window cannot be overwhelmed and normalized at once. |
| `OpenForGood` | `BreakerLatches` | "open and nobody inside" is itself inductive. |
| `RateBounded` | `RateHolds` | Not inductive: what matters is also what the bucket could still answer with. `Budget` adds it (spent + refilled ≤ capacity + rate · time) and is inductive. |
| `AegisVitalityProofs!OverwhelmedForGood` | `OverwhelmedStays` | Of any number of callers, and with no invariant: "open, nobody inside, no boost" is its own. With nobody inside, no caller can judge, record or assess; the open breaker permits nobody; the rest touches neither breaker nor boost. |
| `LearningIsMuted` | `LearnedPatternsMuted` | `CellsFollowStorms` ties every acuity to the storms through the instance of `EthosAegis`; 0.75 + 0.20 exceeds the ceiling 0.88 of a pattern. |
| `ReportFollowsStress` | `OnlyStressAsksForABoost` | `Reportable` types what the report reads. A cell cannot drift further than from its calibration to certainty, so the seven levels together never fall below 22 (`CellsStayWell`); the memory bonus and the fitness are natural numbers, and without stress the load is at most 80 %: the score is at least 64. |
| `SleepForgetsNothing` | `NeverForgets` | `MemoryListed`: finitely many engrams are listed, each finitely often. Within the cap the pruning then drops the short ones and nothing else (`PrunedIs`). Of the engrams kept whose text is quoted take a shortest (`SmallestMember`, from the library's well-foundedness of `<` on the naturals): what would make it redundant is inside it, hence quoted too (`FragmentsAssumption`) and shorter. So it stays, or a milder entry with the same words does (`SleepRecalls`). A verdict never takes a listing away (`InscribeCounts`). |
| `ExerciseNeverHelps` | `FitnessOnlyFalls` | What is `Plain` is shown by the cells alone, at their acuity of the moment, and nothing lowers an acuity, so the plain texts only get fewer (`FindingsFall`, `PlainFalls`). A plain text is judged correctly whatever memory and nutrients add (`PlainIsCorrect`), and after two storms no other is (`CorrectIsPlain`). `StormsGathered` says that no regimen ends before the second storm: two of its injections are heard above one. So the tally is at least the plain texts passed, and `NoBetterAhead`, the inductive part, bounds by the last result what the tally and the plain texts still to come would score (`CompositeRises`). `CorpusAssumption` states what all this takes for granted of the corpora. |
| `PrivateShieldProofs!EnvelopeTypeCorrect`, `NoDeputy`, `RiskContracts` | `NoConfusedDeputy`, `CapabilitiesContract` | `Maximum` exists and rises with each score; `MatchingGrants` is antitone in risk. |
| `ShieldTypeCorrect`, `UsesBounded` | `UsesWithinLease` | Uses and remaining uses change together in `BeginUse`, which wants a use remaining; leases are born with a full count, and no lease id is used twice (`UsesBalanced`). With the type of what remains the uses are at most the lease's. |
| `EvidenceBounded` | `EvidenceWithinUses` | Receipts on the chain and uses in progress are counted together, with equality nowhere assumed: `BeginUse` adds one to the frames and one to the uses, `EndUse` trades a frame for at most one receipt, every other return or exception only takes frames away. Lemmas `ReceiptCounted`, `CallCounted`, `ReturnCounted` say what one append and one return do to the two cardinalities. |
| `RevocationFinal` | `DeadStaysDead` | No step but `BeginUse` takes a use, and no step clears `revoked`. |
| `ConsumptionsTrace` | `ConsumptionTraced` | Not inductive: a receipt is written from a frame, a frame from a lease. `LeasesTraced` and `FramesTraced` say the authorization is already in the chain for those, and the chain only grows. |
| `AuditLedgerProofs!TypeCorrect`, `BreaksOnlyByHarm`, `SequencesAreUnique` | `OnlyHarmBreaks`, `SequencesIncrease` | What a restart will read decides: `IInv` speaks of `chain` and of `Loaded(file)` alike. `Honest` says that without harm all of both verify; that no number in the chain exceeds `seq` holds whatever is done to the file. What holds until a line is forged is `Sound`: `Agrees` says that the lines which verify are the first entries of the chain, `Ordered` and `Numbered` that every entry links to one as late as all before it and that recorded entries have rising numbers up to `seq`. |
| `VouchedLogIsAppendOnly` | `VouchedIsAppendOnly` | Refinement. A record extends what is vouched for by one entry or is of no account; a restart cuts it to a prefix, by `Agrees`, unless a line was forged; edits of the file change nothing before the next restart. |
| `EvidenceLedgerProofs!TypeCorrect`, `AlwaysVerifies` | `LedgerVerifies` | `Excludes`: the lock names the one writer that is past it. `HoldsFile`: what that writer loaded is what is on file, or the file was removed. Retention leaves a chain that starts at its new anchor (lemmas on `Without`, `AgedUpTo`, `Retained`). |
| `DisappearedStaysGone` | `GoneStaysGone` | A ledger comes back only through `Replace` of a writer that loaded before, or `Load` of one that never saw it. |
| `EvidenceIsRetainedLog` | `KeptIsRetainedLog` | Refinement, with the ledger taken from the writer that has it loaded when the file is gone. By `HoldsFile`, `Replace` is `Extend(n)` with n the events that both retentions drop; removal is `Erase` or nothing. |
| `AegisHarnessProofs!ConversationsAreDurable` | `HistoryDurable` | Not inductive: what a resumption reads must be ordered among the files too. `Filed` (a file has the number of its turn), `Chained` (two files of a session are two moments of one conversation) and `Counted` (turn counter and phase) make it so. |
| `EndedForGood` | `FinishedStaysFinished` | `Superseded`: an unfinished checkpoint of a finished session is never the last file, so `Latest` cannot return it, whatever later sessions overwrite. |
| `OnlyEndedSessionsHide` | `LostOnlyToShadow` | `Shadowed`: a last file beyond the turn of the run in progress is an older session's, and ended. |
| `PromptIsComplete` | `PromptShowsWork` | `Conversing` says where unread results can stand: behind the last answer, with nothing but results after them and at most the goal of a resumption at the very end. `UnseenIsRecent` makes of that a bound on the distance from the end, which masking and compaction spare. |
| the same module: `TurnsArePaired` | `TurnsPair` | `TurnInvariant`: no turn is there twice, each belongs to a message adjudicated, an open or abandoned stream has no answer yet, any other question has one behind it, and a message whose question is missing was cleared while open. The last part is needed of open streams before their answers come. |
| `ContentsAreFaithful` | `ContentsFaithful` | About the operators alone, for any sequence of messages whose roles are the three: `CountingUp` carries a fact over the items of a recursive function, from the least counterexample. Gathering leaves no two preludes in a row (`CleanedIsApart`). Appending a part keeps the turns alternating and adds at most that part, behind all that was said (`AppendTurnStep`), so after n items n things are said, each at its rank (`Said`). `Ready` adds what the next append relies on: the last turn is no empty filler, and if it is a prelude no user's message comes next. `TurnInvariant` then types the conversation. |
| `StrictWriteProofs!ScanCriesNoWolf`, `ReceiptsContinue` | `NoFalseAlarm`, `ReceiptsFollow` | One invariant for both. A call nobody came across is alone with its path (`Alone`), knows what is in the file (`Knowing`) and began where the last receipt ended (`Following`); a path nobody is writing is as its last receipt says (`Settled`), and what the scan still has to compare is as it read it (`Explained`); all of it unless the path is suspect. A snapshot of the scan that fails is on record (`unread`). |
| `AegisClientProofs!AttemptsJudgedOnce` | `RetriesAreBounded` | An attempt is spent once it was sent or never will be. Attempts judged or waiting are no more than the spent ones (`SpentBounds`): a step that sends spends one attempt that was not spent, and a judgement moves one from the backlog to the count. |
| `StatsAreTrue` | `StatsTellOutcomes` | `Told(c)`, for one client at a time: the calls that `auto_evolve` interrupts are a quotient of the counter, which one more adjudication raises by one exactly when it is a multiple (`NextQuotient`). What a verdict adds to each counter and which outcome it has are tied in `ReceiveCounts`: what is raised was blocked. |

Where a property is about "the longest prefix that", the definitions use a
maximum over a set of lengths and not recursion. The library's induction theorems
take a predicate, which the provers cannot be given; a fact about all the steps of
a recursive function is proved with `CountingUp` of `AegisHarnessProofs` instead,
which speaks of a set of numbers and rests on the well-foundedness of `<`.

Only model-checked, and why:

- Liveness (`NoStarvation`, `RunEnds`, `AppendEnds`, `CallEnds`) rests on fairness
  and on when steps are enabled, which is out of the prover's reach.

## 7. Mutants

Every checked property has a plausible bug that breaks it, an operator
`Mutant...` that stands before the definition it replaces: a heighten of half a
step, a refill without its ceiling or in whole tokens, a breaker that lets one
caller probe, a load that skips garbage, a lock that is tested before it is made,
a retention that forgets the anchor, a deduplication that keeps the longer text, a
stream that forgets its answer, a retry loop with one attempt too many, and so on.

## 8. Not modelled

- `veriflow/`: `immune_system.py` uses names it never defines (`_state`,
  `_legacy_state_file`, `fingerprint_ready`), so its operations raise `NameError`;
  `immune_system4.py` passes `CKANClient` arguments it does not take and calls a
  `from_dict` that does not exist, so `refresh_resource` always raises. What is left
  is scoring and HTTP.
- Celestial packs (static data), the security toolkit (runs external programs),
  Ethos-4D (floating-point scores), the graph layer (I/O).
- `AutonomicSentinel`, the task simulation and the TypeScript emitter: small
  pieces that nothing in the modelled system calls. The hazards of the first and
  the last are listed.
- Of the modelled components: regular expressions, hashes, seals and signatures,
  path canonicalisation, token counts, latencies and the throttle delay, the
  wording of reports; `memory.py` of the harness and `spawn_subagent`; `SessionSeal`;
  budgets, the issuing of grants and state envelopes of the Mythos runtime;
  embedded mode and `stream_guard` of the clients, the Node and Rust clients, which
  repeat the protocol of the other two; a Go client given an `HTTPClient` of its own
  that has no timeout and a context without a deadline, of which `CallEnds` says
  nothing; the vitality window and its advice to consolidate; callers that come in
  while a regimen runs.

## 9. What could follow

The theorems state every checked property but liveness; what is left is to model
more: the notes of the harness's memory, whose `forget` is not persisted; state
envelopes and budgets of the Mythos runtime.
