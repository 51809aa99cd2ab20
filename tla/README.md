# Helperium: TLA+ models, checks and proofs

Helperium is a self-hosted AI agent over SQL databases. A chat widget posts a
message to the **api-service** (Python, FastAPI), whose agent alternates calls of
a language model with calls of tools. The tools are served over the Model Context
Protocol by the **mcp-gateway** (Go), which turns them into HTTP requests to the
**data-service** (Go), the only part that touches the databases of the tenants.

This directory holds TLA+ modules of the parts whose correctness depends on the
order of events, TLC configurations that check them on small instances, and
proofs that TLAPS checks. Besides the services it covers the tools that seed, load
and benchmark them (**agent-db**), since what these report is what the platform is
judged by. `PROJECT.json` lists the components, the runs, the
lines of the source every definition stands for, the hazards and the findings.

## 1. Inventory

| Component | State it keeps | Operations | What is hard | Correct when | Model |
|---|---|---|---|---|---|
| MCP client (`api-service/.../agent/mcp_client.py`) | one shared connection per tenant scope, an owner task per connection, a circuit breaker per scope | list tools, call a tool, reconnect, quarantine, collect idle connections | many turns on one event loop, cancellation at every await, detached tasks, time-outs | no session leaks, nobody gets a connection that is being closed or belongs to another scope, every wait ends | `McpClient` |
| spending ledger (`spending.py`) | balances and reservations in SQLite | reserve, commit, release, expire, set a budget | lazy expiry, late commits, retried reserves, a default that changes | counters equal what the rows add up to; admission respects the budget | `SpendingLedger`, `SpendingAdmission` |
| spending report (`SpendingChecker` in `spending.py`) | what each tenant spent and its budget, in each worker's memory and one file | record a call's cost, check after it, set a budget | threads and the loop write whole snapshots, cancelled turns, crashes | each call counted once; the overrun of a budget is bounded; the file follows | `SpendingReport` |
| agent loop (`agent/loop.py`, `adapters.py`, `orchestrator.py`, `routes/chat.py`) | a turn's transcript, metrics and outcome | provider calls, tool calls, four limits, reservation protocol | a reader who leaves, cancelled transactions in worker threads, crashes | paid calls are held, charged once and given back; every turn ends | `AgentLoop` |
| tenant registry (`data-service/internal/server/tenant*.go`) | tenant instances with their pools and routers, two files per tenant | serve, add, remove, update, rewrite, discover, reload, restore | read lock held for a whole request, admin operations that connect and write files between their locked sections, crashes | requests keep their instance; no pool is lost; memory and disk agree | `TenantStore` |
| sessions (`agent/conversation.py`, `session_repository.py`, `server/security.py`) | history of turns, an LRU of session locks, session tokens, a count of turns | gate, bind a token, lock, read history, append a turn | a lock evicted while held, an append that outlives its turn, counts read before an await | turns of a session do not overlap; history is in order; one token per session | `ChatSessions` |
| provider store, pool, retries (`provider_store.py`, `provider_pool.py`, `completion_retry.py`) | one JSON file, workers and their health, a deadline per candidate | edit, resolve, fall back, retry | a crash inside a save, a slow health round, attempts against a deadline | nobody uses what was retired; attempts are bounded | `ProviderPool`, `CompletionRetry` |
| LLM transports (`agent/providers/*.py`, `agent/models.py`) | the transcript in the wire's form | send, parse, refuse | schemas starved by old tool records, text taken for a call | a completion is taken whole or not at all | `CompletionWire` |
| evidence (`backlog.py`, `adapters.py`) | a JSONL file per session, metric series | record, read, cleanup, statistics | appends of two processes, torn records, shared paths | what is read of a turn is the turn | `TurnEvidence` |
| voice (`audio/*.py`, `chat_voice_endpoint`) | the voice configuration, temporary files, transcriber processes | configure, transcribe with fallback, become a turn | the agent changes while its recording is transcribed | a turn in its agent's scope; nothing left behind | `VoiceInput` |
| agents' store (`agent_repository.py`) | rows with secrets encrypted under a key of the process | create, update, delete, mask, migrate | processes with different keys, updates that read outside their transaction | no secret is lost or shown | `AgentStore` |
| abuse limits (`anti_abuse.py`, `abuse_live.py`, dashboard `abuse.go`) | token buckets on two backends; recent texts and times of turns; the policy in dashboard, file and workers | consume; save, push, put back, load | optimistic transactions with an old clock; a late answer, a rollback, several workers | no more than the burst and its refill passes; repeats and intervals hold over evictions; all enforce what was saved | `TokenBuckets`, `MessageChecks`, `AbusePolicy` |
| gateway scopes (`mcp-gateway/cmd/main.go`) | a handler per tenant scope, times of last access | look up, build outside the lock, register, evict | concurrent builds of one scope, a full registry | live sessions keep their handler | `GatewayScopes` |
| rag (`services/rag`) | documents in SQLite, vectors in Chroma, a pipeline | import, delete, change the configuration, re-embed | two stores without a common transaction, crashes | what is listed is found, and nothing else; one model | `RagIndex` |
| load generator (`agent_db/stress`) | a lock file per target, a pool of workers, an evidence tree | own, ladder, stage, drive chats or tools, report | threads, interrupts, lost sessions, a log that is read too early | a report is about the platform, whole, and of an owned target | `RunGuard`, `LoadLadder`, `StageRun`, `ChatTurns`, `ToolTurns`, `MeasuredRun` |
| benchmark (`agent_db/bench`) | lock, manifest, judged cases, a report | ask, read the backlog, judge, aggregate | borrowed backlogs, the order of checks | a verdict is earned | `BenchRun` |
| seed CLI (`agent_db/cli.py`, `seedgen`) | database files, registered tenants | materialize, drop, register, test, e2e | a second shell, unlinked files still served, one failing step | what was reported done is there and served | `SeedPipeline` |
| query building, config generation, search (`data-service/internal`), guardrails | none between calls | pure functions | the data, not the order | | not modelled |
| shared libraries, the dashboard's user interface, demos, infrastructure | none of their own that matters here | | | | not modelled |

How they interact: a turn of the agent loop opens a `_SessionProxy` of the MCP
client (`McpClient`'s turns), reserves and commits through the ledger, and is
cancelled by the SSE writer. The MCP client talks to a gateway scope, the gateway
to a tenant of the registry by the header `X-Tenant-ID`. Before a turn begins its
request has passed the gate of `ChatSessions` and a bucket of `TokenBuckets`; a voice
message becomes such a request. A turn resolves its model from `ProviderPool`, asks it
through `CompletionRetry` over `CompletionWire`, and leaves its record in
`TurnEvidence`, which `BenchRun` reads back. `MeasuredRun` is the command around
`RunGuard`, `LoadLadder` and `StageRun`, whose workers are the clients of `ChatTurns` or
`ToolTurns`.

## 2. Modules

### McpClient

One behaviour is an interleaving of turns, owner tasks, closers, quarantines and
the collector on one event loop; a step is the code between two awaits.
`_registry_lock` is never held across an await that can block, so its sections
are never contended and are part of the step they occur in.

- `registry`, `idle`: `_connections`, and the age of `last_used` in three levels
  (fresh, beyond the proactive bound, beyond the collector's bound).
- `phase`, `tenant`, `closing`, `timeouts`: a connection as its owner task sees
  it. An identity is used again once its connection is dead and nobody refers to it.
- `breaker`: failures, the cooldown, and membership of `_breaker_tripped_keys`.
- `turn`: where each turn is suspended, and on which connection.
- `closers`, `quarantines`, `gcStale`: detached tasks that have not run yet.

Every operation of a turn is modelled with all its ways out: cached, idle and
cold opens, the publish race, the failed handshake, the retry of `list_tools` and
`call_tool`, time-outs, cancellation at each await, and the peeks
(`get_schema`, `get_display_name`) that open but do not count.

Abstractions. Failures stop counting at the threshold, since beyond it only their
being at least the threshold matters. Time passes only when no owner task has
something to do; the collector's age is reached only when no operation of the
scope is in flight, because the bounds on one operation (about 115 s) add up to
less than the distance between the two idle bounds (240 s and 600 s). Shutdown
(`close`, `start_gc`, `stop_gc`) and owner tasks cancelled by the SDK itself are
left out.

### SpendingAdmission and SpendingLedger

`SpendingAdmission` is the promise, without counters, rows or a clock: a call is
admitted if what is charged and held leaves room, is charged at most once, also
after its hold has lapsed, and holds lapse by time only.

`SpendingLedger` is the code: one action per `BEGIN IMMEDIATE` transaction, the
counters of `spending_balances` beside the rows of `spending_reservations`, and
holds that stay ACTIVE after their time until a transaction of their principal
expires them (`overdue` holds those). `now` is read before the write lock is
waited for, so a transaction may miss some of them. `AdmissionKept` is the
refinement: `Fate` maps an overdue ACTIVE row to a lapsed call.

### AgentLoop

Turns on a `SpendingLedger`. A turn is at one place of `run()` or
`_run_tool_calls`; "round" and "batch" begin an iteration and await nothing. With
reservations each provider call goes through reserving, calling, committing (or
releasing); each of these is a transaction run by a worker thread while the turn
awaits it. A cancelled await drops the transaction if no worker has begun it, and
otherwise abandons it: it stays in `loose` and is carried out all the same.

- A turn is cancelled once, by the SSE writer's `finally`. What that does depends
  on where the turn waits: while it lists tools the exception escapes `run()`;
  inside `call_tool` it is taken for a transport failure unless the disconnect
  latch is set; during a provider call the hold is released first.
- A generator whose reader has gone is closed where it stands at the next event.
- The error of a release replaces the error that led to it; a failed commit ends
  the turn, and its hold stays until it expires.
- Without reservations (the default of the program) the cost is compared with the
  limits after the call (`OverLimit`).
- `Crash` ends the process; the ledger stays. `late` and `cut` are history: what
  was committed after its hold expired, and which requests a transaction failed for
  or lost its turn.

### TenantStore

A request holds the read lock of the registry for as long as it runs. An admin
operation looks up, connects, writes files and then takes the write lock for the
change itself, in separate steps; any two operations overlap. A writer that waits
(`writer`) keeps new readers out, as `sync.RWMutex` does; what is done under the
write lock, and a look-up under the read lock, is one step.

A configuration is its database and whether an operator wrote it or a rewrite
generated it: the first decides between the two paths of `ReloadTenant`, the
second makes a light reload visible. Of `{id}.schema.json` the database it came
from is kept. `displaced` and `disturbed` are history: instances a reload replaced
without having looked them up, and ids whose operations overlapped or failed after
saving. `Restart` ends the process at any moment and restores what the files say,
apart from tenants whose database cannot be reached.

Left out: `ConfigPath` and the archive of old versions, the schema in memory, the
hot-reload watcher of the default tenant, the health check.

### ChatSessions

Requests of chat on shared sessions, one step per await. A request reads the hash of
its session's token, is counted by the gate, binds a token if there is none, and
streams its turn under the session's lock: history, model, append. Locks live in an
LRU that evicts them also in use (`evicted`); a cancelled append goes on in its thread
(`strayed`). `begun` is the order of turns, against which `TranscriptInOrder` compares
what is stored. `TokensAgree` says that tokens held are tokens stored and that the
owner of a session can come back; `QuotaBinds` that a request which begins when the quota
is used up is never accepted.

### TokenBuckets

Both backends of `anti_abuse.py`. In memory a consumption is one step and the least
recently used bucket is forgotten; on Redis a caller of any process reads the clock
once, reads, and writes if nobody wrote meanwhile, else tries again with the old clock.
`setback` adds up by how much the bucket's clock was put back, which refills twice: the
budget of `WithinBudget` allows for it, and the model reaches it.

### MessageChecks, SpendingReport

`MessageChecks` is the rest of that gate: the time of a session's last accepted turn, read
before and stored after two awaits, and the texts each checker remembers, pruned by
window and evicted by idleness; a reload starts an empty checker beside the ones requests
already hold. `IntervalIsKept` says by which overlap alone two turns can come too close.
`SpendingReport` is the `SpendingChecker` of each worker with its one file: a change under
the lock, a snapshot under the lock again, and a write are three steps of a thread or,
for a budget, of the event loop. `newest` marks the writer of the last change:
`LastWriteConverges` holds when its write comes last, and the model reaches the file going
back when it does not.

### ProviderPool, CompletionRetry

`ProviderPool` is the store with its file (a save truncates before it writes), the pool
that is filled at the start and not synchronised after edits, the health loop with its
sequential checks, and the resolution of a turn's candidates. `CompletionRetry` is one
turn's completions: candidates in turn, each with attempts, random backoff and the
server's `Retry-After` inside one deadline, in ticks of a clock that does not pass what
is due.

### CompletionWire, TurnEvidence

`CompletionWire` keeps a transcript as the shapes of its arguments and the roles of its
messages, for a direct route and two litellm routes (a policy that parses text, a
registry that denies tools), and models which schemas a request takes along and what
of an answer becomes a call. `TurnEvidence` has two processes append to one file: a
small record is one write, a larger one a head and a tail between which the other
writes or the process dies. Readers skip what is no record.

### VoiceInput

The preamble of `chat_voice_endpoint`: agent, global switch, override, chain of
providers, transcript, then the gate and the turn. The administrator changes the
configuration or the agent at any await. A local provider has a temporary file and a
process, which is left running after its 120 s.

### AgentStore, AbusePolicy

`AgentStore` keeps of each agent the secret of its `llm_config` and the key it is
encrypted under. Each process fixed its key when it started, validates and migrates at
its start, and reads the row of an update before it takes the write transaction.
`raced` and `mixed` are history: secrets two writers overlapped on, and a process
without a key beside one that has one. `AbusePolicy` is the exchange of the policy:
the dashboard's memory and file, the push to the api-service, the rollback, workers that
load when first asked, their cached enforcers and the runtime settings. `upsets` names
the known ways to part (overlapping saves, a late answer, an early load, the api's own
writing, a cut write), under which `ToldAlike` claims nothing.

### RagIndex

Requests run in threads over one SQLite connection, each under the lock of the pipeline
it got; a change of configuration drops the pipeline, so an old and a new one can share
a transaction. A document's chunks are two batches. `faults` records which of
the code's weak spots a behaviour has used: `IndexAgrees` and `OneModel` hold in every
behaviour without the ones they name.

### LoadLadder, StageRun, RunGuard

`LoadLadder` measures ascending rates, halves the bracket, repeats the knee; what a
stage measures is the environment's choice and need not be monotone. `StageRun` is the
pool of workers over a schedule of ticks, with rotation of sessions, dropped ticks,
workers that die and the closing of sessions. `RunGuard` is the lock file: created
exclusively, named in a second step, judged by the process it names and unlinked by its
path, with kills everywhere. `robbed` and `outlived` mark the two ways in which the
code can lose its lock; `OneGenerator` holds without them.

### ChatTurns, ToolTurns, MeasuredRun, BenchRun

`ChatTurns` follows connections, tokens and streams of the chat client and the log of
the stub model, and how the records of a stage are joined with that log. `ToolTurns` is
the client of MCP with its one replay on a session the gateway has forgotten.
`MeasuredRun` is `run_cmd` from its lock to its exit: every step may fail or be
interrupted, also those of `finally`; `excuses` names the interrupts and failures of
the cleaning up under which the status cannot be held to the truth. `BenchRun` asks each case,
finds its backlog (its own, a substring's, or the newest file of the agent) and judges
it by the evaluator's checks in their order; answers and results are sets of numbers.

### SeedPipeline

Commands of two shells over scenario files, database files (known by inode) and
registered tenants. A command is a sequence of jobs; each request, file operation and
transaction is a step, and each may fail once. The author may edit the scenarios.
`claimed` holds the tenants a command reported as registered, `made` the files one
reported as done.

### GatewayScopes

The registry of handlers: a build runs outside the mutex for at most `BuildTime`; what
it finds when it comes back is a handler of its scope, room, something idle to evict,
or no room. Hours pass only as far as builds under way allow.

### Completions, LoadClients, Stores

Groups of modules that share no state: the specification of a group is the conjunction of
those of its modules, and its one property (`CompletionsAreSound`, `ClientTurnsAreHonest`,
`StoresAreSafe`) that of their types and invariants.

### MCServices, MCAgentService

The instances of these modules and of two tenant scopes of `McpClient`: those that belong
to the agent service are checked beside its loop (`MCAgentService`, which takes the loop's
instance from `MCAgentLoop`), the others in `MCServices`.

### FiniteSums and the modules with proofs

`FiniteSums` has the one sum the ledger and its promise use, `Selections` the one filter of
a sequence that proofs speak of (`SelectSeq` of the standard module is opaque to them;
`SelectAt` is the same by places). `FoldTheorems` proves what is needed of both, and of
finite sets of numbers. `McpClientProofs`, `SpendingLedgerProofs`, `AgentLoopProofs`
(`AgentLoop`, `ProviderPool`, `CompletionRetry`, `CompletionWire`, `SpendingReport`, `VoiceInput`),
`TenantStoreProofs`, `ChatProofs` (`ChatSessions`, `MessageChecks`, `TurnEvidence`),
`LoadTestProofs` (`StageRun`, `LoadLadder`, `RunGuard`, `MeasuredRun`, `BenchRun`,
`ChatTurns`, `ToolTurns`) and `ServicesProofs` (`GatewayScopes`, `TokenBuckets`, `RagIndex`, `AgentStore`,
`AbusePolicy`) extend the modules they are about; see section 5.

## 3. Runs

Deadlock is checked wherever the system may not stop by itself. The turns of
`AgentLoop` all come to an end, and so do the parts beside them and those of `services`: these runs say
`CHECK_DEADLOCK FALSE`.

| Run | Instance | States | Question |
|---|---|---|---|
| `mcp` | 2 turns, 1 scope, 3 connections, thresholds 2 | 933 thousand | no leak, usable registry, zombies quarantined, a harmless collector |
| `mcp_live` | as `mcp`, smaller | 51 thousand | what leaves the registry is torn down, operations return |
| `mcp_trip` (violation) | 1 turn, 3 failures | | "counted exactly once per trip" |
| `mcp_cooldown` (violation) | 1 turn | | "fail fast until the end of the cooldown" |
| `ledger` | 2 principals, 3 requests, estimates 1 and 2, costs 0 and 3, budget 3 or none | 46 thousand | exact counters, refinement of `SpendingAdmission` |
| `agent` | 2 turns of one principal, 2 model calls, 1 tool call, batches of 1 and 2, estimate 2, costs 1 and 3, budget 3; beside it six parts of the agent service, one per behaviour | 1.39 million | the reservation protocol, and the budget over concurrent turns; for the parts see below |
| `agent_live` | 2 turns, one of them reserving, batches of 1 and 2 | 100 thousand | every turn ends |
| `agent_answers` (violation) | 1 turn, a batch of 2 under a limit of 1 | | "one tool result for each call" |
| `tenants` | 1 id, 2 databases, 3 instances, 2 operations, 1 request | about 930 thousand | pinned requests, pools, router, files, lock |
| `tenants_schema` (violation) | the same | | "schema cache must not outlive the tenant" |
| `tenants_reload` (violation) | the same | | "removed between lookup and rebuild: do not publish" |
| `services` | sixteen parts that share no state, one per behaviour | 1.52 million | see below |

| Part | Run | Module | Instance | States | Invariant |
|---|---|---|---|---|---|
| pool | `agent` | `ProviderPool` | 2 providers, 2 upstreams, 2 edits, health checks of 1 in rounds of 2 | 123 thousand | `PoolIsTrue` |
| retry | `agent` | `CompletionRetry` | 3 candidates, 3 attempts, deadline 5, `Retry-After` 0, 1 or 7 | 3 thousand | `CompletionsAreSound` (`RetriesAreBounded`) |
| wire | `agent` | `CompletionWire` | 3 routes, 2 user turns, 3 calls a turn, 2 attempts | 190 thousand | `CompletionsAreSound` (`WireIsFaithful`) |
| evidence | `agent` | `TurnEvidence` | 2 workers, 2 sessions with one file, 1 model call, 1 fault | 50 thousand | `EvidenceIsTrue` |
| report | `agent` | `SpendingReport` | 2 workers, turns of one and of two tenants, 3 calls, 1 budget set or crash | 131 thousand | `CompletionsAreSound` (`ReportIsSound`) |
| voice | `agent` | `VoiceInput` | 2 messages, 3 configurations, 1 change | 54 thousand | `CompletionsAreSound` (`VoiceIsSound`) |
| scopes | `services` | `McpClient` | 2 turns, each of its own scope, 2 connections, thresholds 1 | 99 thousand | `TenantIsolation`: no turn speaks over another scope's session |
| chat | `services` | `ChatSessions` | 3 requests of 2 clients, 2 keys of one bare id, one lock in the LRU, quota 2 | 180 thousand | `TurnsKeepOrder`, `GateIsSound` |
| buckets | `services` | `TokenBuckets` | 2 callers, 2 keys, 1 bucket kept, bursts 1 and 2, 3 ticks, 2 tries | 113 thousand | `WithinBudget` |
| messages | `services` | `MessageChecks` | 3 messages, 2 texts, 2 sessions remembered, 1 reload, 2 seconds | 48 thousand | `MessagesAreChecked` |
| rag | `services` | `RagIndex` | 2 imports and a delete of one path, 2 at once, 2 models, 1 crash | 223 thousand | `IndexIsSound` |
| ladder | `services` | `LoadLadder` | 3 rungs, tolerance 1, 2 halvings, 2 repeats, 1 larger pool | 96 thousand | `LadderIsHonest` |
| stage | `services` | `StageRun` | 2 workers, 4 ticks of which 1 warms up, 1 turn per session | 50 thousand | `StageIsWhole` |
| guard | `services` | `RunGuard` | 3 processes | 71 thousand | `TargetIsOwned` |
| handlers | `services` | `GatewayScopes` | 3 scopes in a registry of 2, 2 requests, 3 hours | 22 thousand | `SessionsKeepTheirHandler` |
| chat turns | `services` | `ChatTurns` | 2 sessions of 2 and 1 turns | 154 thousand | `ClientTurnsAreHonest` (`ChatTurnsAreHonest`) |
| tool turns | `services` | `ToolTurns` | 2 sessions of 2 and 1 turns of 2 calls, 1 loss of all sessions | 50 thousand | `ClientTurnsAreHonest` (`ToolTurnsAreWhole`) |
| measured run | `services` | `MeasuredRun` | 2 tenants, 2 stages, 1 scrape beyond the first and last | 37 thousand | `RunIsBelievable` |
| bench | `services` | `BenchRun` | 2 fixtures of 2 live cases, a visitor | 42 thousand | `BenchIsFair` |
| agents | `services` | `AgentStore` | 2 processes, 1 agent, 2 secrets, 2 keys or none, 3 starts | 65 thousand | `StoresAreSafe` (`SecretsAreSafe`) |
| policy | `services` | `AbusePolicy` | 2 saves by the dashboard or the api, 1 or 2 workers | 130 thousand | `StoresAreSafe` (`PolicyIsApplied`) |
| seed | `services` | `SeedPipeline` | 2 shells, 2 commands, 3 scenarios, 1 edit, 1 fault | 139 thousand | `SeedIsSound` |

Why the bounds are enough to see the cases: two turns and three connections give
the publish race with a third connection still waiting to be closed; thresholds
of two are reached by one turn, by two turns, and passed by a late answer. In
`ledger` an estimate fits exactly, a cost is above its estimate, and a budget
falls below what is charged. In `agent` the budget holds one of two estimates, so
each turn can be refused for the sake of the other; the one limit of a tool call
is met inside a batch. In `tenants` two databases give both paths of a reload,
and three instances let one be served, one replaced and one built at a time, which
is what two overlapping operations can use. One id is enough, since operations on
different ids share only the lock, which one request and two operations contend for.

`services`, and the parts of the agent service in `agent` beside the loop, share a run
because they are small: a behaviour chooses its `part` in the initial state and every other variable stays as it began, so the state spaces add
up and do not multiply. An invariant that speaks of one module is guarded by its part.
The bounds are chosen for the case each part is about. `LockCap = 1` with two keys
makes a lock be evicted while it is held. `MaxBuckets = 1` with two keys does so for a
bucket. Two imports and a delete of one path, at most two under way
(`MaxOverlap`), overlap in every pair; with all three at once (534 thousand states of this part) the
invariants held as well, but the run would take too long beside the others. Three
processes are what a robbed lock takes: one dead, two that clean up. The registry of
handlers holds two of three scopes, so the third evicts, and `LastHour = 3` lets a
handler become idle, be evicted, be built anew and its session expire. Two
halvings and a tolerance of 1 end the bisection both ways. A stage of four ticks over
two workers with one turn per session retires each session in use. One torn write is
enough to lose a record and its successor, and two sessions share the file. In
`seed` one command of each shell overlaps with one of the other; a fault may meet
any of their steps. One change of the administrator falls before, during or after each
step of a voice message. Three messages with one text twice, in sessions of which two are
remembered, repeat, overlap and evict. Two turns in one process or in two, with one budget
set or one crash, put record, snapshot and write in every order.

Every property of a passing run has a mutant in `PROJECT.json`: a definition that
is a plausible error of the code (`...Unlocked`, `...FreesTwice`,
`...Regardless`), stands in the module before the definition it would replace,
and makes TLC find the property violated.

### Fairness

- `McpClient`: the event loop runs every ready task and every await is bounded by
  a time-out (`_run_with_hard_deadline`, the handshake's limit), hence weak
  fairness of `Resume`, of owner tasks, closers, quarantines and the collector.
  Strong fairness is assumed of `OpenAfterStale` alone: it needs an identity of
  `Conns`, which the program does not run out of.
- `AgentLoop`: weak fairness of the turn's steps (the awaits have time-outs) and of
  the worker threads. Nothing is assumed of readers, cancellation or crashes.
- `TenantStore`, `SpendingLedger` and the modules of `services` state no fairness; only
  safety is checked of them. That no request waits for another lock is stated by `LockIsReleased`.

## 4. Findings

1. `mcp_trip`: the count of circuit trips misses trips whose last failure is a
   quarantine or a failed reconnect.
2. `mcp_cooldown`: a `list_tools` that fails fast because the circuit is open is
   recorded as a failure and renews the cooldown.
3. `agent_answers`: the limit on tool calls ends a batch and leaves calls of the
   kept transcript without a result.
4. `tenants_schema`: `DELETE` leaves `{id}.schema.json`; `DeleteTenantConfig`,
   which removes it, is not called.
5. `tenants_reload`: a reload compares presence, not identity, and publishes over
   a tenant that was removed and added again; the pools it replaces are leaked.
   `PoolsAccounted` names this leak as its one exception.

### Further disagreements met while modelling

Each is in the model as the code has it; the property named excepts it or does not
speak of it. They are not runs of their own.

- Rate limits: the key of a session's bucket uses Python's per-process `hash()`
  (`anti_abuse.py:325`), so on Redis several workers do not share it, contrary to
  `anti_abuse.py:136-137`, `:226-229` and `RUNBOOK.md:312-314`. `TokenBuckets` has one
  key for all callers, which is the case of the bucket per IP address.
- Spending report: it is one file for all workers, each of which overwrites it with its own
  memory, so of several workers' records those of one "survive service restarts"
  (`spending.py:46-52`); each worker also has a budget's worth of its own.
- Sessions: the keys of a session on Redis do not have "a shared TTL (idle expiry)"
  (`redis_session_repository.py:20-21`): the token's hash expires a day after it was bound,
  whatever was said since (`:140-143`).
- Providers: the pool is not synchronised after an edit, although `deps.py:65` says so;
  deleting every provider and restarting imports the environment's again
  (`RetiredIsUnused`); twelve or more workers that time out make an answering one seem
  dead (`AnsweringIsAlive` states the bound the code does not check).
- Abuse policy: the comment at `abuse.go:337-339` fails for overlapping saves, a late
  answer, a worker that loads before the rollback, and several workers. The api's own
  `save_config` writes `max_repeated_count`, on which the dashboard stops at its next
  start (`abuse_live.py:90-99`, `abuse.go:126-136`). With `api_workers > 1` the runtime settings are
  applied in the parent only (`app.py:281-292`).
- Agents: a process without a key beside one that has one loses a secret on an update
  of other columns; a migration may overwrite a newer secret; an update of a row deleted
  meanwhile is answered 200; a config that cannot be decrypted is a 500.
- Voice: transcription, which is paid for, runs before the session's and the abuse gate;
  a global `enabled = false` cannot be overridden by an agent's `true`
  (`chat.py:459`); the turn carries no principal (`chat.py:562-573`), so no budget.
- Backlog: sessions that differ in `/`, `\` or `:` share a file (`backlog.py:43-45`); a
  torn record takes the next one with it. `models.py` says that text is never parsed
  as a tool call, which one litellm policy does.
- Gateway: `evictIdleScopes` "returns whether at least one slot was freed", also for an
  entry whose build failed and which held none; `MCP_SESSION_IDLE_TIMEOUT` may
  exceed the fixed TTL of 15 minutes, against `TTLAssumption`.
- Rag: a failing `INSERT` leaves its transaction open for the next request; an
  interrupted re-embedding is taken for a finished one when no vector is left; the
  cache of searches is not invalidated.
- Load generator: a bad `--metrics-target` raises `typer.Exit` inside the guarded
  section and leaves `status.json` at "running", against `cli.py:541-546`; a failing
  `RunLayout.create` keeps the lock; the exit codes at `cli.py:15-24` lack 4; two
  processes that clean up one dead lock can both own the target; workers that outlive
  their join (10 s) fire without a lock; sessions stay open when the opening of the
  pool fails; a token is never asked for again after a 401.
- Benchmark: the backlog's `outcome` is never `"final"`, so the recovery rate is 0; a
  case without a record is measured by the agent's newest file although
  `runner.py:434` says `None`; a scalar result in a "count" case ends the command.
- Seed CLI: `materialize_all` ends at the first scenario whose driver is not SQLite
  (`cli.py:139-149`); `test` takes a tenant's id for a scenario's name (`cli.py:203-207`);
  `e2e` prints that all tests passed also when they did not; a re-registration ignores
  the answer of its `DELETE`; with `--force` a registered tenant may still read the
  unlinked file.

## 5. Proofs

### The MCP client

`McpClientProofs` proves, for every number of turns, scopes and connections and
every threshold, that the specification keeps `TypeOK`, `NoOrphan`,
`RegisteredUsable`, `TenantIsolation`, `ZombieQuarantined` and `GcSparesUsers`.
The assumptions are those `McpClient` states of its constants: every turn has a
scope, `NoConn` is no connection, thresholds are positive.

The safety properties are not inductive by themselves: a handshake that ends might
end for a connection someone else has taken out, counted time-outs on, or is
about to close. `IInv` adds

- `OpenersOwn`: a connection whose handshake is awaited belongs to the scope of the
  one turn that awaits it, is not registered, and no detached task knows it;
- `ClosingAlive`: a close is requested of live connections only;
- `TypeInv`: types, and the places at which a turn has a connection.

TLC was run with `IInv` as an invariant first. The proof treats the actions by
what they do to the shared state (`Effect`: an open, a publication, a removal, a
change of the breaker only), so each conjunct is proved once for each effect and
not once for each of the forty actions.

### The tenants

`TenantStoreProofs` proves, for any number of tenants, instances, admin operations
and requests, that `TenantStore` keeps `TypeOK`, `Pinned` and `PoolsAccounted`, and
that each of its steps satisfies `RouterKept`. The only assumption is that "none" is
no instance, operation or database (`AbsentAssumption`).

`Pinned` alone is not inductive: nothing in it keeps an operation from closing the
instance that serves a request. `IInv` adds

- `OneEach`: an instance is registered for one tenant at most, so that a removal
  takes away nobody else's;
- `RegisteredServes`, `OpenConfigured`: what is registered is open and not being
  removed, and what is open has a configuration;
- `BuildersOwn`: what an operation built and has not published is open, and no other
  operation and no tenant refers to it, so its publication or closing is safe;
- `FoundApart`: what is about to be closed is not registered. For a reload this
  rests on what it looked up being registered for its own tenant, if it still is,
  which makes the replacement under the write lock take it out;
- `TypeInv`: types, and the places at which an operation has an id, a configuration
  or an instance.

Again the steps are grouped by their effect: `Moves` (nothing but the operation's
place, with files, lock and history free), `Builds`, `Publishes`, `Refused`,
`Deregisters`, `Closes`; what is left are the light reload, requests and the restart.
`RouterKept` then follows step by step: whoever changes an instance either has the
write lock, and no request is served, or changes one that is not registered.

`PoolsAccounted` admits what a reload has displaced without having looked it up; that
this happens is the finding of `tenants_reload`, and the theorem says that no pool is
lost in any other way.

`TenantStoreProofs.RunsAsSaved` proves `RunsWhatIsSaved`. Over `IInv` it takes a second
invariant, `SavedInv`: a tenant whose operations have followed one another
(`id \notin disturbed`) has at most one of them under way; with none, what is in its file
is what runs for it (`Agreed`); with one, `PlaceAgrees` says how far that one has brought
the two apart, place by place. A crash may come at any of these places: the restart
restores what the files say, and agrees with them for every tenant whose database it can
reach.

`ServicesProofs` proves `ScopesTypeOK` and `SessionsKeepTheirHandler` for any number of
scopes, requests and handlers, from `ScopesAssumption` (sizes and times are numbers) and
`TTLAssumption`: the eviction TTL is at least the session's TTL and the time a build may
take together. `ScopesInv` adds that a handler was last used no later than `BuildTime`
after its scope's recorded access, because a build records the access when it begins and
serves its request when it ends (`AccessIsRecorded`), that a build under way began within
`BuildTime` and keeps its scope from being old (`BuildsAreRecent`), and that what is
cached is finite and within the bound (`CacheIsBounded`).

### The ledger and the loop

`FoldTheorems` is about `SumOver`, the sum over a finite set that the counters are compared
with, and about `SelectAt`, the members of a sequence at given places, in order. The sum is defined by the community modules' `FoldFunctionOnSet`, a recursive function
under a `CHOOSE`; that there is such a function, that the order does not matter, and with it
`SumTakes` (adding one member adds its number), `SumAgrees`, `SumSplits`, `SumGrows`,
`SumIsNat` are proved without an induction theorem: a least counterexample among the
subsets of a finite set exists (`LeastSubset`) and does not. A selection is treated
alike, by its least counterexample among the lengths: `SelectedPlaces` says that it is the
sequence at an increasing row of places, which are those asked for and no others.

`SpendingLedgerProofs` proves `TypeOK` and `CountersExact` for any number of principals and
(finitely many) requests and any amounts. `TypeOK` is a safety property here: no counter
goes below zero, which takes the equality of counters and sums. `LedgerInv` adds
`RowsAreWhole` (a row is written whole), `OverdueIsActive` and `OverridesAreKnown`. Expiry
ends any number of holds in one transaction (`FreedIsExact`), commit and release end one
(`HoldEnds`).
`LedgerKeepsPromise` is the refinement: `Init` maps to the abstract `Init`, and each
transaction to an admission, a charge, a return of the hold or a stutter. That the counters
admit no more than the promise is `AdmittedFits`, whose argument is: the calls the promise
still counts as held are ACTIVE rows.

`AgentLoopProofs` proves every safety property of `AgentLoop` for any number of turns,
principals and calls: `TypeOK`, `HeldWhileCalling`, `NoConflict`, `DeliveredIsCharged`,
`HoldsAreReturned`, `OnlyOverrunsOverspend`. None is inductive: a turn knows where it stands
(`turn`), a worker what it was asked to do (`job`), the ledger the row, and transactions
outlive turns (`loose`). `LoopInv` relates them one turn at a time: `PlaceOK` (what a turn
has counted where it stands), `RowsOK` and `RowOK` (the row of its current request at each
place; the rows before it are COMMITTED), `LooseOK` (a transaction that outlived its turn
belongs to its last request, and there is one). `SameLedger` and `ExpiryIsBorne` say what a
turn can notice of the others: that a hold of its own has expired.
`OnlyOverrunsOverspend` needs the sums: `Within(p)` bounds what is charged and held by the
budget, what was charged above its estimate and what was committed late. `LoopKeepsPromise`
says that the loop's steps are steps of the ledger, so it keeps the promise of
`SpendingAdmission` as well. This composition goes through `Books`, the ledger's proofs
instantiated with the loop's requests; `LedgerAssumptions` discharges their assumptions.

Assumed are `AmountsAssumption`, `RequestsAssumption` (finitely many requests: a behaviour
of the model numbers them in advance), `UnlimitedAssumption` and `NobodyAssumption` of the
ledger, and of the loop `LimitsAssumption`, `LedgerAssumption` and `PayerAssumption`. They
say that amounts and limits are natural numbers and that "no budget" and "nobody" are none.

### The provider pool

`AgentLoopProofs.PoolIsTrueAlways` proves `PoolIsTrue` for any providers and order of edits,
health rounds and crashes. Half of `PoolInv` is about the store: names are its keys, in
memory and in its file (`NamesAreKeys`), and what was retired is neither enabled in it nor,
once the process was started again, in the pool, while the file has not been lost to a
crash inside a save (`RetiredStayOut`). The other half is about time. `IsAlive` compares the
age of the last good check with a threshold, and the health loop checks one worker after
the other; that a worker which answers is never taken for dead cannot be shown from its age
alone. `RoundIsInOrder` says which workers a round has still to visit, and `ChecksAreRecent`
bounds a worker's age plus what is left of the current check by where it and the round stand:
since its check those behind it had their turn, a sleep may have passed, and those before it
had theirs. A round that is slower than the threshold is excluded in the property, as in the
code nothing prevents it.

### A completion and its report

`AgentLoopProofs` has the properties of the three modules a completion goes through, and
of the voice messages a turn may begin with. `CompletionsStaySound` states them together, as
the run does, with the types of the four.

- The retries: `RetriesAreBounded` for any candidates, attempts, delays and deadline
  (`CompletionRetryAssumption`: they are numbers, and there is someone to ask). `RetryInv`
  says how far the history has come at each place (`RetryStands`): who was asked are the
  candidates from the preferred one on, one after the other around the ring, so that nobody
  is asked twice (`Index` does not return to a place within one round, which is arithmetic
  with `%`).
- The wire: `WireIsFaithful` for any routes, replies and bounds. `WireTyped` keeps the two
  forms apart (the transcript is of messages in the loop's form, a request in the wire's),
  `RequestIsMeant` says why a request has schemas or not, `AnswerIsWhole` what was handed on
  for which reply. That the tool records of earlier turns
  starve no question follows because a new turn ends the transcript with the user's message,
  and the check looks at the last message only. Assumed is `CompletionWireAssumption`.
- The report: `ReportIsSound` for any tenants, workers, scopes, budgets and crashes.
  `BooksAgree` says that what a worker remembers is what it found in the file and what its
  turns recorded (`NotedFor`, read off where each turn and its thread stand);
  `PaidCallsAreCounted` follows, a sum over turns against a cardinality (`SumMarked`). The
  file and every snapshot that is about to be written hold no more than that
  (`ReportsAreKnown`), so nothing is counted twice. That the overrun is bounded takes `TurnsStop`:
  it bounds the calls made and granted, and while a turn of one tenant stands before its
  judge the budget that it will be held to was in force (`TurnsPayWell`). That is why a
  budget raised and lowered again needs the largest one. `LastIsWritten` says that the
  newest write is of what is remembered. Assumed is `SpendingReportAssumption`: the scopes are sequences without repetition, the
  turns are finitely many, and a checker that is not loaded is no report.
- Voice messages: `VoiceIsSound` for any requests, configurations and agents. What an
  administrator changes in the middle does not matter because a request carries the row and
  the configuration it read; `VoiceStands` says what these are at each place: whether there
  is a row goes with whether the request named an agent, and the chain, built of enabled
  providers (`BuiltIsEnabled`, through the selection lemmas), has one left to ask.
  `VoiceStored` adds what is stored: configurations the editor accepts, and for a request a
  chain no longer than they are (`SelectedIsNoLonger`). Assumed is `VoiceInputAssumption`,
  that configurations and agents' overrides are some.

### The load generator

`LoadTestProofs` proves the invariants of the parts of a load test, and of a benchmark.

- The guard: `GuardTypeOK` and `TargetIsOwned` for any set of processes. `GuardInv`
  adds `HoldersOwn` (while no clean-up has taken another's file, whoever relies on the
  lock is named in it), `JudgedAreDead` (who is cleaned up after has exited),
  `TrafficIsTracked` and `StatusIsKept`. It shows that the two faults the property excepts
  are the only ones.
- The stage: `StageIsWhole` for any pool, schedule and quota. `StageInv` follows a tick and
  a session through the threads: before the gate opens all threads stand behind it
  (`GateInv`); what `run()` would close is what the threads drive, and no two drive the
  same (`SessionInv`); a session has carried what its thread counted (`CarriedInv`,
  `TurnsInv`); a tick runs or is dropped once and is in the hands of one thread at most
  (`RecordInv`, `TickInv`); until `run()` has ended, a session that is held has not been
  closed and one that is not has been, once (`CloseInv`, `HeldCloseInv`). `ValidIsWhole`
  compares numbers of ticks, and follows with cardinalities: ticks that are recorded or
  dropped and as many as there are cover all of them.
- The ladder: `LadderIsHonest` for any plan. `LadderInv` says that on the way up all that was
  measured has passed (`ClimbInv`), that a bisection has measured both ends of its bracket
  and nothing between them (`BisectInv`), that a knee is repeated only once there is one
  (`RepeatInv`), and that a label in the evidence belongs to a run that is over or to an
  earlier attempt of this one (`LabelInv`).

`StageAssumption` has the pool fit into the sessions (`MaxSessions` bounds the model and not
the program); `LadderAssumption` has the rungs ascend, which the plan's validation demands.

- The measured run: `RunIsBelievable` for any tenants, stages and slices. `RunInv` says for
  every place of `run_cmd` what must have been written, held and found there: the status
  and the lock (`ControlInv`), the stages begun and done (`StagesInv`), where load may
  still be on the target (`LoadInv`), with what verdict or exception a step of `finally` is
  reached (`EndInv`), and the parts of the evidence tree that exist (`SunkInv`, `CheckedInv`,
  `ReportInv`). `SlicesInv` follows the observer's thread beside it: its first slice is taken
  before the first tick, and the one it takes when it is stopped after the last. Every step
  may fail or be interrupted, so each conjunct is shown to survive some thirty-five actions; what
  `excuses` and `"outlived"` name (an interrupt inside `finally`, workers that survive
  their executor) is all the theorem has to except.
- The benchmark: `BenchIsFair` for any fixtures, runs and borrowed backlogs.
  `QuestionsInv` says that every question that is over has one judgement, each of which is
  `IsEarned` by itself: that is a fact about the evaluator's checks and their order,
  proved for any case and record (`CorrectIsSound`, `HallucinationIsWrong`, `ErrorIsInfra`,
  `InventionIsSeen`). `ReportsInv` ties the report, the manifest, the lock and the exit
  code to the judgements. That the counts of the verdicts add up to the cases takes
  `CountsAddUp`, with the cardinalities of a partition. `BenchStaysTyped` is more than
  types: each case is given once, and the records of different cases stay apart
  (`RecordsStayApart`, by the session a question was asked in), which is what makes the
  backlog of a session that of its question.

- The clients: `ChatTurnsAreHonest` and `ToolTurnsAreWhole` for any sessions and plans. For
  the chat client `ChatTurnsInv` says what is filed of a turn (`TurnsAreFiled`), what state
  a connection and a token are in and which earlier turn is behind it (`WiresAreKnown`,
  `TokensAreKnown`), and that the stub logs only what it served (`RowsAreServed`). For the
  tool client `PlanIsUnderWay` says that the calls of a turn under way all went well, and
  `ReplaysAreOwed` that a session the gateway does not know has been replayed less often
  than the gateway forgot. `StatsAreExact` counts calls and replays over all turns;
  a step changes one term of these sums (`SumChanges`). `ClientsStayHonest` states both
  clients together, with their types.

### The buckets

`ServicesProofs` proves `WithinBudget` for any policies, keys and calls, on both
backends. The property speaks of any window of a bucket's history, which no step can
relate to the tokens that are left; `Funded` does: for every grant, what was admitted since
and the tokens that are left are within the largest burst and what the largest rate earned
on the bucket's own clock (its time of refill, and what was refilled twice, `setback`). A
refill earns what its time adds and is cut at a burst (`RefillIsEarned`, `FundedLater`); a
consumption turns a token into a grant (`GrantIsFunded`). `WatchersKnow` says that who is
about to write a bucket on Redis has read what is there, `ClockIsAhead` that in memory
`setback` does not grow.

### The chat route

`ChatProofs` proves `TurnsKeepOrder` and `GateIsSound` for any requests, browsers, keys,
quota, history and size of the lock cache. Neither is inductive. That two turns of a session
overlap only by an eviction takes the line of each lock (`LineInv`: who waits or runs is in
it once, who runs is first) and the cache (`CacheInv`: a key has one lock there, and its
requests wait for that one unless it was evicted): two holders would be first in one line
(`OneRuns`). That a transcript is in order takes the history of what began (`BegunInv`: while
no lock was evicted in use, whoever holds the lock began last of its session) and of what is
stored (`StoredInv`: turns that are over, in that order); an append cuts a transcript at its
start, so the order of what is kept is an earlier one shifted (`StoreWrites`). A write by a
thread whose turn was cancelled is in `strayed`, which the property excepts. Of the gate,
`TokenInv` says that a token is named by a request that is past the gate and found none, so
that the one who is sent it is the one the session accepts; `QuotaInv` that who came too late
read a count at the quota, since counts only grow. A step of the gate leaves lines and
transcripts alone (`GateKeeps`), a step of a turn the gate (`PastKeeps`). Assumed are
`ChatNoneAssumption`, `ChatRoutesAssumption` and `ChatLimitsAssumption`.

### The checks of messages

`ChatProofs.MessagesAreCheckedAlways` proves `MessagesAreChecked` for any messages, chats,
reloads and bounds. A worker counts the repeats of a text in what it remembers, and
remembers less than what it let pass: it drops what is too old when it looks, and whole chats
when there are too many. `MessagesInv` therefore relates its memory with the history of what
it let pass, chat by chat: everything within the window is remembered, each in a place of
its own (`FreshIsRemembered`, an injection, so that counting the one bounds the other),
what is remembered ends with the last pass, and no chat that was forgotten was used after
one that was kept (`Memory`). The interval between turns is read before the turn and
written after it, so two turns may come close; `TurnsAreInOrder` says that a request knew a
part of the turns stored when it looked, that the time it saw is of one of them, and that
it was let pass an interval after that. What the property excepts (the later did not know
of the earlier, or a third was stored over it) is what the code's unlocked read allows.
`MessagesStayTyped` is its type invariant.

### The evidence of a turn

`ChatProofs.EvidenceIsTrueAlways` proves `EvidenceIsTrue` for any turns, processes, files,
modes and faults. Every action of a turn is one of the steps of `Goes` with the record it
makes, which is stored whole, begun, or missed (`ActionsAreSteps`); that is proved once, and
the invariant's steps use only it. `EvidenceInv` has four parts. `TurnsAreRecorded` says
what stands of a turn in its file at each of its places, in terms of the pieces written and
not of what can be read: its start before all else, an error where it failed, each result
right behind its call, the end last. A piece of another turn and the rest of a record leave
that alone (`OthersStay`), a record of its own brings it to where the turn then stands
(`RecordFits`). `AnswersAreCounted` equates, for any set of turns, the completions in a file
and their tokens with what the turns have counted (`AnswersGrow`, `SumsStep`).
`TearsAreCounted` says for a file of one process how far a tear has got: a head at the end
of a file is being completed, or will cost the next record. Last, the series
(`SeriesCountEveryAnswer`) is inductive with the counts of turns that have not begun
(`TurnsFit`). From pieces to what is read leads `AllAreRead`: if as many records are read as
were begun, each piece that begins one is followed by the one that ends it, by an injection
between sets of one size, and the order is kept. Assumed is `TurnEvidenceAssumption`.

### The index of the rag service

`ServicesProofs.IndexStaysSound` proves `IndexIsSound` for any requests, paths and models.
Two parts make up `RagInv`. `RagTyped` holds always: the types, and what a request may know
at each of its places. `Alone` holds until `"shared"` is among the faults, which is when
requests of two pipelines are under way together over the one SQLite connection, and says:
either one pipeline is in use, or some are being made and nobody uses one (`OnePipeline`);
a row that is not committed is that of the import which holds the pipeline's lock, or was
left out of an open transaction (`OneWriter`); a listed document lacks vectors only while
the collection is being refilled, or somebody is about to delete or replace it
(`RowsAreIndexed`); a vector is of a document that is listed, and of none whose vectors were
dropped (`VectorsAreListed`); the model in use is the collection's (`OneModelInUse`). Each
of the last three carries, as `IndexIsSound` does, the faults that excuse it: they name
steps the code really takes (a deletion of vectors that is only logged, a statement that
fails before the `try` that rolls back), so the theorem says that nothing else does harm.
What an action changes is stated first (`LockEffect` and the like) and proved from its
definition; the steps of the invariant then use only that. `RagInv` was checked by TLC on
instances of one and of two paths before it was proved. Assumed is `RagAssumption`.

### The stores

`ServicesProofs.SecretsStaySafe` and `PolicyIsAppliedAlways` prove `SecretsAreSafe` and
`PolicyIsApplied`. That no secret of an agent rests in plaintext is about what each process
knows of rows that others write: `RowsAsKnown` says that who started without a key finds only
plaintext, that who migrates has all plaintext rows at hand, and that none is left once it is
up. It holds until a process without a key has run beside one with a key (`mixed`), which
nothing in the code prevents; `JobFits` adds that an update which carries a secret over
has decrypted it, and only `raced` rows, which two processes wrote over one another, lose
what was acknowledged. For the policy, `SaveStands` follows a save through the handler of
the dashboard: whoever writes the file, what is in it, in the dashboard's memory and in the
worker is the new policy or the previous one, place by place, until the worker has answered
or everything is put back. `WritesAreKnown` holds always: half a file is being written, or
was left by one of the `upsets` the property names. `StoresStaySafe` states both stores
together, with their types. Assumed are `AgentStoreAssumption` and `AbusePolicyAssumption`.

### What is only model-checked

- Liveness (`DroppedIsClosed`, `OperationReturns`, `TurnsEnd`), which TLAPS does not treat,
  and `LockIsReleased`, which speaks of `ENABLED`.
- `SeedIsSound`, whose module inserts rows with folds over sequences.
- The types of `SeedPipeline`, which this property contains. Those of every other module are
  proved.

The findings are runs TLC finds violated; nothing is proved of them.

## 6. Not modelled, and what is left

Not modelled: the SQL building, config generation and search of the data-service, the
guardrails' and the evaluator's matching of words, and the rendering of reports,
because they are functions of one input without order; the dashboard's user interface,
demos, deployment scripts and shared clients; the Redis store of sessions; the
gateway's rate limiter and manifest cache; the store of visitors' reports; parsing,
chunking and search of rag; the completeness checks of the benchmark. Within the modelled
parts these stay outside: `expire_stale` beside running turns (`SpendingLedger` has it; only tests call it); notices between the
results of one batch; an add or update of a tenant whose file cannot be saved (the model
has the failure, no property speaks of it); the check of the breaker after an idle
connection was torn down; two `materialize` of one file.

Left to prove: `SeedIsSound`, with lemmas about its folds as those
of `FoldTheorems` about sums and selections.

Left to model: a composition of `ChatSessions` with `AgentLoop` (what a turn replays is
what earlier turns left) and of `GatewayScopes` with `McpClient` (a handler evicted under
a client's session), for which the instances have to be smaller than the ones checked
now.
