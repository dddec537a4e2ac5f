# Verification of qurvo's event ingestion

qurvo is an analytics platform: SDKs send events to an ingest API, a Redis
stream carries them to processor replicas, which resolve persons and insert
the events into ClickHouse; workers recompute cohorts and billing quotas; an
API and a web application read the result. This directory holds TLA+ models of
the parts where interleaving, failure and order decide whether events survive,
the TLC configurations that check them, and TLAPS proofs of the central
properties. Paths below are relative to the root of the repository.

## 1. Inventory

### How the parts interact

    SDK EventQueue --POST /v1/batch--> ingest guards -> IngestController/Service
        --XADD MAXLEN ~--> Redis stream events:incoming (consumer group processors)
        --XREADGROUP / XAUTOCLAIM--> EventConsumerService (n processor replicas)
        --addToBuffer--> FlushService --BatchWriter--> Postgres persons, ClickHouse events
              |  failure: XADD events:dlq            --XACK--> events:incoming
              v
        DlqService (one replica at a time, dlq:replay:lock) --enqueue--> PersonBatchStore
            --BatchWriter--> Postgres persons, ClickHouse events

    processor: PersonResolverService --enqueue, enqueueMerge--> PersonBatchStore --flush--> Postgres
        (Redis person:<project>:<id>, ClickHouse person_distinct_id_overrides, processor:failed_merges)
    cohort-worker: cycle (cohort_membership:lock) --addBulk--> cohort-compute jobs --INSERT SELECT-->
        ClickHouse cohort_members; versions and errors in Postgres cohorts, which the API changes
    API rotateToken, remove --> projects.token, DEL project_token:<old>  <--cache-- ApiKeyGuard
    ingest counters --MGET--> billing-worker --DEL, SADD, EXPIRE--> billing:quota_limited --> BillingGuard

### Components

| component | code | state | operations | what makes it correct |
|---|---|---|---|---|
| SDK event queue | `packages/@qurvo/sdk-core/src/queue.ts`, `fetch-transport.ts`; persistence and unload hooks in `sdk-browser/src/index.ts` | queue, batch in flight, backoff, timer, localStorage | enqueue, timed flush, the four outcomes of a send, shutdown, flushForUnload, restore | no event forgotten, reordered or kept for ever; bounded memory; shutdown flushes |
| Ingest API | `apps/ingest/src/ingest` | cached stream length per replica; the stream | batch, import, back-pressure check, pipeline write, handler timeout | 202 means written; refusals only when the stream is long; no silent trim; a refusal is temporary |
| Ingest guards | `apps/ingest/src/guards` | token cache, rate buckets, quota set (Redis) | resolve token, sum buckets, test quota | a rotated token dies within its TTL, a valid one is never refused; limits fail open |
| Event consumer | `apps/processor/src/processor/event-consumer.service.ts`, `pipeline/` | consumer group, PEL, pages being processed, error count | read, claim, validate, buffer, back-pressure, exit on errors, shutdown | at-least-once: every entry is acknowledged only when its fate is decided |
| Flush and batch writer | `flush.service.ts`, `batch-writer.ts`, `retry.ts`, `schedule-loop.ts` | buffer, batch, flush in progress | flush by size, timer or back-pressure; write; XACK; move to the DLQ | a failed batch is parked or stays pending |
| Dead-letter replay | `dlq.service.ts`, `packages/@qurvo/distributed-lock` | DLQ stream, lock with TTL, circuit and failure keys | timer, lock, read, write, delete, circuit breaker, stop | parked events are stored before they are deleted, by one replica at a time |
| Persons | `person-resolver.service.ts`, `person-batch-store.ts` | Redis person cache, pending upserts and merges, `persons` and `person_distinct_ids` in Postgres, overrides in ClickHouse | resolve, identify, merge, batch flush, replay of failed merges | one person per identity; no merge or property lost |
| Definition sync, warnings | `definition-sync.service.ts`, `hourly-cache.ts`, `warnings-buffer.service.ts` | seen-recently caches | upsert definitions, invalidate API caches | eventually every definition is recorded |
| Billing worker | `apps/billing-worker/src/billing` | counters and quota set in Redis | check cycle, AI quota reset | projects over their limit, and no others, are limited |
| Cohort worker | `apps/cohort-worker/src/cohort-worker` | memberships with versions in ClickHouse, bookkeeping in Postgres, lock | cycle, levels of dependent cohorts, compute, retire old versions, garbage collection | readers always find a complete version; failing cohorts back off |
| Worker scaffolding | `packages/@qurvo/worker-core`, `heartbeat` | timer, running tick, heartbeat file | start, tick, stop | stop waits for the tick |
| API, web, landing, schemas, query builders, deployment | `apps/api`, `apps/web`, `apps/landing`, `packages/@qurvo/db`, `clickhouse`, `ch-query`, `k8s`, `docker`, `scripts` | databases | CRUD, read-only queries, UI, configuration | not modelled, see section 6 |

What is hard: the fibers of one replica (loop, claim interval, flush timer,
replay timer) interleave at every `await`; replicas share the PEL, the DLQ and
the lock; every Redis or ClickHouse call may fail after it took effect;
replicas crash; streams are trimmed; clients time out and repeat. `PROJECT.json`
lists each hazard at its line with the properties that watch it.

## 2. Modules

| module | models | kind |
|---|---|---|
| `Delivery` | what the pipeline promises for one event: unsent, accepted, then stored, rejected or evicted | abstract specification |
| `EventPipeline` | stream, consumer group, n processor replicas, DLQ and replay, ClickHouse | detailed specification, refines `Delivery` |
| `MCEventPipeline` | symmetry for TLC | model |
| `EventPipelineProofs` | safety theorems about `EventPipeline` | proofs |
| `PipelineRefinement` | `EventPipeline` implements `Delivery` | proof |
| `Ingest` | admission, write, timeout and repetition of batches | specification |
| `Identity` | `PersonResolverService`: which person an event gets, and `$identify`, on n replicas | specification |
| `PersonStore` | `PersonBatchStore` with its two callers: pending updates and merges, their flush to PostgreSQL, merges that failed, dead letters | specification |
| `Cohorts` | cycles of the cohort worker, their lock and jobs, and the API that changes cohorts | specification |
| `IdentityProofs`, `PersonStoreProofs`, `CohortsProofs` | theorems about these three | proofs |
| `Requests` | budgets of faults and changes that the next two share | specification |
| `TokenCache` | `ApiKeyGuard`, `rotateToken` and `remove` | specification |
| `EventQuota` | `BillingGuard`, the counters, the billing worker, plans and months | specification |
| `Admission` | a request through both guards: `TokenCache` and `EventQuota` composed | composition |
| `MCAdmission`, `AdmissionProofs` | the tokens of a small instance; theorems | model, proofs |
| `MCIdentity`, `MCPersonStore` | symmetry; the ids, persons and merges of `PersonStore` | models |
| `IngestProofs` | theorems about `Ingest` | proofs |
| `SdkQueue` | `EventQueue` of sdk-core with its storage and page lifecycle | specification |
| `SdkQueueProofs` | theorems about `SdkQueue` | proofs |

### EventPipeline

One step is the code between two awaits that reach Redis or ClickHouse, so
everything two fibers can do to each other's state is a step of its own.

| state | code |
|---|---|
| `produced`, `trimmedTo`, `lastDelivered`, `pel` | the stream `events:incoming` and its group; an entry is its position |
| `ch` | rows of `events`; the table is a ReplacingMergeTree, so a set |
| `dlq`, `dlqRound` | `events:dlq`; entries of one pipeline share a round |
| `lock`, `circuit`, `failures` | `dlq:replay:lock`, `DLQ_CIRCUIT_KEY`, `DLQ_FAILURES_KEY` |
| `fiber`, `read`, `errors` | `startLoop` and runs of `claimPendingMessages`, what they process, `consecutiveErrors` |
| `buffer`, `batch`, `phase` | `FlushService.buffer`, the batch of `_doFlush`, what it awaits |
| `replay`, `entries` | what `replayDlq` awaits and what it read |
| `mode` | progress of `onApplicationShutdown` |
| `evicted`, `overran`, `faults` | history, and the fault budget |

Choices worth knowing. The buffer is a set, because XAUTOCLAIM may hand a
replica an entry it still buffers; both copies are one row. A write that fails
may have inserted any part of the batch (attempts that timed out). An XACK that
fails after a good write sends the batch to the DLQ although it is stored, as
the code does. XAUTOCLAIM may pick any pending entry: idle time is not
modelled. The check of `running` and the XAUTOCLAIM are one step. `FlushTick` ends with the
shutdown, although the code clears only the first handle of the timer (`flush.service.ts:45`) and the loop
sets it again without a look at `stopped` (`schedule-loop.ts:19-23`), so that one more flush may
fire; it is the flush of the shutdown once more. A replica
that exits or crashes comes back empty, and its lock stays until the TTL.
`moveToDlq` takes a null result of the pipeline as success; ioredis returns
null only for an aborted transaction, which this is not, so that case does not
occur. DLQ entries always parse, since only `moveToDlq` writes them. The person
upserts that the write performs first are part of "the write may fail".

### Ingest

`log` is every entry ever added; `trimmedTo` counts those MAXLEN removed;
`processed` those the processor acknowledged, which it does not delete. Each
batch has up to `MaxFaults + 1` handlers, because `Promise.race` answers the
client without stopping the handler. Each replica has `cachedStreamLen` and a
bit for its age; the reply may arrive when the cache is already old, since
`cachedStreamLenAt` is read before the await. The client is `EventQueue`,
which repeats a batch after any 5xx, abort or network error.

### SdkQueue

One step is one task of the event loop. `payload` is what the request carries,
`inFlight` is `inFlightBatch`: they differ exactly after `flushForUnload` took
the batch while a send was awaited, where the failure handler then reads null
and throws (`Throws`). `storage` lags behind `queue` as in the code: a batch
that leaves the queue is saved only by the `finally` of its flush. A save may
fail (`stale`), which also covers the SDKs without storage. The length of the
backoff is one bit.

### Identity

| state | code |
|---|---|
| `redis`, `override`, `pdi` | keys `person:<project>:<distinct id>`, `person_distinct_id_overrides`, `person_distinct_ids` |
| `cache`, `task` | the map `prefetchPersonIds` returns, and where each event of the page is in `resolve` or `handleIdentify` |
| `pending`, `merges`, `buffer` | what the resolved events left in the batch store and the flush buffer |
| `unmerged` | merges that a flush has taken up and that are not done, or failed and wait in `processor:failed_merges` |
| `link`, `lapses`, `young` | history |

One step is one command to Redis, PostgreSQL or ClickHouse, with the JavaScript
up to the next. Events of one distinct id run one after the other, groups
concurrently, as in `resolveAndBuildEvents`; when a call throws, the group of its id fails
alone (`GroupFails`), and what its earlier events enqueued stays. A UUIDv5 carries the name of its
id. `Age` and `Expire` are the 90 days of a key: it outlives what was being
resolved or flushed when it was set, and any write renews it.

Any user may identify from any device. `reset()` of the browser's SDK only forgets the user
(`sdk-browser/src/index.ts:199-201`) and keeps the id in localStorage, so users that take turns on
a device have one anonymous id in common: the `$identify` of the second one finds
the first one's person under it (line 109), links the device to the second and merges the two persons.

`ReadsAgree` and `LinkSticks` say how events read through `resolvedPerson()`,
which prefers an override. `LinkSticks` is about the last user of the device. `lapses` records what went
wrong with an id. There is no sixth cause, and none is idle: with any one of them left out of `ReadsAgree` or
`LinkSticks`, TLC finds the property violated within the bounds of `Identity.cfg`, but for
`repointed` in `LinkSticks`, which takes a second device (one replica, five pages, one expired key):

| cause | where | leaves out |
|---|---|---|
| `raced` | the key of a device changes between the read and the write of a `$identify` (lines 109-142), two users identify from the device at once, or an event takes the person that SET NX (line 62) put there before the lookup in PostgreSQL (line 65) has corrected it | both |
| `forgotten` | the key of a device expires while PostgreSQL has no row for it; a device never seen before `$identify` is linked by its key alone (line 129) | both |
| `repointed` | the merge of two users moves the row of the first user's own id, for which `$identify` wrote no override (`person-batch-store.ts:273`) | both |
| `stale row` | a row read back from PostgreSQL names a user that the override has replaced: the merge that would move it is still pending | `LinkSticks` |
| `half linked` | a crash or a failing call between the override (line 141) and the SET (line 142) | `LinkSticks` |

A crash between the SET of line 142 and the flush loses the merge, since the
repeated event finds "already the same person" (line 134): the override is
written, the rows in PostgreSQL stay apart. `MergesKept` of `PersonStore` counts that as
a loss by "crash". A call that fails is taken to have had no effect, except that events of its group have
had theirs. `Flush` writes ids and events in one step that does not fail, and leaves each merge to a step of its
own, done in any order and at any time, as a failed one waits in Redis: the order and the failures
within a flush are those of `PersonStore`.

### PersonStore

| state | code |
|---|---|
| `live`, `props`, `owner` | `persons` and `person_distinct_ids` in PostgreSQL |
| `failed`, `dead` | `processor:failed_merges`, and `events:dlq` with the person of each event |
| `pending`, `flush` | the three maps before and after the swap in `_doFlush`, and what the flush awaits |
| `buffer`, `calls` | the buffer of FlushService, and where its `BatchWriter.write` and that of the replay are: behind `flushLock`, in the flush, at the insert, or failed and on the way to the DLQ |
| `handed`, `linked`, `merged`, `gone` | history |

A step of a flush is one statement or transaction of PostgreSQL or one command of Redis.
`flushPersons` reads the rows (`Read`) and writes them back (`Upsert`) in two. `mergePersons`
is a transaction under READ COMMITTED: `Select` moves the ids, which locks their rows, and reads both
persons, which locks nothing (lines 257-287); `Commit` writes what was read, deletes the one person and makes
all of it visible (lines 300-309), and other upserts and merges come in between. A merge of the replay and the
LREM of its entry are two steps, so a crash in between repeats the merge.

`StartReplay` is `replayDlq`: it enqueues the persons of the dead letters again
(`dlq.service.ts:121-128`), so a failed flush that routed its events to the DLQ loses no
update as long as their letters are there. It takes all letters at once (the code up to
`DLQ_REPLAY_BATCH`); two replays overlap only as a fault, since the lock of `EventPipeline` keeps them apart.

The properties of a person are the set of events that changed them, so
the merge functions of `enqueue` and `flushPersons` are unions and the
question is only whether an update survives. `UpdatesKept` and `MergesKept`
allow a loss only with a cause recorded in `gone`:

| cause | where |
|---|---|
| `requeued over` | a failed flush is put back, and a newer entry of the same person discards the older one whole (line 180), with the update of an event that is in neither the failing batch nor a dead letter |
| `overwritten` | two replicas read a row, and the second upsert replaces what was written since its read (lines 324-368) |
| `merged over` | a merge writes the rows as it has read them, over what an upsert or another merge wrote since (lines 284-309) |
| `crash` | merges that were pending or in a flush: an event that is delivered again finds the link done (line 134 of the resolver) and asks for no merge, and the replay of dead letters never does |
| `no user row` | the merge deletes the row of the device while the user has none yet (lines 289-309) |
| `not persisted` | merge and LPUSH both fail (line 204) |
| `trimmed` | LTRIM of the list of failed merges (line 202) |

These are losses that the code accepts or overlooks; the properties say that there
is no eighth. The bounds of the run do not reach the loss by `requeued over`, which takes a third event; the theorem
covers it. A merge into a person without a row violates the foreign key
for as long as that row is missing; such an entry stays among the oldest
`FAILED_MERGES_REPLAY_BATCH`, and ten of them block the list. Failing attempts of a merge leave nothing, as they
are rolled back. Failing groups, repeated delivery and trimming of the DLQ are those of `EventPipeline`.

### Cohorts

A definition is the set of cohorts it refers to and a generation; `rows` is
which versions of which cohort have members in ClickHouse, whole or in part.
No reader asks for a version (`builder.ts:154`), so rows of every version are
members until the deletion at the end of the cycle. Time is an order: `due`
and `held` are set and cleared by steps of their own. `ALTER ... DELETE` takes effect when issued.
Versions come from one clock that ticks at every job, where the code takes the `Date.now()` of whichever
replica runs it: the properties about versions assume clocks that agree and jobs of a cohort that start in
different milliseconds. `StartCycle` is one step, from the lock over the
SELECT to the errors of cyclic cohorts, and `recordError` does not fail (the code swallows it, line 156). A job that stalls
(`Stall`) leaves no rows in part and its first run does not go on beside the second. A definition refers only
to ids that are or were those of cohorts: they are UUIDs of the database, but that they exist is not checked.

`RecomputedUnlessOvertaken` leaves out cohorts redefined while a job of the old
definition was planned, queued or running: that job marks its membership
current, although `cohorts.service.ts:133` resets it, and until the cohort is
stale again, readers see the members of the old definition. When `markComputationSuccess` fails or finds a
newer version, the version is taken for deletion all the same (`Return(j, TRUE)` in `Mark`, `cohort-membership.service.ts:204`),
against the comment of `cohort-computation.service.ts:105`; `MembersKept` then holds through the rows of the version that
was not recorded, which readers see as they name none. `MembersKept` leaves out
behaviours in which a cycle outlived its lock (`overlapped`): the timeout of a
job equals the TTL of the lock (`constants.ts`, "so the cycle cannot outlive the
lock"), yet the cycle goes on afterwards with deletions and garbage collection.
The garbage collection reads the ids and deletes the rest in two steps; a
cohort created and computed in between loses its rows, which only happens with overlap.
`Levels` says what `topologicalSortCohorts` computes without its loop: the level of a cohort is
the length of its longest chain of references among those to compute, and the cohorts with chains
of every length refer into a cycle.
It was compared with the level-by-level definition on all graphs of up to four cohorts.
`topologicalSortCohorts` calls all remaining nodes cyclic; a cohort that only refers
into a cycle gets errors as well, and at the maximum it stays excluded although
the cycle is repaired. Two concurrent updates can create a cycle, since each
checks before the other has written.

### Admission

| state | code |
|---|---|
| `row`, `cache` | `projects.token`, `project_token:<token>` in Redis |
| `request`, `check` | the request of a slot, in `ApiKeyGuard` and after it; a slot serves one at a time |
| `rotation` | the `rotateToken` of each caller, at its UPDATE or its DEL |
| `limit`, `counter`, `limited` | `plans.events_limit` of a project's plan, `billing:events:<project>:<month>`, `billing:quota_limited` |
| `worker`, `down`, `month` | `runCycle` and what it has read, whether the worker runs, the clock |
| `issued`, `excuse`, `basis` | history |

`Admission` gives each step of one part together with a step of the other or
nothing of it: they meet where the guard sets `request.projectId` (`NextGuard`)
and in the budgets. So each part keeps an invariant of its own, and the
composition has both.

Choices worth knowing. `writeCache` is not awaited, but ioredis sends commands in order on one
connection, so the SET precedes whatever this request asks next; it is a step
of the request. The DEL of a rotation is not awaited either: a step of its own, which may fail.
`Hash` maps the secret of an old SDK to the token that the project stores for it,
other tokens to nothing, so a token found under its hash is looked up twice, as
in `resolveViaHashFallback`. A batch is one event and is valid. Time
is an order: an entry of the cache may expire at any moment after its SET, the
set of limited projects when the worker is down, or, as a fault, when its cycles
drag on (it lives 120 s, four cycles). There is one worker, since its deployment has
the strategy Recreate; it works on what it has read (`rows`, `month`, `over`).
A removed project stays among the `rows` of the worker, which its SELECT would leave out
(`billing-check.service.ts:59-63`): nothing asks for its quota any more. `ChangePlan` stands for `patchProject` and for `patchPlan`, which changes all projects of
a plan, here one after the other.

`CacheFollowsRow` leaves out the tokens in `excuse`: those the cache may hold until
they expire, although their project has lost them:

| cause | where |
|---|---|
| the DEL failed, or the process died before it | `projects.service.ts:138-140` |
| a lookup read the row before the rotation and its SET came after the DEL | `api-key.guard.ts:68-70` |
| two rotations overlap: both read the same old token, both DEL it, and the token that the first one set is replaced without a DEL | `projects.service.ts:120-140` |
| the project was removed, which deletes nothing from Redis | `projects.service.ts:112` |

`RetiredFinally` says that all of them end with the TTL, because hits do not renew it.
`LimitedAtLimit` leaves out months other than the one the set is about, and projects
whose plan changed since the SELECT. A batch of such a project is answered with 200
and lost until the next cycle.

## 3. Runs

| run | configuration | question | bounds |
|---|---|---|---|
| `pipeline_replicas` | `PipelineReplicas.cfg` | can two replicas lose an event, or replay at once? `NoLoss`, `ReplayExclusive` | 2 replicas, 1 event, 2 faults: every race of claims, flushes, replays, crashes and lock expiry around one event |
| `pipeline_batches` | `PipelineBatches.cfg` | does one replica keep the promise of `Delivery`? `ImplementsDelivery`, `DlqKeepsUnstored`, `TypeOK` | 3 events, one malformed, batches of 2, both MAXLEN at 2 so both streams trim, a circuit that opens at the first failure, 2 faults |
| `pipeline_liveness` | `PipelineLiveness.cfg` | does every event get its fate once faults stop? `EverySettles` | 2 events, one malformed, 2 faults, back-pressure at the first buffered event, and a circuit that opens at the first failure: one fault parks an event, the other opens the circuit while it is parked |
| `ingest` | `Ingest.cfg` | is an accepted batch complete, a refusal justified, trimming confined to bursts, and does a client that repeats get its 202? `Complete`, `RefusalNotStale`, `TrimNeedsBurst`, `FinallyAccepted`, `TypeOK` | 2 replicas with their own caches, 2 batches of 2 events, one fault (hang, crash, failure, late answer), limits 3 and 4: a batch and half of a repeated one reach the threshold |
| `ingest_refusal` | `IngestRefusal.cfg` | is a refusal temporary? `RefusalIsTemporary`: **violated** | no fault at all |
| `sdk_queue` | `SdkQueue.cfg` | is any event forgotten, duplicated in the queue, reordered, unsaved? `Accounted`, `InOrder`, `StorageCovers`, `SizeBound`, `TypeOK`; is any stranded? `EverySettles` | 3 events, batches of 2, room for 1: a requeue onto a full queue, and drops. The invariants are proved for all sizes |
| `sdk_shutdown` | `SdkShutdown.cfg` | does `shutdown()` flush everything? `ShutdownFlushesAll`: **violated** | 2 events |
| `identity` | `Identity.cfg` | do all events of an id read as one person, and those of a device as its user? `ReadsAgree`, `LinkSticks`, `TypeOK` | 2 replicas, a device and two users, 4 pages of one event, one crash, failing call or expired key: a first event, the logins of both users in any overlap, and an event after them. Replicas and users are interchangeable |
| `identity_race` | `IdentityRace.cfg` | does a distinct id always produce the same person? `SamePerson`: **violated** | 2 replicas, one device, one user, 2 pages of up to 2 events, no fault |
| `person_store` | `PersonStore.cfg` | is an update or a merge ever lost unnoticed, does `flush()` resolve early? `UpdatesKept`, `MergesKept`, `FlushCovers`, `TypeOK` | 2 replicas, 2 events, a device that two persons share with a merge each way, a list of failed merges of length 1, 2 faults: two upserts or an upsert and a merge of one row, two merges that cross, a batch that becomes dead letters and their replay, a trimmed list |
| `cohorts` | `Cohorts.cfg` | are the members of a cohort those of its definition, kept, computed in order and collected? `RecomputedUnlessOvertaken`, `MembersKept`, `DependenciesFirst`, `OldRowsAwaitDeletion`, `StaleComputed`, `OrphansCollected`, `TypeOK` | one worker, 2 cohorts with any references, one change by the API, one fault. One worker is enough for overlap, as its jobs outlive its cycle and its lock; a second one adds cycles that the lock excludes |
| `admission` | `Admission.cfg` | does a revoked token live on, is a valid one refused, is a batch dropped without cause? `CacheFollowsRow`, `RefusedUnowned`, `RetiredFinally`, `LimitedAtLimit`, `LimitTakesEffect`, `ReleasedFinally`, `TypeOK` | 1 project, 3 tokens and the secret of the first, one request at a time, 2 overlapping rotations, a limit of one event or none, 2 months, 2 changes, one fault. Requests share nothing but the cache and counters, so a second slot adds lookups that overlap each other; the safety properties are proved for every number |

Every property of a passing run has a mutant in `PROJECT.json`: a definition
changed the way a bug in the code would change it, which TLC must catch. Faults are
a budget because TLC needs one; the safety theorems hold for every budget. Two faults are
the least that reach the double failures the code handles: a failed write
followed by a failed DLQ pipeline, a crash of the holder of the lock during the
other replica's failure, an overrun lock followed by a failed delete.
`CHECK_DEADLOCK FALSE` is set for the SDK (the page may have nothing left to
do), for ingest (every batch accepted and processed), and for persons, cohorts and admission
(the bounds on pages, events and changes are used up).

### What the violations show

* **`ingest_refusal`.** `checkBackpressure` compares XLEN with 900 000, but
  XLEN counts processed entries. The processor only acknowledges; nothing in the repository
  deletes from or trims `events:incoming`, and MAXLEN is applied only by the XADD that is
  refused. Once 900 000 events have ever been written the API answers 503 to everything
  for ever. `ingest.controller.ts:130` calls that "temporarily unavailable", `retryable`.
* **`sdk_shutdown`.** `flushAll` loops while the queue is non-empty and calls `flush()`,
  which returns at once while a flush is in progress. `shutdown()` therefore resolves with
  that batch unanswered (in the run the second event has filled it and started the flush), where `packages/@qurvo/sdk-node/README.md:122` promises
  "no events are lost" and exits the process next.
* **`identity_race`.** `$identify` of a device that has neither key nor row sets
  the key of the device to the user (line 129) and writes no override. An event
  of the device that another fiber or replica resolves between that read and that
  SET takes the device's own person (line 62) and is stored with it for good, while
  the device's later events belong to the user. The comment of `resolve`
  (`person-resolver.service.ts:46-47`) says that deterministic ids eliminate races between
  processor instances. It happens within one page of one replica too, since groups are concurrent.

Three more disagreements were met whose behaviour is part of passing runs:

* **`identity`.** `sdk-browser/README.md:134` says of `reset()`: "Clear the current user identity and all
  stored IDs. Call this on logout." It keeps the anonymous id, so the next login on the
  device merges the first user's person into the second's. The events of the device follow the last user; those of the
  first user's own id can read as two persons (`repointed`).
* **`cohorts`.** `tallyFulfilledResult` deletes old versions after `markComputationSuccess` returned
  false, which its comment (`cohort-computation.service.ts:105-106`) tells the caller not to do.
* **`cohorts`.** A job with the old definition ends the reset of `cohorts.service.ts:133`
  ("force fallback until recomputation"), see `overtaken`.

## 4. Fairness

Safety runs use `Spec`, without fairness. `FairSpec` assumes, for the pipeline:
an await whose call does not fail completes, timers fire (`setInterval`,
`setTimeout`, rescheduled in `finally`), the TTLs Redis keeps run out (weak
fairness of each step). Claims need strong fairness: an entry becomes idle long
enough only between claim runs, and other replicas may take it first; a replica
claims every 30 s for as long as it runs. Faults, shutdowns and crashes have no
fairness and are finite. For ingest: clients repeat, calls that do not hang
return, the handler timeout fires for a hanging one, caches age, the processor
goes on. For cohorts: the timer of each worker is set again in `finally`
(`periodic-worker.mixin.ts`), BullMQ hands out every job, Redis expires the lock of
a cycle that is dead, and backoffs end; `StaleComputed` is conditional on errors staying
below `COHORT_MAX_ERRORS`. For admission: calls of a request in `ApiKeyGuard` return, entries of the cache expire, the
billing worker, while it runs, starts a cycle after each one, and the set expires while the worker is
down; nothing makes a client send, a rotation go on, or a worker that stopped come back. For the SDK: timers fire, and a server that is asked again and again
finally accepts (strong fairness of `SendOk`, since failures may alternate with
backoffs for ever otherwise); `EverySettles` is conditional on pages staying,
as a user who reloads faster than a request takes can starve the queue.

## 5. Proofs

All constants are arbitrary values satisfying the `ASSUME`s of the modules
(sizes are naturals, non-zero where the code's constants are; model values are
distinct; `Threshold <= MaxLen` in `Ingest`; finitely many cohorts; ids of devices are not ids of users). TLC evaluates the assumptions in
the runs above.

| theorem | states | argument |
|---|---|---|
| `TypeCorrect` | `Spec => []TypeOK` of the pipeline | action by action |
| `NothingLost` | `Spec => []NoLoss` | inductive `LossInv`: besides `NoLoss`, a batch that is about to be acknowledged is stored (phase `ack`) or stored, parked or evicted (`dlqAck`), and a replay about to delete has stored what it read. `NoLoss` alone is not inductive: from an arbitrary state `AckBatch` could acknowledge a batch that is nowhere. The lemma `GrowsStep` says no step takes an event out of `ch`, `evicted` or, unstored, out of the DLQ |
| `ReplayKeepsUnstored` | `Spec => DlqKeepsUnstored` | from the same invariant |
| `ReplaysExclude` | `Spec => []ReplayExclusive` | inductive `LockInv`: a replay that has not outlived its TTL holds the lock |
| `PipelineImplementsDelivery` | `Spec => ImplementsDelivery`: every step of the pipeline is a step of `Delivery` or a stutter | from `LossInv` and the inductive `Origins`: buffers, batches, the DLQ, replays and ClickHouse hold only valid events, and nothing appears anywhere that ingest did not write. Without it a rejected event could turn up as stored, and a new event could be born stored or evicted. One lemma per status says where a step may take it (`UnsentStep`, `AcceptedStep`, `StoredStep`, `EvictedStatusStep`, `RejectedStep`); `CursorGrows` and `PelStep` say that a position behind the group's cursor never becomes pending again, which keeps `rejected` final |
| `RefusalsSound` | `Spec => RefusalNotStale` | inductive `AdmitInv`: every length a replica caches or a handler carries was true when the stream had `base` entries in all; if it was at the threshold, the stream still is, as MAXLEN never trims below it |
| `TrimsNeedBursts` | `Spec => TrimNeedsBurst` | from `AdmitInv`: the writer was admitted below the threshold, a trim leaves at least `MaxLen` |
| `AcceptedBatchesComplete` | `Spec => []Complete` | inductive with `StreamShape`, the lengths and positions in the stream: only a handler that wrote every event of its batch lets the client take a 202, and the log never loses an entry |
| `IngestTyped` | `Spec => []TypeOK` of ingest | with `AdmitInv`; a client waits only for a handler that exists, which a handler of another batch cannot end |
| `QueueBounded` | `Spec => []SizeBound` of the SDK | inductive `BoundInv`: the batch in flight is at most `FlushSize`, and what storage may restore is within the bound too |
| `QueueTyped`, `NothingForgotten`, `OrderPreserved`, `StorageAlwaysCovers` | `Spec => []TypeOK`, `[]Accounted`, `[]InOrder`, `[]StorageCovers` of the SDK | inductive `QueueInv`: besides `BoundInv` and the types, batch in flight and queue are increasing and below `tracked`, and so is what storage may restore, so a requeue or a restore cannot break the order |
| `Typed`, `NoUpdateForgotten`, `NoMergeForgotten`, `FlushKeepsItsPromise` | `Spec => []TypeOK`, `[]UpdatesKept`, `[]MergesKept`, `[]FlushCovers` of `PersonStore` | inductive `StoreInv`. `FlushInv` says what a flush holds at each step: after the upsert every update it holds is in its row or lost with a cause, later it holds none, and an entry about to be removed from the list is merged. `CallInv` says that what a call of `BatchWriter.write` waits for is settled, held by the flush or, behind the lock, still pending, and that every event it is about to insert is among that or safe already; `BufferInv` says the same of the events that wait for the next batch. Without them a flush could finish, or a dead letter be deleted, from a state in which nothing was written. `StepOf` reduces a step to its replica: another one loses nothing by it |
| `CacheFollows`, `OwnersAreLetIn` | `Spec => []CacheFollowsRow`, `Spec => RefusedUnowned` of `Admission` | inductive `TokenInv`: besides the types and `CacheFollowsRow`, `LookedUp`: a token looked up by its hash belongs to no project as it is. It stays so, because a token that a project is given is new: it is neither a token before nor a secret |
| `OnlyTheLimitedAreDropped` | `Spec => []LimitedAtLimit` of `Admission` | inductive `QuotaInv`: what the worker has read is the plan unless it changed since (`changed`), whom it found over the limit was so when it read the counter, and counters only grow |
| `AdmissionTyped` | `Spec => []TypeOK` of `Admission` | both invariants; a step of `Admission` is a step of each part or leaves it alone (`StepOfToken`, `StepOfQuota`) |
| `EventsReadAsOne`, `LinksStick`, `IdentityTyped` | `Spec => []ReadsAgree`, `[]LinkSticks`, `[]TypeOK` of `Identity` | inductive `IInv` of `IdentityProofs`, see below |
| `SortedUnlessCyclic`, `ErrorsForCyclesOnly` | the levels hold exactly the cohorts whose chains of references end; `Spec => [][CyclesFail]_vars`: a cycle records errors for the others and for no more | see below |
| `RecomputedAfterRedefinition`, `DeletionsKeepMembers`, `DependenciesComputedFirst`, `OldRowsDeleted`, `CohortTypes` | `Spec => []RecomputedUnlessOvertaken`, `[]MembersKept`, `[]DependenciesFirst`, `[]OldRowsAwaitDeletion`, `[]TypeOK` of `Cohorts` | inductive `IInv` of `CohortsProofs`, see below |

**`Identity`.** Neither `ReadsAgree` nor `LinkSticks` is inductive: an event that is still being resolved may
bring back a person that nothing stored remembers. `IInv` therefore speaks of every place outside
Redis from which an id can get a person (`Says`: PostgreSQL, ClickHouse, pending rows, buffers,
the prefetched cache of an unfinished page, a row that `resolve` has read). It has four parts that matter:

* `Agree`, of the ids without an override (`Plain`): the places of a user's id say the user only (`Single`), and those
  of a device never two persons; the key of the device does not contradict them unless
  the row in PostgreSQL already corrects it, and a linked device has its user in the key or in the row (`Agrees`).
* `Kept`: a device that any place has a person for has a key or a row, unless it was forgotten.
* `Held`: an override names the user of the last `$identify`, the key does so too or is about to (`Linking`), and
  the `$identify` events of one device that are past their read are of one user.
* `Lasting` carries what a task knows across its awaits: a key set while an event of its id is in
  progress is there as long as the event is, so `resolve` between SET NX and the lookup, or
  `$identify` between its reads and its SET, acts on a key that is still what it was.

The person of a device is merged only with the override written, that of a user with the lapse on record (`Merge`), so
a flush never moves the row of a plain id. Each action has a lemma that says what
it does to `Says`, to the keys and to the tasks (`Moves`, `KeyMoves`, `TaskMoves`, `Keeps`, `Calm`); `Close`
derives `IInv'` from that alone, and `PageKeeps`, `RestKeeps` do so for the steps that leave the keys or
the pages alone. A second user enters where `AnonRead` finds the first one's person: the override that it writes
takes the device out of `Plain`, and `Held` takes over.

**`Cohorts`.** The parts of the invariant are: in one cycle a cohort waits, runs or is
done, and only once (`Once`); versions are unique per job and rows carry the definition
of their job (`Versions`); what a cohort refers to is queued before it and done
before its version is taken (`Ordered`); a waiting or running step has the present definition of
its cohort, or the cohort is noted as overtaken (`Generations`); while no cycle has gone on without the
lock, one cycle at most is under way (`Exclusive`) and the rows that a marking job, a deletion
or the garbage collection relies on exist (`Kept`); without a fault, no job outlives its cycle
and each is newer than the version it replaces (`Undisturbed`). `Ordered` starts from the lemmas `LevelFacts` and
`LevelsFacts`: a cohort is on one level, and on a later one than those it refers to, since a chain from
one of them is a shorter one of its own. `RecomputedAfterRedefinition` then needs `Generations`, and
`DeletionsKeepMembers` needs `Kept` with `Exclusive`.
The other direction, that no cohort is left out of the levels without being cyclic, is
`SortedUnlessCyclic`: the least length that has no chain is the level; the levels below are not
empty, since the cohorts on the longest chain are on them, and as these are all different there
are no more levels than cohorts. `ErrorsForCyclesOnly` applies it to `StartCycle`.

The inductive invariants of the pipeline, of `Identity` and of `Cohorts` were checked with TLC before they
were proved; the others are conjunctions of properties that the runs check with facts
about where a process stands. The invariants and action properties of all passing runs are
proved. Only model-checked: liveness, which is out of the prover's reach (`EverySettles` twice,
`FinallyAccepted`, `StaleComputed`, `OrphansCollected`, `RetiredFinally`, `LimitTakesEffect`,
`ReleasedFinally`).

## 6. What is not modelled, and the plan

Not modelled, with no plan to: the rest of the API, web application and landing page
(request/response CRUD and SQL text), database schemas and migrations, query
builders, deployment, metrics, heartbeat files, GeoIP, the wording of messages.
Within modelled components: body validation and timestamp resolution of
ingest, the warnings buffer at shutdown,
the asynchronous CloudStorage restore of the Telegram SDK.

Admission: `RateLimitGuard` (a sum over buckets of seconds that lets everything pass on an error), the import
endpoint, which neither checks the quota nor counts, the five days that a counter outlives its month, and the AI
quota. The latter has a cached limit of its own: the comment of `invalidatePlanAiLimitCache`
(`billing.service.ts:89`) says to call it whenever a plan changes, and nothing calls it, so a new plan takes up to
five minutes; there is no interleaving to check.

Persons: the values under `$set`, `$set_once` and `$unset`, and the hourly cache
of known ids (a second INSERT of an id does nothing). Cohorts: static cohorts,
the size history, the SQL of a definition, `stop()` of the worker.

Plan, in order of importance:

1. done: `EventPipeline` with `Delivery`, proofs of safety and of the refinement.
2. done: `SdkQueue`, `Ingest` and theorems about them.
3. done: `Identity` and `PersonStore`.
4. done: `Cohorts`.
5. done: `TokenCache`, `EventQuota` and their composition `Admission`.
6. done: proofs for `SdkQueue`, `Ingest`, `PersonStore` and `Admission`.
7. done: proofs for `Identity` and `Cohorts`.
8. The properties of persons as pure operators, checked against applying the
   events one at a time (a batched `$unset` followed by `$set_once` of the same key loses the value).
9. The rate limit and the AI quota with its reset; verification codes and sessions of the API.
