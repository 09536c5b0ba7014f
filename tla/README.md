# SmartBrain 3000: TLA+ models, checks and proofs

This directory models the parts of SmartBrain 3000 that decide *whether and when
something happens*: a dangerous tool call being approved and run, a parked agent
turn being resumed, a schedule being fired, a vault being unlocked and locked, a
subscription being updated, a document being indexed, a card being built.
They are small pieces of Python in which threads of a request pool, background
workers, a clock, a lock button and a crash meet. File names below are relative to
`src/app/smartbrain_3000/` unless they start with another directory. `PROJECT.json`
maps each definition to its lines.

## 1. Inventory

| Component | State | Operations | Shares or calls | Hard behaviour | Correct when |
|---|---|---|---|---|---|
| **Pending approvals** (`approvals.py`, `agent_routes.py`) | `pending_actions` rows: status, owner session, expiry clock, stored result | create, list (sweeps), get, approve, deny, claim, store_result | the tool gate, the turn loop; `app.state` | two requests on one row, sweep against approve, lock or crash in between, two-statement store | an action runs at most once, in its own session; its result is its handler's |
| **Turn loop and resume** (`agent.py`, `agent_routes.py`) | `turn_state` in each row, `_RESUMING_TURNS`, in-flight clock | answer, park a batch, resume, launch worker | approvals, scheduler's feed, chat page | last finisher, lost wakeup, half-visible batch, interrupted handler | the model is told the truth; the tail is driven once, and is driven |
| **Tool gate** (`tools.py`) | registry | run: claim, then handler | approvals, audit | a claim that is lost, a handler that raises | nothing dangerous runs unclaimed |
| **Schedule runner** (`scheduler.py`, `schedule_routes.py`) | `schedules`, `schedule_runs`, `_RUN_LOCK`, breaker | add, edit, pause, delete, tick, run now | turn loop, `app.state` | tick against manual run against edits, relock during a tick, crash after the claim | one run per occurrence, recorded; every due schedule runs |
| **Vault account** (`account.py`, `keyvault.py`) | key wraps, a dozen attributes of `app.state`, throttle | set up, unlock, lock, change passphrase, restore | every component reads the attributes | unlock, lock and setup write attributes one by one without a lock; racing guesses | fail-closed, lock drops everything, guesses are spaced |
| Model gateway (`gateway.py`) | semaphore for local models | chat, stream | turn loop, self-review | slot held over an abandoned stream | the slot is always released |
| Streams (`agent_routes.py`) | primed answers, event queue | stash, take, SSE | turn loop | eviction against claim, reader that goes away | an answer is used once, for its own conversation |
| Browser sessions (`auth.py`) | session tokens | mint, check, revoke | account | - | - |
| Remembered consent (`consent.py`) | tool and host keys | remember, forget | turn loop | - | irreversible tools are never remembered |
| Chat history (`history.py`) | conversations, trash | append, delete, purge | chat page | retention sweep | - |
| Self-review (`improvements.py`, `selfreview.py`, `optimizer.py`) | improvements with a status | propose, apply, evaluate, revert | memory, scheduler's tick | user edits the same fact; crash in revert | an active improvement is revertible exactly once |
| **Vaults and subscriptions** (`vaults.py`, `vault_sync.py`, `vault_routes.py`) | pins: key, seq floor, retired and blocked marks, failure counts | subscribe, check, apply, re-pin, block, settings, delete | kb, network | tick against user over a pin nobody locks; partial apply; dead host | content of accepted keys only; seq and mark of one manifest; a host earns its death |
| Feeds (`feeds.py`) | seen set | poll, mark seen | kb | crash between add and mark | each item once |
| **Ingest and index** (`kb.py`, `kbindex.py`, `ingest.py`) | documents, vectors, live index | add, rename, replace, delete, build, embed | scheduler's tick, vault updates | index built while documents change; vectors of a text read long ago | search sees what exists; vectors describe the text |
| **Neural Interface flow** (`ni_flow.py`) | card, flow record, `_INFLIGHT` | new, Retry, Fix, No, answer, Cancel, stages, sweep | network, scheduler's tick | a worker that cannot be killed, cancel against finish, restart | a stop is kept; every build settles |
| Library outbox (`library_client.py`) | queue of submissions | enqueue, flush, give up | network | crash after send, poison item | nothing lost silently |
| Signaling broker (`src/signaling/server.py`) | desktops, rooms, rate windows | register, join, relay | devices | awaited proof between check and registration | one socket per desktop |
| Devices and pairing (`pairing_host.py`, `devices.py`, `webrtc_*.py`) | pairing session, device list | open, guess, confirm, revoke | broker | deadline against a late guess, guess limit | one device per code |
| Outbound guard, jails, page browsers, email, planner, memory, voice, MCP | see `PROJECT.json` | | | string or OS level, or sequential | |
| Database layer (`db.py`) | DuckDB, per-thread cursors | migrate, execute | all | - | one statement is one atomic step |
| Web client, launcher, installer | - | - | HTTP, containers | download, swap and restart | later |

How the modelled ones meet: `tools.run` refuses a dangerous call without a claim, so
the turn loop parks it (`agent._park` -> `ApprovalStore.create_pending`). The approve
and deny routes resolve the row on a pool thread and, for a turn that a schedule
started, launch a resume worker when no row of the turn is open. The schedule runner
claims a schedule and runs a turn on its own thread. Every one of them reads its
stores off `app.state`, which unlock fills and lock empties while they run.

## 2. Modules

| Module | Models | Builds on |
|---|---|---|
| `SingleUseAction` | what the approval gateway promises: an action is proposed, granted or closed for good, spent once, performed at most once, answered once with the outcome | - |
| `Approvals` | the table, sessions, clock, sweep, and the approve and deny requests, one step per call on shared state | refines `SingleUseAction` |
| `Approvals_proofs` | theorems about `Approvals` | `Approvals` |
| `AgentTurns` | turns, parking, resume worker, resume over HTTP | extends `Approvals` and refines it |
| `AgentTurns_proofs` | theorems about `AgentTurns` | `AgentTurns`, `Approvals_proofs`, `Induct_proofs` |
| `Scheduler` | schedules, tick, pool, manual run, edits, the breaker and the passes that share it | turns are abstracted to an outcome |
| `Scheduler_proofs` | theorems about `Scheduler` | `Scheduler`, `Induct_proofs` |
| `Account` | setup, unlock, lock, throttle | - |
| `Account_proofs` | theorems about `Account` | `Account`, `Induct_proofs` |
| `VaultSync` | the pin of a subscription under the vault pass and the vault pages | documents are abstracted to whether they land |
| `VaultSync_proofs` | theorems about `VaultSync` | `VaultSync` |
| `KbIndex` | documents, stored vectors, live index, embedders, vault updates | a vault update is one transaction here |
| `KbIndex_proofs` | theorems about `KbIndex` | `KbIndex` |
| `NiFlow` | a card's flow record, its worker, taps, Cancel, sweep, restart | - |
| `NiFlow_proofs` | theorems about `NiFlow` | `NiFlow` |
| `Induct_proofs` | the least and the greatest of a set of numbers, recursive functions over `0..n` | - |
| `MC*` | symmetry sets for TLC; constants are in the `.cfg` files | |

**Approvals.** `status`, `owner`, `chat`, `age`, `result` are the columns (`owner` is
the session sealed in the encrypted body; `age` is the class of `now() - created_at`
against the two clocks). `session`, `unlocks`, `boot` stand for `app.state` and the
process. A request is `pc`, its row `tgt`, the session of the store it captured
`store`, and the outcome it holds `out`. `ApproveRead`, `ApproveCas`, `Claim`,
`HandlerStarts`, `HandlerEnds`, `StoreRead`, `StoreWrite`, `Finish` are the calls of
`approve` in order; a lost claim goes straight to `StoreRead` with an error, exactly as
the `except PermissionError` branch does. `_cas` is one step because it holds
`_CAS_LOCK`; `store_result` is two because it does not. `runs` and `ended` are history.

**AgentTurns.** A driver is whoever runs `_run_turn_loop`: the starting thread, the
resume worker, or a page's resume request. `Answers` and `Calls` are one model answer,
chosen freely; `ParkOne` creates the rows of a batch one at a time; `ResumeReads` is
`resume_turn` up to the loop; `Exit` is what the worker does afterwards, in the order
of each of its exits. `FinishCheck`, `FinishLaunch`, `FinishSpawn` split
`_maybe_finish_scheduled_turn` where it takes and releases `_RESUME_LOCK`, and replace
`Finish` of `Approvals`; `ImplementsApprovals` says that nothing else changed, and is a
theorem. `AgentResume` is the resume route: it resumes any turn, so a page may drive a
scheduled turn beside its worker. A lock between `FinishLaunch` and `FinishSpawn` makes
`_context` raise and leaves the turn in `resuming` for good, but the rows of that turn
are then hidden from every later session (`RowsOf`, the filter of `list_for_turn`), which
is what `ResumingIsHeld` relies on.

**Scheduler.** `late` is the set `next_run <= now()` in `next_run` order. `Enter`,
`ReadFresh`, `CheckDue`, `MarkRan` are the statements inside `with _RUN_LOCK`; the
lock is the fact that at most one job is in `Window`. The edit routes take no lock.
`AutoReindex`, `ReindexEnds`, `AutoSummarize` and `SummarizeEnds` are the two passes of a
tick that record on the breaker (`scheduler.py:590`, `:593`, `:655`, `:658`) before
`TickFire` tests it (`:1028`); whether a pass stands aside or fails is a free choice.
`claimed` is history: who was claimed since it last became due.

**Account.** `UnlockOrder` and `LockOrder` are the assignments of `_set_unlocked` and
`account_lock` in source order, one per step. `slot`, `failures`, `wait` are
`_UnlockGuard`; `wait` counts in units of the base delay. `mixed` is history: a lock
and an unlock wrote attributes at the same time, and not everything is clear again.

**VaultSync.** A pin is the `source` of a vault's sealed body. `PassChecks` and
`PassCheckFails` are `_check_one` up to its first write, `RequestChecks` the check and
update routes, `TrustPublisher` and `SetSubscription` theirs. A fetch reads nothing
that is shared, so a check is one step with the read of its pin; what it found goes
through `Load` and `Store`, the two statements of `update_source`, or through `Apply`,
the transaction of `_write`, over a pin that others may have moved. What a worker
still knows of the pin it read is in its `pin` field. The manifest a host serves is a
free choice, so hosts that lag, rotate their key or answer at random are included.
`due` and `aged` stand for the check interval and the week a dead host is given.
`trusted`, `unmarked`, `strays`, `failed` are history.

**KbIndex.** `text` is the documents table, `rows` the embeddings table (which text
the vector of each chunk was computed from), `live` the index of `app.state.kb`. A
request writes statement by statement and tells the index last (`Insert`,
`IndexAdded`, ...). `Pick`, `FindMissing`, `PutChunk` are `embed_doc` for the
scheduler's pass, the reindex route, and the request that stored a document. `Build`
is the first search after an unlock, `Relock` a lock, with or without a search before it: a request from before talks to
an index that nobody reads (`old`). `PassWrites` and `RouteWrites` are a vault update
from the tick and from the route: one transaction, but another index. `raced` and
`overtaken` are history: where two writers, or a writer and an embedder, met.

**NiFlow.** `rec` is the record in a card's flow slot. A worker's stage reads it
(`StageRead`), works, and writes it under the flow lock (`StageWrite`), where
`Stored` is the rule of `_flow_write`; `StageWrites` says what each stage may write
and where the build goes then, `StageGoes` the steps that write nothing, `LoopEnds`
and `WriteBack` the end of `_auto_continue`. A tap reads (`Begin`), writes
(`Rewrite`), claims a slot (`Start`) or is refused and fails the record (`Refused`,
`Fail`). `Cancel` is one step under the flow lock; the sweep is three, since it looks
at the record, at `_INFLIGHT` and at the record again. `stopped` is history: the
builds that were cancelled while their thread was out.

## 3. Runs

| Run | Shows |
|---|---|
| `approvals` | one row, three requests, two unlocks and any restarts: types, at-most-once, results, finality, session binding, restarts, refinement of `SingleUseAction`; a claimed action gets its result unless the process restarts |
| `turns` | one scheduled turn that parks two actions, one after the other, over two unlocks and any restarts, two requests, resume workers and pages that resume it as well: the resumed model is told what happened, the same again on a repeated resume; steps and calls go on from the last park, and denials hold as long as each park is driven once and whole; unless a page asks for the turn, each park is driven once; an entry of `_RESUMING_TURNS` whose rows are visible has a worker that will discard it, or a request about to start one |
| `turns_live` | one scheduled turn that parks up to two actions in one answer, two requests, one driver: one resume worker from launch to discard; the last finisher drives the turn on unless it finds a registered worker |
| `sched` | tick, manual run, edits, lock, crash: the tick claims only unclaimed occurrences; a schedule that is due is claimed in the end although turns fail, if embedding recovers |
| `account` | three racing requests from the first run on: guesses are spaced, unlocks do not overlap; unless a lock overlaps an unlock, the application is fail-closed at every attribute and a lock drops everything |
| `vault_sync` | one vault, the pass and one request, three publications of two keys, one of them retired: only accepted keys land, seq and mark move together, a dead host failed often enough, the floor falls only behind a race, a due vault is checked |
| `kb_index` | a document of the user and one of a vault, two requests, one embedder: the live index follows the requests, vectors describe the text, pending documents are embedded |
| `ni_flow` | one card, two taps at once, one restart: a stop is kept, a stopped card keeps its spec, every build settles, two taps meet the single flight of `_INFLIGHT` (its cap, which one card cannot reach, is in the theorem `Typing`) |

Four runs each check one statement of the documentation or of a comment that the code
does not keep. `PROJECT.json` quotes the statement under `findings`.

| Run | What happens instead |
|---|---|
| `turns_lost_wakeup` | the last finisher finds a worker that has already given up, and the turn is never resumed |
| `sched_dead_embedder` | no turn fails, but the embedding pass does: after each cooldown it opens the breaker again before the tick looks at it, and a due schedule is never claimed |
| `kb_replace` | a vault update replaces a text while the pass embeds the old one; the old vectors are stored after the replacement and the document is not offered again |
| `ni_stopped_seals` | Stop, then Fix while the stopped worker is out: the re-seeded record carries no stop, and the stopped build seals its spec |

### Other differences

These follow from the modelled actions too; no run is kept for them, since they restate
one guard or one missing lock.

- `agent_routes.py:334`: two finishers pass the test before `_RESUME_LOCK`; the second
  launches after the first worker has left, and the tail is driven twice, although the
  comment at `:285-289` says that a second attempt is a no-op.
- `agent_routes.py:1075`: the resume route does not ask who started a turn; a page that
  resumes a scheduled turn drives it beside its worker, which `TailDrivenOnce` excludes
  (the chat page asks only for turns of its own conversation).
- `approvals.py:163`: `agent.py:688-689` and `:700` say that a claim whose process died
  stops blocking its turn after a while. Its rows belong to the session that died with the
  process, so that no later session finds the turn at all: it is never driven on.
- `scheduler.py:483`: a lock followed by an unlock passes `locked_check`, and the tick
  goes on in the session of before (`:986-987` says it stops).
- `account.py:450`: a lock overlapping an unlock clears `vaults` before the unlock
  writes `kb`; the order that `:112-117` explains is fail-closed only without that
  overlap, which is what `FailClosedAlone` says.
- `agent_routes.py:410`: a request that captured its store before a lock approves,
  claims and runs after it, although `docs/03-features.md:795` says that locking
  cancels everything pending.
- `approvals.py:204`: a scheduled park lives thirty days; the same sentence says an hour.
- `approvals.py:98`: when the last open action of a scheduled turn expires, the sweep
  settles it and no request is left that resumes the turn.
- `agent.py:402`: the rows of one answer become visible one by one; resolving the first
  before the second exists resumes the turn on half of the batch.
- `scheduler.py:488`: a manual run claims what the tick has just claimed, because only
  the tick asks for `require_due`.
- `scheduler.py:490`: an edit between the re-read and `mark_ran` turns a one-shot into
  a repeating schedule that the claim then disables.
- `scheduler.py:242`: a run that ends after its schedule was deleted is recorded.
- `scheduler.py:495`: without a model, a claimed run leaves nothing in the feed.
- `account.py:301`: setup takes no slot of the throttle, so an unlock that overlaps a
  first run starts a second unlock session.
- `account.py:299`: a crash between the two wraps leaves a vault without a recovery
  wrap, which setup refuses to touch again.
- `vaults.py:463`: a body loaded before an update and stored after it takes the seq
  floor back, although `docs/internal/vault-format.md:109` calls the seq "Strictly
  increasing"; the next check brings it forward again. `FloorFallsOnlyBehindARace`
  is what remains.
- `vault_routes.py`: subscribing checks for an existing pin and creates the vault
  later; two requests can pin one vault twice.
- `kb.py:442`: a background pass works through a `KnowledgeBase`, and so an index, of
  its own; the live index sees what it wrote only after a relock.
- `ingest.py`: a document deleted by a pass stays in the live index's table of hashes,
  so that an upload of the same text is dropped as a duplicate of it.
- `kb.py`: `rename` and `set_tags` each load and store the whole document: one of the
  two is lost. A row that names a larger total keeps its document pending for ever.
- `vault_sync.py:523` calls the failures that declare a host dead consecutive. A stale body
  may write an old count back, so `UnreachableIsEarned` counts every failure a vault had.
- `ni_flow.py:7286`: a request that clears the record (the status page of a finished card,
  `:7346`; the credential and commission routes, `:7528`) looks for a stop first; a build that
  the user starts and stops in between loses its record, and with it the stop. `StopIsKept`
  excepts that case.
- `ni_flow.py:6996`: a Cancel that lands after the spec was replaced and before the
  record says `ready` is accepted, and the card is new all the same.
- `ni_flow.py`: a start that is refused fails the record of the build that holds the
  slot; two overlapping taps may leave a "preparing" record to the hourly sweep; the
  sweep may fail a record whose build started after it had looked at `_INFLIGHT`; a
  worker that was cancelled before it claimed its slot starts all the same.

### Bounds

One row and three requests: two race, and the third is the one that comes late. Two rows
at once are in `turns_live`; the theorems of section 5 lift the
safety results to any number of either. Two sessions give a row of this process, a row of
an earlier session and a row of an earlier process.

In `AgentTurns` there are two rows to park: `turns` spends them on two parks of one action
(`MaxSteps = 2`), `turns_live` on one park of two (`MaxBatch = 2`), because both at once,
over two sessions and with pages, is beyond five minutes. `TailDrivenOnce` carries the
premise `OneByOne`, that no two actions were parked in one answer, because a batch breaks
it (see above), and the premise that no page asked for the turn. `DenialHolds` has two
premises of its own. `DrivenOnce`: nobody drove the turn on twice from one park; two chat
pages that resume a park together run the rest of the turn side by side, and one may park
again what is denied in a park of the other. `DrivenWhole`: no row joined a park after the
turn was driven on from it, as the half-visible batch above allows. With three rows and
three steps TLC finds behaviours in which a denied action is parked again for either
reason, so without the premises the property would hold of small instances only. `Kind`
says whether turns are started by a schedule, by the chat page or by either; a chat turn
takes only what the runs' scheduled one takes too, with pages alone to resume it.
`MaxDrives` bounds the resumes of a park over HTTP: two pages may still pass the bound
together. It is 0 in `turns_live` and `turns_lost_wakeup`, where a page's resume could
only hide that nobody drives the turn on. One driver at a time reads the rows, in one
step, so two drivers add to one only that they run side by side; the theorems have any
number.

`MaxSession = 2` in `turns` and `sched` gives a session after the lock or the crash.
`sched` has one schedule, for which a tick worker, a manual run and the editing routes
race; that ten schedules at most fire per tick, oldest first, is in `DueSchedules`, and
the limit in the theorem `Typing`, but no run has so many that some wait. `TripAfter = 2` makes one
failure and a tripped breaker two things. `FreeFailures = 2`, `MaxFailures = 4`,
`BackoffMax = 3` (in units of the base delay) reach the free tries, the growing delay, the
cap and the saturated count. `MaxSeq = 3` with `RetiredAt = {2}` has a publication before
and one after the retired one, so that a stale body can take a pin back over it;
`FailureCount = 2` and `MaxFailures = 2` reach the escalation exactly (the code's budget
is eight over a week).

In `KbIndex` one text has two chunks, so that a run can stop half way; `MaxEdits = 3`
allows an add, a rename and a replacement or deletion behind it, and `MaxStops` the passes
that give up. `MaxTaps = 2` in `NiFlow` is a build and what the user does to it while its
worker is out; its second tap meets the single flight of the card, and with one card never
the cap, which is for the theorem; `Rows = 1` is a Library row to try. The theorems of
section 5 hold for every value of all of these. Symmetry is used in safety runs only.
`CHECK_DEADLOCK FALSE` stands where the bounds exhaust a behaviour: no unlock left, every
row resolved, no turn left to start.

### Fairness

Requests run on server threads, workers on their own: each is weakly fair, since no
step waits for another actor except for a lock held for a few statements, and both model
calls and handlers carry timeouts. The scheduler loop is an `asyncio` task that ticks
until shutdown, and the breaker's cooldown is wall time, so both are weakly fair.
Users, locks, restarts, the expiry clock, sweeps and chat pages are not fair: no
property relies on them. Spawning a worker never waits in the code; in the model it takes
one of `Driver`, which pages may occupy again and again, hence strong fairness of
`FinishStep`. `DueIsClaimed` speaks of behaviours in which the user stops editing and
running schedules by hand: Python's lock is not fair, and a caller that runs a schedule
over and over could starve a worker of it. It also has the premise `PassesRecover`: if the
background passes fail again and again, embedding ends well again and again. Without it
the property is false, which is `sched_dead_embedder`.

The vault pass is part of that tick and each fetch has a deadline: `VaultSync` is fair
to the pass and to its steps, not to requests. That assumes an unlocked application: a pass
that finds it locked returns at once (`vault_sync.py:814-817`). A check that raises is
logged (`:847`) and leaves its vault due, as an unreachable host does. An embedding pass goes through the whole
list of pending documents, so a document that is pending again and again is picked in
the end: strong fairness of `Pick`, weak fairness of every started request and
embedder; passes may stop `MaxStops` times. A build's thread ends, since every fetch and
model call has a deadline; the scheduler sweeps over and over, so a record that is
stranded again and again is met by a sweep (strong fairness of `SweepReads`), and an
hour passes (weak fairness of `Age`). Taps, Cancel and restarts are not fair.

## 4. Abstractions and assumptions

- A database statement is atomic and does not fail.
- A handler ends before `_IN_FLIGHT_TTL_SECONDS` (the code says so where it defines it).
- Identical calls in one answer are one element of a set; what the model says is a free choice.
- `invoke_tool` parks appear in `Approvals` only; the scheduled feed's "awaiting" entries are left out.
- An argument that fails validation between approve and claim is not modelled.
- A turn starts with the store of the current session; a tick that outlives a session is in `Scheduler`.
- `Account` keeps eight attributes of `_set_unlocked`; those left out are written and
  cleared next to modelled ones of the same kind. An exception in the middle of
  `_set_unlocked` is not modelled.
- Of the maintenance of a tick `Scheduler` has what the embedding and summary passes do to
  the breaker; what they do to documents is in `KbIndex`, the vault pass in `VaultSync`, the
  sweep of stranded flows in `NiFlow`. The other passes leave schedules and breaker alone.
- `VaultSync` checks one subscription at a time and resubscribes no vault id: a vault
  deleted and subscribed to again is another vault.
- `NiFlow` keeps of a record what decides where a build goes: its state, what it waits
  for, the stop, and the marks of a remap and of an auto-pick with the rows left. What a
  stage finds out is a free choice among what it may write. Two more callers re-seed a record
  over a stop as Retry and Fix do (`revive=True`) and are left out: standing orders, also
  from the tick (`ni_standing.py:75`, `:83`; `scheduler.py:818`), and "use my key" on a
  declined card (`ni_flow.py:5250-5256`). `StopIsKept` says nothing of them.
- `KbIndex` takes title and content as one text; tags and summaries are left out.

## 5. Proofs

### Approvals

`Approvals_proofs` proves, for every set of rows and requests and any number of unlocks,
with `MaxSession \in Nat` as the only assumption on a constant:

| Theorem | Property |
|---|---|
| `Typing` | `TypeOK` |
| `ExecutesAtMostOnce` | `AtMostOnce` |
| `RanIsExecuted` | `RanReadsExecuted` |
| `ResultIsTheHandlers` | `StoredResultIsTheHandlers` |
| `ResolutionsAreFinal` | `ResolutionIsFinal` |
| `ResolvedInOwnSession` | `ResolvedFromOwnSession` |
| `RestartInvalidatesRows` | `RestartInvalidates` |
| `ImplementsPromise` | `ImplementsSingleUse` |

None of the safety properties is inductive by itself: `AtMostOnce` says nothing of the
requests that are about to call a handler. The strengthening is
`IInv == TypeOK /\ ActionInv /\ SessionInv`, where `ActionInv` consists of

- `Exclusive`: at most one request per row is past its approval, because approval is a
  compare-and-set from `pending` and nothing returns a row to `pending`;
- `Progress`: what such a request knows about its row at each of its steps, for
  instance that a row being written is executed, has run once and has no result;
- `RowInv`: what holds of a row whoever looks at it.

So the unlocked read and write of `store_result` are safe: `Exclusive` says that
nobody else is between them. `SessionInv` says that every open request holds a store of
the running process and, past its first read, works on a row of that store's session;
a row of an earlier process has no request that could move it.

The refinement maps statuses to fates and the set of rows with `runs > 0` to
`performed`. The sweep closes a set of actions in one abstract step; a won
compare-and-set is one abstract move; everything else stutters. `HandlerRefines` needs
`ActionInv` for the abstract guards.

### AgentTurns

`AgentTurns_proofs` proves, for every set of turns, drivers, actions, rows and requests
and all budgets, from `MaxSession \in Nat` and, from `TurnTyping` on, `TurnAssumption`:

| Theorem | Property |
|---|---|
| `TurnsImplementApprovals` | `ImplementsApprovals` |
| `ToldTrue` | `ToldTheTruth` |
| `ToldForGood` | `ToldIsStable` |
| `OneWorker` | `OneWorkerPerTurn` |
| `PromisesUnderTurns` | the safety properties of `Approvals` and `ImplementsSingleUse`, with turns running |
| `TurnTyping` | `TTypeOK` |
| `DeniedStaysDenied` | `DenialHolds` |
| `BudgetIsKept` | `BudgetCarries` |
| `TailOnce` | `TailDrivenOnce` |
| `ResumingHeld` | `ResumingIsHeld` |

`StepRefinesStore` shows that each step of `TNext` is a step of `Approvals` or leaves its
variables alone; the only thing it needs is that a driver's session is one the store
knows (`Bounded`). With that, `StoreInvariant` carries the invariants of
`Approvals_proofs` over to turns, and the rest is built on them.

- `ToldInv`: a row that has an entry in a conversation is `Settled`, that is, resolved and,
  if it was claimed but has no result, so old that no request works for it any more
  (`StaleInv`; `WorkStep` says a request gets to the handler only through a claim, which
  an executed row no longer allows). A settled row stays settled and what a resume would
  say of it stays the same (`SettledStep`), so the entry is true, and a later resume
  repeats it.
- `WorkerInv`: between its entry in `_RESUMING_TURNS` and its discard a turn is in the
  hands of exactly one request (between `FinishLaunch` and `FinishSpawn`) or worker.
  `DriverMoves` is the one argument for every step of a driver: it keeps what it has or
  gives it up together with the entry.
- `TypesInv` is the plain types, and that a driver at work and a stored row have a turn
  and a driver which parks has a step left. That a resume finds a latest park at all
  is `MaxNumber` of `Induct_proofs`.
- `BatchInv`: an answer has at most `MaxBatch` actions left to park, and every step of a
  row or a driver has spent a call. The latter is why `TTypeOK` notices a resume that
  resets the calls: a driver at step one would have spent none.

`TurnInv` is those with the invariants of the store; the other theorems are built on it.

- `DenyInv`, for `DenialHolds`. What a driver remembers of denials is what its resume
  read, so the invariant has to say which rows a driver has read. `PlaceInv`: the rows
  and the drivers of a turn share one session, and a park counted as driven has rows.
  `CleanInv`, for a turn that was driven once and whole from each park: one driver at most
  is `Live`, that is, works on a park nobody has driven on from; it is `Ahead`, that is,
  every row but those it parks itself was settled when it was read, and the denied ones
  are in `denied`, so that `Parked` drops them; and the rows of every park but the latest
  have been read.
- `OnceInv`, for `BudgetCarries`. In a turn that was driven on once from each park one driver
  at most is `Live`; every row it has behind it has spent fewer calls than it, the rows it
  is parking as many, and the stored rows are ordered among themselves.
- `TailInv`, for `TailDrivenOnce`. It ties a request that has resolved a row to the resume
  it will launch: `ResolverInv` says that a row has one resolver, which comes after the row
  left `pending`; `AtTail` that the row of a resolver has not been driven on from, that a
  resume on its way has a row to drive on from and no resolver of the turn beside it, and
  that nobody launches a resume while a row is open. So whoever could drive the tail a
  second time would be a second resolver of the one row, and the compare-and-set admits
  one. The premise `OneByOne` enters there, and so does the other one: a page needs no row
  of its own to resume.
- `HeldInv`, for `ResumingIsHeld`: a stored row has a session, and a turn in `resuming` with
  rows of the current session has a request that spawns or a worker that works. A lock
  hides every row, and the next unlock mints a fresh session, so an entry that a lock leaves
  behind has rows (`RowsInSet`), but none that anyone will see again; nor can the turn park
  in the new session, because the rows and drivers of a turn share one (`PlaceInv`).

`DenyInv` and `TailInv` were checked by TLC, with three rows and three steps, before they were proved.

### Scheduler

`Scheduler_proofs` proves, for every set of schedules, workers and callers and all limits,
from `SchedulerAssumption`:

| Theorem | Property |
|---|---|
| `Typing` | `TypeOK` |
| `ClaimOnce` | `TickClaimsUnclaimed` |

`TickClaimsUnclaimed` speaks of a single step, but needs to know what the worker saw in an
earlier one. `ClaimInv` says it: `Exclusive`, at most one thread is between the re-read and
`mark_ran`; `DueUnclaimed`, whatever `is_due` would find due has not been claimed since it
became due; `FoundUnclaimed`, nor has what a worker has just found due. `DueUnclaimed`
gives `FoundUnclaimed` when `CheckDue` passes, and `Exclusive` keeps it until `MarkRan`.
The edits, which take no lock, make a schedule due only by enabling it, which is a new
occurrence. `TypeInv` supplies that `late` lists live schedules once: a new schedule is
not late, and taking one out of the order leaves no second copy of it (`RemoveFacts`).

### Account

`Account_proofs` proves, for every set of requests and all delays and bounds, from
`AccountAssumption`:

| Theorem | Property |
|---|---|
| `Spaced` | `GuessesSpaced` |
| `OneUnlock` | `UnlocksDoNotOverlap` |
| `FailClosed` | `FailClosedAlone` |
| `LockComplete` | `LockDropsAll` |
| `Typing` | `TypeOK` |

The first two need `SlotHeld`: exactly the request between `TakeSlot` and its last
attribute is in `slot`. So nobody can record a failure, and with it start a backoff, while
another derives. The last two need to know where each writer is: `Orders` says that what
a writer still has to do is the end of its order, `Apart` that, as long as no lock has met
an unlock (`~mixed`), the attributes an unlock has passed are all set and those a lock has
passed are all clear. The order of `kb` and `vaults` enters only through `Places`.
`Typing` needs `Bounds`: a request that writes attributes carries the number of an unlock
that happened, and the failure count and the delay stay within their limits. That the
delay does so is `DoubledType`: the powers of two are a recursive function over
`0..MaxFailures`, whose existence and values follow from `Induct_proofs`.

### VaultSync

`VaultSync_proofs` proves, for every set of vaults, keys and requests and any number of
publications and failures, from `VaultAssumption`:

| Theorem | Property |
|---|---|
| `Typing` | `TypeOK` |
| `AcceptedKeysOnly` | `OnlyTrustedKeysLand` |
| `SeqAndMarkTogether` | `StateMovesTogether` |
| `DeadHostsFailed` | `UnreachableIsEarned` |
| `FloorHolds` | `FloorFallsOnlyBehindARace` |

Nothing locks a pin, so no invariant can relate a worker to the pin as it is now. The
inductive invariant relates each of them to history instead: `Right` says that a pin's
key was accepted, its seq and mark belong to one manifest and its failures happened,
and it holds of stored pins and of the bodies that workers carry alike; `RightChanges`
says the same of changes still to be merged, `RightUpdate` of manifests still to be
applied. History only grows (`Grows`), so what was right stays right however stale it
is, and merging right changes into a right body gives a right body (`MergedRight`).
That is also why `FloorHolds` is an action property: no invariant bounds the floor.

### KbIndex

`KbIndex_proofs` proves, for every set of documents, texts, requests and embedders and any
number of edits and stopped passes, from `KbAssumption`:

| Theorem | Property |
|---|---|
| `Typing` | `TypeOK` |
| `IndexFollows` | `LiveIndexFollowsRequests` |
| `VectorsDescribe` | `VectorsDescribeTheText` |

Both properties are about documents at rest; the invariant is about documents in motion.
`IndexAt` says that a document nobody raced for has one writer at most, and what that
writer `Knows` at each of its statements: before it writes the table, the index holds what
the table holds; after, it still has in hand what the index is to be told. `VectorAt` says
that an embedder that was not overtaken has the text of the row in hand, and that only a
rename between its statements leaves a vector of the text before. `FreshAt` says that an
id is unused until it is minted and then known to its creator alone, which is why an
insert cannot meet vectors that exist already.

### NiFlow

`NiFlow_proofs` proves, for every set of cards and requests and any cap, number of rows,
taps and restarts, from `NiFlowAssumption`:

| Theorem | Property |
|---|---|
| `Typing` | `TypeOK` |
| `StopStays` | `StopIsKept` |
| `StopKeepsTheSpec` | `StoppedCardKeepsItsSpec` |

`Claims` says that `_INFLIGHT` is the set of cards with a worker and never exceeds its
cap, `ClearsLooked` that a request about to clear a slot saw no stopped worker out, and
`NothingYet` that a card being created has neither record nor worker, without which the
creation of a card could replace a stopped record.

### Only model-checked

Liveness (`ClaimedGetsResult`, `LastFinisherDrives`, `DueIsClaimed`, `DueIsChecked`,
`PendingIsEmbedded`, `BuildsSettle`), since fairness and
`ENABLED` are beyond the prover. Every safety property of a passing run, invariant or
action property, is a theorem. The prover has no induction over data, so the models use
recursion over a finite range only (`Doubled`, `EnabledOfFirst`), where the least
counterexample (`LeastNumber`) takes its place; what a general filter such as `SelectSeq`
returns could not be proved. Of `EnabledOfFirst` the theorems use that it returns
schedules, not that it keeps their order, which is what `DueIsClaimed` depends on.

## 6. Not modelled

What is left has shared state worth a model, but less than what is here:

- `Signaling` and `Pairing` (`src/signaling/server.py`, `pairing_host.py`): registration
  with an awaited proof, room counters, guess limit and deadline.
- The model gateway's slot over an abandoned stream; the primed answer.
- `improvements.py`, `feeds.py`, `library_client.py`: two statements of one sequential
  loop with a crash in between.
- Publishing and sharing a vault, the update from a file (`vault_routes.py`), the Neural
  Interface library (signed packs with the same pin rules), refresh, politeness throttle
  and standing orders of cards, "use my key" on a declined card.
- The launcher's download and swap; change of passphrase and restore of the account.

Left out for good: the outbound guard and the parser jails (string and operating
system level), page browsers, email and voice (clients of external programs), the
templates and scenes of the Neural Interface (a closed grammar of data, covered by
tests), sequential encrypted tables (`memory.py`, `planner.py`, `history.py`).

## 7. Running

    tlc -workers 2 -config MCApprovals.cfg MCApprovals
    tlapm VaultSync_proofs.tla

Every run ends within five minutes on two cores; `kb_index`, `turns_live` and `sched` take the longest.
A definition called `X_Variant`, such as `MayStore_NoStatus`, is a faulty form of `X` that the
specification does not use: putting it in place of `X` violates the property
`PROJECT.json` lists with it, which shows that the property depends on `X`.
