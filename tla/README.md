# BatAI in TLA+

BatAI is a multi-tenant assistant service: a FastAPI process that serves chat
turns from a language model running *inside* the process (llama.cpp), with tools,
retrieval and sessions per tenant. These modules model the parts of `bat/` whose
correctness depends on the order in which things happen.

## 1. Inventory

| Component | Source | State it keeps | Operations |
|---|---|---|---|
| Inference client | `bat/adapters/llama_cpp_client.py` | the weights (`_llama`), a semaphore of one slot, `_waiters`, a one-worker thread pool, `chat_format` of the shared instance | `load`, `complete`, `stream`, `close`; the worker's jobs |
| Agent loop | `bat/services/agent/loop.py`, `bat/ports/agent.py` | one turn: steps, tool budget, rounds, turn cache, messages, deadline | `run`, an asynchronous generator of events |
| Tool registry, policy, executor | `bat/services/agent/tools.py`, `bat/ports/tools.py`, `bat/domain/tenancy.py` | the registered tools, the audit trail | `specs_for`, `permits`, `execute` |
| Built-in tools and sandbox | `bat/tools/builtin.py`, `bat/services/agent/sandbox.py` | child processes | `run_python`, `_terminate` |
| Turn endpoints and SSE | `bat/api/routers/messages.py` | one request: session, user message, run slot, frames | `send_message`, `stream_message`, `_sse_stream`, `_with_keepalive` |
| Rate and run limiters | `bat/ratelimit.py`, `bat/adapters/ratelimit_redis.py` | token buckets, counters of runs in flight, leases with expiry | `acquire`, `slot`, `verify`, `in_flight` |
| Session stores | `bat/adapters/session_store_*.py`, `bat/domain/conversation.py` | sessions and messages per tenant, expiry | create, get, list, delete, append, history, purge |
| RAG memory | `bat/services/rag/`, `bat/adapters/vector_*.py` | collections per tenant, cached handles | ingest, retrieve, forget |
| Embedder | `bat/adapters/llama_cpp_embedder.py` | a second model and worker | `embed`, `close` |
| Authentication and context | `bat/api/security.py`, `deps.py`, `middleware.py`, `errors.py` | API-key records (constant) | `authenticate`, `get_context` |
| Wiring, settings, health | `bat/api/app.py`, `bat/settings.py`, `routers/health.py` | the objects above, the purge task | `lifespan`, `_purge_loop`, `readyz` |
| Command line, reference agent | `bat/cli.py`, `bat/adapters/agent_reference.py` | none | |
| Legacy assistant | `main.py`, `core/`, `tools/`, `memory/` | a console session | |

**Interactions.** A request is authenticated and rate limited (`deps.py`), its
endpoint loads the session and stores the user's message, takes a run slot, and
iterates over the agent loop's events, which it collects or forwards as SSE frames;
at the end it stores the reply. The agent loop awaits retrieval, then alternates
between the inference client and the tool executor. Turns of all tenants meet in
the inference client: one slot, one thread, one model.

**Hard behaviours and what makes each component correct.**

- *Inference client*: coroutines of the event loop and one worker thread share
  the model. A caller may time out, be cancelled, or find the client closed at
  every await, while the native call it started cannot be stopped. Correct means:
  native calls never overlap and never touch freed weights; each generation is
  rendered with its own caller's template; the slot and the queue count survive
  every exit; a stream loses no token; every admitted call leaves.
- *Agent loop and executor*: the model's output is arbitrary (invented names,
  repeats, too many calls, noise) and the turn can be abandoned at every await or
  yield. Correct means: one terminal event; a history the model can be given (each
  call answered once, in order); budgets that hold across rounds; only granted
  tools run; results replayed only when that is sound; audit before disclosure.
- *Limiters*: concurrent admissions, holders that die, replicas whose clocks
  differ, Redis failures. Correct means: never more admitted than the limit while
  leases are honoured, and capacity always comes back.
- *Session stores*: several replicas interleave statements; sessions expire
  between two steps. Correct means: every operation seems to happen at one moment,
  the quota holds, activity keeps a session alive, a history shows what was there,
  pages together show everything once.
- *Turn endpoints*: partial failure between storing, running and answering, clients
  that hang up anywhere. Correct means: what the client was sent is what the run said,
  what is stored is stored once and in order, and every exit gives the run slot back.
- *RAG memory*: erasure racing ingestion through cached handles; chunk boundaries.
  Correct means: an ingest under way does not undo an erasure, documents are there as a
  whole or not at all, chunks keep their size, their overlap and every word.
- *Embedder and lifespan*: close between two batches, closers that fail. Correct
  means: nothing closed is used again, and the shutdown ends.

`PROJECT.json` lists every hazard at its line with the property that would catch it.

## 2. Plan

1. `NativeModel`, `LlamaClient`: the shared model (done; safety and the refinement proved).
2. `ToolExecutor`, `AgentLoop`: one turn (done, safety proved).
3. `RunLeases`, `TokenBucket`: the limiters (done, proved).
4. `SessionStore` (abstract), `MemoryStore` and `PostgresStore`, which implement it (done;
   both refinements and the safety proved).
5. `TurnApi`: endpoints, run slot, run, keep-alive and `MemoryStore` composed (done; safety proved).
6. `VectorMemory` (done, proved), `Chunker` (done, proved); `Embedder`, and `Lifespan` on top
   of it (done, safety proved).

The safety invariants and action properties of the runs are proved; liveness stays with TLC.
Runs stay around a minute each.

## 3. What is modelled

### NativeModel
The demands of the llama.cpp binding, as the client's header and ARCHITECTURE.md §4a
state them: one native call at a time, generations only on resident weights,
nothing freed under a generation, each call rendered once with the template
it asked for. Abstract: it says nothing of queues, threads or cancellation.

### LlamaClient
One action per stretch of code a coroutine runs between two awaits, and per step of
the worker thread; the two kinds interleave freely. `pc[c]` is where a call is:

| `pc` | the call is suspended in |
|---|---|
| `queued`, `granted` | `async with self._slot`; `granted` is woken and not yet run |
| `loading` | `await self.load()` of `_ensure_loaded` |
| `generating` | `wait_for(run_in_executor(...))` of `_run` |
| `streaming`, `yielded` | `queue.get()`; its own `yield` |
| `unwinding` | `await asyncio.shield(future)` of the stream's `finally` |

`jobs`, `running`, `future`, `stopped` are the thread pool (external to the
repository, modelled from its use): a queued job can be cancelled, a started one
cannot, `shutdown(cancel_futures=True)` cancels the queue. `llama` numbers the
instances so that a freed one is told from its successor. A generation is
reduced to "some tokens, then the end or an exception"; messages, sampling and
parsing are left out.

### ToolExecutor and AgentLoop
`ToolExecutor` is `execute()` up to its two awaits (the tool under its timeout, the
audit sink), with `permits`, scopes and argument validation as guards in the code's
order. `AgentLoop` extends it with `run()`: an action is what the generator does
between two suspensions. Yields count as suspensions, since the consumer may
never come back. A call carries a number that stands for its position in the turn;
arguments are two values and one bit says whether the schema accepts them.
`source` of a result remembers which execution produced its content, so that a replay
can be judged. The clock counts in units of the 1 s floor; model calls and tools
end by their limit, waiting for the slot has none.

### RunLeases
`RedisConcurrencyLimiter.slot` for one tenant. `Ask` is the call, which carries the
caller's own clock reading; `ScriptRuns` is the Lua script, atomic in Redis, at any
later time and even when the caller has stopped waiting (`AskFailed`,
`AskAbandoned`); `Released` and `ReleaseLost` are the two ends of `zrem`. `leased`
is the sorted set, whose scores are the callers' readings plus the time-to-live.
With `FailOpen` a caller whose call raised runs without a lease: such runs are outside
the ceiling, by the code's own choice.

### TokenBucket
The refill-and-consume step of both token buckets, for one tenant. A clock reading may be
`Lag` ticks late: 0 in process, where `time.monotonic()` is read on the way into a lock
that never waits, and the difference between replicas in Redis. Tokens are
integers (`Cost` of them make one request). The reported wait is rounded to the
nearest tick, as `round(..., 3)` does. `since` and `granted` are an observer's:
an arbitrary window of time and the requests admitted in it.

### SessionStore, MemoryStore and PostgresStore
`SessionStore` is the port: create, append a message that is not there yet, take away. An
append goes to the end; only where messages are stamped before they are stored
(`Reorders`, true for `PostgresStore` alone) may it land before one stamped later.
`MemoryStore` takes each operation as one step, as its lock does.
`PostgresStore` is one principal's sessions statement by statement under READ
COMMITTED: `Counted` is the snapshot of the counting `INSERT`, `Inserted` its row
becoming visible; an append is `Begin` (its `now()`), `Touch` (the `UPDATE`, which waits
for the row), `Commit` (insert, trim, commit) or `RolledBack`; a history is
`HistoryFound`, then `HistoryRead`; `ListPage` is one page of a listing, its cursor the
key of the last item. `expires_at` of an invisible row is set at `Counted`, as the code
stamps the session before it sends the statement. The refinement maps the rows to a
transcript in the order of `created_at, id`.

### TurnApi
Extends `MemoryStore` with the requests of one tenant. The steps are the stretches
between awaits of `_prepare`, `slot`, `collect`, `_sse_stream` and `_with_keepalive`; a
run is any source of events that `AgentLoop` allows (tokens, then one terminal event), and
`alive` are the runs that have neither ended nor been unwound. `pc` tells whether the
request is inside the slot:

| `pc` | the request |
|---|---|
| `loaded`, `read`, `prepared` | between the three store calls of `_prepare`; before the slot |
| `collecting`, `unwinding` | `send_message` inside the slot, and being cancelled there |
| `pulling`, `keepalive`, `sent` | awaiting an event; suspended at either `yield` of the stream |
| `replying`, `closing` | storing the reply after the slot; before the `done` frame |

`HangUp` gives the slot back at once and leaves the run `alive`: `_with_keepalive` only
*asks* its pull to cancel and then calls `aclose()` of a running generator, which raises,
so the run unwinds after the slot is free. The `stream_failed` and `done` frames that this
error leads to (`messages.py:278`) have no client left and are not modelled.

### VectorMemory
`ChromaVectorStore` of one tenant over several replicas. Each replica has a cache of
one handle and a lock; a call on Chroma is a thread's job that takes effect at one moment
even if its request is gone. Handles number the collections ever created, so that a dead
handle is told from its successor. A document is `Batches` chunks, embedded one batch
at a time and stored by one job.

### Chunker
The splitter and the packer over sequences of symbols: letters, the end of a sentence,
a space, the end of a paragraph, for the classes of the separator list that the code treats
differently (put back or not). Every symbol has length one, so `". "` counts as one
character. Chunks are sequences of positions of the text, which makes loss, order
and adjacency visible; an `Invented` separator is one put back where none was. `Parts` says
where the parts of a piece begin and end instead of walking along it, so that it can be
reasoned about; its variables and specification have names of their own (`ChunkerSpec`), which
lets one module of proofs extend it together with `VectorMemory`.

### Embedder and Lifespan
`Embedder` has the coroutines of `embed` and the one worker thread, like `LlamaClient`
but without a queue bound. `Lifespan` extends it with start-up (Redis, scripts, pool), the
purge task, and the closers in order; the language model's close is one step, since
`LlamaClient` shows that it returns.

Mutated forms of some definitions stand directly before them, each with a
comment; they are the faults the properties are checked against.

## 4. What is checked

| Run | Shows |
|---|---|
| `llama_client` | 3 callers (plain, with tools, stream), queue of 2, 2 tokens, every failure enabled: the safety properties, the refinement of `NativeModel`, every admitted call leaves, `close()` returns (290 000 states) |
| `agent_turn` | 2 rounds of up to 2 calls, budget 3, with a clock, refused, invented and ill-formed calls: transcript, budget, grant, replay, audit, one terminal event, one retry, termination (569 000 states) |
| `run_leases` | 3 runs, ceiling 2, skewed clocks, lease of 3 ticks: the ceiling holds, and nobody is refused behind leases that should be gone (124 000 states up to symmetry) |
| `token_bucket` | all orders of admissions, rejections, lost answers, drops: every window bounded, the advised wait suffices |
| `session_store` | 2 sessions, 3 appends, cap 2, pages and histories of 1: refinement of `SessionStore`, sliding expiry, reading one's writes, complete paging (1.6 million states) |
| `turn_api` | one waiting and one streaming request over one slot, 2 sessions under a quota of 1: exact slots, faithful frames, orderly transcript, termination, refinement of `SessionStore` (120 000 states) |
| `vector_memory` | 2 documents of 2 batches, a search, an erasure, 2 replicas, failures and cancellations: erasure holds, documents are whole (219 000 states) |
| `chunker` | every normalized text of up to 9 symbols, chunks of 4, overlap of 2: size, overlap, no loss (267 000 states) |
| `lifespan` | 2 embeds of 2 batches, every backend, failing start-ups, loads and closers: nothing is used after its close, the shutdown ends (62 000 states) |
| `session_quota`, `memory_erasure`, `chunk_words` | disagreements, below |

*Bounds.* Three callers give one that holds the slot, one that waits and one that is
refused, and every pair of call kinds; two
tokens let one be unread while the next is produced. Loads are not bounded: the code
itself makes them finite with three calls. In the turn, two calls in a batch and
a budget of three make the cut fall inside the second batch; two rounds make a
replay cross a round. `Horizon` exceeds the deadline by one tick, so that every
check of the deadline sees both outcomes. For the leases, three runs over a ceiling of two make
one refusal depend on two leases, and the horizon lets a lease expire by either clock
while a later run asks; a run of one tick and a skew of one stay below the lease of three,
which is the condition under which the ceiling is promised. In the bucket two requests fit into a
burst, a refill is not a whole number of requests, and the horizon is long enough for
an idle bucket to be dropped and drained again. In the store, three appends let one wait
for the row while another holds it and a third was committed before, and exceed the
cap; a quota of one and pages of one make two sessions meet at both limits; the horizon
lets a session expire and an append extend one. Two requests over one slot give a
refusal; two documents on two replicas give one handle cached before, and one after
an erasure. Nine symbols make three chunks, with a cut run, an overlap carried whole,
carried as characters and yielded. Two embeds give one batch running and one
queued when `close()` comes. A finished system has no step left,
therefore deadlock is not checked; termination is checked as liveness instead.

*Fairness.* The event loop runs every coroutine whose await is over; the worker is
a thread; native calls are bounded by `max_tokens`; each call and each tool has a
timer. These are `WF` of `Resume`, `TimedOut`, `Worker`, `CloseReturned` in `LlamaClient`,
of `Turn` in `AgentLoop`, of `Step` and `Emit` in `TurnApi` (a run's next event comes, since
turns end), of `LifespanStep`, `Thread` and `Resume` in `Lifespan`. Cancellation, hanging
up, stopping and keep-alives are never required. One assumption is not the
code's: that the consumer of a stream reads on or closes it. The slot is held at
the `yield` and no timer runs there, so without it a stalled client blocks everyone.

### Where code and comments disagree
Three have a run that finds them:

- `session_quota`: two concurrent creates both count before either row is visible. One
  statement is atomic, but its snapshot does not see what another has not committed.
- `memory_erasure`: an erasure that failed, for whatever reason, is answered 204.
- `chunk_words`: white space a long text was split at is not put back, so words and
  paragraphs run together in what is embedded and shown to the model; a separator like
  `". "` is also put back after a last part that never had one.

Earlier findings that follow from the same models, without a run:

- The slot is *not* held until a timed-out native call finishes
  (`llama_cpp_client.py:413` against the comment at 419-421): `_run` leaves `async with
  self._slot` when `wait_for` raises, and the next caller waits in the executor instead.
- `close()` during a load leaves weights in memory (line 234 reads `self._llama` once; the
  load then installs an instance nobody frees), and a load queued ahead of the native close
  constructs a second copy (line 180 finds the field already cleared). The embedder has the
  first of these too, and keeps weights whose probe failed (`llama_cpp_embedder.py:83`).
- A turn cancelled while its tool runs leaves no audit record (`tools.py:185` against
  line 16, "Every outcome -- allowed or denied -- produces an audit record").
- Tools of one completion start after the deadline (`loop.py:194` against
  `ports/agent.py:45`, "Wall-clock ceiling for the whole turn, tool calls included").
- With clocks that disagree, the guard against a clock that went backwards
  (`ratelimit_redis.py:57-58`) keeps `elapsed` at zero but stores the earlier reading, so
  replicas that alternate refill the interval between their clocks again and again:
  `WindowBounded` fails with `Lag = 1`.
- A stream that is hung up on frees its run slot before its run has unwound
  (`messages.py:317-321`; `ratelimit.py:86`, "Caps simultaneous expensive operations
  per key"), so for a moment more than `max_concurrent_runs` runs are alive.

Seen while modelling, without a run of their own: `max_queue_depth` counts the
holder of the slot (`settings.py:117` says callers allowed to *wait*); the branch
`llama_cpp_client.py:402` marked unreachable is reached when `close()` runs between a
load and its caller; `StopReason.TOOL_BUDGET` is never produced;
`requires_confirmation` (`ports/tools.py:116`) is read nowhere; a call to an
unregistered tool is audited with `allowed=True` (`tools.py:193`); a caller told
to wait can be rejected once more, because the wait is rounded to the nearest
millisecond, in process possibly to 0 (`ratelimit.py:73`); `evict_idle` is never
called; settings hold `lease_ttl_s` above `agent.deadline_s` (`settings.py:357`),
which is not the longest a run can last; a request that resolves the old collection
between the two halves of `drop_namespace`, or any other replica's cache, keeps a dead handle
until a restart (`vector_chroma.py:147`); an ingest in progress does bring an erased
tenant back in `InMemoryVectorStore`, which finds its namespace by name;
`PostgresSessionStore._acquire` opens a new pool after `close()`; a start-up that fails
after Redis or the pool was opened closes neither (`app.py:219-260`); the `finally` of
`_sse_stream` yields into a generator that is being closed (`messages.py:284`);
`render_context` counts neither its tags nor the blank lines against `token_budget`;
`session.backend` accepts `redis`, which `build_session_store` then refuses; the history
cap of both stores is a constructor's default that no setting reaches.

## 5. What is proved

`LlamaClient_proofs` (TLAPS), for any set of calls, queue depth and token bound, from
the named assumptions of `LlamaClient` alone:

- `TypeCorrect`: `Spec => []TypeOK`.
- `SlotOwnedAlways`, `QueueAccountedAlways`: from `SlotInv`. It adds to the two
  properties that the FIFO holds no call twice, which is what makes "remove the
  cancelled waiter" remove exactly one and keeps `Len(slotQueue)` the number of
  waiters; without it removal could leave a second entry behind.
- `NoUseAfterCloseAlways`: from `NativeInv`. It records that a job's instance was
  taken from `self._llama`, that `self._llama` never names an instance scheduled
  for closing, and that in the executor's FIFO a generation on an instance is
  never behind that instance's close.

- `NothingLostAlways` and `NativeModelImplemented`, both from `ClientInv`, which adds
  `CallsInv` to `SlotInv` and `NativeInv`. The refinement needs that a generation which
  begins was not begun before: hence every call has at most one job, queued or running
  (`OneJobEach`), a job fits the place its call is at, left or not (`Fits`), and as long as
  it is queued nothing was generated for its call (`Untouched`). A stream loses nothing because
  in its queue the tokens not yet yielded come first and the end after them, and add up to what
  was produced (`Inbox`). The template is the loaded one whenever no completion runs
  (`FormatRestored`). Every step then is a step of `NativeModel` or a stutter.

`AgentLoop_proofs`, for any tools, policy, scopes and limits. Everything stands on
`Control` (the places of the turn and the executor, and what may be left of steps, rounds and
budget at each). On it:

- `TypeCorrect`; `OneTerminalAlways`: a terminal event is the last, and there is one
  exactly when the turn is over by itself.
- `BudgetRespectedAlways` (`BudgetInv`): the announced calls and what is left of the budget
  add up to the policy's. `ToolTemplateAlways` (`RoundsInv`): rounds in the history and
  rounds left add up likewise. `RetriedOnceAlways`
  (`StepsCounted`): the model calls are the rounds used and at most one retry.
- `OnlyGrantedRunAlways`: a tool is started only when no check of the executor refuses it.
- `AuditedBeforeShownAlways`: every result that is shown - of a run, a denial, an invented
  name or a replay - has exactly one record, written before, with the outcome shown. Calls are
  numbered upwards and recorded in that order (`Numbering`), so the record of the call in hand is
  the first of its number and no later one repeats it; `Recorded` says that a call
  which has returned, and whatever the turn's cache holds, has its one record.
- `AnsweredFromSameCallAlways`: the call in hand is the head of the batch and was run if it is
  not in error (`InProgressInv`), and whatever the turn's cache holds came from a run of that
  cacheable call (`Remembered`).
- `TranscriptAnsweredAlways` (`TranscriptInv`): between rounds every batch in the history is
  closed; within one, exactly the newest is open, and the calls still in hand are the ones its
  answers lack.

`RunLeases_proofs`, for any finite set of runs, limit, skew and time-to-live:

- `TypeCorrect`.
- `WithinCeilingAlways`, if `MaxRun + Skew < Ttl`: from `CeilingInv`. The set of leases
  never exceeds the limit because the script compares before it adds; that the *runs*
  do not needs that no lease is reaped under its run. The invariant therefore says that
  every run with a granted answer, received or still on its way, is in the set, and
  that runs are timely; then a reading of any clock is below its expiry
  (`ReliedSurvives`).
- `RefusedBehindFreshLeasesAlways`, for any clocks: what a refusing script leaves in the set
  is younger than the time-to-live and the skew together (`SurvivorsFresh`).

`TokenBucket_proofs`, for any rate, burst and cost, if `Lag = 0`:

- `TypeCorrect`.
- `WindowBoundedAlways`: from `BucketInv`. What the window's requests cost
  *plus what the bucket still holds* stays within the burst and the rate up to the
  last write; when the bucket is dropped, `IdleTtl` has passed and the rate alone covers
  the requests, so that the new burst is paid for. `BucketAssumption` states that
  `IdleTtl` is long enough to refill a bucket, which no setting checks.
- `RetrySufficesAlways`: while a rejected caller's advice stands, the bucket and the refill up to
  one tick after the advised moment make a request (`AdviceHolds`); the tick pays for the rounding.

`PostgresStore_proofs`, for any sessions, appends, caps and time-to-live:

- `TypeCorrect`, and `ActivityExtendsAlways` from `ActivityInv`. An append that waits for the
  row stamps it with the time it began. That this takes no activity back by more than `MaxWait`
  needs that whatever was stored before it touched the row began at most `MaxWait` after it
  (`Overtaken`).
- `SessionStoreImplemented`: each statement is one operation of `SessionStore`, or none. What is
  stored was in no transcript before (`NotStoredIsNew`). The rows
  of a session are a set and the promise speaks of sequences, so the work is in `ORDER BY`:
  there is exactly one sequence of all rows in their order (`SortedEnumerates`,
  `EnumerationUnique`), a new row has a place in it (`Placed`), and its end is what
  `OFFSET` and `LIMIT` leave (`Trimmed`). An append that is not stored yet may be stamped or
  fail without touching any transcript, because no row of it exists (`StutterMapped`). The model
  writes the order as "the k-th row has k - 1 before it" (`Ordered`), which says what it is and
  can be reasoned about.
- `PagingCompleteAlways` from `PagingInv`: what a listing has shown is at its cursor or newer, and
  what has been alive throughout and was not shown is older. A session created
  meanwhile may slip in on either side; its key never changes, so nothing crosses the cursor.
- `HistoryShowsNewestAlways` from `ReadingInv`: as long as the session is there, its rows hold the
  newest message of the first snapshot or a later one. That a tail of rows, however
  short, holds one as new as any it is a tail of (`LatestSome`) is used twice: for the trim of an
  append in between, and for the `LIMIT` of the read.

`TurnApi_proofs`, for any finite set of requests, sessions and any limit:

- `SlotsExactAlways` from `SlotInv`: the counter equals the number of requests inside the slot; no
  step changes one without the other.
- `ConversationAlways`: a stored message tells where its request has got to (`Said`), and no request
  goes back (`Onward`); so what a request is about to store is not there yet, and a reply is
  appended behind a question that is.
- `SessionStoreImplemented`: the in-memory store, driven by the endpoints, implements the port;
  that each message stored is new is again `Said` (`SaidAlways`).
- `FramesFaithfulAlways` from `FrameInv`, which tells for every place of a stream how its
  frames stand to its run's events (`Story`): the same up to one that is on its way, and at the end
  the terminal event or the failure frame.

`RagMemory_proofs`, for any replicas, calls and batches of `VectorMemory`:

- `ErasureHoldsAlways` from `ErasureInv`. The collection there is now is the newest created, and
  newer than any deleted (`Newest`); a call that got its handle keeps it (`Resolving`), so that
  what it stores is in that very collection or nowhere (`Written`).
- `WholeDocumentsAlways` from `WholeInv`, which adds that nobody knows a collection not yet
  created (`Known`): a drop can then only take away handles it leaves behind, and a document whose
  job is done stays until its own collection is dropped (`Kept`).

and for any text, chunk size and overlap of `Chunker`:

- `SizeBoundAlways` and `NoLetterLostAlways`, from `ChunkInv`. Pieces *hold* the letters at
  their positions; pieces are `InOrder` if the letters run through them as through the text. The
  invariant says that what is packed and what is yet to be packed are in order and are the end
  of the text (`UpFrom`), and that whatever is before is in a chunk. So the packed pieces hold a
  stretch of letters without a gap (`CurrentGapless`), what is carried over is the end of it
  (`WholeTailIsLast`, `TailOfIsLast`), and together with the next piece it fits (`CarryKeeps`).
- What `_atomize` hands to `_merge` is in order, fits and holds every letter (`AtomizedInOrder`),
  because breaking each piece into pieces in order leaves them in order (`BrokenInOrder`), and
  both the parts between separators (`PartsInOrder`) and the slices (`CutInOrder`) do that. The
  lemma under all of these is `FlattenLaid`: a flattened sequence runs along the rows, one after
  another, and misses no place. Its induction over the rows needs no induction theorem:
  `UpTo` derives it from the least number that fails.
- `NeighboursShareAlways` from `LinkInv`, which places the chunks in the *whole*: the joined
  pieces of `_atomize`, invented separators included. The packed pieces stand in the whole at
  some place, those yet to be packed stand right after them, and the last chunk *follows*: it
  ends inside the packed pieces, or before them with nothing but white space between, and where
  it ends right before them, their first piece left no room or begins with white space
  (`Follows`). A chunk stripped out of the packed pieces is a window of the same places
  (`StripWindow`), so a chunk that follows another shares with it (`FollowedShares`); what is
  carried over is the end of what was packed, and is not empty unless it leaves no room
  (`CarryEnds`). Two chunks are compared by places of the whole and not by positions of
  the text, because the invented separators of `_atomize` all have the same position: stated
  by positions, two chunks count as sharing when each merely holds an invented separator, and
  two that white space divides cannot be told to be apart when an invented separator is at
  an end (as happens in a text of 11 symbols with chunks of three and an overlap of one).

`Lifespan_proofs`, for any embeds and batches: `NothingUsedAfterCloseAlways` from `WorkerInv` and
`PurgeInv`. The instance that is handed out, and the one the worker is using, are in memory, because
an instance named by a job that frees it is no longer handed out (`Condemned`) and the worker runs
one job at a time; the purge lives only between start-up and the first close.

The proofs are by induction over `Next`, one step per action; lemmas about removing
an element of a sequence (`RemoveAtFacts` and those after it) are stated once.

Only model-checked: all liveness (`AdmittedCallsLeave`, `CloseTerminates`, `TurnEnds`,
`RequestsEnd`, `ShutdownEnds`), which the provers at hand do not reach. What `_atomize` puts
where is not proved beyond order, size and completeness: the theorems on chunks hold of its
pieces as they come.

## 6. What is not modelled

Wire formats, prompts, token counts, logging, JSON-schema validation, CUDA library
paths, HTTP parsing, row mapping, embeddings and scores. Of components:

- built-in tools and sandbox: process control of the operating system around one child;
- the in-memory vector store, and `delete` and `count` of a store: no endpoint calls the
  latter, and the former is for development;
- authentication, scopes at the endpoints, middleware, error mapping, settings, health:
  sequential code over constants;
- the command line, the reference runner and the legacy console assistant: no shared state.

Isolation between tenants is one key of every dictionary and every query; the models
are of one tenant, so they show nothing of it.
