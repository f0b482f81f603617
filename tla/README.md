# Verification project for gfx1151-engine

TLA+ models of the engine's concurrent core and of the API server in front of
it, the TLC runs that check them on small instances, and TLAPS proofs of what
matters most for every instance. Paths below are relative to `src/` of the
repository; `51_host_cfg` and `40_model` stand for
`src/gpu/parts/51_host_cfg.inc` and `src/gpu/parts/40_model.inc`.

Contents: 1 the system · 2 inventory · 3 modules and how they follow the code ·
4 runs, bounds, fairness · 5 proofs · 6 findings · 7 not modelled · 8 plan.

## 1. The system

Two processes. The **engine** (`src/gpu`) holds one model on one GPU and speaks
a TCP line protocol: a connection sends `GEN`, reads `T` lines (tokens) and one
`D` line (done), and may send `X` (cancel), `PING`, `INFO`, `MEM`. The **API
server** (`src/api`) offers an OpenAI-compatible HTTP interface, keeps a pool of
engine connections, and may start and stop the engine.

Inside the engine one `GpuModel` object is single-threaded. With
`QWENOX_PARALLEL=N` it has N *sequence slots*; `bind(s)` swaps slot `s` into the
members. A request runs on its own worker thread, waits for a slot
(`slot_admit`), and takes the GPU through a FIFO ticket lock (`Turnstile`). The
owner hands the GPU over between prompt chunks, between decode rounds, and, for
large chunks, at a layer boundary, where it lends a small workspace to the
others. All slots map pages of one KV pool; checkpoints in RAM pin pages of the
same pool; a second cache keeps pages on the SSD. When the pool is dry,
checkpoints go first, then idle slots, then the latest running request.

```
 conn_main -- GEN --> worker -- slot_admit --> slot      (g_sm, g_wait)
     |                  |  acquire/release --> Turnstile
     X, hang-up         |  reuse: live slot | rckpt (RAM) | kvsnap (SSD) | fresh
                        |  prefill chunks --> KV pages, PLE flight, cut shadow
                        |  decode rounds  --> verify rows, d_ckpt rollback
                        v  catch / ~Lease
```

A request to the API server passes the HTTP layer (framing, one thread per
connection), is turned into a prompt (the transcript cache reuses token ids),
takes one of the pooled engine connections (`SlotGuard`), and reads tokens until
the engine's `D` line. Tokens become text (bytes to characters, stop
sequences), text becomes reasoning, answer and tool calls, and these become the
frames of the API the client chose. Beside this the server keeps settings,
request statistics and, on Windows, the engine process.

## 2. Inventory

| Component | State | Operations | What is hard | What makes it correct |
| --- | --- | --- | --- | --- |
| Turnstile (`51_host_cfg` 1772) | two ticket counters, mutex, condition variable | acquire, release, contended | notify after unlock; a predicate that must be re-tested | exclusion, FIFO order, no lost wakeup |
| Admission (`kv_admission.h`, `slot_admit` 1895) | `g_wait`, slots' busy/owner/reserved | queue, poll, claim, turn away, cancel | two queues (admission, GPU) taken one after the other, the lock let go in between | FIFO service; one request per slot; promised pages exist |
| Slots and reuse (`pick_slot`, `gen_one` 2144) | `hist` of each slot, live state in the model | continue, restore from RAM or SSD, fresh, refuse | bookkeeping on the server's side, state on the model's; error returns in between | `hist` says what the state ingested |
| Hand-over and lending (`yield_hook`, `borrow_*`, `conc_borrow_yield`) | bound slot, lent workspace, light flag | yield, lend, skip, regain | shared buffers across a hand-over; abort noticed only later | owner computes on its own slot; one lender; only light rounds meanwhile |
| KV pool (`kv_prepare`, `kv_evict_one`, `starve`) | page tables, reference counts | map, copy on write, evict, abort | dry in the middle of a request | an earlier request is never sacrificed; victims hold nothing |
| RAM checkpoints (`49_rckpt.inc`) | LRU list pinning pages | save, match, restore, evict | the partly filled last page | restored rows are mapped |
| In-pass cut (`gen_one` 2444) | one shadow set per model | take, save, release | failure between take and save | one owner, always released |
| PLE gather (`40_model` 4946, 5248) | one flight, its threads, two pinned buffers | spawn, join, consume, chunk-ahead | disk threads, GPU and hand-overs at once | a chunk computes on its own rows |
| Speculative loops (`40_model` 6398-7960) | drafts, rollback state, MTP position | draft, verify, roll back, pause | rollback buffers shared by slots; budget across pauses | rollback finds its own state; budget kept |
| SSD cache (`51_host_cfg` 1-1211) | page and checkpoint files, entry table, writer thread | commit, capture, write, match, restore, evict | crash between writes; eviction beside a restore | a published checkpoint has all its pages |
| Line protocol (`conn_main`) | in_flight, worker thread, cancel flag | GEN, X, D, hang-up | the next GEN beside the last worker's end | one D per GEN; the right request is cancelled |
| API engine client (`api/engine_client.cpp`) | socket, time limits, cancel state | connect, generate with frames, heartbeat, cancel, close | grace period against a late `D` line; a dead engine | never the answer to another request |
| Slot guard (`api/main.cpp` 106-260) | free list, counters, pool width | borrow, wait, return, probe, re-probe | engine deaths, a probe that fails at start | one request per connection; exact counters |
| Reply pipeline (`api/main.cpp` 222-300, 600-840, 2421-2540; `api/toolparse.cpp`) | what each stage holds back | decode bytes, hold stops, split reasoning, parse calls | the text arrives in arbitrary pieces and what is sent cannot be taken back | the same result as for the whole reply |
| Reply frames (`api/main.cpp` 2755-3190, `SseStream`) | items of the response, open message and calls | events of both APIs, keep-alive, end, error | failures after the first frame, clients that go away | a client puts together what a reply without streaming has |
| HTTP server (`api/http.cpp`) | buffer, count of connections | accept, read, answer, close | bytes in any pieces, pipelining, limits | answers in order, each to its own request |
| Transcript cache (`api/main.cpp` 260-600) | LRU of transcripts, its file | record, cut, splice, save, load | saving threads without a file lock, crashes | reused ids decode to the prompt; the file is whole |
| Statistics (`api/reqstat.cpp`, `api/reqstat_read.cpp`) | live file, chain of files | record, rotate, scan, page, tail | crashes, readers without a lock | what was recorded is found once, in order |
| Settings (`service_conf.h`, `api/main.cpp` 1404-1480) | `service.conf`, its backup | load, edit in place, validate, save | lines in any order, missing, twice; crashes | what was saved is in effect; a whole file survives |
| Tokenizer (`api/tokenizer.cpp`) | none kept over calls | added tokens, NFC, words, merges, spans | hand-written forms of library algorithms | tokens decode to the text, spans tile it |
| Chat template (`api/chat_template.cpp`, `compute_snap_cuts`) | none kept over calls | render a conversation, place checkpoints | the next turn renders the last reply again | its prompt begins with what the engine has |
| Engine supervisor (`api/engine_sup.cpp`) | status, stopping flag | start, stop, watch | start and stop beside the exit of the child | status tells what runs |

`PROJECT.json` lists the components with their status, and under `hazards`
every place where an unlucky order, failure or bound bites, with the
properties that would notice.

## 3. Modules and how they follow the code

| Module | Models | Uses |
| --- | --- | --- |
| `FifoLock` | what a fair lock promises (abstract) | |
| `Turnstile` | `struct Turnstile`, one action per critical section, the notify apart | implements `FifoLock` |
| `KvAdmission` | the page arithmetic of `kv_admission.h` | |
| `ChunkSizes` | `ple_prefetch::chunk_size` | |
| `SlotService` | what serving promises a client (abstract): first come, first served, one request per slot | |
| `ServeSched` | the workers of concurrent serving, from `GEN` to `D` | `KvAdmission`, `ChunkSizes`; implements `SlotService` |
| `PlePrefetch` | the PLE flight, its threads, the staging buffers, the GPU's dequants | `ChunkSizes` |
| `KvSnap` | the SSD prompt cache: index, queue, writer, eviction, restore, restart | |
| `Generation` | what one generation promises its caller (abstract) | |
| `EngineLink` | an `EngineClient` and `conn_main` over channels that break | implements `Generation` |
| `ApiSlots` | slot guard, probe, re-probe, the slot's part of `run_generation` | `EngineLink` as one step |
| `EngineSup` | supervisor, its monitors, the admin handlers | |
| `Texts` | searching and trimming in texts | |
| `Utf8Stream`, `StopHold`, `ThinkSplit`, `ToolStream` | the stages of the reply pipeline, in order | `Texts` |
| `ResponseProtocol` | what a client of streamed responses is promised (abstract) | |
| `ReplyStream` | from parser events to frames, and the end of a stream | implements `ResponseProtocol` |
| `HttpConn` | accept loop, framing and answers of connections | |
| `MessageOrder` | `normalize_messages` | `Texts` |
| `TokenSplice`, `TokenCache` | what a transcript may contribute; the cache and its file | `Texts` |
| `ReqStat` | recorder and readers of statistics | |
| `ServiceConf` | the settings file and the settings page | |
| `SerialDecode` | what decoding gives a client (abstract): the tokens of the plain loop | |
| `SpecDecode` | the three loops with drafts, the emit callback, `ckpt_pause` | implements `SerialDecode` |
| `Tokenizer` | `encode_with_offsets` | `Texts` |
| `ChatTemplate` | the prompt of a conversation, `compute_snap_cuts` | `Texts` |
| `TurnstileProofs`, `PlePrefetchProofs`, `ApiSlotsProofs`, `EngineLinkProofs`, `EngineSupProofs`, `SpecDecodeProofs` | theorems | the module of that name |
| `ServeSchedProofs`, `ServeSchedPages` | theorems about `ServeSched`, the second extends the first | `ServeSched`, `SlotService` |
| `MCTurnstile`, `MCServeSched`, `MCPlePrefetch`, `MCSpecDecode` | instances of one component | |
| `MCSharedState`, `MCReplies`, `MCEnds` | instances of many components, see section 4; they extend `ApiSlots`, `SpecDecode` and `EngineSup` | |

**Turnstile.** `pc` says where a thread is: `asleep` in `cv.wait`, `awake` after a
notification but before it has the mutex again, `own`, `notify` between the
unlock and `notify_all` of `release`.

**ServeSched.** A worker owns the GPU for a stretch of code nobody else can
observe, so a step is such a stretch: from one hand-over, claim or page
allocation to the next. The `pc` values are its places: `queued` (the wait loop
of `slot_admit`), `admit` (asked for the GPU), `reuse` and `check` (`gen_one`
before prefill), `map` (`kv_prepare`, one page or eviction per step), `chunk`,
`layers`, `yield`, `away` (released the GPU), `back` (queued for it again),
`round`, `verify`, `catch`, `finish`, `release`. `gate` is the Turnstile in the
terms of `FifoLock`. `release()` and `acquire()` of a hand-over are two steps
(`YieldGpu`, `AskAgain`), because another worker can take a ticket in between.
`job` is the piece of work in hand: which rows it writes and for what.
Abstractions: a token sequence is a conversation and a length (prompts of one
conversation are prefixes of each other); a decode round verifies some rows and
commits at least one, which covers the serial loop and all speculative loops; a round
of more rows than the lent workspace lends in its layers as a chunk does;
the lending quantum and the 50 ms poll are choices; a snapshot either restores
or proves damaged. Reference counts are derived: a page is free when no table
and no checkpoint lists it. Two branches of `slot_admit` are not actions
because `FrontIsMine` shows they cannot be taken (no idle slot after the GPU
came; another request at the head), and the victim test at the start of
`gen_one` reads a flag that only a GPU owner sets and this worker has owned
the GPU since its claim.

**PlePrefetch.** A set of rows is named by request and first position. A flight
is the record `ple_fl`; its `into` is the memory its pointer named when it was
started, while the consumer looks the buffer up again (`MemoryOf`), as the code
does, because lending swaps the first buffer. `gpu` holds the dequants enqueued
and not yet run; `Consumed` is the wait on the buffer's event. Threads go
through the address phase, the barrier and, for pumps, the reads. The queue for
the GPU is left out: any waiting worker may be next.

**KvSnap.** `db` is the index with the files it stands for: each entry with its
state, its sections and whether it is published, the reference counts of pages and
sections, the files on the disk. A file's content is its name (content-addressed),
its size 1. `work` is what the commit of a turn has still to queue, `q` and `qbytes`
the queue, `w` the writer's item, `rs` the restore in progress, `damaged` the files a
checksum would not pass. The writer's file operations, its publication under
`g_mtx`, the eviction and the GPU thread's commit and restore are steps; a crash
keeps the files only, and the restart reads them. `Upgrades` says whether the same
prefix may be saved again with MTP state.

**EngineLink.** `link[c]` is connection `c`: its two directions (`up`, `dn`, lines as
records), which ends are closed, and the engine's reader (`conn_main`) and worker.
The client's `phase` follows `generate`: outside, writing the frames, reading lines
with its deadlines; `cancelled` is its grace period. A connection holds `Cap` lines
up, then the client's `write_all` waits for the engine to read: the socket has a
receive but no send time limit, so a write may wait for ever. A connection may break
at any point; time is a choice between an arrival and an expiry.

**ApiSlots.** `g_slots`, `g_in_flight`, `g_queued`, `g_pool_free` under one mutex;
a generation on its connection is one step that succeeds or loses the engine.

**EngineSup.** Each action is a stretch under `g_mtx`, except `start`, which calls
`CreateProcess` under it and has a step for the child (`Spawn`) and one for what
follows (`Adopt`): the job, the status, the monitor. `Adopt` goes on when the job or
the monitor's thread cannot be had, as the code does (`unjobbed`, `unwatched`). The
monitor reads the handle outside the lock, and so does the model.

**Reply pipeline.** `Utf8Stream`, `StopHold`, `ThinkSplit` and `ToolStream` have the
same shape: a text is chosen, it arrives in pieces cut anywhere, the stage keeps
`held` and appends to what it sent. The reference is the same stage, or the
code's other function for whole replies, applied to the text at once. A symbol
stands for a character or for a part of a tag that all the code's searches treat
alike; each module's header says which.

**ReplyStream.** The state of `handle_responses` (message, calls, output slots) is a
record transformed by one operator per helper of the code, each adding frames to
`out`; the frames wait in `todo` and go out one at a time, since the client may be
gone at any. The chat handler has no state of its own and shares the events. The
three events of `response.*.done` are one frame. Of the parser, `inside` says whether
it is in text, in a tag whose call it has not read (`TagEvent`), or in a call: it may
break in a tag too, and then the reply is incomplete though no call was opened.

**HttpConn.** `pending` is the buffer of `serve_connection`. A body consists of
blank lines only, so any search that runs into it would find an end of headers.
Time limits of a socket are a client that stops. Handlers are one step. An error of
`accept` ends `run()` (`deaf`): those being served are served, nobody else is.

**TokenSplice, TokenCache.** `TokenSplice` has the search for the longest reusable
front of a transcript over small alphabets; `TokenCache` has the threads that
record and save, file operation by file operation.

**ReqStat.** A file is a header and a sequence of records; a reader lists the names,
reads the headers and then the records, with the recorder in between. **ServiceConf.**
The file is a sequence of lines; a save is validation (`Valid`, every range
`validate_conf` checks), backup, truncation and writing, which may stop half way
because the server dies or because the disk is full, and that nobody notices.

**SpecDecode.** A token is the number of its position: behind a right text of `n`
tokens the model gives `n + 1`, and over a state that is not that of the text it
gives `Wrong`. The record `m` says what each part of the model's state was made of
(history, recurrent state, rings, the stream of the trunk, the rows of MTP). A round
yields only at its top, so a round (of the ngram loop: a verify pass) is a step.
The sampling loops accept drafts by another rule and do the same with them; the
controllers of the draft length are a choice of any length.

**Tokenizer.** A character is one byte. The hand-written splitter is compared with the
regular expression it stands for, merging in passes with merging one pair at a time.
Merge tables are those training can make: a pair is merged out of known tokens. Spans
tile the text as long as NFC moves no mark; `exclude_added` is not modelled.

**ChatTemplate.** A text is a sequence of marks and words, the client sends the whole
conversation with each turn. `NextTurnContinues` says when the next prompt begins with
what the engine has, and its conditions are what the code gives up: a control tag or a
change of thinking rewrites the header, so nothing is reusable; a reply without
reasoning is rendered again without the empty think block, so the live sequence never
matches; reasoning that is not preserved and a long history without a question are
others.

Definitions whose comment begins with *Variant* are forms of the code with one
plausible slip; they are part of no specification and show, run by run, that
each property can tell the slip from the code.

## 4. Runs

Each run asks one question of the system. A run over many components
(`shared_state`, `replies`, `ends`) has a variable `part`, chosen at the
start and never changed: a behaviour is one of that component on its own
small instance, and the variables of the others stay `"off"` (those of the module the
union extends, as they start), so the state space is the sum of the parts and not
their product. Its properties are conjunctions of
named ones, each `part = "..." => Component!Property`; a violation of any is a
violation of the conjunction, and the trace says whose.

| Run | Instance | What it shows |
| --- | --- | --- |
| `turnstile` | 3 threads, 7 tickets | exclusion, FIFO refinement, no lost wakeup, exact `contended()`, every turn comes |
| `overflow` | 3 requests, 2 slots, 4 pages of 2 rows, nothing reserved for decode, chunks and rounds of up to 3 rows against a lent workspace of 2, a client that cancels and hangs up, an SSD snapshot of a request that may be refused, two cuts | the books stay straight through eviction, victims and overflows; only the owner computes, on its slot; one lender, undisturbed, and only light rounds meanwhile; the earliest survives; serving implements `SlotService`; every request ends |
| `rounds` | 3 requests, 3 slots, 5 pages, decode inside the reservation, one client that cancels and one that hangs up | nobody is aborted for pages; one owner of the cut shadow set, who releases it; a round rolls back to its own state |
| `ple_apart` | 2 prompts of 6 rows starting at 0 and 1, chunks of 2, 3 threads of which 2 read, lending, one abort | each chunk computes on its own rows; threads joined before the next flight; nothing in flight while lent; every prompt ends |
| `shared_state` | `faults`, `crash`, `steady` (`EngineLink`: 3 or 2 requests on one connection, malformed and rejected ones, stalls, a crash), `slots` (`ApiSlots`: 3 requests, 2 connections, 2 deaths), `snapFaults`, `snapCrash`, `snapDamage` (`KvSnap`: turns that share 3 pages, 5 files, a queue of 2, failing writes, a crash, a damaged file), `cache` (`TokenCache`), `stat`, `statDamage` (`ReqStat`), `weights`, `confCrash`, `numbers` (`ServiceConf`) | what is kept over requests stays right: `LinkIsSafe`, `SlotsAreSafe`, `SnapIsSafe`, `FilesAreSafe`; what a step may not do (`StoresKeep`); refinement of `Generation` |
| `replies` | `chain`, `plain`, `drafts`, `ngram` (`SpecDecode`, each loop: all texts of 5 or 6 tokens with checkpoint tokens and ends, drafts of up to 3 for MTP and 4 for the ngram loop), `utf8`, `stop`, `think`, `xml`, `json` (all texts, or all one symbol away from rendered ones; calls in tokens of up to 8 symbols or all the rest), `chat`, `responses`, `forced` (`ReplyStream`), `framing`, `many` (`HttpConn`), `order`, `splice`, `nfc`, `words`, `merges`, `added` (`Tokenizer`), `turns` (`ChatTemplate`) | the client gets what the engine produced (`DraftsLeaveNoTrace`, `TextIsWhole`, `CallsAreWhole`, `StreamIsReply`, refinement of `SerialDecode` and `ResponseProtocol`), and the engine what the client sent (`RequestIsOwn`) |
| `ends` | smaller instances of `EngineLink` (with and without a fair engine), `ApiSlots` (the probe may fail), `KvSnap`, `SpecDecode`, `ReplyStream`, `HttpConn`; `EngineSup` with 2 handlers, 2 children, a death of the server and a job or monitor that fails | every request returns, of an engine that hangs every one that could be written (`EveryRequestReturns`); the pool reaches its width, starts and stops are resolved, the queue drains (`EngineSettles`); one engine at most, and who outlives the server (`SupervisorIsSafe`) |
| `cut_leak`, `stale_hist`, `rollback`, `ple_lockstep`, `spec_edge` | | the violations of section 6 |

*Conjunctions.* `StateIsBacked` (types, `HistIsIngested`, `IngestedIsMapped`,
`RestoreHasRoom`) and `QueuesAreTrue` (`FrontIsMine`, `NothingLeft`) of `ServeSched`;
`FlightsAreSound` (types, `NoFlightLeftLent`) of `PlePrefetch`; `DraftsLeaveNoTrace`
(types, `StateIsText`, `MtpInStep`, `HistIsSent`, `WithinContext`, `WithinBudget`) of
`SpecDecode`; `SlotsAreSafe` (types, `ClientExclusive`, `CountsAreExact`, `LostIsPaid`,
`OneIsFree`) of `ApiSlots`; `SupervisorIsSafe` (types, at most one engine, `StateIsChild`,
`StoppedWasAsked`, `MonitorOwnsHandle`, orphans) of `EngineSup`; the others are written out in the `MC` modules.

*Bounds and why they suffice.* Three requests give an owner, a queued worker and
a third that takes a ticket between another's release and acquire; two share a
conversation, so live continuation and checkpoints are used, the third competes
for pages. In `overflow` two running requests outgrow the pool, and the third waits
for a slot. Two rows a page give partly filled
pages, hence copy on write. One lend per chunk (`MaxLends`) suffices for every
pair of lender and borrower; two checkpoints (`MaxCk`) exercise the cap. Each
request arrives once. `MaxTickets` bounds the ticket counters, so the turnstile
run may stop (`CHECK_DEADLOCK FALSE`); so may the parts of `shared_state`, `replies`
and `ends`, whose counters of faults and requests run out; the other runs check
deadlock. In `ple_apart` the prompts start at 0 and 1 so that no two chunks begin at
the same position: the code is right only then, and `ple_lockstep` shows the other
case. The two buffers alternate, so six rows in chunks of two use each again.

The other bounds: two requests on one connection are enough for one to meet what
the other left, the third is there to be hit by a cancel for the second. Two
deaths of the engine put one into the retry after the first. Texts are complete:
every text over the alphabet, as long as a marker and a context on both sides. For
tool calls complete enumeration is too large; the replies are those the template
renders, and everything one symbol away from them. `HttpConn` uses limits of 4
(header) and 9 (body) with a chunk of 3, so that every request meets cuts inside its
parts. `SpecDecode` has a ring of 4 slots for drafts of 3, as the code has 9 for 8.
`MaxFail`, `MaxFails`, `MaxCrash`, `MaxDamage`, `MaxCrashes`, `MaxRuns`, `MaxWaits` and
the like count faults and retries. In `ends` the hung engine gets one request without a
frame and one with, over a connection that holds two lines: a request of one line fits
beside its `X`, one of two lines fills it.

*Fairness.* `ServeSched`: weak fairness of each worker once it has been started.
The operating system schedules threads; a worker at the head of `gate` stays
enabled; the admission wait polls. Nothing is assumed of clients: arrival,
cancel and hang-up are not fair. `Turnstile`: weak fairness of recheck, release
and notify; an owner's work is finite. `PlePrefetch`: weak fairness of gather
threads and the GPU, strong fairness of workers, since the queue is left out and
what justifies it is the FIFO order proved of the Turnstile.
In `ends`, weak fairness only. `EngineLink`: in part `hung` only the client runs (its
deadlines), and its writes only into a connection the engine has closed, since into
any other they may wait for ever; so the property of this part (`WrittenReturns`) is about
requests that are written. In `live` the engine's threads run too, and every request
returns. `ApiSlots`: waiters poll, a generation ends (`EngineLink`'s result, for an
engine that reads), the probe thread runs, the engine is started again. `EngineSup`:
the monitors that could be created and a handler inside `start()` run, the operating
system ends a killed process; a stop or a start is resolved if the child is watched.
`KvSnap`: the two threads. `SpecDecode`: the request
gets the GPU again (`ServeSched`). `ReplyStream`: the handler's thread runs and a
write ends (socket time limit 30 s); the generation ends or fails. `HttpConn`: threads
run, a client that has something to send sends it or stops. Nothing is assumed of
clients otherwise.

*Actions covered.* Between them the passing runs take every action; `overflow` alone
takes every one of `ServeSched`.

*Mutants.* For each property of a passing run `PROJECT.json` names a slip in the code,
a *Variant*, with which TLC finds it violated in that run.

## 5. Proofs

Assumptions are the named `ASSUME`s of the modules (sizes are natural numbers,
more than one slot, a request fits `maxctx`, finitely many requests); TLC evaluates
them in every run. A theorem that needs more says so in its statement. None of
these hypotheses is for the prover's sake: for each there is a run, listed or named
below, that shows the property violated without it.

**Turnstile** (`TurnstileProofs`), for any set of threads and any number of
tickets. `TicketInvariant`: the outstanding tickets are exactly
`serving .. next-1`, one thread each, and an owner holds the ticket served.
Mutual exclusion alone is not inductive: two owners are excluded because no
ticket is held twice. From it follow `Exclusion`, `ContentionTest`,
`WakeupsArrive` and `Refinement` (the ticket lock implements `FifoLock`).

**Concurrent serving**, for any requests, slots, pages, budgets and cuts, in two
modules, with one invariant on top of the other.

* `ServeSchedProofs`: `SchedInvariant` proves `IInv`: `Placed` (a worker has a slot
  exactly between its claim and `~Lease`), `TurnHeld` (whoever computes or is about
  to release owns the GPU), `VictimsAside` (a victim's worker is away or on its way
  out), `OneLent`, beside the properties themselves. `VictimHoldsNothing` alone is
  not inductive: that nobody maps pages into a victim's slot needs that its worker
  is not computing, which needs that only the owner computes, which needs exclusive
  slots. Each action is one of few kinds (quiet, away, outside, give-back, and six of
  their own), each with a lemma. Results: `SlotsAreExclusive`, `OwnerOnOwnSlot`,
  `VictimsStayEmpty`, `OneLenderOnly`.
  `QInv` says that the two queues hold exactly the workers whose
  place says so, each once, and that who is between them is at the front of the
  first. With it every step is one of `SlotService` or none (`Refinement`): first
  come, first served, for the detailed scheduler.
  `SInv` says, place by place, which rows a worker's job may name
  and how far they are backed by pages (`JobFits`, `ChunkBacked`, `SeqBacked`).
  Results: `TypesHold`, `IngestedStaysMapped`, `QueuesStayTrue`, and, from `HistInv`,
  `TokensAreIngested`. The last supposes that a request whose images may be refused
  has a snapshot (`\A r \in Refusable : Snap[r] > 0`): the refused fresh request is
  the finding `stale_hist`.
* `ServeSchedPages`: what admission promises is counted as a set of cells, one per
  slot and page, since a sum over slots would need an induction. `RoomInv`: between
  claim and restore the target of the request still fits beside all other promises
  (`HasRoom`), and a restored row shares no page (`FreshRows`). `Kept`: nobody failed
  or was sacrificed, all have their target reserved (`Unharmed`), and all promises
  together fit the pool (`Committed`), so a dry pool would need more pages than there
  are. `Numbered`: running requests have different admission numbers. Results:
  `RestoresFindRoom`, `StateStaysBacked`, `ReservationsHold` (the property itself
  supposes budgets inside the reservation), `LaterOnesGiveWay`.
  `LightFits`, `RoundIsOwn`, `CutInv`: what is checked before a
  worker maps rows still holds when it computes, because only the owner of the GPU
  raises the light flag or writes the shadow states. Results: `LentRoundsAreLight`,
  `LendersAreUndisturbed`; `RoundsRollBackToTheirOwn` if a round with its drafts is
  light (`1 + Draft <= LightRows`; run `rollback` is the other case);
  `ShadowSetComesBack` if every budget is inside the reservation (run `cut_leak` is
  the other case).

**PlePrefetch** (`PlePrefetchProofs`), for any prompts and any number of threads.
`SpawnsOverJoined` and `TypesHold` need nothing. `NoFlightIsLeft` supposes that a light
round is smaller than a batch (`LightRows < Batch`; by default `conc_rmax_` is 32,
and `maxbatch` is more): otherwise a full chunk could run, and prefetch, on a lent GPU, and TLC
finds that (`Batch = 2`, `BatchCap = 3`, `LightRows = 2`, prompts of 5).
`DequantsReadTheirOwn` supposes that no two prompts come to one position with chunks
of one size while rows are left (`Apart`); run `ple_lockstep` shows that they then mix
up. The invariant: a flight that counts is for the chunk its owner is at or the
next one (`FlightNamed`), in the buffer the chunk will look up, lent or not
(`FlightPlaced`), and every reader of it that is done has staged these rows
(`FlightFilled`). `ChunksFit`: a chunk is never empty and never exceeds
`maxbatch_cap`, at which `prefill_chunk` would end the process.

**ApiSlots** (`ApiSlotsProofs`), for any requests, any width up to 64 and any number of
engine deaths. The invariant (`SlotsInv`): a request has a client exactly while it
holds a slot, and each client is in one hand or once in the free list (`Dealt`, with a
lemma each for a client taken, given back and added); `in_flight` and `queued` are
counts of places (`Counted`), and what was lost and what is stale are together no more
than what was spoiled (`Paid`). That a free slot has a client (`FreeOne`) is a counting
argument: were the list empty, the clients would map the holders onto the whole pool.
Results without a hypothesis: `ClientsAreExclusive`, `CountsHold`, `LostArePaid`.
`SlotsStaySafe`, the whole property, supposes that the probe at startup is answered
(`ProbeMayFail = FALSE`): with `TRUE`, TLC finds the empty pool of section 6.

**EngineLink** (`EngineLinkProofs`), for any requests of any kind, frames, tokens and
buffers, any number of deaths of the engine, with and without stalls, in two parts.

* `LinkInvariant` proves `LinkInv`. That a worker is cancelled by its own `X` only is not
  inductive: the `X` may still be on its way when the request ends, and the next `GEN`
  follows it on the same connection. The invariant says which requests a connection
  still has to judge (`Waits`: the line is under way, its frames are read, or the worker
  runs) and that no request waits on two (`Unshared`); that on each connection one waits
  at most, and which frames stand behind its `GEN` or are still to be sent (`Proper`);
  what each `X` and each `D` line under way tells of its request (`UpAccounted`,
  `DnAccounted`); and how a connection in use differs from one given up (`InUse`,
  `GivenUp`). Each step of the engine is on one connection and one of few kinds (it
  keeps what waits, judges it, or reads on), each step of the client is on the one in
  use or gives it up; the kinds have the lemmas. Results, without a hypothesis:
  `NeverPipelined`, `FramesAreDrained`, `CancelsAreOwn`, `OneCancel`, `RequestsStayApart`.
* `FlowInv` says what comes down on the connection in use: lines left over from others,
  then the tokens made and not delivered, then the `D` line with the verdict, nothing
  else between (`Told`), and that no line of another request can still come between
  them (`Ahead`). Results: `LinesTellAll`, `TypesHold` and, with a lemma per kind of
  step, `GenerationsArePromised`: the two ends implement `Generation`.
  `NobodyIsLost` supposes `Harmless`: the engine does not die, no frame takes more than
  its 120 s, and no request is one the engine refuses before it has seen how many frames
  follow, or that announces none with sampler fields, after which it closes. Each is
  needed: TLC finds a lost request without any one of them (for the last see the end of
  section 6).

With them every conjunct of `LinkIsSafe`, and `ImplementsGeneration`, both of run
`shared_state`, hold of `EngineLink` for every value of its constants.

**EngineSup** (`EngineSupProofs`), for any number of handlers, children, failures and
deaths of the API process, without a hypothesis: `SupervisorStaysSafe`. Of one API
process one child at most lives, in the job or not (`OneChild`), and an engine outlives
its process only if that died inside `start` or had no job for it (`NoOrphan`). That a
monitor waits on the handle of its own child is not inductive: `start` has the child
spawned before its handle, job and monitor exist. `SupInv` says where everything of
the newest child is: the lock is kept over a step only by a `start` that spawned
(`StartHoldsLock`); an open handle is that of the newest child, in its job and watched
unless `start` failed to get these (`HandleIsNewest`); who lives is the newest child or
is left over from an earlier process that died over it or had no job for it
(`NobodyElseLives`); and a child to come has left no trace (`NotYetSpawned`).

**SpecDecode** (`SpecDecodeProofs`), for every loop, text, budget, context, ring and draft
length. `DecodeInductive`: behind every round the model's state is that of exactly the
tokens of the text (`OfText`: history, recurrent state, rows, the ring of the trunk), the MTP
stream is in step with it, and what was sent is the text so far. The lemmas follow a pass:
ingesting rows, rolling back to the rows kept (`RollBackKeepsText`: a rejected row never
shares a slot of the ring with one still needed, since drafts are shorter than the ring),
replay and patch. Results: `StateStaysText` and, as `LoopsAreSerial`, that every loop
implements `SerialDecode` (drafts change nothing of what the client gets), without a hypothesis.
`DraftsSafe`, which adds that no pass leaves the context, supposes `RoomBehind`: the MTP loop
`spec_loop` meets no token to pause at, or has room behind its budget; run `spec_edge`
is the other case.

*Only model-checked.* Liveness and `ENABLED` are out of the prover's reach
(`EveryTurnComes`, `EveryRequestEnds`, `EveryPromptEnds`, the run `ends`), and so is
what recursive definitions compute for every input: texts, templates, tokenizer, files
(most of `replies` and `shared_state`) are folds over data; so are the sections and
pages of a checkpoint in `KvSnap`, which are sums over its files.

## 6. Findings

Each of the first five is a run that TLC must find violated; `PROJECT.json` quotes the
line that says otherwise.

* **A chunk can take another prompt's embedding rows** (`ple_lockstep`). The
  flight is one for all slots, matched by position and row count, and survives
  the yield between chunks. Two prompts longer than a chunk, ingested in turn,
  meet this at every chunk but the first. The four-way stage of
  `tools/conc_verify.sh` sends prompts of a single chunk.
* **The cut shadow set leaks** (`cut_leak`): an overflow between taking it and
  saving the cut leaves `cut_busy` set; no later request takes an in-pass cut.
* **`hist` outlives its state** (`stale_hist`): a request refused for its images
  after `reset_state` leaves `hist` beside an empty state.
* **A verify round can yield** (`rollback`): a round of more than 32 rows
  requeues behind a lent chunk, or lends in its own layers, after it saved its
  rollback state in the buffer all slots share.
* **A pass runs past the context** (`spec_edge`): after a pause at a checkpoint token
  the loop is entered with the whole budget again, and a verify pass near the end of
  the context asks for rows behind it.

Seen while modelling; the constants of the modules allow each, and no run is listed
for it:

* An upgrade of a queued checkpoint loses both: publishing the plain one drops the one
  that was to replace it, and its bytes stay counted (`KvSnap`, `Upgrades` = "queued").
* A rejected GEN costs the next request: the engine closes the connection, the client
  keeps it (`EngineLink`, frames that cannot be drained).
* A request between a failed probe and the background probe takes `back()` of an empty
  vector (`ApiSlots`, `ProbeMayFail`).
* An engine outlives its supervisor: the child joins the kill-on-close job only after
  it was created, and that there is no job, or that it cannot be joined, is ignored
  (`engine_sup.cpp` 353-365; `EngineSup`, `orphaned` and `unjobbed`).
* A start whose monitor thread cannot be created stays "starting" for ever
  (`engine_sup.cpp` 383; `EngineSup`, `unwatched`).
* A call hangs in `write_all` on an engine that does not read, and its slot stays
  taken: the connection has no send time limit (`engine_client.cpp` 185-204;
  `EngineLink`, `Cap`).
* An error of `accept` other than `EINTR` ends `run()` without a word (`http.cpp`
  288-291): the server exits, or in tray mode stays and answers nobody (`HttpConn`).
* A failed `fwrite` of `save_conf` is ignored (`service_conf.h` 265): a full disk leaves
  half a file, and the page says that it saved (`ServiceConf`, `WriteShort`).
* Streaming differs from the whole reply: `</thinking>` cut in two, `</ think>`, bytes
  behind an unfinished character, white space before a JSON call, carriage returns in
  front of the answer (`main.cpp` 2524 skips them, 2453 does not).
* Two savers remove the token cache, with a save interval of 0.
* Statistics: a tail with a hole during a rotation, a page that is not the tail and a
  window that skips a file after damage, a changed limit without effect.
* Settings: a new key is glued to an unterminated last line; version v1 empties
  `NGRAM_FILE` when it stands before `MODEL_FILE`.
* A body of the allowed size is refused when the next request arrives with its end.
* A comment near `main.cpp` 1113 says that a client cannot switch thinking;
  `reasoning_effort` "none", a control tag and `auto_disable` do.

Seen in reading, without a run: a streamed message item is "completed" in an
"incomplete" response, where the other form says "incomplete", and an unfinished
call is an item only when streamed; with several stop sequences, which one matches
first may depend on the cuts of tokens; a crash between the remove and the rename
of the token cache loses the file, and a torn file is kept as far as it can be
read; the order of the LRU is lost in a restart; a restore of a damaged checkpoint
deletes by name, which may be a file just written for its upgrade; when `rotate`
cannot create its next file, `record` continues with a null file, and a crash right
after `create_fresh` leaves an empty file that is put aside as corrupt; a
half-written `service.conf` becomes the backup of the next save unless it is
recognised as empty; the settings page reads the version marker outside the lock.

## 7. Not modelled

GPU kernels and the numeric forward pass (represented by which rows a chunk
writes and from where), weight and GGUF loading, image preprocessing, host power
profiles, the tray icon, the web page: data transformation or I/O without the
interleavings this project is about. Of the tokenizer, loading `tokenizer.json`, the
code point tables and `exclude_added`; of the template, the wording of tool schemas
and payload truncation.
The prototypes and kernel tests under `tools/` and the retired launcher under
`attic/` are not part of the running system. `PleWinPrefetch` and the `Queue` of
`ple_prefetch.h` are no longer used by the engine. Captured verify graphs run with
one slot only and are left out of `PlePrefetch`. With one slot the server installs
no hooks and keeps the older single-request behaviour; `ServeSched` assumes more
than one.

Left out of what is modelled: in `TokenCache`, a save that takes longer than the
autosave interval (10 s by default), so that the next begins beside it (`Throttled`;
the compare-and-swap of `main.cpp` 541-548 spaces only the starts); in `ReqStat`, the
single reads of a directory listing, which are one snapshot of the names; in
`EngineLink`, a line longer than what a connection holds, which blocks in its middle;
in `ServeSched`, the fused draft loops, which are rounds.

## 8. Plan

Done: the modules of section 3, the runs of section 4, the proofs of section 5.

1. `KvPool`: explicit reference counts and tables, refined by the derived counts of
   `ServeSched`. To prove: count = number of holders.
2. Not yet modelled: the items of `/v1/responses` that are not streamed as their own
   module (they drop reasoning and join the text into one message), the request policy
   of the settings page, the override store.
