----------------------------- MODULE ServeSched -----------------------------
(***************************************************************************)
(* Concurrent serving (namespace serve of parts/51_host_cfg.inc): request  *)
(* workers time-share one single-threaded GpuModel through the Turnstile,  *)
(* each on a sequence slot, all slots mapping pages of one KV pool that RAM *)
(* checkpoints pin too.  One action per critical section or per stretch of *)
(* code a worker runs while it owns the GPU and nobody can observe it.     *)
(*                                                                         *)
(* Tokens are abstracted to a conversation and a length: two prompts of one *)
(* conversation are prefixes of each other, prompts of two conversations   *)
(* share nothing.  Time (the lending quantum, the 50 ms poll) is a choice. *)
(***************************************************************************)
EXTENDS KvAdmission, ChunkSizes, Sequences, SequencesExt

CONSTANTS
    Req,        \* the GEN requests of a behaviour; each arrives once
    NSlots,     \* sequence slots (QWENOX_PARALLEL), more than one
    NPages,     \* pages of the KV pool
    Page,       \* rows of a page (KV_PAGE)
    MaxCtx,     \* rows of the longest sequence
    Conv,       \* request -> conversation its prompt belongs to
    Prompt,     \* request -> prompt length
    Budget,     \* request -> max_tokens
    Snap,       \* request -> rows the SSD cache can restore for it, 0 if none
    DecodeCap,  \* g_reserve_decode
    Batch,      \* rows of a prefill chunk (maxbatch)
    BatchCap,   \* a tail up to this size joins the last chunk (maxbatch_cap)
    LightRows,  \* conc_rmax_: rows a borrowed round may have
    MaxLends,   \* bound: layer boundaries of a chunk at which it may lend
    MaxCk,      \* checkpoints kept (QWENOX_RCKPT_MAX)
    Draft,      \* rows a decode round may verify beyond the committed token
    Cancellable,  \* requests the client may cancel or hang up on
    Leavers,      \* requests whose connection closes after they end
    Refusable,    \* requests whose images may be refused (grids, vision tower)
    Cut,          \* request -> its snapshot cut (a prompt position), 0 if none
    Marked        \* requests whose reply holds CKPT tokens

Slot  == 1 .. NSlots
Pages == 1 .. NPages

ASSUME SizesAssumption ==
    /\ NSlots \in Nat /\ NSlots > 1
    /\ Page \in Nat \ {0} /\ Batch \in Nat \ {0} /\ BatchCap \in Nat
    /\ MaxCtx \in Nat /\ DecodeCap \in Nat /\ LightRows \in Nat
    /\ MaxLends \in Nat /\ MaxCk \in Nat \ {0} /\ Draft \in Nat
    \* kv_pool_pages_for: never below one full-length sequence
    /\ NPages \in Nat /\ NPages >= PagesFor(MaxCtx, Page)
ASSUME RequestAssumption ==
    \* conn_main rejects a request that exceeds maxctx before it is dispatched
    /\ Prompt \in [Req -> Nat \ {0}] /\ Budget \in [Req -> Nat \ {0}]
    /\ \A r \in Req : Prompt[r] + Budget[r] <= MaxCtx
    /\ Snap \in [Req -> Nat] /\ \A r \in Req : Snap[r] < Prompt[r]
    /\ Cut \in [Req -> Nat] /\ \A r \in Req : Cut[r] < Prompt[r]
    /\ DOMAIN Conv = Req

VARIABLES
    pc,       \* where each worker is
    ret,      \* where a worker that gave the GPU up goes on
    job,      \* the rows [base, end) it writes, for what, and its lends so far
    mine,     \* the slot it claimed, 0 before
    gate,     \* the Turnstile: owner first, then the queued workers
    wait,     \* g_wait: admission queue
    cancel,   \* requests whose cancel flag is up
    sl,       \* g_slots: the bookkeeping of each slot
    seq,      \* each slot's sequence: live tokens, trunk position, pages
    ck,       \* rckpt::g_list, least recently used first
    light,    \* g_borrow_light
    lent,     \* ws_lent_: the members point at the small workspace
    bound,    \* the slot the GpuModel members belong to
    cutBusy,  \* the in-pass cut shadow set is taken
    inpass,   \* requests that took it
    shadow,   \* whose round saved its recurrent state in d_ckpt last
    admitted, \* g_seq
    uses      \* g_use

threadVars == <<pc, ret, job, mine>>
slotVars == <<sl, seq>>
lendVars == <<light, lent>>
copies == <<cutBusy, inpass, shadow>>
clocks == <<admitted, uses>>
vars == <<pc, ret, job, mine, gate, wait, cancel, sl, seq, ck, light, lent,
          bound, cutBusy, inpass, shadow, admitted, uses>>

NoTokens == [conv |-> {}, len |-> 0]     \* an empty hist or chist
Tokens(r, n) == [conv |-> {Conv[r]}, len |-> n]

Init ==
    /\ pc = [r \in Req |-> "new"]
    /\ ret = [r \in Req |-> "chunk"]
    /\ job = [r \in Req |-> [kind |-> "fresh", base |-> 0, end |-> 0, lends |-> 0]]
    /\ mine = [r \in Req |-> 0]
    /\ gate = <<>> /\ wait = <<>> /\ cancel = {}
    /\ sl = [s \in Slot |-> [busy |-> FALSE, abort |-> FALSE, seq |-> 0,
                             lastUse |-> 0, owner |-> {}, reserved |-> 0]]
    /\ seq = [s \in Slot |-> [hist |-> NoTokens, pos |-> 0, tab |-> <<>>]]
    /\ ck = <<>>
    /\ light = 0 /\ lent = FALSE /\ bound = 1
    /\ cutBusy = FALSE /\ inpass = {} /\ shadow = {}
    /\ admitted = 0 /\ uses = 0
-----------------------------------------------------------------------------
(* The gate, in the terms of FifoLock (Turnstile implements it).            *)
Owns(r) == gate # <<>> /\ Head(gate) = r
Contended == Len(gate) > 1

(* The pool: a page is free when no table and no checkpoint holds it.       *)
PagesOf(s) == ToSet(seq[s].tab)
Pinned == UNION {ToSet(ck[i].pages) : i \in DOMAIN ck}
Free == Pages \ (Pinned \cup UNION {PagesOf(s) : s \in Slot})
LowestFree == CHOOSE p \in Free : \A q \in Free : p <= q
SharedPage(s, p) == p \in Pinned \/ \E u \in Slot \ {s} : p \in PagesOf(u)

(* hist is a strict prefix of the request's prompt.                         *)
Extends(r, toks) == toks.len > 0 /\ toks.conv = {Conv[r]} /\ toks.len < Prompt[r]

(* Variant: a slot whose request was aborted counts as idle at once.        *)
IdleWhenAborted == {s \in Slot : ~sl[s].busy \/ sl[s].abort}
Idle == {s \in Slot : ~sl[s].busy}
LeastUsed(S) ==
    {s \in S : \A u \in S :
        sl[s].lastUse < sl[u].lastUse \/ (sl[s].lastUse = sl[u].lastUse /\ s <= u)}

(* pick_slot: a live continuation with the longest prefix, else an empty    *)
(* slot, else the least recently used orphan, else the least recently used. *)
Candidates(r) ==
    LET live   == {s \in Idle : Extends(r, seq[s].hist)}
        empty  == {s \in Idle : seq[s].hist.len = 0}
        orphan == {s \in Idle \ empty : sl[s].owner = {}}
    IN  IF live # {}
        THEN {s \in live : \A u \in live :
                 \/ seq[u].hist.len < seq[s].hist.len
                 \/ seq[u].hist.len = seq[s].hist.len /\ s <= u}
        ELSE IF empty # {} THEN {s \in empty : \A u \in empty : s <= u}
        ELSE IF orphan # {} THEN LeastUsed(orphan)
        ELSE LeastUsed(Idle)

Target(r) == AdmissionTarget(Prompt[r], Budget[r], DecodeCap, MaxCtx, Page)
Need(r, s) == AdmissionNeed(Target(r), Len(seq[s].tab), Extends(r, seq[s].hist))
States == [s \in Slot |-> [busy     |-> sl[s].busy /\ ~sl[s].abort,
                           mapped   |-> Len(seq[s].tab),
                           reserved |-> sl[s].reserved]]
(* Variant: what running requests reserved is ignored.                      *)
SupplyMapped(s) ==
    AdmissionAvailable(NPages, [u \in Slot |-> [States[u] EXCEPT !.reserved = 0]], s)
Supply(s) == AdmissionAvailable(NPages, States, s)

ChunkRows(rem) == ChunkSize(rem, Batch, BatchCap)

(* rckpt::match: the longest checkpoint the prompt strictly extends.        *)
Matching(r) == {i \in DOMAIN ck : Extends(r, ck[i].toks)}
BestCk(r) == CHOOSE i \in Matching(r) : \A j \in Matching(r) :
                ck[j].toks.len < ck[i].toks.len
                \/ (ck[j].toks.len = ck[i].toks.len /\ i <= j)
Touched(i) == Append(RemoveAt(ck, i), ck[i])

(* Variant: the last, partly filled page is not pinned.                     *)
SavedFullPages(list, toks, tab) ==
    Append(list, [toks |-> toks, pages |-> SubSeq(tab, 1, toks.len \div Page)])

(* rckpt::save of `toks`, whose pages lead table `tab`: one entry per token *)
(* sequence, bumped when it is already there; over the cap the oldest goes. *)
Saved(list, toks, tab) ==
    LET same == {i \in DOMAIN list : list[i].toks = toks}
        longer == Append(list, [toks  |-> toks,
                                pages |-> SubSeq(tab, 1, PagesFor(toks.len, Page))])
    IN  IF same # {} THEN LET i == CHOOSE i \in same : TRUE
                          IN  Append(RemoveAt(list, i), list[i])
        ELSE IF Len(longer) > MaxCk THEN Tail(longer) ELSE longer

(* What reset_state leaves of a slot's sequence; hist is the server's.      *)
Reset(q) == [hist |-> q.hist, pos |-> 0, tab |-> <<>>]
Dropped == [hist |-> NoTokens, pos |-> 0, tab |-> <<>>]

Goto(r, label) == pc' = [pc EXCEPT ![r] = label]
At(r, label) == pc[r] = label /\ Owns(r)
-----------------------------------------------------------------------------
(* Admission (slot_admit).                                                  *)

(* conn_main starts the worker, which joins the admission queue.            *)
Arrive(r) ==
    /\ pc[r] = "new"
    /\ wait' = Append(wait, r)
    /\ Goto(r, "queued")
    /\ UNCHANGED <<ret, job, mine, gate, cancel, slotVars, ck, lendVars, bound, copies, clocks>>

(* The X verb, or the client hanging up.                                    *)
Cancel(r) ==
    /\ r \in Cancellable \ cancel
    /\ pc[r] \notin {"new", "ended"}
    /\ cancel' = cancel \cup {r}
    /\ UNCHANGED <<threadVars, gate, wait, slotVars, ck, lendVars, bound, copies, clocks>>

(* Variant: the ticket stays in the queue.                                  *)
LeaveQueueStays(r) ==
    /\ pc[r] = "queued" /\ r \in cancel
    /\ Goto(r, "ended")
    /\ UNCHANGED <<ret, job, mine, gate, wait, cancel, slotVars, ck, lendVars, bound, copies, clocks>>

LeaveQueue(r) ==
    /\ pc[r] = "queued" /\ r \in cancel
    /\ \E i \in DOMAIN wait : wait[i] = r /\ wait' = RemoveAt(wait, i)
    /\ Goto(r, "ended")
    /\ UNCHANGED <<ret, job, mine, gate, cancel, slotVars, ck, lendVars, bound, copies, clocks>>

(* Variant: any waiting request asks for the GPU when a slot is idle.       *)
TryTurnUnordered(r) ==
    /\ pc[r] = "queued" /\ r \notin cancel
    /\ Candidates(r) # {}
    /\ gate' = Append(gate, r)
    /\ Goto(r, "admit")
    /\ UNCHANGED <<ret, job, mine, wait, cancel, slotVars, ck, lendVars, bound, copies, clocks>>

(* First in the queue and a slot is idle: ask for the GPU.                  *)
TryTurn(r) ==
    /\ pc[r] = "queued" /\ r \notin cancel
    /\ Head(wait) = r /\ Candidates(r) # {}
    /\ gate' = Append(gate, r)
    /\ Goto(r, "admit")
    /\ UNCHANGED <<ret, job, mine, wait, cancel, slotVars, ck, lendVars, bound, copies, clocks>>

(* Cancelled meanwhile, or more pages than the pool can promise: out of     *)
(* the queue, GPU given back.                                               *)
TurnAway(r) ==
    /\ At(r, "admit")
    /\ r \in cancel \/ \E s \in Candidates(r) : Need(r, s) > Supply(s)
    /\ wait' = Tail(wait)
    /\ gate' = Tail(gate)
    /\ Goto(r, "ended")
    /\ UNCHANGED <<ret, job, mine, cancel, slotVars, ck, lendVars, bound, copies, clocks>>

(* Claim the slot and keep the GPU.                                         *)
Claim(r) ==
    /\ At(r, "admit") /\ r \notin cancel
    /\ \E s \in Candidates(r) :
        /\ Need(r, s) <= Supply(s)
        /\ sl' = [sl EXCEPT ![s] =
                    [busy |-> TRUE, abort |-> FALSE, seq |-> admitted + 1,
                     lastUse |-> @.lastUse, owner |-> {r}, reserved |-> Target(r)]]
        /\ mine' = [mine EXCEPT ![r] = s]
        /\ bound' = s
    /\ wait' = Tail(wait)
    /\ admitted' = admitted + 1
    /\ Goto(r, "reuse")
    /\ UNCHANGED <<ret, job, gate, cancel, seq, ck, lendVars, copies, uses>>
-----------------------------------------------------------------------------
(* Which state the prompt continues from (gen_one).                         *)

Reusing(r) == At(r, "reuse")
Live(r) == Extends(r, seq[mine[r]].hist)

SetJob(r, kind, base, end) ==
    job' = [job EXCEPT ![r] = [kind |-> kind, base |-> base, end |-> end, lends |-> 0]]

Continue(r) ==
    /\ Reusing(r) /\ Live(r)
    /\ SetJob(r, "cont", seq[mine[r]].hist.len, 0)
    /\ Goto(r, "check")
    /\ UNCHANGED <<ret, mine, gate, wait, cancel, slotVars, ck, lendVars, bound, copies, clocks>>

(* rckpt::restore maps the checkpoint's own pages and bumps it.             *)
RestoreRam(r) ==
    /\ Reusing(r) /\ ~Live(r) /\ Matching(r) # {}
    /\ LET i == BestCk(r)
       IN  /\ seq' = [seq EXCEPT ![mine[r]] =
                        [hist |-> ck[i].toks, pos |-> ck[i].toks.len, tab |-> ck[i].pages]]
           /\ ck' = Touched(i)
           /\ SetJob(r, "cont", ck[i].toks.len, 0)
    /\ Goto(r, "check")
    /\ UNCHANGED <<ret, mine, gate, wait, cancel, sl, lendVars, bound, copies, clocks>>

(* kvsnap::restore drops the live sequence and maps fresh rows for the      *)
(* snapshot before it reads it ...                                          *)
RestoreSsd(r) ==
    /\ Reusing(r) /\ ~Live(r) /\ Matching(r) = {} /\ Snap[r] > 0
    /\ seq' = [seq EXCEPT ![mine[r]].tab = <<>>]
    /\ SetJob(r, "snap", 0, Snap[r])
    /\ Goto(r, "map")
    /\ UNCHANGED <<ret, mine, gate, wait, cancel, sl, ck, lendVars, bound, copies, clocks>>

Fresh(r) ==
    /\ Reusing(r) /\ ~Live(r) /\ Matching(r) = {} /\ Snap[r] = 0
    /\ seq' = [seq EXCEPT ![mine[r]] = Reset(@)]
    /\ SetJob(r, "fresh", 0, 0)
    /\ Goto(r, "check")
    /\ UNCHANGED <<ret, mine, gate, wait, cancel, sl, ck, lendVars, bound, copies, clocks>>

(* set_mrope or vision_embeds refuses the request: D error and out, with    *)
(* neither hist nor the state touched again.                                *)
Refuse(r) ==
    /\ At(r, "check") /\ r \in Refusable
    /\ Goto(r, "finish")
    /\ UNCHANGED <<ret, job, mine, gate, wait, cancel, slotVars, ck, lendVars, bound, copies, clocks>>

(* The prompt ingest begins; a cut past the reused prefix is taken in the   *)
(* pass when the shadow set is free.                                        *)
Begin(r) ==
    /\ At(r, "check")
    /\ seq' = IF job[r].kind = "fresh" THEN [seq EXCEPT ![mine[r]].hist = NoTokens] ELSE seq
    /\ LET take == Cut[r] > job[r].base /\ ~cutBusy
       IN  /\ cutBusy' = (cutBusy \/ take)
           /\ inpass' = IF take THEN inpass \cup {r} ELSE inpass
    /\ Goto(r, "chunk")
    /\ UNCHANGED <<ret, job, mine, gate, wait, cancel, sl, ck, lendVars, bound, shadow, clocks>>
-----------------------------------------------------------------------------
(* Backing rows [base, end) with pages of the slot's own (kv_prepare,       *)
(* kv_cow, kv_reserve).  The MTP layer writes one row behind the trunk, so  *)
(* the page of row base - 1 is unshared too.                                *)

Mapping(r) == At(r, "map")
Shared(r) ==
    LET tab == seq[mine[r]].tab
    IN  {i \in DOMAIN tab :
            /\ i > Larger(0, job[r].base - 1) \div Page
            /\ i <= PagesFor(job[r].end, Page)
            /\ SharedPage(mine[r], tab[i])}
Short(r) == Len(seq[mine[r]].tab) < PagesFor(job[r].end, Page)
Backed(r) == Mapping(r) /\ Shared(r) = {} /\ ~Short(r)
Dry(r) == Mapping(r) /\ (Shared(r) # {} \/ Short(r)) /\ Free = {}

CopyOnWrite(r) ==
    /\ Mapping(r) /\ Free # {} /\ Shared(r) # {}
    /\ LET i == CHOOSE i \in Shared(r) : \A j \in Shared(r) : i <= j
       IN  seq' = [seq EXCEPT ![mine[r]].tab[i] = LowestFree]
    /\ UNCHANGED <<threadVars, gate, wait, cancel, sl, ck, lendVars, bound, copies, clocks>>

MapPage(r) ==
    /\ Mapping(r) /\ Free # {} /\ Shared(r) = {} /\ Short(r)
    /\ seq' = [seq EXCEPT ![mine[r]].tab = Append(@, LowestFree)]
    /\ UNCHANGED <<threadVars, gate, wait, cancel, sl, ck, lendVars, bound, copies, clocks>>

(* kv_evict_one: the oldest checkpoint goes first.                          *)
EvictCheckpoint(r) ==
    /\ Dry(r) /\ ck # <<>>
    /\ ck' = Tail(ck)
    /\ UNCHANGED <<threadVars, gate, wait, cancel, slotVars, lendVars, bound, copies, clocks>>

(* starve: then idle slots, least recently used first ...                   *)
IdleHolders == {s \in Idle : seq[s].tab # <<>>}
Starving(r) == Dry(r) /\ ck = <<>>
DropIdle(r) ==
    /\ Starving(r)
    /\ \E s \in LeastUsed(IdleHolders) : seq' = [seq EXCEPT ![s] = Dropped]
    /\ UNCHANGED <<threadVars, gate, wait, cancel, sl, ck, lendVars, bound, copies, clocks>>

(* Variant (of Later): the others, whenever they were admitted.             *)
LaterOrNot(r) == {s \in Slot \ {mine[r]} : sl[s].busy /\ ~sl[s].abort /\ seq[s].tab # <<>>}
(* ... then the latest of the running requests admitted after this one: its *)
(* pages go now, the request fails when it next gets the GPU ...            *)
Later(r) == {s \in Slot : /\ sl[s].busy /\ ~sl[s].abort /\ seq[s].tab # <<>>
                          /\ sl[s].seq > sl[mine[r]].seq}

(* Variant: the pages go, the flag is not set.                              *)
AbortLaterUnseen(r) ==
    /\ Starving(r) /\ IdleHolders = {}
    /\ \E v \in Later(r) :
        /\ \A u \in Later(r) : sl[u].seq <= sl[v].seq
        /\ seq' = [seq EXCEPT ![v] = Reset(@)]
    /\ UNCHANGED <<threadVars, gate, wait, cancel, sl, ck, lendVars, bound, copies, clocks>>

AbortLater(r) ==
    /\ Starving(r) /\ IdleHolders = {}
    /\ \E v \in Later(r) :
        /\ \A u \in Later(r) : sl[u].seq <= sl[v].seq
        /\ seq' = [seq EXCEPT ![v] = Reset(@)]
        /\ sl' = [sl EXCEPT ![v].abort = TRUE]
    /\ UNCHANGED <<threadVars, gate, wait, cancel, ck, lendVars, bound, copies, clocks>>

(* ... and this one fails when it is itself the latest (KvOverflow).        *)
Overflow(r) ==
    /\ Starving(r) /\ IdleHolders = {} /\ Later(r) = {}
    /\ Goto(r, "catch")
    /\ UNCHANGED <<ret, job, mine, gate, wait, cancel, slotVars, ck, lendVars, bound, copies, clocks>>

(* The snapshot is read into the fresh rows, or is damaged.                 *)
SnapRead(r) ==
    /\ Backed(r) /\ job[r].kind = "snap"
    /\ \/ /\ seq' = [seq EXCEPT ![mine[r]].hist = Tokens(r, Snap[r]), ![mine[r]].pos = Snap[r]]
          /\ SetJob(r, "cont", Snap[r], 0)
       \/ /\ seq' = [seq EXCEPT ![mine[r]] = Dropped]
          /\ SetJob(r, "fresh", 0, 0)
    /\ Goto(r, "check")
    /\ UNCHANGED <<ret, mine, gate, wait, cancel, sl, ck, lendVars, bound, copies, clocks>>
-----------------------------------------------------------------------------
(* Prompt ingest (prefill_batch, prefill_chunk).                            *)

(* The segment being ingested ends at a cut that is not taken in the pass.  *)
SegEnd(r) == IF Cut[r] > job[r].base /\ r \notin inpass THEN Cut[r] ELSE Prompt[r]
NextRows(r) == ChunkRows(SegEnd(r) - job[r].base)

(* Variant: a chunk does not ask whether the GPU is lent.                    *)
BarredNever(r) == FALSE

(* A heavy chunk requeues while the GPU is lent (borrow_skip).              *)
Barred(r) == NextRows(r) > LightRows /\ light > 0
Skip(r) ==
    /\ At(r, "chunk") /\ Barred(r)
    /\ gate' = Tail(gate)
    /\ ret' = [ret EXCEPT ![r] = "chunk"]
    /\ Goto(r, "away")
    /\ UNCHANGED <<job, mine, wait, cancel, slotVars, ck, lendVars, bound, copies, clocks>>

StartChunk(r) ==
    /\ At(r, "chunk") /\ ~Barred(r)
    /\ SetJob(r, "chunk", job[r].base, job[r].base + NextRows(r))
    /\ Goto(r, "map")
    /\ UNCHANGED <<ret, mine, gate, wait, cancel, slotVars, ck, lendVars, bound, copies, clocks>>

EnterLayers(r) ==
    /\ Backed(r) /\ job[r].kind \in {"chunk", "round"}
    /\ Goto(r, "layers")
    /\ UNCHANGED <<ret, job, mine, gate, wait, cancel, slotVars, ck, lendVars, bound, copies, clocks>>

(* conc_borrow_yield at a layer boundary of a heavy chunk or round: swap in *)
(* the small workspace, raise the light flag, let the queue around once.    *)
Lend(r) ==
    /\ At(r, "layers")
    /\ job[r].end - job[r].base > LightRows /\ ~lent /\ Contended
    /\ job[r].lends < MaxLends
    /\ job' = [job EXCEPT ![r].lends = @ + 1]
    /\ lent' = TRUE /\ light' = light + 1
    /\ gate' = Tail(gate)
    /\ ret' = [ret EXCEPT ![r] = "layers"]
    /\ Goto(r, "away")
    /\ UNCHANGED <<mine, wait, cancel, slotVars, ck, bound, copies, clocks>>

(* Variant: the shadow set is not released.                                 *)
CutBusyAfterNever(r, done) == cutBusy

(* The shadow set is released when the prompt is done and the cut saved.    *)
CutBusyAfter(r, done) == cutBusy /\ ~(done /\ r \in inpass)

(* The chunk's last layer.  At the end of a segment before the prompt's end *)
(* the cut is checkpointed; at the prompt's end the in-pass cut, when this  *)
(* request took one, and the prompt.                                        *)
EndChunk(r) ==
    /\ At(r, "layers") /\ job[r].kind = "chunk"
    /\ LET s    == mine[r]
           end  == job[r].end
           done == end = Prompt[r]
           atCut == end = SegEnd(r) /\ ~done
           cutSaved == IF done /\ r \in inpass
                       THEN Saved(ck, Tokens(r, Cut[r]), seq[s].tab) ELSE ck
       IN  /\ seq' = [seq EXCEPT ![s].pos = end,
                        ![s].hist = IF done \/ atCut THEN Tokens(r, end) ELSE @]
           /\ ck' = IF done \/ atCut THEN Saved(cutSaved, Tokens(r, end), seq[s].tab) ELSE ck
           /\ cutBusy' = CutBusyAfter(r, done)
           /\ inpass' = IF done THEN inpass \ {r} ELSE inpass
           /\ job' = [job EXCEPT ![r].base = end]
           /\ Goto(r, IF done THEN "round" ELSE "yield")
    /\ UNCHANGED <<ret, mine, gate, wait, cancel, sl, lendVars, bound, shadow, clocks>>
-----------------------------------------------------------------------------
(* Handing the GPU over (yield_hook, borrow_turn, borrow_skip).             *)

(* From a yield point: the next chunk, or the next round.                   *)
Onward(r) == IF job[r].base < Prompt[r] THEN "chunk" ELSE "round"

(* Variant: the flag is not looked at.                                      *)
UnlessAbortedForgot(r, label) == label

(* A pool overflow may have picked this request meanwhile: then it fails.   *)
UnlessAborted(r, label) == IF sl[mine[r]].abort THEN "catch" ELSE label

(* Nobody queued: keep the GPU.                                             *)
KeepGpu(r) ==
    /\ At(r, "yield") /\ ~Contended
    /\ Goto(r, UnlessAborted(r, Onward(r)))
    /\ UNCHANGED <<ret, job, mine, gate, wait, cancel, slotVars, ck, lendVars, bound, copies, clocks>>

YieldGpu(r) ==
    /\ At(r, "yield") /\ Contended
    /\ gate' = Tail(gate)
    /\ ret' = [ret EXCEPT ![r] = Onward(r)]
    /\ Goto(r, "away")
    /\ UNCHANGED <<job, mine, wait, cancel, slotVars, ck, lendVars, bound, copies, clocks>>

(* release() and acquire() are two critical sections: another worker may    *)
(* take a ticket between them.                                              *)
AskAgain(r) ==
    /\ pc[r] = "away"
    /\ gate' = Append(gate, r)
    /\ Goto(r, "back")
    /\ UNCHANGED <<ret, job, mine, wait, cancel, slotVars, ck, lendVars, bound, copies, clocks>>

(* Variants: without the rebind; the workspace taken back by whoever        *)
(* regains the GPU.                                                         *)
RegainUnbound(r) ==
    /\ At(r, "back")
    /\ lent' = (lent /\ ret[r] # "layers")
    /\ light' = IF ret[r] = "layers" THEN light - 1 ELSE light
    /\ Goto(r, UnlessAborted(r, ret[r]))
    /\ UNCHANGED <<ret, job, mine, gate, wait, cancel, slotVars, ck, bound, copies, clocks>>
RegainTakesBack(r) ==
    /\ At(r, "back")
    /\ bound' = mine[r]
    /\ lent' = FALSE
    /\ light' = IF ret[r] = "layers" THEN light - 1 ELSE light
    /\ Goto(r, UnlessAborted(r, ret[r]))
    /\ UNCHANGED <<ret, job, mine, gate, wait, cancel, slotVars, ck, copies, clocks>>
(* The GPU is back: drop the light flag, rebind the slot, take the          *)
(* workspace back, look at the abort flag.                                  *)
Regain(r) ==
    /\ At(r, "back")
    /\ bound' = mine[r]
    /\ lent' = (lent /\ ret[r] # "layers")
    /\ light' = IF ret[r] = "layers" THEN light - 1 ELSE light
    /\ Goto(r, UnlessAborted(r, ret[r]))
    /\ UNCHANGED <<ret, job, mine, gate, wait, cancel, slotVars, ck, copies, clocks>>
-----------------------------------------------------------------------------
(* Decode: rounds that verify a few rows and keep some of them.             *)

LastRow(r) == Prompt[r] + Budget[r]

(* eos, the budget, a failed send or a cancel noticed after a token.        *)
StopDecode(r) ==
    /\ At(r, "round")
    /\ seq' = [seq EXCEPT ![mine[r]].hist = Tokens(r, seq[mine[r]].pos)]
    /\ Goto(r, "finish")
    /\ UNCHANGED <<ret, job, mine, gate, wait, cancel, sl, ck, lendVars, bound, copies, clocks>>

(* A round with drafts first saves the recurrent state it may have to roll  *)
(* back to in d_ckpt, which all slots share.                                *)
StartRound(r) ==
    /\ At(r, "round")
    /\ LET pos == seq[mine[r]].pos
       IN  /\ pos + 1 < LastRow(r)
           /\ \E rows \in 1 .. Smaller(1 + Draft, LastRow(r) - pos) :
                /\ SetJob(r, "round", pos, pos + rows)
                /\ shadow' = IF rows > 1 THEN {r} ELSE shadow
    /\ Goto(r, "verify")
    /\ UNCHANGED <<ret, mine, gate, wait, cancel, slotVars, ck, lendVars, bound, cutBusy, inpass, clocks>>

(* Variant: the limit is off by one.                                        *)
HeavyRoundOffByOne(r) == job[r].end - job[r].base >= LightRows /\ light > 0

(* Verification goes through prefill_batch as prompt chunks do: more rows   *)
(* than a borrowed round may have wait until no chunk is lent.              *)
HeavyRound(r) == job[r].end - job[r].base > LightRows /\ light > 0
SkipRound(r) ==
    /\ At(r, "verify") /\ HeavyRound(r)
    /\ gate' = Tail(gate)
    /\ ret' = [ret EXCEPT ![r] = "verify"]
    /\ Goto(r, "away")
    /\ UNCHANGED <<job, mine, wait, cancel, slotVars, ck, lendVars, bound, copies, clocks>>

Verify(r) ==
    /\ At(r, "verify") /\ ~HeavyRound(r)
    /\ Goto(r, "map")
    /\ UNCHANGED <<ret, job, mine, gate, wait, cancel, slotVars, ck, lendVars, bound, copies, clocks>>

(* The round commits at least one row, never the whole budget (the last     *)
(* token is sent, not ingested); a CKPT token is checkpointed; a cancel is  *)
(* noticed; else the worker reaches the next yield point.                   *)
EndRound(r) ==
    /\ At(r, "layers") /\ job[r].kind = "round"
    /\ LET s == mine[r]
       IN  \E pos \in (job[r].base + 1) .. job[r].end : \E mark \in BOOLEAN :
            /\ pos < LastRow(r)
            /\ mark => r \in Marked
            /\ seq' = [seq EXCEPT ![s].pos = pos,
                            ![s].hist = IF r \in cancel THEN Tokens(r, pos) ELSE @]
            /\ ck' = IF mark THEN Saved(ck, Tokens(r, pos), seq[s].tab) ELSE ck
    /\ Goto(r, IF r \in cancel THEN "finish" ELSE "yield")
    /\ UNCHANGED <<ret, job, mine, gate, wait, cancel, sl, lendVars, bound, copies, clocks>>
-----------------------------------------------------------------------------
(* Leaving.                                                                 *)

(* The catch block: the partial state is unknown, drop it.                  *)
Catch(r) ==
    /\ At(r, "catch")
    /\ seq' = [seq EXCEPT ![mine[r]] = Dropped]
    /\ Goto(r, "finish")
    /\ UNCHANGED <<ret, job, mine, gate, wait, cancel, sl, ck, lendVars, bound, copies, clocks>>

(* ~Lease: the slot turns idle while this worker still owns the GPU ...     *)
LeaveSlot(r) ==
    /\ At(r, "finish")
    /\ sl' = [sl EXCEPT ![mine[r]] =
                [@ EXCEPT !.busy = FALSE, !.reserved = 0, !.lastUse = uses + 1]]
    /\ uses' = uses + 1
    /\ mine' = [mine EXCEPT ![r] = 0]
    /\ Goto(r, "release")
    /\ UNCHANGED <<ret, job, gate, wait, cancel, seq, ck, lendVars, bound, copies, admitted>>

(* ... and the GPU goes to the next.                                        *)
ReleaseGpu(r) ==
    /\ At(r, "release")
    /\ gate' = Tail(gate)
    /\ Goto(r, "ended")
    /\ UNCHANGED <<ret, job, mine, wait, cancel, slotVars, ck, lendVars, bound, copies, clocks>>

(* The connection is gone: its slots become the first LRU choices.          *)
Disown(r) ==
    /\ r \in Leavers /\ pc[r] = "ended"
    /\ \E s \in Slot : sl[s].owner = {r}
    /\ sl' = [s \in Slot |-> IF sl[s].owner = {r} THEN [sl[s] EXCEPT !.owner = {}] ELSE sl[s]]
    /\ UNCHANGED <<threadVars, gate, wait, cancel, seq, ck, lendVars, bound, copies, clocks>>

(* All requests are served: the server waits for the next one.              *)
AllServed == (\A r \in Req : pc[r] = "ended") /\ UNCHANGED vars

Admission(r) == Arrive(r) \/ LeaveQueue(r) \/ TryTurn(r) \/ TurnAway(r) \/ Claim(r)
Reuse(r) == Continue(r) \/ RestoreRam(r) \/ RestoreSsd(r) \/ Fresh(r) \/ Refuse(r) \/ Begin(r)
MapRows(r) == CopyOnWrite(r) \/ MapPage(r) \/ EvictCheckpoint(r) \/ DropIdle(r)
              \/ AbortLater(r) \/ Overflow(r) \/ SnapRead(r)
Prefill(r) == Skip(r) \/ StartChunk(r) \/ EnterLayers(r) \/ Lend(r) \/ EndChunk(r)
HandOver(r) == KeepGpu(r) \/ YieldGpu(r) \/ AskAgain(r) \/ Regain(r)
Decode(r) == StopDecode(r) \/ StartRound(r) \/ SkipRound(r) \/ Verify(r) \/ EndRound(r)
Leaving(r) == Catch(r) \/ LeaveSlot(r) \/ ReleaseGpu(r)

Worker(r) == Admission(r) \/ Reuse(r) \/ MapRows(r) \/ Prefill(r) \/ HandOver(r)
             \/ Decode(r) \/ Leaving(r)

Next == (\E r \in Req : Worker(r) \/ Cancel(r) \/ Disown(r)) \/ AllServed

(* A started worker keeps running when it can: the operating system         *)
(* schedules it, the Turnstile is fair (NoLostWakeup, EveryTurnComes), and  *)
(* the admission wait polls every 50 ms.  Clients need not send anything.   *)
Fairness == \A r \in Req : WF_vars(Worker(r) /\ pc[r] # "new")

Spec == Init /\ [][Next]_vars
FairSpec == Spec /\ Fairness
-----------------------------------------------------------------------------
Labels == {"new", "queued", "admit", "reuse", "check", "map", "chunk", "layers",
           "yield", "away", "back", "round", "verify", "catch", "finish",
           "release", "ended"}
TokenRun == [conv : {{}} \cup {{Conv[r]} : r \in Req}, len : Nat]

TypeOK ==
    /\ pc \in [Req -> Labels]
    /\ ret \in [Req -> {"chunk", "round", "layers", "verify"}]
    /\ job \in [Req -> [kind : {"fresh", "cont", "snap", "chunk", "round"},
                        base : Nat, end : Nat, lends : Nat]]
    /\ mine \in [Req -> {0} \cup Slot]
    /\ gate \in Seq(Req) /\ wait \in Seq(Req) /\ cancel \in SUBSET Req
    /\ sl \in [Slot -> [busy : BOOLEAN, abort : BOOLEAN, seq : Nat, lastUse : Nat,
                        owner : SUBSET Req, reserved : Int]]
    /\ seq \in [Slot -> [hist : TokenRun, pos : Nat, tab : Seq(Pages)]]
    /\ ck \in Seq([toks : TokenRun, pages : Seq(Pages)])
    /\ light \in Nat /\ lent \in BOOLEAN /\ bound \in Slot
    /\ cutBusy \in BOOLEAN /\ inpass \in SUBSET Req /\ shadow \in SUBSET Req
    /\ admitted \in Nat /\ uses \in Nat

(* Requests that hold a slot, and those failing for want of pages.          *)
Holding(r) == mine[r] # 0
Failing(r) == pc[r] = "catch"

(* Two requests never run on one slot, and a slot is busy exactly while one *)
(* request holds it: the bookkeeping under g_sm agrees with the workers,    *)
(* who hold their slot across every hand-over of the GPU.                   *)
SlotExclusive ==
    /\ \A r, q \in Req : Holding(r) /\ mine[r] = mine[q] => r = q
    /\ \A s \in Slot : sl[s].busy <=> \E r \in Req : mine[r] = s

(* slot_admit pops the front of the queue without looking: it is this       *)
(* request's own ticket, though the worker let go of g_sm while it waited   *)
(* for the GPU.  And the slot it saw idle before is still there to claim.   *)
FrontIsMine ==
    \A r \in Req : pc[r] = "admit" =>
        /\ wait # <<>> /\ Head(wait) = r
        /\ Owns(r) => Candidates(r) # {}

(* A worker between hand-overs of the GPU owns it, and the GpuModel members *)
(* are bound to its own slot: no two workers ever run the model at once, or *)
(* one on the other's sequence.                                             *)
Computing(r) == Holding(r) /\ pc[r] \notin {"away", "back"}
BoundToOwner == \A r \in Req : Computing(r) => Owns(r) /\ bound = mine[r]

(* One chunk at most is lent at a time, the light flag is up exactly while  *)
(* it is, and the members point at the small workspace exactly then.        *)
Lenders == {r \in Req : ret[r] = "layers" /\ pc[r] \in {"away", "back"}}
OneLender ==
    /\ light = Cardinality(Lenders)
    /\ light <= 1
    /\ lent <=> light = 1

(* While a chunk is lent nobody writes more rows than the small workspace   *)
(* has room for.                                                            *)
LentRoundsFit ==
    \A r \in Req : lent /\ Mapping(r) /\ job[r].kind \in {"chunk", "round"} =>
        job[r].end - job[r].base <= LightRows

(* The victim of an overflow gave its pages back for good: until its worker *)
(* notices, its sequence maps nothing and cannot be starved of more.        *)
VictimHoldsNothing ==
    \A s \in Slot : sl[s].busy /\ sl[s].abort =>
        seq[s].tab = <<>> /\ seq[s].pos = 0

(* "An earlier request is never sacrificed for a later one": a request that *)
(* loses its pages, or fails for want of pages, loses to a request that was *)
(* admitted before it and is itself still unharmed.                         *)
Doomed(r) == Holding(r) /\ (Failing(r) \/ sl[mine[r]].abort)
EarliestSurvivesStep ==
    \A r \in Req : Holding(r) /\ ~Doomed(r) /\ Doomed(r)' =>
        \E q \in Req : Holding(q) /\ ~Doomed(q) /\ sl[mine[q]].seq < sl[mine[r]].seq
EarliestSurvives == [][EarliestSurvivesStep]_vars

(* When every request's budget is inside the decode reservation, admission  *)
(* promised each one all the pages it can ever map: no request is aborted   *)
(* and none overflows.                                                      *)
ReservationHolds ==
    (\A r \in Req : Budget[r] <= DecodeCap) =>
        \A r \in Req : ~Failing(r) /\ (Holding(r) => ~sl[mine[r]].abort)

(* A restore never fails for want of pages and never aborts anyone: it runs *)
(* between admission, which checked the pages against the running requests, *)
(* and the first hand-over of the GPU.                                      *)
RestoreHasRoom ==
    \A r \in Req : Starving(r) /\ job[r].kind = "snap" => IdleHolders # {}

(* The live tokens of an idle slot are exactly what its state ingested, so  *)
(* a prompt that extends them may continue from the state.                  *)
HistIsIngested ==
    \A s \in Slot : ~sl[s].busy => seq[s].hist.len = seq[s].pos

(* Every position a sequence ingested is backed by a mapped page, except    *)
(* while a snapshot is on its way into the sequence.                        *)
IngestedIsMapped ==
    \A s \in Slot : PagesFor(seq[s].pos, Page) > Len(seq[s].tab) =>
        \E r \in Req : mine[r] = s /\ job[r].kind = "snap"

(* What admission, the overflow handling and the saves must keep of every   *)
(* sequence.                                                                *)
StateIsBacked == TypeOK /\ HistIsIngested /\ IngestedIsMapped /\ RestoreHasRoom

(* When all requests are served nothing is left behind: no slot busy or     *)
(* reserved, nobody in a queue, no workspace lent.                          *)
NothingLeft ==
    (\A r \in Req : pc[r] = "ended") =>
        /\ \A s \in Slot : ~sl[s].busy /\ sl[s].reserved = 0
        /\ gate = <<>> /\ wait = <<>> /\ light = 0 /\ ~lent

(* The queues, across every way in and out of them.                         *)
QueuesAreTrue == FrontIsMine /\ NothingLeft

(* "released after the save below", "one owner at a time": the cut shadow   *)
(* set is taken only while a running request, one, is to save its cut.      *)
CutSetReleased ==
    /\ cutBusy => \E r \in inpass : Holding(r)
    /\ \A r, q \in inpass : Holding(r) /\ Holding(q) => r = q

(* "spec verify never yields": a round that drafted finds its own recurrent *)
(* state in d_ckpt when it verifies and may have to roll back.              *)
RollbackIsOwn ==
    \A r \in Req : /\ Mapping(r) \/ At(r, "layers")
                   /\ job[r].kind = "round" /\ job[r].end - job[r].base > 1
                   => shadow = {r}

(* A lent chunk is not disturbed: until its worker is back, its slot's      *)
(* tokens, position and pages stay, unless the request was sacrificed.      *)
LenderUndisturbedStep ==
    \A r \in Req :
        pc[r] \in {"away", "back"} /\ ret[r] = "layers" /\ pc'[r] \in {"away", "back"} =>
            seq'[mine[r]] = seq[mine[r]] \/ sl'[mine[r]].abort
LenderUndisturbed == [][LenderUndisturbedStep]_vars

(* Every request that arrived ends, whoever cancels, fails or hangs up.     *)
EveryRequestEnds == \A r \in Req : pc[r] = "queued" ~> pc[r] = "ended"

(* Serving implements the service it promises.                              *)
Running == [s \in Slot |-> {r \in Req : mine[r] = s}]
Service == INSTANCE SlotService WITH queue <- wait, running <- Running
ImplementsService == Service!Spec
=============================================================================
