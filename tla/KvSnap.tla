------------------------------- MODULE KvSnap -------------------------------
(* The prompt cache on the SSD (namespace kvsnap in                         *)
(* gpu/parts/51_host_cfg.inc).  A checkpoint is a file that names the trunk *)
(* pages and MTP sections it is built on; these are files of their own,     *)
(* shared by content and counted.  The thread that owns the GPU registers   *)
(* the checkpoints of a turn and queues their files, a writer thread writes *)
(* them in order and publishes them, evicting under a byte budget; a later  *)
(* turn restores one.  g_mtx protects the index, the files are read and     *)
(* written outside it.  Writes and captures may fail, files may be damaged, *)
(* and the process may die at any point.                                    *)
(*                                                                          *)
(* The bytes of every file are 1.  A token prefix is a member of State;     *)
(* which checkpoint is the longest prefix of a prompt is left open.         *)
EXTENDS Integers, Sequences, SequencesExt, FiniteSets, FiniteSetsExt

CONSTANTS Page, Section,  \* trunk pages and MTP sections, by key
          State,          \* token prefixes
          PagesOf, SectionsOf,  \* State -> sequence of keys
          Turns,          \* what a turn captures: sequences of [s, mtp],
                          \* the shorter prefix first
          Cap, QCap,      \* g_cap, g_qcap
          Upgrades,       \* when a prefix saved without MTP state is saved with
                          \* it: "queued", at any time; "published", when it is
                          \* no longer in the queue; or "never"
          MaxEnt, MaxRestores, MaxFail, MaxDamage, MaxCrash  \* bounds

VARIABLES
    db,     \* the index under g_mtx and the files it stands for:
            \*   ent    checkpoints by id: [s, mtp, secs, pub, busy]
            \*   index  g_ck;  order  its published part, oldest use first
            \*   refs, st    g_ch and g_mt;  total  g_total
            \*   files  pages and sections on the disk
            \*   image  per prefix, the checkpoint whose file is there, or 0
    q, qbytes,  \* g_q, g_q_bytes
    w,      \* the writer: its item, and how far it is
    work,   \* what the commit has still to queue
    rs,     \* the restore in progress
    damaged,  \* files a checksum would not pass
    made, restores, fails, damages, crashes  \* what the instance bounds

gpu    == <<work, rs>>
counts == <<made, restores, fails, damages, crashes>>
vars == <<db, q, qbytes, w, gpu, damaged, counts>>

Block == Page \union Section
Id == 1 .. MaxEnt

Item(kind, of) == [kind |-> kind, of |-> of]
Resting == [at |-> "idle", item |-> Item("none", 0), ok |-> FALSE]
NoRestore == [id |-> 0, at |-> "idle", todo |-> <<>>, mtp |-> FALSE, rc |-> "ok", bad |-> 0]

Chunks(d, id) == Range(PagesOf[d.ent[id].s])
Named(d, id) == Chunks(d, id) \union d.ent[id].secs
Published(d) == {id \in d.index : d.ent[id].pub}
SumOf(d) == Cardinality({b \in Block : d.st[b] = "pub"}) + Cardinality(Published(d))

-----------------------------------------------------------------------------
\* unref_locked: with its last reference a block loses its file; one that is
\* still to be written is left to the writer.
Unref(d, b) ==
    LET e == [d EXCEPT !.refs[b] = @ - 1] IN
    IF d.st[b] = "none" THEN d
    ELSE IF e.refs[b] > 0 \/ d.st[b] = "pend" THEN e
    ELSE IF d.st[b] = "fail" THEN [e EXCEPT !.st[b] = "none"]
    ELSE [e EXCEPT !.st[b] = "none", !.files = @ \ {b}, !.total = @ - 1]

\* Fault: the blocks keep the references.
DropIndexOnly(d, id, delFile) ==
    IF id \notin d.index THEN d
    ELSE [d EXCEPT !.index = @ \ {id}, !.order = SelectSeq(@, LAMBDA i : i # id),
                   !.total = @ - (IF d.ent[id].pub THEN 1 ELSE 0)]

\* drop_ck_locked: the file of the checkpoint, then what only it named.
Drop(d, id, delFile) ==
    IF id \notin d.index THEN d
    ELSE LET out == [d EXCEPT !.index = @ \ {id}, !.order = SelectSeq(@, LAMBDA i : i # id)]
             s   == d.ent[id].s
             ck  == IF ~d.ent[id].pub THEN out
                    ELSE [out EXCEPT !.total = @ - 1, !.image[s] = IF delFile THEN 0 ELSE @]
         IN  FoldSet(LAMBDA b, e : Unref(e, b), ck, Named(d, id))

\* Fault: a checkpoint that is being restored may go.
EvictBusy(d, keep) ==
    FoldLeft(LAMBDA e, id : IF e.total > Cap THEN Drop(e, id, TRUE) ELSE e,
             d, SelectSeq(d.order, LAMBDA id : id # keep))

\* evict_locked: the least recently used go until the rest fits.
Evict(d, keep) ==
    FoldLeft(LAMBDA e, id : IF e.total > Cap THEN Drop(e, id, TRUE) ELSE e,
             d, SelectSeq(d.order, LAMBDA id : id # keep /\ d.ent[id].busy = 0))

\* touch_locked: now the youngest.
Touch(d, id) ==
    IF id \in d.index /\ d.ent[id].pub
      THEN [d EXCEPT !.order = Append(SelectSeq(@, LAMBDA i : i # id), id)] ELSE d

-----------------------------------------------------------------------------
Init ==
    /\ db = [ent |-> [id \in Id |-> [s |-> CHOOSE s \in State : TRUE, mtp |-> FALSE,
                                     secs |-> {}, pub |-> FALSE, busy |-> 0]],
             index |-> {}, order |-> <<>>, total |-> 0, files |-> {},
             refs |-> [b \in Block |-> 0], st |-> [b \in Block |-> "none"],
             image |-> [s \in State |-> 0]]
    /\ q = <<>> /\ qbytes = 0 /\ w = Resting
    /\ work = <<>> /\ rs = NoRestore /\ damaged = {}
    /\ made = 0 /\ restores = 0 /\ fails = 0 /\ damages = 0 /\ crashes = 0

\* The entry of the same prefix the loop of commit_seed ends at: the one with
\* MTP state, which can only have come later.
Old(d, s) ==
    LET same == {id \in d.index : d.ent[id].s = s}
    IN  IF same = {} THEN 0 ELSE Max(same)

\* One checkpoint of a turn: [d, n, need, keep] to the same with it.
Register(acc, c) ==
    LET d    == acc.d
        old  == Old(d, c.s)
        id   == acc.n + 1
        secs == IF c.mtp THEN {b \in Range(SectionsOf[c.s]) : d.st[b] # "fail"} ELSE {}
        all  == Range(PagesOf[c.s]) \union secs
    IN  IF old # 0 /\ (d.ent[old].mtp \/ ~c.mtp) THEN [acc EXCEPT !.d = Touch(d, old)]
        ELSE IF \E b \in Range(PagesOf[c.s]) : d.st[b] = "fail" THEN acc
        ELSE [d    |-> [d EXCEPT !.index = @ \union {id},
                                 !.ent[id] = [s |-> c.s, mtp |-> c.mtp, secs |-> secs,
                                              pub |-> FALSE, busy |-> 0],
                                 !.refs = [b \in Block |-> @[b] + IF b \in all THEN 1 ELSE 0],
                                 !.st = [b \in Block |-> IF b \in all /\ @[b] = "none"
                                                         THEN "pend" ELSE @[b]]],
              n    |-> id,
              need |-> acc.need \union {b \in all : d.st[b] = "none"},
              keep |-> Append(acc.keep, id)]

\* commit_seed: registers what the turn captured; then its pages, its sections
\* and its checkpoints are queued, in this order.
Commit(turn) ==
    LET acc == FoldLeft(Register, [d |-> db, n |-> made, need |-> {}, keep |-> <<>>], turn)
        of(key, kind) == LET seq == SelectSeq(key, LAMBDA b : b \in acc.need)
                         IN  [i \in DOMAIN seq |-> Item(kind, seq[i])]
        longest == turn[Len(turn)].s
    IN  /\ work = <<>> /\ rs = NoRestore
        /\ made + Len(turn) <= MaxEnt
        /\ \A c \in Range(turn), id \in db.index :
              db.ent[id].s = c.s /\ c.mtp /\ ~db.ent[id].mtp =>
                 \/ Upgrades = "queued"
                 \/ Upgrades = "published" /\ db.ent[id].pub
        /\ db' = acc.d /\ made' = acc.n
        /\ work' = of(PagesOf[longest], "page") \o of(SectionsOf[longest], "section")
                     \o [i \in DOMAIN acc.keep |-> Item("ckpt", acc.keep[i])]
        /\ UNCHANGED <<q, qbytes, w, rs, damaged, restores, fails, damages, crashes>>

\* enqueue: waits for the disk while the queue is full.
Enqueue ==
    /\ work # <<>>
    /\ qbytes = 0 \/ qbytes + 1 <= QCap
    /\ q' = Append(q, Head(work)) /\ qbytes' = qbytes + 1
    /\ work' = Tail(work)
    /\ UNCHANGED <<db, w, rs, damaged, counts>>

\* The page cannot be copied from the device: fail_blk.
CaptureFails ==
    /\ work # <<>> /\ Head(work).kind # "ckpt"
    /\ fails < MaxFail /\ fails' = fails + 1
    /\ db' = [db EXCEPT !.st[Head(work).of] = IF @ = "none" THEN @ ELSE "fail"]
    /\ work' = Tail(work)
    /\ UNCHANGED <<q, qbytes, w, rs, damaged, made, restores, damages, crashes>>

-----------------------------------------------------------------------------
\* writer: takes the next item,
Take ==
    /\ w.at = "idle" /\ q # <<>>
    /\ w' = [at |-> "check", item |-> Head(q), ok |-> TRUE] /\ q' = Tail(q)
    /\ UNCHANGED <<db, qbytes, gpu, damaged, counts>>

\* checks that what a checkpoint is built on has been published,
Check ==
    /\ w.at = "check"
    /\ w' = [w EXCEPT !.at = "write",
                      !.ok = w.item.kind = "ckpt" =>
                                \A b \in Chunks(db, w.item.of) : db.st[b] = "pub"]
    /\ UNCHANGED <<db, q, qbytes, gpu, damaged, counts>>

\* writes the file next to its place and renames it,
WriteFile ==
    LET it == w.item IN
    /\ w.at = "write"
    /\ \/ /\ w.ok
          /\ db' = IF it.kind = "ckpt" THEN [db EXCEPT !.image[db.ent[it.of].s] = it.of]
                   ELSE [db EXCEPT !.files = @ \union {it.of}]
          /\ damaged' = damaged \ {IF it.kind = "ckpt" THEN db.ent[it.of].s ELSE it.of}
          /\ w' = [w EXCEPT !.at = "publish"] /\ UNCHANGED fails
       \/ /\ w.ok /\ fails < MaxFail /\ fails' = fails + 1
          /\ w' = [w EXCEPT !.at = "publish", !.ok = FALSE]
          /\ UNCHANGED <<db, damaged>>
       \/ /\ ~w.ok
          /\ w' = [w EXCEPT !.at = "publish"] /\ UNCHANGED <<db, damaged, fails>>
    /\ UNCHANGED <<q, qbytes, gpu, made, restores, damages, crashes>>

\* The block just written; nobody may want it any more.
PublishedBlock(d, b, ok) ==
    IF d.refs[b] = 0
      THEN [d EXCEPT !.st[b] = "none", !.files = IF ok THEN @ \ {b} ELSE @]
    ELSE IF ok THEN [d EXCEPT !.st[b] = "pub", !.total = @ + 1]
    ELSE [d EXCEPT !.st[b] = "fail"]

\* The checkpoint just written; it takes the place of one of the same prefix.
PublishedCkpt(d, id, ok) ==
    IF ~ok THEN Drop(d, id, FALSE)
    ELSE LET same == {o \in d.index \ {id} : d.ent[o].s = d.ent[id].s}
             e    == IF same = {} THEN d ELSE Drop(d, Min(same), FALSE)
             f    == Touch([e EXCEPT !.ent[id].pub = TRUE, !.total = @ + 1], id)
         IN  Evict(f, id)

\* and publishes it under the lock.
Publish ==
    LET it == w.item IN
    /\ w.at = "publish" /\ w' = Resting
    /\ qbytes' = qbytes - 1
    /\ db' = IF it.kind = "ckpt" THEN PublishedCkpt(db, it.of, w.ok)
             ELSE PublishedBlock(db, it.of, w.ok)
    /\ UNCHANGED <<q, gpu, damaged, counts>>

-----------------------------------------------------------------------------
\* match: marked busy, the checkpoint cannot be evicted.
Match(id) ==
    /\ work = <<>> /\ rs = NoRestore
    /\ restores < MaxRestores /\ restores' = restores + 1
    /\ db' = [db EXCEPT !.ent[id].busy = @ + 1]
    /\ rs' = [NoRestore EXCEPT !.id = id, !.at = "ckpt"]
    /\ UNCHANGED <<q, qbytes, w, work, damaged, made, fails, damages, crashes>>

Readable(d, f) ==
    /\ f \notin damaged
    /\ IF f \in State THEN d.image[f] # 0 ELSE f \in d.files

\* restore_body: the checkpoint's file, by name, and whether its MTP state can
\* be had,
ReadCkpt ==
    LET s   == db.ent[rs.id].s
        mtp == db.ent[db.image[s]].mtp /\ \A b \in Range(SectionsOf[s]) : db.st[b] = "pub"
    IN  /\ rs.at = "ckpt"
        /\ rs' = IF ~Readable(db, s) THEN [rs EXCEPT !.at = "done", !.rc = "ckpt"]
                 ELSE [rs EXCEPT !.at = "read", !.mtp = mtp,
                                 !.todo = PagesOf[s] \o IF mtp THEN SectionsOf[s] ELSE <<>>]
        /\ UNCHANGED <<db, q, qbytes, w, work, damaged, counts>>

\* then the pages and sections, one by one.  A section that cannot be read
\* costs the speculation only.
ReadBlock ==
    /\ rs.at = "read"
    /\ rs' = IF rs.todo = <<>> THEN [rs EXCEPT !.at = "done"]
             ELSE IF Readable(db, Head(rs.todo)) THEN [rs EXCEPT !.todo = Tail(@)]
             ELSE IF Head(rs.todo) \in Page
                  THEN [rs EXCEPT !.at = "done", !.rc = "page", !.bad = Head(rs.todo)]
             ELSE [rs EXCEPT !.at = "done", !.mtp = FALSE]
    /\ UNCHANGED <<db, q, qbytes, w, work, damaged, counts>>

\* What the result says of the index: a bad page invalidates every checkpoint
\* built on it.
Restored(d) ==
    IF rs.rc = "ok" THEN Touch(d, rs.id)
    ELSE IF rs.rc = "ckpt" THEN Drop(d, rs.id, TRUE)
    ELSE FoldSet(LAMBDA id, e : Drop(e, id, TRUE), d,
                 {id \in Published(d) : d.ent[id].busy = 0 /\ rs.bad \in Chunks(d, id)})

\* restore, its end.
Restore ==
    /\ rs.at = "done" /\ rs' = NoRestore
    /\ db' = Restored([db EXCEPT !.ent[rs.id].busy = @ - 1])
    /\ UNCHANGED <<q, qbytes, w, work, damaged, counts>>

\* A file of the cache no longer passes its checksum.
Damage(f) ==
    /\ damages < MaxDamage /\ damages' = damages + 1
    /\ damaged' = damaged \union {f}
    /\ UNCHANGED <<db, q, qbytes, w, gpu, made, restores, fails, crashes>>

-----------------------------------------------------------------------------
\* init: a checkpoint that misses a trunk page goes,
Whole(files, left) == {s \in State : left[s] # 0 /\ Range(PagesOf[s]) \subseteq files}

\* then the blocks nobody names,
Swept(d) ==
    LET used == {b \in d.files : d.refs[b] > 0}
    IN  [d EXCEPT !.total = @ + Cardinality(used), !.files = used,
                  !.st = [b \in Block |-> IF b \in used THEN "pub" ELSE "none"]]

\* then what is over the budget.  The order of use is that of the files' times.
Indexed(d, files, left) ==
    LET whole == Whole(files, left)
        ids   == {left[s] : s \in whole}
        ent   == [id \in Id |->
                    IF id \notin ids THEN d.ent[id]
                    ELSE [d.ent[id] EXCEPT !.pub = TRUE, !.busy = 0,
                            !.secs = IF d.ent[id].mtp
                                       THEN Range(SectionsOf[d.ent[id].s]) \intersect files ELSE {}]]
        young == SelectSeq(d.order, LAMBDA id : id \in ids)
    IN  Evict(Swept([d EXCEPT
              !.ent = ent, !.index = ids, !.files = files, !.total = Cardinality(ids),
              !.order = young \o SetToSeq(ids \ Range(young)),
              !.refs = [b \in Block |-> Cardinality(
                 {id \in ids : b \in Range(PagesOf[ent[id].s]) \union ent[id].secs})],
              !.image = [s \in State |-> IF s \in whole THEN left[s] ELSE 0]]), 0)

\* The process dies, in the middle of whatever it does to the files, and the
\* directory may have lost entries that were not synced.
Crash ==
    /\ crashes < MaxCrash /\ crashes' = crashes + 1
    /\ \E files \in SUBSET db.files, lost \in SUBSET State :
          db' = Indexed(db, files, [s \in State |-> IF s \in lost THEN 0 ELSE db.image[s]])
    /\ q' = <<>> /\ qbytes' = 0 /\ w' = Resting /\ work' = <<>> /\ rs' = NoRestore
    /\ UNCHANGED <<damaged, made, restores, fails, damages>>

Writer == Take \/ Check \/ WriteFile \/ Publish
Gpu == Enqueue \/ ReadCkpt \/ ReadBlock \/ Restore

Next == \/ Writer \/ Gpu \/ CaptureFails
        \/ \E turn \in Turns : Commit(turn)
        \/ \E id \in Published(db) : Match(id)
        \/ \E f \in db.files \union {s \in State : db.image[s] # 0} : Damage(f)
        \/ Crash

Spec == Init /\ [][Next]_vars

\* Both threads run when they can.
Fairness == WF_vars(Writer) /\ WF_vars(Gpu)
LiveSpec == Spec /\ Fairness

-----------------------------------------------------------------------------
Quiet == q = <<>> /\ w = Resting /\ work = <<>> /\ rs = NoRestore

TypeOK ==
    /\ db.index \subseteq 1 .. made /\ Published(db) = Range(db.order)
    /\ db.files \subseteq Block /\ db.refs \in [Block -> Nat]
    /\ db.st \in [Block -> {"none", "pend", "pub", "fail"}]
    /\ qbytes = Len(q) + (IF w = Resting THEN 0 ELSE 1)
    /\ w.at \in {"idle", "check", "write", "publish"}
    /\ rs.at \in {"idle", "ckpt", "read", "done"}

\* A block has as many references as checkpoints of the index name it, and is
\* known while it has one.
CountsExact ==
    \A b \in Block :
       /\ db.refs[b] = Cardinality({id \in db.index : b \in Named(db, id)})
       /\ db.refs[b] > 0 => db.st[b] # "none"

\* A checkpoint that can be matched has its file, and every page it is built
\* on has been published and has its file: nothing evicts what a restore
\* reads, and no write that failed, and no crash, leaves half a checkpoint.
IndexOnDisk ==
    \A id \in Published(db) :
       /\ db.image[db.ent[id].s] # 0
       /\ \A b \in Chunks(db, id) : db.st[b] = "pub" /\ b \in db.files

\* The bytes accounted for are those of what is published.
TotalIsSum == db.total = SumOf(db)

\* When KVSYNC answers, there is no file on the disk that the index does not
\* know: nothing that the budget does not count.
NothingLeaked ==
    Quiet => /\ db.files = {b \in Block : db.st[b] = "pub"}
             /\ \A s \in State : db.image[s] # 0 => db.image[s] \in Published(db)

\* Published means within the budget, as far as there is something to evict.
BudgetKeptStep ==
    w.at = "publish" /\ w.ok /\ w.item.kind = "ckpt" /\ w' = Resting /\ crashes' = crashes =>
          \/ db'.total <= Cap
          \/ \A id \in Published(db') : id = w.item.of \/ db'.ent[id].busy > 0
BudgetKept == [][BudgetKeptStep]_vars

\* A restore fails only on a file that is damaged: what it was promised by the
\* match is not taken away while it reads.
RestoreServedStep ==
    rs.rc = "ok" /\ rs'.rc # "ok" =>
          (IF rs'.rc = "page" THEN rs'.bad ELSE db.ent[rs.id].s) \in damaged
RestoreServed == [][RestoreServedStep]_vars

\* A bad page costs one restore: no checkpoint built on it can be matched
\* again.
BadPageForgottenStep ==
    rs.at = "done" /\ rs.rc = "page" /\ rs' = NoRestore /\ crashes' = crashes =>
          \A id \in Published(db') : rs.bad \notin Chunks(db', id)
BadPageForgotten == [][BadPageForgottenStep]_vars

\* A checkpoint is given up only after a write or a capture failed: the order
\* of the queue has its pages published before it.
SavedUnlessFailed == w.at = "publish" /\ ~w.ok => fails > 0

\* A turn gets all it has to save into the queue, and the queue drains: the
\* GPU thread does not wait for the disk forever, and KVSYNC answers.
Drains == work # <<>> ~> Quiet
=============================================================================
