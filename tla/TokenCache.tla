----------------------------- MODULE TokenCache -----------------------------
(* The transcript cache of the API server (class TokenCache in              *)
(* api/main.cpp): what the engine saw of the last requests, kept in memory  *)
(* under one mutex and written to a file by the threads that record.  The   *)
(* file is written next to its place, the old one removed and the new one   *)
(* renamed, without a lock: savers are kept apart by the save interval      *)
(* only.  The process may die at any point.                                 *)
EXTENDS Integers, Sequences, SequencesExt, FiniteSets, FiniteSetsExt

CONSTANTS Thread,       \* threads that finish requests
          Transcripts,  \* what a request may leave, sequences of ids
          Cap,          \* cap_tokens_
          MaxEntries,   \* kMaxEntries
          Throttled,    \* TRUE: saves are over within the save interval, so none
                        \* begins while another is written; FALSE: an interval
                        \* of 0, every record saves
          MaxRecords, MaxCrashes, MaxHits, MaxFails  \* bounds of the instance

VARIABLES entries,   \* [ids, used] in insertion order
          total,     \* total_
          clock,     \* clock_
          pc, snap,  \* per thread: its step of save_file, and what it saves
          handle,    \* the file it has open, 0 if none
          file, tmp, \* the files the two names stand for, 0 if none
          content,   \* what was written to each file
          last,      \* the transcript recorded last
          records, hits, crashes, fails  \* what the instance bounds

memory == <<entries, total, clock, last>>
disk   == <<file, tmp, content>>
bounds == <<records, hits, crashes, fails>>
vars == <<memory, pc, snap, handle, disk, bounds>>

None == <<>>
Torn == <<<<0>>>>  \* no cache: there is no id 0
File == 1 .. MaxRecords

Saving == {t \in Thread : pc[t] # "idle"}

-----------------------------------------------------------------------------
Size(es) == FoldLeft(LAMBDA n, e : n + Len(e.ids), 0, es)

\* A transcript supersedes every one it continues.
Supersede(es, ids) == SelectSeq(es, LAMBDA e : ~IsPrefix(e.ids, ids))

\* Least recently used entries go until the rest fits.
Oldest(es) == CHOOSE i \in DOMAIN es : \A j \in DOMAIN es : es[i].used <= es[j].used
Over(es) == Len(es) > MaxEntries \/ Size(es) > Cap
Evicted(es) ==
    LET RECURSIVE fit(_)
        fit(s) == IF Over(s) THEN fit(RemoveAt(s, Oldest(s))) ELSE s
    IN  fit(es)

\* insert; the caller holds the mutex.
Inserted(es, ids, now) ==
    Evicted(Append(Supersede(es, ids), [ids |-> ids, used |-> now]))

\* total_ is kept up to date with every entry that comes and goes.
Total(ids) == total + Len(ids) -
    (Size(entries) - Size(Supersede(entries, ids))) -
    (Size(Append(Supersede(entries, ids), [ids |-> ids, used |-> 0]))
        - Size(Inserted(entries, ids, clock + 1)))

-----------------------------------------------------------------------------
Init ==
    /\ entries = <<>> /\ total = 0 /\ clock = 0 /\ last = None
    /\ pc = [t \in Thread |-> "idle"] /\ snap = [t \in Thread |-> None]
    /\ handle = [t \in Thread |-> 0]
    /\ file = 0 /\ tmp = 0 /\ content = [f \in File |-> Torn]
    /\ records = 0 /\ hits = 0 /\ crashes = 0 /\ fails = 0

\* record: insert under the mutex, then autosave; whoever comes while the
\* interval runs does not save.
Record(t, ids) ==
    /\ pc[t] = "idle" /\ records < MaxRecords /\ records' = records + 1
    /\ Len(ids) <= Cap
    /\ entries' = Inserted(entries, ids, clock + 1)
    /\ clock' = clock + 1
    /\ total' = Total(ids)
    /\ last' = ids
    /\ \/ pc' = [pc EXCEPT ![t] = "snap"] /\ (Throttled => Saving = {})
       \/ Throttled /\ UNCHANGED pc
    /\ UNCHANGED <<snap, handle, disk, hits, crashes, fails>>

\* splice: a hit makes its entry the youngest.
Hit(i) ==
    /\ hits < MaxHits /\ hits' = hits + 1
    /\ entries' = [entries EXCEPT ![i].used = clock + 1]
    /\ clock' = clock + 1
    /\ UNCHANGED <<total, last, pc, snap, handle, disk, records, crashes, fails>>

\* save_file: the entries of one moment.
Snap(t) ==
    /\ pc[t] = "snap" /\ pc' = [pc EXCEPT ![t] = "open"]
    /\ snap' = [snap EXCEPT ![t] = [i \in DOMAIN entries |-> entries[i].ids]]
    /\ UNCHANGED <<memory, handle, disk, bounds>>

Unused == File \ ({file, tmp} \union {handle[t] : t \in Thread})

\* fopen(tmp, "wb") creates the file or cuts the one that is there.
Open(t) ==
    LET f == IF tmp # 0 THEN tmp ELSE Min(Unused) IN
    /\ pc[t] = "open" /\ pc' = [pc EXCEPT ![t] = "write"]
    /\ handle' = [handle EXCEPT ![t] = f]
    /\ content' = [content EXCEPT ![f] = Torn]
    /\ tmp' = f
    /\ UNCHANGED <<memory, snap, file, bounds>>

\* The writes, up to fclose: whole, unless another thread writes to the same
\* file; when one fails, the new file is removed and the old one stays.
Write(t) ==
    LET f == handle[t] IN
    /\ pc[t] = "write"
    /\ \/ /\ \E c \in {snap[t]} \union (IF \E u \in Thread \ {t} : handle[u] = f THEN {Torn} ELSE {}) :
                content' = [content EXCEPT ![f] = c]
          /\ pc' = [pc EXCEPT ![t] = "remove"] /\ UNCHANGED <<snap, tmp, fails>>
       \/ /\ fails < MaxFails /\ fails' = fails + 1
          /\ content' = [content EXCEPT ![f] = Torn]
          /\ tmp' = 0 /\ pc' = [pc EXCEPT ![t] = "idle"] /\ snap' = [snap EXCEPT ![t] = None]
    /\ handle' = [handle EXCEPT ![t] = 0]
    /\ UNCHANGED <<memory, file, records, hits, crashes>>

RemoveOld(t) ==
    /\ pc[t] = "remove" /\ pc' = [pc EXCEPT ![t] = "rename"]
    /\ file' = 0
    /\ UNCHANGED <<memory, snap, handle, tmp, content, bounds>>

\* rename fails, unnoticed, when the name is gone.
Rename(t) ==
    /\ pc[t] = "rename" /\ pc' = [pc EXCEPT ![t] = "idle"]
    /\ IF tmp = 0 THEN UNCHANGED <<file, tmp>> ELSE file' = tmp /\ tmp' = 0
    /\ snap' = [snap EXCEPT ![t] = None]
    /\ UNCHANGED <<memory, handle, content, bounds>>

\* load_file: what is there is inserted in its order.
Loaded(saved) ==
    FoldLeft(LAMBDA es, i : Inserted(es, saved[i], i), <<>>, [i \in DOMAIN saved |-> i])

\* The process dies and is started again.
Crash ==
    /\ crashes < MaxCrashes /\ crashes' = crashes + 1
    /\ LET saved == IF file = 0 \/ content[file] = Torn THEN <<>> ELSE content[file]
       IN  /\ entries' = Loaded(saved)
           /\ clock' = Len(saved)
           /\ total' = Size(Loaded(saved))
    /\ last' = None
    /\ pc' = [t \in Thread |-> "idle"] /\ snap' = [t \in Thread |-> None]
    /\ handle' = [t \in Thread |-> 0]
    /\ UNCHANGED <<disk, records, hits, fails>>

Save(t) == Snap(t) \/ Open(t) \/ Write(t) \/ RemoveOld(t) \/ Rename(t)

Next == \/ \E t \in Thread : Save(t) \/ \E ids \in Transcripts : Record(t, ids)
        \/ \E i \in DOMAIN entries : Hit(i)
        \/ Crash

Spec == Init /\ [][Next]_vars

-----------------------------------------------------------------------------
\* The size the cache believes it has is its size, and within the limits.
TypeOK ==
    /\ total = Size(entries) /\ total <= Cap
    /\ Len(entries) <= MaxEntries
    /\ \A i \in DOMAIN entries : entries[i].used <= clock
    /\ pc \in [Thread -> {"idle", "snap", "open", "write", "remove", "rename"}]

\* No entry is the beginning of one that came later: a long conversation does
\* not fill the cache with its own history.
NoHistory ==
    \A i, j \in DOMAIN entries : i < j => ~IsPrefix(entries[i].ids, entries[j].ids)

\* The turn recorded last is there when the client's next turn comes.
LastTurnKnown == last # None => \E i \in DOMAIN entries : entries[i].ids = last

\* Under its name stands a file that was written to the end: a crash leaves
\* the last saved cache or none.
FileIsWhole == file # 0 => content[file] # Torn

\* A restart has what was saved, all of it and in its order.
RestartRestoresStep ==
    crashes' > crashes /\ file # 0 =>
          [i \in DOMAIN entries' |-> entries'[i].ids] = content[file]
RestartRestores == [][RestartRestoresStep]_vars
==============================================================================
