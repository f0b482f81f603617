------------------------------ MODULE ReqStat ------------------------------
(* The request statistics of the API server: the recorder (api/reqstat.cpp) *)
(* appends a record per request to a live file, renames it when it is full  *)
(* and starts the next; the readers (api/reqstat_read.cpp) put the files in *)
(* a chain by the number in their header, without a lock.  The process may  *)
(* die between any two writes.                                              *)
(*                                                                          *)
(* A record is the number of its request, 0 one whose checksum does not     *)
(* match; its time is its number.                                           *)
EXTENDS Integers, Sequences, SequencesExt, FiniteSets, FiniteSetsExt

CONSTANTS Limits,   \* what QWENOX_REQSTAT_MAX_MB may be, in records
          TailLen,  \* the n of a tail query
          MaxRecords, MaxCrashes, MaxFails, MaxTails, MaxDamage  \* bounds

VARIABLES
    live,     \* reqstat.bin: [hdr, seq, n, limit, recs, torn], or NoFile
    rotated,  \* reqstat-<seq>.bin: sequence of records by number
    at,       \* how far record() is: idle, init, rotate, fresh, append, header
    up, cnt, fseq, limit,  \* ready_, hdr_.record_count, file_seq, rotate_bytes
    env,      \* the limit the environment asks for
    next, acked,  \* the request recorded next; those whose record() returned
    rd,       \* a tail query: [at, list, got]; at is idle, names, read or done
    crashes, fails, tails, damages  \* what the instance bounds

disk   == <<live, rotated>>
memory == <<at, up, cnt, fseq, limit, env>>
bounds == <<crashes, fails, tails, damages>>
vars == <<disk, memory, next, acked, rd, bounds>>

Seq0 == 1 .. MaxRecords + 1
Absent == <<-1>>
NoFile == [hdr |-> FALSE, seq |-> 0, n |-> 0, limit |-> 0, recs |-> <<>>, torn |-> FALSE]
NoTail == [at |-> "idle", list |-> <<>>, got |-> <<>>]

Rotated == {s \in Seq0 : rotated[s] # Absent}
Good(recs) == SelectSeq(recs, LAMBDA r : r # 0)

-----------------------------------------------------------------------------
\* chain_files: the files with a header, by number, the live one last.
LiveName == 0
ChainFiles ==
    LET between(a, b) == SelectSeq([s \in Seq0 |-> s], LAMBDA s : s \in Rotated /\ a < s /\ s <= b)
        top == MaxRecords + 1
    IN  IF live.hdr THEN between(0, live.seq) \o <<LiveName>> \o between(live.seq, top)
        ELSE between(0, top)

\* read_records: of the file that has the name now.
Recs(f) == IF f = LiveName THEN live.recs
           ELSE IF f \in Rotated THEN rotated[f] ELSE <<>>

Chain == FlattenSeq([i \in DOMAIN ChainFiles |-> Recs(ChainFiles[i])])
LastOf(n, s) == SubSeq(s, Max({1, Len(s) - n + 1}), Len(s))

\* Fault: a file begins where it ends.
BaseOfFile(counts, i) == FoldLeft(LAMBDA n, c : n + c, 0, SubSeq(counts, 1, Min({i, Len(counts)})))

\* page: the slots [total - offset - limit, total - offset) of the chain, file
\* by file.
Base(counts, i) == FoldLeft(LAMBDA n, c : n + c, 0, SubSeq(counts, 1, i - 1))
Page(offset, count) ==
    LET files  == ChainFiles
        counts == [i \in DOMAIN files |-> Len(Recs(files[i]))]
        total  == Base(counts, Len(files) + 1)
        end    == total - offset
        start  == IF end > count THEN end - count ELSE 0
        part(i) == LET base == Base(counts, i)
                       i0   == IF start > base THEN start - base ELSE 0
                       many == Min({counts[i] - i0, end - (base + i0)})
                   IN  IF base + counts[i] <= start \/ base >= end THEN <<>>
                       ELSE Good(SubSeq(Recs(files[i]), i0 + 1, i0 + many))
    IN  IF count = 0 \/ offset >= total THEN <<>>
        ELSE FlattenSeq([i \in DOMAIN files |-> part(i)])

\* scan: the records of a time window; a file whose first and last say that it
\* lies outside is not read.
Skipped(recs, t0, t1) == recs = <<>> \/ recs[Len(recs)] < t0 \/ recs[1] > t1
Scan(t0, t1) ==
    FlattenSeq([i \in DOMAIN ChainFiles |->
        LET recs == Recs(ChainFiles[i])
        IN  IF Skipped(recs, t0, t1) THEN <<>>
            ELSE SelectSeq(Good(recs), LAMBDA r : t0 <= r /\ r <= t1)])

-----------------------------------------------------------------------------
Init ==
    /\ live = NoFile /\ rotated = [s \in Seq0 |-> Absent]
    /\ at = "idle" /\ up = FALSE /\ cnt = 0 /\ fseq = 0 /\ limit = 0 /\ env \in Limits
    /\ next = 1 /\ acked = {} /\ rd = NoTail
    /\ crashes = 0 /\ fails = 0 /\ tails = 0 /\ damages = 0

\* record takes the mutex: the first call of a process opens the file, a full
\* file is rotated.
Full(n, most) == n + 1 > most /\ n > 0
Start ==
    /\ at = "idle" /\ next <= MaxRecords
    /\ at' = IF ~up THEN "init" ELSE IF Full(cnt, limit) THEN "rotate" ELSE "append"
    /\ UNCHANGED <<disk, up, cnt, fseq, limit, env, next, acked, rd, bounds>>

\* next_seq
NextSeq == IF Rotated = {} THEN 1 ELSE Max(Rotated) + 1

\* create_fresh: the file is empty until the header is flushed.
CreateFresh(seq) ==
    /\ live' = [NoFile EXCEPT !.seq = seq, !.limit = limit']
    /\ cnt' = 0 /\ fseq' = seq

\* Fault: the torn tail is not cut off.
CountWithTail(f) == Len(f.recs) + IF f.torn THEN 1 ELSE 0

\* open_existing: the size of the file is the truth.
Count(f) == Len(f.recs)

\* init: a file without a header is put aside.  A file brings its own limit.
OpenLive ==
    /\ at = "init" /\ up' = TRUE
    /\ IF live.hdr
         THEN /\ cnt' = Count(live) /\ fseq' = live.seq /\ limit' = live.limit
              /\ live' = [live EXCEPT !.torn = FALSE, !.n = Count(live)]
              /\ at' = IF Full(Count(live), live.limit) THEN "rotate" ELSE "append"
         ELSE limit' = env /\ CreateFresh(NextSeq) /\ at' = "append"
    /\ UNCHANGED <<rotated, env, next, acked, rd, bounds>>

\* rotate: when the rename fails the file is used on.
Rotate ==
    /\ at = "rotate"
    /\ \/ /\ rotated' = [rotated EXCEPT ![fseq] = live.recs]
          /\ live' = NoFile /\ at' = "fresh" /\ UNCHANGED fails
       \/ /\ fails < MaxFails /\ fails' = fails + 1
          /\ at' = "append" /\ UNCHANGED disk
    /\ UNCHANGED <<up, cnt, fseq, limit, env, next, acked, rd, crashes, tails, damages>>

Fresh ==
    /\ at = "fresh" /\ at' = "append" /\ limit' = limit
    /\ CreateFresh(fseq + 1)
    /\ UNCHANGED <<rotated, up, env, next, acked, rd, bounds>>

\* The record goes to the end of the file, after the header of a fresh one,
AppendRecord ==
    /\ at = "append"
    /\ IF ~live.hdr
         THEN live' = [live EXCEPT !.hdr = TRUE] /\ UNCHANGED <<at, cnt>>
         ELSE /\ live' = [live EXCEPT !.recs = Append(@, next)]
              /\ cnt' = cnt + 1 /\ at' = "header"
    /\ UNCHANGED <<rotated, up, fseq, limit, env, next, acked, rd, bounds>>

\* then the header is written and record() returns.
WriteHeader ==
    /\ at = "header" /\ at' = "idle"
    /\ live' = [live EXCEPT !.n = cnt]
    /\ acked' = acked \union {next} /\ next' = next + 1
    /\ UNCHANGED <<rotated, up, cnt, fseq, limit, env, rd, bounds>>

\* The process dies; of the record being written a part may be in the file.
\* It is started again, perhaps with another limit.
Crash ==
    /\ crashes < MaxCrashes /\ crashes' = crashes + 1
    /\ \E t \in {live.torn, at = "append" /\ live.hdr} : live' = [live EXCEPT !.torn = t]
    /\ env' \in Limits
    /\ next' = IF at = "idle" THEN next ELSE next + 1
    /\ at' = "idle" /\ up' = FALSE /\ cnt' = 0 /\ fseq' = 0 /\ limit' = 0
    /\ rd' = NoTail
    /\ UNCHANGED <<rotated, acked, fails, tails, damages>>

\* A record no longer matches its checksum.
Damage ==
    /\ damages < MaxDamage /\ damages' = damages + 1
    /\ \E i \in DOMAIN live.recs : live' = [live EXCEPT !.recs[i] = 0]
    /\ UNCHANGED <<rotated, memory, next, acked, rd, crashes, fails, tails>>

-----------------------------------------------------------------------------
\* tail: reads the names in the directory,
Names == SelectSeq([k \in 1 .. MaxRecords + 2 |-> k - 1],
                   LAMBDA f : f \in Rotated \/ (f = LiveName /\ live # NoFile))
List ==
    /\ rd.at = "idle" /\ tails < MaxTails /\ tails' = tails + 1
    /\ rd' = [at |-> "names", list |-> Names, got |-> <<>>]
    /\ UNCHANGED <<disk, memory, next, acked, crashes, fails, damages>>

\* then the header of each: that of the live name may be of the next file, the
\* others stay; and puts them in order,
ReadHeaders ==
    /\ rd.at = "names"
    /\ rd' = [rd EXCEPT !.at = "read",
                        !.list = SelectSeq(ChainFiles, LAMBDA f : f \in Range(rd.list))]
    /\ UNCHANGED <<disk, memory, next, acked, bounds>>

\* then reads the newest files until it has enough; torn tails and records
\* with a wrong checksum do not count.
ReadFile ==
    /\ rd.at = "read"
    /\ rd' = IF rd.list = <<>> \/ Len(rd.got) >= TailLen
               THEN [rd EXCEPT !.at = "done", !.list = <<>>, !.got = LastOf(TailLen, @)]
               ELSE [rd EXCEPT !.list = Front(@), !.got = Good(Recs(Last(rd.list))) \o @]
    /\ UNCHANGED <<disk, memory, next, acked, bounds>>

Answer ==
    /\ rd.at = "done" /\ rd' = NoTail
    /\ UNCHANGED <<disk, memory, next, acked, bounds>>

Next == \/ Start \/ OpenLive \/ Rotate \/ Fresh \/ AppendRecord \/ WriteHeader
        \/ Crash \/ Damage \/ List \/ ReadHeaders \/ ReadFile \/ Answer

Spec == Init /\ [][Next]_vars

-----------------------------------------------------------------------------
TypeOK ==
    /\ at \in {"idle", "init", "rotate", "fresh", "append", "header"}
    /\ next \in 1 .. MaxRecords + 1 /\ acked \subseteq 1 .. next - 1
    /\ rotated \in [Seq0 -> Seq(0 .. MaxRecords) \union {Absent}]
    /\ up /\ at \notin {"init", "fresh"} => cnt = Len(live.recs)

\* A request whose record() returned is in the chain, once and in order,
\* through rotations and crashes.
Durable ==
    LET chain == Good(Chain)
    IN  /\ \A i \in 1 .. Len(chain) - 1 : chain[i] < chain[i + 1]
        /\ Cardinality(acked \ Range(chain)) <= damages

\* The live file has the highest number of the chain: its name in the chain is
\* free when it is rotated.
LiveIsNewest == live # NoFile => \A s \in Rotated : s < live.seq

\* A file is full at its limit, unless it could not be renamed.
FilesBounded ==
    fails = 0 =>
       /\ live # NoFile /\ live.limit > 0 => Len(live.recs) <= live.limit
       /\ \A s \in Rotated : rotated[s] # <<>>

\* Wherever the files are cut, a page is the slice of the records it names and
\* a window the records in it.
PageIsSlice ==
    LET chain == Chain
    IN  \A offset, n \in 0 .. Len(chain) + 1 :
           Page(offset, n) = Good(LastOf(n, SubSeq(chain, 1, Len(chain) - offset)))
ScanIsFilter ==
    LET chain == Chain
    IN  \A t0, t1 \in 1 .. next : Scan(t0, t1) = SelectSeq(chain, LAMBDA r : t0 <= r /\ r <= t1)

\* What a tail query returns is in order and names no request twice, however
\* the files are renamed while it reads them.
TailIsNewest ==
    /\ \A i \in 1 .. Len(rd.got) - 1 : rd.got[i] < rd.got[i + 1]
    /\ rd.at = "done" => Len(rd.got) <= TailLen
==============================================================================
