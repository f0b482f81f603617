---------------------------- MODULE ServiceConf ----------------------------
(* The deployment settings, service.conf: how it is read (load_conf), edited *)
(* in place (save_conf) and validated, and the settings page that saves a    *)
(* few keys and the version of the weights at a time.  The file is written   *)
(* after a backup; the server may die while it writes.                       *)
(*                                                                           *)
(* The file is a sequence of lines: a comment, the marker of the version, or *)
(* KEY="${KEY:-v}" (form ":-"), KEY="${KEY-v}" ("-"), KEY="v" ("=").  A value *)
(* is a number, which for a file stands for its name, or Empty, Ref for      *)
(* $MODEL_FILE, or Garbled for anything else.                                *)
EXTENDS Integers, Sequences, SequencesExt, FiniteSets, FiniteSetsExt, Functions

CONSTANTS Files,    \* what service.conf may be at the start
          Posts,    \* what the page may post: [vals |-> function of keys, ver]
          Env,      \* function: the environment
          Order,    \* the managed keys in the order of std::map
          Builtin,  \* function: the default of each key
          Allowed,  \* function of Numbers: [lo, hi], the least and the largest value
          PoolLimit, MaxPosts, MaxCrashes, MaxFails  \* 524288 tokens; bounds

VARIABLES
    file, bak,   \* service.conf and service.conf.bak: [lines, ended]
    conf,        \* g_svc_conf: function of the keys that have a value
    saving,      \* the post whose file is being written: [vals, ver, out]
    whole, parts, \* history: the last file written to its end; those that were not
    asked, askedVer,  \* history: what was saved last for each key; the version
    posts, crashes, fails

vars == <<file, bak, conf, saving, whole, parts, asked, askedVer, posts, crashes, fails>>

Empty == -1
Ref == -2
Garbled == -3
OptionalFileKeys == {"OVERLAY_FILE"}
Managed == Range(Order)
Note == [kind |-> "note"]
Mark(v) == [kind |-> "mark", val |-> v]
KeyLine(k, form, v) == [kind |-> "key", key |-> k, form |-> form, val |-> v]
NoText == [lines |-> <<>>, ended |-> TRUE]
NoPost == [vals |-> <<>>, ver |-> "none", out |-> NoText]
With(f, k, v) == [x \in DOMAIN f \union {k} |-> IF x = k THEN v ELSE f[x]]
Over(f, g) == [x \in DOMAIN f \union DOMAIN g |-> IF x \in DOMAIN g THEN g[x] ELSE f[x]]

-----------------------------------------------------------------------------
\* expand: a variable is of the environment or of what was read before.
Expand(v, known) ==
    IF v # Ref THEN v
    ELSE IF "MODEL_FILE" \in DOMAIN Env THEN Env["MODEL_FILE"]
    ELSE IF "MODEL_FILE" \in DOMAIN known THEN known["MODEL_FILE"]
    ELSE Empty

\* load_conf: line by line; the environment wins over the line.
ReadLine(known, line) ==
    IF line.kind # "key" THEN known
    ELSE IF line.key \in DOMAIN Env /\ (line.form # ":-" \/ Env[line.key] # Empty) THEN known
    ELSE With(known, line.key, Expand(line.val, known))
Load(text) == FoldLeft(ReadLine, <<>>, text.lines)

\* cfg and cfg_optional: environment, file, default.
Cfg(known, k) ==
    IF k \in DOMAIN Env /\ Env[k] # Empty THEN Env[k]
    ELSE IF k \in DOMAIN known /\ known[k] # Empty THEN known[k]
    ELSE Builtin[k]
CfgOptional(known, k) ==
    IF k \in DOMAIN Env THEN Env[k]
    ELSE IF k \in DOMAIN known THEN known[k]
    ELSE Builtin[k]

\* conf_marker: the first one of the file.
Marker(text) ==
    LET at == SelectInSeq(text.lines, LAMBDA l : l.kind = "mark")
    IN  IF at = 0 THEN "none" ELSE text.lines[at].val

\* handle_config_get: the version the page shows.
Version ==
    LET ngram == Cfg(conf, "NGRAM_FILE")
    IN  IF Marker(file) \in {"v1", "v2", "gguf"} THEN Marker(file)
        ELSE IF ngram = Empty \/ ngram = Cfg(conf, "MODEL_FILE") THEN "v1" ELSE "v2"

\* validate_conf
Numbers == {"ENGINE_PORT", "API_PORT", "PARALLEL", "KV_PAGED", "MAX_CONTEXT",
            "KV_POOL_TOKENS", "PREFILL_CHUNK", "KVSNAP_MAX_GB", "ROPE_ORIGINAL_CTX"}
Fractions == {"ROPE_FACTOR", "ROPE_BETA_FAST", "ROPE_BETA_SLOW"}
Valid(known) ==
    LET n(k) == Cfg(known, k)
    IN  /\ \A k \in Numbers \union Fractions : n(k) # Garbled
        /\ \A k \in Numbers : Allowed[k].lo <= n(k) /\ n(k) <= Allowed[k].hi
        /\ n("ENGINE_PORT") # n("API_PORT")
        /\ n("PARALLEL") > 1 => n("KV_PAGED") # 0
        /\ Max({n("KV_POOL_TOKENS"), n("MAX_CONTEXT")}) <= PoolLimit
        /\ n("ROPE_FACTOR") >= 1
        /\ n("ROPE_BETA_FAST") >= n("ROPE_BETA_SLOW") /\ n("ROPE_BETA_SLOW") > 0
        /\ n("ROPE_FACTOR") > 1 => n("MAX_CONTEXT") <= n("ROPE_FACTOR") * n("ROPE_ORIGINAL_CTX")

-----------------------------------------------------------------------------
Form(k) == IF k \in OptionalFileKeys THEN "-" ELSE ":-"
Written(lines) == {lines[i].key : i \in {j \in DOMAIN lines : lines[j].kind = "key"}}

\* save_conf: the lines of the keys to be saved are rewritten where they are,
\* and the first marker;
Body(lines, vals, ver) ==
    [i \in DOMAIN lines |->
        LET l == lines[i]
        IN  IF l.kind = "mark" /\ ver # "" /\ \A j \in 1 .. i - 1 : lines[j].kind # "mark"
              THEN Mark(ver)
            ELSE IF l.kind = "key" /\ l.key \in DOMAIN vals
              THEN KeyLine(l.key, Form(l.key), vals[l.key])
            ELSE l]

\* what is missing is appended to the text: to its last line, when that has no
\* end.  Only the marker looks for one.
Appended(vals, lines) ==
    LET missing == SelectSeq(Order, LAMBDA k : k \in DOMAIN vals /\ k \notin Written(lines))
    IN  [i \in DOMAIN missing |-> KeyLine(missing[i], Form(missing[i]), vals[missing[i]])]
Glue(l) == IF l.kind = "note" THEN l ELSE [l EXCEPT !.val = Garbled]
Saved(text, vals, ver) ==
    LET body  == Body(text.lines, vals, ver)
        added == Appended(vals, text.lines)
        glued == IF added # <<>> /\ ~text.ended
                   THEN Front(body) \o <<Glue(Last(body))>> \o Tail(added)
                   ELSE body \o added
        mark  == IF ver # "" /\ \A i \in DOMAIN body : body[i].kind # "mark"
                   THEN <<Mark(ver)>> ELSE <<>>
    IN  [lines |-> glued \o mark, ended |-> text.ended \/ added # <<>> \/ mark # <<>>]

\* handle_config_post: of the files of the weights only those of the version
\* are saved.
WeightKeys == {"MODEL_FILE", "NGRAM_FILE", "OVERLAY_FILE", "GGUF_FILE"}
VersionKeys(ver) == CASE ver = "v1" -> {"MODEL_FILE", "OVERLAY_FILE"}
                      [] ver = "v2" -> {"MODEL_FILE", "NGRAM_FILE"}
                      [] ver = "gguf" -> {"GGUF_FILE"}
                      [] OTHER -> WeightKeys
Filtered(vals, ver) ==
    LET kept == Restrict(vals, DOMAIN vals \ (WeightKeys \ VersionKeys(ver)))
    IN  CASE ver = "v1" -> With(kept, "NGRAM_FILE", Ref)
          [] ver = "v2" -> With(kept, "OVERLAY_FILE", Empty)
          [] OTHER -> kept

-----------------------------------------------------------------------------
Init ==
    /\ file \in Files /\ bak = NoText /\ conf = Load(file) /\ saving = NoPost
    /\ whole = file /\ parts = {} /\ asked = <<>> /\ askedVer = ""
    /\ posts = 0 /\ crashes = 0 /\ fails = 0

\* The posted values over those in effect are validated.
Acceptable(vals) == Valid(Over(conf, vals))

\* save_conf keeps the backup when there is no text.
Backup == IF file.lines = <<>> THEN bak ELSE file

\* POST /admin/config: the file is backed up and opened, which empties it; or
\* cannot be opened (500).
Post ==
    /\ saving = NoPost /\ posts < MaxPosts /\ posts' = posts + 1
    /\ \E p \in Posts :
         LET vals == Filtered(p.vals, p.ver)
         IN  /\ vals # <<>> \/ p.ver # ""
             /\ Acceptable(vals)
             /\ bak' = Backup
             /\ \/ /\ saving' = [vals |-> vals, ver |-> p.ver, out |-> Saved(file, vals, p.ver)]
                   /\ file' = NoText /\ UNCHANGED fails
                \/ /\ fails < MaxFails /\ fails' = fails + 1
                   /\ UNCHANGED <<file, saving>>
    /\ UNCHANGED <<conf, whole, parts, asked, askedVer, crashes>>

\* The text is written and the settings are read from the file.
Write ==
    /\ saving # NoPost
    /\ file' = saving.out /\ conf' = Load(saving.out) /\ whole' = saving.out
    /\ asked' = Over(asked, saving.vals)
    /\ askedVer' = IF saving.ver = "" THEN askedVer ELSE saving.ver
    /\ saving' = NoPost
    /\ UNCHANGED <<bak, parts, posts, crashes, fails>>

\* Some first lines are in the file, and the settings are what these say.
BreakOff ==
    /\ saving # NoPost /\ saving' = NoPost
    /\ \E n \in {0, Len(saving.out.lines) \div 2} :
         /\ file' = [lines |-> SubSeq(saving.out.lines, 1, n), ended |-> TRUE]
         /\ parts' = IF n = 0 THEN parts ELSE parts \union {file'}
         /\ conf' = Load(file')
    /\ asked' = <<>> /\ askedVer' = ""
    /\ UNCHANGED <<bak, whole, posts>>

\* fwrite fails, which nobody looks at: the page says that it saved.
WriteShort == BreakOff /\ fails < MaxFails /\ fails' = fails + 1 /\ UNCHANGED crashes

\* The server dies while it writes.  When it starts it reads what is there.
Crash == BreakOff /\ crashes < MaxCrashes /\ crashes' = crashes + 1 /\ UNCHANGED fails

Next == Post \/ Write \/ WriteShort \/ Crash
Spec == Init /\ [][Next]_vars

-----------------------------------------------------------------------------
TypeOK ==
    /\ DOMAIN conf \subseteq DOMAIN Builtin
    /\ \A i \in DOMAIN file.lines : file.lines[i].kind \in {"note", "mark", "key"}
    /\ saving = NoPost => conf = Load(file)
    /\ DOMAIN asked \subseteq Managed

\* What was saved last for a key is in effect after every later save of other
\* keys, wherever its lines are and however many, if every file was written to
\* its end since.
InEffect(k) == IF k \in OptionalFileKeys THEN CfgOptional(conf, k) ELSE Cfg(conf, k)
ReadBack ==
    \A k \in DOMAIN asked \ DOMAIN Env :
       LET v == Expand(asked[k], conf)
       IN  InEffect(k) = IF v = Empty /\ k \notin OptionalFileKeys THEN Builtin[k] ELSE v

\* The version shown is the one saved last.
VersionReadBack == askedVer # "" /\ saving = NoPost => Version = askedVer

\* The comments stay, and the value of a key that is not saved.
OthersKeptStep ==
    saving # NoPost /\ asked' # <<>> =>
          /\ Len(SelectSeq(file'.lines, LAMBDA l : l = Note))
               = Len(SelectSeq(whole.lines, LAMBDA l : l = Note))
          /\ \A k \in DOMAIN conf \ DOMAIN saving.vals :
                k \in DOMAIN conf' /\ (conf'[k] = conf[k] \/ k = "NGRAM_FILE")
OthersKept == [][OthersKeptStep]_vars

\* The last whole file is there or in the backup, also after the server died
\* or the disk was full, unless a file left half written was saved over.
Recoverable == file = whole \/ bak = whole \/ bak \in parts

\* What is in effect is valid, whatever was saved one by one, if every file is
\* written to its end.
StaysValid == Valid(conf)

\* "V1 forces NGRAM_FILE=$MODEL_FILE": as long as that is what was saved, the
\* n-gram table is read from the model file, whichever that is by now.
V1Follows ==
    "NGRAM_FILE" \in DOMAIN asked \ DOMAIN Env /\ asked["NGRAM_FILE"] = Ref =>
       Cfg(conf, "NGRAM_FILE") = Cfg(conf, "MODEL_FILE")
=============================================================================
