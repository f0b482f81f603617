---------------------------- MODULE TokenSplice ----------------------------
(* How much of a remembered transcript a new prompt may reuse (cut in class *)
(* TokenCache and encode_spliced, api/main.cpp).  Transcripts are token     *)
(* ids, prompts are text; an image is one placeholder in the text and a run *)
(* of pad ids in the transcript.  What is reused must decode to the front   *)
(* of the text, keep every image whole, and end where the rest of the text  *)
(* encodes by itself.                                                       *)
(*                                                                          *)
(* Ids: "a", "ab", "L" (the first half of a two-byte character) and "v",    *)
(* "p", "w" (the placeholder typed by a user) are ordinary; "E" is an added *)
(* token, "V" "P" "W" are <|vision_start|>, <|image_pad|>, <|vision_end|>.  *)
EXTENDS Texts

CONSTANTS Transcripts,  \* what was recorded
          Prompts,      \* [text, pads]: pads has the pad tokens per image
          NoImages      \* the pads of a request without images

VARIABLES ids, prompt,
          hit,          \* the ids of the transcript that are reused
          phase         \* "asked" or "answered"

vars == <<ids, prompt, hit, phase>>

Bytes(id) == CASE id = "ab" -> <<"a", "b">>
               [] id = "v"  -> <<"V">>
               [] id = "p"  -> <<"P">>
               [] id = "w"  -> <<"W">>
               [] OTHER     -> <<id>>
Added == {"E", "V", "P", "W"}

-----------------------------------------------------------------------------
\* build_entry: only the first pad of a run has bytes.
Decode(s) == FlattenSeq([i \in DOMAIN s |->
                IF s[i] = "P" /\ i > 1 /\ s[i - 1] = "P" THEN <<>> ELSE Bytes(s[i])])
Offset(s, k) == Len(Decode(Upto(s, k)))

\* Where the runs of pads begin, and how long the run at i is.
Runs(s) == {i \in DOMAIN s : s[i] = "P" /\ (i = 1 \/ s[i - 1] # "P")}
RunLen(s, i) == Max({j \in 1 .. Len(s) - i + 1 : \A l \in i .. i + j - 1 : s[l] = "P"})

Same(s, t) ==
    LET bytes == Decode(s)
    IN  Max({n \in 0 .. Min({Len(bytes), Len(t)}) : Upto(bytes, n) = Upto(t, n)})

\* The last id boundary inside the equal bytes.
Boundary(s, t) ==
    LET same == Same(s, t)
    IN  Max({k \in 0 .. Len(s) : Offset(s, k) <= same})

\* Back to the end of an added token that does not open or fill an image.
StepBack(s, k) == Max({j \in 0 .. k : j = 0 \/ s[j] \in Added \ {"V", "P"}})

\* The runs among the first k ids that are not this request's images.
BadRuns(s, k, pads) ==
    {i \in Runs(s) : i <= k /\ LET nth == Cardinality({j \in Runs(s) : j <= i})
                               IN  nth > Len(pads) \/ RunLen(s, i) # pads[nth]}

\* The whole transcript matched and the text does not go on inside a character.
Whole(s, t) == Boundary(s, t) = Len(s) /\ (Same(s, t) < Len(t) => t[Same(s, t) + 1] # "C")

\* cut: the reusable number of ids.
Cut(s, t, pads) ==
    LET RECURSIVE from(_, _)
        from(k, whole) ==
            IF whole /\ k > 0 /\ s[k] \in {"V", "P"} THEN from(k - 1, FALSE)
            ELSE LET j == IF whole THEN k ELSE StepBack(s, k)
                 IN  IF BadRuns(s, j, pads) = {} THEN j
                     ELSE from(Min(BadRuns(s, j, pads)) - 1, FALSE)
    IN  from(Boundary(s, t), Whole(s, t))

\* encode_spliced: the reused text holds the images the reused ids hold.
Spans(t) == Cardinality(Places({<<"V", "P", "W">>}, t))
SpansFit(s, k, t, pads) ==
    LET images == Cardinality({i \in Runs(s) : i <= k})
    IN  Spans(Upto(t, Offset(s, k))) = images /\ (pads = NoImages => images = 0)

-----------------------------------------------------------------------------
Init == /\ ids \in Transcripts /\ prompt \in Prompts
        /\ hit = 0 /\ phase = "asked"

Splice == /\ phase = "asked" /\ phase' = "answered"
          /\ LET k == Cut(ids, prompt.text, prompt.pads)
             IN  hit' = IF SpansFit(ids, k, prompt.text, prompt.pads) THEN k ELSE 0
          /\ UNCHANGED <<ids, prompt>>

Next == Splice

Spec == Init /\ [][Next]_vars

-----------------------------------------------------------------------------
Reused == Upto(ids, hit)
Fresh  == From(prompt.text, Offset(ids, hit) + 1)

\* The reused ids are the front of the text, to the byte, and the text behind
\* them begins with a character.
ReusedIsText == /\ Decode(Reused) \o Fresh = prompt.text
                /\ hit > 0 /\ Fresh # <<>> => Fresh[1] # "C"

\* The images of the reused ids are the first ones of the request, with their
\* number of pads, and the rest of the text holds the other ones: the engine
\* gets one run of pads per image.
ImagesInStep ==
    LET n == Cardinality(Runs(Reused))
    IN  /\ n <= Len(prompt.pads)
        /\ \A i \in Runs(Reused) :
              RunLen(Reused, i) = prompt.pads[Cardinality({j \in Runs(Reused) : j <= i})]
        /\ prompt.pads # NoImages => Spans(Fresh) = Len(prompt.pads) - n

\* The next id is not decided by the reused ones: they end behind an added
\* token, where encode would begin anew, or with the whole transcript.
EndsClean == hit = 0 \/ hit = Len(ids) \/ ids[hit] \in Added \ {"V", "P"}

\* Nothing longer could have been reused: the hit is the longest prefix of
\* the transcript that has all of this.
Reusable(k) ==
    /\ Offset(ids, k) <= Same(ids, prompt.text)
    /\ BadRuns(ids, k, prompt.pads) = {}
    /\ \/ ids[k] \in Added \ {"V", "P"}
       \/ k = Len(ids) /\ Whole(ids, prompt.text) /\ ids[k] \notin {"V", "P"}
LongestReuse ==
    phase = "answered" =>
        LET k == Max({0} \union {j \in DOMAIN ids : Reusable(j)})
        IN  hit \in {0, k} /\ (SpansFit(ids, k, prompt.text, prompt.pads) => hit = k)
=============================================================================
