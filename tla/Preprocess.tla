----------------------------- MODULE Preprocess -----------------------------
(***************************************************************************)
(* The preprocess service's handler, POST /internal/preprocess/text, with  *)
(* chunk_words (domain/chunking.py) as the generator it drives: every item *)
(* of the request is cut into windows of size words, each overlapping the  *)
(* one before it. A text is abstracted to its number of words, a chunk to  *)
(* the half-open interval of word positions it covers.                     *)
(***************************************************************************)
EXTENDS Integers, Sequences

CONSTANTS
  MaxItems, MaxWords,  \* bounds on a request
  Given,               \* the integers clients put in the two parameters
  NotGiven,            \* a parameter the request leaves out
  DefaultSize, DefaultOverlap  \* settings.default_chunk_size_words, ..overlap_words

ASSUME PreprocessAssumption ==
  /\ MaxItems \in Nat /\ MaxWords \in Nat
  /\ Given \subseteq Int /\ NotGiven \notin Int
  /\ DefaultSize \in Int /\ DefaultOverlap \in Int

VARIABLES
  words,          \* the words of each item once its text is normalized
  size, overlap,  \* the parameters in force
  item, start,    \* the loops: current item, first word of the next chunk
  chunks,         \* the list of the chunks so far
  outcome         \* "running", "ok" (200) or "refused" (400)

request == <<words, size, overlap>>
vars    == <<request, item, start, chunks, outcome>>

Outcomes == {"running", "ok", "refused"}

\* An absent size and a size of 0 both mean the default ("or").
EffectiveSize(given) == IF given \in {NotGiven, 0} THEN DefaultSize ELSE given

\* Only an absent overlap means the default ("is not None").
EffectiveOverlap(given) == IF given = NotGiven THEN DefaultOverlap ELSE given

Requests == UNION {[1..n -> 0..MaxWords] : n \in 0..MaxItems}

Init ==
  /\ words \in Requests
  /\ size \in {EffectiveSize(given) : given \in Given \cup {NotGiven}}
  /\ overlap \in {EffectiveOverlap(given) : given \in Given \cup {NotGiven}}
  /\ item = 1
  /\ start = 0
  /\ chunks = <<>>
  /\ outcome = "running"

\* Mutant: an overlap as large as the window is let through, and the loop makes
\* the same chunk for ever.
LegalUpToSize == size > 0 /\ overlap >= 0 /\ overlap <= size

Legal == size > 0 /\ overlap >= 0 /\ overlap < size

Refuse ==
  /\ outcome = "running"
  /\ \/ words = <<>>
     \/ item \in DOMAIN words /\ start = 0 /\ words[item] > 0 /\ ~Legal
  /\ outcome' = "refused"
  /\ UNCHANGED <<request, item, start, chunks>>

SkipBlank ==
  /\ outcome = "running"
  /\ item \in DOMAIN words /\ words[item] = 0
  /\ item' = item + 1
  /\ UNCHANGED <<request, start, chunks, outcome>>

Shorter(a, b) == IF a <= b THEN a ELSE b

\* Mutant: a last window that would be short is dropped.
YieldFullChunk ==
  /\ outcome = "running"
  /\ item \in DOMAIN words /\ words[item] > 0
  /\ Legal
  /\ LET end == start + size
     IN IF end > words[item]
        THEN item' = item + 1 /\ start' = 0 /\ UNCHANGED chunks
        ELSE /\ chunks' = Append(chunks, [item |-> item, start |-> start, end |-> end])
             /\ item' = item
             /\ start' = end - overlap
  /\ UNCHANGED <<request, outcome>>

\* Mutant: the generator only stops when the start runs past the text.
YieldPastEnd ==
  /\ outcome = "running"
  /\ item \in DOMAIN words /\ words[item] > 0
  /\ Legal
  /\ LET end == Shorter(start + size, words[item])
     IN /\ chunks' = Append(chunks, [item |-> item, start |-> start, end |-> end])
        /\ IF start + size - overlap >= words[item]
           THEN item' = item + 1 /\ start' = 0
           ELSE item' = item /\ start' = start + size - overlap
  /\ UNCHANGED <<request, outcome>>

\* Mutant: instead of stopping at the end of a text the generator passes over
\* windows that are short, and an overlap brings it back to the same one.
YieldNoShort ==
  /\ outcome = "running"
  /\ item \in DOMAIN words /\ words[item] > 0
  /\ Legal
  /\ LET end == Shorter(start + size, words[item])
     IN /\ chunks' = IF end - start = size
                     THEN Append(chunks, [item |-> item, start |-> start, end |-> end])
                     ELSE chunks
        /\ IF end - overlap >= words[item]
           THEN item' = item + 1 /\ start' = 0
           ELSE item' = item /\ start' = end - overlap
  /\ UNCHANGED <<request, outcome>>

\* One turn of the generator's loop.
YieldChunk ==
  /\ outcome = "running"
  /\ item \in DOMAIN words /\ words[item] > 0
  /\ Legal
  /\ LET end == Shorter(start + size, words[item])
     IN /\ chunks' = Append(chunks, [item |-> item, start |-> start, end |-> end])
        /\ IF end >= words[item]
           THEN item' = item + 1 /\ start' = 0
           ELSE item' = item /\ start' = end - overlap
  /\ UNCHANGED <<request, outcome>>

Respond ==
  /\ outcome = "running"
  /\ words # <<>> /\ item \notin DOMAIN words
  /\ outcome' = "ok"
  /\ UNCHANGED <<request, item, start, chunks>>

Next == Refuse \/ SkipBlank \/ YieldChunk \/ Respond

\* The handler is synchronous code: it runs until it is done.
Spec == Init /\ [][Next]_vars /\ WF_vars(Next)
-----------------------------------------------------------------------------
Made == {chunks[k] : k \in DOMAIN chunks}

\* No word of any text is lost: a request that is answered with 200 has every
\* word of every item in some chunk of it.
EveryWordChunked ==
  outcome = "ok" =>
    \A i \in DOMAIN words : \A w \in 0..(words[i] - 1) :
      \E c \in Made : c.item = i /\ c.start <= w /\ w < c.end

Within(c, d) == c.item = d.item /\ d.start <= c.start /\ c.end <= d.end

\* No chunk is embedded for nothing: none repeats another of its item or lies
\* within it (the short tail that the overlap alone would make is not emitted, and a
\* generator that stood still at overlap = size would repeat its chunk).
NoRedundantChunk == \A j, k \in DOMAIN chunks : Within(chunks[j], chunks[k]) => j = k

\* The windows chunk_words is documented by: start every size - overlap words,
\* and stop with the first window that reaches the end of the text.
Windows(n) ==
  {[start |-> k * (size - overlap), end |-> Shorter(k * (size - overlap) + size, n)] :
     k \in {j \in 0..n : j = 0 \/ (j - 1) * (size - overlap) + size < n}}

Before(c, d) == c.item < d.item \/ (c.item = d.item /\ c.start < d.start)

InTextOrder == \A j, k \in DOMAIN chunks : j < k => Before(chunks[j], chunks[k])

\* The loop computes exactly those windows, for every text of the request, and
\* lists each of them once, item by item and from the first to the last.
ChunksAreWindows ==
  outcome = "ok" =>
    /\ InTextOrder
    /\ \A i \in DOMAIN words :
         {[start |-> c.start, end |-> c.end] : c \in {d \in Made : d.item = i}}
           = IF words[i] = 0 THEN {} ELSE Windows(words[i])

\* The generator always comes to an end, whatever parameters are sent: the end of
\* the text, or a parameter check, stops it.
Terminates == <>(outcome # "running")
=============================================================================
