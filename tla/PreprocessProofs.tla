-------------------------- MODULE PreprocessProofs --------------------------
(***************************************************************************)
(* Proofs about the preprocess handler, for requests of any length and any *)
(* window size and overlap: it loses no word, emits no redundant chunk,    *)
(* and computes the windows chunk_words is documented by.                  *)
(***************************************************************************)
EXTENDS Preprocess, TLAPS

Chunk == [item : Nat, start : Nat, end : Nat]

TypeOK ==
  /\ \E n \in Nat : words \in [1..n -> Nat]
  /\ size \in Int /\ overlap \in Int
  /\ item \in Nat \ {0} /\ start \in Nat
  /\ chunks \in Seq(Chunk)
  /\ outcome \in Outcomes

Covered(i, w) == \E c \in Made : c.item = i /\ c.start <= w /\ w < c.end

\* Behind the loops: finished items are covered, the current one up to the
\* end of its last chunk, which is start + overlap once there is one.
BehindIsCovered ==
  /\ \A i \in DOMAIN words : i < item => \A w \in 0..(words[i] - 1) : Covered(i, w)
  /\ start > 0 =>
       /\ item \in DOMAIN words /\ Legal
       /\ start + overlap < words[item]
       /\ \A w \in 0..(start + overlap - 1) : Covered(item, w)
  /\ outcome = "ok" => item \notin DOMAIN words

\* The chunks of the current item all start before the next one and end where
\* the last one does, or before.
AheadIsFresh ==
  /\ \A c \in Made : c.item <= item
  /\ \A c \in Made : c.item = item =>
       start > 0 /\ c.start < start /\ c.end <= start + overlap

\* No chunk lies within another one.
NoneWithin == \A c, d \in Made : Within(c, d) => c = d

LoopInv == TypeOK /\ BehindIsCovered /\ AheadIsFresh /\ NoneWithin /\ InTextOrder

\* What has been made, after one chunk more.
LEMMA MadeMore ==
  ASSUME chunks \in Seq(Chunk), NEW c \in Chunk, chunks' = Append(chunks, c)
  PROVE  /\ Made' = Made \cup {c} /\ chunks' \in Seq(Chunk) /\ Made \subseteq Chunk
         /\ DOMAIN chunks' = 1..(Len(chunks) + 1) /\ DOMAIN chunks = 1..Len(chunks)
         /\ Len(chunks) \in Nat /\ chunks'[Len(chunks) + 1] = c
         /\ \A k \in DOMAIN chunks : chunks'[k] = chunks[k] /\ chunks[k] \in Made
<1>1. /\ DOMAIN chunks' = 1..(Len(chunks) + 1) /\ DOMAIN chunks = 1..Len(chunks)
      /\ Len(chunks) \in Nat /\ chunks'[Len(chunks) + 1] = c
      /\ \A k \in DOMAIN chunks : chunks'[k] = chunks[k] /\ chunks[k] \in Made
      /\ chunks' \in Seq(Chunk) /\ Made \subseteq Chunk
  BY DEF Made
<1>2. DOMAIN chunks' = DOMAIN chunks \cup {Len(chunks) + 1}
  BY <1>1
<1>3. Made' = Made \cup {c}
  BY <1>1, <1>2 DEF Made
<1> QED  BY <1>1, <1>3

\* What has been made has the type of a chunk.
LEMMA MadeType == ASSUME chunks \in Seq(Chunk) PROVE Made \subseteq Chunk
  BY DEF Made

\* The handler starts with nothing chunked, so the invariant holds.
LEMMA LoopInvInit == Init => LoopInv
<1> SUFFICES ASSUME Init PROVE LoopInv
  OBVIOUS
<1>1. \E n \in Nat : words \in [1..n -> Nat]
  <2> PICK n \in 0..MaxItems : words \in [1..n -> 0..MaxWords]
    BY DEF Init, Requests
  <2> QED  BY PreprocessAssumption
<1>2. size \in Int /\ overlap \in Int
  BY PreprocessAssumption DEF Init, EffectiveSize, EffectiveOverlap
<1> QED
  BY <1>1, <1>2
     DEF Init, LoopInv, TypeOK, Outcomes, BehindIsCovered, AheadIsFresh, NoneWithin, InTextOrder,
         Made

\* One turn of the generator keeps the invariant.
LEMMA YieldInv == ASSUME LoopInv, YieldChunk PROVE LoopInv'
<1> DEFINE end == Shorter(start + size, words[item])
           c0  == [item |-> item, start |-> start, end |-> end]
<1>1. PICK n \in Nat : words \in [1..n -> Nat]
  BY DEF LoopInv, TypeOK
<1>2. /\ item \in 1..n /\ words[item] \in Nat /\ words[item] > 0 /\ start \in Nat
      /\ size \in Int /\ overlap \in Int /\ size > 0 /\ overlap >= 0 /\ overlap < size
      /\ chunks \in Seq(Chunk) /\ chunks' = Append(chunks, c0)
      /\ UNCHANGED <<words, size, overlap, outcome>> /\ outcome = "running"
  BY <1>1 DEF YieldChunk, LoopInv, TypeOK, Legal, request
<1>3. /\ start < words[item]
      /\ start > 0 => start + overlap < words[item]
  BY <1>1, <1>2 DEF LoopInv, BehindIsCovered
<1>4. /\ end \in Nat /\ start < end /\ end <= words[item]
      /\ start > 0 => start + overlap < end
      /\ end < words[item] => end = start + size
  BY <1>2, <1>3 DEF Shorter
<1>5. \/ end >= words[item] /\ item' = item + 1 /\ start' = 0
      \/ end < words[item] /\ item' = item /\ start' = end - overlap /\ start' > start
  BY <1>2, <1>4 DEF YieldChunk
<1> HIDE DEF end
<1>6. c0 \in Chunk /\ c0.item = item /\ c0.start = start /\ c0.end = end
  BY <1>2, <1>4 DEF Chunk
<1> HIDE DEF c0
<1>0. Made' = Made \cup {c0} /\ chunks' \in Seq(Chunk) /\ Made \subseteq Chunk
  BY <1>2, <1>6, MadeMore
<1>7. TypeOK'
  <2>1. item' \in Nat \ {0} /\ start' \in Nat
    BY <1>2, <1>4, <1>5
  <2> QED  BY <1>0, <1>2, <2>1 DEF LoopInv, TypeOK
<1>8. AheadIsFresh'
  BY <1>0, <1>2, <1>4, <1>5, <1>6 DEF LoopInv, AheadIsFresh, Chunk
<1>9. BehindIsCovered'
  <2> PICK i \in Nat, m \in Nat, last \in Nat : i = item /\ m = start /\ last = end
    BY <1>2, <1>4
  <2>1. \A j, w : Covered(j, w) => Covered(j, w)'
    BY <1>0 DEF Covered
  <2>2. \A w \in m..(last - 1) : Covered(i, w)'
    BY <1>0, <1>2, <1>4, <1>6 DEF Covered
  <2>3. \A w \in 0..(last - 1) : Covered(i, w)'
    <3> SUFFICES ASSUME NEW w \in 0..(last - 1), w < m PROVE Covered(i, w)'
      BY <2>2
    <3>1. Covered(item, w)
      BY <1>2 DEF LoopInv, BehindIsCovered
    <3> QED  BY <2>1, <3>1
  <2>4. \A j \in DOMAIN words : j < i => \A w \in 0..(words[j] - 1) : Covered(j, w)'
    BY <2>1 DEF LoopInv, BehindIsCovered
  <2>5. CASE end >= words[item] /\ item' = item + 1 /\ start' = 0
    <3>1. last = words[i]
      BY <1>2, <1>4, <2>5
    <3>2. \A j \in DOMAIN words : j < i + 1 => \A w \in 0..(words[j] - 1) : Covered(j, w)'
      BY <1>1, <1>2, <2>3, <2>4, <3>1
    <3> QED  BY <1>1, <1>2, <2>5, <3>2 DEF BehindIsCovered
  <2>6. CASE end < words[item] /\ item' = item /\ start' = end - overlap /\ start' > start
    <3>1. start' + overlap' = last /\ item' \in DOMAIN words' /\ Legal' /\ last < words'[item']
      BY <1>1, <1>2, <1>4, <2>6 DEF Legal
    <3>2. (start + overlap - 1)' = last - 1
      BY <1>2, <1>4, <2>6
    <3>3. \A w : (\E c \in Made' : c.item = i /\ c.start <= w /\ w < c.end) => Covered(item, w)'
      BY <2>6 DEF Covered
    <3>4. \A w \in 0..(start + overlap - 1)' : Covered(item, w)'
      BY <2>3, <3>2, <3>3 DEF Covered
    <3> QED  BY <1>2, <2>4, <2>6, <3>1, <3>4 DEF BehindIsCovered
  <2> QED  BY <1>5, <2>5, <2>6
<1>10. NoneWithin'
  <2>1. \A c \in Made : c.item = item => c.start < start /\ c.end < end
    BY <1>0, <1>2, <1>4 DEF LoopInv, AheadIsFresh, Chunk
  <2> QED  BY <1>0, <1>2, <1>4, <1>6, <2>1 DEF LoopInv, NoneWithin, Within, Chunk
<1>11. InTextOrder'
  <2>1. \A c \in Made : Before(c, c0)
    BY <1>0, <1>2, <1>6 DEF LoopInv, AheadIsFresh, Before, Chunk
  <2> SUFFICES ASSUME NEW j \in DOMAIN chunks', NEW k \in DOMAIN chunks', j < k
               PROVE  Before(chunks'[j], chunks'[k])
    BY DEF InTextOrder, Before
  <2>2. CASE k \in DOMAIN chunks
    <3>1. j \in DOMAIN chunks /\ chunks'[j] = chunks[j] /\ chunks'[k] = chunks[k]
      BY <1>2, <1>6, <2>2, MadeMore
    <3> QED  BY <2>2, <3>1 DEF LoopInv, InTextOrder
  <2>3. CASE k \notin DOMAIN chunks
    <3>1. chunks'[k] = c0 /\ j \in DOMAIN chunks /\ chunks'[j] = chunks[j] /\ chunks[j] \in Made
      BY <1>2, <1>6, <2>3, MadeMore
    <3> QED  BY <2>1, <3>1
  <2> QED  BY <2>2, <2>3
<1> QED  BY <1>7, <1>8, <1>9, <1>10, <1>11 DEF LoopInv

\* So does every other step.
LEMMA OtherStepsInv ==
  ASSUME LoopInv, Refuse \/ SkipBlank \/ Respond \/ UNCHANGED vars PROVE LoopInv'
<1>1. CASE Refuse \/ Respond \/ UNCHANGED vars
  <2>1. /\ UNCHANGED <<words, size, overlap, item, start, chunks>>
        /\ \/ outcome' = outcome \/ outcome' = "refused"
           \/ outcome' = "ok" /\ item \notin DOMAIN words
    BY <1>1 DEF Refuse, Respond, vars, request
  <2>2. TypeOK' /\ AheadIsFresh' /\ NoneWithin' /\ InTextOrder'
    BY <2>1 DEF LoopInv, TypeOK, Outcomes, AheadIsFresh, NoneWithin, InTextOrder, Made
  <2>3. BehindIsCovered'
    BY <2>1 DEF LoopInv, BehindIsCovered, Covered, Legal, Made
  <2> QED  BY <2>2, <2>3 DEF LoopInv
<1>2. CASE SkipBlank
  <2>1. /\ item \in DOMAIN words /\ words[item] = 0 /\ item' = item + 1
        /\ UNCHANGED <<words, size, overlap, start, chunks, outcome>>
        /\ outcome = "running" /\ item \in Nat /\ start \in Nat /\ overlap \in Int
        /\ \A c \in Made : c \in Chunk
    BY <1>2, MadeType DEF SkipBlank, LoopInv, TypeOK, request
  <2>2. PICK n \in Nat : words \in [1..n -> Nat]
    BY DEF LoopInv, TypeOK
  <2>3. ~(start > 0)
    BY <2>1 DEF LoopInv, BehindIsCovered, Legal
  <2>4. Made' = Made /\ TypeOK' /\ NoneWithin' /\ InTextOrder'
    <3>1. Made' = Made
      BY <2>1 DEF Made
    <3>2. TypeOK'
      BY <2>1 DEF LoopInv, TypeOK
    <3>3. NoneWithin'
      BY <3>1 DEF LoopInv, NoneWithin
    <3>4. InTextOrder'
      BY <2>1 DEF LoopInv, InTextOrder
    <3> QED  BY <3>1, <3>2, <3>3, <3>4
  <2>5. AheadIsFresh'
    BY <2>1, <2>3, <2>4 DEF LoopInv, AheadIsFresh, Chunk
  <2>6. BehindIsCovered'
    BY <2>1, <2>2, <2>3, <2>4 DEF LoopInv, BehindIsCovered, Covered
  <2> QED  BY <2>4, <2>5, <2>6 DEF LoopInv
<1> QED  BY <1>1, <1>2

\* The invariant of the handler's two loops.
THEOREM LoopInvariant == Spec => []LoopInv
<1>1. ASSUME LoopInv, [Next]_vars PROVE LoopInv'
  BY <1>1, YieldInv, OtherStepsInv DEF Next
<1> QED  BY <1>1, LoopInvInit, PTL DEF Spec

\* A request answered with 200 has lost no word of any text.
THEOREM NoWordLost == Spec => []EveryWordChunked
<1>1. LoopInv => EveryWordChunked
  <2> SUFFICES ASSUME LoopInv, outcome = "ok", NEW i \in DOMAIN words,
                      NEW w \in 0..(words[i] - 1)
               PROVE  Covered(i, w)
    BY DEF EveryWordChunked, Covered
  <2>1. PICK n \in Nat : words \in [1..n -> Nat]
    BY DEF LoopInv, TypeOK
  <2>2. item \notin 1..n /\ item \in Nat \ {0} /\ i \in 1..n
    BY <2>1 DEF LoopInv, BehindIsCovered, TypeOK
  <2>3. i < item
    BY <2>2
  <2> QED  BY <2>3 DEF LoopInv, BehindIsCovered
<1> QED  BY <1>1, LoopInvariant, PTL

\* No chunk repeats another one of its item, or is contained in it.
THEOREM NoChunkRedundant == Spec => []NoRedundantChunk
<1>1. LoopInv => NoRedundantChunk
  <2> SUFFICES ASSUME LoopInv, NEW j \in DOMAIN chunks, NEW k \in DOMAIN chunks,
                      Within(chunks[j], chunks[k])
               PROVE  j = k
    BY DEF NoRedundantChunk
  <2>1. /\ chunks[j] \in Made /\ chunks[k] \in Made
        /\ Made \subseteq Chunk /\ j \in Nat /\ k \in Nat
    BY MadeType DEF LoopInv, TypeOK, Made
  <2>2. chunks[j] = chunks[k]
    BY <2>1 DEF LoopInv, NoneWithin
  <2>3. ~Before(chunks[j], chunks[k]) /\ ~Before(chunks[k], chunks[j])
    BY <2>1, <2>2 DEF Before, Chunk
  <2> QED  BY <2>1, <2>3 DEF LoopInv, InTextOrder
<1> QED  BY <1>1, LoopInvariant, PTL
-----------------------------------------------------------------------------
\* The loops compute the windows of chunk_words one after the other.
Step == size - overlap

Window(k, n) == [start |-> k * Step, end |-> Shorter(k * Step + size, n)]

\* The intervals of the chunks of item i.
Cut(S, i) == {[start |-> c.start, end |-> c.end] : c \in {d \in S : d.item = i}}

WindowInv ==
  /\ \A i \in DOMAIN words :
       i < item => Cut(Made, i) = IF words[i] = 0 THEN {} ELSE Windows(words[i])
  /\ item \in DOMAIN words =>
       \E k \in Nat : /\ start = k * Step
                      /\ Cut(Made, item) = {Window(j, words[item]) : j \in 0..(k - 1)}
                      /\ k > 0 => Legal /\ (k - 1) * Step + size < words[item]

\* Adding one to a factor adds the other factor to the product.
LEMMA OneWindowMore == \A a, b \in Int : (a + 1) * b = a * b + b /\ a * b \in Int
  OBVIOUS

\* Multiplying by a non-negative number keeps the order.
LEMMA WindowOrder == \A a, b, c \in Int : a <= b /\ c >= 0 => a * c <= b * c
  OBVIOUS

\* A chunk more is an interval more of its item, and of no other.
LEMMA CutMore ==
  ASSUME NEW S, NEW c, NEW i
  PROVE  /\ c.item = i => Cut(S \cup {c}, i) = Cut(S, i) \cup {[start |-> c.start, end |-> c.end]}
         /\ c.item # i => Cut(S \cup {c}, i) = Cut(S, i)
  BY DEF Cut

\* Window k is the last one when it reaches the end of the text and the window
\* before it did not: then the windows of chunk_words are 0 to k.
LEMMA LastWindow ==
  ASSUME size \in Int, overlap \in Int, Legal, NEW n \in Nat \ {0}, NEW k \in Nat,
         k * Step + size >= n, k > 0 => (k - 1) * Step + size < n
  PROVE  Windows(n) = {Window(j, n) : j \in 0..k}
  <1> DEFINE Used == {j \in 0..n : j = 0 \/ (j - 1) * Step + size < n}
  <1>1. Step \in Int /\ Step >= 1 /\ size >= 1
    BY DEF Legal, Step
  <1>2. ASSUME NEW j \in 0..k PROVE j \in Used
    <2>1. CASE j = 0
      BY <2>1
    <2>2. CASE j > 0
      <3>1. (j - 1) * Step <= (k - 1) * Step
        BY <1>1, <2>2, WindowOrder
      <3>2. /\ (j - 1) * Step \in Int /\ (k - 1) * Step \in Int
            /\ (k - 1) * Step + size < n
        BY <1>1, <2>2, OneWindowMore
      <3>3. (j - 1) * Step + size < n
        BY <1>1, <3>1, <3>2
      <3>4. j - 1 <= (j - 1) * Step
        <4>1. 1 * (j - 1) <= Step * (j - 1)
          BY <1>1, <2>2, WindowOrder
        <4> QED  BY <1>1, <4>1
      <3>5. j <= n
        BY <1>1, <3>2, <3>3, <3>4
      <3> QED  BY <2>2, <3>3, <3>5
    <2> QED  BY <2>1, <2>2
  <1>3. ASSUME NEW j \in Used PROVE j \in 0..k
    <2>1. CASE j > k
      <3>1. k * Step <= (j - 1) * Step
        BY <1>1, <2>1, WindowOrder
      <3>2. k * Step \in Int /\ (j - 1) * Step \in Int
        BY <1>1, OneWindowMore
      <3> QED  BY <1>1, <2>1, <3>1, <3>2
    <2> QED  BY <2>1
  <1>4. Used = 0..k
    BY <1>2, <1>3
  <1>5. Windows(n) = {Window(j, n) : j \in Used}
    BY DEF Windows, Window, Step
  <1> QED  BY <1>4, <1>5

\* Nothing is cut when the handler starts.
LEMMA WindowInit == Init => WindowInv
  <1> SUFFICES ASSUME Init PROVE WindowInv
    OBVIOUS
  <1>1. LoopInv
    BY LoopInvInit
  <1>2. item = 1 /\ start = 0 /\ Made = {}
    BY DEF Init, Made
  <1>3. \A i \in DOMAIN words : ~(i < item)
    BY <1>1, <1>2 DEF LoopInv, TypeOK
  <1>4. Step \in Int
    BY <1>1 DEF LoopInv, TypeOK, Step
  <1>5. start = 0 * Step
    BY <1>2, <1>4
  <1>6. Cut(Made, item) = {Window(j, words[item]) : j \in 0..(0 - 1)}
    BY <1>2 DEF Cut
  <1> QED  BY <1>3, <1>5, <1>6 DEF WindowInv

\* One turn of the generator cuts the next window.
LEMMA YieldWindow == ASSUME LoopInv, WindowInv, YieldChunk PROVE WindowInv'
  <1> DEFINE end == Shorter(start + size, words[item])
             c0  == [item |-> item, start |-> start, end |-> end]
  <1>1. PICK n \in Nat : words \in [1..n -> Nat]
    BY DEF LoopInv, TypeOK
  <1>2. /\ item \in 1..n /\ words[item] \in Nat \ {0} /\ start \in Nat
        /\ size \in Int /\ overlap \in Int /\ Legal
        /\ chunks \in Seq(Chunk) /\ chunks' = Append(chunks, c0)
        /\ UNCHANGED <<words, size, overlap>>
    BY <1>1 DEF YieldChunk, LoopInv, TypeOK, request
  <1>3. /\ Step \in Int /\ Step' = Step /\ size > 0 /\ overlap >= 0 /\ overlap < size
        /\ Legal'
    BY <1>2 DEF Legal, Step
  <1>0. Made' = Made \cup {c0} /\ Made \subseteq Chunk /\ c0.item = item
    <2>1. start < words[item]
      BY <1>1, <1>2, <1>3 DEF LoopInv, BehindIsCovered
    <2>2. end \in Nat
      BY <1>2, <1>3, <2>1 DEF Shorter
    <2> HIDE DEF end
    <2>3. c0 \in Chunk
      BY <1>2, <2>2 DEF Chunk
    <2>4. c0.item = item
      OBVIOUS
    <2> HIDE DEF c0
    <2> QED  BY <1>2, <2>3, <2>4, MadeMore
  <1>4. PICK k \in Nat : /\ start = k * Step
                         /\ Cut(Made, item) = {Window(j, words[item]) : j \in 0..(k - 1)}
                         /\ k > 0 => Legal /\ (k - 1) * Step + size < words[item]
    BY <1>1, <1>2 DEF WindowInv
  <1>5. /\ Cut(Made', item) = {Window(j, words[item]) : j \in 0..k}
        /\ \A i : i # item => Cut(Made', i) = Cut(Made, i)
    <2>1. c0.item = item /\ [start |-> c0.start, end |-> c0.end] = Window(k, words[item])
      BY <1>4 DEF Window
    <2> HIDE DEF c0
    <2>2. Cut(Made', item) = Cut(Made, item) \cup {Window(k, words[item])}
      <3>1. Cut(Made \cup {c0}, item)
              = Cut(Made, item) \cup {[start |-> c0.start, end |-> c0.end]}
        BY <2>1 DEF Cut
      <3>2. Cut(Made', item) = Cut(Made \cup {c0}, item)
        BY <1>0
      <3> QED  BY <2>1, <3>1, <3>2, Zenon
    <2>3. 0..k = (0..(k - 1)) \cup {k}
      OBVIOUS
    <2>4. \A i : i # item => Cut(Made', i) = Cut(Made, i)
      BY <1>0, <2>1, CutMore
    <2> QED  BY <1>4, <2>2, <2>3, <2>4
  <1>7. \A m : Windows(m)' = Windows(m)
    BY <1>2 DEF Windows
  <1>8. ASSUME NEW i \in DOMAIN words, i < item
        PROVE  Cut(Made', i) = IF words[i] = 0 THEN {} ELSE Windows(words[i])
    <2>1. i # item
      BY <1>1, <1>2, <1>8
    <2> QED  BY <1>5, <1>8, <2>1 DEF WindowInv
  <1>9. CASE end >= words[item]
    <2>1. item' = item + 1 /\ start' = 0
      BY <1>9 DEF YieldChunk
    <2>2. k * Step + size >= words[item]
      BY <1>2, <1>3, <1>4, <1>9 DEF Shorter
    <2>3. Cut(Made', item) = Windows(words[item])
      BY <1>2, <1>4, <1>5, <2>2, LastWindow
    <2>4. ASSUME NEW i \in DOMAIN words', i < item'
          PROVE  Cut(Made', i) = IF words'[i] = 0 THEN {} ELSE Windows(words'[i])
      <3>1. i = item \/ i < item
        BY <1>1, <1>2, <2>1, <2>4
      <3> QED  BY <1>2, <1>8, <2>3, <2>4, <3>1
    <2>5. Cut(Made', item') = {}
      <3>1. \A c \in Made' : c.item <= item /\ c.item \in Nat
        BY <1>0, <1>2 DEF LoopInv, TypeOK, AheadIsFresh, Chunk
      <3> QED  BY <1>2, <2>1, <3>1 DEF Cut
    <2>6. start' = 0 * Step' /\ {Window(j, words[item])' : j \in 0..(0 - 1)} = {}
      BY <1>3, <2>1
    <2> QED  BY <1>7, <2>4, <2>5, <2>6 DEF WindowInv
  <1>10. CASE end < words[item]
    <2>1. item' = item /\ start' = end - overlap /\ end = start + size
      BY <1>2, <1>3, <1>10 DEF YieldChunk, Shorter
    <2>2. start' = (k + 1) * Step
      <3>1. (k + 1) * Step = k * Step + Step
        BY <1>3, OneWindowMore
      <3> QED  BY <1>2, <1>4, <2>1, <3>1 DEF Step
    <2>3. (k + 1 - 1) * Step + size < words[item] /\ k + 1 \in Nat /\ k + 1 - 1 = k
      BY <1>4, <1>10, <2>1
    <2>4. /\ words'[item'] = words[item]
          /\ \A j : Window(j, words[item])' = Window(j, words[item])
      BY <1>2, <2>1, Zenon DEF Window, Step, Shorter
    <2>5. Cut(Made, item)' = {Window(j, words[item])' : j \in 0..(k + 1 - 1)}
      <3>1. {Window(j, words[item])' : j \in 0..(k + 1 - 1)} = {Window(j, words[item]) : j \in 0..k}
        BY <2>3, <2>4
      <3> QED  BY <1>5, <2>1, <3>1 DEF Cut
    <2>6. k + 1 > 0 => Legal' /\ (k + 1 - 1) * Step' + size' < words'[item']
      BY <1>2, <1>3, <2>3, <2>4
    <2>7. start' = (k + 1) * Step'
      BY <1>3, <2>2
    <2>8. (\E q \in Nat : /\ start = q * Step
                          /\ Cut(Made, item) = {Window(j, words[item]) : j \in 0..(q - 1)}
                          /\ q > 0 => Legal /\ (q - 1) * Step + size < words[item])'
      BY <2>3, <2>5, <2>6, <2>7
    <2>9. (\A i \in DOMAIN words :
             i < item => Cut(Made, i) = IF words[i] = 0 THEN {} ELSE Windows(words[i]))'
      BY <1>2, <1>7, <1>8, <2>1
    <2> QED  BY <2>8, <2>9 DEF WindowInv
  <1>11. end >= words[item] \/ end < words[item]
    BY <1>2 DEF Shorter
  <1> QED  BY <1>9, <1>10, <1>11

\* The other steps cut nothing; a blank item has no window.
LEMMA OtherStepsWindow ==
  ASSUME LoopInv, WindowInv, Refuse \/ SkipBlank \/ Respond \/ UNCHANGED vars PROVE WindowInv'
  <1>1. CASE Refuse \/ Respond \/ UNCHANGED vars
    <2>1. UNCHANGED <<words, size, overlap, item, start, chunks>>
      BY <1>1 DEF Refuse, Respond, vars, request
    <2>2. Made' = Made /\ Cut(Made, item)' = Cut(Made, item)
      BY <2>1 DEF Made, Cut
    <2> QED  BY <2>1, <2>2 DEF WindowInv, Windows, Window, Step, Legal
  <1>2. CASE SkipBlank
    <2>1. /\ item \in DOMAIN words /\ words[item] = 0 /\ item' = item + 1
          /\ UNCHANGED <<words, size, overlap, start, chunks>>
          /\ item \in Nat /\ start \in Nat /\ size \in Int /\ overlap \in Int
          /\ \A c \in Made : c.item \in Nat /\ c.item <= item
      BY <1>2, MadeType DEF SkipBlank, LoopInv, TypeOK, request, AheadIsFresh, Chunk
    <2>2. PICK n \in Nat : words \in [1..n -> Nat]
      BY DEF LoopInv, TypeOK
    <2>3. start = 0
      BY <2>1 DEF LoopInv, BehindIsCovered, Legal
    <2>4. Cut(Made, item) = {} /\ Cut(Made, item + 1) = {}
      BY <2>1, <2>3 DEF LoopInv, AheadIsFresh, Cut
    <2>5. ASSUME NEW i \in DOMAIN words', i < item'
          PROVE  Cut(Made', i) = IF words'[i] = 0 THEN {} ELSE Windows(words'[i])
      <3>1. i = item \/ i < item
        BY <2>1, <2>2, <2>5
      <3>2. Made' = Made
        BY <2>1 DEF Made
      <3> QED  BY <2>1, <2>4, <2>5, <3>1, <3>2 DEF WindowInv
    <2>6. \A m : Windows(m)' = Windows(m)
      BY <2>1 DEF Windows
    <2>0. Made' = Made
      BY <2>1 DEF Made
    <2>7. start' = 0 * Step' /\ Cut(Made', item') = {}
      BY <2>0, <2>1, <2>3, <2>4 DEF Step
    <2>8. {Window(j, words[item])' : j \in 0..(0 - 1)} = {}
      OBVIOUS
    <2> QED  BY <2>5, <2>6, <2>7, <2>8 DEF WindowInv
  <1> QED  BY <1>1, <1>2

\* The loop with its early return lists exactly the windows chunk_words is
\* documented by, each once, item by item and from the first to the last: for
\* every text, window size and overlap.
THEOREM WindowsExact == Spec => []ChunksAreWindows
  <1>1. LoopInv /\ WindowInv /\ [Next]_vars => WindowInv'
    BY YieldWindow, OtherStepsWindow DEF Next
  <1>2. LoopInv /\ WindowInv => ChunksAreWindows
    <2> SUFFICES ASSUME LoopInv, WindowInv, outcome = "ok", NEW i \in DOMAIN words
                 PROVE  Cut(Made, i) = IF words[i] = 0 THEN {} ELSE Windows(words[i])
      BY DEF ChunksAreWindows, Cut, LoopInv
    <2>1. PICK n \in Nat : words \in [1..n -> Nat]
      BY DEF LoopInv, TypeOK
    <2>2. item \notin 1..n /\ item \in Nat \ {0} /\ i \in 1..n
      BY <2>1 DEF LoopInv, BehindIsCovered, TypeOK
    <2>3. i < item
      BY <2>2
    <2> QED  BY <2>3 DEF WindowInv
  <1> QED  BY <1>1, <1>2, WindowInit, LoopInvariant, PTL DEF Spec
=============================================================================
