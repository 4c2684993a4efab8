-------------------------- MODULE OutputDrainProofs --------------------------
(***************************************************************************)
(* What a run promises of its output, for every limit, every length of the *)
(* chunks and of the pipes and any number of them.                         *)
(***************************************************************************)
EXTENDS OutputDrain, RecursionTheorems, SequenceTheorems, TLAPS

----------------------------------------------------------------------------
(* Size and Lines *)

LEMMA ChunkLemma ==
  /\ \A c \in Chunks : c.len \in Nat /\ c.len > 0 /\ c.len <= MaxLen /\ c.blank \in BOOLEAN
  /\ MaxLen \in Nat /\ MaxLen > 0 /\ NoChunk \notin Chunks
BY BoundsAssumption DEF Chunks, NoChunk

LEMMA SizeLemma ==
  ASSUME NEW x \in Seq(Chunks)
  PROVE  \E f \in [0..Len(x) -> Int] :
           /\ f = [n \in 0..Len(x) |-> IF n = 0 THEN 0 ELSE f[n - 1] + x[n].len]
           /\ Size(x) = f[Len(x)]
<1> DEFINE Solves(f) == f = [n \in 0..Len(x) |-> IF n = 0 THEN 0 ELSE f[n - 1] + x[n].len]
           op == [n \in 1..Len(x) |-> [u \in Int |-> u + x[n].len]]
<1>1. Len(x) \in Nat /\ \A n \in 1..Len(x) : x[n].len \in Int
  BY ChunkLemma
<1>2. op \in [1..Len(x) -> [Int -> Int]]
  BY <1>1
<1>3. PICK f : Recursion(f, Int, 0, Len(x), op)
  <2> HIDE DEF op
  <2>1. 0 \in Int /\ Len(x) \in Nat
    BY <1>1
  <2> QED
    BY <1>2, <2>1, RecursionSolved, Zenon
<1>4. Solves(f) /\ f \in [0..Len(x) -> Int]
  <2>1. f \in [0..Len(x) -> Int] /\ f[0] = 0
    BY <1>3 DEF Recursion
  <2>2. ASSUME NEW n \in 0..Len(x), n # 0
        PROVE  f[n] = f[n - 1] + x[n].len
    <3>1. n \in 1..Len(x) /\ n - 1 \in 0..Len(x) /\ f[n - 1] \in Int
      BY <1>1, <2>1, <2>2
    <3>2. f[n] = op[n][f[n - 1]]
      BY <1>3, <3>1 DEF Recursion
    <3> QED
      BY <3>1, <3>2
  <2> QED
    BY <1>1, <2>1, <2>2
<1> DEFINE g == CHOOSE h : Solves(h)
<1>5. Solves(g)
  BY <1>4
<1>6. Size(x) = g[Len(x)]
  BY DEF Size
<1> HIDE DEF g
<1>7. ASSUME NEW n \in 0..Len(x)
      PROVE  g[n] = f[n]
  <2>1. 0 \in 0..Len(x) /\ n \in Nat
    BY <1>1
  <2>2. g[0] = f[0]
    BY <1>4, <1>5, <2>1
  <2>3. ASSUME NEW k \in 1..n, g[k - 1] = f[k - 1]
        PROVE  g[k] = f[k]
    <3>1. k \in 0..Len(x) /\ k # 0
      BY <1>1
    <3> QED
      BY <1>4, <1>5, <2>3, <3>1
  <2> QED
    BY <2>1, <2>2, <2>3, RecursionUnique, Zenon
<1>8. g \in [0..Len(x) -> Int]
  BY <1>4, <1>5, <1>7
<1> QED
  BY <1>5, <1>6, <1>8

\* Text has as many characters as its chunks.
LEMMA SizeAppend ==
  /\ Size(<<>>) = 0
  /\ \A x \in Seq(Chunks), c \in Chunks : Size(Append(x, c)) = Size(x) + c.len
  /\ \A x \in Seq(Chunks) : Size(x) \in Int
<1>1. Size(<<>>) = 0
  <2> DEFINE x == <<>>
  <2>1. x \in Seq(Chunks) /\ Len(x) = 0
    OBVIOUS
  <2> HIDE DEF x
  <2>2. PICK f \in [0..Len(x) -> Int] :
          /\ f = [n \in 0..Len(x) |-> IF n = 0 THEN 0 ELSE f[n - 1] + x[n].len]
          /\ Size(x) = f[Len(x)]
    BY <2>1, SizeLemma
  <2>3. f[0] = 0 
    BY <2>1, <2>2
  <2>4. Size(x) = 0
    BY <2>1, <2>2, <2>3
  <2> QED
    BY <2>4 DEF x
<1>2. ASSUME NEW x \in Seq(Chunks), NEW c \in Chunks
      PROVE  Size(Append(x, c)) = Size(x) + c.len
  <2> DEFINE y == Append(x, c)
  <2>1. /\ y \in Seq(Chunks) /\ Len(y) = Len(x) + 1 /\ Len(x) \in Nat
        /\ y[Len(x) + 1] = c /\ \A k \in 1..Len(x) : y[k] = x[k]
    OBVIOUS
  <2> HIDE DEF y
  <2>2. PICK f \in [0..Len(x) -> Int] :
          /\ f = [n \in 0..Len(x) |-> IF n = 0 THEN 0 ELSE f[n - 1] + x[n].len]
          /\ Size(x) = f[Len(x)]
    BY SizeLemma
  <2>3. PICK g \in [0..Len(y) -> Int] :
          /\ g = [n \in 0..Len(y) |-> IF n = 0 THEN 0 ELSE g[n - 1] + y[n].len]
          /\ Size(y) = g[Len(y)]
    BY <2>1, SizeLemma
  <2>4. f[0] = g[0] /\ \A k \in 1..Len(x) : f[k - 1] = g[k - 1] => f[k] = g[k]
    BY <2>1, <2>2, <2>3
  <2>5. f[Len(x)] = g[Len(x)]
    BY <2>1, <2>4, RecursionUnique
  <2>6. g[Len(y)] = g[Len(x)] + c.len
    BY <2>1, <2>3
  <2> QED
    BY <2>2, <2>3, <2>5, <2>6 DEF y
<1>3. \A x \in Seq(Chunks) : Size(x) \in Int
  <2> TAKE x \in Seq(Chunks)
  <2>1. Len(x) \in 0..Len(x)
    OBVIOUS
  <2> QED
    BY <2>1, SizeLemma
<1> QED
  BY <1>1, <1>2, <1>3

LEMMA LinesLemma ==
  ASSUME NEW x \in Seq(Chunks)
  PROVE  \E f \in [0..Len(x) -> Seq(Chunks)] :
           /\ f = [n \in 0..Len(x) |->
                     IF n = 0 THEN <<>>
                     ELSE IF x[n].blank THEN f[n - 1] ELSE Append(f[n - 1], x[n])]
           /\ Lines(x) = f[Len(x)]
<1> DEFINE Solves(f) ==
             f = [n \in 0..Len(x) |->
                    IF n = 0 THEN <<>>
                    ELSE IF x[n].blank THEN f[n - 1] ELSE Append(f[n - 1], x[n])]
           op == [n \in 1..Len(x) |-> [u \in Seq(Chunks) |->
                    IF x[n].blank THEN u ELSE Append(u, x[n])]]
<1>1. Len(x) \in Nat /\ \A n \in 1..Len(x) : x[n] \in Chunks
  OBVIOUS
<1>2. op \in [1..Len(x) -> [Seq(Chunks) -> Seq(Chunks)]]
  <2>1. \A n \in 1..Len(x) : \A u \in Seq(Chunks) :
          (IF x[n].blank THEN u ELSE Append(u, x[n])) \in Seq(Chunks)
    BY <1>1
  <2> QED
    BY <2>1
<1>3. PICK f : Recursion(f, Seq(Chunks), <<>>, Len(x), op)
  <2> HIDE DEF op
  <2>1. <<>> \in Seq(Chunks) /\ Len(x) \in Nat
    BY <1>1
  <2> QED
    BY <1>2, <2>1, RecursionSolved, Zenon
<1>4. Solves(f) /\ f \in [0..Len(x) -> Seq(Chunks)]
  <2>1. f \in [0..Len(x) -> Seq(Chunks)] /\ f[0] = <<>>
    BY <1>3 DEF Recursion
  <2>2. ASSUME NEW n \in 0..Len(x), n # 0
        PROVE  f[n] = IF x[n].blank THEN f[n - 1] ELSE Append(f[n - 1], x[n])
    <3>1. n \in 1..Len(x) /\ n - 1 \in 0..Len(x) /\ f[n - 1] \in Seq(Chunks)
      BY <1>1, <2>1, <2>2
    <3>2. f[n] = op[n][f[n - 1]]
      BY <1>3, <3>1 DEF Recursion
    <3> QED
      BY <3>1, <3>2
  <2> QED
    BY <1>1, <2>1, <2>2
<1> DEFINE g == CHOOSE h : Solves(h)
<1>5. Solves(g)
  BY <1>4
<1>6. Lines(x) = g[Len(x)]
  BY DEF Lines
<1> HIDE DEF g
<1>7. ASSUME NEW n \in 0..Len(x)
      PROVE  g[n] = f[n]
  <2>1. 0 \in 0..Len(x) /\ n \in Nat
    BY <1>1
  <2>2. g[0] = f[0]
    BY <1>4, <1>5, <2>1
  <2>3. ASSUME NEW k \in 1..n, g[k - 1] = f[k - 1]
        PROVE  g[k] = f[k]
    <3>1. k \in 0..Len(x) /\ k # 0
      BY <1>1
    <3> QED
      BY <1>4, <1>5, <2>3, <3>1
  <2> QED
    BY <2>1, <2>2, <2>3, RecursionUnique, Zenon
<1>8. g \in [0..Len(x) -> Seq(Chunks)]
  BY <1>4, <1>5, <1>7
<1> QED
  BY <1>5, <1>6, <1>8

\* The lines of a text grow with it, by the chunks that are not blank.
LEMMA LinesAppend ==
  /\ Lines(<<>>) = <<>>
  /\ \A x \in Seq(Chunks), c \in Chunks :
       Lines(Append(x, c)) = IF c.blank THEN Lines(x) ELSE Append(Lines(x), c)
  /\ \A x \in Seq(Chunks) : Lines(x) \in Seq(Chunks)
<1>1. Lines(<<>>) = <<>>
  <2> DEFINE x == <<>>
  <2>1. x \in Seq(Chunks) /\ Len(x) = 0
    OBVIOUS
  <2> HIDE DEF x
  <2>2. PICK f \in [0..Len(x) -> Seq(Chunks)] :
          /\ f = [n \in 0..Len(x) |->
                    IF n = 0 THEN <<>>
                    ELSE IF x[n].blank THEN f[n - 1] ELSE Append(f[n - 1], x[n])]
          /\ Lines(x) = f[Len(x)]
    BY <2>1, LinesLemma
  <2>3. f[0] = <<>>
    BY <2>1, <2>2
  <2>4. Lines(x) = <<>>
    BY <2>1, <2>2, <2>3
  <2> QED
    BY <2>4 DEF x
<1>2. ASSUME NEW x \in Seq(Chunks), NEW c \in Chunks
      PROVE  Lines(Append(x, c)) = IF c.blank THEN Lines(x) ELSE Append(Lines(x), c)
  <2> DEFINE y == Append(x, c)
  <2>1. /\ y \in Seq(Chunks) /\ Len(y) = Len(x) + 1 /\ Len(x) \in Nat
        /\ y[Len(x) + 1] = c /\ \A k \in 1..Len(x) : y[k] = x[k]
    OBVIOUS
  <2> HIDE DEF y
  <2>2. PICK f \in [0..Len(x) -> Seq(Chunks)] :
          /\ f = [n \in 0..Len(x) |->
                    IF n = 0 THEN <<>>
                    ELSE IF x[n].blank THEN f[n - 1] ELSE Append(f[n - 1], x[n])]
          /\ Lines(x) = f[Len(x)]
    BY LinesLemma
  <2>3. PICK g \in [0..Len(y) -> Seq(Chunks)] :
          /\ g = [n \in 0..Len(y) |->
                    IF n = 0 THEN <<>>
                    ELSE IF y[n].blank THEN g[n - 1] ELSE Append(g[n - 1], y[n])]
          /\ Lines(y) = g[Len(y)]
    BY <2>1, LinesLemma
  <2>4. f[0] = g[0]
    BY <2>1, <2>2, <2>3
  <2>5. ASSUME NEW k \in 1..Len(x), f[k - 1] = g[k - 1]
        PROVE  f[k] = g[k]
    <3>1. k \in 0..Len(x) /\ k \in 0..Len(y) /\ k # 0 /\ y[k] = x[k]
      BY <2>1
    <3>2. f[k] = IF x[k].blank THEN f[k - 1] ELSE Append(f[k - 1], x[k])
      BY <2>2, <3>1
    <3>3. g[k] = IF y[k].blank THEN g[k - 1] ELSE Append(g[k - 1], y[k])
      BY <2>3, <3>1
    <3> QED
      BY <2>5, <3>1, <3>2, <3>3
  <2>6. f[Len(x)] = g[Len(x)]
    BY <2>1, <2>4, <2>5, RecursionUnique
  <2>7. g[Len(y)] = IF c.blank THEN g[Len(x)] ELSE Append(g[Len(x)], c)
    <3> DEFINE k == Len(y)
    <3>1. k \in 0..Len(y) /\ k # 0 /\ y[k] = c /\ k - 1 = Len(x)
      BY <2>1
    <3>2. g[k] = IF y[k].blank THEN g[k - 1] ELSE Append(g[k - 1], y[k])
      BY <2>3, <3>1
    <3> QED
      BY <3>1, <3>2
  <2> QED
    BY <2>2, <2>3, <2>6, <2>7 DEF y
<1>3. \A x \in Seq(Chunks) : Lines(x) \in Seq(Chunks)
  <2> TAKE x \in Seq(Chunks)
  <2>1. Len(x) \in 0..Len(x)
    OBVIOUS
  <2> QED
    BY <2>1, LinesLemma
<1> QED
  BY <1>1, <1>2, <1>3

LEMMA PrefixLemma ==
  ASSUME NEW x \in Seq(Chunks), NEW y \in Seq(Chunks), NEW c \in Chunks
  PROVE  /\ IsPrefix(x, x)
         /\ IsPrefix(x, y) => IsPrefix(x, Append(y, c))
BY DEF IsPrefix

----------------------------------------------------------------------------
(* The invariant *)

Steps == {"off", "read", "keep", "count", "emit", "close", "done"}

Typing ==
  /\ limit \in Limits /\ streaming \in BOOLEAN
  /\ child \in {"running", "exited"} /\ heirs \in BOOLEAN
  /\ {pipe, written, sink, live, text} \subseteq [Streams -> Seq(Chunks)]
  /\ {open, cut, muted, broken, late, marked} \subseteq [Streams -> BOOLEAN]
  /\ pc \in [Streams -> Steps] /\ chunk \in [Streams -> Chunks \cup {NoChunk}]
  /\ count \in [Streams -> Nat]
  /\ step \in 1..(Len(Script) + 1)
  /\ \A s \in Streams : Len(pipe[s]) <= PipeSize

\* The step of the script at which the runner does something to a stream.
At(what, s) ==
  (CASE what = "start" -> 1 [] what = "join" -> 4 [] what = "text" -> 6 [] what = "mark" -> 8)
    + (IF s = "stdout" THEN 0 ELSE 1)

Capped == limit # NoLimit

\* What the drainer has read and not yet kept.
InHand(s) == IF pc[s] = "keep" THEN <<chunk[s]>> ELSE <<>>

\* Only what was written is read: so many chunks kept, held and left.
Fit(kept, held, left, all) == kept + held + left <= all

Supplied(s) ==
  Fit(Len(sink[s]), IF pc[s] = "keep" THEN 1 ELSE 0, Len(pipe[s]), Len(written[s]))

\* state[0] lags the buffer by the chunk in hand, and state[1] follows state[0].
Counted(s) ==
  /\ pc[s] \in {"keep", "count", "emit"} => chunk[s] \in Chunks
  /\ Size(sink[s]) = count[s] + (IF pc[s] = "count" THEN chunk[s].len ELSE 0)
  /\ Size(sink[s]) <= MaxLen * Len(sink[s])
  /\ Capped => Size(sink[s]) <= limit
  /\ cut[s] <=> Capped /\ count[s] >= limit

\* Below the cap nothing is lost on the way but by a failed read.
Carried(s) ==
  (Capped => Size(sink[s]) < limit) /\ ~broken[s] =>
    (sink[s] \o InHand(s)) \o pipe[s] = written[s]

\* A drainer leaves its loop for a failed read or at the end of the output.
Closing(s) ==
  /\ step <= At("start", s) => pc[s] = "off"
  /\ open[s] <=> pc[s] # "done"
  /\ pc[s] \in {"close", "done"} /\ ~broken[s] =>
       child = "exited" /\ ~heirs /\ pipe[s] = <<>>

\* What the runner has of a stream once it has joined it, taken its text and
\* asked for the marker.
Collected(s) ==
  /\ step > At("join", s) /\ ~late[s] => pc[s] = "done"
  /\ step > At("text", s) =>
       /\ ~late[s] => text[s] = sink[s]
       /\ Capped => Size(text[s]) <= limit
  /\ step > At("mark", s) /\ ~late[s] => (marked[s] <=> cut[s])

\* The live view lags the buffer by the chunk in hand, unless it is muted.
Streamed(s) ==
  /\ IsPrefix(live[s], Lines(sink[s]))
  /\ streaming /\ ~muted[s] =>
       Lines(sink[s]) = IF pc[s] \in {"count", "emit"} /\ ~chunk[s].blank
                          THEN Append(live[s], chunk[s]) ELSE live[s]

Written == Fit(Len(written["stdout"]), 0, Len(written["stderr"]), MaxWrites)

DrainInv ==
  /\ Typing /\ Written
  /\ \A s \in Streams :
       Supplied(s) /\ Counted(s) /\ Carried(s) /\ Closing(s) /\ Collected(s) /\ Streamed(s)

\* What the runner does at which step.
LEMMA ScriptLemma ==
  ASSUME NEW what \in {"start", "join", "text", "mark"}, NEW s \in Streams,
         step \in 1..(Len(Script) + 1)
  PROVE  /\ Does(what, s) => step = At(what, s) /\ step' = step + 1
         /\ step \in 1..10 /\ (Returned <=> step = 10)
<1>1. Len(Script) = 9
  BY DEF Script
<1>2. \A k \in 1..9 : Script[k] =
        CASE k = 1 -> [do |-> "start", of |-> "stdout"]
          [] k = 2 -> [do |-> "start", of |-> "stderr"]
          [] k = 3 -> [do |-> "wait",  of |-> "both"]
          [] k = 4 -> [do |-> "join",  of |-> "stdout"]
          [] k = 5 -> [do |-> "join",  of |-> "stderr"]
          [] k = 6 -> [do |-> "text",  of |-> "stdout"]
          [] k = 7 -> [do |-> "text",  of |-> "stderr"]
          [] k = 8 -> [do |-> "mark",  of |-> "stdout"]
          [] k = 9 -> [do |-> "mark",  of |-> "stderr"]
  BY DEF Script
<1>3. step \in 1..10 /\ (Returned <=> step = 10)
  BY <1>1 DEF Returned
<1>4. ASSUME Does(what, s)
      PROVE  step = At(what, s) /\ step' = step + 1
  <2>1. step \in 1..9 /\ Script[step] = [do |-> what, of |-> s] /\ step' = step + 1
    BY <1>1, <1>3, <1>4 DEF Does
  <2>2. Script[step].do = what /\ Script[step].of = s
    BY <2>1
  <2>3. s \in {"stdout", "stderr"}
    BY DEF Streams
  <2> QED
    BY <1>2, <2>1, <2>2, <2>3, SMTT(20) DEF At
<1> QED
  BY <1>3, <1>4

\* The order of the script.
LEMMA AtLemma ==
  ASSUME NEW s \in Streams
  PROVE  /\ At("start", s) \in 1..2 /\ At("join", s) \in 4..5
         /\ At("text", s) \in 6..7 /\ At("mark", s) \in 8..9
BY DEF At, Streams

\* One runner, two drainers, and those who write.
LEMMA StepCases ==
  ASSUME [Next]_vars
  PROVE  \/ UNCHANGED vars \/ ChildExits \/ HeirsExit \/ Wait
         \/ \E s \in Streams :
              \/ Write(s) \/ Read(s) \/ ReadEnds(s) \/ ReadFails(s) \/ Drop(s) \/ Keep(s)
              \/ Count(s) \/ Emit(s) \/ SinkRaises(s) \/ Close(s)
              \/ StartDrainer(s) \/ Join(s) \/ TakeText(s) \/ AddMarker(s)
BY DEF Next, Drain, Run, Over

\* What Keep puts into the buffer: the chunk, or as much of it as there is room.
KeptOf(s) == [chunk[s] EXCEPT !.len = IF @ <= Room(s) THEN @ ELSE Room(s)]

LEMMA KeptLemma ==
  ASSUME Typing, NEW s \in Streams, Counted(s), pc[s] = "keep", Room(s) > 0
  PROVE  /\ KeptOf(s) \in Chunks /\ KeptOf(s).blank = chunk[s].blank
         /\ Capped => KeptOf(s).len <= limit - count[s]
         /\ KeptOf(s) # chunk[s] => Capped /\ KeptOf(s).len = limit - count[s]
<1>1. chunk[s] \in Chunks /\ count[s] \in Nat /\ limit \in Nat
  BY LimitsAssumption DEF Typing, Counted
<1>2. chunk[s].len \in 1..MaxLen /\ chunk[s].blank \in BOOLEAN
      /\ (chunk[s].blank => chunk[s].len = 1)
      /\ chunk[s] = [len |-> chunk[s].len, blank |-> chunk[s].blank] /\ MaxLen \in Nat
  BY <1>1, BoundsAssumption DEF Chunks
<1>3. Room(s) \in Int /\ (Capped => Room(s) = limit - count[s]) /\ (~Capped => Room(s) = MaxLen)
  BY <1>1, <1>2 DEF Room, Capped
<1> DEFINE len == IF chunk[s].len <= Room(s) THEN chunk[s].len ELSE Room(s)
<1>4. len \in 1..MaxLen /\ (chunk[s].blank => len = 1)
      /\ (Capped => len <= limit - count[s])
      /\ (len # chunk[s].len => Capped /\ len = limit - count[s])
  BY <1>1, <1>2, <1>3
<1>5. KeptOf(s) = [len |-> len, blank |-> chunk[s].blank]
  BY <1>2 DEF KeptOf
<1> HIDE DEF len
<1>6. KeptOf(s) \in Chunks
  BY <1>2, <1>4, <1>5 DEF Chunks
<1> QED
  BY <1>2, <1>4, <1>5, <1>6

LEMMA FitLemma ==
  ASSUME NEW kept \in Nat, NEW held \in {0, 1}, NEW left \in Nat, NEW all \in Nat,
         Fit(kept, held, left, all)
  PROVE  /\ kept <= all
         /\ Fit(kept, held, left + 1, all + 1) /\ Fit(kept, held, 0, all)
         /\ Fit(kept, 0, left, all)
         /\ held = 1 => Fit(kept + 1, 0, left, all)
         /\ held = 0 /\ left > 0 => Fit(kept, 1, left - 1, all)
BY DEF Fit

LEMMA InitLemma == Init => DrainInv
<1> SUFFICES ASSUME Init
             PROVE  DrainInv
  OBVIOUS
<1>1. limit \in Nat /\ PipeSize \in Nat /\ MaxWrites \in Nat /\ MaxLen \in Nat /\ NoLimit = 0
  BY LimitsAssumption, BoundsAssumption DEF Init, NoLimit
<1>2. /\ Size(<<>>) = 0 /\ Lines(<<>>) = <<>> /\ <<>> \in Seq(Chunks)
      /\ step = 1 /\ Len(Script) = 9
  BY SizeAppend, LinesAppend DEF Init, Script
<1>3. Typing
  BY <1>1, <1>2 DEF Init, Typing, OfEach, Steps
<1>4. \A s \in Streams :
        /\ pipe[s] = <<>> /\ written[s] = <<>> /\ open[s] = TRUE /\ pc[s] = "off"
        /\ sink[s] = <<>> /\ count[s] = 0 /\ cut[s] = FALSE /\ muted[s] = FALSE
        /\ live[s] = <<>>
  BY DEF Init, OfEach
<1>e. /\ Len(<<>>) = 0 /\ MaxLen * Len(<<>>) = 0 /\ (<<>> \o <<>>) \o <<>> = <<>>
      /\ \A s \in Streams : InHand(s) = <<>>
  BY <1>1, <1>4 DEF InHand
<1>5. Written
  <2>1. Len(written["stdout"]) = 0 /\ Len(written["stderr"]) = 0
    BY <1>4, <1>e DEF Streams
  <2> QED
    BY <1>1, <2>1 DEF Written, Fit
<1> SUFFICES ASSUME NEW s \in Streams
             PROVE  /\ Supplied(s) /\ Counted(s) /\ Carried(s)
                    /\ Closing(s) /\ Collected(s) /\ Streamed(s)
  BY <1>3, <1>5 DEF DrainInv
<1>6. Supplied(s)
  <2>1. /\ Len(sink[s]) = 0 /\ pc[s] = "off"
        /\ Len(pipe[s]) = 0 /\ Len(written[s]) = 0
    BY <1>4, <1>e
  <2> QED
    BY <2>1 DEF Supplied, Fit
<1>7. Counted(s)
  <2>1. Size(sink[s]) = 0 /\ MaxLen * Len(sink[s]) = 0 /\ pc[s] = "off"
    BY <1>2, <1>4, <1>e
  <2>2. cut[s] <=> Capped /\ count[s] >= limit
    BY <1>1, <1>4 DEF Capped
  <2>3. count[s] = 0
    BY <1>4
  <2> QED
    BY <1>1, <2>1, <2>2, <2>3 DEF Counted, Capped
<1>8. Carried(s)
  BY <1>4, <1>e DEF Carried
<1>9. Closing(s)
  BY <1>4 DEF Closing
<1>10. Collected(s)
  BY <1>2, AtLemma DEF Collected
<1>11. Streamed(s)
  BY <1>2, <1>4, PrefixLemma DEF Streamed, IsPrefix
<1> QED
  BY <1>6, <1>7, <1>8, <1>9, <1>10, <1>11

LEMMA TypingStep == DrainInv /\ [Next]_vars => Typing'
<1> SUFFICES ASSUME DrainInv, [Next]_vars
             PROVE  Typing'
  OBVIOUS
<1> USE DEF Typing
<1>t. Typing /\ \A s \in Streams : Counted(s)
  BY DEF DrainInv
<1>1. CASE UNCHANGED vars
  BY <1>t, <1>1 DEF vars, given, procs, pipes, buffers, stream, runner
<1>2. CASE ChildExits \/ HeirsExit
  BY <1>t, <1>2 DEF ChildExits, HeirsExit, given, pipes, buffers, stream, runner
<1>3. CASE Wait
  <2>1. step' \in 1..(Len(Script) + 1)
    <3>1. Len(Script) = 9
      BY DEF Script
    <3>2. step <= Len(Script) /\ step' = step + 1
      BY <1>3 DEF Wait, Does
    <3> QED
      BY <1>t, <3>1, <3>2
  <2> QED
    BY <1>t, <1>3, <2>1 DEF Wait, given, procs, pipes, buffers, stream
<1>4. ASSUME NEW s \in Streams, Write(s)
      PROVE  Typing'
  <2>1. PICK c \in Chunks : /\ pipe' = [pipe EXCEPT ![s] = Append(@, c)]
                            /\ written' = [written EXCEPT ![s] = Append(@, c)]
    BY <1>4 DEF Write
  <2>2. pipe' \in [Streams -> Seq(Chunks)] /\ written' \in [Streams -> Seq(Chunks)]
    BY <1>t, <2>1
  <2>3. \A r \in Streams : Len(pipe'[r]) <= PipeSize
    BY <1>t, <1>4, <2>1, BoundsAssumption DEF Write
  <2> QED
    BY <1>t, <1>4, <2>2, <2>3 DEF Write, given, procs, buffers, stream, runner
<1>5. ASSUME NEW s \in Streams, Read(s)
      PROVE  Typing'
  <2>1. /\ Head(pipe[s]) \in Chunks /\ Tail(pipe[s]) \in Seq(Chunks)
        /\ Len(Tail(pipe[s])) <= PipeSize
    BY <1>t, <1>5, BoundsAssumption DEF Read
  <2> QED
    BY <1>t, <1>5, <2>1 DEF Read, Goto, Steps, given, procs, buffers, stream, runner
<1>6. ASSUME NEW s \in Streams, ReadEnds(s) \/ ReadFails(s) \/ Drop(s)
      PROVE  Typing'
  <2>1. CASE ReadEnds(s)
    BY <1>t, <2>1 DEF ReadEnds, Goto, Steps, given, procs, pipes, buffers, stream, runner
  <2>2. CASE ReadFails(s)
    BY <1>t, <2>2 DEF ReadFails, Goto, Steps, given, procs, pipes, buffers, stream, runner
  <2>3. CASE Drop(s)
    BY <1>t, <2>3 DEF Drop, Goto, Steps, given, procs, pipes, buffers, stream, runner
  <2> QED
    BY <1>6, <2>1, <2>2, <2>3
<1>7. ASSUME NEW s \in Streams, Keep(s)
      PROVE  Typing'
  <2>1. KeptOf(s) \in Chunks
    BY <1>t, <1>7, KeptLemma DEF Keep
  <2>2. chunk' = [chunk EXCEPT ![s] = KeptOf(s)] /\ sink' = [sink EXCEPT ![s] = Append(@, KeptOf(s))]
    BY <1>7 DEF Keep, KeptOf
  <2> QED
    BY <1>t, <1>7, <2>1, <2>2 DEF Keep, Goto, Steps, given, procs, pipes, stream, runner
<1>8. ASSUME NEW s \in Streams, Count(s)
      PROVE  Typing'
  <2>1. count[s] + chunk[s].len \in Nat
    BY <1>t, <1>8, ChunkLemma DEF Count, Counted
  <2>2. count' \in [Streams -> Nat] /\ cut' \in [Streams -> BOOLEAN]
    BY <1>t, <1>8, <2>1 DEF Count
  <2> QED
    BY <1>t, <1>8, <2>2 DEF Count, Goto, Steps, given, procs, pipes, stream, runner
<1>9. ASSUME NEW s \in Streams, Emit(s) \/ SinkRaises(s)
      PROVE  Typing'
  <2>1. pc[s] = "emit" /\ chunk[s] \in Chunks
    BY <1>t, <1>9 DEF Emit, SinkRaises, Counted
  <2>2. CASE Emit(s)
    <3>1. live' \in [Streams -> Seq(Chunks)]
      BY <1>t, <2>1, <2>2 DEF Emit
    <3> QED
      BY <1>t, <2>2, <3>1 DEF Emit, Goto, Steps, given, procs, pipes, buffers, runner
  <2>3. CASE SinkRaises(s)
    BY <1>t, <2>3 DEF SinkRaises, Goto, Steps, given, procs, pipes, buffers, runner
  <2> QED
    BY <1>9, <2>2, <2>3
<1>10. ASSUME NEW s \in Streams, Close(s)
       PROVE  Typing'
  BY <1>t, <1>10, BoundsAssumption DEF Close, Goto, Steps, given, procs, buffers, stream, runner
<1>11. ASSUME NEW s \in Streams,
              StartDrainer(s) \/ Join(s) \/ TakeText(s) \/ AddMarker(s)
       PROVE  Typing'
  <2>1. step' \in 1..(Len(Script) + 1)
    <3>1. Len(Script) = 9
      BY DEF Script
    <3>2. step <= Len(Script) /\ step' = step + 1
      BY <1>11 DEF StartDrainer, Join, TakeText, AddMarker, Does
    <3> QED
      BY <1>t, <3>1, <3>2
  <2>2. CASE StartDrainer(s)
    BY <1>t, <2>1, <2>2 DEF StartDrainer, Goto, Steps, given, procs, pipes, buffers, stream
  <2>3. CASE Join(s)
    BY <1>t, <2>1, <2>3 DEF Join, given, procs, pipes, buffers, stream
  <2>4. CASE TakeText(s)
    BY <1>t, <2>1, <2>4 DEF TakeText, given, procs, pipes, buffers, stream
  <2>5. CASE AddMarker(s)
    BY <1>t, <2>1, <2>5 DEF AddMarker, given, procs, pipes, buffers, stream
  <2> QED
    BY <1>11, <2>2, <2>3, <2>4, <2>5
<1> QED
  BY <1>1, <1>2, <1>3, <1>4, <1>5, <1>6, <1>7, <1>8, <1>9, <1>10, <1>11, StepCases

\* A step of one stream leaves the other alone.
Untouched(r) ==
  /\ pipe'[r] = pipe[r] /\ written'[r] = written[r] /\ open'[r] = open[r]
  /\ pc'[r] = pc[r] /\ chunk'[r] = chunk[r]
  /\ sink'[r] = sink[r] /\ count'[r] = count[r] /\ cut'[r] = cut[r]
  /\ muted'[r] = muted[r] /\ live'[r] = live[r] /\ broken'[r] = broken[r]

Uncollected(r) == late'[r] = late[r] /\ text'[r] = text[r] /\ marked'[r] = marked[r]

DrainerStep(s) ==
  \/ Write(s) \/ Read(s) \/ ReadEnds(s) \/ ReadFails(s) \/ Drop(s) \/ Keep(s)
  \/ Count(s) \/ Emit(s) \/ SinkRaises(s) \/ Close(s)

RunnerStep(s) == StartDrainer(s) \/ Join(s) \/ TakeText(s) \/ AddMarker(s)

LEMMA DrainerFrame ==
  ASSUME Typing, NEW s \in Streams, DrainerStep(s)
  PROVE  /\ UNCHANGED <<limit, streaming, child, heirs, step>>
         /\ \A r \in Streams : Uncollected(r) /\ (r # s => Untouched(r))
<1> USE DEF Typing, Uncollected, Untouched, Goto
<1>1. CASE Write(s)
  BY <1>1 DEF Write, given, procs, buffers, stream, runner
<1>2. CASE Read(s)
  BY <1>2 DEF Read, given, procs, buffers, stream, runner
<1>3. CASE ReadEnds(s)
  BY <1>3 DEF ReadEnds, given, procs, pipes, buffers, stream, runner
<1>4. CASE ReadFails(s)
  BY <1>4 DEF ReadFails, given, procs, pipes, buffers, stream, runner
<1>5. CASE Drop(s)
  BY <1>5 DEF Drop, given, procs, pipes, buffers, stream, runner
<1>6. CASE Keep(s)
  BY <1>6 DEF Keep, given, procs, pipes, stream, runner
<1>7. CASE Count(s)
  BY <1>7 DEF Count, given, procs, pipes, stream, runner
<1>8. CASE Emit(s)
  BY <1>8 DEF Emit, given, procs, pipes, buffers, runner
<1>9. CASE SinkRaises(s)
  BY <1>9 DEF SinkRaises, given, procs, pipes, buffers, runner
<1>10. CASE Close(s)
  BY <1>10 DEF Close, given, procs, buffers, stream, runner
<1> QED
  BY <1>1, <1>2, <1>3, <1>4, <1>5, <1>6, <1>7, <1>8, <1>9, <1>10 DEF DrainerStep

LEMMA RunnerFrame ==
  ASSUME Typing, NEW s \in Streams, RunnerStep(s)
  PROVE  /\ UNCHANGED <<limit, streaming, child, heirs>>
         /\ \A r \in Streams :
              /\ r # s => Untouched(r) /\ Uncollected(r)
              /\ ~StartDrainer(s) => Untouched(r)
<1> USE DEF Typing, Uncollected, Untouched, Goto
<1>1. CASE StartDrainer(s)
  BY <1>1 DEF StartDrainer, given, procs, pipes, buffers, stream
<1>2. CASE Join(s)
  BY <1>2 DEF Join, given, procs, pipes, buffers, stream
<1>3. CASE TakeText(s)
  BY <1>3 DEF TakeText, given, procs, pipes, buffers, stream
<1>4. CASE AddMarker(s)
  BY <1>4 DEF AddMarker, given, procs, pipes, buffers, stream
<1> QED
  BY <1>1, <1>2, <1>3, <1>4 DEF RunnerStep

LEMMA ConcatLemma ==
  ASSUME NEW S, NEW x \in Seq(S), NEW p \in Seq(S), NEW c \in S
  PROVE  /\ x \o Append(p, c) = Append(x \o p, c)
         /\ p # <<>> => (x \o <<>>) \o p = (x \o <<Head(p)>>) \o Tail(p)
<1>1. x \o Append(p, c) = Append(x \o p, c)
  OBVIOUS
<1>2. x \o <<>> = x
  OBVIOUS
<1>3. ASSUME p # <<>>
      PROVE  (x \o <<>>) \o p = (x \o <<Head(p)>>) \o Tail(p)
  <2> DEFINE h == <<Head(p)>>
             t == Tail(p)
  <2>1. h \in Seq(S) /\ t \in Seq(S) /\ p = h \o t
    <3>1. p = SubSeq(p, 1, Len(p)) /\ Len(p) \in Nat /\ Len(p) > 0
      BY <1>3, SubSeqFull
    <3>2. SubSeq(p, 1, Len(p)) = <<p[1]>> \o SubSeq(p, 1 + 1, Len(p))
      BY <3>1, SubSeqRecursiveFirst
    <3>3. SubSeq(p, 1 + 1, Len(p)) = Tail(p)
      BY <1>3, TailIsSubSeq
    <3>4. Head(p) = p[1] /\ Head(p) \in S /\ Tail(p) \in Seq(S)
      BY <1>3
    <3> QED
      BY <3>1, <3>2, <3>3, <3>4
  <2> HIDE DEF h, t
  <2>2. (x \o h) \o t = x \o (h \o t)
    BY <2>1, ConcatAssociative
  <2> QED
    BY <1>2, <2>1, <2>2 DEF h, t
<1> QED
  BY <1>1, <1>2, <1>3

StreamInv(s) ==
  Supplied(s) /\ Counted(s) /\ Carried(s) /\ Closing(s) /\ Collected(s) /\ Streamed(s)

LEMMA StreamFrame ==
  ASSUME NEW r \in Streams, StreamInv(r), Untouched(r), Uncollected(r),
         UNCHANGED <<limit, streaming, step>>,
         UNCHANGED <<child, heirs>> \/ ChildExits \/ HeirsExit
  PROVE  StreamInv(r)'
<1> USE DEF StreamInv, Untouched, Uncollected, InHand
<1>1. Supplied(r)' /\ Counted(r)' /\ Carried(r)' /\ Collected(r)' /\ Streamed(r)'
  <2>1. Supplied(r)' /\ Counted(r)' /\ Carried(r)'
    BY DEF Supplied, Counted, Carried, Capped
  <2>2. Collected(r)'
    BY DEF Collected, Capped
  <2>3. Streamed(r)'
    BY DEF Streamed
  <2> QED
    BY <2>1, <2>2, <2>3
<1>2. Closing(r)'
  BY DEF Closing, ChildExits, HeirsExit
<1> QED
  BY <1>1, <1>2

\* What the steps of a drainer leave alone of its own stream.
LEMMA CollectedFrame ==
  ASSUME Typing, NEW s \in Streams, Collected(s), Closing(s), DrainerStep(s),
         Uncollected(s), UNCHANGED <<limit, step>>
  PROVE  Collected(s)' /\ (step <= At("start", s) => pc'[s] = pc[s])
<1>1. CASE Write(s)
  BY <1>1 DEF Write, Collected, Uncollected, Capped, buffers
<1>2. CASE ~Write(s)
  <2>1. pc[s] # "off" /\ pc[s] # "done"
    BY <1>2 DEF DrainerStep, Read, ReadEnds, ReadFails, Drop, Keep, Count, Emit, SinkRaises, Close
  <2>2. step \in Int
    BY DEF Typing
  <2>3. ~(step <= At("start", s)) /\ (step > At("join", s) => late[s])
    BY <2>1 DEF Closing, Collected
  <2>4. At("join", s) < At("text", s) /\ At("text", s) < At("mark", s)
        /\ At("join", s) \in Int /\ At("text", s) \in Int /\ At("mark", s) \in Int
    BY AtLemma
  <2> QED
    BY <2>2, <2>3, <2>4 DEF Collected, Uncollected, Capped
<1> QED
  BY <1>1, <1>2

----------------------------------------------------------------------------
(* What each step does to its own stream *)

\* The facts every one of the lemmas below starts from.
Before(s) ==
  /\ Typing /\ Typing' /\ StreamInv(s) /\ Uncollected(s)
  /\ UNCHANGED <<limit, streaming, child, heirs, step>>

LEMMA StreamTypes ==
  ASSUME NEW s \in Streams, Typing
  PROVE  /\ pipe[s] \in Seq(Chunks) /\ written[s] \in Seq(Chunks) /\ sink[s] \in Seq(Chunks)
         /\ live[s] \in Seq(Chunks) /\ text[s] \in Seq(Chunks) /\ count[s] \in Nat
         /\ limit \in Nat /\ MaxLen \in Nat
         /\ Len(pipe[s]) \in Nat /\ Len(written[s]) \in Nat /\ Len(sink[s]) \in Nat
         /\ Size(sink[s]) \in Int /\ Lines(sink[s]) \in Seq(Chunks)
<1>1. /\ pipe[s] \in Seq(Chunks) /\ written[s] \in Seq(Chunks) /\ sink[s] \in Seq(Chunks)
      /\ live[s] \in Seq(Chunks) /\ text[s] \in Seq(Chunks) /\ count[s] \in Nat
  BY DEF Typing
<1>2. limit \in Nat /\ MaxLen \in Nat
  BY LimitsAssumption, BoundsAssumption DEF Typing
<1>3. Len(pipe[s]) \in Nat /\ Len(written[s]) \in Nat /\ Len(sink[s]) \in Nat
  BY <1>1
<1>4. Size(sink[s]) \in Int /\ Lines(sink[s]) \in Seq(Chunks)
  BY <1>1, SizeAppend, LinesAppend
<1> QED
  BY <1>1, <1>2, <1>3, <1>4

LEMMA WriteLemma ==
  ASSUME NEW s \in Streams, Before(s), Write(s)
  PROVE  StreamInv(s)'
<1>1. PICK c \in Chunks : /\ pipe'[s] = Append(pipe[s], c)
                          /\ written'[s] = Append(written[s], c)
  BY DEF Write, Before, Typing
<1>2. /\ open'[s] = open[s] /\ pc'[s] = pc[s] /\ chunk'[s] = chunk[s]
      /\ sink'[s] = sink[s] /\ count'[s] = count[s] /\ cut'[s] = cut[s]
      /\ muted'[s] = muted[s] /\ live'[s] = live[s] /\ broken'[s] = broken[s]
  BY DEF Write, buffers, stream
<1>3. UNCHANGED <<limit, streaming, child, heirs, step>> /\ Uncollected(s)
  BY DEF Before
<1> USE DEF InHand, Capped
<1>4. Supplied(s) /\ Counted(s) /\ Carried(s) /\ Closing(s) /\ Collected(s) /\ Streamed(s)
  BY DEF Before, StreamInv
<1>t. Len(pipe[s]) \in Nat /\ Len(written[s]) \in Nat /\ Len(sink[s]) \in Nat
  BY StreamTypes DEF Before
<1>5. Supplied(s)'
  <2>1. Len(pipe'[s]) = Len(pipe[s]) + 1 /\ Len(written'[s]) = Len(written[s]) + 1
    BY <1>1, StreamTypes DEF Before
  <2> QED
    BY <1>2, <1>4, <1>t, <2>1, FitLemma DEF Supplied
<1>6. Counted(s)' /\ Collected(s)' /\ Streamed(s)'
  BY <1>2, <1>3, <1>4 DEF Counted, Collected, Streamed, Uncollected
<1>7. Carried(s)'
  <2>1. ASSUME (Capped => Size(sink[s]) < limit) /\ ~broken[s]
        PROVE  (sink[s] \o InHand(s)) \o Append(pipe[s], c) = Append(written[s], c)
    <3> DEFINE head == sink[s] \o InHand(s)
    <3>1. head \in Seq(Chunks) /\ pipe[s] \in Seq(Chunks)
      BY <1>4, StreamTypes DEF Before, Counted
    <3>2. head \o pipe[s] = written[s]
      BY <1>4, <2>1 DEF Carried
    <3> HIDE DEF head
    <3>3. head \o Append(pipe[s], c) = Append(head \o pipe[s], c)
      BY <3>1, ConcatLemma
    <3> QED
      BY <3>2, <3>3 DEF head
  <2> QED
    BY <1>1, <1>2, <1>3, <2>1 DEF Carried
<1>8. Closing(s)'
  BY <1>1, <1>2, <1>3, <1>4 DEF Closing, Write
<1> QED
  BY <1>5, <1>6, <1>7, <1>8 DEF StreamInv

LEMMA ReadLemma ==
  ASSUME NEW s \in Streams, Before(s), Read(s)
  PROVE  StreamInv(s)'
<1>1. /\ pc[s] = "read" /\ pc'[s] = "keep" /\ pipe[s] # <<>>
      /\ chunk'[s] = Head(pipe[s]) /\ pipe'[s] = Tail(pipe[s])
  BY DEF Read, Goto, Before, Typing
<1>2. /\ written'[s] = written[s] /\ open'[s] = open[s]
      /\ sink'[s] = sink[s] /\ count'[s] = count[s] /\ cut'[s] = cut[s]
      /\ muted'[s] = muted[s] /\ live'[s] = live[s] /\ broken'[s] = broken[s]
  BY DEF Read, buffers, stream
<1>3. UNCHANGED <<limit, streaming, child, heirs, step>> /\ Uncollected(s)
  BY DEF Before
<1>4. Supplied(s) /\ Counted(s) /\ Carried(s) /\ Closing(s) /\ Collected(s) /\ Streamed(s)
  BY DEF Before, StreamInv
<1>h. /\ Head(pipe[s]) \in Chunks /\ Len(Tail(pipe[s])) = Len(pipe[s]) - 1
      /\ InHand(s) = <<>> /\ InHand(s)' = <<Head(pipe[s])>>
  BY <1>1, StreamTypes DEF InHand, Before
<1>c. Collected(s)' /\ ~(step <= At("start", s))
  <2>1. Collected(s)' /\ (step <= At("start", s) => pc'[s] = pc[s])
    BY <1>3, <1>4, CollectedFrame DEF Before, DrainerStep
  <2> QED
    BY <1>1, <2>1
<1>t. Len(pipe[s]) \in Nat /\ Len(written[s]) \in Nat /\ Len(sink[s]) \in Nat
  BY StreamTypes DEF Before
<1>5. Supplied(s)'
  <2>1. Len(pipe'[s]) = Len(pipe[s]) - 1
    BY <1>1, <1>h
  <2> QED
    BY <1>1, <1>2, <1>4, <1>t, <2>1, FitLemma DEF Supplied
<1>6. Counted(s)'
  BY <1>1, <1>2, <1>3, <1>4, <1>h DEF Counted, Capped
<1>7. Carried(s)'
  <2>1. (sink[s] \o <<>>) \o pipe[s] = (sink[s] \o <<Head(pipe[s])>>) \o Tail(pipe[s])
    <3>1. sink[s] \in Seq(Chunks) /\ pipe[s] \in Seq(Chunks)
      BY StreamTypes DEF Before
    <3> QED
      BY <1>1, <1>h, <3>1, ConcatLemma
  <2> QED
    BY <1>1, <1>2, <1>3, <1>4, <1>h, <2>1 DEF Carried, Capped
<1>8. Closing(s)'
  BY <1>1, <1>2, <1>3, <1>4, <1>c DEF Closing
<1>9. Streamed(s)'
  BY <1>1, <1>2, <1>3, <1>4 DEF Streamed
<1> QED
  BY <1>c, <1>5, <1>6, <1>7, <1>8, <1>9 DEF StreamInv

\* The steps that leave the buffers alone and let go of the chunk.
LEMMA LeaveLemma ==
  ASSUME NEW s \in Streams, Before(s), ReadEnds(s) \/ ReadFails(s) \/ Drop(s)
  PROVE  StreamInv(s)'
<1>1. /\ pc[s] = "read" /\ pc'[s] = "close" /\ chunk'[s] = chunk[s] /\ pipe'[s] = pipe[s]
         /\ \/ broken'[s]
            \/ broken'[s] = broken[s] /\ pipe[s] = <<>> /\ child = "exited" /\ ~heirs
      \/ /\ pc[s] = "keep" /\ pc'[s] = "read" /\ pipe'[s] = pipe[s]
         /\ broken'[s] = broken[s] /\ Room(s) <= 0
  <2>1. CASE ReadEnds(s)
    BY <2>1 DEF ReadEnds, Goto, Before, Typing, pipes
  <2>2. CASE ReadFails(s)
    BY <2>2 DEF ReadFails, Goto, Before, Typing, pipes
  <2>3. CASE Drop(s)
    BY <2>3 DEF Drop, Goto, Before, Typing, pipes
  <2> QED
    BY <2>1, <2>2, <2>3
<1>2. /\ written'[s] = written[s] /\ open'[s] = open[s]
      /\ sink'[s] = sink[s] /\ count'[s] = count[s] /\ cut'[s] = cut[s]
      /\ muted'[s] = muted[s] /\ live'[s] = live[s]
  BY DEF ReadEnds, ReadFails, Drop, buffers, stream, pipes
<1>3. UNCHANGED <<limit, streaming, child, heirs, step>> /\ Uncollected(s)
  BY DEF Before
<1>4. Supplied(s) /\ Counted(s) /\ Carried(s) /\ Closing(s) /\ Collected(s) /\ Streamed(s)
  BY DEF Before, StreamInv
<1>h. InHand(s)' = <<>> /\ (pc[s] = "read" => InHand(s) = <<>>)
  BY <1>1 DEF InHand
<1>c. Collected(s)' /\ ~(step <= At("start", s))
  <2>1. Collected(s)' /\ (step <= At("start", s) => pc'[s] = pc[s])
    BY <1>3, <1>4, CollectedFrame DEF Before, DrainerStep
  <2> QED
    BY <1>1, <2>1
<1>t. Len(pipe[s]) \in Nat /\ Len(written[s]) \in Nat /\ Len(sink[s]) \in Nat
  BY StreamTypes DEF Before
<1>5. Supplied(s)'
  BY <1>1, <1>2, <1>4, <1>t, FitLemma DEF Supplied
<1>6. Counted(s)'
  BY <1>1, <1>2, <1>3, <1>4 DEF Counted, Capped
<1>7. Carried(s)'
  <2>1. CASE pc[s] = "read"
    BY <1>1, <1>2, <1>3, <1>4, <1>h, <2>1 DEF Carried, Capped
  <2>2. CASE pc[s] = "keep"
    <3>1. Capped /\ count[s] >= limit
      BY <1>1, <2>2, StreamTypes, BoundsAssumption DEF Before, Room, Capped
    <3>2. ~(Size(sink[s]) < limit)
      BY <1>4, <2>2, <3>1, StreamTypes DEF Counted, Before
    <3> QED
      BY <1>2, <1>3, <3>1, <3>2 DEF Carried, Capped
  <2> QED
    BY <1>1, <2>1, <2>2
<1>8. Closing(s)'
  BY <1>1, <1>2, <1>3, <1>4, <1>c DEF Closing
<1>9. Streamed(s)'
  BY <1>1, <1>2, <1>3, <1>4 DEF Streamed
<1> QED
  BY <1>c, <1>5, <1>6, <1>7, <1>8, <1>9 DEF StreamInv

\* A chunk more is at most MaxLen characters more.
LEMMA BoundLemma ==
  ASSUME NEW size \in Int, NEW n \in Nat, NEW len \in Int, MaxLen \in Nat,
         size <= MaxLen * n, len <= MaxLen
  PROVE  size + len <= MaxLen * (n + 1)
<1>1. MaxLen * (n + 1) = MaxLen * n + MaxLen /\ MaxLen * n \in Int
  OBVIOUS
<1> QED
  BY <1>1

LEMMA KeepLemma ==
  ASSUME NEW s \in Streams, Before(s), Keep(s)
  PROVE  StreamInv(s)'
<1> DEFINE k == KeptOf(s)
<1>1. /\ pc[s] = "keep" /\ pc'[s] = "count" /\ Room(s) > 0
      /\ chunk'[s] = k /\ sink'[s] = Append(sink[s], k)
  BY DEF Keep, KeptOf, Goto, Before, Typing
<1>2. /\ written'[s] = written[s] /\ open'[s] = open[s] /\ pipe'[s] = pipe[s]
      /\ count'[s] = count[s] /\ cut'[s] = cut[s]
      /\ muted'[s] = muted[s] /\ live'[s] = live[s] /\ broken'[s] = broken[s]
  BY DEF Keep, pipes, stream
<1>3. UNCHANGED <<limit, streaming, child, heirs, step>> /\ Uncollected(s)
  BY DEF Before
<1>4. Supplied(s) /\ Counted(s) /\ Carried(s) /\ Closing(s) /\ Collected(s) /\ Streamed(s)
  BY DEF Before, StreamInv
<1>5. /\ k \in Chunks /\ k.blank = chunk[s].blank
      /\ Capped => k.len <= limit - count[s]
      /\ k # chunk[s] => Capped /\ k.len = limit - count[s]
  BY <1>1, <1>4, KeptLemma DEF Before
<1> HIDE DEF k
<1>6. k.len \in Nat /\ k.len > 0 /\ k.len <= MaxLen
  BY <1>5, ChunkLemma
<1>t. /\ sink[s] \in Seq(Chunks) /\ pipe[s] \in Seq(Chunks) /\ live[s] \in Seq(Chunks)
      /\ Len(pipe[s]) \in Nat /\ Len(written[s]) \in Nat /\ Len(sink[s]) \in Nat
      /\ limit \in Nat /\ count[s] \in Nat /\ Size(sink[s]) \in Int /\ MaxLen \in Nat
      /\ Lines(sink[s]) \in Seq(Chunks)
  BY StreamTypes DEF Before
<1>7. /\ Size(sink'[s]) = Size(sink[s]) + k.len /\ Len(sink'[s]) = Len(sink[s]) + 1
      /\ Size(sink[s]) = count[s]
      /\ Lines(sink'[s]) = IF k.blank THEN Lines(sink[s]) ELSE Append(Lines(sink[s]), k)
  <2>1. Size(Append(sink[s], k)) = Size(sink[s]) + k.len
    BY <1>5, <1>t, SizeAppend
  <2>2. Lines(Append(sink[s], k)) = IF k.blank THEN Lines(sink[s]) ELSE Append(Lines(sink[s]), k)
    BY <1>5, <1>t, LinesAppend
  <2>3. Size(sink[s]) = count[s]
    BY <1>1, <1>4, <1>t DEF Counted
  <2>4. Len(Append(sink[s], k)) = Len(sink[s]) + 1
    BY <1>5, <1>t
  <2> QED
    BY <1>1, <2>1, <2>2, <2>3, <2>4
<1>c. Collected(s)' /\ ~(step <= At("start", s))
  <2>1. Collected(s)' /\ (step <= At("start", s) => pc'[s] = pc[s])
    BY <1>3, <1>4, CollectedFrame DEF Before, DrainerStep
  <2> QED
    BY <1>1, <2>1
<1>8. Supplied(s)'
  BY <1>1, <1>2, <1>4, <1>t, <1>7, FitLemma DEF Supplied
<1>9. Counted(s)'
  <2>1. Size(sink[s]) + k.len <= MaxLen * (Len(sink[s]) + 1)
    <3>1. Size(sink[s]) <= MaxLen * Len(sink[s])
      BY <1>4 DEF Counted
    <3>2. k.len \in Int
      BY <1>6
    <3> QED
      BY <1>6, <1>t, <3>1, <3>2, BoundLemma, Zenon
  <2>2. Size(sink'[s]) <= MaxLen * Len(sink'[s])
    BY <1>7, <2>1, Zenon
  <2>3. Size(sink'[s]) = count'[s] + chunk'[s].len
    BY <1>1, <1>2, <1>7
  <2>4. Capped => Size(sink'[s]) <= limit
    BY <1>5, <1>6, <1>7, <1>t
  <2>5. cut'[s] <=> Capped /\ count'[s] >= limit
    BY <1>2, <1>4 DEF Counted
  <2> QED
    BY <1>1, <1>3, <1>5, <2>2, <2>3, <2>4, <2>5 DEF Counted, Capped
<1>10. Carried(s)'
  <2> SUFFICES ASSUME Capped => Size(sink'[s]) < limit, ~broken[s]
               PROVE  (sink'[s] \o <<>>) \o pipe[s] = written[s]
    BY <1>1, <1>2, <1>3 DEF Carried, InHand, Capped
  <2>1. k = chunk[s] /\ (Capped => Size(sink[s]) < limit)
    BY <1>5, <1>6, <1>7, <1>t
  <2>2. (sink[s] \o <<chunk[s]>>) \o pipe[s] = written[s]
    BY <1>1, <1>4, <2>1 DEF Carried, InHand
  <2>3. (sink[s] \o <<k>>) \o pipe[s] = (Append(sink[s], k) \o <<>>) \o pipe[s]
    <3>1. sink[s] \in Seq(Chunks) /\ pipe[s] \in Seq(Chunks) /\ k \in Chunks
      BY <1>5, <1>t
    <3>2. Append(sink[s], k) = sink[s] \o <<k>>
      BY <3>1, AppendIsConcat
    <3>3. Append(sink[s], k) \o <<>> = Append(sink[s], k)
      BY <3>1
    <3> QED
      BY <3>2, <3>3, Zenon
  <2> QED
    BY <1>1, <2>1, <2>2, <2>3
<1>11. Closing(s)'
  BY <1>1, <1>2, <1>3, <1>4, <1>c DEF Closing
<1>12. Streamed(s)'
  <2>1. IsPrefix(live[s], Lines(sink'[s]))
    BY <1>4, <1>5, <1>7, <1>t, PrefixLemma DEF Streamed
  <2>2. streaming /\ ~muted[s] => Lines(sink[s]) = live[s]
    BY <1>1, <1>4 DEF Streamed
  <2> QED
    BY <1>1, <1>2, <1>3, <1>5, <1>7, <2>1, <2>2 DEF Streamed
<1> QED
  BY <1>c, <1>8, <1>9, <1>10, <1>11, <1>12 DEF StreamInv

LEMMA CountLemma ==
  ASSUME NEW s \in Streams, Before(s), Count(s)
  PROVE  StreamInv(s)'
<1>1. /\ pc[s] = "count" /\ pc'[s] = "emit" /\ count'[s] = count[s] + chunk[s].len
      /\ cut'[s] <=> Capped /\ count'[s] >= limit
  BY DEF Count, Goto, Before, Typing, Capped
<1>2. /\ written'[s] = written[s] /\ open'[s] = open[s] /\ pipe'[s] = pipe[s]
      /\ chunk'[s] = chunk[s] /\ sink'[s] = sink[s]
      /\ muted'[s] = muted[s] /\ live'[s] = live[s] /\ broken'[s] = broken[s]
  BY DEF Count, pipes, stream
<1>3. UNCHANGED <<limit, streaming, child, heirs, step>> /\ Uncollected(s)
  BY DEF Before
<1>4. Supplied(s) /\ Counted(s) /\ Carried(s) /\ Closing(s) /\ Collected(s) /\ Streamed(s)
  BY DEF Before, StreamInv
<1>c. Collected(s)' /\ ~(step <= At("start", s))
  <2>1. Collected(s)' /\ (step <= At("start", s) => pc'[s] = pc[s])
    BY <1>3, <1>4, CollectedFrame DEF Before, DrainerStep
  <2> QED
    BY <1>1, <2>1
<1>5. Supplied(s)'
  BY <1>1, <1>2, <1>4 DEF Supplied
<1>6. Counted(s)'
  <2>1. chunk[s] \in Chunks /\ Size(sink[s]) = count[s] + chunk[s].len
    BY <1>1, <1>4 DEF Counted
  <2>2. count'[s] \in Nat /\ Size(sink'[s]) = count'[s]
    BY <1>1, <1>2, <2>1 DEF Before, Typing
  <2>3. Size(sink'[s]) = count'[s] + 0
    BY <2>2
  <2> QED
    BY <1>1, <1>2, <1>3, <1>4, <2>1, <2>3 DEF Counted, Capped
<1>7. Carried(s)' /\ Closing(s)' /\ Streamed(s)'
  BY <1>1, <1>2, <1>3, <1>4, <1>c DEF Carried, InHand, Capped, Closing, Streamed
<1> QED
  BY <1>c, <1>5, <1>6, <1>7 DEF StreamInv

\* on_output comes back, with an exception or without.
LEMMA EmitLemma ==
  ASSUME NEW s \in Streams, Before(s), Emit(s) \/ SinkRaises(s)
  PROVE  StreamInv(s)'
<1>1. pc[s] = "emit" /\ pc'[s] = "read"
  BY DEF Emit, SinkRaises, Goto, Before, Typing
<1>2. /\ written'[s] = written[s] /\ open'[s] = open[s] /\ pipe'[s] = pipe[s]
      /\ sink'[s] = sink[s] /\ count'[s] = count[s] /\ cut'[s] = cut[s]
      /\ broken'[s] = broken[s]
  BY DEF Emit, SinkRaises, pipes, buffers
<1>3. UNCHANGED <<limit, streaming, child, heirs, step>> /\ Uncollected(s)
  BY DEF Before
<1>4. Supplied(s) /\ Counted(s) /\ Carried(s) /\ Closing(s) /\ Collected(s) /\ Streamed(s)
  BY DEF Before, StreamInv
<1>c. Collected(s)' /\ ~(step <= At("start", s))
  <2>1. Collected(s)' /\ (step <= At("start", s) => pc'[s] = pc[s])
    BY <1>3, <1>4, CollectedFrame DEF Before, DrainerStep
  <2> QED
    BY <1>1, <2>1
<1>5. Supplied(s)' /\ Counted(s)' /\ Carried(s)' /\ Closing(s)'
  BY <1>1, <1>2, <1>3, <1>4, <1>c DEF Supplied, Counted, Carried, InHand, Capped, Closing
<1>6. Streamed(s)'
  <2>t. Lines(sink[s]) \in Seq(Chunks) /\ chunk[s] \in Chunks
    BY <1>1, <1>4, StreamTypes DEF Before, Counted
  <2>1. CASE Emit(s)
    <3>1. muted'[s] = muted[s] /\ live'[s] = IF Emits(s) THEN Append(live[s], chunk[s]) ELSE live[s]
      BY <2>1 DEF Emit, Before, Typing
    <3>2. streaming /\ ~muted[s] =>
            Lines(sink[s]) = IF chunk[s].blank THEN live[s] ELSE Append(live[s], chunk[s])
      BY <1>1, <1>4 DEF Streamed
    <3>3. streaming /\ ~muted[s] => live'[s] = Lines(sink[s])
      BY <3>1, <3>2 DEF Emits
    <3>4. ~(streaming /\ ~muted[s]) => live'[s] = live[s]
      BY <3>1 DEF Emits
    <3>5. IsPrefix(live'[s], Lines(sink[s]))
      <4>1. IsPrefix(Lines(sink[s]), Lines(sink[s]))
        BY <2>t, PrefixLemma
      <4>2. IsPrefix(live[s], Lines(sink[s]))
        BY <1>4 DEF Streamed
      <4> QED
        BY <3>3, <3>4, <4>1, <4>2
    <3> QED
      BY <1>1, <1>2, <1>3, <3>1, <3>3, <3>5 DEF Streamed
  <2>2. CASE SinkRaises(s)
    <3>1. muted'[s] /\ live'[s] = live[s]
      BY <2>2 DEF SinkRaises, Before, Typing
    <3> QED
      BY <1>2, <1>3, <1>4, <3>1 DEF Streamed
  <2> QED
    BY <2>1, <2>2
<1> QED
  BY <1>c, <1>5, <1>6 DEF StreamInv

LEMMA CloseLemma ==
  ASSUME NEW s \in Streams, Before(s), Close(s)
  PROVE  StreamInv(s)'
<1>1. pc[s] = "close" /\ pc'[s] = "done" /\ ~open'[s] /\ pipe'[s] = <<>>
  BY DEF Close, Goto, Before, Typing
<1>2. /\ written'[s] = written[s] /\ chunk'[s] = chunk[s]
      /\ sink'[s] = sink[s] /\ count'[s] = count[s] /\ cut'[s] = cut[s]
      /\ muted'[s] = muted[s] /\ live'[s] = live[s] /\ broken'[s] = broken[s]
  BY DEF Close, buffers, stream
<1>3. UNCHANGED <<limit, streaming, child, heirs, step>> /\ Uncollected(s)
  BY DEF Before
<1>4. Supplied(s) /\ Counted(s) /\ Carried(s) /\ Closing(s) /\ Collected(s) /\ Streamed(s)
  BY DEF Before, StreamInv
<1>t. Len(pipe[s]) \in Nat /\ Len(written[s]) \in Nat /\ Len(sink[s]) \in Nat
  BY StreamTypes DEF Before
<1>c. Collected(s)' /\ ~(step <= At("start", s))
  <2>1. Collected(s)' /\ (step <= At("start", s) => pc'[s] = pc[s])
    BY <1>3, <1>4, CollectedFrame DEF Before, DrainerStep
  <2> QED
    BY <1>1, <2>1
<1>5. Supplied(s)'
  <2>1. Len(pipe'[s]) = 0
    BY <1>1
  <2> QED
    BY <1>1, <1>2, <1>4, <1>t, <2>1, FitLemma DEF Supplied
<1>6. Counted(s)' /\ Carried(s)' /\ Closing(s)' /\ Streamed(s)'
  BY <1>1, <1>2, <1>3, <1>4, <1>c DEF Counted, Carried, InHand, Capped, Closing, Streamed
<1> QED
  BY <1>c, <1>5, <1>6 DEF StreamInv

\* The runner's steps; each is of one stream and comes once.
LEMMA RunnerLemma ==
  ASSUME Typing, NEW s \in Streams, RunnerStep(s), NEW r \in Streams, StreamInv(r)
  PROVE  StreamInv(r)'
<1>1. /\ UNCHANGED <<limit, streaming, child, heirs>>
      /\ r # s => Untouched(r) /\ Uncollected(r)
      /\ ~StartDrainer(s) => Untouched(r)
  BY RunnerFrame
<1>2. Supplied(r) /\ Counted(r) /\ Carried(r) /\ Closing(r) /\ Collected(r) /\ Streamed(r)
  BY DEF StreamInv
<1>3. \A what \in {"start", "join", "text", "mark"} :
        Does(what, s) => step = At(what, s) /\ step' = step + 1
  BY ScriptLemma DEF Typing
<1>4. step \in Int /\ step' = step + 1
  BY <1>3 DEF RunnerStep, StartDrainer, Join, TakeText, AddMarker, Typing
<1>5. \A x \in Streams :
        /\ At("start", x) \in 1..2 /\ At("join", x) \in 4..5
        /\ At("text", x) \in 6..7 /\ At("mark", x) \in 8..9
  BY AtLemma
<1>6. \A what \in {"start", "join", "text", "mark"} : At(what, r) = At(what, s) => r = s
  BY DEF At, Streams
<1>7. ASSUME Untouched(r), Collected(r)', step' <= At("start", r) => step <= At("start", r)
      PROVE  StreamInv(r)'
  BY <1>1, <1>2, <1>7
     DEF StreamInv, Untouched, Supplied, Counted, Carried, InHand, Capped, Closing, Streamed
<1>8. step' <= At("start", r) => step <= At("start", r)
  BY <1>4, <1>5
<1>9. CASE StartDrainer(s)
  <2>1. step = At("start", s)
    BY <1>3, <1>9 DEF StartDrainer
  <2>2. ~(step' > At("join", r)) /\ ~(step' > At("text", r)) /\ ~(step' > At("mark", r))
    BY <1>4, <1>5, <2>1
  <2>3. Collected(r)'
    BY <2>2 DEF Collected
  <2>4. CASE r # s
    BY <1>1, <1>7, <1>8, <2>3, <2>4
  <2>5. CASE r = s
    <3>1. pc[r] = "off" /\ pc'[r] = "read" /\ ~(step' <= At("start", r))
      BY <1>2, <1>4, <1>5, <1>9, <2>1, <2>5 DEF Closing, StartDrainer, Goto, Typing
    <3>2. /\ written'[r] = written[r] /\ open'[r] = open[r] /\ pipe'[r] = pipe[r]
          /\ chunk'[r] = chunk[r] /\ sink'[r] = sink[r] /\ count'[r] = count[r]
          /\ cut'[r] = cut[r] /\ muted'[r] = muted[r] /\ live'[r] = live[r]
          /\ broken'[r] = broken[r]
      BY <1>9 DEF StartDrainer, pipes, buffers, stream
    <3> QED
      BY <1>1, <1>2, <2>3, <3>1, <3>2
         DEF StreamInv, Supplied, Counted, Carried, InHand, Capped, Closing, Streamed
  <2> QED
    BY <2>4, <2>5
<1>10. CASE Join(s)
  <2>1. step = At("join", s) /\ Untouched(r)
    BY <1>1, <1>3, <1>10 DEF Join, Does, StartDrainer, At
  <2>2. ~(step' > At("text", r)) /\ ~(step' > At("mark", r))
    BY <1>4, <1>5, <2>1
  <2>3. step' > At("join", r) /\ ~late'[r] => pc'[r] = "done"
    <3>1. CASE r = s
      BY <1>10, <2>1, <3>1 DEF Join, Typing, Untouched
    <3>2. CASE r # s
      <4>1. step' > At("join", r) => step > At("join", r)
        BY <1>4, <1>5, <1>6, <2>1, <3>2
      <4> QED
        BY <1>1, <1>2, <3>2, <4>1 DEF Collected, Untouched, Uncollected
    <3> QED
      BY <3>1, <3>2
  <2>4. Collected(r)'
    BY <2>2, <2>3 DEF Collected
  <2> QED
    BY <1>7, <1>8, <2>1, <2>4
<1>11. CASE TakeText(s)
  <2>1. step = At("text", s) /\ Untouched(r) /\ late' = late
    BY <1>1, <1>3, <1>11 DEF TakeText, Does, StartDrainer, At
  <2>2. ~(step' > At("mark", r)) /\ step > At("join", r)
    BY <1>4, <1>5, <2>1
  <2>3. step' > At("text", r) =>
          (~late'[r] => text'[r] = sink'[r]) /\ (Capped => Size(text'[r]) <= limit)
    <3>1. CASE r = s
      <4>1. text'[r] = sink[r]
        BY <1>11, <3>1 DEF TakeText, Typing
      <4> QED
        BY <1>2, <2>1, <4>1 DEF Untouched, Counted
    <3>2. CASE r # s
      <4>1. step' > At("text", r) => step > At("text", r)
        BY <1>4, <1>5, <1>6, <2>1, <3>2
      <4> QED
        BY <1>1, <1>2, <3>2, <4>1 DEF Collected, Untouched, Uncollected
    <3> QED
      BY <3>1, <3>2
  <2>4. Collected(r)'
    BY <1>1, <1>2, <2>1, <2>2, <2>3 DEF Collected, Untouched, Capped
  <2> QED
    BY <1>7, <1>8, <2>1, <2>4
<1>12. CASE AddMarker(s)
  <2>1. step = At("mark", s) /\ Untouched(r) /\ late' = late /\ text' = text
    BY <1>1, <1>3, <1>12 DEF AddMarker, Does, StartDrainer, At
  <2>2. step > At("join", r) /\ step > At("text", r)
    BY <1>4, <1>5, <2>1
  <2>3. step' > At("mark", r) /\ ~late[r] => (marked'[r] <=> cut'[r])
    <3>1. CASE r = s
      <4>1. marked'[r] = cut[r]
        BY <1>12, <3>1 DEF AddMarker, Typing
      <4> QED
        BY <2>1, <4>1 DEF Untouched
    <3>2. CASE r # s
      <4>1. step' > At("mark", r) => step > At("mark", r)
        BY <1>4, <1>5, <1>6, <2>1, <3>2
      <4> QED
        BY <1>1, <1>2, <3>2, <4>1 DEF Collected, Untouched, Uncollected
    <3> QED
      BY <3>1, <3>2
  <2>4. Collected(r)'
    BY <1>1, <1>2, <2>1, <2>2, <2>3 DEF Collected, Untouched, Capped
  <2> QED
    BY <1>7, <1>8, <2>1, <2>4
<1> QED
  BY <1>9, <1>10, <1>11, <1>12 DEF RunnerStep

LEMMA WaitLemma ==
  ASSUME Typing, Wait, NEW r \in Streams, StreamInv(r)
  PROVE  StreamInv(r)'
<1>1. step = 3 /\ step' = 4
  <2>1. Len(Script) = 9
    BY DEF Script
  <2>2. step \in 1..9 /\ Script[step] = [do |-> "wait", of |-> "both"] /\ step' = step + 1
    BY <2>1 DEF Wait, Does, Typing
  <2>3. Script[step].do = "wait"
    BY <2>2
  <2> QED
    BY <2>2, <2>3 DEF Script
<1>2. /\ UNCHANGED <<limit, streaming, child, heirs>>
      /\ Untouched(r) /\ Uncollected(r)
  BY DEF Wait, Untouched, Uncollected, given, procs, pipes, buffers, stream
<1>3. /\ ~(step' > At("join", r)) /\ ~(step' > At("text", r)) /\ ~(step' > At("mark", r))
      /\ ~(step' <= At("start", r))
  BY <1>1, AtLemma
<1>4. Supplied(r)' /\ Counted(r)' /\ Carried(r)' /\ Streamed(r)'
  BY <1>2 DEF StreamInv, Untouched, Supplied, Counted, Carried, InHand, Capped, Streamed
<1>5. Closing(r)' /\ Collected(r)'
  BY <1>2, <1>3 DEF StreamInv, Untouched, Closing, Collected
<1> QED
  BY <1>4, <1>5 DEF StreamInv

LEMMA WrittenLemma ==
  ASSUME DrainInv, [Next]_vars, Typing'
  PROVE  Written'
<1>1. ASSUME NEW s \in Streams, Write(s)
      PROVE  Written'
  <2>1. PICK c \in Chunks : written' = [written EXCEPT ![s] = Append(@, c)]
    BY <1>1 DEF Write
  <2>t. written["stdout"] \in Seq(Chunks) /\ written["stderr"] \in Seq(Chunks)
    BY DEF DrainInv, Typing, Streams
  <2>2. Len(written["stdout"]) + Len(written["stderr"]) < MaxWrites
    BY <1>1 DEF Write
  <2>3. \/ /\ Len(written'["stdout"]) = Len(written["stdout"]) + 1
           /\ Len(written'["stderr"]) = Len(written["stderr"])
        \/ /\ Len(written'["stdout"]) = Len(written["stdout"])
           /\ Len(written'["stderr"]) = Len(written["stderr"]) + 1
    <3>1. CASE s = "stdout"
      BY <2>1, <2>t, <3>1 DEF DrainInv, Typing, Streams
    <3>2. CASE s = "stderr"
      BY <2>1, <2>t, <3>2 DEF DrainInv, Typing, Streams
    <3> QED
      BY <3>1, <3>2 DEF Streams
  <2>4. \A a, b \in Nat : a + b < MaxWrites =>
          Fit(a + 1, 0, b, MaxWrites) /\ Fit(a, 0, b + 1, MaxWrites)
    BY BoundsAssumption DEF Fit
  <2>5. Len(written["stdout"]) \in Nat /\ Len(written["stderr"]) \in Nat
    BY <2>t
  <2>6. /\ Fit(Len(written["stdout"]) + 1, 0, Len(written["stderr"]), MaxWrites)
        /\ Fit(Len(written["stdout"]), 0, Len(written["stderr"]) + 1, MaxWrites)
    BY <2>2, <2>4, <2>5, Zenon
  <2> QED
    BY <2>3, <2>6, Zenon DEF Written
<1>2. CASE UNCHANGED written
  BY <1>2 DEF DrainInv, Written
<1>3. UNCHANGED written \/ \E s \in Streams : Write(s)
  BY StepCases DEF vars, ChildExits, HeirsExit, Wait, Read, ReadEnds, ReadFails, Drop, Keep,
     Count, Emit, SinkRaises, Close, StartDrainer, Join, TakeText, AddMarker, pipes
<1> QED
  BY <1>1, <1>2, <1>3

LEMMA DrainStep == DrainInv /\ [Next]_vars => DrainInv'
<1> SUFFICES ASSUME DrainInv, [Next]_vars
             PROVE  DrainInv'
  OBVIOUS
<1>1. Typing /\ Typing' /\ Written' /\ \A s \in Streams : StreamInv(s)
  BY TypingStep, WrittenLemma DEF DrainInv, StreamInv
<1> SUFFICES ASSUME NEW r \in Streams
             PROVE  StreamInv(r)'
  BY <1>1 DEF DrainInv, StreamInv
<1>2. CASE UNCHANGED vars \/ ChildExits \/ HeirsExit
  <2>1. /\ Untouched(r) /\ Uncollected(r) /\ UNCHANGED <<limit, streaming, step>>
        /\ UNCHANGED <<child, heirs>> \/ ChildExits \/ HeirsExit
    BY <1>2 DEF ChildExits, HeirsExit, Untouched, Uncollected, vars, given, procs, pipes,
                buffers, stream, runner
  <2> QED
    BY <1>1, <2>1, StreamFrame
<1>3. CASE Wait
  BY <1>1, <1>3, WaitLemma
<1>4. ASSUME NEW s \in Streams, DrainerStep(s)
      PROVE  StreamInv(r)'
  <2>1. /\ UNCHANGED <<limit, streaming, child, heirs, step>>
        /\ Uncollected(r) /\ (r # s => Untouched(r))
    BY <1>1, <1>4, DrainerFrame
  <2>2. CASE r # s
    BY <1>1, <2>1, <2>2, StreamFrame
  <2>3. CASE r = s
    <3>1. Before(s)
      BY <1>1, <2>1, <2>3 DEF Before
    <3> QED
      BY <1>4, <2>3, <3>1, WriteLemma, ReadLemma, LeaveLemma, KeepLemma, CountLemma,
         EmitLemma, CloseLemma DEF DrainerStep
  <2> QED
    BY <2>2, <2>3
<1>5. ASSUME NEW s \in Streams, RunnerStep(s)
      PROVE  StreamInv(r)'
  BY <1>1, <1>5, RunnerLemma
<1> QED
  BY <1>2, <1>3, <1>4, <1>5, StepCases DEF DrainerStep, RunnerStep

\* Every chunk a drainer has read is kept, dropped at the cap, or in its hand.
THEOREM DrainInvariant == Spec => []DrainInv
BY InitLemma, DrainStep, PTL DEF Spec

----------------------------------------------------------------------------
(* What follows from it *)

\* A text never outgrows its limit, nor, without one, what was written; the
\* counts and the buffers stay what they are (766-797).
THEOREM DrainTyping == Spec => []DrainTypeOK
<1>1. ASSUME DrainInv
      PROVE  DrainTypeOK
  <2>1. ASSUME NEW s \in Streams
        PROVE  count[s] \in 0..(IF limit = NoLimit THEN MaxLen * MaxWrites ELSE limit)
    <3>1. Supplied(s) /\ Counted(s) /\ Typing /\ Written
      BY <1>1, <2>1 DEF DrainInv
    <3>t. /\ count[s] \in Nat /\ limit \in Nat /\ MaxLen \in Nat /\ MaxWrites \in Nat
          /\ Len(pipe[s]) \in Nat /\ Len(written[s]) \in Nat /\ Len(sink[s]) \in Nat
          /\ Size(sink[s]) \in Int
      BY <3>1, StreamTypes, BoundsAssumption
    <3>2. count[s] <= Size(sink[s])
      <4>1. pc[s] = "count" => chunk[s].len \in Nat
        BY <3>1, ChunkLemma DEF Counted
      <4> QED
        BY <3>1, <3>t, <4>1 DEF Counted
    <3>3. limit # NoLimit => Size(sink[s]) <= limit
      BY <3>1 DEF Counted, Capped
    <3>4. Size(sink[s]) <= MaxLen * MaxWrites
      <4>1. Len(sink[s]) <= Len(written[s])
        BY <3>1, <3>t, FitLemma DEF Supplied
      <4>2. Len(written[s]) <= MaxWrites
        <5>1. Len(written["stdout"]) \in Nat /\ Len(written["stderr"]) \in Nat
          BY <3>1 DEF Typing, Streams
        <5>2. \A a, b \in Nat : Fit(a, 0, b, MaxWrites) => a <= MaxWrites /\ b <= MaxWrites
          BY <3>t DEF Fit
        <5>3. Len(written["stdout"]) <= MaxWrites /\ Len(written["stderr"]) <= MaxWrites
          BY <3>1, <5>1, <5>2 DEF Written
        <5> QED
          BY <5>3 DEF Streams
      <4>3. \A z \in Int : \A n, w \in Nat :
              z <= MaxLen * n /\ n <= w /\ w <= MaxWrites => z <= MaxLen * MaxWrites
        <5> SUFFICES ASSUME NEW z \in Int, NEW n \in Nat, NEW w \in Nat,
                            z <= MaxLen * n, n <= w, w <= MaxWrites
                     PROVE  z <= MaxLen * MaxWrites
          OBVIOUS
        <5>1. MaxLen * n <= MaxLen * MaxWrites
          BY <3>t
        <5> QED
          BY <3>t, <5>1
      <4>4. Size(sink[s]) <= MaxLen * Len(sink[s])
        BY <3>1 DEF Counted
      <4> QED
        BY <3>t, <4>1, <4>2, <4>3, <4>4, Zenon
    <3>5. MaxLen * MaxWrites \in Nat
      BY <3>t
    <3> QED
      BY <3>t, <3>2, <3>3, <3>4, <3>5
  <2>2. Typing
    BY <1>1 DEF DrainInv
  <2> QED
    BY <2>1, <2>2 DEF Typing, DrainTypeOK, Steps
<1> QED
  BY <1>1, DrainInvariant, PTL

\* The text is honest about what it lacks, whatever the limit and whoever is
\* late, broken or cut off (840-866).
THEOREM HonestText == Spec => []TextHonest
<1>1. ASSUME DrainInv, Returned, NEW s \in Streams
      PROVE  /\ limit # NoLimit => Size(text[s]) <= limit
             /\ marked[s] /\ ~late[s] => Size(text[s]) = limit
             /\ text[s] # written[s] => marked[s] \/ broken[s] \/ late[s]
  <2>1. Typing /\ Counted(s) /\ Carried(s) /\ Closing(s) /\ Collected(s)
    BY <1>1 DEF DrainInv
  <2>2. step = 10
    BY <1>1, <2>1, ScriptLemma DEF Typing
  <2>3. step > At("join", s) /\ step > At("text", s) /\ step > At("mark", s)
    BY <2>2, AtLemma
  <2>4. limit # NoLimit => Size(text[s]) <= limit
    BY <2>1, <2>3 DEF Collected, Capped
  <2>5. ASSUME ~late[s]
        PROVE  /\ pc[s] = "done" /\ text[s] = sink[s] /\ (marked[s] <=> cut[s])
               /\ Size(sink[s]) = count[s]
    <3>1. pc[s] = "done" /\ text[s] = sink[s] /\ (marked[s] <=> cut[s])
      BY <2>1, <2>3, <2>5 DEF Collected
    <3>2. count[s] \in Nat
      BY <2>1 DEF Typing
    <3> QED
      BY <2>1, <3>1, <3>2 DEF Counted
  <2>t. count[s] \in Nat /\ limit \in Nat
    BY <2>1, StreamTypes
  <2>6. marked[s] /\ ~late[s] => Size(text[s]) = limit
    BY <2>1, <2>5, <2>t DEF Counted, Capped
  <2>7. ASSUME ~marked[s], ~broken[s], ~late[s]
        PROVE  text[s] = written[s]
    <3>1. Capped => Size(sink[s]) < limit
      BY <2>1, <2>5, <2>7, <2>t DEF Counted
    <3>2. pipe[s] = <<>> /\ InHand(s) = <<>>
      BY <2>1, <2>5, <2>7 DEF Closing, InHand
    <3>3. (sink[s] \o <<>>) \o <<>> = written[s]
      BY <2>1, <2>7, <3>1, <3>2 DEF Carried
    <3>4. sink[s] \in Seq(Chunks)
      BY <2>1, StreamTypes
    <3>5. sink[s] \o <<>> = sink[s]
      BY <3>4
    <3> QED
      BY <2>5, <2>7, <3>3, <3>5
  <2> QED
    BY <2>4, <2>6, <2>7
<1>2. DrainInv => TextHonest
  BY <1>1 DEF TextHonest
<1> QED
  BY <1>2, DrainInvariant, PTL

\* The live view is the text without its blank lines, up to the line a sink
\* raised on (742-764).
THEOREM LiveIsText == Spec => []LiveAgrees
<1>1. DrainInv => LiveAgrees
  BY DEF DrainInv, Streamed, LiveAgrees
<1> QED
  BY <1>1, DrainInvariant, PTL

\* As long as anyone may write the pipe is open, unless reading it failed
\* (773-777, 793-804).
THEOREM OpenToWriters == Spec => []NeverCutOff
<1>1. DrainInv => NeverCutOff
  BY DEF DrainInv, Closing, NeverCutOff
<1> QED
  BY <1>1, DrainInvariant, PTL
=============================================================================
