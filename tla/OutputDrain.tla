----------------------------- MODULE OutputDrain -----------------------------
(***************************************************************************)
(* The output of one run of SubprocessRunner: two drainer threads that read*)
(* the child's pipes into capped buffers and stream what they keep, and the*)
(* runner that starts them, waits for the child, joins them for a bounded  *)
(* time and takes what they have (runners/subprocess_runner.py, 722-866).  *)
(*                                                                         *)
(* A chunk is what readline() returns: so many characters, possibly just a *)
(* line break.  The pipes are bounded, so a drainer that stops reading     *)
(* blocks the child; a descendant of the child may keep them open.         *)
(***************************************************************************)
EXTENDS Integers, SequencesExt

CONSTANTS
  Limits,      \* values of max_output_bytes; NoLimit for None
  MaxLen,      \* longest chunk
  MaxWrites,   \* bound on the chunks written to both pipes
  PipeSize     \* chunks that fit into a pipe

NoLimit == 0
ASSUME LimitsAssumption == Limits \subseteq Nat
ASSUME BoundsAssumption == {MaxLen, MaxWrites, PipeSize} \subseteq Nat \ {0}

Streams == {"stdout", "stderr"}
Chunks  == {c \in [len : 1..MaxLen, blank : BOOLEAN] : c.blank => c.len = 1}
NoChunk == [len |-> 0, blank |-> TRUE]

VARIABLES
  limit, streaming,   \* max_output_bytes, and whether on_output is given; fixed
  child, heirs,       \* pytest; descendants of it that hold its pipes
  pipe, written, open,
  pc, chunk,          \* drainers: step and chunk in hand
  sink, count, cut,   \* their chunks and their state[0] and state[1]
  muted, live,        \* emit_disabled, and what on_output has received
  broken,             \* the read side failed
  step, late,         \* the runner's step; joins that timed out
  text, marked        \* the text it returns, and whether the marker is added

given   == <<limit, streaming>>
procs   == <<child, heirs>>
pipes   == <<pipe, written, open>>
buffers == <<sink, count, cut>>
stream  == <<muted, live>>
runner  == <<step, late, text, marked>>
vars    == <<given, procs, pipes, pc, chunk, buffers, stream, broken, runner>>

\* What the runner does, in order.
Script ==
  <<[do |-> "start", of |-> "stdout"], [do |-> "start", of |-> "stderr"],
    [do |-> "wait",  of |-> "both"],
    [do |-> "join",  of |-> "stdout"], [do |-> "join",  of |-> "stderr"],
    [do |-> "text",  of |-> "stdout"], [do |-> "text",  of |-> "stderr"],
    [do |-> "mark",  of |-> "stdout"], [do |-> "mark",  of |-> "stderr"]>>

Returned == step > Len(Script)

\* How many characters chunks have, and which of them are more than a line break.
Size(chunks) ==
  LET size[n \in 0..Len(chunks)] == IF n = 0 THEN 0 ELSE size[n - 1] + chunks[n].len
  IN  size[Len(chunks)]

Lines(chunks) ==
  LET lines[n \in 0..Len(chunks)] ==
        IF n = 0 THEN <<>>
        ELSE IF chunks[n].blank THEN lines[n - 1] ELSE Append(lines[n - 1], chunks[n])
  IN  lines[Len(chunks)]

DrainTypeOK ==
  /\ limit \in Limits /\ streaming \in BOOLEAN
  /\ child \in {"running", "exited"} /\ heirs \in BOOLEAN
  /\ \A s \in Streams :
       /\ pipe[s] \in Seq(Chunks) /\ Len(pipe[s]) <= PipeSize
       /\ written[s] \in Seq(Chunks) /\ open[s] \in BOOLEAN
       /\ pc[s] \in {"off", "read", "keep", "count", "emit", "close", "done"}
       /\ chunk[s] \in Chunks \cup {NoChunk}
       /\ sink[s] \in Seq(Chunks) /\ cut[s] \in BOOLEAN
       /\ count[s] \in 0..(IF limit = NoLimit THEN MaxLen * MaxWrites ELSE limit)
       /\ muted[s] \in BOOLEAN /\ live[s] \in Seq(Chunks)
       /\ broken[s] \in BOOLEAN /\ late[s] \in BOOLEAN
       /\ text[s] \in Seq(Chunks) /\ marked[s] \in BOOLEAN
  /\ step \in 1..(Len(Script) + 1)

OfEach(value) == [s \in Streams |-> value]

Init ==
  /\ limit \in Limits /\ streaming \in BOOLEAN
  /\ child = "running" /\ heirs \in BOOLEAN
  /\ pipe = OfEach(<<>>) /\ written = OfEach(<<>>) /\ open = OfEach(TRUE)
  /\ pc = OfEach("off") /\ chunk = OfEach(NoChunk)
  /\ sink = OfEach(<<>>) /\ count = OfEach(0) /\ cut = OfEach(FALSE)
  /\ muted = OfEach(FALSE) /\ live = OfEach(<<>>)
  /\ broken = OfEach(FALSE) /\ step = 1 /\ late = OfEach(FALSE)
  /\ text = OfEach(<<>>) /\ marked = OfEach(FALSE)

----------------------------------------------------------------------------
(* pytest and its descendants *)

Write(s) ==
  /\ child = "running" \/ heirs
  /\ open[s] /\ Len(pipe[s]) < PipeSize
  /\ Len(written["stdout"]) + Len(written["stderr"]) < MaxWrites
  /\ \E c \in Chunks :
       /\ pipe' = [pipe EXCEPT ![s] = Append(@, c)]
       /\ written' = [written EXCEPT ![s] = Append(@, c)]
  /\ UNCHANGED <<given, procs, open, pc, chunk, buffers, stream, broken, runner>>

\* It ends by itself, or because the runner's timeout ended it.
ChildExits ==
  /\ child = "running" /\ child' = "exited"
  /\ UNCHANGED <<given, heirs, pipes, pc, chunk, buffers, stream, broken, runner>>

HeirsExit ==
  /\ heirs /\ heirs' = FALSE
  /\ UNCHANGED <<given, child, pipes, pc, chunk, buffers, stream, broken, runner>>

----------------------------------------------------------------------------
(* _drain(stream) *)

Goto(s, to) == pc' = [pc EXCEPT ![s] = to]

Room(s) == IF limit = NoLimit THEN MaxLen ELSE limit - count[s]

\* Bug: a drainer at its cap reads no further.
ReadToCap(s) ==
  /\ pc[s] = "read" /\ pipe[s] # <<>> /\ Room(s) > 0
  /\ chunk' = [chunk EXCEPT ![s] = Head(pipe[s])]
  /\ pipe' = [pipe EXCEPT ![s] = Tail(@)]
  /\ Goto(s, "keep")
  /\ UNCHANGED <<given, procs, written, open, buffers, stream, broken, runner>>

Read(s) ==
  /\ pc[s] = "read" /\ pipe[s] # <<>>
  /\ chunk' = [chunk EXCEPT ![s] = Head(pipe[s])]
  /\ pipe' = [pipe EXCEPT ![s] = Tail(@)]
  /\ Goto(s, "keep")
  /\ UNCHANGED <<given, procs, written, open, buffers, stream, broken, runner>>

ReadEnds(s) ==
  /\ pc[s] = "read" /\ pipe[s] = <<>> /\ child = "exited" /\ ~heirs
  /\ Goto(s, "close")
  /\ UNCHANGED <<given, procs, pipes, chunk, buffers, stream, broken, runner>>

\* Output that cannot be decoded (a ValueError), or an OSError.
ReadFails(s) ==
  /\ pc[s] = "read" /\ pipe[s] # <<>>
  /\ broken' = [broken EXCEPT ![s] = TRUE]
  /\ Goto(s, "close")
  /\ UNCHANGED <<given, procs, pipes, chunk, buffers, stream, runner>>

\* Bug: a drainer at its cap leaves its loop, which closes the pipe.
DropAndClose(s) ==
  /\ pc[s] = "keep" /\ Room(s) <= 0
  /\ chunk' = [chunk EXCEPT ![s] = NoChunk]
  /\ Goto(s, "close")
  /\ UNCHANGED <<given, procs, pipes, buffers, stream, broken, runner>>

\* At the cap: the chunk is dropped, the pipe still drained.
Drop(s) ==
  /\ pc[s] = "keep" /\ Room(s) <= 0
  /\ chunk' = [chunk EXCEPT ![s] = NoChunk]
  /\ Goto(s, "read")
  /\ UNCHANGED <<given, procs, pipes, buffers, stream, broken, runner>>

\* Bug: the chunk that crosses the cap is kept whole.
KeepWhole(s) ==
  /\ pc[s] = "keep" /\ Room(s) > 0
  /\ sink' = [sink EXCEPT ![s] = Append(@, chunk[s])]
  /\ Goto(s, "count")
  /\ UNCHANGED <<given, procs, pipes, chunk, count, cut, stream, broken, runner>>

\* The chunk, or the prefix of it that fits.
Keep(s) ==
  /\ pc[s] = "keep" /\ Room(s) > 0
  /\ LET kept == [chunk[s] EXCEPT !.len = IF @ <= Room(s) THEN @ ELSE Room(s)]
     IN  /\ chunk' = [chunk EXCEPT ![s] = kept]
         /\ sink' = [sink EXCEPT ![s] = Append(@, kept)]
  /\ Goto(s, "count")
  /\ UNCHANGED <<given, procs, pipes, count, cut, stream, broken, runner>>

\* Bug: only a chunk that crosses the cap sets the flag; one that reaches it
\* exactly does not, though all that follows is dropped.
CountCrossing(s) ==
  /\ pc[s] = "count"
  /\ count' = [count EXCEPT ![s] = @ + chunk[s].len]
  /\ cut' = [cut EXCEPT ![s] = limit # NoLimit /\ count'[s] > limit]
  /\ Goto(s, "emit")
  /\ UNCHANGED <<given, procs, pipes, chunk, sink, stream, broken, runner>>

\* The text is appended before it is counted.
Count(s) ==
  /\ pc[s] = "count"
  /\ count' = [count EXCEPT ![s] = @ + chunk[s].len]
  /\ cut' = [cut EXCEPT ![s] = limit # NoLimit /\ count'[s] >= limit]
  /\ Goto(s, "emit")
  /\ UNCHANGED <<given, procs, pipes, chunk, sink, stream, broken, runner>>

Emits(s) == streaming /\ ~muted[s] /\ ~chunk[s].blank

\* Bug: blank lines are streamed too.
EmitBlank(s) ==
  /\ pc[s] = "emit"
  /\ live' = [live EXCEPT ![s] = IF streaming /\ ~muted[s] THEN Append(@, chunk[s]) ELSE @]
  /\ chunk' = [chunk EXCEPT ![s] = NoChunk]
  /\ Goto(s, "read")
  /\ UNCHANGED <<given, procs, pipes, buffers, muted, broken, runner>>

Emit(s) ==
  /\ pc[s] = "emit"
  /\ live' = [live EXCEPT ![s] = IF Emits(s) THEN Append(@, chunk[s]) ELSE @]
  /\ chunk' = [chunk EXCEPT ![s] = NoChunk]
  /\ Goto(s, "read")
  /\ UNCHANGED <<given, procs, pipes, buffers, muted, broken, runner>>

\* on_output raises: no more lines for it, the draining goes on.
SinkRaises(s) ==
  /\ pc[s] = "emit" /\ Emits(s)
  /\ muted' = [muted EXCEPT ![s] = TRUE]
  /\ chunk' = [chunk EXCEPT ![s] = NoChunk]
  /\ Goto(s, "read")
  /\ UNCHANGED <<given, procs, pipes, buffers, live, broken, runner>>

Close(s) ==
  /\ pc[s] = "close"
  /\ open' = [open EXCEPT ![s] = FALSE]
  /\ pipe' = [pipe EXCEPT ![s] = <<>>]
  /\ Goto(s, "done")
  /\ UNCHANGED <<given, procs, written, chunk, buffers, stream, broken, runner>>

Drain(s) ==
  \/ Read(s) \/ ReadEnds(s) \/ Drop(s) \/ Keep(s) \/ Count(s)
  \/ Emit(s) \/ SinkRaises(s) \/ Close(s)

----------------------------------------------------------------------------
(* _run_locked(), from the start of the drainers to the text it returns *)

Does(what, s) ==
  /\ step <= Len(Script) /\ Script[step] = [do |-> what, of |-> s]
  /\ step' = step + 1

StartDrainer(s) ==
  /\ Does("start", s)
  /\ Goto(s, "read")
  /\ UNCHANGED <<given, procs, pipes, chunk, buffers, stream, broken, late, text, marked>>

Wait ==
  /\ Does("wait", "both") /\ child = "exited"
  /\ UNCHANGED <<given, procs, pipes, pc, chunk, buffers, stream, broken, late, text, marked>>

\* Bug: join() without a timeout.
JoinForever(s) ==
  /\ Does("join", s)
  /\ pc[s] = "done"
  /\ UNCHANGED <<given, procs, pipes, pc, chunk, buffers, stream, broken, late, text, marked>>

\* A drainer that is not done in time is left to itself.
Join(s) ==
  /\ Does("join", s)
  /\ late' = [late EXCEPT ![s] = pc[s] # "done"]
  /\ UNCHANGED <<given, procs, pipes, pc, chunk, buffers, stream, broken, text, marked>>

TakeText(s) ==
  /\ Does("text", s)
  /\ text' = [text EXCEPT ![s] = sink[s]]
  /\ UNCHANGED <<given, procs, pipes, pc, chunk, buffers, stream, broken, late, marked>>

AddMarker(s) ==
  /\ Does("mark", s)
  /\ marked' = [marked EXCEPT ![s] = cut[s]]
  /\ UNCHANGED <<given, procs, pipes, pc, chunk, buffers, stream, broken, late, text>>

Run ==
  \/ \E s \in Streams : StartDrainer(s) \/ Join(s) \/ TakeText(s) \/ AddMarker(s)
  \/ Wait

\* The caller has its text; drainers may linger on what a descendant holds.
Over == Returned /\ UNCHANGED vars

Next ==
  \/ \E s \in Streams : Write(s) \/ Drain(s) \/ ReadFails(s)
  \/ ChildExits \/ HeirsExit
  \/ Run
  \/ Over

\* Threads are scheduled and readline() returns what there is; on_output comes
\* back, with an exception or without.  The child need not write nor exit, and
\* no read need fail.
Fairness == WF_vars(Run) /\ \A s \in Streams : WF_vars(Drain(s))

Spec == Init /\ [][Next]_vars /\ Fairness

----------------------------------------------------------------------------
(* What the run promises of its output *)

\* The live view is the captured text without its blank lines, up to the line
\* a sink raised on (lines 742-764).
LiveAgrees ==
  \A s \in Streams :
    /\ IsPrefix(live[s], Lines(sink[s]))
    /\ streaming /\ ~muted[s] /\ pc[s] \in {"read", "keep", "close", "done"} =>
         live[s] = Lines(sink[s])

\* The text is honest about what it lacks.  It is never longer than the limit;
\* text that carries the marker has the length the marker names, though the cap
\* fell inside a chunk; and what was written and is not in it is owned up to:
\* by the marker, by a drainer that failed, or by one that was still busy when
\* its time was up (766-797, 840-866).
TextHonest ==
  Returned =>
    \A s \in Streams :
      /\ limit # NoLimit => Size(text[s]) <= limit
      /\ marked[s] /\ ~late[s] => Size(text[s]) = limit
      /\ text[s] # written[s] => marked[s] \/ broken[s] \/ late[s]

\* pytest is never cut off from its reader: as long as anyone may write, the
\* pipe is open, unless reading it failed (773-777, 793-804).
NeverCutOff ==
  \A s \in Streams : ~open[s] => broken[s] \/ (child = "exited" /\ ~heirs)

\* Nor does it block on a full pipe: the drainer goes on, past the cap and past
\* a sink that raised (753-764, 773-777).
NeverBlocked ==
  \A s \in Streams :
    (step > 2 /\ Len(pipe[s]) = PipeSize) ~> (Len(pipe[s]) < PipeSize)

\* When pytest is gone the run returns, even if a descendant keeps the pipes
\* open for ever (840-847).
Returns == (step > 2 /\ child = "exited") ~> Returned
=============================================================================
