--------------------------- MODULE SystraceParser ---------------------------
(***************************************************************************)
(* SystraceTraceParser of                                                  *)
(* src/trace_processor/importers/systrace/systrace_trace_parser.cc.        *)
(*                                                                         *)
(* Parse() receives a trace in chunks of arbitrary size.  It keeps the     *)
(* bytes after the last newline in partial_buf_, decides once whether the  *)
(* trace is HTML (first byte '<') or plain text, skips an HTML prologue up *)
(* to the trace-data <script> line, hands every complete line up to the    *)
(* closing </script> that does not start with '#' to                       *)
(* ParseSingleSystraceEvent, and ignores every chunk after that.           *)
(*                                                                         *)
(* The byte stream is abstracted to tokens: "LT" (a '<' that opens no      *)
(* marker, as in "<idle>"), "START" (the kSystraceStart marker), "END"     *)
(* ("</script>"), "HASH" ('#'), "NL" ('\n'), and a name in DOMAIN       *)
(* EventInfo for the body of an event line, whose fields EventInfo gives. *)
(* START and END begin with '<'.  Chunks are cut between tokens: since     *)
(* complete lines are only looked at once their newline has arrived, a    *)
(* cut inside a marker or a body reaches the same states as a cut next to *)
(* it.                                                                     *)
(***************************************************************************)
EXTENDS Integers, Sequences, SequencesExt

CONSTANTS
  EventInfo,  \* event body token -> the facts about its fields
  Inputs,     \* the token streams a trace may consist of
  MinChunk,   \* the smallest chunk handed to one Parse() call
  MaxChunk    \* the largest chunk handed to one Parse() call

ASSUME MaxChunk \in Nat \ {0} /\ MinChunk \in 0..MaxChunk

VARIABLES
  input,       \* the whole trace (fixed in a behaviour)
  delivered,   \* how many tokens of it Parse() has been given
  state,       \* state_
  partialBuf,  \* partial_buf_
  parsed,      \* the lines handed to ParseSingleSystraceEvent, in order
  tracked      \* the tracker calls ParseSingleSystraceEvent made, in order

vars == <<input, delivered, state, partialBuf, parsed, tracked>>

ParseStates == {"BeforeParse", "HtmlBeforeSystrace", "Systrace",
                "EndOfSystrace"}

\* Tokens whose first byte is '<'.
OpensWithLt == {"LT", "START", "END"}

IsEvent(t) == t \in DOMAIN EventInfo

(***************************************************************************)
(* ParseSingleSystraceEvent.  An event body is a record of the facts the   *)
(* code's searches find in it:                                            *)
(*   hasCpu       a '[' follows the task            (else "Could not find [") *)
(*   tgid         a "(...)" group comes before the '['                      *)
(*   tgidOk       that group holds a number (not "(-----)")                *)
(*   parenInArgs  a '(' occurs after the '['                               *)
(*   cpuOk, tsOk  the cpu and the timestamp convert                        *)
(*   fn           the event name                                           *)
(*   argsOk       the arguments fn needs convert (cpu_id for cpu_idle)     *)
(*   stateOk      cpu_idle's "state" argument converts                     *)
(***************************************************************************)
Fns == {"sched_switch", "print", "sched_wakeup", "cpu_idle", "other"}

\* The delimiter that ends the pid substring: the code takes
\* pid_end = has_tgid ? cpu_idx : tgid_idx, and tgid_idx is the first '('
\* after the task, or npos.
PidEnd(e) ==
  IF e.tgid THEN "cpu_bracket"
  ELSE IF e.parenInArgs THEN "args_paren" ELSE "end_of_line"

\* StringToUInt32 accepts the trimmed substring only if it is the pid
\* alone, i.e. it stops at the first delimiter after the pid.
PidParses(e) == PidEnd(e) = IF e.tgid THEN "tgid_paren" ELSE "cpu_bracket"

\* The tracker calls of the per-event dispatch on fn.
DispatchCalls(e) ==
  CASE e.fn = "sched_switch" ->
         IF e.argsOk THEN <<"PushSchedSwitch">> ELSE <<>>
    [] e.fn = "print" -> <<"ParsePrintEvent">>
    [] e.fn = "sched_wakeup" ->
         IF e.argsOk THEN <<"UpdateThreadName", "PushInstant">> ELSE <<>>
    [] e.fn = "cpu_idle" ->
         \* the second check tests event_cpu again, not new_state, so an
         \* unconvertible state reaches new_state.value() on an empty
         \* optional
         IF ~e.argsOk THEN <<>>
         ELSE IF e.stateOk THEN <<"PushCounter">>
                           ELSE <<"PushCounterOfEmptyState">>
    [] e.fn = "other" -> <<>>

\* The tracker calls ParseSingleSystraceEvent makes for one line.
ParseSingleSystraceEvent(line) ==
  LET evs == SelectSeq(line, IsEvent)
      e   == EventInfo[evs[1]]
  IN  IF evs = <<>> \/ ~e.hasCpu \/ ~PidParses(e) THEN <<>>
      ELSE <<"GetOrCreateThread">>
           \o (IF e.tgid /\ e.tgidOk THEN <<"UpdateThread">> ELSE <<>>)
           \o (IF e.cpuOk /\ e.tsOk THEN DispatchCalls(e) ELSE <<>>)

(***************************************************************************)
(* Parse.                                                                  *)
(***************************************************************************)
\* The position of the first newline of b, or 0.
FirstNewline(b) ==
  IF \E i \in 1..Len(b) : b[i] = "NL"
  THEN CHOOSE i \in 1..Len(b) : b[i] = "NL" /\ \A j \in 1..i - 1 : b[j] # "NL"
  ELSE 0

\* The line loop of Parse(): consumes the complete lines of b in state st,
\* appending the lines handed to ParseSingleSystraceEvent to out.  Returns
\* the state, the bytes left in the buffer and the lines handed over.
RECURSIVE ScanLines(_, _, _)
ScanLines(b, st, out) ==
  LET nl   == FirstNewline(b)
      line == SubSeq(b, 1, nl - 1)
      rest == SubSeq(b, nl + 1, Len(b))
  IN  IF nl = 0 THEN [state |-> st, buf |-> b, out |-> out]
      ELSE IF st = "HtmlBeforeSystrace"
      THEN ScanLines(rest, IF Contains(line, "START") THEN "Systrace" ELSE st,
                     out)
      ELSE IF Contains(line, "END")
      THEN [state |-> "EndOfSystrace", buf |-> b, out |-> out]
      ELSE ScanLines(rest, st,
                     IF line # <<>> /\ line[1] = "HASH" THEN out
                                                      ELSE Append(out, line))

\* Concatenation of the tracker calls of a sequence of lines.
CallsOf(lines) == FoldLeft(LAMBDA acc, l : acc \o ParseSingleSystraceEvent(l),
                           <<>>, lines)

Init ==
  /\ input \in Inputs
  /\ delivered = 0
  /\ state = "BeforeParse"
  /\ partialBuf = <<>>
  /\ parsed = <<>>
  /\ tracked = <<>>

\* The formats partial_buf_[0] == '<' may select.  On an empty buffer the
\* read is past the end of the vector: an indeterminate byte, either way.
FirstByteFormats(buf) ==
  IF buf = <<>> THEN {"HtmlBeforeSystrace", "Systrace"}
  ELSE {IF buf[1] \in OpensWithLt THEN "HtmlBeforeSystrace" ELSE "Systrace"}

\* Seeded fault: the format is decided again on every chunk.
FormatRedetected(st, buf) == FirstByteFormats(buf)

\* The format is decided on the first call only, from the first byte.
FormatOf(st, buf) ==
  IF st = "BeforeParse" THEN FirstByteFormats(buf) ELSE {st}

\* Seeded fault: the buffer is trimmed to the unscanned bytes even at the end.
BufferAfterScanNoClear(scan) == scan.buf

\* After the loop: nothing is kept once the trace data has ended, else the
\* bytes after the last complete line scanned.
BufferAfterScan(scan) ==
  IF scan.state = "EndOfSystrace" THEN <<>> ELSE scan.buf

\* Parse(owned_buf, size) after the closing </script>: the chunk is dropped.
ParseAfterEnd(size) ==
  /\ state = "EndOfSystrace"
  /\ delivered + size <= Len(input)
  /\ delivered' = delivered + size
  /\ UNCHANGED <<input, state, partialBuf, parsed, tracked>>

\* Parse(owned_buf, size): append the chunk, pick the format on the first
\* call, run the line loop, keep the unfinished line (or nothing after the
\* end of the trace data).
ParseChunk(size) ==
  /\ state # "EndOfSystrace"
  /\ delivered + size <= Len(input)
  /\ LET buf  == partialBuf \o SubSeq(input, delivered + 1, delivered + size)
     IN  \E fmt \in FormatOf(state, buf) :
           LET scan == ScanLines(buf, fmt, <<>>)
           IN  /\ state' = scan.state
               /\ partialBuf' = BufferAfterScan(scan)
               /\ parsed' = parsed \o scan.out
               /\ tracked' = tracked \o CallsOf(scan.out)
  /\ delivered' = delivered + size
  /\ UNCHANGED input

Next == \E size \in MinChunk..MaxChunk : ParseChunk(size) \/ ParseAfterEnd(size)

Spec == Init /\ [][Next]_vars

\* The reader goes on handing chunks to Parse() until the trace is read.
FairSpec == Spec /\ WF_vars(Next)

(***************************************************************************)
(* Reference: what a trace's complete lines say, independent of chunks.    *)
(***************************************************************************)
\* The complete (newline-terminated) lines of a token stream.
RECURSIVE Lines(_)
Lines(s) ==
  LET nl == FirstNewline(s)
  IN  IF nl = 0 THEN <<>>
      ELSE <<SubSeq(s, 1, nl - 1)>> \o Lines(SubSeq(s, nl + 1, Len(s)))

\* The lines before the first one satisfying P (all lines if none does).
LinesBefore(ls, P(_)) ==
  LET hits == {i \in 1..Len(ls) : P(ls[i])}
  IN  IF hits = {} THEN ls ELSE SubSeq(ls, 1, Min(hits) - 1)

\* The event lines of the trace prefix s: in an HTML trace those after the
\* trace-data <script> line, in a plain one all of them; up to the closing
\* </script>; without the '#' comment lines.
EventLines(s) ==
  LET ls     == Lines(s)
      isHtml == s # <<>> /\ s[1] \in OpensWithLt
      afterStart ==
        LET hits == {i \in 1..Len(ls) : Contains(ls[i], "START")}
        IN  IF hits = {} THEN <<>> ELSE SubSeq(ls, Min(hits) + 1, Len(ls))
      body   == IF isHtml THEN afterStart ELSE ls
  IN  SelectSeq(LinesBefore(body, LAMBDA l : Contains(l, "END")),
                LAMBDA l : l = <<>> \/ l[1] # "HASH")

\* The stream with its last line terminated: a trace whose last line has
\* no '\n' still ends with that line.
Terminated(s) == IF s # <<>> /\ s[Len(s)] # "NL" THEN Append(s, "NL") ELSE s

(***************************************************************************)
(* Properties.                                                             *)
(***************************************************************************)
\* Types; between calls partial_buf_ holds no complete line.
TypeOK ==
  /\ input \in Inputs
  /\ delivered \in 0..Len(input)
  /\ state \in ParseStates
  /\ partialBuf \in Seq(ToSet(input) \ {"NL"})
  /\ parsed \in Seq(Seq(ToSet(input)))
  /\ tracked \in Seq(STRING)

\* However the trace is cut into chunks, the lines handed to
\* ParseSingleSystraceEvent so far are exactly the event lines among the
\* complete lines delivered so far, and an unfinished line is kept whole
\* in partial_buf_ until its newline arrives.
ChunkingPreservesLines ==
  /\ parsed = EventLines(SubSeq(input, 1, delivered))
  /\ state # "EndOfSystrace" =>
       LET done == SubSeq(input, 1, delivered)
           nls  == {i \in 1..Len(done) : done[i] = "NL"}
       IN  partialBuf = SubSeq(done, IF nls = {} THEN 1 ELSE Max(nls) + 1,
                               Len(done))

\* The line holds an event body with a cpu field, the shape of both
\* example lines in the comment of ParseSingleSystraceEvent:
\*   <idle>-0     (-----) [000] d..1 16500.715638: cpu_idle: state=0 cpu_id=0
\*   <idle>-0     [000] ...2     0.002188: task_newtask: pid=1 ...
HasEventWithCpu(line) ==
  LET evs == SelectSeq(line, IsEvent)
  IN  evs # <<>> /\ EventInfo[evs[1]].hasCpu

\* Every event line handed to ParseSingleSystraceEvent in the documented
\* shape gets its thread created (GetOrCreateThread) before any other
\* field is looked at.
EventThreadsCreated ==
  Len(SelectSeq(tracked, LAMBDA c : c = "GetOrCreateThread")) =
    Len(SelectSeq(parsed, HasEventWithCpu))

\* Once the reader has handed over the whole trace, every event line of it
\* has reached ParseSingleSystraceEvent, the last one included whether or
\* not a '\n' ends it (Parse() only looks at a line once its newline has
\* arrived, and nothing flushes partial_buf_).
EveryLineEventuallyParsed ==
  <>[](parsed = EventLines(Terminated(input)))

=============================================================================
