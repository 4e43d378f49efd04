------------------------- MODULE MCSystraceParser -------------------------
(***************************************************************************)
(* Model-checking instance of SystraceParser.                              *)
(***************************************************************************)
EXTENDS SystraceParser

\* The event line of the comment in ParseSingleSystraceEvent:
\*   <idle>-0     (-----) [000] d..1 16500.715638: cpu_idle: state=0 cpu_id=0
MCIdleEvent ==
  [hasCpu |-> TRUE, tgid |-> TRUE, tgidOk |-> FALSE, parenInArgs |-> FALSE,
   cpuOk |-> TRUE, tsOk |-> TRUE, fn |-> "cpu_idle", argsOk |-> TRUE,
   stateOk |-> TRUE]

MCEventInfo == [e \in {"IdleEv"} |-> MCIdleEvent]

MCAlphabet == {"LT", "START", "END", "HASH", "NL", "IdleEv"}

\* Every stream of one to MCLength tokens.
MCLength == 5
MCAllStreams == UNION {[1..n -> MCAlphabet] : n \in 1..MCLength}
\* The second example line of that comment, without a tgid group:
\*   <idle>-0     [000] ...2     0.002188: task_newtask: pid=1 ...
MCNewTaskEvent ==
  [hasCpu |-> TRUE, tgid |-> FALSE, tgidOk |-> FALSE, parenInArgs |-> FALSE,
   cpuOk |-> TRUE, tsOk |-> TRUE, fn |-> "other", argsOk |-> TRUE,
   stateOk |-> TRUE]

MCExampleEventInfo == [e \in {"IdleEv", "NewTaskEv"} |->
                         IF e = "IdleEv" THEN MCIdleEvent ELSE MCNewTaskEvent]

\* A plain systrace: a "# tracer: nop" header and one example event line.
MCExampleTraces == {<<"HASH", "NL", "LT", e, "NL">> : e \in {"IdleEv", "NewTaskEv"}}

\* The same traces, and the idle example once more with its last line
\* left without a '\n'.
MCTailTraces == MCExampleTraces \cup {<<"HASH", "NL", "LT", "IdleEv">>}
=============================================================================
