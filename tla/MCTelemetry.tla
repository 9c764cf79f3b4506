---------------------------- MODULE MCTelemetry ----------------------------
(***************************************************************************)
(* stl-telemetry for TLC.  Its parts share no state: each behaviour is of  *)
(* one part, the others rest.                                              *)
(***************************************************************************)
EXTENDS ActiveSpan, Recording, Metrics, Logging

CONSTANTS g1, g2, g3

VARIABLE part

ThreeGenerators == {g1, g2, g3}

Gauge(n, v) == [name |-> n, kind |-> "gauge", variant |-> v]
Counter(n, v) == [name |-> n, kind |-> "counter", variant |-> v]

\* Two libraries share a gauge; one of the counters has two variants.
SomeLibraries ==
  {<<Gauge("g", 1), Gauge("h", 1)>>, <<Gauge("g", 1), Counter("c", 1)>>,
   <<Gauge("h", 1), Counter("c", 2)>>}

Item(g, l) == [glob |-> g, level |-> l]
SomeGlobs == [all |-> {"ab", "b"}, a |-> {"ab"}]
SomeSpecs ==
  {<<>>, <<Item("default", 30), Item("a", 10)>>, <<Item("all", 20), Item("a", 50)>>,
   <<Item("a", 10), Item("default", 30)>>}
SomeContexts == [quiet |-> 0, verbose |-> 10, terse |-> 50]

-----------------------------------------------------------------------------
LoggingRests ==
  /\ specs = [kind \in {"library", "output"} |-> <<>>]
  /\ loggers = <<[lib |-> "b", ctx |-> NoCtx, parent |-> 0, given |-> NoCtx]>>
  /\ activeCtx = NoCtx /\ messages = <<>> /\ logRecords = <<>> /\ output = <<>>

TelemetryInit ==
  /\ part \in {"span", "recording", "metrics", "logging"}
  /\ Init /\ (part = "span" \/ (recording /\ ~skipOk))
  /\ RecordingInit /\ MetricsInit
  /\ IF part = "logging" THEN LoggingInit ELSE LoggingRests

TelemetryNext ==
  /\ part' = part
  /\ \/ part = "span" /\ Next /\ UNCHANGED <<recordingVars, metricsVars, loggingVars>>
     \/ part = "recording" /\ RecordingNext /\ UNCHANGED <<vars, metricsVars, loggingVars>>
     \/ part = "metrics" /\ MetricsNext /\ UNCHANGED <<vars, recordingVars, loggingVars>>
     \/ part = "logging" /\ LoggingNext /\ UNCHANGED <<vars, recordingVars, metricsVars>>

telemetryVars == <<part, vars, recordingVars, metricsVars, loggingVars>>

\* No job is there to run while the recording rests.
TelemetrySpec ==
  TelemetryInit /\ [][TelemetryNext]_telemetryVars /\ RecordingFairness
=============================================================================
