------------------------------ MODULE Metrics ------------------------------
(***************************************************************************)
(* stl-telemetry's metrics: a loader which caches the metrics it creates,  *)
(* and gauges whose last observations are handed over at each collection,  *)
(* once the effects of the library which loaded them ran.                  *)
(*                                                                         *)
(* Libraries load lists of instruments, shared by name. Counters and       *)
(* histograms hand values over as they come, and are one kind here. A      *)
(* gauge has one set of attributes.                                        *)
(***************************************************************************)
EXTENDS Naturals, Sequences, FiniteSets

MetricSeqs == INSTANCE SequencesExt

CONSTANTS
  Libraries,  \* the lists of instruments, [name, kind, variant] each
  MaxMetrics, \* bounds the metrics created,
  MaxLoads,   \* the loads which return,
  MaxValues,  \* the observations
  MaxRuns     \* and the collections under way at once

Instruments == [name : STRING, kind : {"counter", "gauge"}, variant : Nat]

ASSUME MetricsAssumption ==
  /\ Libraries \subseteq Seq(Instruments)
  /\ MaxMetrics \in Nat /\ MaxLoads \in Nat /\ MaxValues \in Nat /\ MaxRuns \in Nat

VARIABLES
  entries,    \* metricEntries: the cached [instrument, metric], metrics being
              \* numbered as they are created
  gauges,     \* the metrics which are gauges
  registered, \* callbackEntries, each as [gauges, effects], with the effects
              \* of the load which made it: how many onCollection was given
  loads,      \* what load returned: [metrics, effects], by index of effects
  effects,    \* of each load, how many were collected
  runs,       \* the collections under way: [gauges, pending]
  values,     \* a gauge's value, 0 without
  observed,   \* how many values were
  threw,      \* history: the metrics created by a load which threw
  exported,   \* history: of each gauge, the values handed over
  latest,     \* history: of each gauge, the last value observed, 0 without
  lastMetric  \* the metric created last

metricsVars == <<entries, gauges, registered, loads, effects, runs, values, observed,
                 threw, exported, latest, lastMetric>>

Metrics == 1 .. MaxMetrics

-----------------------------------------------------------------------------
(* Loading *)

\* One instrument after those before: found in the cache, if it was created
\* alike, or created and cached at once.
LoadOne(so, instrument) ==
  LET cached == {e \in so.entries : e.instrument.name = instrument.name}
      metric == so.next
  IN IF so.throws THEN so
     ELSE IF cached # {}
     THEN LET e == CHOOSE e \in cached : TRUE
          IN [so EXCEPT !.throws = e.instrument # instrument,
                        !.metrics = @ \cup {e.metric}]
     ELSE [so EXCEPT !.entries = @ \cup {[instrument |-> instrument, metric |-> metric]},
                     !.metrics = @ \cup {metric}, !.created = @ \cup {metric},
                     !.newGauges = IF instrument.kind = "gauge" THEN @ \cup {metric} ELSE @,
                     !.next = @ + 1]

Loaded(instruments, first) ==
  LET L[n \in 0 .. Len(instruments)] ==
        IF n = 0
        THEN [entries |-> entries, metrics |-> {}, created |-> {}, newGauges |-> {},
              next |-> first, throws |-> FALSE]
        ELSE LoadOne(L[n - 1], instruments[n])
  IN L[Len(instruments)]

CollectedBy(so) == so.newGauges

\* load: a load which throws has cached what it created before.
Load ==
  \E instruments \in Libraries :
    /\ Len(loads) < MaxLoads
    /\ LET so == Loaded(instruments, lastMetric + 1)
       IN
       /\ so.next - 1 <= MaxMetrics
       /\ entries' = so.entries /\ lastMetric' = so.next - 1
       /\ gauges' = gauges \cup so.newGauges
       /\ IF so.throws
          THEN /\ threw' = threw \cup so.created
               /\ UNCHANGED <<registered, loads, effects>>
          ELSE /\ loads' = Append(loads, so.metrics) /\ effects' = Append(effects, 0)
               /\ registered' = IF so.newGauges = {} THEN registered
                                ELSE registered \cup
                                  {[gauges |-> CollectedBy(so), load |-> Len(loads) + 1]}
               /\ UNCHANGED threw
       /\ UNCHANGED <<runs, values, observed, exported, latest>>

\* onCollection, and the function it returns.
OnCollection ==
  \E l \in DOMAIN loads :
    /\ \/ effects[l] = 0 /\ effects' = [effects EXCEPT ![l] = 1]
       \/ effects[l] > 0 /\ effects' = [effects EXCEPT ![l] = 0]
    /\ UNCHANGED <<entries, gauges, registered, loads, runs, values, observed, threw,
                   exported, latest, lastMetric>>

\* reset, which bootstrap's telemetry calls: clients may hold metrics still.
ResetAll == registered' = {} /\ entries' = {}
Reset ==
  /\ ResetAll
  /\ UNCHANGED <<gauges, loads, effects, runs, values, observed, threw, exported,
                 latest, lastMetric>>

-----------------------------------------------------------------------------
(* Observing and collecting *)

\* observe, by a client or by one of its effects.
Observe ==
  \E g \in gauges :
    /\ observed < MaxValues /\ observed' = observed + 1
    /\ values' = [values EXCEPT ![g] = observed + 1]
    /\ latest' = [latest EXCEPT ![g] = observed + 1]
    /\ UNCHANGED <<entries, gauges, registered, loads, effects, runs, threw, exported,
                   lastMetric>>

\* The meter calls a callback, which calls its effects.
Collect ==
  \E c \in registered :
    /\ Len(runs) < MaxRuns
    /\ runs' = Append(runs, [gauges |-> c.gauges, pending |-> effects[c.load]])
    /\ UNCHANGED <<entries, gauges, registered, loads, effects, values, observed, threw,
                   exported, latest, lastMetric>>

\* Mutant: what was observed before an effect failed is forgotten.
EffectEndsForgetting ==
  \E i \in DOMAIN runs :
    /\ runs[i].pending > 0
    /\ \/ runs' = [runs EXCEPT ![i].pending = @ - 1] /\ UNCHANGED values
       \/ /\ runs' = MetricSeqs!RemoveAt(runs, i)
          /\ values' = [g \in Metrics |-> IF g \in runs[i].gauges THEN 0 ELSE values[g]]
    /\ UNCHANGED <<entries, gauges, registered, loads, effects, observed, threw,
                   exported, latest, lastMetric>>
\* An effect's promise resolves, or rejects: the collection ends without any
\* value (collectionError).
EffectEnds ==
  \E i \in DOMAIN runs :
    /\ runs[i].pending > 0
    /\ \/ runs' = [runs EXCEPT ![i].pending = @ - 1]
       \/ runs' = MetricSeqs!RemoveAt(runs, i)
    /\ UNCHANGED <<entries, gauges, registered, loads, effects, values, observed, threw,
                   exported, latest, lastMetric>>

\* Mutant: values are kept.
HandOverAndKeep(gs) ==
  /\ exported' = [g \in Metrics |->
       IF g \in gs /\ values[g] # 0 THEN Append(exported[g], values[g]) ELSE exported[g]]
  /\ UNCHANGED values
\* WrappedGauge.collect, of some gauges.
HandOver(gs) ==
  /\ exported' = [g \in Metrics |->
       IF g \in gs /\ values[g] # 0 THEN Append(exported[g], values[g]) ELSE exported[g]]
  /\ values' = [g \in Metrics |-> IF g \in gs THEN 0 ELSE values[g]]

EffectsEnded ==
  \E i \in DOMAIN runs :
    /\ runs[i].pending = 0
    /\ HandOver(runs[i].gauges)
    /\ runs' = MetricSeqs!RemoveAt(runs, i)
    /\ UNCHANGED <<entries, gauges, registered, loads, effects, observed, threw, latest,
                   lastMetric>>

-----------------------------------------------------------------------------
MetricsInit ==
  /\ entries = {} /\ gauges = {} /\ registered = {} /\ loads = <<>> /\ effects = <<>>
  /\ runs = <<>> /\ values = [g \in Metrics |-> 0] /\ observed = 0
  /\ threw = {} /\ exported = [g \in Metrics |-> <<>>]
  /\ latest = [g \in Metrics |-> 0] /\ lastMetric = 0

MetricsNext ==
  \/ Load \/ OnCollection \/ Reset \/ Observe \/ Collect \/ EffectEnds \/ EffectsEnded

MetricsSpec == MetricsInit /\ [][MetricsNext]_metricsVars

-----------------------------------------------------------------------------
(* Properties *)

\* Of a gauge, one callback hands the values over, and only while the gauge is
\* cached; none does for the gauges of a load which threw, which later loads
\* get from the cache (MetricLoader.load, reset).
CollectedByOne ==
  /\ \A e \in entries :
       e.metric \in gauges \ threw =>
         Cardinality({c \in registered : e.metric \in c.gauges}) = 1
  /\ \A c \in registered : c.gauges \subseteq {e.metric : e \in entries} \ threw

\* "The last observation will be used during each metric collection"
\* (metrics.ts:254): every cached gauge is collected. Refuted: one whose load
\* threw on an instrument after it never is.
EveryGaugeCollected ==
  \A e \in entries : e.metric \in gauges => \E c \in registered : e.metric \in c.gauges

\* However collections overlap and their effects fail, a value is handed over
\* once at most, values in the order they were observed (WrappedGauge).
HandedOverInOrder ==
  \A g \in Metrics :
    /\ \A i, j \in DOMAIN exported[g] : i < j => exported[g][i] < exported[g][j]
    /\ values[g] # 0 => \A i \in DOMAIN exported[g] : exported[g][i] < values[g]

\* "The last observation will be used during each metric collection"
\* (metrics.ts:254): the last value observed of a gauge is the one the next
\* collection hands over, or the one handed over last. None is lost by a
\* collection which fails or overlaps another, only those replaced by a later
\* value before a collection are never handed over.
LastIsKept ==
  \A g \in Metrics :
    \/ values[g] = latest[g]
    \/ /\ values[g] = 0 /\ exported[g] # <<>>
       /\ exported[g][Len(exported[g])] = latest[g]

\* A value is handed over once at most, in order and by the one who collects
\* its gauge, and the last one observed is kept until it is.
HandedOverOnce == CollectedByOne /\ HandedOverInOrder /\ LastIsKept
=============================================================================
