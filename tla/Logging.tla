------------------------------ MODULE Logging ------------------------------
(***************************************************************************)
(* stl-telemetry's loggers (logging/loggers.ts): a message is logged if it *)
(* reaches its library's level, or that of the operation it is logged in.  *)
(* Libraries' levels come from a spec of globs (GlobMapper, stl-utils'     *)
(* strings.ts).  Recording loggers keep what is logged and output what     *)
(* also reaches the level which the environment gives the library.         *)
(***************************************************************************)
EXTENDS Naturals, Sequences

CONSTANTS
  Libs,          \* the libraries
  Globs,         \* each glob's set of libraries
  Specs,         \* lists of [glob, level], Default for the glob of an item
                 \* without one
  FallbackLevel, \* fallbackLevelNumber
  LogLevels,
  Contexts,      \* the span contexts: the level in their trace state, 0 without
  MaxLoggers, MaxMessages

Default == "default"
NoCtx == "none"
Recorded == "recorded"

ASSUME LoggingAssumption ==
  /\ Specs \subseteq Seq([glob : DOMAIN Globs \cup {Default}, level : Nat])
  /\ FallbackLevel \in Nat /\ LogLevels \subseteq Nat
  /\ \A ctx \in DOMAIN Contexts : Contexts[ctx] \in Nat

VARIABLES
  specs,    \* the "library" and "output" specs
  loggers,  \* RealLogger: [lib, ctx], its span context or NoCtx; history: the
            \* logger it is a child of, and the context given then
  activeCtx,
  messages, \* history: the messages, [lib, level, ctx], and whether and where
            \* they were logged
  logRecords, \* the messages recorded since the last reset, by index
  output

loggingVars == <<specs, loggers, activeCtx, messages, logRecords, output>>

-----------------------------------------------------------------------------
(* Libraries' levels *)

LastIn(places) == CHOOSE i \in places : \A j \in places : j <= i

\* forSpec: a Map of globs, where an item replaces the value of an earlier one
\* with the same glob and keeps its place.
Places(spec) ==
  {i \in DOMAIN spec : spec[i].glob # Default /\ \A j \in 1 .. i - 1 : spec[j].glob # spec[i].glob}
LastValue(spec, glob) == spec[LastIn({i \in DOMAIN spec : spec[i].glob = glob})].level

\* The default of a mapper, 0 without: the last one.
MapperFallback(spec) ==
  IF \E i \in DOMAIN spec : spec[i].glob = Default THEN LastValue(spec, Default) ELSE 0

\* map.
MapTo(spec, lib) ==
  LET matching == {i \in Places(spec) : lib \in Globs[spec[i].glob]}
  IN IF matching = {} THEN MapperFallback(spec) ELSE LastValue(spec, spec[LastIn(matching)].glob)

\* logThresholder.
Threshold(spec, lib) ==
  LET level == MapTo(spec, lib) IN IF level = 0 THEN FallbackLevel ELSE level

-----------------------------------------------------------------------------
(* Loggers *)

ActiveLevel(ctx) == IF ctx = NoCtx THEN 0 ELSE Contexts[ctx]
CtxOr(ctx, other) == IF ctx = NoCtx THEN other ELSE ctx

ContextOf(logger) == CtxOr(logger.ctx, activeCtx)

ShouldLogAt(logger, level, ctx) ==
  LET min == Threshold(specs["library"], logger.lib)
      op == ActiveLevel(CtxOr(ctx, ContextOf(logger)))
  IN level >= IF op # 0 /\ op < min THEN op ELSE min

\* Mutant: children keep their parent's.
ChildCtxOld(logger, ctx) == CtxOr(logger.ctx, ctx)
ChildCtx(logger, ctx) == CtxOr(ctx, logger.ctx)

Child(i, ctx) ==
  /\ Len(loggers) < MaxLoggers
  /\ loggers' = Append(loggers, [lib |-> loggers[i].lib, ctx |-> ChildCtx(loggers[i], ctx),
                                  parent |-> i, given |-> ctx])
  /\ UNCHANGED <<specs, activeCtx, messages, logRecords, output>>

\* The message's context is its own, or its logger's, or the active span's.
LogAt(i, level, ctx) ==
  LET logger == loggers[i]
      logged == CtxOr(ctx, ContextOf(logger))
      at == IF ShouldLogAt(logger, level, logged) THEN Recorded ELSE "dropped"
  IN /\ Len(messages) < MaxMessages
     /\ messages' = Append(messages, [lib |-> logger.lib, level |-> level, ctx |-> logged,
                                      by |-> i, own |-> ctx, active |-> activeCtx, at |-> at])
     /\ logRecords' = IF at = Recorded THEN Append(logRecords, Len(messages')) ELSE logRecords
     /\ output' = IF at = Recorded /\ level >= Threshold(specs["output"], logger.lib)
                  THEN Append(output, Len(messages')) ELSE output
     /\ UNCHANGED <<specs, loggers, activeCtx>>

Activate(ctx) ==
  /\ activeCtx' = ctx
  /\ UNCHANGED <<specs, loggers, messages, logRecords, output>>

ResetLogs ==
  /\ logRecords' = <<>>
  /\ UNCHANGED <<specs, loggers, activeCtx, messages, output>>

CtxOptions == DOMAIN Contexts \cup {NoCtx}

\* A telemetry's logger, of one library.
LoggingInit ==
  /\ specs \in [{"library", "output"} -> Specs]
  /\ loggers \in {<<[lib |-> lib, ctx |-> NoCtx, parent |-> 0, given |-> NoCtx]>> : lib \in Libs}
  /\ activeCtx = NoCtx /\ messages = <<>> /\ logRecords = <<>> /\ output = <<>>

LoggingNext ==
  \/ \E i \in DOMAIN loggers, ctx \in CtxOptions :
       Child(i, ctx) \/ \E level \in LogLevels : LogAt(i, level, ctx)
  \/ \E ctx \in CtxOptions : Activate(ctx)
  \/ ResetLogs

LoggingSpec == LoggingInit /\ [][LoggingNext]_loggingVars

-----------------------------------------------------------------------------
(* Properties *)

\* The level of the last item which matches, an item without a glob being
\* one for all libraries, as GlobMapper's comment says.
LastMatching(spec, lib) ==
  LET matching == {i \in DOMAIN spec :
                     spec[i].glob = Default \/ lib \in Globs[spec[i].glob]}
  IN IF matching = {} THEN 0 ELSE spec[LastIn(matching)].level

\* Its globs are distinct and its default, if any, comes first.
Ordered(spec) ==
  \A i, j \in DOMAIN spec :
    /\ i # j => spec[i].glob # spec[j].glob
    /\ spec[i].glob = Default => i = 1

\* The context given to the nearest logger among i and its ancestors.
NearestCtx[i \in 0 .. Len(loggers)] ==
  IF i = 0 THEN NoCtx ELSE CtxOr(loggers[i].given, NearestCtx[loggers[i].parent])

\* A message is logged exactly if it reaches the last level which the spec gives
\* its library, or that of the operation which it is told to be part of: its
\* own context, that of the nearest logger it descends from with one, or the
\* span active then.
LoggedInItsOperation ==
  Ordered(specs["library"]) =>
    \A n \in DOMAIN messages :
      LET m == messages[n]
          last == LastMatching(specs["library"], m.lib)
          op == ActiveLevel(CtxOr(m.own, CtxOr(NearestCtx[m.by], m.active)))
      IN m.at = Recorded <=>
           \/ m.level >= IF last = 0 THEN FallbackLevel ELSE last
           \/ op # 0 /\ m.level >= op

-----------------------------------------------------------------------------
(* What the documentation says, refuted by the code. *)

\* "Later values override earlier ones when multiple matches occur", an item
\* without glob being the "same as `*`" (strings.ts:63-67).
LaterOverrides ==
  \A kind \in DOMAIN specs, lib \in Libs :
    MapTo(specs[kind], lib) = LastMatching(specs[kind], lib)
=============================================================================
