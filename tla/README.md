# A specification of stl

TLA+ modules for the stl packages (`packages/libs/*` and
`packages/tools/inlinable*`): the TLC runs which check them on small instances,
and TLAPS proofs of their main properties for all values of their constants.
Paths below are relative to `packages/`; short names are

| name | file |
|---|---|
| DL | `libs/stl-resilience/src/deadlines/common.ts` |
| RC | `libs/stl-resilience/src/deadlines/race.ts` |
| RS | `libs/stl-resilience/src/resilient.ts` |
| BD | `libs/stl-utils/src/bindable.ts` |
| KS | `libs/stl-koa/src/server.ts` |
| SV | `libs/stl-bootstrap/src/servers.ts` |
| SP | `libs/stl-telemetry/src/tracing/spans.ts` |
| PA | `tools/inlinable/src/inline/patch.ts` |
| ST | `tools/inlinable/src/inline/state.ts` |

Contents: 1 inventory, 2 what is modelled and how it corresponds to the code,
3 the runs, 4 fairness, 5 the proofs, 6 what the checks found, 7 what is not
modelled.

Running: `tlc -workers 2 -config MCRace.cfg MCRace.tla` checks a run,
`tlapm RaceProofs.tla` the proofs of a module. `PROJECT.json` lists the runs,
the source lines behind each definition, a mutation of the model for each
property (which must make its check fail), the hazards and the theorems.

## 1. Inventory

Everything runs on one Node thread. Concurrency comes from the event loop:
a *task* (timer, I/O) runs to its end, then all `process.nextTick` callbacks,
then all jobs of settled promises, and again until both queues are empty.
Ticks queued by a promise job wait until no job is left; this order decides
several of the results below.

| component | state | operations | what is hard | properties that make it correct |
|---|---|---|---|---|
| deadlines (DL) | cutoff, known expiry, pending timers, memoised promise and signal | `onExceeded` and its cleanup, `exceeded`, `signal`, `clear`, `isExceeded`, `exceededError` | timers fire early, late or at once when their delay overflows; cleanups leave entries; the clock moves between two reads | the verdict is final, callbacks are neither early nor lost, whoever is called back finds the deadline expired |
| races (RC) | status, end, `onLoss` callbacks, abort listeners, the deadline's callback, the span | `run` of simple, instrumented and nested races, abort, loss, late settlement | a candidate, a deadline and signals which race in one turn of the loop; assertions which hold only if every path cleans up | one verdict, told alike to everybody; nothing left behind; late outcomes reported exactly when too late |
| resilient runs (RS) | the current attempt's race, p-retry's loop, the outer race | `run`, one attempt, retry, backoff, events | loss during a backoff or a failing attempt; two races on one signal; non-`Error` rejections | attempts follow one another and stop with the run; the result is the last attempt's; the run settles |
| bindables (BD, KS) | status, the active host's promise | `start`, `stop`, `run`, `host`, `unbind`, the subclass's `bind` and `onStop` | concurrent stops awaiting one host; continuations which act on a later binding; close events | `onStop` once per binding; nothing listens unknown; whoever waits hears |
| bindables runner (SV) | the bindables, `stopping`, the handlers | initialize, run all, stop on signals or failure, shut down | signals at any time, one of several bindables failing | shutdown comes last, after a signal or a failure no bindable runs on which nobody stops |
| active spans (SP) | the count of pending parts, whether one failed | `withActiveSpan`, binding generators, intensives | parts complete in any order, more are bound meanwhile | ends once, with its last part, showing any failure which is not falsy |
| span recording (`stl-telemetry/src/tracing/recording.ts`) | ended and pending spans | `onStart`, `onEnd`, `waitForPendingSpans`, `reset` | spans started while waiting | waiters are resumed when none is pending, and only then |
| settings (`stl-settings/src/common.ts`) | the settings cached, the environment seen last, the issues found on the way | `settingsManager`, nested settings | a failure after the environment was marked as seen; objects changed in place | what a call returns was made of the last valid environment, what it throws tells of every issue |
| events (`stl-utils/src/events.ts`) | listeners, pending mappers, the queue of `events.on` | `withEmitter`, `waitForEvent`, `yieldEvents`, `mapEvents` | events between two `next`; `exit` called while mappers of earlier events are pending, and by mappers which fail or are awaited | values come as they were forwarded, none is lost, the iteration ends with the value of the mapper which called `exit`, or of one it was pending with |
| intensives (`stl-utils/src/intensive.ts`) | started, listeners for breaths | run, embed | operations which interleave, embed one another and fail | the breaths of an operation are heard by those it embeds while they run, and by no one who does not |
| throttles (`stl-koa/src/throttle/*`) | the windows of a steady and of a burst limiter | `consume`, `ensure`, `penalize` | calls between the answers of the two limiters, whose windows end apart | no more than the rate; who is refused is told when a window is over |
| koa request lifecycle (`stl-koa/src/setup/index.ts`) | the request's race, span and metrics | request, close, abort, response, streaming | abort before, in and after the handler; responses which stream on | every request is counted out once; a lost race writes no response |
| health checks (`stl-resilience/src/health/*`, `stl-koa/src/health.ts`) | the smoothed delay of the loop | poll, stop, respond | checks which share a key, and change between the calls | a response tells of all checks as they were at once, the worst one deciding |
| errors (`stl-errors/src/*`) | none | the walk over causes, statuses and codes, failures | shared, deep and circular causes; wrappers of wrappers | the first match in the order of the walk, and nothing of an internal error in a failure |
| collections (`stl-utils/src/collections.ts`) | the entries and sizes of multimaps and multisets | add, delete, clear | counts which go below zero and back; iterables which throw | sizes are those of the contents, the order is that of the last additions |
| objects, strings, files (`stl-utils/src/*`) | whether an object is frozen | `freezable`, globs, file loading | functions got before the freeze, or past it by descriptors, and called later | what is frozen stays |
| metrics and logging (`stl-telemetry`) | cached metrics, gauges' values, collections under way; loggers with their contexts | load, observe, collect; child, log, reset | libraries which share gauges, loads which throw, collections which overlap; a level per library and one per operation | each value is handed over at most once, the last one is kept until it is; a message follows the level of its operation |
| graphql (`stl-graphql/src/*`) | none | errors made into GraphQL errors, `isFieldRequested` | errors with originals, coerced ones among them, nested fragments | clients learn of the first match only; no field is missed |
| inlinable (`tools/inlinable*`) | targets, inlined values, the files on disk | add, instrument, collect, patch, restore | failures half way, evaluation of instrumented modules | either all sources are patched or all are restored; every call-site exactly once |

Interactions: a resilient run drives one race per attempt inside of an outer
race; races hold callbacks on deadlines and on abort signals and a span; a
race started by another one's candidate shares its deadline and signals;
the koa middleware wraps each request in an instrumented race; the runner
drives bindables through `run` and `stop`, and hears them through events;
intensives tell the span of `withActiveSpan` when they end; responses are made
of failures, which are derived from errors and their causes.

## 2. The modules

| module | models | checked by | proved in |
|---|---|---|---|
| `Deadline` | one finite deadline | `resilience`, `deadline_overflow` | `ResilienceProofs` |
| `RaceContract` | what a race promises (abstract) | by refinement | |
| `Race` | one race, in the queues of Node | `race` | `RaceProofs` |
| `Impatience` | races inside of one another, sharing deadlines and signals | `race`, `abandoned_stale` | `RaceProofs` |
| `Resilient` | the retry loop over races | `resilience` | `ResilienceProofs` |
| `BindableContract` | the lifecycle of bindables (abstract) | by refinement | |
| `Bindable` | one bindable over several bindings | `utils`, `bindable_stop_returns` | `UtilsProofs` |
| `KoaApp` | a `Bindable` which is an `AppBindable`, bound once | `koa` | `KoaProofs` |
| `Runner` | the runner and its bindables | `bootstrap`, `runner_signal` | `BootstrapProofs` |
| `Settings` | the settings manager and its cache | `bootstrap`, `settings_stale` | `BootstrapProofs` |
| `Events` | one iteration of `yieldEvents` or `mapEvents` | `utils` | `UtilsProofs` |
| `Intensive` | intensive operations and their breaths | `utils` | `UtilsProofs` |
| `Collections` | a multimap and a multiset | `utils` | `UtilsProofs` |
| `Freezable` | one freezable object and what was got of it | `utils` | `UtilsProofs` |
| `ActiveSpan` | one call of `withActiveSpan` | `telemetry` | `TelemetryProofs` |
| `Recording` | the spans of a recording telemetry and who waits for them | `telemetry` | `TelemetryProofs` |
| `Metrics` | cached metrics, gauges and their collection | `telemetry` | `TelemetryProofs` |
| `Logging` | loggers, their levels and contexts | `telemetry` | `TelemetryProofs` |
| `Request` | the koa middleware of `setup` | `koa` | `KoaProofs` |
| `Throttle` | a throttle over two limiters | `koa` | `KoaProofs` |
| `Errors` | the walk over causes, statuses, failures, GraphQL errors | `koa` | `KoaProofs` |
| `Health` | health checks and their endpoint | `koa` | `KoaProofs` |
| `FieldRequests` | `isFieldRequested`, a pure function | `koa` (an `ASSUME`) | |
| `Inlinable` | the patcher of inlinable call-sites | `inlinable` | `InlinableProofs` |
| `Sums` | the sum of a function's first values, for the properties | | `Induction` |
| `Induction` | lemmas about naturals and functions, no code | | `Induction` |

Each `MC...` module extends modules with TLC's model values. Those of a package
put its components side by side: `part` picks the one which moves in a
behaviour while the others rest. Components put together so share no variable,
so that a run checks each of them exactly as a run of its own would, and what
rests is chosen such that no action with fairness stays enabled in it.
Components which do interact are composed in a module of their own: races with
races in `Impatience`, attempts with the run in `Resilient`, bindables with the
runner in `Runner`. Alternative definitions labelled *Mutant* are the plausible
mistakes against which the properties are tested; no specification uses them.

### Resilience

**Deadline.** One registration is one call of `onExceeded`, by a client
(`Callbacks`) or by `exceeded` (`Promises`). `reg` says where its callback is:
`ticked` on the next tick, `armed` on a timer, `called` or `cancelled`. `live`
is `FALSE` when the field holding the error is set; `pending` is
`pendingTimeouts`, from which a cleanup removes nothing (DL:206), as in the
code. The clock is read twice while registering, up to `MaxLag` apart; timers
may fire up to `Skew` early, and a delay outside of `1 .. MaxDelay` becomes one
millisecond as `setTimeout` has it. The tick before any timer is in
`FireTimer`'s guard.

**Race.** `turn` is the queue Node is running. `run` is called in any of
`CallerTurns`; the deadline may pass at any time, also between the two reads
of it. `step` follows the candidate's promise chain: its wrapper (`Finish`,
which ends the span), `finally` (`Cleanup`), `then`/`catch` (`Conclude`), and
beside it `Report`, which notes the rejection on the span. Losing is `Lose`,
behind the assertions of both handlers (`Refuse` when one fails). Signals are
looked at in their order up to the first aborted one: any set of the others may
have got a listener before. `RaceContract` keeps what the client sees: status,
promise, callbacks. Two small over-approximations: the callbacks queued for one
tick run in any order, and a signal may abort in any turn.

**Impatience.** A candidate sees a copy of its race's deadline, on which the
races it starts register their callbacks (`holder` says whose copy it is) unless
their own comes first. `timeouts` are the copy's `pendingTimeouts`; the end of
a candidate clears its copy, that of a race only its own timer. `Ask` is
`isAbandoned`, which remembers what it found. Races which are doomed as they
start are lost at once; `Race` has what happens in between.

**Resilient** takes each race as `RaceContract` has it: an attempt is won,
aborted or overtaken. `loop` is p-retry's loop with the code's
`onFailedAttempt`; without retries there is no outer race (RS:334-345). The
outer race and the attempt's may learn of the same passed deadline in either
order. Aborting runs the listeners of both races in one step, outer first.
p-retry's own refusal to retry some `TypeError`s is left out: those errors
behave as others.

**Health.** The delay of the loop is smoothed as the code does it, in whole
milliseconds. A report is a recursive function over the checks, several of
which may share a key. A response is made in one turn, so that it tells of one
moment, and is kept until anything changes. A check whose `observe` throws is
left out: its error is the answer of any request.

### Bindables and bootstrap

**Bindable.** The code has no numbers for bindings; the model counts them so
as to say which binding a continuation is about. `calls` are calls of `stop`,
waiting for the promise of the host they found. The subclass is external:
`bind` resolves or rejects, `onStop` closes the server or rejects. With
`SelfUnbinds` it is `AppBindable`, which calls `unbind` from the server's close
event (KS:42), also when something else closes the server. The contract says
that a bindable which is bound listens, one which is unbound does not, and
that it goes through its lifecycle in order.

**Runner** takes each bindable as `BindableContract` has it, run once: its
own part is what it asks of them and what it makes of their ends. An `error`
event without a listener ends the process, as an uncaught exception does
(`exited`).

**Settings.** An environment is an object whose content may change between the
calls, as `process.env` does; each key is unset, valid or not. `ref` is the
environment marked as seen and `ret` what was made of the last one. A nested
setting is read last and makes one issue of all of its own.

### Utilities

**Events.** Events are numbered; a mapper returns at once or later, and may
call `exit` before it is done, also if it fails then or only after it was
awaited; `exit` may be called from elsewhere too. `queue` is that of
`events.on`, which is external: it holds values with the number of listeners
there were, and `onError` what ends it. `exit` of the model is a history of the
call, so that what is due does not depend on that number: which mapper made it,
how many values were forwarded before, and which mappers were pending.

**Intensive.** A program is the list of what an operation does: work, or embed
another. Roots run at once and may share what they embed, as one is at a
breath while another goes on. The listeners which forward breaths are those
between an embedding's start and its end.

**Collections.** A JavaScript `Map` is the sequence of its entries. Iterables
given to `addAll` (`Iterables`, any set of sequences) may throw after some
values. What a loop over values does is a recursive function of how many it has
seen, so that it can be reasoned about.

**Freezable.** What a name holds is data, a method, a function bound to the
object or an accessor. `held` are the functions which clients got, and may call
at any later time; one which is bound writes past the proxy. They are got by
reading, which is trapped, and by descriptors, which are not (`GetDescriptor`):
a frozen object hands out all of its functions so.

### Telemetry

**ActiveSpan.** `pending` is the code's counter, which the assertion of a late
binding increments before it fails (SP:119). Generators are consumed at most
once: calling `next` after the end, or iterating twice, would complete a
generator twice (SP:127-138); the interface asks for neither. A consumer which
breaks out of its loop (`ConsumerLeaves`) leaves the span open for good,
because the wrapped iterator has no `return`. A part may fail with a falsy
value (`blank`), which the code does not take for a failure (SP:98). An
operation starts once, after the function returned it (`intensive.ts:138`
asserts it).

**Recording.** Spans end in any order while others start, records are reset,
and waits look again whenever those they await are over.

**Metrics.** A load creates or finds its instruments one by one and may throw
half way: what it created stays cached. A collection first runs its effects,
during which others start, and ends with them, without any value, if one fails;
else it hands over the gauges' values. `latest` is the history of what was
observed last.

**Logging.** A glob is the set of libraries which it matches. A logger gives
the level of the operation it is active in, or was made for, precedence over
its library's.

### Servers and errors

**Request.** `fn` is the handler and the annotators of its error, `race` its
race (only aborts lose it, as koa is called without a deadline), `koa` what koa
does when the middleware's promise settles, `req` and `res` Node's events. The
handler may take over the response, stream it, or write it itself. A user's
`connectingIp` which throws, before the handlers of `close` are there
(`setup/index.ts:186`), is outside of the model: such a request is neither
counted nor traced.

**Throttle.** The limiters (`RateLimiterMemory`, external) count points in
windows which start with a call. The steady limiter is asked first, and the
burst one in a later job: other calls come between, but no time passes, as the
limiters are in memory (`SecondPasses`).

**Errors.** A graph of errors is any assignment of kinds and causes to numbers;
causes are higher numbers unless `Cyclic`. One which stands for a value that is
not standard, coded `ERR_COERCED`, has that value for its cause, unless it was
falsy. The walk is the code's stack of frames, one step per test. A query is one
client of the walk: a code, a status, a failure, all codes, a failure for
GraphQL, of a GraphQL error or of any other. For one of GraphQL's the walk
starts from its source (`originalError`), through other such errors and coerced
ones, and the extensions and the message it came with may be kept.

**FieldRequests** has no state: `visit` is compared with what it means that a
query selects a field, for every query and path of small size.

### Tools

**Inlinable.** `disk` and `out` are the source files and the suffixed ones, by
what they hold. A stage of `patchModules` is a `Promise.all` over the targets
(`todo`); the first target which fails ends it, while the other writes and
imports go on (`writes`, and the `collects` of modules still evaluated). Node
evaluates each module at most once per process, with the text on disk when it
is imported: with keys in its calls (`keyed`) if that is the instrumented one.
`Register` is one call of an inlinable, whose value is JSON or is not. At most
one write fails in a behaviour, at any stage. How sources are parsed and
rewritten (`replace.ts`) is left out: a text is one of three.

## 3. The runs

| run | expect | instance | what it shows |
|---|---|---|---|
| `resilience` | pass | 2 callbacks, 2 promises, cutoff 2, clock to 5; up to 2 retries | a deadline's verdict is final, callbacks are neither early nor lost and find it expired; attempts follow one another, end with the run, and the run settles |
| `race` | pass | 1 race with 2 signals and 2 callbacks, not from promise jobs; 3 nested races, 1 signal, deadlines at 1 or never | refinement of `RaceContract`; nothing is left behind; late events; the race settles, losses are heard; nested races keep their timers while the candidates which lent them their deadlines run, not longer, and are lost with those around them |
| `utils` | pass | 3 bindings and 2 stops; 3 events; 4 operations; 4 calls on 2 keys and 2 values; 2 names | refinement of `BindableContract`, one `onStop` per binding, ends are heard; iterations yield what is due, end after `exit` and with its value or a rival's; breaths reach whom they are for; sizes and orders; the frozen stays |
| `bootstrap` | pass | 3 bindables; 2 environments, 2 keys, 3 calls | shutdown last; after a signal or a failure all which run have a stop waiting, and the run ends; a call tells of every issue or of the last valid environment |
| `telemetry` | pass | 3 generators; 3 spans, 2 waits, 1 reset; 3 libraries, 4 metrics, 2 loads, 2 values, 2 collections; 3 loggers, 1 message | a span ends once, last, with any failure which is not falsy; waits end with no span open, and end; values are handed over at most once and in order, the last one being kept until then; levels |
| `koa` | pass | 2 requests; 4 calls over 4 seconds with 4 rates; every acyclic graph of 4 errors, 2 codes, `ERR_COERCED` being one; 3 checks, 2 of them under one key; an `AppBindable` bound once | requests are counted once and answered, spans tell how unless the function was rejected; rates hold, advice is the end of a window; the first match, and no internal error, is told; all checks are; whoever waits for an `AppBindable` hears of its end |
| `inlinable` | pass | 2 modules with 3 sites, 2 calls of `patchModules`, one failed write | patched only when each site was called once; all patched or all as they were; a failed evaluation restores at once |
| `deadline_overflow` | violation | cutoff beyond the longest delay | section 6 |
| `abandoned_stale` | violation | 2 nested races | section 6 |
| `bindable_stop_returns` | violation | 1 binding, 2 stops | section 6 |
| `runner_signal` | violation | 2 bindables | section 6 |
| `settings_stale` | violation | 2 environments, 3 keys | section 6 |

Why the bounds are enough:

- *Deadline*: a cutoff of 2 leaves room for a registration before, at and
  after it; `Skew` and `MaxLag` of 1 let a timer be early and the deadline pass
  while registering; `MaxDelay` 3 is not reached in the passing run and is in
  the other one. Two promises show what follows a `clear`; a third would play
  the part of the second. After `MaxClock` only due timers are left to fire:
  the latest is due at the cutoff plus `MaxLag`.
- *Race*: two signals are one aborted before and one during the run; two
  callbacks are one before and one after the loss. Nothing compares three.
- *Impatience*: three races are one inside of another inside of a third, or two
  siblings; the first is outermost, since races apart share nothing. Deadlines
  only differ by which comes first: 1, and `Distant`, which is never.
- *Resilient*: two retries have a first, a middle and a last attempt.
- *Bindable*: two stops can await the same host; three bindings let a
  continuation meet the next binding and the one after.
- *Runner*: three bindables are one which fails, one bound, one binding.
- *Settings*: two environments are the cached one and another; three calls are
  one which is read, one which fails and one which meets the cache.
- *Events*: three events are one before, at and after the call of `exit`, or
  three mappers which are pending when one of them calls it.
- *Intensive*: two roots share an operation which embeds a third level; one of
  them catches what its embedded operation throws.
- *Collections*: four calls make a count positive, forget it and make it so
  again while another key is there; iterables of two values have a new one and
  one which is there, counts between -2 and 2 bring a count below, to and above
  zero.
- *KoaApp*: two callers can stop it at once, or one while it binds, and others
  close its server at any time.
- *ActiveSpan*: three generators are one done, one failing and one bound late.
- *Recording*, *Metrics*: a wait which looks again meets a third span; two
  libraries share a gauge, a third instrument makes a load throw after it.
- *Request*: two requests are one counted out while the other is counted in.
- *Throttle*: rates with the steady window longer and shorter than the burst
  one, with burst points and without; four seconds are two windows. One rate
  has more burst points than steady ones and the steady window the shorter: a
  cost of two is told the end of a window which never lets it through.
- *Errors*: four errors are a diamond of causes, or a chain of four: one of
  GraphQL's around a coerced error, around what was coerced.
- *Health*: two checks share a key and one between them does not, so that each
  status meets another both before and after it, under its key and another.
- *Inlinable*: a module with two sites can call one twice and the other never;
  two modules are one which fails and one whose evaluation goes on; a second
  round meets what the first left in flight or in Node's cache. Calls beyond
  the second of a site change nothing (`MaxCalls`).

`CHECK_DEADLOCK FALSE` is given where the system ends: a resilient run which
settled, nested races out of time, a bindable out of bindings, an iteration or
a span which is over, a runner which is done, calls which are used up, a
patcher out of rounds. Deadlines and single races never end, since Node's loop
turns and the deadline can be asked again.

## 4. Fairness

Only what Node guarantees, and what the interfaces ask of clients whose absence
would make any wait endless:

- queued ticks, promise jobs and due timers run (weak fairness; strong for a
  race's timer, since the loop visits the timers' turn again and again without
  staying there), and time passes;
- a candidate's synchronous body returns. Its promise need not settle:
  `RaceSettles`, `LosesTogether` and the `RunSettles` of `Resilient` hold
  without;
- `bind` and `onStop` settle in `Bindable` and `Runner`, and so do the
  runner's hooks: nothing can be said of a runner whose server never closes;
- mappers settle, having called `exit` or not, and a consumer which got a value
  asks for the next one or leaves; it need not start (`Events`);
- annotators settle and koa answers; a response which was written, or whose
  request was aborted, closes (`Request`). A handler need not end;
- writes end or fail, and an import settles once its module's evaluation has
  ended; that it ends is not assumed (`FailureRestores`);
- nobody has to abort, to signal, to stop, to end a span or to clean up.

`ActiveSpan`, `Intensive`, `Metrics`, `Throttle` and `Settings` state no
liveness: a generator or a program may always be left, calls are synchronous,
or nothing waits.

## 5. The proofs

All hold for every value of the constants which satisfies the assumptions named
in the modules (finiteness of sets, disjointness of callbacks and promises,
ranges of integers, which sets the values are of). Types are part of each
invariant below, so that each `TypeOK` is proved rather than checked by a run.
A module of proofs is about the components of a package: of each it states the
inductive invariant, that the initial states have it, one lemma per action (or
per group of actions which change alike), and then the theorems.

### ResilienceProofs, RaceProofs

- *Deadline.* The invariant: *every armed timer is in `pendingTimeouts`*
  (`ClearSeesEveryTimer`), *every armed timer is due at the cutoff or later* as
  far as the delay is in a timer's range, *whoever was called or is about to be
  finds the deadline expired*, *the signal is that of the promise*. From it:
  `DeadlineTypeCorrect`, `ClearIsComplete`, `CalledBackFindsExceeded`,
  `SignalOfCurrentPromise`, `VerdictNeverReverts` and `CallbacksAreNeverEarly`.
  The last one assumes that the cutoff is within a timer's reach: without that
  assumption it is false (section 6).
- *Race.* `TypeCorrect` on its own. `DeadlineAssertionHolds` for all calling
  turns, of which the run only has those outside of promise jobs: *a timer which
  may still come means a race which has not ended, unless the candidate's chain
  is done with it* (`TimerInv`). `NothingIsLeftBehind`, `LateIsTold` and
  `RaceKeepsContract`, the refinement, for races not started from promise jobs
  (`StartedByTask`). They need that a doomed race's tick comes before the
  candidate's chain (`TickFirst`, `DoomInv`), that the status follows `endedAt`
  (`StatusInv`) and that no callback waits on a lost race (`CallbackInv`); the
  refinement mapping counts the callbacks which wait and those which were told.
  Started from a promise job the refinement is false (section 6).
- *Impatience*, for any races and whatever they share. Races which have not
  started hold nothing (`UnstartedInv`), those which have share the cutoff and
  the signals of their context (`InheritedInv`), and a race is only aborted with
  a cause: a signal of its own or a cutoff of the past (`CauseInv`).
  `NestedRacesAreTold` is the safety part of `NestedRacesEnd`: that timers are
  there as long as the deadline's holder runs, and gone after that.
- *Resilient.* The invariant relates the loop to the last attempt: while p-retry
  waits, no race but that attempt's runs (`OneAttemptAtATime`); the retries
  announced are those of the attempts before (`RetriedInv`), and the value
  p-retry holds is that of the last attempt (`ValueInv`). From it
  `AttemptsFollowOneAnother`; and `LossEndsTheRun`, as a lost outer race
  disables every step of the loop which would start or announce an attempt.

### UtilsProofs

- *Bindable*, for subclasses which do not call `unbind` by themselves. The
  invariant: only the last binding is ever current (`StatusInv`), a binding is
  set up once and while the status is `binding` (`SetupInv`), one stop at a time
  unbinds it (`CallInv`), and a stop which goes on about a binding which is over
  does so before the next one is set up, so that it never takes that for its own
  (`StaleInv`). `BindableKnows` and `BindableKeepsContract` follow. With
  `SelfUnbinds` the first fails from the second binding on (section 6).
- *Freezable.* Once frozen, and unless a bound function was held or is in the
  object, nothing clients do with the proxy or hold of it can change it: each
  trap refuses, descriptors hand out methods only, and no call of those is on
  the object itself.
- *Events*, for any number of events and mappers. What was yielded is a prefix
  of what was forwarded and, until the iteration is over, the queue is the rest
  of it (`QueueInv`). The size which the loop looks at (`SizeInv`) is tied to
  the call of `exit`: it is zero exactly for what was forwarded after the call
  (`ExitInv`), and the first such value is of the mapper which made the call or
  of one pending then (`ExitedByInv`). `ValuesComeInOrder` and `NoValueIsLost`
  are the safety part of `IterationsAreFaithful`: an iteration which is over
  yielded all which was forwarded before the call and one value more, and
  returned with that one.
- *Intensive*, for any operations, however they embed one another, fail and
  catch. Each stack of frames has running operations, each frame hearing the one
  below (`Stacked`), no operation is in two places (`UniqueInv`), and breaths
  are only forwarded to what runs (`ForwardsInv`). `BreathsReachWhatRuns` needs
  that hearing is transitive along a stack, so that what is at its top hears
  every root below; a failure which cuts the stack ends what it cuts off.
- *Collections*, for any keys, values, iterables and counts. No key has two
  entries, sizes are sums over the entries (`MapInv`, `Multisets`), and entries
  are in the order in which their counts became positive (`PositivesInv`). Of
  each call it is shown which sum its entries have, and that it moves no entry
  which stays: `InOrder` is kept by one `add` and is transitive, so that it is
  kept by the loop of `addAll`. `CollectionsAreRight` follows.

### BootstrapProofs

- *Runner.* The invariant relates the outcome to the runs (`ok` only if all have
  resolved), a resolved run to an unbound status, and the status to the server:
  `ShutdownIsLast`. For `NobodyRunsOn` it adds who is stopped: once a signal came
  while they ran, or one has failed, each of them which is bound or binding has
  a stop (`StopInv`); a run which ends well leaves none.
- *Settings*, for any environments and keys. The walk over the settings, a
  recursive function of how many keys were read, finds exactly the issues of the
  keys before, in order; what is kept was made of the last valid environment,
  and an environment marked as seen which is not that one was the last one
  tried (`SettingsInv`). `ManagerTellsOfEnv` follows.

### TelemetryProofs

- *ActiveSpan.* The invariant is that `pending` is the number of parts
  outstanding: the generators bound, iterated, left or *refused* (each refusal
  leaves one behind), plus one for the function or its operation. The span has
  ended exactly when that number was once zero, after which refused bindings
  keep it above zero for good, so that it never ends again.
- *Recording.* A record is of a span which is over or still open, and is only
  deleted once it is over, so that a wait which finds none open has awaited all
  (`WaitsReturnWithNoneOpen`, the safety part of `WaitsForOpenSpans`).
- *Metrics.* A load is a recursive function of how many instruments it has gone
  through; it is shown to create what it is to and to cache no metric twice
  (`LoadedIsRight`). Each gauge is then collected by at most one callback, and by
  one if its load did not throw (`MetricsInv`); what a gauge holds is the value
  observed last, and if it holds none that was handed over last (`KeptInv`).
  `ValuesAreHandedOverOnce` follows. That a value is handed over at all is not
  claimed: a gauge may have nobody who collects it (section 6).
- *Logging.* A logger's context is the one which it was given or else its
  parent's, and parents are older (`LoggingInv`): what a message finds by going
  up is what its logger was made with. The level of an operation is found by the
  order of the specs alone. `LogsWhatItsOperationAsksFor` follows, for specs
  whose items without glob come first (`Ordered`): of others the code does not
  do what `strings.ts:63-67` says (section 6).

### KoaProofs

- *Request*, for any set of requests. A race runs no longer than its function
  and koa waits as long (`Raced`); only koa and the handler write, koa once the
  target was inferred or the connection is gone (`Targeted`); each request has
  at most one record, which tells of its end, and its spans as well (`Recorded`,
  `OwnSpanTells`, `StreamingEnds`); and the gauge is the number of requests
  under way. `RequestsAreCountedOnce` and `RequestSpansTell` follow. The latter
  says of every request which status its span has, none if its function was
  rejected (section 6), and of streams which are not bypassed that their span
  ends with the response.
- *Throttle*, for any rates and costs. While the burst limiter is to be asked,
  the steady one refuses until its window is over (`BurstingInv`), and an advice
  is about the windows which refused (`AdviceInv`): `RetryAfterIsRight`, which
  for any cost says what is known of coming back at that time; that it then
  succeeds is false (section 6). For the
  rate a stronger statement is inductive: since any call allowed, a limiter has
  let through no more than its current window and the points of some whole
  windows which began since (`Kept`). `ThrottlesHold` has both.
- *Health.* A report is a recursive function over the checks. By the least
  counterexample: of the first checks its status is the worst one's, and each key
  has as many statuses as checks share it, each in its place (`ReportIsRight`).
  `ResponsesTellAllChecks` follows, for any number of checks under any keys.
- *KoaApp*, whose `unbind` comes from its server's close event, whoever closes
  it. It is set up once, and stopped once its host is known (`AppSetup`,
  `AppCalls`). The rest has where each end is told (`AppEnds`): an app whose
  server closed is over; one which is over has told its `run`, or has an event
  queued which will; a stop which returned found it over, or being ended by
  another one.
  `AppHearsItsEnd` follows.
- *Errors*, for any number of them, however they cause, wrap and share one
  another as long as no cause is circular, and any codes and mappings. Causes are
  higher errors, so that the recursive functions over errors exist (`Ascends`),
  and the nodes of the walk are a tree which the paths of at most as many causes
  as there are errors exhaust (`TreeIsClosed`, `TreeInduction`). The nodes still
  to visit are from left to right (`WalkInv`), and any other node either is done
  with, without a match and with its causes done or on the walk (`Done`), or goes
  on from a node of the walk (`WalkReaches`): the first to match is before all
  others (`HeadIsFirst`), and an empty walk has left none (`WalkIsOver`).
  `FirstMatchIsTold` adds that failures tell of one error below every status, and
  that the source GraphQL's errors are searched from is neither one of these nor
  a coerced one (`originalError` and `WrapsNothing`, functions over the errors).
  With circular causes the search does not end (section 6).

### InlinableProofs

The invariant: a module is only evaluated while it is collected and its inlining
state tells its calls (`CallsInv`); the writes in flight of the current stage
are those it waits for, at most one per module (`WritesInv`); and past the
collection every target is *sure*: evaluated, with each site called once
(`SureInv`), which stays so as no module is evaluated twice. `PatchedOnce`
follows. `AllPatchedOrNone` adds that, as long as no write failed, every stage
waits for its writes, and what it is done with is as the stage leaves it
(`AllInv`).

### Induction

Loops over data are recursive functions of a natural number, and what they
compute is proved by the least counterexample: a set of naturals which is not
empty has a smallest element (`SmallestOf`, from `WellFoundedInduction`; a
finite one also a largest), and the step before it is right. That such functions
exist is `Iterates`, for those of all naturals, and `IteratesTo`; `Ascends` has
those which lead from numbers to higher ones. The sums of `Sums` follow: what
changes when one value does, or one is cut out.

### What is only model-checked

- All liveness, as the prover has no rules for fairness over `ENABLED`:
  `EveryoneHears`, `RunSettles`, `RaceIsHeard`, `EndIsHeard`, `RunEnds`,
  `FailureRestores`, `Answered`, and the parts of `IterationsAreFaithful`,
  `WaitsForOpenSpans` and `NestedRacesEnd` which are (`EndsAfterExit`,
  `WaitReturns`, `LosesTogether`).
- `FieldRequests`, whose operator is recursive over trees, and what `Errors` says
  of statuses and codes: both are evaluated over every input of a small size.

## 6. What the checks found

Each of these has a run which expects the violation:

1. `deadline_overflow` (DL:200): a cutoff further than 2^31-1 ms away makes
   `setTimeout` fire after 1 ms, and the callback forces the expiry: the
   deadline is taken for exceeded at once.
2. `abandoned_stale` (DL:206 against RC:503): a nested race on the active
   deadline leaves its timer among the pending ones when it ends. The deadline
   then never says it is exceeded, and the candidate which asks `isAbandoned`
   is not told.
3. `bindable_stop_returns` (BD:149 against BD:167): when `bind` fails the
   promise of the host never settles, nor do the `stop` and `host` calls which
   await it.
4. `runner_signal` (SV:55 against SV:29): a signal handled while `initialize`
   is pending is forgotten; the bindables start and run on. A second SIGINT
   then exits with 130.
5. `settings_stale` (`stl-settings/src/common.ts:261` against its line 238):
   called twice with an environment whose settings are invalid, the manager
   throws first, then returns what it made of the environment before.

### Other divergences

Stated as definitions at the end of their modules, *refuted by the code*; each
can be given to TLC as an invariant or a property in a run of its module.

| definition | code | the documentation |
|---|---|---|
| `Deadline!ExceededMeansAllTriggered` | DL:176: asked for its error, an expired deadline says so while callbacks wait | DL:131, true if expired "and all callbacks [...] have been triggered" |
| `Deadline!AllTriggeredMeansExceeded` | DL:206: a cleaned up timer stays pending, and the answer false | DL:131 |
| `Deadline!RemovedNeverRuns` | DL:198: a removed callback already queued for a tick runs | DL:137, the function returned removes the callback |
| `Race!DoomedNeverWins`, `Race!StatusTellsVerdict` | RC:274, RC:229: a race started from a promise job after its deadline is won by a settled candidate, as the tick which should lose it waits for the jobs | RC:116, such a race "always rejects"; RC:94 |
| `Race!AbortComesOnce` | RC:237, RC:255: one signal aborted before and one before the next tick call `onAborted` twice | the assertion at RC:237 |
| `Race!SpanNotesLoss` | RC:451: the span ended with the candidate, before the loss is noted | RC:303, annotated "with any errors, including any deadline exceeded error" |
| `Race!SpanShowsFailure` | RC:453: the status is set after the end; only the tests' recording span accepts it | `race.test.ts:130` |
| `Impatience!EscapesSignals` | RC:416: active signals are added to every race | RC:382, an escaping race gets none |
| `Resilient!DefaultRetriesTimeouts` | RS:377: without a predicate every failure is retried | RS:182, only exceeded attempt deadlines |
| `Resilient!DiscardedValueIsReported` | RS:319: a value between the loss of the outer race and that of the attempt's is dropped without an event | RS:211 |
| `Bindable!StoppedIsUnbound` | BD:177: a second stop returns while the first is closing | BD:167 |
| `Bindable!RunWaitsForUnbound` | BD:208: the event of the previous binding resolves the next one's run | BD:211 |
| `Bindable!BoundIsAvailable` | BD:188: with `SelfUnbinds` and two bindings, the stop of the previous binding goes on and unbinds the next, which then listens with no host | BD:134 |
| `Events!UntilRemoved` | `events.ts:192`: listeners of `until` events are never removed | `events.ts:167`, "All listeners will be removed" |
| `Events!YieldsExitValue` | `events.ts:254`: of two pending mappers, the one which did not call `exit` may forward first, with no listener left, and the value of the one which did is dropped | `events.ts:248`, not "aborted on the first yielded value instead of the one which called exit" |
| `Events!EndsOnceExited` | `events.ts:230`: called by anyone but a mapper which is not done, `exit` removes the listeners, and the loop waits for ever | `events.ts:216`, "until the function's provided argument is called" |
| `Events!ErrorsHeard` | `events.ts:241`: the second of two errors is emitted with no listener, and thrown | — |
| `Freezable!FunctionsWithheld`, `Freezable!FrozenStaysIfWithheld` | `stl-utils/src/objects.ts:65`: descriptors are not trapped, so that a frozen object hands out functions bound to it which reading withholds, and they change it | `objects.ts:71`, only functions of the allow list are read |
| `Intensive!OwnBreathsOnly` | `intensive.ts:152`: an operation embedded after an attempt to embed it failed also hears the other run's breaths | — |
| `ActiveSpan!LateBindingRefused` | SP:119: the assertion increments before it fails, so that only the first late binding is refused | SP:215, "It is illegal to bind additional generators after the span has ended" |
| `ActiveSpan!ShowsBlankFailures` | SP:98: a part which fails with a falsy value counts as a success | the comment there |
| `Metrics!EveryGaugeCollected` | `metrics.ts:79`: a gauge whose load threw on a later instrument is cached and never collected | `metrics.ts:254` |
| `Logging!LaterOverrides` | `strings.ts`: an item without glob only matters where no glob matches, wherever it stands | `strings.ts:63-67`, later values override, and such an item is `*` |
| `Request!RejectedSpanTells` | RC:441 before RC:453: an annotator or a propagator which throws rejects the function, koa answers 500, and the request's span has ended without a status | RC:451-457 set it |
| `Throttle!RetriesPass` | `stl-koa/src/throttle/index.ts:139`: the sooner of two windows may be that of a limiter which never has as many points, where the other one would | `stl-koa/src/throttle/index.errors.ts:11`, "Please retry" at that time |
| `Request!AllStreamingEnds` | a handler which writes the response itself and returns after it closed starts a streaming span which nothing ends | — |
| `Request!AbandonedIsSilent` | a handler whose race is lost while its annotators run still sets the response | — |
| `Errors!SearchReturns` (with `Cyclic`) | `cause.ts:46`: circular causes are skipped by the test, but walked into | the comment there |
| `Errors!KeptIsPure` | `stl-graphql/src/errors.ts:66`: of a GraphQL error around a coerced falsy value the message is kept | its line 67, "This is a pure GraphQL error, the message is public" |
| `FieldRequests!RepeatedAreFound` (its negation is an `ASSUME` of `MCKoa`) | `stl-graphql/src/index.ts:60`: of a field selected twice only the first selection is looked at | its line 7 |
| `Inlinable!NoInstrumentedLeftOver` | PA:137: a write which fails while instrumenting is outside of the `try` at PA:139, so that the files instrumented already stay so | — |

Met while modelling, without a definition:

- `stl-utils/src/collections.ts`: `addAll(k, get(k))` on a multimap of arrays
  never ends, as it iterates over what it appends to; an iterable which throws
  leaves `size` without what was added (`SizesCount` excepts it).
- `stl-utils/src/objects.ts`: `freezing` traps neither `setPrototypeOf` nor
  `preventExtensions`, and a freeze may come between two writes of an
  asynchronous method.
- `stl-resilience/src/health/event-loop.ts:86`: a stopped check goes on telling
  the delay it saw last.
- `stl-koa/src/throttle/index.ts:138`: the assertion about the burst limiter's
  rejection reports the steady one's; `ensure` does not look at the burst
  limiter, and refuses what `consume` would allow.
- `stl-graphql/src/errors.ts:64`: the statuses assigned to codes are looked for
  before those given explicitly.
- Comments which speak of what is no longer there: the SIGTERM handlers of
  KS:30-32 and of `stl-bootstrap/src/telemetry/index.ts:99` (signals are the
  runner's); the callback of `resolvable` (`functions.ts:41`). The stop by a
  signal of `yieldEvents` (`events.ts:194`) calls `onabort` once instead of
  setting it.

## 7. What is not modelled

- Formatting, parsing of hosts, durations and queries, labels of metrics,
  loading of files and schemas, codecs: pure conversions and I/O, without state
  which a step could leave wrong.
- Callbacks which throw: an `onLoss` callback which does keeps the race's
  promise from being rejected (RC:196), a candidate which throws synchronously
  leaves its listeners behind (RC:262).
- `firstAborted`, inactive spans, the wiring of OpenTelemetry and pino, the
  builtin validators of settings, p-retry's rule on `TypeError`s, the caches
  and iteration helpers of `collections.ts` and the pure helpers of
  `functions.ts`.
- How inlinable call-sites are parsed and rewritten (`replace.ts`).
- The composition of packages with one another (a request inside of a resilient
  run, say): each meets the other through an interface which a module here
  models as external, or by its contract.
- Configuration packages: they have no behaviour.
