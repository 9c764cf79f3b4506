------------------------------- MODULE Errors -------------------------------
(***************************************************************************)
(* stl-errors: the search of an error's causes (cause.ts), the statuses    *)
(* which wrap errors and the failures which clients get to see (status.ts, *)
(* index.ts), over every small graph of errors, and the same failures made *)
(* into GraphQL errors (stl-graphql/src/errors.ts).                        *)
(*                                                                         *)
(* An error is standard (with a code and causes), a status error (with a   *)
(* status and the error it wraps), a GraphQL error, perhaps with an        *)
(* original one, another Error, or a value which was thrown but is not an  *)
(* Error.  The causes of the last three are not followed.  A standard      *)
(* error coded Coerced stands for what is not standard, its cause; it has  *)
(* none if that was falsy, as the constructor drops falsy causes.          *)
(***************************************************************************)
EXTENDS Integers, Sequences, FiniteSets

ErrorSeqs == INSTANCE SequencesExt

CONSTANTS
  Errs,        \* the errors, the search starting from 1
  ErrorCodes,   \* of standard errors
  TaggedCodes, \* the codes whose errors have tags
  GraphqlErrs,  \* the errors which GraphQL may have wrapped
  UsedStatuses,
  Mappings,    \* of codes to statuses, Nothing without one
  Cyclic,      \* may standard errors be, transitively, their own causes?
  MaxFrames    \* how many generators fit in the stack

Nothing == "none"

ASSUME ErrorsAssumption ==
  /\ IsFiniteSet(Errs) /\ Errs = 1 .. Cardinality(Errs) /\ 1 \in Errs
  /\ TaggedCodes \subseteq ErrorCodes /\ Nothing \notin ErrorCodes /\ Cyclic \in BOOLEAN
  /\ MaxFrames \in Nat /\ MaxFrames >= Cardinality(Errs)

VARIABLES
  err,     \* the errors' shapes
  query,   \* what is searched, and with which codes or statuses
  walk,    \* errors still to yield, as [error, path], the path of their
           \* indices among causes; the path's length is that of the stack
  seen,
  codes,   \* collected
  outcome, \* "searching", "found", "notFound" or "overflow"
  match    \* what find returned, the failure derived from it with "status"

errorsVars == <<err, query, walk, seen, codes, outcome, match>>

-----------------------------------------------------------------------------
(* Statuses *)

\* In declaration order.
Statuses ==
  LET S(name, grpc, http) == [name |-> name, grpc |-> grpc, http |-> http]
  IN <<S("UNKNOWN", 2, 500), S("INTERNAL", 13, 500), S("UNIMPLEMENTED", 12, 501),
       S("UNAVAILABLE", 14, 503), S("DEADLINE_EXCEEDED", 4, 504),
       S("ABORTED", 10, 504), S("INVALID_ARGUMENT", 3, 400),
       S("UNAUTHENTICATED", 16, 401), S("PERMISSION_DENIED", 7, 403),
       S("NOT_FOUND", 5, 404), S("ALREADY_EXISTS", 6, 409),
       S("FAILED_PRECONDITION", 9, 422), S("RESOURCE_EXHAUSTED", 8, 429),
       S("CANCELLED", 1, 499)>>

ErrorStatus == {Statuses[i].name : i \in DOMAIN Statuses}

StatusNamed(s) == CHOOSE status \in ErrorSeqs!ToSet(Statuses) : status.name = s

statusToHttpCode(s) == StatusNamed(s).http
statusToGrpcCode(s) == StatusNamed(s).grpc

\* A map built from all the statuses, by the code each has, keeps the last.
LastWith(codeOf, c) ==
  IF c \in ErrorSeqs!Range(codeOf)
  THEN Statuses[ErrorSeqs!Max({i \in DOMAIN codeOf : codeOf[i] = c})].name
  ELSE "UNKNOWN"

statusFromHttpCode(c) ==
  IF c < 400 THEN "OK" ELSE LastWith([i \in DOMAIN Statuses |-> Statuses[i].http], c)
statusFromGrpcCode(c) ==
  IF c = 0 THEN "OK" ELSE LastWith([i \in DOMAIN Statuses |-> Statuses[i].grpc], c)

isInternalProblem(s) == statusToHttpCode(s) = 500
isServerProblem(s) == LET c == statusToHttpCode(s) IN c = 500 \/ c > 501

-----------------------------------------------------------------------------
(* Errors *)

NoError == 0
isStandardError(e) == err[e].kind = "standard"
isStatusError(e) == err[e].kind = "status"
isGraphqlError(e) == err[e].kind = "graphql"
errorCode(e) == IF isStandardError(e) THEN err[e].code ELSE Nothing

\* Both extractors, in turn.
CausesOf(e) == IF isGraphqlError(e) THEN <<>> ELSE err[e].causes

Coerced == "ERR_COERCED"
isCoerced(e) == isStandardError(e) /\ err[e].code = Coerced

\* The source of a GraphQL error, through others and coerced ones; none if they
\* wrap nothing. Mutant: coerced errors are sources.
IsGraphqlWrapper(e) == isGraphqlError(e)
IsWrapper(e) == isGraphqlError(e) \/ isCoerced(e)
originalError[e \in Errs] ==
  IF ~IsWrapper(e) THEN e
  ELSE IF err[e].causes = <<>> THEN NoError ELSE originalError[err[e].causes[1]]

\* findContents: what is below every status.
findContents[e \in Errs] ==
  IF isStatusError(e) THEN findContents[CausesOf(e)[1]] ELSE e

\* The shapes of an error with causes in es. A status error wraps one error,
\* and GraphQL's may be coded: to have the extensions of a standard error's
\* failure already.
Shapes(es) ==
  LET AtMostOne == {<<>>} \cup {<<e>> : e \in es}
  IN [kind : {"standard"}, code : ErrorCodes \ {Coerced},
      causes : {cs \in ErrorSeqs!SeqOf(es, 2) : ErrorSeqs!IsInjective(cs)}]
       \cup [kind : {"standard"}, code : ErrorCodes \cap {Coerced}, causes : AtMostOne]
       \cup [kind : {"status"}, status : UsedStatuses, causes : {<<e>> : e \in es}]
       \cup [kind : {"graphql"}, coded : BOOLEAN, causes : AtMostOne]
       \cup [kind : {"error", "value"}, causes : {<<>>}]

\* statusError and coerced: what a status or GraphQL wraps is an Error; what is
\* coerced is not standard, which is returned as it is.
WrapErrors ==
  \A e \in Errs : \A c \in ErrorSeqs!ToSet(err[e].causes) :
    /\ isStatusError(e) \/ isGraphqlError(e) => err[c].kind # "value"
    /\ isCoerced(e) => ~isStandardError(c)

\* The message of a status error, and the failure made from it: which error's
\* message, code and tags they tell.
statusErrorMessage(s, e) == IF isInternalProblem(s) THEN NoError ELSE findContents[e]

\* Mutant: codes and tags are told of whatever the status.
FailureWithCode(s, e) ==
  LET contents == findContents[e]
  IN [status |-> s, message |-> statusErrorMessage(s, e),
      code |-> errorCode(contents), tags |-> errorCode(contents) \in TaggedCodes,
      copied |-> FALSE]
failure(s, e) ==
  LET contents == findContents[e]
      told == ~isInternalProblem(s)
  IN [status |-> s, message |-> statusErrorMessage(s, e),
      code |-> IF told THEN errorCode(contents) ELSE Nothing,
      tags |-> told /\ errorCode(contents) \in TaggedCodes, copied |-> FALSE]

-----------------------------------------------------------------------------
(* The search *)

Queries ==
  [for : {"code", "collect"}]
    \cup [for : {"codes"}, wanted : SUBSET ErrorCodes \ {{}}]
    \cup [for : {"status"}, statuses : Mappings]
    \cup [for : {"assigned"}, statuses : Mappings, keep : BOOLEAN]

\* Standardizing an error for GraphQL searches it, or the source of one of
\* GraphQL's, twice: for a code to which a status is assigned and, if there is
\* none, as deriveFailure for a status.
Standardizing == query.for \in {"assigned", "derived"}
FailureWanted == query.for = "status" \/ Standardizing

Root == IF Standardizing /\ isGraphqlError(1) THEN originalError[1] ELSE 1
FromRoot == IF Root = NoError THEN <<>> ELSE <<[error |-> Root, path |-> <<>>]>>

\* The value which the search's function gives of an error.
Value(e) ==
  CASE query.for = "code" -> errorCode(e)
    [] query.for = "codes" ->
         IF errorCode(e) \in query.wanted THEN errorCode(e) ELSE Nothing
    [] query.for = "collect" -> Nothing
    [] query.for = "status" ->
         IF isStatusError(e) THEN err[e].status
         ELSE IF isStandardError(e) THEN query.statuses[err[e].code] ELSE Nothing
    [] query.for = "assigned" ->
         IF isStandardError(e) THEN query.statuses[err[e].code] ELSE Nothing
    [] query.for = "derived" -> IF isStatusError(e) THEN err[e].status ELSE Nothing

ErrorsInit ==
  /\ err \in [Errs -> Shapes(IF Cyclic THEN Errs ELSE Errs \ {1})]
  /\ WrapErrors
  /\ \A e \in Errs : \A c \in ErrorSeqs!ToSet(err[e].causes) :
       c > e \/ (Cyclic /\ isStandardError(e) /\ ~isCoerced(e))
  /\ query \in Queries
  /\ \A e \in Errs : isGraphqlError(e) => Standardizing /\ e \in GraphqlErrs
  /\ \A e \in Errs \ {1} : isGraphqlError(e) => ~err[e].coded
  /\ walk = FromRoot
  /\ seen = {} /\ codes = {}
  /\ outcome = "searching" /\ match = Nothing

\* standardizeGraphqlError: the message may be kept of an error which wraps
\* none, and extensions of a failure go into those copied from a GraphQL error,
\* unless there are none: its status is unknown, and it tells no code.
\* Mutant: any message is kept.
StandardizedKeepingAny(f) ==
  IF ~(Standardizing /\ isGraphqlError(1)) THEN f
  ELSE [f EXCEPT !.message = IF query.keep THEN 1 ELSE @,
                 !.copied = err[1].coded /\ f.status = "UNKNOWN"]
Standardized(f) ==
  IF ~(Standardizing /\ isGraphqlError(1)) THEN f
  ELSE [f EXCEPT !.message = IF query.keep /\ Root = NoError THEN 1 ELSE @,
                 !.copied = err[1].coded /\ f.status = "UNKNOWN"]

\* The causes come before everything else: the generator is depth first.
\* Mutant: they come after it.
CauseNodes(node) ==
  [i \in DOMAIN CausesOf(node.error) |->
     [error |-> CausesOf(node.error)[i], path |-> Append(node.path, i)]]
RestByLevel(node) == Tail(walk) \o CauseNodes(node)
Rest(node) == CauseNodes(node) \o Tail(walk)

\* The next error is tested, unless it was already, and walked into anyway.
Visit ==
  /\ outcome = "searching" /\ walk # <<>>
  /\ LET node == Head(walk)
         e == node.error
         found == e \notin seen /\ Value(e) # Nothing
     IN /\ seen' = IF err[e].kind = "value" THEN seen ELSE seen \cup {e}
        /\ codes' = IF query.for = "collect" /\ isStandardError(e)
                    THEN codes \cup {err[e].code} ELSE codes
        /\ walk' = IF found THEN walk ELSE Rest(node)
        /\ outcome' = IF found THEN "found"
                      ELSE IF Len(node.path) >= MaxFrames THEN "overflow"
                      ELSE outcome
        /\ match' = IF ~found THEN match
                    ELSE IF FailureWanted THEN Standardized(failure(Value(e), e))
                    ELSE [value |-> Value(e), error |-> e]
  /\ UNCHANGED <<err, query>>

\* Nothing matches: extractStatusError makes the root unknown.
Exhaust ==
  /\ outcome = "searching" /\ walk = <<>> /\ query.for # "assigned"
  /\ outcome' = "notFound"
  /\ match' = IF FailureWanted THEN Standardized(failure("UNKNOWN", 1)) ELSE match
  /\ UNCHANGED <<err, query, walk, seen, codes>>

\* assigningStatus finds no code: the status is derived.
\* Mutant: errors with a status keep it.
DeriveFromStatus ==
  /\ outcome = "searching" /\ query.for = "assigned"
  /\ walk # <<>> => isStatusError(Head(walk).error)
  /\ query' = [query EXCEPT !.for = "derived"]
  /\ walk' = FromRoot /\ seen' = {}
  /\ UNCHANGED <<err, codes, outcome, match>>

Derive ==
  /\ outcome = "searching" /\ query.for = "assigned" /\ walk = <<>>
  /\ query' = [query EXCEPT !.for = "derived"]
  /\ walk' = FromRoot /\ seen' = {}
  /\ UNCHANGED <<err, codes, outcome, match>>

ErrorsNext == Visit \/ Derive \/ Exhaust
ErrorsSpec == ErrorsInit /\ [][ErrorsNext]_errorsVars

-----------------------------------------------------------------------------
(* Properties *)

\* The errors from the root, as the walk has them: those which n causes lead to
\* at most.  Causes being higher errors, a path is shorter than there are errors.
Nodes[n \in Nat] ==
  IF n = 0 THEN ErrorSeqs!ToSet(FromRoot)
  ELSE Nodes[n - 1] \cup UNION {ErrorSeqs!ToSet(CauseNodes(node)) : node \in Nodes[n - 1]}

\* p comes before q in a walk: a prefix first, then the lower index.
Before(p, q) ==
  \/ ErrorSeqs!IsStrictPrefix(p, q)
  \/ \E i \in DOMAIN p \cap DOMAIN q :
       p[i] < q[i] /\ \A j \in 1 .. i - 1 : p[j] = q[j]

\* The search finds the first error which matches, by the order of the causes
\* and not by depth, however often errors share their causes; it finds none
\* only where none matches, and collects every code (ErrorFinder.find).
FirstMatch ==
  LET all == Nodes[Cardinality(Errs)]
      matching == {node \in all : Value(node.error) # Nothing}
      Told(e) == IF FailureWanted THEN Standardized(failure(Value(e), e))
                 ELSE [value |-> Value(e), error |-> e]
  IN /\ outcome = "found" =>
          \E first \in matching :
            /\ \A node \in matching : node = first \/ Before(first.path, node.path)
            /\ match = Told(first.error)
     /\ outcome = "notFound" =>
          /\ matching = {}
          /\ query.for = "collect" => codes = {errorCode(node.error) : node \in all} \ {Nothing}
     /\ query.for = "derived" =>
          \A node \in all : isStandardError(node.error) =>
            query.statuses[errorCode(node.error)] = Nothing

\* An error which neither GraphQL nor a coercion made of another, and one which
\* they made of none.
IsSource(e) == ~isGraphqlError(e) /\ ~isCoerced(e)
WrapsNothing[e \in Errs] ==
  ~IsSource(e) /\ (err[e].causes # <<>> => WrapsNothing[err[e].causes[1]])

\* "Extracts the original source of a GraphQL error, walking through GraphQL
\* errors and coerced errors" (stl-graphql/src/errors.ts:27): neither is told of
\* for what it wraps, and no source only of an error which wraps nothing.
ReadsTheSource ==
  Standardizing /\ isGraphqlError(1) =>
    IF Root = NoError THEN WrapsNothing[1] ELSE IsSource(Root) /\ ~WrapsNothing[1]

\* A failure with an internal status tells nothing of any error, wherever the
\* status came from: its wrapper, a mapping of codes or nothing at all; a
\* public one tells of one error only, which is below every status
\* (status.ts:17, deriveFailure).  GraphQL's own message may be kept where it
\* wraps nothing (keepGraphqlMessages), and the code in its own extensions
\* stays where the failure has neither a status nor a code.
TellsOneError ==
  FailureWanted /\ outcome \in {"found", "notFound"} =>
    IF isInternalProblem(match.status)
    THEN /\ match.message # NoError =>
              Standardizing /\ match.message = 1 /\ isGraphqlError(1) /\ WrapsNothing[1]
         /\ match.code = Nothing /\ ~match.tags
         /\ match.copied =>
              Standardizing /\ isGraphqlError(1) /\ match.status = "UNKNOWN"
    ELSE /\ match.message \in Errs /\ ~isStatusError(match.message)
         /\ match.code = errorCode(match.message)
         /\ ~match.copied

\* Whoever asks for an error's code or failure is told of its first match, and
\* clients of nothing else.
TellsFirstMatch == FirstMatch /\ ReadsTheSource /\ TellsOneError

\* "This is a pure GraphQL error, the message is public"
\* (stl-graphql/src/errors.ts:67). Refuted: the message of one around a coerced
\* error is kept as well if what was coerced was falsy.
KeptIsPure ==
  Standardizing /\ outcome = "notFound" /\ match.message = 1 =>
    \A e \in Errs : err[1].causes = <<e>> => isGraphqlError(e)

\* "Circular reference." (cause.ts:46): errors which cause each other do not
\* keep the search from returning. Refuted: they are not tested again, but
\* walked into again.
SearchReturns == outcome # "overflow"

\* A status sent as a protocol's code and read back is as internal, and as
\* much of the server, as it was (statusFromHttpCode, statusFromGrpcCode).
CodesKeepSeverity ==
  \A s \in ErrorStatus :
    \A back \in {statusFromHttpCode(statusToHttpCode(s)),
                 statusFromGrpcCode(statusToGrpcCode(s))} :
      /\ isInternalProblem(back) = isInternalProblem(s)
      /\ isServerProblem(back) = isServerProblem(s)
=============================================================================
