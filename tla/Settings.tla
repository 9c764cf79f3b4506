------------------------------ MODULE Settings ------------------------------
(***************************************************************************)
(* stl-settings: a manager reads an environment's settings once and caches *)
(* what it made of them; it throws, telling of every issue, when the       *)
(* environment's settings are missing or invalid.                          *)
(*                                                                         *)
(* Settings are read in the order of their keys. A key may hold a setting, *)
(* or one which is made of others and has its own source object. An        *)
(* environment is an object: it may be changed in place, as process.env.   *)
(***************************************************************************)
EXTENDS Naturals, Sequences

KeySeqs == INSTANCE SequencesExt

CONSTANTS
  Envs,      \* environments, objects
  Plain,     \* the keys of settings, a sequence
  Nested,    \* the keys of the settings which Group is made of, a sequence
  Required,  \* those whose source is invalidSource when it is unset
  Sensitive, \* those whose source is not shown
  Group,     \* the key of the nested setting, read last
  Absent,    \* transforms to undefined where every setting is unset
  MaxCalls

ASSUME SettingsAssumption ==
  /\ Plain \in Seq(KeySeqs!ToSet(Plain)) /\ Nested \in Seq(KeySeqs!ToSet(Nested))
  /\ KeySeqs!IsInjective(Plain \o Nested) /\ Group \notin KeySeqs!ToSet(Plain \o Nested)
  /\ Required \subseteq KeySeqs!ToSet(Plain \o Nested)
  /\ Absent \in BOOLEAN /\ MaxCalls \in Nat

VARIABLES
  content, \* each environment's source per key: "unset", "good" or "bad", and
           \* whether Group's transform accepts the rest
  \* Each of these is a set of at most one element, empty for undefined.
  ref,     \* ProcessEnvRef: the environment read last
  ret,     \* what the transform returned last
  reply,   \* the last call's environment and its result
  valid,   \* history: the last valid environment, and what was made of it
  tried    \* history: the environments read

settingsVars == <<content, ref, ret, reply, valid, tried>>

-----------------------------------------------------------------------------
(* Reading an environment *)

\* RealSetting.resource of a setting whose source is a string.
Resource(env, key) ==
  CASE env[key] = "unset" -> IF key \in Required THEN "missing" ELSE "undefined"
    [] env[key] = "bad" -> "throws"
    [] env[key] = "good" -> "read"

\* nestedResource's walk: undefined settings are left out, and every other
\* one is walked past, whatever its issue.
Unread == [values |-> {}, missing |-> <<>>, errors |-> <<>>]
WalkPast(env, read, key) ==
  CASE Resource(env, key) = "missing" -> [read EXCEPT !.missing = Append(@, key)]
    [] Resource(env, key) = "throws" -> [read EXCEPT !.errors = Append(@, key)]
    [] Resource(env, key) = "read" -> [read EXCEPT !.values = @ \cup {key}]
    [] Resource(env, key) = "undefined" -> read

Walk(env, keys) ==
  LET Walked[n \in 0 .. Len(keys)] ==
        IF n = 0 THEN Unread ELSE WalkPast(env, Walked[n - 1], keys[n])
  IN Walked[Len(keys)]

HasIssues(read) == read.missing # <<>> \/ read.errors # <<>>

\* All of an environment: an issue of the nested settings, or of what is made
\* of them, is one error of Group's.
Read(env) ==
  LET outer == Walk(env, Plain)
      inner == Walk(env, Nested)
  IN IF HasIssues(inner) \/ env[Group] = "bad"
     THEN [outer EXCEPT !.errors = Append(@, Group)]
     ELSE [outer EXCEPT !.values = @ \cup inner.values \cup {Group}]

\* The sources which a manager's transform gets with the values.
Sources(env, read) ==
  [key \in read.values |->
     IF key \in Sensitive THEN "null" ELSE IF key = Group THEN "object" ELSE env[key]]

\* The transform of the manager's user.
Transform(env, read) ==
  IF Absent /\ read.values \subseteq {Group} THEN {}
  ELSE {[values |-> read.values, sources |-> Sources(env, read)]}

-----------------------------------------------------------------------------
(* The manager *)

Contents ==
  LET keys == KeySeqs!ToSet(Plain \o Nested)
  IN {env \in [keys \cup {Group} -> {"unset", "good", "bad"}] : env[Group] # "unset"}

SettingsInit ==
  /\ content \in [Envs -> Contents]
  /\ ref = {} /\ ret = {} /\ reply = {} /\ tried = <<>> /\ valid = {}

\* Mutant: an environment which is new to the manager is not read if it holds
\* another's settings.
MustReadOnce(env) == ret = {}
MustRead(env) == env \notin ref \/ ret = {}

\* The reference is replaced before the environment is read.
Call(env) ==
  /\ Len(tried) < MaxCalls
  /\ LET read == Read(content[env])
         made == Transform(content[env], read)
     IN \/ /\ MustRead(env) /\ HasIssues(read)
           /\ reply' = {[env |-> env, throws |-> TRUE, missing |-> read.missing,
                         errors |-> read.errors]}
           /\ tried' = Append(tried, env)
           /\ UNCHANGED <<ret, valid>>
        \/ /\ MustRead(env) /\ ~HasIssues(read)
           /\ ret' = made
           /\ reply' = {[env |-> env, throws |-> FALSE, value |-> made]}
           /\ tried' = Append(tried, env) /\ valid' = {[env |-> env, value |-> made]}
        \/ /\ ~MustRead(env)
           /\ reply' = {[env |-> env, throws |-> FALSE, value |-> ret]}
           /\ UNCHANGED <<ret, tried, valid>>
  /\ ref' = {env}
  /\ UNCHANGED content

\* An environment is changed in place.
Change(env) ==
  /\ \E key \in DOMAIN content[env], source \in {"unset", "good", "bad"} :
       content' = [content EXCEPT ![env][key] = source]
  /\ content' # content /\ content'[env] \in Contents
  /\ reply' = {}
  /\ UNCHANGED <<ref, ret, tried, valid>>

SettingsNext == \E env \in Envs : Call(env) \/ Change(env)

SettingsSpec == SettingsInit /\ [][SettingsNext]_settingsVars

-----------------------------------------------------------------------------
(* Properties *)

Returned == {r \in reply : ~r.throws}
Thrown == {r \in reply : r.throws}

\* "Values are cached for identical environment calls" (common.ts:238): what a
\* call returns is what was made of the environment it was called with.
\* Refuted: called again with one which it could not read, the manager
\* returns what it made of the one before.
ReturnsOfItsEnv == \A r \in Returned : \A v \in valid : v.env = r.env

\* What a call returns was made of the environment, or of the last valid one
\* when the environment was read since and found invalid; nothing is made
\* of an environment which has an issue (settingsManager).
ReturnsLastValid ==
  \A r \in Returned :
    /\ {v.value : v \in valid} = {r.value}
    /\ \A v \in valid : v.env # r.env => tried[Len(tried)] = r.env

\* The keys told, in the order of keys.
ToldInOrder(told, keys) ==
  \A i, j \in DOMAIN told :
    i < j => \E a, b \in DOMAIN keys : a < b /\ told[i] = keys[a] /\ told[j] = keys[b]

\* A call which throws tells of every issue of the environment, in order, those
\* of nested settings being one (nestedResource).
TellsEveryIssue ==
  \A r \in Thrown :
    LET Missing(k) == k \in Required /\ content[r.env][k] = "unset"
        Throws(k) == content[r.env][k] = "bad"
    IN /\ KeySeqs!ToSet(r.missing) = {k \in KeySeqs!ToSet(Plain) : Missing(k)}
       /\ KeySeqs!ToSet(r.errors) =
            {k \in KeySeqs!ToSet(Plain) : Throws(k)}
              \cup {k \in {Group} :
                     Throws(k) \/ \E n \in KeySeqs!ToSet(Nested) : Throws(n) \/ Missing(n)}
       /\ ToldInOrder(r.missing, Plain) /\ ToldInOrder(r.errors, Append(Plain, Group))

\* Every call tells of the environment, or of the last valid one.
TellsOfEnv == ReturnsLastValid /\ TellsEveryIssue
=============================================================================
