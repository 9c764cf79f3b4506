------------------------------ MODULE MCUtils ------------------------------
(***************************************************************************)
(* stl-utils for TLC.  Its parts share no state: each behaviour is of one  *)
(* part, the others rest. The multimap and the multiset are two.           *)
(***************************************************************************)
EXTENDS Bindable, Events, Intensive, Collections, Freezable

CONSTANTS c1, c2

VARIABLE part

TwoCallers == {c1, c2}

\* Two roots share what they embed; s catches its errors.
SomePrograms ==
  [r |-> <<"x", "work">>, s |-> <<"work", "x", "work">>, x |-> <<"work", "y">>,
   y |-> <<"work">>]

SmallCounts == -2 .. 2
ShortIterables == EntrySeqs!SeqOf(Values, 2)

-----------------------------------------------------------------------------
UtilsInit ==
  /\ part \in {"bindable", "events", "intensive", "multimap", "multiset", "freezable"}
  /\ Init
  /\ EventsInit /\ (part = "events" \/ (kind = "map" /\ ~throwsAborted))
  /\ IntensiveInit
  /\ CollectionsInit /\ (part = "multimap" \/ backing = "array")
  /\ FreezableInit /\ (part = "freezable" \/ (allow = {} /\ \A p \in Names : obj[p] = "absent"))

UtilsNext ==
  /\ part' = part
  /\ \/ /\ part = "bindable" /\ Next
        /\ UNCHANGED <<eventsVars, intensiveVars, collectionsVars, freezableVars>>
     \/ /\ part = "events" /\ EventsNext
        /\ UNCHANGED <<vars, intensiveVars, collectionsVars, freezableVars>>
     \/ /\ part = "intensive" /\ IntensiveNext
        /\ UNCHANGED <<vars, eventsVars, collectionsVars, freezableVars>>
     \/ /\ \/ part = "multimap" /\ CollectionsNext /\ UNCHANGED setVars
           \/ part = "multiset" /\ CollectionsNext /\ UNCHANGED mapVars
        /\ UNCHANGED <<vars, eventsVars, intensiveVars, freezableVars>>
     \/ /\ part = "freezable" /\ FreezableNext
        /\ UNCHANGED <<vars, eventsVars, intensiveVars, collectionsVars>>

utilsVars == <<part, vars, eventsVars, intensiveVars, collectionsVars, freezableVars>>

\* Nothing is queued while bindables and iterations rest.
UtilsSpec == UtilsInit /\ [][UtilsNext]_utilsVars /\ Fairness /\ EventsFairness
=============================================================================
