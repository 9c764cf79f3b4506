------------------------------ MODULE Freezable ------------------------------
(***************************************************************************)
(* An object wrapped by freezable (stl-utils/src/objects.ts): its clients  *)
(* hold a proxy, whose traps refuse what could change the object once it   *)
(* is frozen.  The traps do not know who calls: what clients got from the  *)
(* object before, they keep and may call later.                            *)
(*                                                                         *)
(* A name's slot is data, a method whose receiver is what it is called on, *)
(* a function bound to the object itself, or an accessor; nested objects,  *)
(* prototypes and those who hold the object itself are left out.           *)
(***************************************************************************)
CONSTANT Names

Data == {"v", "w"}
Functions == {"method", "bound"}
Slots == Data \cup Functions \cup {"absent", "accessor"}

VARIABLES
  obj,     \* the object, names to slots
  allow,   \* the names in allowList
  frozen,
  held,    \* the functions which clients got
  asFrozen \* history: the object and the functions held when freeze returned

freezableVars == <<obj, allow, frozen, held, asFrozen>>

FreezableInit ==
  /\ obj \in [Names -> Slots] /\ allow \in SUBSET Names
  /\ frozen = FALSE /\ held = {}
  /\ asFrozen = [obj |-> [p \in Names |-> "absent"], held |-> {}]

\* The object is only reached through what is not trapped.
RawWrite(p, slot) == obj' = [obj EXCEPT ![p] = slot]

-----------------------------------------------------------------------------
(* The traps; those which throw change nothing. *)

\* Mutant: definitions are not trapped.
DefineUntrapped(p, slot) == RawWrite(p, slot)

DefineProperty(p, slot) == ~frozen /\ RawWrite(p, slot)

DeleteProperty(p) == ~frozen /\ RawWrite(p, "absent")

\* The proxy is the receiver: data is set through its defineProperty, and a
\* setter changes the object through the proxy as well.
SetTrap(p, slot) ==
  /\ ~frozen
  /\ \E q \in IF obj[p] = "accessor" THEN Names \ {p} ELSE {p} :
       DefineProperty(q, slot)

\* Data may always be read.
Readable(p) == obj[p] \in Data \/ ~frozen \/ p \in allow

\* A getter also gets the proxy, and may keep what it computed.
GetTrap(p) ==
  /\ Readable(p)
  /\ held' = held \cup ({obj[p]} \cap Functions)
  /\ \/ obj' = obj
     \/ obj[p] = "accessor" /\ \E q \in Names, slot \in Slots : SetTrap(q, slot)
  /\ UNCHANGED <<allow, frozen, asFrozen>>

\* Descriptors are not trapped: Object.getOwnPropertyDescriptor hands out what
\* the object has of its own, frozen or not, with the functions of accessors,
\* which like methods change what they are called on.
GetDescriptor(p) ==
  /\ held' = held \cup ({obj[p]} \cap Functions)
                   \cup (IF obj[p] = "accessor" THEN {"method"} ELSE {})
  /\ UNCHANGED <<obj, allow, frozen, asFrozen>>

-----------------------------------------------------------------------------
Change ==
  /\ \E p \in Names : \/ DeleteProperty(p)
                      \/ \E slot \in Slots : SetTrap(p, slot) \/ DefineProperty(p, slot)
  /\ UNCHANGED <<allow, frozen, held, asFrozen>>

Call(f) ==
  /\ f \in held
  /\ \E p \in Names, slot \in Slots :
       IF f = "bound" THEN RawWrite(p, slot) ELSE SetTrap(p, slot)
  /\ UNCHANGED <<allow, frozen, held, asFrozen>>

\* onFreeze gets the object itself, once it is frozen.
Freeze ==
  /\ ~frozen
  /\ frozen' = TRUE
  /\ obj' = obj \/ \E p \in Names, slot \in Slots : RawWrite(p, slot)
  /\ asFrozen' = [obj |-> obj', held |-> held]
  /\ UNCHANGED <<allow, held>>

FreezableNext ==
  \/ \E p \in Names : GetTrap(p) \/ GetDescriptor(p)
  \/ Change
  \/ \E f \in Functions : Call(f)
  \/ Freeze

FreezableSpec == FreezableInit /\ [][FreezableNext]_freezableVars

-----------------------------------------------------------------------------
\* A frozen object stays what onFreeze made of it, whatever its clients do
\* with the proxy and whichever functions they got of it, before or after, as
\* long as none is bound to the object: a bound one which was handed out before,
\* or which the frozen object has for its own, changes it past the traps.
FrozenStays ==
  frozen => \/ obj = asFrozen.obj
            \/ "bound" \in asFrozen.held
            \/ \E p \in Names : asFrozen.obj[p] = "bound"

-----------------------------------------------------------------------------
(* What the code means to do, refuted. *)

\* A frozen object hands out no function but those of the allow list, the only
\* ones which get lets through (objects.ts:71): so a bound one which was not
\* handed out before could not change it. Descriptors hand out any.
FunctionsWithheld ==
  [][frozen => \A f \in held' \ held : \E p \in allow : obj[p] \in {f, "accessor"}]_held

\* Whence a frozen object does not stay what it is.
FrozenStaysIfWithheld ==
  frozen => \/ obj = asFrozen.obj
            \/ "bound" \in asFrozen.held
            \/ \E p \in allow : asFrozen.obj[p] = "bound"
=============================================================================
