---------------------------- MODULE FieldRequests ----------------------------
(***************************************************************************)
(* isFieldRequested (stl-graphql/src/index.ts): does a query select a      *)
(* field, given by the path which leads to it?  A selection is a field     *)
(* with selections of its own or a fragment, spread or inline, with its    *)
(* type condition, and selections are sequences.                           *)
(***************************************************************************)
EXTENDS Naturals, Sequences
LOCAL INSTANCE SequencesExt

CONSTANTS FieldNames, TypeNames

AnyType == "any"

Field(name, sels) == [kind |-> "field", name |-> name, sels |-> sels]
Fragment(type, sels) == [kind |-> "fragment", name |-> type, sels |-> sels]

\* Once a fragment was entered, those inside of it are entered whatever their
\* type.
EnteredBy(loc, node) ==
  node.kind = "fragment" /\ loc.type \in {AnyType, node.name}

\* The first field with the name decides, unless a fragment before it has it.
RECURSIVE visit(_, _)
visit(nodes, locs) ==
  IF locs = <<>> THEN TRUE
  ELSE LET loc == Head(locs)
           inside == [name |-> loc.name, type |-> AnyType]
           Decides(node) ==
             \/ node.kind = "field" /\ node.name = loc.name
             \/ EnteredBy(loc, node) /\ visit(node.sels, <<inside>> \o Tail(locs))
           deciding == SelectSeq(nodes, Decides)
       IN /\ deciding # <<>>
          /\ Head(deciding).kind = "field" => visit(Head(deciding).sels, Tail(locs))

\* Reference: some field with the name leads to the rest of the path.
RECURSIVE Requested(_, _)
Requested(nodes, locs) ==
  \/ locs = <<>>
  \/ \E node \in ToSet(nodes) :
       \/ /\ node.kind = "field" /\ node.name = Head(locs).name
          /\ Requested(node.sels, Tail(locs))
       \/ /\ EnteredBy(Head(locs), node)
          /\ Requested(node.sels, <<[name |-> Head(locs).name, type |-> AnyType]>>
                                    \o Tail(locs))

-----------------------------------------------------------------------------
(* Small queries and paths *)

Leaves == {Field(n, <<>>) : n \in FieldNames}
Over(sels) ==
  {Field(n, s) : n \in FieldNames, s \in sels}
    \cup {Fragment(t, s) : t \in TypeNames, s \in sels \ {<<>>}}
Queried == SeqOf(Over(SeqOf(Leaves, 2)), 2)

Locators == [name : FieldNames, type : TypeNames \cup {AnyType}]
FieldPaths == SeqOf(Locators, 2) \ {<<>>}

\* The fields of selections, those inside of fragments with them.
FieldsOf(nodes) ==
  FoldLeft(LAMBDA fields, node :
             fields \o IF node.kind = "field" THEN <<node>> ELSE node.sels,
           <<>>, nodes)
Unrepeated(nodes) ==
  IsInjective([i \in DOMAIN FieldsOf(nodes) |-> FieldsOf(nodes)[i].name])

\* A field is only said to be requested if the query selects it, and is found
\* wherever the query selects it unless other fields have the name of one of
\* those which lead to it.
FieldsAreFound ==
  \A nodes \in Queried, locs \in FieldPaths :
    /\ visit(nodes, locs) => Requested(nodes, locs)
    /\ Unrepeated(nodes) => (Requested(nodes, locs) => visit(nodes, locs))

\* "Returns whether a (potentially deeply nested) field is requested"
\* (index.ts:7). Refuted: selections of one field may be repeated, and only the
\* first is looked at.
RepeatedAreFound ==
  \A nodes \in Queried, locs \in FieldPaths :
    Requested(nodes, locs) => visit(nodes, locs)
=============================================================================
