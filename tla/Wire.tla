-------------------------------- MODULE Wire --------------------------------
(***************************************************************************)
(* What FlatBuffers does to a message, as far as the generated headers     *)
(* GameMessage.h and MasterMessage.h and their callers rely on it.         *)
(*                                                                         *)
(* A schema is a record: the fields of a table and their types.  A table   *)
(* holds only the fields whose value is not the default one, cut to the    *)
(* width of their types (AddElement, AddOffset); a field that is not there *)
(* reads as the default (GetField, GetPointer).  Layout and alignment are  *)
(* left out.                                                               *)
(***************************************************************************)
EXTENDS Integers

CONSTANTS
    BYTE, USHORT, UINT,     \* how many values each type of integers has
    Null                    \* no string, no table

ASSUME WidthAssumption == {BYTE, USHORT, UINT} \subseteq Nat \ {0}

Width(type) == [byte |-> BYTE, ushort |-> USHORT, uint |-> UINT][type]

Scalar(type) == type \in {"byte", "ushort", "uint"}

Default(type) == IF Scalar(type) THEN 0 ELSE Null

Cut(type, value) == IF Scalar(type) THEN value % Width(type) ELSE value

\* The Create function of a table; the arguments that are not given have
\* default values.
Create(schema, given) ==
    [f \in {f \in DOMAIN schema \cap DOMAIN given :
              Cut(schema[f], given[f]) # Default(schema[f])} |->
        Cut(schema[f], given[f])]

\* The accessor of field f.
Field(schema, table, f) ==
    IF f \in DOMAIN table THEN table[f] ELSE Default(schema[f])

\* Two records in one.
Joined(r, s) == [f \in DOMAIN r \cup DOMAIN s |-> IF f \in DOMAIN r THEN r[f] ELSE s[f]]

\* A table without fields.
NoFields == [f \in {} |-> Null]
=============================================================================
