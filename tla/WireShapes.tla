----------------------------- MODULE WireShapes -----------------------------
(***************************************************************************)
(* Parsed JSON, the VM values it can carry, and the strict decoding and    *)
(* encoding of the modelled shapes: vm_value.py and _wire_shapes.py.       *)
(*                                                                         *)
(* A JSON value is a tagged tuple: <<"null">>, <<"bool", b>>, <<"num", n>>,*)
(* <<"real", text>>, <<"text", t>>, <<"list", seq>> or <<"obj", f>>, where *)
(* f maps the names of the object's members to their values.               *)
(*                                                                         *)
(* The type of a field is a tagged tuple too, of length three: its kind,   *)
(* what it is made of, and the default a missing field keeps.  A shape is  *)
(* <<"shape", name, fields>>, fields mapping wire names to types.          *)
(***************************************************************************)
EXTENDS Naturals, Sequences, TLC

Null == <<"null">>
Text(t) == <<"text", t>>
Num(n) == <<"num", n>>
Bool(b) == <<"bool", b>>
List(seq) == <<"list", seq>>
Obj(members) == <<"obj", members>>

KindOf(v) == v[1]
Body(v) == v[2]

\* The values of a sequence or of a function, each changed by op.
Each(op(_), f) == [i \in DOMAIN f |-> op(f[i])]

-----------------------------------------------------------------------------
(* Names.  A field is named here by its wire name.  Its Python spelling is *)
(* another name exactly when it has more than one word, or is the keyword  *)
(* "from", spelled from_ in Python and restored by an override.            *)

CONSTANT OneWord

PythonName(f) == IF f \in OneWord THEN f ELSE "snake " \o f

-----------------------------------------------------------------------------
(* VM values: exactly one of text, items and fields is set.                *)

OfText(t) == <<"vmtext", t>>
OfItems(items) == <<"vmitems", items>>
OfFields(members) == <<"vmfields", members>>

RECURSIVE FromWire(_), ToWire(_)

\* Null becomes the empty scalar, booleans and numbers their JSON text.
FromWire(v) ==
  CASE KindOf(v) = "text" -> OfText(Body(v))
    [] KindOf(v) = "obj"  -> OfFields(Each(FromWire, Body(v)))
    [] KindOf(v) = "list" -> OfItems(Each(FromWire, Body(v)))
    [] KindOf(v) = "null" -> OfText("")
    [] KindOf(v) = "bool" -> OfText(IF Body(v) THEN "true" ELSE "false")
    [] KindOf(v) = "num"  -> OfText(ToString(Body(v)))
    [] KindOf(v) = "real" -> OfText(Body(v))

ToWire(vm) ==
  CASE KindOf(vm) = "vmitems"  -> List(Each(ToWire, Body(vm)))
    [] KindOf(vm) = "vmfields" -> Obj(Each(ToWire, Body(vm)))
    [] KindOf(vm) = "vmtext"   -> Text(Body(vm))

-----------------------------------------------------------------------------
(* Field types, each with the default its dataclass declares.              *)

Str == <<"str", {}, Text("")>>
StrOr(t) == <<"str", {}, Text(t)>>
Integer == <<"int", {}, Num(0)>>
Flag == <<"bool", {}, Bool(FALSE)>>
VmField == <<"vm", {}, OfText("")>>
Optional(type) == <<"opt", type, Null>>
ListOf(type) == <<"list", type, List(<< >>)>>
DictOf(type) == <<"dict", type, Obj(<< >>)>>

Shape(name, members) == <<"shape", name, members>>

\* Fields of one type, named at once: the usual row of "name: str".
Texts(names) == [f \in names |-> Str]
Ints(names) == [f \in names |-> Integer]
OptTexts(names) == [f \in names |-> Optional(Str)]

NameOf(shape) == shape[2]
FieldsOf(shape) == shape[3]

RECURSIVE Default(_)
Default(type) ==
  IF type[1] = "shape"
    THEN <<"object", NameOf(type), Each(Default, FieldsOf(type))>>
    ELSE type[3]

-----------------------------------------------------------------------------
(* decode_shape.  Fits says that no ShapeMismatch is raised; Read is then  *)
(* the decoded value.  The wire name is looked up first; members that no   *)
(* field declares are not looked at.                                       *)

Given(members, f) == f \in DOMAIN members \/ PythonName(f) \in DOMAIN members
Value(members, f) == IF f \in DOMAIN members THEN members[f] ELSE members[PythonName(f)]

RECURSIVE Fits(_, _), Read(_, _)

Fits(type, v) ==
  CASE type[1] = "opt"   -> v = Null \/ Fits(type[2], v)
    [] type[1] = "vm"    -> TRUE
    [] type[1] = "str"   -> KindOf(v) = "text"
    [] type[1] = "bool"  -> KindOf(v) = "bool"
    [] type[1] = "int"   -> KindOf(v) = "num"
    [] type[1] = "list"  -> KindOf(v) = "list" /\ \A i \in DOMAIN Body(v) : Fits(type[2], Body(v)[i])
    [] type[1] = "dict"  -> KindOf(v) = "obj" /\ \A k \in DOMAIN Body(v) : Fits(type[2], Body(v)[k])
    [] type[1] = "shape" -> /\ KindOf(v) = "obj"
                            /\ \A f \in DOMAIN FieldsOf(type) :
                                 Given(Body(v), f) => Fits(FieldsOf(type)[f], Value(Body(v), f))

Read(type, v) ==
  CASE type[1] = "opt"   -> IF v = Null THEN Null ELSE Read(type[2], v)
    [] type[1] = "vm"    -> FromWire(v)
    [] type[1] \in {"str", "bool", "int"} -> v
    [] type[1] = "list"  -> List([i \in DOMAIN Body(v) |-> Read(type[2], Body(v)[i])])
    [] type[1] = "dict"  -> Obj([k \in DOMAIN Body(v) |-> Read(type[2], Body(v)[k])])
    [] type[1] = "shape" ->
         <<"object", NameOf(type),
           [f \in DOMAIN FieldsOf(type) |->
              IF Given(Body(v), f) THEN Read(FieldsOf(type)[f], Value(Body(v), f))
                                   ELSE Default(FieldsOf(type)[f])]>>

-----------------------------------------------------------------------------
(* shape_to_wire.  A decoded object is <<"object", name, fields>>; one     *)
(* that carries preserved JSON is <<"raw", name, json>> and writes it back *)
(* as it is.  Fields that are None are left out.                           *)

Object(name, members) == <<"object", name, members>>
Raw(name, v) == <<"raw", name, v>>
Decoded(object) == object[3]

\* SpecialResolutionCall.to_wire leaves out an empty list of calls too.
Omitted(object) ==
  {f \in DOMAIN Decoded(object) :
     \/ Decoded(object)[f] = Null
     \/ object[2] = "SpecialResolutionCall" /\ f = "calls" /\ Decoded(object)[f] = List(<< >>)}

RECURSIVE Written(_)
Written(v) ==
  CASE KindOf(v) = "raw" -> Decoded(v)
    [] KindOf(v) \in {"vmtext", "vmitems", "vmfields"} -> ToWire(v)
    [] KindOf(v) = "object" ->
         Obj([f \in (DOMAIN Decoded(v)) \ Omitted(v) |-> Written(Decoded(v)[f])])
    [] KindOf(v) = "obj"  -> Obj(Each(Written, Body(v)))
    [] KindOf(v) = "list" -> List(Each(Written, Body(v)))
    [] OTHER -> v

=============================================================================
