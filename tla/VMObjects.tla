----------------------------- MODULE VMObjects ------------------------------
(***************************************************************************)
(* The VM objects of vm.py, their binary form (binary.py), and the casts   *)
(* between their types.                                                    *)
(*                                                                         *)
(* An object is <<type, data>>: an integer for NUMBER, ENUM and TIMESTAMP, *)
(* a Boolean for BOOL, a sequence of bytes for BYTES and OBJECT, a sequence*)
(* of characters for STRING, and for STRUCT the sequence of its            *)
(* <<key, value>> pairs, in the order in which the keys were first set.    *)
(* A byte is a digit of base Base; a character is a member of Characters,  *)
(* with its UTF-8 bytes, its UTF-16 code units, and its value as a digit.  *)
(***************************************************************************)
EXTENDS BinaryCodec

CONSTANTS
  AddressBytes,  \* bytes of an address (34)
  HashBytes,     \* bytes of a hash (32)
  Utf8, Utf16, DigitValue, Minus

Types == <<"NONE", "STRUCT", "BYTES", "NUMBER", "STRING", "TIMESTAMP", "BOOL", "ENUM", "OBJECT">>
CodeOf(type) == (CHOOSE i \in DOMAIN Types : Types[i] = type) - 1
TypeOf(o) == o[1]
DataOf(o) == o[2]
NoneObject == <<"NONE", << >>>>

-----------------------------------------------------------------------------
(* binary.py: signed numbers.                                              *)

\* _big_int_to_csharp_bytes: the shortest signed form.
SignedWidth(n) ==
  CHOOSE w \in 1..5 : /\ -Power(w) <= 2 * n /\ 2 * n < Power(w)
                      /\ \A v \in 1..(w - 1) : ~(-Power(v) <= 2 * n /\ 2 * n < Power(v))
CsharpBytes(n) == LittleEndian(n, SignedWidth(n))

\* big_int_to_vm_bytes pads: a negative number of one byte by two bytes, a
\* longer one by one when its last byte is 0xFF; a positive one by a zero.
VmBytes(n) ==
  LET raw  == CsharpBytes(n)
      last == raw[Len(raw)]
  IN  raw \o (IF n < 0 THEN IF Len(raw) = 1 THEN <<Base - 1, Base - 1>>
                            ELSE IF last = Base - 1 THEN <<Base - 1>> ELSE << >>
              ELSE IF last # 0 THEN <<0>> ELSE << >>)

VmNumber(bytes) ==
  IF bytes = << >> THEN 0
  ELSE IF bytes[Len(bytes)] * 2 >= Base THEN FromLittleEndian(bytes) - Power(Len(bytes))
  ELSE FromLittleEndian(bytes)

-----------------------------------------------------------------------------
(* Texts of numbers.                                                       *)

RECURSIVE Decimal(_)

\* str() and int() of a number.
DigitFor(d) == CHOOSE c \in DOMAIN DigitValue : DigitValue[c] = d
Decimal(n) ==
  IF n < 0 THEN <<Minus>> \o Decimal(-n)
  ELSE IF n < 10 THEN <<DigitFor(n)>>
  ELSE Decimal(n \div 10) \o <<DigitFor(n % 10)>>

AllDigits(text) == text # << >> /\ \A i \in DOMAIN text : text[i] \in DOMAIN DigitValue

RECURSIVE Magnitude(_)
Magnitude(text) ==
  IF text = << >> THEN 0
  ELSE DigitValue[text[Len(text)]] + 10 * Magnitude(SubSeq(text, 1, Len(text) - 1))

IntOfText(text) ==
  IF AllDigits(text) THEN Ok(Magnitude(text))
  ELSE IF text # << >> /\ Head(text) = Minus /\ AllDigits(Tail(text)) THEN Ok(-Magnitude(Tail(text)))
  ELSE Raise("ValueError")

-----------------------------------------------------------------------------
(* Structs: dictionaries from objects to objects.                          *)

Has(pairs, key) == \E i \in DOMAIN pairs : pairs[i][1] = key
At(pairs, key) == pairs[CHOOSE i \in DOMAIN pairs : pairs[i][1] = key][2]
Put(pairs, key, value) ==
  IF Has(pairs, key)
    THEN [i \in DOMAIN pairs |-> IF pairs[i][1] = key THEN <<key, value>> ELSE pairs[i]]
    ELSE Append(pairs, <<key, value>>)

\* A struct is equal to another that maps the same keys to equal values.
RECURSIVE Same(_, _)
Same(a, b) ==
  IF TypeOf(a) # "STRUCT" \/ TypeOf(b) # "STRUCT" THEN a = b
  ELSE /\ Len(DataOf(a)) = Len(DataOf(b))
       /\ \A i \in DOMAIN DataOf(a) :
            LET p == DataOf(a)[i] IN Has(DataOf(b), p[1]) /\ Same(p[2], At(DataOf(b), p[1]))

Index(i) == <<"NUMBER", i>>

\* VMObject.array_type: the type of all elements, if the keys are 0..n-1.
ArrayType(o) ==
  LET pairs == DataOf(o)
      at(i) == At(pairs, Index(i - 1))
  IN  IF /\ TypeOf(o) = "STRUCT" /\ pairs # << >>
         /\ \A i \in DOMAIN pairs : Has(pairs, Index(i - 1))
         /\ \A i \in DOMAIN pairs : TypeOf(at(i)) = TypeOf(at(1))
        THEN TypeOf(at(1)) ELSE "NONE"

-----------------------------------------------------------------------------
(* VMObject.write.                                                         *)

InByte(n) == 0 <= n /\ n < Base
InU32(n) == 0 <= n /\ n < Power(4)

RECURSIVE Writable(_), WriteObject(_), WritePairs(_)

Writable(o) ==
  CASE TypeOf(o) = "ENUM" -> InByte(DataOf(o))
    [] TypeOf(o) = "TIMESTAMP" -> InU32(DataOf(o))
    [] TypeOf(o) = "STRUCT" ->
         \A i \in DOMAIN DataOf(o) : Writable(DataOf(o)[i][1]) /\ Writable(DataOf(o)[i][2])
    [] OTHER -> TRUE

WritePairs(pairs) ==
  IF pairs = << >> THEN << >>
  ELSE WriteObject(Head(pairs)[1]) \o WriteObject(Head(pairs)[2]) \o WritePairs(Tail(pairs))

\* An OBJECT is written with a length inside a length.
WriteObject(o) ==
  LET type == TypeOf(o)
      data == DataOf(o)
  IN  <<CodeOf(type)>> \o
      CASE type = "NONE"      -> << >>
        [] type = "STRUCT"    -> VarUint(Len(data)) \o WritePairs(data)
        [] type = "BYTES"     -> VarBytes(data)
        [] type = "OBJECT"    -> VarBytes(VarBytes(data))
        [] type = "NUMBER"    -> VarBytes(VmBytes(data))
        [] type = "STRING"    -> VarBytes(Encoded(Utf8, data))
        [] type = "TIMESTAMP" -> LittleEndian(data, 4)
        [] type = "BOOL"      -> <<IF data THEN 1 ELSE 0>>
        [] type = "ENUM"      -> <<data>>

-----------------------------------------------------------------------------
(* VMObject.read and from_bytes.  A result is <<"ok", <<object, rest>>>>.  *)

\* An OBJECT stays one only if it is an address; else it becomes the BYTES
\* of its payload, inner length included.
ReadAsObject(payload) ==
  IF Len(payload) = AddressBytes + 1 /\ payload[1] = AddressBytes
    THEN <<"OBJECT", Tail(payload)>> ELSE <<"BYTES", payload>>

Wrapped(type, t) == IF Succeeds(t) THEN Ok(<<<<type, t[2][1]>>, t[2][2]>>) ELSE t

RECURSIVE ReadObject(_), ReadPairs(_, _, _)

ReadObject(bytes) ==
  IF bytes = << >> \/ Head(bytes) >= Len(Types) THEN Raise("SerializationError")
  ELSE
    LET type == Types[Head(bytes) + 1]
        rest == Tail(bytes)
        body == TakeVarBytes(rest)
    IN  CASE type = "NONE" -> Ok(<<NoneObject, rest>>)
          [] type = "BOOL" ->
               LET t == TakeNumber(rest, 1)
               IN  IF Succeeds(t) THEN Ok(<<<<"BOOL", t[2][1] # 0>>, t[2][2]>>) ELSE t
          [] type = "BYTES" -> Wrapped(type, body)
          [] type = "ENUM" -> Wrapped(type, TakeNumber(rest, 1))
          [] type = "TIMESTAMP" -> Wrapped(type, TakeNumber(rest, 4))
          [] type = "NUMBER" ->
               IF Succeeds(body) THEN Ok(<<<<type, VmNumber(body[2][1])>>, body[2][2]>>) ELSE body
          [] type = "STRING" ->
               IF ~Succeeds(body) THEN body
               ELSE LET text == FromUtf(Utf8, body[2][1])
                    IN  IF Succeeds(text) THEN Ok(<<<<type, text[2]>>, body[2][2]>>) ELSE text
          [] type = "OBJECT" ->
               IF Succeeds(body) THEN Ok(<<ReadAsObject(body[2][1]), body[2][2]>>) ELSE body
          [] type = "STRUCT" ->
               LET count == TakeVarUint(rest)
               IN  IF Succeeds(count) THEN ReadPairs(count[2][1], << >>, count[2][2]) ELSE count

\* The pairs of a struct; a key that is a struct cannot be hashed, and a key
\* that comes again replaces the value in its first place.
ReadPairs(count, pairs, bytes) ==
  IF count = 0 THEN Ok(<<<<"STRUCT", pairs>>, bytes>>)
  ELSE LET key == ReadObject(bytes)
       IN  IF ~Succeeds(key) THEN key
           ELSE LET value == ReadObject(key[2][2])
                IN  IF ~Succeeds(value) THEN value
                    ELSE IF TypeOf(key[2][1]) = "STRUCT" THEN Raise("TypeError")
                    ELSE ReadPairs(count - 1, Put(pairs, key[2][1], value[2][1]), value[2][2])

\* A slip of FromBytes: bytes after the object are not looked at.
FromBytesLoose(bytes) ==
  LET r == ReadObject(bytes) IN IF Succeeds(r) THEN Ok(r[2][1]) ELSE r

FromBytes(bytes) ==
  LET r == ReadObject(bytes)
  IN  IF ~Succeeds(r) THEN r
      ELSE IF r[2][2] # << >> THEN Raise("SerializationError") ELSE Ok(r[2][1])

-----------------------------------------------------------------------------
(* Conversions and casts.                                                  *)

AsNumber(o) ==
  CASE TypeOf(o) = "NUMBER" -> Ok(DataOf(o))
    [] TypeOf(o) = "BYTES" -> Ok(VmNumber(DataOf(o)))
    [] TypeOf(o) = "OBJECT" /\ Len(DataOf(o)) = HashBytes -> Ok(FromLittleEndian(DataOf(o)))
    [] TypeOf(o) = "BOOL" -> Ok(IF DataOf(o) THEN 1 ELSE 0)
    [] TypeOf(o) \in {"ENUM", "TIMESTAMP"} -> Ok(DataOf(o))
    [] TypeOf(o) = "STRING" -> IntOfText(DataOf(o))
    [] TypeOf(o) = "NONE" -> Ok(0)
    [] OTHER -> Raise("SerializationError")

\* Enumerations and times have four bytes.
\* A slip of FixedBytes: one.
FixedBytesOne(n) == LittleEndian(n, 1)
FixedBytes(n) == LittleEndian(n, 4)

AsBytes(o) ==
  CASE TypeOf(o) = "STRING" -> Ok(Encoded(Utf8, DataOf(o)))
    [] TypeOf(o) \in {"BYTES", "OBJECT"} -> Ok(DataOf(o))
    [] TypeOf(o) = "BOOL" -> Ok(<<IF DataOf(o) THEN 1 ELSE 0>>)
    [] TypeOf(o) \in {"ENUM", "TIMESTAMP"} -> Ok(FixedBytes(DataOf(o)))
    [] TypeOf(o) = "NUMBER" -> Ok(VmBytes(DataOf(o)))
    [] TypeOf(o) = "STRUCT" -> IF Writable(o) THEN Ok(WriteObject(o)) ELSE Raise("SerializationError")
    [] OTHER -> Raise("SerializationError")

\* The text of an array of UTF-16 code units; any other struct becomes the
\* base64 of its bytes, kept here as <<"base64", bytes>>.
UnitsOf(o) == [i \in DOMAIN DataOf(o) |-> DataOf(At(DataOf(o), Index(i - 1)))]
StructAsString(o) ==
  IF ArrayType(o) = "NUMBER"
    THEN IF \A i \in DOMAIN DataOf(o) : 0 <= UnitsOf(o)[i] /\ UnitsOf(o)[i] < Power(2)
           THEN FromUtf(Utf16, UnitsOf(o)) ELSE Raise("SerializationError")
    ELSE LET bytes == AsBytes(o) IN IF Succeeds(bytes) THEN Ok(<<"base64", bytes[2]>>) ELSE bytes

BoolText(b) == IF b THEN <<"true">> ELSE <<"false">>
AsString(o) ==
  CASE TypeOf(o) = "STRING" -> Ok(DataOf(o))
    [] TypeOf(o) = "BYTES" -> FromUtf(Utf8, DataOf(o))
    [] TypeOf(o) = "BOOL" -> Ok(BoolText(DataOf(o)))
    [] TypeOf(o) \in {"NUMBER", "ENUM", "TIMESTAMP"} -> Ok(Decimal(DataOf(o)))
    [] TypeOf(o) = "NONE" -> Ok(<<"Null">>)
    [] TypeOf(o) = "STRUCT" -> StructAsString(o)
    [] OTHER -> Raise("SerializationError")

AsBool(o) ==
  CASE TypeOf(o) = "BOOL" -> Ok(DataOf(o))
    [] TypeOf(o) = "BYTES" /\ Len(DataOf(o)) = 1 -> Ok(DataOf(o)[1] # 0)
    [] TypeOf(o) = "NUMBER" -> Ok(DataOf(o) # 0)
    [] OTHER -> Raise("SerializationError")

Made(type, r) == IF Succeeds(r) THEN Ok(<<type, r[2]>>) ELSE r

UnitsStruct(text) ==
  LET units == Encoded(Utf16, text)
  IN  <<"STRUCT", [i \in DOMAIN units |-> <<Index(i - 1), <<"NUMBER", units[i]>>>>]>>

CastTo(o, target) ==
  CASE TypeOf(o) = target -> Ok(o)
    [] TypeOf(o) # target /\ target = "NONE" -> Ok(NoneObject)
    [] TypeOf(o) # target /\ target = "STRING" -> Made(target, AsString(o))
    [] TypeOf(o) # target /\ target = "BYTES" -> Made(target, AsBytes(o))
    [] TypeOf(o) # target /\ target = "NUMBER" -> Made(target, AsNumber(o))
    [] TypeOf(o) # target /\ target = "BOOL" -> Made(target, AsBool(o))
    [] target = "STRUCT" /\ TypeOf(o) = "STRING" -> Ok(UnitsStruct(DataOf(o)))
    [] target = "STRUCT" /\ TypeOf(o) = "OBJECT" -> Ok(o)
    [] OTHER -> Raise("SerializationError")

=============================================================================
