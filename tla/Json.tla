--------------------------------- MODULE Json ---------------------------------
(***************************************************************************)
(* JSON values as nlohmann::json holds them, and the typed reads that the  *)
(* parser (core/scheduler/src/parser.cpp) and the plan files               *)
(* (core/scheduler/src/plan_io.cpp) share.  A scalar or an array is a      *)
(* record of one field that says what it is; an object is a function of    *)
(* its keys.  A number written as an integer stays apart from one written  *)
(* as a real.                                                              *)
(*                                                                         *)
(* A read gives the set of its results: one, or none when it refuses.      *)
(***************************************************************************)
EXTENDS Integers, Sequences, FiniteSets, SequencesExt

CONSTANTS MaxInt,      \* the largest int
          MaxUint32,   \* the largest uint32_t, beyond it
          MaxInt64     \* the largest int64_t, beyond that

ASSUME JsonAssumption == /\ MaxInt \in Nat \ {0}
                         /\ MaxUint32 \in Nat /\ MaxInt64 \in Nat
                         /\ MaxUint32 > MaxInt
                         /\ MaxInt64 > MaxUint32

\* The largest size_t, and the largest integer that a file holds as one.
MaxSize == 2 * MaxInt64 + 1

Null == [null |-> 0]
Whole(n) == [int |-> n]
Real(n) == [real |-> n]
Huge == [huge |-> 0]         \* a number that no double can hold
Text(s) == [text |-> s]
Bool(b) == [bool |-> b]
Array(items) == [array |-> items]
EmptyObject == <<>>

Is(kind, value) == DOMAIN value = {kind}
IsObject(value) ==
    DOMAIN value \notin {{"null"}, {"int"}, {"real"}, {"huge"}, {"text"}, {"bool"}, {"array"}}
IsNumber(value) == Is("int", value) \/ Is("real", value)
NumberOf(value) == IF Is("int", value) THEN value.int ELSE value.real
Has(object, key) == key \in DOMAIN object

-----------------------------------------------------------------------------
(* The typed reads. *)

ReadText(value) == IF Is("text", value) THEN {value.text} ELSE {}
ReadBool(value) == IF Is("bool", value) THEN {value.bool} ELSE {}
ReadDouble(value) == IF IsNumber(value) THEN {NumberOf(value)} ELSE {}
ReadNatural(max, value) ==
    IF Is("int", value) /\ value.int \in 0..max THEN {value.int} ELSE {}

\* A size_t is read through an int64_t, as every integer is: one that is larger
\* comes out negative, and is refused.
ReadScalar(type, value) ==
    CASE type = "text"        -> ReadText(value)
      [] type = "nonEmpty"    -> ReadText(value) \ {""}
      [] type = "bool"        -> ReadBool(value)
      [] type = "double"      -> ReadDouble(value)
      [] type = "nonNegative" -> {x \in ReadDouble(value) : x >= 0}
      [] type = "positive"    -> {x \in ReadDouble(value) : x > 0}
      [] type = "int"         -> ReadNatural(MaxInt, value)
      [] type = "uint32"      -> ReadNatural(MaxUint32, value)
      [] type = "size"        -> ReadNatural(MaxInt64, value)

\* What is written for a value of a type.
WriteScalar(type, x) ==
    CASE type \in {"text", "nonEmpty"} -> Text(x)
      [] type = "bool" -> Bool(x)
      [] type \in {"double", "nonNegative", "positive"} -> Real(x)
      [] type \in {"int", "uint32", "size"} -> Whole(x)

\* Every item of an array, each read by Reader.
ReadArray(Reader(_), value) ==
    IF Is("array", value) /\ \A i \in DOMAIN value.array : Reader(value.array[i]) # {}
    THEN {[i \in DOMAIN value.array |-> CHOOSE x \in Reader(value.array[i]) : TRUE]}
    ELSE {}

\* The named keys of an object, each read by Reader, and no others: keys that
\* the program does not know are skipped.
ReadObject(keys, required, Reader(_, _), value) ==
    IF /\ IsObject(value)
       /\ required \subseteq DOMAIN value
       /\ \A key \in keys \cap DOMAIN value : Reader(key, value[key]) # {}
    THEN {[key \in keys \cap DOMAIN value |-> CHOOSE x \in Reader(key, value[key]) : TRUE]}
    ELSE {}

\* An object all of whose known keys are scalars of the types given.
ReadRecord(types, required, value) ==
    ReadObject(DOMAIN types, required, LAMBDA key, v : ReadScalar(types[key], v), value)
WriteRecord(types, x) == [key \in DOMAIN x |-> WriteScalar(types[key], x[key])]

WriteArray(Writer(_), seq) == Array([i \in DOMAIN seq |-> Writer(seq[i])])
=============================================================================
