------------------------------- MODULE SioJson -------------------------------
(***************************************************************************)
(* Messages and their JSON: accept_message, which writes a tree of values  *)
(* and sets its binary leaves aside, a numbered placeholder in their place,*)
(* and from_json, which reads a tree back and puts them in again.          *)
(*                                                                         *)
(* A JSON value is the tree rapidjson makes of a text.  The members of an  *)
(* object have different names, and none is called _placeholder in a       *)
(* message.                                                                *)
(***************************************************************************)
EXTENDS SioMessage

Json(type, v) == <<type, v>>

Member(name, value) == [name |-> name, value |-> value]

(* The members of an object_message, in the order of its map.              *)
Names == <<"a", "b">>

Placeholder(num) ==
  Json("object", <<Member("_placeholder", Json("bool", TRUE)), Member("num", Json("int", num))>>)

-----------------------------------------------------------------------------
(* accept_message: the value, and the buffers with the attachments of m    *)
(* added to bufs.  An attachment is numbered by those before it.           *)
RECURSIVE AcceptMessage(_, _)

AcceptMessage(m, bufs) ==
  LET Accepted(json, b) == [json |-> json, bufs |-> b]
      Element(acc, child) ==
        LET a == AcceptMessage(child, acc.bufs) IN Accepted(Append(acc.json, a.json), a.bufs)
      Named(acc, name) ==
        LET a == AcceptMessage(Value(m)[name], acc.bufs)
        IN Accepted(Append(acc.json, Member(name, a.json)), a.bufs)
  IN CASE Flag(m) = "binary" -> Accepted(Placeholder(Len(bufs)), Append(bufs, Value(m)))
       [] Flag(m) = "array"  ->
            LET a == FoldLeft(Element, Accepted(<<>>, bufs), Value(m))
            IN Accepted(Json("array", a.json), a.bufs)
       [] Flag(m) = "object" ->
            LET a == FoldLeft(Named, Accepted(<<>>, bufs),
                              SelectSeq(Names, LAMBDA name : name \in DOMAIN Value(m)))
            IN Accepted(Json("object", a.json), a.bufs)
       [] OTHER -> Accepted(Json(Flag(m), Value(m)), bufs)

-----------------------------------------------------------------------------
(* What from_json makes a message of.  Not of "big", an integer that needs *)
(* a uint64: to rapidjson that is neither an int64 nor a double.           *)
Scalars == {"null", "bool", "int", "double", "string"}

ValueOf(members, name) ==
  members[SelectInSeq(members, LAMBDA m : m.name = name)].value

NamesOf(members) == {members[i].name : i \in DOMAIN members}

(* A placeholder whose number is that of no buffer becomes a null pointer, *)
(* and so does what is none of the kinds from_json asks for.               *)
RECURSIVE FromJson(_, _)

FromJson(j, bufs) ==
  CASE Flag(j) \in Scalars -> Message(Flag(j), Value(j))
    [] Flag(j) = "array"   ->
         Message("array", [i \in DOMAIN Value(j) |-> FromJson(Value(j)[i], bufs)])
    [] Flag(j) = "object" /\ "_placeholder" \in NamesOf(Value(j)) ->
         LET num == Value(ValueOf(Value(j), "num"))
         IN IF num \in 0 .. Len(bufs) - 1 THEN Message("binary", bufs[num + 1]) ELSE NullPtr
    [] Flag(j) = "object" /\ "_placeholder" \notin NamesOf(Value(j)) ->
         Message("object", [name \in NamesOf(Value(j)) |-> FromJson(ValueOf(Value(j), name), bufs)])
    [] OTHER -> NullPtr
=============================================================================
