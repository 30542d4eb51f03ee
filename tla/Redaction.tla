----------------------------- MODULE Redaction -----------------------------
(***************************************************************************)
(* observability/redaction.py: masking by the name of a key, at any depth  *)
(* of dictionaries and lists, and what that should amount to, stated on    *)
(* the paths to the ends of a value.                                       *)
(*                                                                         *)
(* A key is its type, its name as _normalise returns it, and how that name *)
(* was spelled: upper or lower case, with dashes or underscores.           *)
(***************************************************************************)
EXTENDS Integers, Sequences

CONSTANT Levels  \* Levels[n] are the values that nest others n - 1 deep

Leaf(value) == [is |-> "leaf", value |-> value]
Dict(items) == [is |-> "dict", items |-> items]
List(elements) == [is |-> "list", elements |-> elements]
Tuple(parts) == [is |-> "tuple", parts |-> parts]
\* The text repr() makes of a value, in which nothing is a key any more.
Repr(value) == [is |-> "repr", of |-> value]

\* The steps into a value.
Key(key) == [step |-> "key", key |-> key]
Element(i) == [step |-> "element", index |-> i]
Part(i) == [step |-> "part", index |-> i]

Steps(value) ==
    CASE value.is = "dict"  -> {Key(k) : k \in DOMAIN value.items}
      [] value.is = "list"  -> {Element(i) : i \in DOMAIN value.elements}
      [] value.is = "tuple" -> {Part(i) : i \in DOMAIN value.parts}
      [] OTHER -> {}

Inside(value, step) ==
    CASE step.step = "key"     -> value.items[step.key]
      [] step.step = "element" -> value.elements[step.index]
      [] step.step = "part"    -> value.parts[step.index]

\* The values of the levels up to the n-th.
UpTo(n) == UNION {Levels[m] : m \in 1..n}
Values == UpTo(Len(Levels))

\* A dictionary of values.
IsItems(items) == /\ items = [key \in DOMAIN items |-> items[key]]
                  /\ \A key \in DOMAIN items : items[key] \in Values

IsValue(value) ==
    \/ value.is = "leaf" /\ value = Leaf(value.value)
    \/ value.is = "dict" /\ value = Dict(value.items) /\ IsItems(value.items)
    \/ value.is = "list" /\ value = List(value.elements) /\ value.elements \in Seq(Values)
    \/ value.is = "tuple" /\ value = Tuple(value.parts) /\ value.parts \in Seq(Values)
    \/ value.is = "repr" /\ value = Repr(value.of) /\ value.of \in Values

\* Values are finite trees: Python's recursion ends.  Text has no inside.
LevelsAssumption ==
    /\ Levels \in Seq(SUBSET Values)
    /\ \A n \in 1..Len(Levels) : \A value \in Levels[n] :
           /\ IsValue(value)
           /\ \A step \in Steps(value) : Inside(value, step) \in UpTo(n - 1)
ASSUME LevelsAssumption

-----------------------------------------------------------------------------
REDACTED == Leaf("[REDACTED]")

Normalise(key) == key.name
Names(fields) == {Normalise(field) : field \in fields}

Matches(key, names) == key.type = "str" /\ Normalise(key) \in names

\* The items of a dictionary, or of a record, whose own keys are all strings (of
\* another _normalise would raise); `redact` being what is done to a value.
Masked(items, names, redact) ==
    [key \in DOMAIN items |-> IF Matches(key, names) THEN REDACTED ELSE redact[items[key]]]

RedactValue(names) ==
    LET redact[value \in Values] ==
            CASE value.is = "dict" -> Dict(Masked(value.items, names, redact))
              [] value.is = "list" ->
                     List([i \in DOMAIN value.elements |-> redact[value.elements[i]]])
              [] OTHER -> value
    IN  redact

RedactItems(items, names) == Masked(items, names, RedactValue(names))

-----------------------------------------------------------------------------
(***************************************************************************)
(* The reference, "at any depth of nested dicts and lists": what a value   *)
(* ends in, a leaf, a text or a container with nothing in it, is hidden    *)
(* when a sensitive key lies on the way to it, with nothing but            *)
(* dictionaries and lists before that key; what is seen of it is the way   *)
(* to the first such key.                                                  *)
(***************************************************************************)
\* What is reached from a value in n steps, with the way to it.
Reached(value) ==
    LET reached[n \in 0..Len(Levels)] ==
            IF n = 0 THEN {<<<<>>, value>>}
            ELSE UNION {{<<Append(r[1], step), Inside(r[2], step)>> : step \in Steps(r[2])} :
                            r \in reached[n - 1]}
    IN  reached

Ends(value) ==
    UNION {{r \in Reached(value)[n] : Steps(r[2]) = {}} : n \in 0..Len(Levels)}

Sensitive(path, names) ==
    {i \in DOMAIN path : /\ path[i].step = "key" /\ Matches(path[i].key, names)
                         /\ \A j \in 1..i : path[j].step # "part"}

Seen(end, names) ==
    LET hidden == Sensitive(end[1], names)
        first == CHOOSE i \in hidden : \A j \in hidden : i <= j
    IN  IF hidden = {} THEN end ELSE <<SubSeq(end[1], 1, first), REDACTED>>

\* What may be shown of a value that has the ends of `raw`.
Shown(raw, names) == {Seen(end, names) : end \in Ends(raw)}
=============================================================================
