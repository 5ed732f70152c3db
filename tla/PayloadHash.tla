----------------------------- MODULE PayloadHash -----------------------------
(***************************************************************************)
(* stableSerialize of utils/hash.ts, the text a payload is hashed as, and    *)
(* the comparison createOrder makes with it when a key is used again.  A     *)
(* payload is what JSON.parse returned, so it may hold properties the schema *)
(* does not name, and numbers too large to be finite; an object keeps its    *)
(* properties in the order they were written.  Booleans go the way of        *)
(* numbers and are left out.                                                 *)
(*                                                                           *)
(* The text is a sequence of tokens: JSON.stringify quotes strings, so a     *)
(* string never runs into a bracket, a comma or a literal.                   *)
(***************************************************************************)
EXTENDS Naturals, SequencesExt

CONSTANTS
    Collation,  \* property name -> its place under localeCompare, counted from
                \* 1; names that collate alike share one
    Bodies,     \* the JSON values that are sent with one key
    MaxReplays  \* bound: how often the key is used again

MaxCollation == Cardinality(DOMAIN Collation)

VARIABLES
    stored,     \* the body the key was taken with
    answers     \* the bodies sent again with it, and what became of them

vars == <<stored, answers>>

(* JSON values *)
Null == [kind |-> "null"]
Infinite == [kind |-> "infinite"]
Number(digits) == [kind |-> "number", value |-> digits]
Text(s) == [kind |-> "string", value |-> s]
Array(items) == [kind |-> "array", items |-> items]
Object(entries) == [kind |-> "object", entries |-> entries]
Entry(name, value) == [name |-> name, value |-> value]

----------------------------------------------------------------------------
(* stableSerialize *)

Punctuation(mark) == << <<"mark", mark>> >>

(* items.join(',') *)
JoinWithCommas(texts) ==
    FlattenSeq([i \in 1..Len(texts) |->
                   IF i = 1 THEN texts[i] ELSE Punctuation(",") \o texts[i]])

(* The stable sort by localeCompare: names that collate alike stay in order. *)
SortedEntries(entries) ==
    FlattenSeq([place \in 1..MaxCollation |->
                   SelectSeq(entries, LAMBDA e : Collation[e.name] = place)])

RECURSIVE Serialize(_)
Serialize(v) ==
    CASE v.kind \in {"null", "infinite"} -> << <<"literal", "null">> >>
      [] v.kind \in {"number", "string"} -> << <<v.kind, v.value>> >>
      [] v.kind = "array" ->
            Punctuation("[")
              \o JoinWithCommas([i \in 1..Len(v.items) |-> Serialize(v.items[i])])
              \o Punctuation("]")
      [] v.kind = "object" ->
            LET entries == SortedEntries(v.entries)
            IN  Punctuation("{")
                  \o JoinWithCommas([i \in 1..Len(entries) |->
                        << <<"name", entries[i].name>> >>
                          \o Punctuation(":") \o Serialize(entries[i].value)])
                  \o Punctuation("}")

----------------------------------------------------------------------------
(* The replay check *)

(* The key is taken: the hash of this body is stored with its order. *)
Init ==
    /\ stored \in Bodies
    /\ answers = << >>

(* A create with the same key: the stored hash is compared with the body's. *)
Replay(body) ==
    /\ Len(answers) < MaxReplays
    /\ answers' = Append(answers,
                       [body |-> body,
                        verdict |-> IF Serialize(body) = Serialize(stored)
                                    THEN "replay" ELSE "conflict"])
    /\ UNCHANGED stored

Next == \E body \in Bodies : Replay(body)

Spec == Init /\ [][Next]_vars

----------------------------------------------------------------------------
(* The reference definition *)

Names(v) == {v.entries[i].name : i \in 1..Len(v.entries)}

Property(v, name) ==
    v.entries[CHOOSE i \in 1..Len(v.entries) : v.entries[i].name = name].value

(* Two bodies say the same: the same leaves, the same items in the same order, the
   same properties in any order. *)
RECURSIVE SaysTheSame(_, _)
SaysTheSame(v, w) ==
    /\ v.kind = w.kind
    /\ v.kind \in {"number", "string"} => v.value = w.value
    /\ v.kind = "array" =>
          /\ Len(v.items) = Len(w.items)
          /\ \A i \in 1..Len(v.items) : SaysTheSame(v.items[i], w.items[i])
    /\ v.kind = "object" =>
          /\ Names(v) = Names(w)
          /\ \A name \in Names(v) : SaysTheSame(Property(v, name), Property(w, name))

(* What hash.ts says of itself: "semantically equivalent objects (irrespective of
   property ordering) yield the same string", and clients "cannot reuse an
   Idempotency-Key with a different request body without triggering a conflict".
   So a key answers with its order exactly the bodies that say the same as the one
   it was taken with. *)
VerdictsAreRight ==
    \A i \in 1..Len(answers) :
        answers[i].verdict = "replay" <=> SaysTheSame(answers[i].body, stored)

----------------------------------------------------------------------------
(* Where the text is right *)

(* A body whose numbers are finite and whose objects have no two names that
   collate alike. *)
RECURSIVE Regular(_)
Regular(v) ==
    /\ v.kind # "infinite"
    /\ v.kind = "array" => \A i \in 1..Len(v.items) : Regular(v.items[i])
    /\ v.kind = "object" =>
          /\ Cardinality({Collation[name] : name \in Names(v)}) = Len(v.entries)
          /\ \A i \in 1..Len(v.entries) : Regular(v.entries[i].value)

(* Between such bodies the text decides exactly what it is meant to decide. *)
RegularAreToldApart(bodies) ==
    LET regular == {v \in bodies : Regular(v)}
        text == [v \in regular |-> Serialize(v)]
    IN  \A v, w \in regular : text[v] = text[w] <=> SaysTheSame(v, w)
============================================================================
