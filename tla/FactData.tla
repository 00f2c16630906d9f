---- MODULE FactData ----
(***************************************************************************)
(* What the store makes of the data of a fact: the row keys its names form *)
(* and the scans over them, the text its row is written as and read from,  *)
(* the texts of the registries, the comparison of two objects and the      *)
(* words a search finds it by.  A name is a sequence of characters; a      *)
(* number is an integer, in units of the epsilon of comparisons, or one of *)
(* the three that are not finite.                                          *)
(***************************************************************************)
EXTENDS Integers, Sequences, FiniteSets, SequencesExt

CONSTANT Colon                 \* a character
CONSTANTS NaN, Inf, NegInf     \* three integers that stand for no number
CONSTANT None                  \* the absent value of an optional field

Finite(n) == n \notin {NaN, Inf, NegInf}
Refused == [ok |-> FALSE]
Loaded(x) == [ok |-> TRUE, val |-> x]

-----------------------------------------------------------------------------
(* Rows are [subject, predicate, id, ...].                                 *)
SubjectPredicatePrefix(subject, predicate) == subject \o <<Colon>> \o predicate \o <<Colon>>
FactRowKey(r) == SubjectPredicatePrefix(r.subject, r.predicate) \o r.id

Indexed(rows, prefix) == {r \in rows : SubjectPredicatePrefix(r.subject, r.predicate) = prefix}
(* A prefix that is a key of the index is answered from the index alone.   *)
ScanFacts(rows, prefix) ==
    IF Indexed(rows, prefix) # {} THEN Indexed(rows, prefix)
    ELSE {r \in rows : IsPrefix(prefix, FactRowKey(r))}
AllFactsAbout(rows, subject) == ScanFacts(rows, subject \o <<Colon>>)
FactsOfSlot(rows, subject, predicate) == Indexed(rows, SubjectPredicatePrefix(subject, predicate))

-----------------------------------------------------------------------------
(* Rows as JSON.  A tree is a string, a number, a flag, null or a function *)
(* of fields; a line with a number that is not finite does not parse.      *)
Str(s) == [kind |-> "string", val |-> s]
Num(n) == [kind |-> "number", val |-> n]
Null   == [kind |-> "null"]
Opt(x) == IF x = None THEN Null ELSE Str(x)

WriteObject(v) ==
    [type |-> Str(v.type),
     value |-> CASE v.type \in {"Text", "Entity"} -> Str(v.val)
                 [] v.type = "Number" -> Num(v.val)
                 [] v.type = "Boolean" -> [kind |-> "bool", val |-> v.val]]
WriteFact(f) ==
    [id |-> Str(f.id), subject |-> Str(f.subject), predicate |-> Str(f.predicate),
     object |-> [kind |-> "object", val |-> WriteObject(f.object)],
     valid_from |-> Str(f.valid_from), valid_to |-> Opt(f.valid_to),
     recorded_at |-> Str(f.recorded_at), expired_at |-> Opt(f.expired_at),
     confidence |-> Num(f.confidence), source |-> Opt(f.source)]

Parses(tree) ==
    /\ \A x \in DOMAIN tree : tree[x].kind = "number" => Finite(tree[x].val)
    /\ tree.object.val.value.kind = "number" => Finite(tree.object.val.value.val)

Has(tree, field, kind) == field \in DOMAIN tree /\ tree[field].kind = kind
(* The hyphen of a year before 0 cannot be read back (TimeAndErrors).      *)
IsTime(tree, field) == Has(tree, field, "string") /\ tree[field].val >= 0
IsTimeOrNone(tree, field) ==
    field \notin DOMAIN tree \/ Has(tree, field, "null") \/ IsTime(tree, field)
Kinds == [Text |-> "string", Entity |-> "string", Number |-> "number", Boolean |-> "bool"]
Optional(tree, field, kind, default) ==
    IF Has(tree, field, kind) THEN tree[field].val ELSE default

ReadFact(tree) ==
    LET object == tree.object.val
    IN  IF /\ Parses(tree)
           /\ \A x \in {"id", "subject", "predicate"} : Has(tree, x, "string")
           /\ object.type.val \in DOMAIN Kinds
           /\ object.value.kind = Kinds[object.type.val]
           /\ IsTime(tree, "valid_from") /\ IsTime(tree, "recorded_at")
           /\ IsTimeOrNone(tree, "valid_to") /\ IsTimeOrNone(tree, "expired_at")
        THEN Loaded(
                [id |-> tree.id.val, subject |-> tree.subject.val, predicate |-> tree.predicate.val,
                 object |-> [type |-> object.type.val, val |-> object.value.val],
                 valid_from |-> tree.valid_from.val, recorded_at |-> tree.recorded_at.val,
                 valid_to |-> Optional(tree, "valid_to", "string", None),
                 expired_at |-> Optional(tree, "expired_at", "string", None),
                 confidence |-> Optional(tree, "confidence", "number", 1),
                 source |-> Optional(tree, "source", "string", None)])
        ELSE Refused

-----------------------------------------------------------------------------
(* The registries: what a registration caches and writes, and what init    *)
(* loads from the text, or refuses, and with it the database.              *)
NewVolatility(days) == IF Finite(days) /\ days > 0 THEN days ELSE Inf
VolatilityText(days) == IF Finite(days) THEN Num(days) ELSE Str("inf")
LoadVolatility(text) ==
    CASE text.kind = "null" -> Loaded(Inf)
      [] text.kind = "number" /\ Finite(text.val) -> Loaded(NewVolatility(text.val))
      [] text.kind = "string" /\ text.val \in {"inf", "INF", "infinity"} -> Loaded(Inf)
      [] OTHER -> Refused
NewSourceWeight(w) == IF ~Finite(w) THEN 1 ELSE IF w < 0 THEN 0 ELSE IF w > 2 THEN 2 ELSE w
LoadSourceWeight(text) ==
    IF text.kind = "number" /\ Finite(text.val) THEN Loaded(NewSourceWeight(text.val)) ELSE Refused

PredicateRegistryText(cardinality, policy) == <<cardinality, policy>>
LoadPredicateRegistry(text) ==
    IF /\ Len(text) = 2 /\ text[1] \in {"Singleton", "MultiValued"}
       /\ text[2] \in {"Allow", "Warn", "Reject"}
    THEN Loaded(text) ELSE Refused

-----------------------------------------------------------------------------
(* values_conflict: numbers within an epsilon of each other agree, and so  *)
(* does whatever has no difference to compare.                             *)
Apart(m, n) == IF Finite(m) /\ Finite(n) THEN m - n > 1 \/ n - m > 1
               ELSE NaN \notin {m, n} /\ m # n
ValuesConflict(a, b) ==
    IF a.type # b.type THEN TRUE
    ELSE IF a.type = "Number" THEN Apart(a.val, b.val) ELSE a.val # b.val

-----------------------------------------------------------------------------
(* search_document_content: subject, predicate, the aliases of the subject *)
(* in the order of the rows, the object if it is a text, and the predicate *)
(* again.  Blanks and underscores separate words alike: both are 0.        *)
CONSTANT AliasPredicates
Worded(f) == f.object.type \in {"Text", "Entity"}
Aliases(facts, subject) ==
    LET named == SelectSeq(facts, LAMBDA f : /\ f.subject = subject /\ Worded(f)
                                             /\ f.predicate \in AliasPredicates)
    IN  [i \in DOMAIN named |-> named[i].object.val]
SearchDocumentContent(f, aliases) ==
    LET parts == <<f.subject, f.predicate>> \o aliases
                 \o (IF Worded(f) THEN <<f.object.val>> ELSE << >>) \o <<f.predicate>>
    IN  FlattenSeq([i \in DOMAIN parts |-> IF i = 1 THEN parts[i] ELSE <<0>> \o parts[i]])
====
