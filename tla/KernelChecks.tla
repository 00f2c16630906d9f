---- MODULE KernelChecks ----
(***************************************************************************)
(* What the pure algorithms of the system compute, over bounded inputs,    *)
(* against what their callers rely on.  TLC evaluates these assumptions on *)
(* every run of a module that extends this one.                            *)
(***************************************************************************)
EXTENDS Integers, Sequences, SequencesExt, FiniteSets

LOCAL T == INSTANCE TimeAndErrors
LOCAL F == INSTANCE FactIdText
LOCAL L == INSTANCE Lexical
LOCAL J == INSTANCE JsonText
LOCAL R == INSTANCE Ranking WITH
    RankConstant <- 60, TextWeight <- 5, VectorWeight <- 5, StageOneTimeless <- 3,
    StageOneTemporal <- 2, SampleSize <- 2, HalfWindow <- 2, NoTime <- -1
LOCAL K == INSTANCE Contradictions WITH NoTime <- -1, MaxTime <- 99, ThirtyOneDays <- 3, OneHour <- 1
LOCAL B == INSTANCE AgentBriefs
LOCAL D == INSTANCE FactData WITH
    Colon <- ":", NaN <- 900, Inf <- 901, NegInf <- -901, None <- -77, AliasPredicates <- {<<3>>, <<3, 0, 4>>}
LOCAL M == INSTANCE McpTools
LOCAL A == INSTANCE BindingArguments

Strings(S, n) == UNION {[1..k -> S] : k \in 0..n}

-----------------------------------------------------------------------------
(* Calendar.  Days around 1970, year 0, the ends of eras and of the range. *)
NearDays == UNION {{d - 800 + i : i \in 0..1600} : d \in {0, -719468, -719528, 11017, 106751990, -106751990}}

(* The date of a day number gives the number back, and the next day number *)
(* has the next date of the calendar: days_from_civil and civil_from_days  *)
(* are what valid_from, valid_to and the history queries are read through. *)
ASSUME CalendarIsSuccessive ==
    \A n \in NearDays :
        LET d == T!CivilFromDays(n)
            e == T!CivilFromDays(n + 1)
        IN  /\ T!ValidDate(d.year, d.month, d.day)
            /\ T!DaysFromCivil(d.year, d.month, d.day) = n
            /\ e = IF T!ValidDate(d.year, d.month, d.day + 1) THEN [d EXCEPT !.day = @ + 1]
                   ELSE IF d.month < 12 THEN [d EXCEPT !.day = 1, !.month = @ + 1]
                   ELSE [year |-> d.year + 1, month |-> 1, day |-> 1]

Instants == {<<d, s, m>> : d \in {-719529, -719528, -1, 0, 59, 11016, 2932896},
                           s \in {0, 59, 3600, 86399}, m \in {0, 1, 250000, 999990, 999999}}
(* A timestamp the log prints is read back unchanged exactly when its year *)
(* is not negative: the printed hyphen of a year before 0 ends a part of   *)
(* the date, and the record of such a fact cannot be read.                 *)
ASSUME TextRoundTrip ==
    \A t \in Instants :
        (T!ParseRfc3339(T!FormatRfc3339(t)) = t) <=> (T!CivilFromDays(t[1]).year >= 0)

(* An instant given in local time is the one given in UTC, across the ends *)
(* of days, months and years; a date that does not exist is refused.       *)
ASSUME OffsetsAgree ==
    \A offset \in {-1439, -330, -1, 0, 60, 1439} :
        \A date \in {<<2023, 12, 31>>, <<2024, 2, 29>>, <<2000, 1, 1>>, <<1999, 3, 1>>} :
            LET utc   == [date |-> date, time |-> <<0, 5, 0>>, fraction |-> <<5>>, offset |-> 0]
                local == T!ParseRfc3339([utc EXCEPT !.offset = offset])
                day   == T!DaysFromCivil(date[1], date[2], date[3])
            IN  /\ (local[1] - day) * 86400 + local[2] = 300 - offset * 60
                /\ local[3] = 500000 /\ local[2] \in 0..86399
ASSUME ImpossibleDatesRefused ==
    \A date \in {<<2023, 2, 29>>, <<1900, 2, 29>>, <<2024, 4, 31>>, <<2024, 13, 1>>, <<2024, 0, 1>>, <<2024, 1>>} :
        T!ParseRfc3339([date |-> date, time |-> <<0, 0, 0>>, fraction |-> << >>, offset |-> 0]) = T!Refused

(* Spans saturate: a horizon of any length never turns the order of two    *)
(* times around, so a cutoff stays a cutoff.                               *)
ASSUME SpansKeepOrder ==
    \A s, t \in {-128, -100, -1, 0, 1, 100, 127}, n \in {-50, -1, 0, 1, 40, 128} :
        LET span == T!Days(n, 3, 127)
        IN  /\ s <= t => T!Plus(s, span, 127) <= T!Plus(t, span, 127)
            /\ s <= t => T!Minus(s, span, 127) <= T!Minus(t, span, 127)
            /\ n >= 0 => T!Minus(t, span, 127) <= t

-----------------------------------------------------------------------------
(* Fact ids: two characters, eight bits.                                   *)
Widths == [timestamp |-> 16, sequence |-> 4, entropy |-> 4]
IdNumbers == 0..255
IdTexts == {<<<<i, "upper">>, <<j, c>>>> : i \in {0, 7, 8, 31}, j \in {0, 31, 32}, c \in {"upper", "lower"}}

(* Every id is read back from its text, in either case; a text is read only *)
(* if it is the text of an id, so two ids never share one.                  *)
ASSUME IdTextRoundTrip ==
    /\ \A id \in IdNumbers :
         LET text == F!EncodeText(id, 2)
         IN  F!Parse(text, 2) = id /\ F!Parse(F!Lower(text), 2) = id
    /\ \A t \in IdTexts :
         LET id == F!Parse(t, 2)
         IN  id # F!Refused => id \in IdNumbers /\ F!Lower(F!EncodeText(id, 2)) = F!Lower(t)

(* Texts order as timestamp, then sequence, then entropy do: fact_id order, *)
(* on which ties in searches and the maps of the log rest.                  *)
ASSUME IdTextOrder ==
    \A a, b \in {<<t, s, e>> : t \in {0, 1, 7, 15}, s \in {0, 3}, e \in {0, 1, 3}} :
        LET id(p) == F!FromParts(p[1], p[2], p[3], Widths)
        IN  /\ F!TextBefore(F!EncodeText(id(a), 2), F!EncodeText(id(b), 2))
                 <=> \/ a[1] < b[1]
                     \/ a[1] = b[1] /\ a[2] < b[2]
                     \/ a[1] = b[1] /\ a[2] = b[2] /\ a[3] < b[3]
            /\ F!TimestampOf(id(a), Widths) = a[1] /\ F!SequenceOf(id(a), Widths) = a[2]

(* Every random byte handed out was read from the system, and none is       *)
(* handed out twice, whatever the sizes of the requests and of the pool.    *)
ASSUME EntropyNeverReused ==
    \A size \in 1..5, n, m \in 1..6 :
        LET one == F!Fill(F!NewPool(size), n, size)
            two == F!Fill(one.pool, m, size)
        IN  /\ Cardinality(ToSet(one.bytes \o two.bytes)) = n + m
            /\ \A b \in ToSet(one.bytes \o two.bytes) : b[1] > 0 /\ b[2] < size

-----------------------------------------------------------------------------
(* The text search.                                                         *)
Words == Strings({1, 2}, 4) \cup Strings({1, 2, 3}, 3)
Edited(w) ==
    {w} \cup {[w EXCEPT ![i] = c] : i \in DOMAIN w, c \in {1, 2, 3}}
    \cup {RemoveAt(w, i) : i \in DOMAIN w}
    \cup {InsertAt(w, i, c) : i \in 1..(Len(w) + 1), c \in {1, 2, 3}}
    \cup {[w EXCEPT ![i] = w[i + 1], ![i + 1] = w[i]] : i \in 1..(Len(w) - 1)}

(* is_edit_distance_le_one accepts the words one substitution, deletion,    *)
(* insertion or swap of neighbours away, and no other.                      *)
ASSUME EditDistanceExact ==
    \A s \in Words : LET near == Edited(s) IN \A t \in Words : L!EditDistanceLeOne(s, t) <=> t \in near

Docs == {<<[id |-> 2, words |-> v], [id |-> 1, words |-> w], [id |-> 3, words |-> <<<<1, 1>>>>]>> :
            v, w \in {<< >>, <<<<1>>>>, <<<<1, 2, 2>>, <<1>>>>, <<<<2, 2, 1>>, <<1>>>>}}
(* With room for all, the hits of a text search are the documents that hold *)
(* a word of the query, each once, or, only when none does, those that hold *)
(* a word one edit away; a smaller limit returns a prefix of the same list, *)
(* and documents of the same words stand in the order of their ids.         *)
ASSUME SearchFindsTheWords ==
    \A docs \in Docs, query \in {<<<<1>>>>, <<<<1, 2>>>>, <<<<2, 1, 2>>, <<3, 3>>>>, << >>} :
        LET holds(d, Near(_, _)) == \E i \in DOMAIN query, j \in DOMAIN d.words : Near(query[i], d.words[j])
            ids(Near(_, _)) == {docs[i].id : i \in {i \in DOMAIN docs : holds(docs[i], Near)}}
            equal(v, w) == v = w
            all == L!SearchScored(docs, query, 3)
        IN  /\ ToSet(all) = IF ids(equal) # {} THEN ids(equal) ELSE ids(L!EditDistanceLeOne)
            /\ Cardinality(ToSet(all)) = Len(all)
            /\ \/ docs[1].words # docs[2].words
               \/ \A i, j \in DOMAIN all : all[i] = 1 /\ all[j] = 2 => i < j
            /\ \A n \in 0..2 : L!SearchScored(docs, query, n) = SubSeq(all, 1, IF n < Len(all) THEN n ELSE Len(all))

(* A query is split like a document: case and separators do not matter.     *)
ASSUME TokensIgnoreCase ==
    \A text \in Strings({0, 1, 102}, 4) :
        /\ L!Tokenize(text) = L!Tokenize([i \in DOMAIN text |-> L!LowerCase(text[i])])
        /\ L!Tokenize(text \o <<0>>) = L!Tokenize(<<0>> \o text)
        /\ FlattenSeq(L!Tokenize(text)) = SelectSeq([i \in DOMAIN text |-> L!LowerCase(text[i])], LAMBDA c : c # 0)

-----------------------------------------------------------------------------
(* The JSON of the log.                                                     *)
Payloads == Strings({"a", J!Quote, J!Backslash, "NL", "BS", "CR"}, 2)
Scalars ==
    {[kind |-> "null"], [kind |-> "bool", val |-> FALSE], [kind |-> "array", val |-> << >>],
     [kind |-> "number", val |-> <<"-", "1", "0">>], [kind |-> "number", val |-> <<"0", ".", "2">>]}
    \cup {[kind |-> "string", val |-> s] : s \in Payloads}
Records ==
    {[kind |-> "object", val |-> <<<<<<"k">>, v>>>>] : v \in Scalars}
    \cup {[kind |-> "object", val |-> <<<<<<"k">>, [kind |-> "array", val |-> <<v, w>>]>>, <<s, v>>>>] :
            v, w \in {[kind |-> "null"], [kind |-> "number", val |-> <<"1">>], [kind |-> "object", val |-> << >>]},
            s \in Payloads}

(* Three facts the recovery of the log rests on: a printed record is read   *)
(* back as it was; it never holds a line break, so the lines of the file    *)
(* are its records; and no proper prefix of it parses, so a record cut off  *)
(* by a crash is never taken for a shorter one.                             *)
ASSUME RecordsReadBack == \A r \in Records : J!Parse(J!WriteValue(r)) = [ok |-> TRUE, val |-> r]
ASSUME RecordsAreLines == \A r \in Records : ToSet(J!WriteValue(r)) \cap {"NL", "CR"} = {}
ASSUME PrefixesFail ==
    \A r \in Records : LET text == J!WriteValue(r) IN \A n \in 0..(Len(text) - 1) : ~J!Parse(SubSeq(text, 1, n)).ok

(* A number printed as NaN or inf is no JSON: the record is refused.        *)
ASSUME NonFiniteUnreadable ==
    \A n \in {<<"N", "a", "N">>, <<"i", "n", "f">>, <<"-", "i", "n", "f">>} :
        ~J!Parse(J!WriteValue([kind |-> "object", val |-> <<<<<<"k">>, [kind |-> "number", val |-> n]>>>>])).ok

-----------------------------------------------------------------------------
(* The data of facts.                                                       *)
Names == Strings({"a", "b", ":"}, 3)
Plain(name) == ":" \notin ToSet(name)
Named(s, p, id) == [subject |-> s, predicate |-> p, id |-> <<id>>]
RowPairs ==
    {{Named(s, p, "1"), Named(t, q, "2")} :
        s, t \in Names, p, q \in {<<"a">>, <<"b">>, <<"b", ":", "a">>}}

(* Among names without colons, what is asked of a subject or of a slot is  *)
(* answered with its facts and no others.  A subject with a colon can name *)
(* the index entry of another pair, and is then answered with the facts of *)
(* that pair and none of its own; a subject is answered with those of      *)
(* every subject it begins, up to a colon.                                 *)
ASSUME PlainNamesExact ==
    \A rows \in RowPairs :
        (\A r \in rows : Plain(r.subject) /\ Plain(r.predicate)) =>
            \A r \in rows :
                /\ D!AllFactsAbout(rows, r.subject) = {q \in rows : q.subject = r.subject}
                /\ D!FactsOfSlot(rows, r.subject, r.predicate)
                     = {q \in rows : q.subject = r.subject /\ q.predicate = r.predicate}
ASSUME ColonsCollide ==
    LET rows == {Named(<<"a">>, <<"b">>, "1"), Named(<<"a", ":", "b">>, <<"a">>, "2")}
        more == {Named(<<"a">>, <<"b", ":", "a">>, "3"), Named(<<"a", ":", "b">>, <<"a">>, "2")}
    IN  /\ D!AllFactsAbout(rows, <<"a", ":", "b">>) = {Named(<<"a">>, <<"b">>, "1")}
        /\ D!AllFactsAbout(rows, <<"a">>) = rows
        /\ D!FactsOfSlot(more, <<"a">>, <<"b", ":", "a">>) = more

Objects ==
    {[type |-> t, val |-> 5] : t \in {"Text", "Entity"}} \cup {[type |-> "Boolean", val |-> 0]}
    \cup {[type |-> "Number", val |-> n] : n \in {-3, 0, 2, 4, 900, 901, -901}}
StoredFacts ==
    [id : {1}, subject : {2}, predicate : {3}, object : Objects, valid_from : {-4, 4}, valid_to : {5, -77},
     recorded_at : {6}, expired_at : {-6, 6, -77}, confidence : {0, 1}, source : {7, -77}]
Fields0 == {"valid_to", "expired_at", "confidence", "source"}
(* A stored row is read back as it was exactly when its object is no       *)
(* number without digits and its times are not before year 0; a row of a   *)
(* build that knew fewer fields is read with nothing in their place, and   *)
(* full confidence.                                                        *)
ASSUME FactsReadBack ==
    \A f \in StoredFacts :
        LET tree == D!WriteFact(f)
            fit  == /\ f.object.type = "Number" => D!Finite(f.object.val)
                    /\ f.valid_from >= 0 /\ f.expired_at # -6
        IN  /\ D!ReadFact(tree) = IF fit THEN D!Loaded(f) ELSE D!Refused
            /\ fit => \A x \in Fields0 :
                 D!ReadFact([y \in DOMAIN tree \ {x} |-> tree[y]])
                   = D!Loaded([f EXCEPT ![x] = IF x = "confidence" THEN 1 ELSE -77])

(* What a registration caches is what a restart loads, for every half-life *)
(* and weight the constructors make.  Half-lives that were set past the    *)
(* constructor load as no decay; a weight without digits set in this way   *)
(* is stored and refuses every later open.                                 *)
Amounts == {-5, -1, 0, 1, 2, 3, 730, 900, 901, -901}
ASSUME RegistriesReload ==
    /\ \A n \in Amounts :
         /\ LET days == D!NewVolatility(n) IN days > 0 /\ D!LoadVolatility(D!VolatilityText(days)) = D!Loaded(days)
         /\ LET w == D!NewSourceWeight(n) IN w \in 0..2 /\ D!LoadSourceWeight(D!Num(w)) = D!Loaded(w)
         /\ D!LoadVolatility(D!VolatilityText(n)) = D!Loaded(D!NewVolatility(n))
         /\ (D!LoadSourceWeight(D!Num(n)) = D!Refused) <=> ~D!Finite(n)
    /\ \A c \in {"Singleton", "MultiValued"}, p \in {"Allow", "Warn", "Reject"} :
         D!LoadPredicateRegistry(D!PredicateRegistryText(c, p)) = D!Loaded(<<c, p>>)

(* Agreement of two objects is equality but for numbers: those an epsilon  *)
(* apart agree with each other and not with all the other agrees with, and *)
(* a NaN agrees with every number, so that no singleton policy meets it.   *)
ASSUME AgreementOfObjects ==
    \A a, b \in Objects \cup {[type |-> "Number", val |-> 3]} :
        /\ D!ValuesConflict(a, b) = D!ValuesConflict(b, a)
        /\ ~D!ValuesConflict(a, a)
        /\ ~D!ValuesConflict(a, b) /\ a # b =>
             /\ a.type = "Number" /\ b.type = "Number"
             /\ 900 \in {a.val, b.val} \/ 3 \in {a.val, b.val}
        /\ a.type = "Number" => ~D!ValuesConflict(a, [type |-> "Number", val |-> 900])

(* Whoever is searched for by an alias is found with every fact about it,  *)
(* and nobody else's, whichever of the predicates names the alias.         *)
Told(id, s, p, o) == [id |-> id, subject |-> s, predicate |-> p, object |-> o]
ASSUME AliasFindsAllFacts ==
    \A p \in {<<3>>, <<3, 0, 4>>}, type \in {"Text", "Entity"}, at \in 1..3 :
        LET told  == <<Told(1, <<1>>, <<5>>, [type |-> "Boolean", val |-> TRUE]),
                       Told(2, <<1>>, <<5>>, [type |-> "Text", val |-> <<6>>]),
                       Told(3, <<2>>, <<5>>, [type |-> "Text", val |-> <<6>>])>>
            facts == InsertAt(told, at, Told(4, <<1>>, p, [type |-> type, val |-> <<107, 0, 8>>]))
            docs  == [i \in DOMAIN facts |-> [id |-> facts[i].id, words |->
                        L!Tokenize(D!SearchDocumentContent(facts[i], D!Aliases(facts, facts[i].subject)))]]
        IN  ToSet(L!SearchScored(docs, L!Tokenize(<<7>>), 4)) = {1, 2, 4}

-----------------------------------------------------------------------------
(* Errors: a caller that only sees the outermost code of an error still     *)
(* learns its category, however much context was added, except for a        *)
(* rejected contradiction; the cause stays at the end of the chain.         *)
ASSUME ContextKeepsCategory ==
    \A kind \in T!Kinds :
        LET once == T!Context(T!New(kind)) twice == T!Context(once)
        IN  /\ kind # "ContradictionRejected" => T!Code(twice) \div 1000 = T!Category(kind)
            /\ T!RootCause(twice) = kind /\ Len(T!Chain(twice)) = 3
            /\ T!Code(twice) = T!Code(once)

-----------------------------------------------------------------------------
(* Hybrid ranking.                                                          *)
Rankings == {<< >>, <<1>>, <<2, 1>>, <<1, 2, 3>>, <<3, 1>>}
(* The order in which a HashMap hands out the fused hits decides nothing.   *)
ASSUME FusionDeterministic ==
    \A texts, vectors \in Rankings, window \in 1..3 :
        LET ids == ToSet(texts) \cup ToSet(vectors)
        IN  \A order, other \in SetToSeqs(ids) :
              R!Fuse(texts, vectors, order, window) = R!Fuse(texts, vectors, other, window)

Aged(from, to, gone, conf) ==
    [valid_from |-> from, valid_to |-> to, expired_at |-> gone, confidence |-> conf,
     half_life |-> 1, source_weight |-> 100]
Lives == {Aged(0, -1, -1, 5), Aged(2, -1, -1, 90), Aged(0, 1, 1, 90), Aged(1, 2, 2, 40)}
(* Asked for the current state, the reranker drops the ended facts among    *)
(* its candidates before it cuts to k, unless no candidate is current: no   *)
(* ended fact takes the place of a current one.                             *)
ASSUME CurrentIntentFills ==
    \A facts \in [1..3 -> Lives], texts, vectors \in Rankings \ {<< >>}, k \in 1..2 :
        LET hits   == R!Fuse(texts, vectors, SetToSeq(ToSet(texts) \cup ToSet(vectors)), 3)
            core   == [i \in DOMAIN hits |-> R!SemanticCore(hits[i])]
            pruned == R!Truncate(R!SortHits(hits, core), 2)
            alive(s) == {i \in DOMAIN s : R!IsCurrentlyValid(facts[s[i].id])}
            answer == R!Rerank(hits, facts, k, "current", "current", 3)
        IN  /\ Len(answer) = R!LeastOf(k, Cardinality(IF alive(pruned) = {} THEN DOMAIN pruned ELSE alive(pruned)))
            /\ alive(pruned) # {} => alive(answer) = DOMAIN answer

-----------------------------------------------------------------------------
(* Contradictions.                                                          *)
Slots ==
    {[id |-> id, subject |-> "s", predicate |-> p, object |-> o, valid_from |-> 0, valid_to |-> to,
      expired_at |-> gone, recorded_at |-> 3 * id, confidence |-> conf] :
        id \in 1..2, p \in {"p", "q"}, o \in {"x", "y"}, to \in {-1, 1}, gone \in {-1, 2}, conf \in {40, 100}}
(* Of two facts, it does not matter which is asked about first; and what a  *)
(* write is refused for is what a detection reports once it is stored.      *)
ASSUME ConflictsSymmetric ==
    \A a, b \in Slots :
        /\ K!DetectPairwise(a, b) <=> K!DetectPairwise(b, a)
        /\ a.id # b.id => K!Resolution(a, b) = K!Resolution(b, a) /\ K!Severity(a, b) = K!Severity(b, a)
        /\ a.id < b.id /\ a.predicate = b.predicate /\ a.expired_at = -1 =>
             K!CheckAgainst({"p"}, b, <<a>>) = K!DetectContradictions({"p"}, <<a, b>>, "s", a.predicate)

-----------------------------------------------------------------------------
(* Agent briefs.                                                            *)
Counts == 0..2
TaskReports == [key_facts : Counts, low_confidence : Counts, stale_high_impact : Counts,
                contradictions : Counts, has_subject : BOOLEAN]
ChangeReports == [corrections : Counts, high_impact_corrections : {0, 1}, risky_shifts : Counts,
                  invalidated : Counts, new : Counts]
HealthReports == [contradictions : Counts, low_confidence : Counts, low_confidence_high_impact : {0, 1},
                  stale_high_impact : Counts]

(* The first action of a brief meets the worst finding of its report, and   *)
(* whoever follows the brief is told to act whenever its status says so.    *)
(* The one exception is a report with fewer invalidated than new facts and  *)
(* no correction: it asks for attention and offers nothing but monitoring.  *)
ASSUME TaskBriefLeads ==
    \A r \in TaskReports :
        LET b == B!RecallForTaskBrief(r)
        IN  /\ r.contradictions > 0 /\ r.has_subject => b.recommended = "resolve_contradictions_first"
            /\ b.recommended # "monitor_task_memory"
ASSUME ChangeBriefLeads ==
    \A r \in {r \in ChangeReports : r.high_impact_corrections <= r.corrections} :
        LET b == B!WhatChangedBrief(r)
            quiet == r.corrections = 0 /\ r.risky_shifts = 0 /\ r.invalidated \in 1..r.new
        IN  /\ r.high_impact_corrections > 0 => b.recommended = "verify_corrections"
            /\ (b.status = "stable" \/ quiet) <=> b.recommended = "monitor"
ASSUME HealthBriefLeads ==
    \A r \in {r \in HealthReports : r.low_confidence_high_impact <= r.low_confidence} :
        LET b == B!MemoryHealthBrief(r)
        IN  /\ r.contradictions > 0 => b.recommended = "resolve_contradictions"
            /\ (b.status = "healthy") <=> b.recommended = "monitor_health"

-----------------------------------------------------------------------------
(* MCP tools: calls with the required fields and any two fields at any value. *)
Needed(tool) ==
    [f \in M!Required[tool] |-> IF f = "max_tokens" THEN "one" ELSE IF f = "since" THEN "time" ELSE "text"]
Fields(tool) == DOMAIN M!Declared[tool]
With(a, f, v) == [x \in DOMAIN a \cup {f} |-> IF x = f THEN v ELSE a[x]]
Calls(tool) ==
    {Needed(tool)} \cup {With(With(Needed(tool), f, v), g, w) :
        f, g \in Fields(tool), v, w \in M!JsonClasses \ {"false", "one", "negative"}}

(* A wrong optional text or flag counts as not given, a confidence filter  *)
(* outside 0 to 1 is clamped, and recall_for_task takes a limit it cannot  *)
(* read as its default.                                                    *)
Lenient(tool, f) ==
    \/ /\ f \notin M!Required[tool]
       /\ M!Declared[tool][f] \subseteq M!Texts \cup {"true", "false"}
    \/ <<tool, f>> \in {<<"recall", "min_confidence">>, <<"recall_for_task", "limit">>}
(* A handler accepts nothing else its schema rules out.                    *)
ASSUME AcceptedIsDeclared ==
    \A tool \in M!Tools : \A a \in Calls(tool) :
        ~M!Refuses(tool, a) =>
            /\ M!Required[tool] \subseteq DOMAIN a
            /\ \A f \in DOMAIN a : a[f] \in M!Declared[tool][f] \/ Lenient(tool, f)

(* What a handler refuses although the schema allows it: texts too long or  *)
(* not a time, vectors that are empty or too large for 32 bits, values that *)
(* are no scalars, and fields that exclude or need one another.             *)
Clashes(tool, a) ==
    CASE tool \in {"remember", "assert_fact"} ->
           M!Given(a, "idempotency_key") /\ DOMAIN a \cap {"confidence", "source", "query_embedding"} # {}
      [] tool = "recall" ->
           \/ M!Given(a, "confidence_filter_mode") /\ ~M!Given(a, "min_confidence")
           \/ /\ M!Is(a, "use_hybrid", {"true"}) \/ DOMAIN a \cap {"temporal_intent", "temporal_operator"} # {}
              /\ ~M!Given(a, "query_embedding")
      [] OTHER -> FALSE
Unfit(a) ==
    \/ \E f \in DOMAIN a : a[f] \in {"long", "emptylist", "widevector", "vast"}
    \/ \E f \in DOMAIN a \cap {"since", "now", "valid_from"} : a[f] # "time"
    \/ \E f \in DOMAIN a \cap {"object", "new_value"} : a[f] \in M!Lists \cup {"null", "object"}
ASSUME RefusedIsExcused ==
    \A tool \in M!Tools : \A a \in Calls(tool) :
        M!Conforms(tool, a) => /\ Clashes(tool, a) => M!Refuses(tool, a)
                               /\ M!Refuses(tool, a) => Clashes(tool, a) \/ Unfit(a)

(* The facts found in a text name both sides, and a context never exceeds   *)
(* its budget nor leaves out a line that still fits.                        *)
ASSUME RelationsAreWhole ==
    \A words \in Strings({"ann", "works at"}, 4) :
        LET r == M!WorksAt(words)
        IN  r # << >> => r[1] # << >> /\ r[2] # << >> /\ r[1] \o <<"works at">> \o r[2] = words
ASSUME ContextIsMaximal ==
    \A lengths \in Strings({1, 5, 9}, 4), budget \in 0..4 :
        LET n == M!ContextLines(lengths, budget)
            total(k) == FoldSeq(LAMBDA x, y : x + y, 0, SubSeq(lengths, 1, k))
        IN  total(n) <= 4 * budget /\ (n < Len(lengths) => total(n + 1) > 4 * budget)

-----------------------------------------------------------------------------
(* Recall through the three surfaces: any three fields at any value.        *)
RecallFields == {"limit", "query_embedding", "min_confidence", "confidence_filter_mode",
                 "max_scored_rows", "use_hybrid", "temporal_intent"}
TypedValues ==
    [limit |-> {"zero", "one", "huge"}, query_embedding |-> M!Embedding \cup {"nanvector"},
     min_confidence |-> {"half", "huge", "vast", "nan"},
     confidence_filter_mode |-> {"choice", "CHOICE", "text"},
     max_scored_rows |-> {"zero", "one"}, use_hybrid |-> {"true", "false"},
     temporal_intent |-> {"choice", "text"}]
RecallCalls ==
    UNION {{[x \in {f, g, h, "query"} |-> IF x = "query" THEN "text" ELSE IF x = f THEN u
                                         ELSE IF x = g THEN v ELSE w] :
              u \in TypedValues[f], v \in TypedValues[g], w \in TypedValues[h]} :
           f, g, h \in RecallFields}

(* The contract of the surfaces: a filter mode needs a threshold, and a     *)
(* vector is finite, not empty and of 32 bits, on all three.  A call the    *)
(* server accepts the bindings accept too and run with the same options,    *)
(* except that they leave a vector unused unless they are told to use it;   *)
(* and the two bindings differ only in the letters of the mode.             *)
ASSUME SurfacesAgree ==
    \A a \in RecallCalls :
        LET refusals == {M!RecallRefused(a), A!PyRecallRefused(a), A!WasmRecallRefused(a)}
        IN  /\ \/ A!ModeWithoutMin(a)
               \/ M!Is(a, "query_embedding", {"emptylist", "widevector", "nanvector"})
               => refusals = {TRUE}
            /\ ~M!RecallRefused(a) =>
                 /\ refusals = {FALSE}
                 /\ A!PyOptions(a) = A!WasmOptions(a)
                 /\ IF M!Given(a, "use_hybrid") THEN A!PyOptions(a) = A!McpOptions(a)
                    ELSE A!PyOptions(a) = [A!McpOptions(a) EXCEPT !.vector = FALSE]
            /\ ~M!Is(a, "confidence_filter_mode", {"CHOICE"}) =>
                 A!PyRecallRefused(a) = A!WasmRecallRefused(a)

(* No surface stores a confidence that is not between 0 and 1, and two      *)
(* that take the same confidence store the same one, but for the negative   *)
(* number by which a caller of the C interface leaves it out.               *)
ASSUME ConfidencesAgree ==
    \A c \in M!Numbers \cup {"nan"} :
        LET kept == {A!PyConfidence(c), A!WasmConfidence(c), A!CConfidence(c)} \ {"refused"}
        IN  /\ kept \subseteq M!Shares
            /\ c # "negative" => Cardinality(kept) <= 1
====
