---- MODULE Lexical ----
(***************************************************************************)
(* The text search engine (lexical.rs): an index built anew for each call, *)
(* BM25 scores, and words one edit away when no query word is indexed.     *)
(* A word is a sequence of characters, a document [id, words]; ids order   *)
(* as numbers.  Scores are integers: ln is left out of the weight of a     *)
(* word, which keeps its sign and its fall with the number of documents.   *)
(***************************************************************************)
EXTENDS Integers, Sequences, FiniteSets, SequencesExt, FiniteSetsExt

Scale == 1000

(* The letters and digits between the other characters, in lower case: a   *)
(* character is a small number, a capital one 100 more, a separator 0.     *)
LowerCase(char) == IF char > 100 THEN char - 100 ELSE char
Tokenize(text) ==
    LET start(i) == text[i] # 0 /\ (i = 1 \/ text[i - 1] = 0)
        end(i)   == CHOOSE j \in i..Len(text) : /\ \A k \in i..j : text[k] # 0
                                                /\ j = Len(text) \/ text[j + 1] = 0
        count(i) == Cardinality({j \in 1..i : start(j)})
        starts   == [n \in 1..count(Len(text)) |-> CHOOSE i \in DOMAIN text : start(i) /\ count(i) = n]
    IN  [n \in DOMAIN starts |->
           [k \in 1..(end(starts[n]) - starts[n] + 1) |-> LowerCase(text[starts[n] + k - 1])]]

-----------------------------------------------------------------------------
Occurrences(word, words) == Cardinality({i \in DOMAIN words : words[i] = word})
DocFreq(docs, word) == Cardinality({i \in DOMAIN docs : word \in ToSet(docs[i].words)})
Vocabulary(docs) == UNION {ToSet(docs[i].words) : i \in DOMAIN docs}

TotalLength(docs) == FoldSeq(LAMBDA d, n : n + Len(d.words), 0, docs)

(* idf and the saturated term frequency, k1 = 1.2 and b = 0.75.            *)
Idf(n, df) == (2 * Scale * (n + 1)) \div (2 * df + 1)
TermScore(docs, doc, word) ==
    LET tf    == Occurrences(word, doc.words)
        total == Max({TotalLength(docs), Len(docs)})
        norm  == 10 * tf + 3 + (9 * Len(doc.words) * Len(docs)) \div total
    IN  IF tf = 0 THEN 0 ELSE (Idf(Len(docs), DocFreq(docs, word)) * 22 * tf) \div norm
Score(docs, doc, query) == FoldSeq(LAMBDA w, s : s + TermScore(docs, doc, w), 0, query)

(* search_terms: best score first, then by id; a truncated list of ids.    *)
SearchTerms(docs, query, limit) ==
    LET hits   == {i \in DOMAIN docs : Score(docs, docs[i], query) > 0}
        before(i, j) == \/ Score(docs, docs[i], query) > Score(docs, docs[j], query)
                        \/ /\ Score(docs, docs[i], query) = Score(docs, docs[j], query)
                           /\ docs[i].id < docs[j].id
        ranked == SetToSortSeq(hits, before)
    IN  [n \in 1..Min({limit, Len(ranked)}) |-> docs[ranked[n]].id]

-----------------------------------------------------------------------------
(* is_edit_distance_le_one.                                                *)
Mismatches(s, t) == {i \in DOMAIN s : s[i] # t[i]}
Swapped(s, t, i) == s[i] = t[i + 1] /\ s[i + 1] = t[i]

(* The loop over a shorter and a one longer word: it may skip once.        *)
OneSkip(short, long) ==
    LET same == {n \in 0..Len(short) : SubSeq(short, 1, n) = SubSeq(long, 1, n)}
        i    == Max(same)
    IN  SubSeq(short, i + 1, Len(short)) = SubSeq(long, i + 2, Len(long))

EditDistanceLeOne(s, t) ==
    LET m == IF Len(s) = Len(t) THEN Mismatches(s, t) ELSE {}
    IN  \/ s = t
        \/ /\ Len(s) = Len(t)
           /\ \/ Cardinality(m) = 1
              \/ \E i \in m : m = {i, i + 1} /\ Swapped(s, t, i)
        \/ Len(t) = Len(s) + 1 /\ OneSkip(s, t)
        \/ Len(s) = Len(t) + 1 /\ OneSkip(t, s)

(* The indexed words near a query word, each once.  Their order only       *)
(* changes the order of additions.                                         *)
FuzzyTerms(docs, query) ==
    SetToSeq({v \in Vocabulary(docs) : \E i \in DOMAIN query : EditDistanceLeOne(query[i], v)})

SearchScored(docs, query, limit) ==
    LET exact == SearchTerms(docs, query, limit)
    IN  IF docs = << >> \/ limit = 0 \/ query = << >> THEN << >>
        ELSE IF exact # << >> THEN exact
        ELSE SearchTerms(docs, FuzzyTerms(docs, query), limit)
====
