---- MODULE McpServer_proofs ----
(***************************************************************************)
(* The MCP server, for any requests, any number of frames, failures and    *)
(* processes: a keyed write is stored once, an answer that reports success *)
(* speaks for stored facts, and the server implements the safety part of   *)
(* RequestService.                                                         *)
(***************************************************************************)
EXTENDS McpServer, SequenceTheorems, TLAPS

Tokens == [type : {"header", "blank"}, kind : FrameKinds, req : {NoRequest}, by : {0}, intact : {FALSE}]
          \cup [type : {"payload"}, kind : FrameKinds, req : Requests, by : Nat, intact : BOOLEAN]

(* What follows a token of a frame in the pipe. *)
Follower == [header |-> "blank", blank |-> "payload", payload |-> "header"]
Framed(s) == \A i \in DOMAIN s : i + 1 \in DOMAIN s => s[i + 1].type = Follower[s[i].type]

(* The pipe holds frames, the last of which may be cut by a hangup behind  *)
(* its blank line.  What read_exact is about to read is a payload, and     *)
(* never the header of the next frame.                                     *)
FrameInv ==
    /\ stdin \in Seq(Tokens) /\ eof \in BOOLEAN /\ sends \in Nat /\ misframed \in BOOLEAN
    /\ phase \in {"line", "payload", "serve", "exited", "killed"}
    /\ ~Running => stdin = << >>
    /\ Framed(stdin)
    /\ ~eof /\ stdin # << >> => stdin[Len(stdin)].type = "payload"
    /\ ~eof /\ phase = "payload" => stdin # << >>
    /\ phase = "payload" /\ stdin # << >> => stdin[1].type = "payload"

LEMMA HeaderToken == \A kind \in FrameKinds : Header(kind) \in Tokens /\ Header(kind).type = "header"
  BY DEF Header, Line, Tokens

LEMMA BlankToken == Blank \in Tokens /\ Blank.type = "blank"
  BY DEF Blank, Line, Tokens, FrameKinds

LEMMA PayloadToken ==
    ASSUME NEW kind \in FrameKinds, NEW req \in Requests, NEW by \in Nat, NEW intact \in BOOLEAN
    PROVE  Payload(kind, req, by, intact) \in Tokens /\ Payload(kind, req, by, intact).type = "payload"
  BY DEF Payload, Tokens

LEMMA TokenType == \A t \in Tokens : t.type \in {"header", "blank", "payload"}
  BY DEF Tokens

LEMMA ConsumedFramed ==
    ASSUME NEW s \in Seq(Tokens), Framed(s), NEW n \in Nat, n <= Len(s)
    PROVE  LET rest == SubSeq(s, n + 1, Len(s))
           IN  /\ rest \in Seq(Tokens) /\ Framed(rest) /\ Len(rest) = Len(s) - n
               /\ \A i \in 1..Len(s) - n : rest[i] = s[i + n]
<1> DEFINE rest == SubSeq(s, n + 1, Len(s))
<1>1. rest \in Seq(Tokens) /\ Len(rest) = Len(s) - n /\ \A i \in 1..Len(s) - n : rest[i] = s[i + n]
  OBVIOUS
<1>2. Framed(rest)
  <2> SUFFICES ASSUME NEW i \in DOMAIN rest, i + 1 \in DOMAIN rest
               PROVE  rest[i + 1].type = Follower[rest[i].type]
    BY DEF Framed
  <2>1. i \in 1..Len(s) - n /\ i + 1 \in 1..Len(s) - n
    BY <1>1
  <2>2. rest[i] = s[i + n] /\ rest[i + 1] = s[(i + n) + 1]
    BY <2>1, <1>1
  <2> QED
    BY <2>1, <2>2 DEF Framed
<1> QED
  BY <1>1, <1>2

LEMMA JoinedFramed ==
    ASSUME NEW s \in Seq(Tokens), NEW t \in Seq(Tokens), Framed(s), Framed(t),
           s # << >> => s[Len(s)].type = "payload", t # << >> => t[1].type = "header"
    PROVE  /\ s \o t \in Seq(Tokens) /\ Framed(s \o t) /\ Len(s \o t) = Len(s) + Len(t)
           /\ t # << >> => (s \o t)[Len(s \o t)] = t[Len(t)]
           /\ s # << >> => (s \o t)[1] = s[1]
<1>1. s \o t \in Seq(Tokens) /\ Len(s \o t) = Len(s) + Len(t)
  OBVIOUS
<1>2. \A i \in 1..Len(s) : (s \o t)[i] = s[i]
  OBVIOUS
<1>3. \A i \in 1..Len(t) : (s \o t)[Len(s) + i] = t[i]
  OBVIOUS
<1>4. Framed(s \o t)
  <2> SUFFICES ASSUME NEW i \in 1..Len(s) + Len(t), i + 1 \in 1..Len(s) + Len(t)
               PROVE  (s \o t)[i + 1].type = Follower[(s \o t)[i].type]
    BY <1>1 DEF Framed
  <2>1. CASE i + 1 <= Len(s)
    BY <2>1, <1>2 DEF Framed
  <2>2. CASE i = Len(s)
    BY <2>2, <1>2, <1>3 DEF Follower
  <2>3. CASE i > Len(s)
    <3> DEFINE j == i - Len(s)
    <3>1. j \in 1..Len(t) /\ j + 1 \in 1..Len(t) /\ i = Len(s) + j /\ i + 1 = Len(s) + (j + 1)
      BY <2>3
    <3>2. t[j + 1].type = Follower[t[j].type]
      BY <3>1 DEF Framed
    <3>3. (s \o t)[i] = t[j] /\ (s \o t)[i + 1] = t[j + 1]
      BY <3>1, <1>3
    <3> QED
      BY <3>2, <3>3
  <2> QED
    BY <2>1, <2>2, <2>3
<1> QED
  BY <1>1, <1>2, <1>3, <1>4

LEMMA FrameInit == Init => FrameInv
<1>1. Framed(<< >>)
  <2>1. << >> \in [1..0 -> Tokens]
    BY EmptySeq, LenProperties
  <2> QED
    BY <2>1 DEF Framed
<1>2. << >> \in Seq(Tokens)
  BY EmptySeq
<1>3. ASSUME Init PROVE FrameInv
  <2>1. stdin = << >> /\ ~eof /\ phase = "line" /\ sends = 0 /\ misframed = FALSE /\ eof = FALSE
    BY <1>3 DEF Init
  <2> QED
    BY <1>1, <1>2, <2>1 DEF FrameInv, Running
<1> QED
  BY <1>3

LEMMA FrameSend == FrameInv /\ Send => FrameInv'
<1> SUFFICES ASSUME FrameInv, Send PROVE FrameInv'
  OBVIOUS
<1>1. PICK req \in Requests, kind \in FrameKinds :
          /\ stdin' = stdin \o <<Header(kind), Blank, Payload(kind, req, sends + 1, kind = "good" /\ ~misframed)>>
          /\ misframed' = (misframed \/ Unusable(kind))
  BY DEF Send
<1> DEFINE intact == kind = "good" /\ ~misframed
           frame == <<Header(kind), Blank, Payload(kind, req, sends + 1, intact)>>
<1>0. intact \in BOOLEAN /\ sends + 1 \in Nat
  BY DEF FrameInv
<1> HIDE DEF intact
<1>2. /\ Header(kind) \in Tokens /\ Header(kind).type = "header"
      /\ Blank \in Tokens /\ Blank.type = "blank"
      /\ Payload(kind, req, sends + 1, intact) \in Tokens /\ Payload(kind, req, sends + 1, intact).type = "payload"
  BY <1>0, HeaderToken, BlankToken, PayloadToken
<1>3. frame \in Seq(Tokens) /\ Framed(frame) /\ frame[1].type = "header" /\ frame[3].type = "payload"
      /\ Len(frame) = 3 /\ frame # << >>
  BY <1>2 DEF Framed, Follower
<1>4. stdin' = stdin \o frame
  BY <1>1 DEF intact
<1> HIDE DEF frame
<1>0a. /\ stdin \in Seq(Tokens) /\ Framed(stdin)
       /\ stdin # << >> => stdin[Len(stdin)].type = "payload"
  BY DEF FrameInv, Send
<1>5. /\ stdin' \in Seq(Tokens) /\ Framed(stdin') /\ stdin'[Len(stdin')].type = "payload" /\ stdin' # << >>
      /\ stdin # << >> => stdin'[1] = stdin[1]
  <2>1. /\ stdin' \in Seq(Tokens) /\ Framed(stdin') /\ Len(stdin') = Len(stdin) + 3
        /\ stdin'[Len(stdin')] = frame[Len(frame)]
        /\ stdin # << >> => stdin'[1] = stdin[1]
    <3>1. frame \in Seq(Tokens) /\ Framed(frame) /\ (frame # << >> => frame[1].type = "header")
      BY <1>3
    <3>2. /\ stdin' \in Seq(Tokens) /\ Framed(stdin') /\ Len(stdin') = Len(stdin) + Len(frame)
          /\ frame # << >> => stdin'[Len(stdin')] = frame[Len(frame)]
          /\ stdin # << >> => stdin'[1] = stdin[1]
      BY <1>0a, <1>4, <3>1, JoinedFramed
    <3> QED
      BY <1>3, <3>2
  <2> QED
    BY <2>1, <1>3, <1>0a
<1>6. misframed' \in BOOLEAN
  BY <1>1
<1> QED
  <2>1. UNCHANGED <<eof, phase>> /\ Running /\ ~eof /\ sends' = sends + 1
    BY DEF Send, reader
  <2> QED
    BY <1>5, <1>6, <2>1 DEF FrameInv, Running

LEMMA FrameHangup == FrameInv /\ Hangup => FrameInv'
<1> SUFFICES ASSUME FrameInv, Hangup PROVE FrameInv'
  OBVIOUS
<1>1. PICK cut \in {<< >>, <<Header("good"), Blank>>} : stdin' = stdin \o cut
  BY DEF Hangup
<1>2. cut \in Seq(Tokens) /\ Framed(cut) /\ (cut # << >> => cut[1].type = "header")
  <2>1. Header("good") \in Tokens /\ Header("good").type = "header"
    BY HeaderToken DEF FrameKinds
  <2>2. <<Header("good"), Blank>> \in Seq(Tokens) /\ Framed(<<Header("good"), Blank>>)
        /\ <<Header("good"), Blank>>[1].type = "header"
    BY <2>1, BlankToken DEF Framed, Follower
  <2>3. << >> \in Seq(Tokens) /\ Framed(<< >>)
    BY DEF Framed
  <2> QED
    BY <2>2, <2>3
<1>3. stdin' \in Seq(Tokens) /\ Framed(stdin') /\ (stdin # << >> => stdin'[1] = stdin[1])
  BY <1>1, <1>2, JoinedFramed DEF FrameInv, Hangup
<1>4. phase = "payload" => stdin # << >>
  BY DEF FrameInv, Hangup
<1> QED
  BY <1>3, <1>4 DEF FrameInv, Hangup, Running, reader, bounds

LEMMA FrameReadLine == FrameInv /\ ReadLine => FrameInv'
<1> SUFFICES ASSUME FrameInv, ReadLine PROVE FrameInv'
  OBVIOUS
<1> DEFINE n == LineLength
<1>1. n \in {1, 2} /\ n <= Len(stdin) /\ stdin # << >> /\ stdin \in Seq(Tokens) /\ Framed(stdin)
      /\ (stdin[1].type # "payload" => n = 1)
  BY DEF FrameInv, ReadLine, LineComplete, LineLength
<1>2. stdin' = SubSeq(stdin, n + 1, Len(stdin))
  BY DEF ReadLine, Consume
<1> HIDE DEF n
<1>3. /\ stdin' \in Seq(Tokens) /\ Framed(stdin') /\ Len(stdin') = Len(stdin) - n
      /\ \A i \in 1..Len(stdin) - n : stdin'[i] = stdin[i + n]
  BY <1>1, <1>2, ConsumedFramed
<1>4. stdin' # << >> => stdin'[Len(stdin')] = stdin[Len(stdin)]
  BY <1>3, <1>1
<1>5. phase' \in {"line", "payload"} /\ (phase' = "payload" => stdin[1].type = "blank") /\ UNCHANGED <<eof, bounds, misframed>>
  BY DEF ReadLine, ReadError, reader
<1>6. ASSUME stdin[1].type = "blank"
      PROVE  /\ stdin' # << >> => stdin'[1].type = "payload"
             /\ ~eof => stdin' # << >>
  <2>1. n = 1
    BY <1>6, <1>1
  <2>2. stdin' # << >> => stdin'[1] = stdin[2] /\ 2 \in DOMAIN stdin
    BY <2>1, <1>1, <1>3
  <2>3. 2 \in DOMAIN stdin => stdin[2].type = Follower[stdin[1].type]
    BY <1>1 DEF Framed
  <2>4. ~eof => Len(stdin) # 1
    BY <1>6, <1>1 DEF FrameInv
  <2> QED
    BY <2>1, <2>2, <2>3, <2>4, <1>6, <1>1, <1>3 DEF Follower
<1> QED
  <2>1. /\ eof' = eof /\ sends' = sends /\ misframed' = misframed /\ phase' \in {"line", "payload"}
        /\ phase' = "payload" => stdin[1].type = "blank"
    BY <1>5 DEF bounds
  <2>2. ~eof => stdin[Len(stdin)].type = "payload"
    BY <1>1 DEF FrameInv
  <2> QED
    BY <1>3, <1>4, <1>6, <2>1, <2>2 DEF FrameInv, Running

LEMMA FrameReadPayload == FrameInv /\ ReadPayload => FrameInv'
<1> SUFFICES ASSUME FrameInv, ReadPayload PROVE FrameInv'
  OBVIOUS
<1>1. phase' \in {"line", "serve"} /\ UNCHANGED <<eof, bounds, misframed>>
  BY DEF ReadPayload, Begin, BadJson, ReadError
<1>2. CASE stdin # << >> /\ Consume(1)
  <2>1. stdin' = SubSeq(stdin, 1 + 1, Len(stdin)) /\ 1 <= Len(stdin)
    BY <1>2 DEF Consume, FrameInv
  <2>2. /\ stdin' \in Seq(Tokens) /\ Framed(stdin') /\ Len(stdin') = Len(stdin) - 1
        /\ \A i \in 1..Len(stdin) - 1 : stdin'[i] = stdin[i + 1]
    BY <2>1, ConsumedFramed DEF FrameInv
  <2>3. stdin' # << >> => stdin'[Len(stdin')] = stdin[Len(stdin)]
    BY <2>2, <2>1 DEF FrameInv
  <2> QED
    BY <1>1, <1>2, <2>2, <2>3 DEF FrameInv, Running, bounds
<1>3. CASE UNCHANGED stdin
  BY <1>1, <1>3 DEF FrameInv, Running, bounds
<1> QED
  BY <1>2, <1>3 DEF ReadPayload

LEMMA FrameStep == FrameInv /\ [Next]_vars => FrameInv'
<1> SUFFICES ASSUME FrameInv, [Next]_vars PROVE FrameInv'
  OBVIOUS
<1>1. CASE DoWrite
  BY <1>1 DEF FrameInv, DoWrite, Running, bounds, reader
<1>2. CASE FailWrite
  BY <1>2 DEF FrameInv, FailWrite, Running, reader
<1>3. CASE Reply
  BY <1>3 DEF FrameInv, Reply, Running, bounds
<1>4. CASE Exit
  BY <1>4 DEF FrameInv, Exit, Running, bounds
<1>5. CASE ReplyFails
  BY <1>5 DEF FrameInv, ReplyFails, Vanish, Running, bounds, Framed
<1>6. CASE Crash
  BY <1>6 DEF FrameInv, Crash, Vanish, Running, bounds, Framed
<1>7. CASE Restart
  BY <1>7 DEF FrameInv, Restart, Running, bounds
<1>8. CASE UNCHANGED vars
  BY <1>8 DEF FrameInv, vars, Running, bounds, reader
<1> QED
  BY <1>1, <1>2, <1>3, <1>4, <1>5, <1>6, <1>7, <1>8, FrameSend, FrameHangup, FrameReadLine, FrameReadPayload
     DEF Next, Serving


-----------------------------------------------------------------------------
(* The writes of a call, and the facts they store.                         *)
Kinds     == {"note", "relation", "fact", "replacement"}
Keys      == {NoKey} \cup {r.key : r \in Requests} \cup {Derived[r.key] : r \in Requests}
AllWrites == [op : {"store"}, kind : Kinds, key : Keys] \cup {Ending}
AllFacts  == [by : Nat, kind : Kinds, key : Keys, source : Keys]
Replies   == [by : Nat, req : Requests \cup {NoRequest}, ok : BOOLEAN, facts : SUBSET AllFacts]

(* The key under which a fact of a kind is stored, by the client's key.    *)
KeyOf(kind, source) ==
    IF source = NoKey THEN NoKey ELSE IF kind = "relation" THEN Derived[source] ELSE source

KeyedBy(w, source) == w.key = KeyOf(w.kind, source) /\ (source # NoKey => w.key # NoKey)

LEMMA Joined ==
    ASSUME NEW S, NEW a \in S, NEW b \in S
    PROVE  <<a>> \o <<b>> = <<a, b>> /\ <<a>> \o << >> = <<a>>
<1>1. <<a>> \in Seq(S) /\ <<b>> \in Seq(S) /\ <<a, b>> \in Seq(S)
  OBVIOUS
<1>2. <<a>> \o <<b>> = <<a, b>>
  <2>1. <<a>> \o <<b>> \in Seq(S) /\ Len(<<a>> \o <<b>>) = 2
    BY <1>1, ConcatProperties
  <2>2. (<<a>> \o <<b>>)[1] = a /\ (<<a>> \o <<b>>)[2] = b
    BY <1>1, ConcatProperties
  <2> QED
    <3> DEFINE ab == <<a>> \o <<b>>
    <3>1. Len(<<a, b>>) = 2 /\ <<a, b>>[1] = a /\ <<a, b>>[2] = b
      OBVIOUS
    <3> HIDE DEF ab
    <3>2. ab \in Seq(S) /\ Len(ab) = Len(<<a, b>>) /\ \A i \in 1..Len(ab) : ab[i] = <<a, b>>[i]
      BY <2>1, <2>2, <3>1 DEF ab
    <3> QED
      BY <1>1, <3>2, SeqEqual DEF ab
<1> QED
  BY <1>1, <1>2, ConcatEmptySeq

LEMMA StoringIsWrite ==
    ASSUME NEW kind \in Kinds, NEW key \in Keys
    PROVE  /\ Storing(kind, key) \in AllWrites
           /\ Storing(kind, key).op = "store" /\ Storing(kind, key).kind = kind /\ Storing(kind, key).key = key
  BY DEF Storing, AllWrites

LEMMA EndingIsWrite == Ending \in AllWrites /\ Ending.op = "end"
  BY DEF Ending, AllWrites

LEMMA WriteShape ==
    ASSUME NEW req \in Requests
    PROVE  /\ Writes(req) \in Seq(AllWrites)
           /\ \A i \in DOMAIN Writes(req) : Writes(req)[i].op = "store" => KeyedBy(Writes(req)[i], req.key)
<1> DEFINE note == Storing("note", req.key)
           key == IF req.key = NoKey THEN NoKey ELSE Derived[req.key]
           rel == Storing("relation", key)
           fact == Storing("fact", req.key)
           new == Storing("replacement", NoKey)
<1>0. req.key \in Keys /\ NoKey \in Keys /\ key \in Keys
  BY DEF Keys
<1>1. CASE req.tool = "remember"
  <2>1. Writes(req) = <<note>> \o (IF req.relation THEN <<rel>> ELSE << >>)
    BY <1>1 DEF Writes
  <2>3. note \in AllWrites /\ note.kind = "note" /\ note.key = req.key
    BY <1>0, StoringIsWrite DEF Kinds
  <2>4. rel \in AllWrites /\ rel.kind = "relation" /\ rel.key = key
    BY <1>0, StoringIsWrite DEF Kinds
  <2>5. KeyedBy(note, req.key)
    BY <2>3 DEF KeyedBy, KeyOf
  <2>6. req.relation => KeyedBy(rel, req.key)
    BY <2>4, <1>1, KeysAssumption DEF KeyedBy, KeyOf
  <2> HIDE DEF note, rel
  <2>2. (req.relation /\ Writes(req) = <<note, rel>>) \/ Writes(req) = <<note>>
    BY <2>1, <2>3, <2>4, Joined
  <2>7. <<note>> \in Seq(AllWrites) /\ <<note, rel>> \in Seq(AllWrites)
    BY <2>3, <2>4
  <2>8. CASE req.relation /\ Writes(req) = <<note, rel>>
    BY <2>8, <2>7, <2>3, <2>4, <2>5, <2>6
  <2>9. CASE Writes(req) = <<note>>
    BY <2>9, <2>7, <2>3, <2>5
  <2> QED
    BY <2>2, <2>8, <2>9
<1>2. CASE req.tool = "assert_fact"
  <2>1. Writes(req) = <<fact>>
    BY <1>2 DEF Writes
  <2>2. fact \in AllWrites /\ KeyedBy(fact, req.key)
    BY <1>0, StoringIsWrite DEF Kinds, KeyedBy, KeyOf
  <2> HIDE DEF fact
  <2> QED
    BY <2>1, <2>2
<1>3. CASE req.tool = "correct_fact"
  <2>1. Writes(req) = <<Ending, new>> /\ req.key = NoKey
    BY <1>3, KeysAssumption DEF Writes
  <2>2. new \in AllWrites /\ KeyedBy(new, req.key)
    BY <1>0, <2>1, StoringIsWrite DEF Kinds, KeyedBy, KeyOf
  <2> HIDE DEF new
  <2> QED
    BY <2>1, <2>2, EndingIsWrite
<1>4. CASE req.tool = "invalidate_fact"
  <2>1. Writes(req) = <<Ending>>
    BY <1>4 DEF Writes
  <2> QED
    BY <2>1, EndingIsWrite
<1>5. CASE req.tool \notin {"remember", "assert_fact", "correct_fact", "invalidate_fact"}
  <2>1. Writes(req) = << >>
    BY <1>5 DEF Writes
  <2> QED
    BY <2>1
<1> QED
  BY <1>1, <1>2, <1>3, <1>4, <1>5


-----------------------------------------------------------------------------
(* A fact, stored or in doubt, has the key and the kind of some write.     *)
FactsInv ==
    /\ store \subseteq AllFacts /\ doubt \subseteq AllFacts
    /\ \A f \in store \cup doubt : KeyedBy(f, f.source)
    /\ \A f \in store \cup doubt : f.key # NoKey =>
          \E r \in Requests : \E j \in DOMAIN Writes(r) : Writes(r)[j].key = f.key /\ Writes(r)[j].kind = f.kind

(* Every key in the database answers with one fact, and if one of its      *)
(* facts is there for certain, with that.                                  *)
IndexInv ==
    /\ index \subseteq store
    /\ \A f \in store : f.key # NoKey => \E g \in index : g.key = f.key
    /\ \A f, g \in index : f.key = g.key => f = g
    /\ \A f \in Kept : f.key # NoKey => f \in index

StoreInv == FactsInv /\ IndexInv

Pending(w) == \E i \in DOMAIN todo : todo[i] = w

(* What is still to do is a write of the call under way.                   *)
CallInv ==
    /\ todo \in Seq(AllWrites) /\ failed \in BOOLEAN /\ got \subseteq store
    /\ phase # "serve" => got = {}
    /\ phase = "serve" => /\ current \in Tokens /\ current.req \in Requests
                          /\ \A i \in DOMAIN todo : \E j \in DOMAIN Writes(current.req) : todo[i] = Writes(current.req)[j]

(* Every write of a call that has not failed is done or still to do.       *)
Settled(w, by, facts, ends) == IF w.op = "store" THEN Found(w, facts) ELSE by \in ends
ProgressInv ==
    phase = "serve" /\ ~failed /\ IsCall(current.req) /\ current.req.id =>
        \A j \in DOMAIN Writes(current.req) :
            LET w == Writes(current.req)[j] IN Settled(w, current.by, got, ended) \/ Pending(w)

LEMMA TokenBy == \A t \in Tokens : t.by \in Nat
<1>1. \A t \in Tokens : t.by \in {0} \/ t.by \in Nat
  BY DEF Tokens
<1> QED
  BY <1>1

LEMMA StoredIsFact ==
    ASSUME StoreInv, CallInv, phase = "serve", NEW w \in AllWrites, w.op = "store",
           NEW j \in DOMAIN Writes(current.req), w = Writes(current.req)[j]
    PROVE  /\ Stored(w) \in AllFacts /\ KeyedBy(Stored(w), Stored(w).source)
           /\ Stored(w).key = w.key /\ Stored(w).kind = w.kind /\ Stored(w).source = current.req.key
<1>1. current \in Tokens /\ current.req \in Requests
  BY DEF CallInv
<1>2. w.kind \in Kinds /\ w.key \in Keys
  BY EndingIsWrite DEF AllWrites
<1>3. current.by \in Nat /\ current.req.key \in Keys
  <2>1. current.by \in Nat
    BY <1>1, TokenBy
  <2>2. current.req.key \in {r.key : r \in Requests}
    BY <1>1
  <2> QED
    BY <2>1, <2>2 DEF Keys
<1>4. KeyedBy(w, current.req.key)
  BY <1>1, WriteShape
<1>5. /\ Stored(w) \in AllFacts
      /\ Stored(w).key = w.key /\ Stored(w).kind = w.kind /\ Stored(w).source = current.req.key
  BY <1>2, <1>3 DEF Stored, AllFacts
<1> QED
  BY <1>4, <1>5 DEF KeyedBy

LEMMA HeadOfTodo ==
    ASSUME CallInv, phase = "serve", todo # << >>
    PROVE  /\ Head(todo) \in AllWrites
           /\ \E j \in DOMAIN Writes(current.req) : Head(todo) = Writes(current.req)[j]
           /\ Tail(todo) \in Seq(AllWrites)
           /\ \A i \in DOMAIN Tail(todo) : i + 1 \in DOMAIN todo /\ Tail(todo)[i] = todo[i + 1]
           /\ \A i \in DOMAIN todo : todo[i] = Head(todo) \/ \E k \in DOMAIN Tail(todo) : Tail(todo)[k] = todo[i]
<1>1. todo \in Seq(AllWrites)
  BY DEF CallInv
<1>2. Head(todo) = todo[1] /\ 1 \in DOMAIN todo
  BY <1>1
<1>3. Head(todo) \in AllWrites /\ Tail(todo) \in Seq(AllWrites)
  BY <1>1
<1>4. \A i \in DOMAIN Tail(todo) : i + 1 \in DOMAIN todo /\ Tail(todo)[i] = todo[i + 1]
  BY <1>1
<1>5. ASSUME NEW i \in DOMAIN todo, i # 1 PROVE i - 1 \in DOMAIN Tail(todo) /\ Tail(todo)[i - 1] = todo[i]
  BY <1>1, <1>5
<1>6. \A i \in DOMAIN todo : todo[i] = Head(todo) \/ \E k \in DOMAIN Tail(todo) : Tail(todo)[k] = todo[i]
  BY <1>2, <1>5
<1>7. \E j \in DOMAIN Writes(current.req) : Head(todo) = Writes(current.req)[j]
  BY <1>2 DEF CallInv
<1> QED
  BY <1>3, <1>4, <1>6, <1>7

LEMMA HeadStored ==
    ASSUME StoreInv, CallInv, phase = "serve", todo # << >>
    PROVE  LET w == Head(todo)
           IN  /\ Head(todo) \in AllWrites /\ current.req \in Requests
               /\ w.op = "store" =>
                     /\ Stored(w) \in AllFacts /\ KeyedBy(Stored(w), Stored(w).source)
                     /\ Stored(w).key = w.key /\ Stored(w).kind = w.kind /\ Stored(w).by = current.by
                     /\ \E r \in Requests : \E j \in DOMAIN Writes(r) :
                           Writes(r)[j].key = Stored(w).key /\ Writes(r)[j].kind = Stored(w).kind
<1> DEFINE w == Head(todo)
<1>1. PICK j \in DOMAIN Writes(current.req) : w = Writes(current.req)[j]
  BY HeadOfTodo
<1>2. w \in AllWrites /\ current.req \in Requests
  BY HeadOfTodo DEF CallInv
<1> HIDE DEF w
<1>3. ASSUME w.op = "store"
      PROVE  /\ Stored(w) \in AllFacts /\ KeyedBy(Stored(w), Stored(w).source)
             /\ Stored(w).key = w.key /\ Stored(w).kind = w.kind
  BY <1>1, <1>2, <1>3, StoredIsFact
<1>4. Stored(w).by = current.by
  BY DEF Stored
<1> QED
  BY <1>1, <1>2, <1>3, <1>4 DEF w

LEMMA DoWriteStore == StoreInv /\ CallInv /\ DoWrite => StoreInv' /\ CallInv'
<1> SUFFICES ASSUME StoreInv, CallInv, DoWrite PROVE StoreInv' /\ CallInv'
  OBVIOUS
<1> DEFINE w == Head(todo)
<1>1. /\ phase = "serve" /\ todo # << >> /\ phase' = phase /\ current' = current /\ failed' = failed
      /\ todo' = Tail(todo) /\ doubt' = doubt
  BY DEF DoWrite, Writing, reader, doubts
<1>3. w \in AllWrites /\ todo' \in Seq(AllWrites)
  BY <1>1, HeadOfTodo
<1>4. current.req \in Requests /\ current \in Tokens
  BY <1>1 DEF CallInv
<1>5. ASSUME NEW i \in DOMAIN todo' PROVE \E k \in DOMAIN Writes(current.req) : todo'[i] = Writes(current.req)[k]
  <2>1. i + 1 \in DOMAIN todo /\ todo'[i] = todo[i + 1]
    BY <1>1, <1>5, HeadOfTodo
  <2> QED
    BY <2>1, <1>1 DEF CallInv
<1>6. CASE w.op = "store" /\ Keyed(w) = {}
  <2> DEFINE new == Stored(w)
  <2>1. /\ store' = store \cup {new} /\ got' = got \cup {new}
        /\ index' = index \cup {f \in {new} : w.key # NoKey}
    BY <1>6 DEF DoWrite, WriteDone, Keyed
  <2>2. /\ new \in AllFacts /\ KeyedBy(new, new.source) /\ new.key = w.key /\ new.kind = w.kind
        /\ \E r \in Requests : \E j \in DOMAIN Writes(r) : Writes(r)[j].key = new.key /\ Writes(r)[j].kind = new.kind
    BY <1>6, <1>1, HeadStored
  <2>3. \A f \in index : w.key # NoKey => f.key # w.key
    BY <1>6 DEF Keyed
  <2> HIDE DEF w, new
  <2>4. FactsInv'
    BY <2>1, <2>2, <1>1 DEF StoreInv, FactsInv
  <2>5. IndexInv'
    BY <2>1, <2>2, <2>3, <1>1 DEF StoreInv, IndexInv, Kept
  <2> QED
    BY <2>1, <2>4, <2>5, <1>1, <1>3, <1>4, <1>5 DEF CallInv, StoreInv
<1>7. CASE ~(w.op = "store" /\ Keyed(w) = {})
  <2>1. store' = store /\ index' = index /\ got' \subseteq got \cup index
    BY <1>7 DEF DoWrite, WriteDone, Keyed, memory
  <2> HIDE DEF w
  <2>2. StoreInv'
    BY <2>1, <1>1 DEF StoreInv, FactsInv, IndexInv, Kept
  <2> QED
    BY <2>1, <2>2, <1>1, <1>3, <1>4, <1>5 DEF CallInv, StoreInv, IndexInv
<1> QED
  BY <1>6, <1>7

(* A write that does not succeed puts its record in doubt, no more.        *)
LEMMA InDoubtFacts ==
    ASSUME StoreInv, CallInv, Writing, InDoubt, UNCHANGED memory
    PROVE  StoreInv'
<1> DEFINE w == Head(todo)
<1>1. /\ store' = store /\ index' = index
      /\ doubt' = doubt \cup {f \in {Stored(w)} : w.op = "store" /\ Keyed(w) = {}}
  BY DEF InDoubt, memory
<1>2. w.op = "store" =>
        /\ Stored(w) \in AllFacts /\ KeyedBy(Stored(w), Stored(w).source)
        /\ \E r \in Requests : \E j \in DOMAIN Writes(r) :
              Writes(r)[j].key = Stored(w).key /\ Writes(r)[j].kind = Stored(w).kind
  BY HeadStored DEF Writing
<1> HIDE DEF w
<1>3. FactsInv'
  BY <1>1, <1>2 DEF StoreInv, FactsInv
<1>4. IndexInv'
  BY <1>1 DEF StoreInv, IndexInv, Kept
<1> QED
  BY <1>3, <1>4 DEF StoreInv

LEMMA RestartStore == StoreInv /\ Restart => StoreInv'
<1> SUFFICES ASSUME StoreInv, Restart PROVE StoreInv'
  OBVIOUS
<1>1. PICK found \in SUBSET doubt : store' = Kept \cup found
  BY DEF Restart
<1>2. doubt' = doubt /\ index' \in Indexes(store')
  BY DEF Restart, doubts
<1>3. Kept \subseteq store /\ Kept' = Kept
  BY <1>1, <1>2 DEF Kept
<1>4. FactsInv'
  BY <1>1, <1>2, <1>3 DEF StoreInv, FactsInv
<1>5. IndexInv'
  BY <1>2, <1>3 DEF Indexes, IndexInv
<1> QED
  BY <1>4, <1>5 DEF StoreInv

LEMMA BeginCall ==
    ASSUME FrameInv, stdin # << >>, stdin[1].type = "payload", Begin(stdin[1])
    PROVE  /\ phase' = "serve" /\ current' = stdin[1] /\ current' \in Tokens /\ current'.req \in Requests
           /\ failed' = RefusedCall(current'.req) /\ got' = {}
           /\ todo' \in Seq(AllWrites)
           /\ \A i \in DOMAIN todo' : \E j \in DOMAIN Writes(current'.req) : todo'[i] = Writes(current'.req)[j]
           /\ IsCall(current'.req) /\ current'.req.id /\ ~failed' => todo' = Writes(current'.req)
<1> DEFINE req == stdin[1].req
<1>1. stdin[1] \in Tokens
  BY DEF FrameInv
<1>2. req \in Requests
  BY <1>1 DEF Tokens
<1>3. /\ phase' = "serve" /\ current' = stdin[1] /\ failed' = RefusedCall(req) /\ got' = {}
      /\ todo' = IF IsCall(req) /\ req.id /\ ~RefusedCall(req) THEN Writes(req) ELSE << >>
  BY DEF Begin
<1>4. CASE IsCall(req) /\ req.id /\ ~RefusedCall(req)
  BY <1>1, <1>2, <1>3, <1>4, WriteShape
<1>5. CASE ~(IsCall(req) /\ req.id /\ ~RefusedCall(req))
  <2>1. todo' = << >> /\ << >> \in Seq(AllWrites) /\ << >> \in [1..0 -> AllWrites]
    BY <1>3, <1>5, EmptySeq, LenProperties
  <2> QED
    BY <2>1, <1>1, <1>2, <1>3, <1>5
<1> QED
  BY <1>4, <1>5

(* What a step that is neither a write nor the beginning of a call does to *)
(* the call and to the facts.                                              *)
LEMMA OtherSteps ==
    ASSUME FrameInv, [Next]_vars
    PROVE  \/ DoWrite
           \/ FailWrite
           \/ /\ phase # "serve" /\ stdin # << >> /\ stdin[1].type = "payload"
              /\ Begin(stdin[1]) /\ UNCHANGED <<memory, doubts>>
           \/ phase = phase' /\ UNCHANGED <<call, memory, doubts>>
           \/ phase # "serve" /\ phase' # "serve" /\ UNCHANGED <<call, memory, doubts>>
           \/ phase' # "serve" /\ EndCall /\ UNCHANGED memory
                 /\ (UNCHANGED doubts \/ (Writing /\ InDoubt))
           \/ Restart /\ UNCHANGED call
<1>1. CASE Send \/ Hangup
  BY <1>1 DEF Send, Hangup, reader
<1>2. CASE ReadLine
  BY <1>2 DEF ReadLine, ReadError, reader
<1>3. CASE ReadPayload
  <2>1. UNCHANGED <<memory, doubts>> /\ phase # "serve"
    BY <1>3 DEF ReadPayload
  <2>2. CASE stdin # << >> /\ stdin[1].kind = "good" /\ Begin(stdin[1])
    BY <1>3, <2>1, <2>2 DEF ReadPayload, FrameInv
  <2>3. CASE phase' # "serve" /\ UNCHANGED call
    BY <2>1, <2>3
  <2> QED
    BY <1>3, <2>2, <2>3 DEF ReadPayload, BadJson, ReadError
<1>4. CASE Reply
  BY <1>4 DEF Reply
<1>5. CASE Exit
  BY <1>5 DEF Exit
<1>6. CASE ReplyFails \/ Crash
  BY <1>6 DEF ReplyFails, Crash, Vanish
<1>7. CASE Restart
  BY <1>7 DEF Restart
<1>8. CASE UNCHANGED vars
  BY <1>8 DEF vars, reader
<1> QED
  BY <1>1, <1>2, <1>3, <1>4, <1>5, <1>6, <1>7, <1>8 DEF Next, Serving

LEMMA EndedCall == EndCall => todo' \in Seq(AllWrites) /\ failed' \in BOOLEAN /\ got' = {}
  BY EmptySeq DEF EndCall

LEMMA StoreStep == FrameInv /\ StoreInv /\ CallInv /\ [Next]_vars => StoreInv' /\ CallInv'
<1> SUFFICES ASSUME FrameInv, StoreInv, CallInv, [Next]_vars PROVE StoreInv' /\ CallInv'
  OBVIOUS
<1>0. UNCHANGED <<memory, doubts>> => StoreInv'
  BY DEF StoreInv, FactsInv, IndexInv, Kept, memory, doubts
<1>1. CASE DoWrite
  BY <1>1, DoWriteStore
<1>2. CASE FailWrite
  <2>1. /\ todo' = << >> /\ failed' = TRUE /\ got' = got /\ phase' = phase /\ current' = current /\ store' = store
        /\ Writing /\ InDoubt /\ UNCHANGED memory
    BY <1>2 DEF FailWrite, AfterFailure, memory, reader
  <2>2. << >> \in Seq(AllWrites) /\ << >> \in [1..0 -> AllWrites]
    BY EmptySeq, LenProperties
  <2>3. StoreInv'
    BY <2>1, InDoubtFacts
  <2> QED
    BY <2>1, <2>2, <2>3 DEF CallInv
<1>3. CASE stdin # << >> /\ stdin[1].type = "payload" /\ Begin(stdin[1]) /\ UNCHANGED <<memory, doubts>>
  <2>1. failed' \in BOOLEAN
    BY <1>3 DEF Begin, RefusedCall
  <2> QED
    BY <1>0, <1>3, <2>1, BeginCall DEF CallInv
<1>4. CASE UNCHANGED <<memory, doubts>> /\ UNCHANGED call /\ (phase = phase' \/ (phase # "serve" /\ phase' # "serve"))
  BY <1>0, <1>4 DEF CallInv, memory, call
<1>5. CASE UNCHANGED memory /\ EndCall /\ phase' # "serve" /\ (UNCHANGED doubts \/ (Writing /\ InDoubt))
  <2>1. StoreInv'
    BY <1>0, <1>5, InDoubtFacts
  <2> QED
    BY <2>1, <1>5, EndedCall DEF CallInv
<1>6. CASE Restart /\ UNCHANGED call
  <2>1. phase # "serve" /\ phase' # "serve"
    BY <1>6 DEF Restart, Running
  <2> QED
    BY <2>1, <1>6, RestartStore DEF CallInv, call
<1> QED
  BY <1>1, <1>2, <1>3, <1>4, <1>5, <1>6, OtherSteps

(* A key that is known belongs to a fact of the kind to be stored.         *)
LEMMA KnownKind ==
    ASSUME KeysNameOneKind(Requests), StoreInv, NEW r \in Requests, NEW j \in DOMAIN Writes(r), NEW f \in store,
           f.key = Writes(r)[j].key, f.key # NoKey
    PROVE  f.kind = Writes(r)[j].kind
<1>1. PICK q \in Requests : \E i \in DOMAIN Writes(q) : Writes(q)[i].key = f.key /\ Writes(q)[i].kind = f.kind
  BY DEF StoreInv, FactsInv
<1>2. PICK i \in DOMAIN Writes(q) : Writes(q)[i].key = f.key /\ Writes(q)[i].kind = f.kind
  BY <1>1
<1>3. Writes(q)[i].key = Writes(r)[j].key /\ Writes(q)[i].key # NoKey
  BY <1>2
<1> QED
  BY <1>2, <1>3 DEF KeysNameOneKind

LEMMA WriteSettles ==
    ASSUME KeysNameOneKind(Requests), StoreInv, CallInv, DoWrite
    PROVE  /\ Settled(Head(todo), current.by, got', ended')
           /\ got \subseteq got' /\ ended \subseteq ended'
<1> DEFINE w == Head(todo)
<1>1. phase = "serve" /\ todo # << >> /\ current' = current
  BY DEF DoWrite, Writing
<1>2. PICK j \in DOMAIN Writes(current.req) : w = Writes(current.req)[j]
  BY <1>1, HeadOfTodo
<1>3. w \in AllWrites
  BY <1>1, HeadOfTodo
<1>4. current.req \in Requests
  BY <1>1 DEF CallInv
<1>5. \/ /\ w.op = "store" /\ Keyed(w) = {}
         /\ store' = store \cup {Stored(w)} /\ got' = got \cup {Stored(w)}
         /\ UNCHANGED ended
      \/ /\ w.op = "store" /\ Keyed(w) # {}
         /\ got' = got \cup Keyed(w)
         /\ UNCHANGED memory
      \/ /\ w.op = "end"
         /\ ended' = ended \cup {current.by}
         /\ UNCHANGED <<store, index, got>>
  BY DEF DoWrite, WriteDone
<1> HIDE DEF w
<1>6. CASE w.op = "store" /\ Keyed(w) = {}
  <2>1. Stored(w).key = w.key /\ Stored(w).kind = w.kind
    BY <1>6, <1>1, <1>2, <1>3, StoredIsFact
  <2>2. got' = got \cup {Stored(w)} /\ store' = store \cup {Stored(w)} /\ ended' = ended
    BY <1>5, <1>6
  <2>3. Found(w, got')
    BY <2>1, <2>2 DEF Found
  <2> QED
    BY <1>6, <2>2, <2>3 DEF Settled, w
<1>7. CASE w.op = "store" /\ Keyed(w) # {}
  <2>1. got' = got \cup Keyed(w) /\ store' = store /\ ended' = ended
    BY <1>5, <1>7 DEF memory
  <2>2. PICK f \in store : w.key # NoKey /\ f.key = w.key /\ f \in Keyed(w)
    BY <1>7 DEF Keyed, StoreInv, IndexInv
  <2>3. f.kind = w.kind
    BY <1>2, <1>4, <2>2, KnownKind
  <2>4. Found(w, got')
    BY <2>1, <2>2, <2>3 DEF Found
  <2> QED
    BY <1>7, <2>1, <2>4 DEF Settled, w
<1>8. CASE w.op = "end"
  BY <1>5, <1>8 DEF Settled, w
<1> QED
  BY <1>5, <1>6, <1>7, <1>8

LEMMA SettledStays ==
    ASSUME NEW w, NEW by, NEW facts, NEW more, NEW ends, NEW later,
           facts \subseteq more, ends \subseteq later, Settled(w, by, facts, ends)
    PROVE  Settled(w, by, more, later)
  BY DEF Settled, Found

LEMMA ProgressStep ==
    ASSUME KeysNameOneKind(Requests), FrameInv, StoreInv, CallInv, ProgressInv, [Next]_vars
    PROVE  ProgressInv'
<1>1. CASE DoWrite
  <2> SUFFICES ASSUME ~failed, IsCall(current.req), current.req.id, NEW j \in DOMAIN Writes(current.req)
               PROVE  \/ Settled(Writes(current.req)[j], current.by, got', ended')
                      \/ \E i \in DOMAIN todo' : todo'[i] = Writes(current.req)[j]
    BY <1>1 DEF DoWrite, ProgressInv, Pending
  <2> DEFINE w == Writes(current.req)[j]
  <2>1. Settled(w, current.by, got, ended) \/ Pending(w)
    BY <1>1 DEF ProgressInv, DoWrite, Writing
  <2> HIDE DEF w
  <2>2. CASE Settled(w, current.by, got, ended)
    BY <1>1, <2>2, WriteSettles, SettledStays DEF w
  <2>3. CASE Pending(w)
    <3>1. w = Head(todo) \/ \E k \in DOMAIN Tail(todo) : Tail(todo)[k] = w
      BY <1>1, <2>3, HeadOfTodo DEF Pending, DoWrite, Writing
    <3>2. todo' = Tail(todo)
      BY <1>1 DEF DoWrite
    <3> QED
      BY <1>1, <3>1, <3>2, WriteSettles DEF w
  <2> QED
    BY <2>1, <2>2, <2>3
<1>2. CASE FailWrite
  BY <1>2 DEF FailWrite, AfterFailure, ProgressInv
<1>3. CASE stdin # << >> /\ stdin[1].type = "payload" /\ Begin(stdin[1])
  BY <1>3, BeginCall DEF ProgressInv, Pending
<1>4. CASE UNCHANGED memory /\ UNCHANGED call /\ phase' = phase
  BY <1>4 DEF ProgressInv, Pending, memory, call
<1>5. CASE phase' # "serve" \/ Restart
  BY <1>5 DEF ProgressInv, Restart
<1> QED
  BY <1>1, <1>2, <1>3, <1>4, <1>5, OtherSteps

-----------------------------------------------------------------------------
ReplyInv == out \in Seq(Replies)

LEMMA JoinedItems ==
    ASSUME NEW S, NEW s \in Seq(S), NEW t \in Seq(S)
    PROVE  \A i \in DOMAIN (s \o t) : \/ i \in DOMAIN s /\ (s \o t)[i] = s[i]
                                     \/ \E k \in DOMAIN t : (s \o t)[i] = t[k]
<1>1. s \o t \in Seq(S) /\ Len(s \o t) = Len(s) + Len(t)
  OBVIOUS
<1> SUFFICES ASSUME NEW i \in 1..Len(s) + Len(t), i > Len(s)
             PROVE  i - Len(s) \in DOMAIN t /\ (s \o t)[i] = t[i - Len(s)]
  BY <1>1
<1> QED
  OBVIOUS

LEMMA AnswersReply ==
    ASSUME StoreInv, CallInv, phase = "serve"
    PROVE  Answers \in Seq(Replies) /\ Len(Answers) <= 1
<1>1. current.by \in Nat /\ current.req \in Requests /\ got \in SUBSET AllFacts
  BY TokenBy DEF CallInv, StoreInv, FactsInv
<1> DEFINE ok == IsCall(current.req) /\ ~failed
           answer == [by |-> current.by, req |-> current.req, ok |-> ok, facts |-> got]
<1>2. ok \in BOOLEAN
  OBVIOUS
<1> HIDE DEF ok
<1>3. answer \in Replies /\ NullAnswer \in Replies
  BY <1>1, <1>2 DEF Replies, NullAnswer
<1>4. Answers = IF ExpectsAnswer(current.req) THEN <<answer>>
                ELSE IF ExpectsNull(current.req) THEN <<NullAnswer>> ELSE << >>
  BY Zenon DEF Answers, ok
<1> HIDE DEF answer
<1> QED
  BY <1>3, <1>4, EmptySeq

LEMMA OutSteps ==
    [Next]_vars => \/ out' = out
                   \/ out' = Append(out, NullAnswer)
                   \/ Reply /\ out' = out \o Answers
  BY DEF Next, Serving, vars, ReadLine, ReadPayload, Begin, BadJson, ReadError, DoWrite, FailWrite, Reply, Exit,
         Send, Hangup, ReplyFails, Crash, Restart

-----------------------------------------------------------------------------
LEMMA InitInvs == Init => FrameInv /\ StoreInv /\ CallInv /\ ProgressInv /\ ReplyInv
<1> SUFFICES ASSUME Init PROVE FrameInv /\ StoreInv /\ CallInv /\ ProgressInv /\ ReplyInv
  OBVIOUS
<1>1. << >> \in Seq(AllWrites) /\ << >> \in Seq(Replies) /\ << >> \in [1..0 -> Replies]
  BY EmptySeq, LenProperties
<1>2. /\ phase = "line" /\ todo = << >> /\ failed = FALSE /\ got = {} /\ store = {} /\ out = << >>
      /\ index = {} /\ doubt = {}
  BY DEF Init
<1>3. StoreInv
  BY <1>2 DEF StoreInv, FactsInv, IndexInv, Kept
<1>4. CallInv /\ ProgressInv /\ ReplyInv
  BY <1>1, <1>2 DEF CallInv, ProgressInv, ReplyInv
<1> QED
  BY <1>3, <1>4, FrameInit

LEMMA StoreOnce == StoreInv => RetryStoresOnce
<1> SUFFICES ASSUME StoreInv PROVE RetryStoresOnce
  OBVIOUS
<1>1. ASSUME NEW f \in Kept, f.key # NoKey PROVE {g \in index : g.key = f.key} = {f}
  BY <1>1 DEF StoreInv, IndexInv
<1>2. ASSUME NEW f \in Kept, NEW g \in Kept, f.source = g.source, f.kind = g.kind, f.source # NoKey
      PROVE  f = g
  <2>1. f \in store /\ g \in store
    BY DEF Kept
  <2>2. f.key = g.key /\ f.key # NoKey
    BY <1>2, <2>1 DEF StoreInv, FactsInv, KeyedBy
  <2> QED
    BY <2>2 DEF StoreInv, IndexInv
<1> QED
  BY <1>1, <1>2 DEF RetryStoresOnce

(* For any clients, failures and restarts: of the facts that the writes of *)
(* an idempotency key were acknowledged for there is one of each kind,     *)
(* however often a call is sent again after an error, a kill or a lost     *)
(* answer, and whatever failed writes of the key an open brings back, the  *)
(* key is answered with that one.                                          *)
THEOREM KeyedWritesStoreOnce == Spec => []RetryStoresOnce
<1>1. FrameInv /\ StoreInv /\ CallInv /\ [Next]_vars => (FrameInv /\ StoreInv /\ CallInv)'
  BY FrameStep, StoreStep
<1> QED
  BY <1>1, InitInvs, StoreOnce, PTL DEF Spec

-----------------------------------------------------------------------------
(* The server and its abstract service.  The reader has lost the frames    *)
(* when the next line it reads is a payload, or the blank line of a frame  *)
(* whose length it cannot use: it never finds them again.                  *)
Lost ==
    /\ phase = "line" /\ stdin # << >>
    /\ stdin[1].type = "payload" \/ (stdin[1].type = "blank" /\ length # "ok")

(* A length has been read only where a blank line or its payload follows.  *)
LengthInv ==
    /\ phase = "payload" => length = "ok"
    /\ phase # "payload" /\ length # "none" => phase = "line" /\ stdin # << >> /\ stdin[1].type = "blank"
    /\ phase = "serve" /\ stdin # << >> => stdin[1].type = "header"
    /\ stdin # << >> => stdin[Len(stdin)].type # "header"

(* Frames are intact up to the first one of no usable length, and numbered *)
(* in the order in which they were sent.                                   *)
Marked(s, lost) ==
    /\ \A i \in DOMAIN s : s[i].intact => s[i].kind = "good"
    /\ \A i \in DOMAIN s : Unusable(s[i].kind) => lost
    /\ \A i, j \in DOMAIN s : i < j /\ Unusable(s[i].kind) => ~s[j].intact
Numbered(s, last) ==
    /\ \A i \in DOMAIN s : s[i].type = "payload" => 0 < s[i].by /\ s[i].by <= last
    /\ \A i, j \in DOMAIN s : i < j /\ s[j].type = "payload" => s[i].by < s[j].by
PipeInv == Marked(stdin, misframed) /\ Numbered(stdin, sends) /\ sends <= MaxSends

(* Once it is lost, nothing left in the pipe was to be understood; until   *)
(* then, a frame of no usable length stands before what is not.            *)
BadHeader(s, i) == s[i].type = "header" /\ Unusable(s[i].kind)
Warned(s) ==
    \A j \in DOMAIN s : s[j].type = "payload" /\ s[j].kind = "good" /\ ~s[j].intact
        => \E i \in DOMAIN s : i < j /\ BadHeader(s, i)
LostInv ==
    /\ Lost => misframed /\ \A i \in DOMAIN stdin : ~stdin[i].intact
    /\ ~Lost => Warned(stdin)
    /\ ~Lost /\ Running /\ misframed /\ ~eof => \E i \in DOMAIN stdin : BadHeader(stdin, i)

(* What was answered, what is served and what waits, in this order.        *)
After(s, n) == \A i \in DOMAIN s : s[i].type = "payload" => n < s[i].by
TurnInv ==
    /\ phase = "serve" => /\ current.by \in Nat /\ 0 < current.by /\ current.by <= sends
                          /\ After(stdin, current.by)
    /\ \A k \in DOMAIN out : /\ out[k].by \in Nat /\ out[k].by <= sends
                             /\ phase = "serve" => out[k].by < current.by
                             /\ After(stdin, out[k].by)

OrderInv == LengthInv /\ PipeInv /\ LostInv /\ TurnInv

LEMMA TokenFields ==
    /\ \A kind : Header(kind).kind = kind /\ Header(kind).by = 0 /\ ~Header(kind).intact /\ Header(kind).type = "header"
    /\ Blank.kind = "good" /\ Blank.by = 0 /\ ~Blank.intact /\ Blank.type = "blank"
    /\ \A kind, req, by, intact :
         /\ Payload(kind, req, by, intact).type = "payload" /\ Payload(kind, req, by, intact).kind = kind
         /\ Payload(kind, req, by, intact).req = req /\ Payload(kind, req, by, intact).by = by
         /\ Payload(kind, req, by, intact).intact = intact
  BY DEF Header, Blank, Line, Payload

LEMMA TokenKinds ==
    \A t \in Tokens : /\ t.intact \in BOOLEAN /\ t.by \in Nat /\ t.type \in {"header", "blank", "payload"}
                      /\ t.type # "payload" => ~t.intact
                      /\ t.type = "payload" => t.req \in Requests
<1> SUFFICES ASSUME NEW t \in Tokens
             PROVE  /\ t.intact \in BOOLEAN /\ t.by \in Nat /\ t.type \in {"header", "blank", "payload"}
                    /\ t.type # "payload" => ~t.intact
                    /\ t.type = "payload" => t.req \in Requests
  OBVIOUS
<1>1. CASE t \in [type : {"header", "blank"}, kind : FrameKinds, req : {NoRequest}, by : {0}, intact : {FALSE}]
  <2>1. t.type \in {"header", "blank"} /\ t.intact \in {FALSE} /\ t.by \in {0}
    BY <1>1
  <2>2. t.intact = FALSE /\ t.by = 0
    BY <2>1
  <2>3. t.intact \in BOOLEAN /\ ~t.intact
    BY <2>2, Zenon
  <2> QED
    BY <2>1, <2>2, <2>3
<1>2. CASE t \in [type : {"payload"}, kind : FrameKinds, req : Requests, by : Nat, intact : BOOLEAN]
  BY <1>2
<1> QED
  BY <1>1, <1>2 DEF Tokens

LEMMA UnnamedTokens == \A t \in Tokens : t.type # "payload" => t.by = 0
  BY DEF Tokens

LEMMA PipeTokens ==
    FrameInv => /\ Len(stdin) \in Nat /\ DOMAIN stdin = 1..Len(stdin)
                /\ \A i \in DOMAIN stdin :
                     /\ stdin[i].intact \in BOOLEAN /\ stdin[i].by \in Nat
                     /\ stdin[i].type \in {"header", "blank", "payload"}
                     /\ stdin[i].type # "payload" => ~stdin[i].intact
                     /\ stdin[i].type = "payload" => stdin[i].req \in Requests
                /\ (stdin # << >> <=> Len(stdin) # 0)
<1> SUFFICES ASSUME FrameInv
             PROVE  /\ Len(stdin) \in Nat /\ DOMAIN stdin = 1..Len(stdin)
                    /\ \A i \in DOMAIN stdin :
                         /\ stdin[i].intact \in BOOLEAN /\ stdin[i].by \in Nat
                         /\ stdin[i].type \in {"header", "blank", "payload"}
                         /\ stdin[i].type # "payload" => ~stdin[i].intact
                         /\ stdin[i].type = "payload" => stdin[i].req \in Requests
                    /\ (stdin # << >> <=> Len(stdin) # 0)
  OBVIOUS
<1>1. stdin \in Seq(Tokens)
  BY DEF FrameInv
<1>2. \A i \in DOMAIN stdin : stdin[i] \in Tokens
  BY <1>1
<1> QED
  BY <1>1, <1>2, TokenKinds

-----------------------------------------------------------------------------
(* Frames that leave the pipe at its head.                                 *)
Shifted(s, t, n) ==
    /\ Len(s) \in Nat /\ n \in Nat /\ n <= Len(s) /\ DOMAIN s = 1..Len(s)
    /\ Len(t) = Len(s) - n /\ DOMAIN t = 1..Len(t)
    /\ \A i \in 1..Len(s) - n : t[i] = s[i + n]

LEMMA ShiftedItem ==
    ASSUME NEW s, NEW t, NEW n, Shifted(s, t, n)
    PROVE  /\ \A i \in DOMAIN t : i + n \in DOMAIN s /\ t[i] = s[i + n] /\ i \in Nat
           /\ \A j \in DOMAIN s : j > n => j - n \in DOMAIN t /\ t[j - n] = s[j]
  BY DEF Shifted

LEMMA ShiftedPipe ==
    ASSUME NEW s, NEW t, NEW n \in Nat, Shifted(s, t, n), NEW lost, NEW last
    PROVE  /\ Marked(s, lost) => Marked(t, lost)
           /\ Numbered(s, last) => Numbered(t, last)
           /\ \A m : After(s, m) => After(t, m)
           /\ (\A i \in DOMAIN s : ~s[i].intact) => \A i \in DOMAIN t : ~t[i].intact
           /\ Warned(s) /\ (\A i \in 1..n : ~BadHeader(s, i)) => Warned(t)
           /\ (\E i \in DOMAIN s : BadHeader(s, i)) /\ (\A i \in 1..n : ~BadHeader(s, i))
                => \E i \in DOMAIN t : BadHeader(t, i)
<1>1. \A i \in DOMAIN t : i + n \in DOMAIN s /\ t[i] = s[i + n] /\ i \in Nat
  BY ShiftedItem
<1>2. \A j \in DOMAIN s : j \in Nat /\ (j > n => j - n \in DOMAIN t /\ t[j - n] = s[j])
  BY ShiftedItem DEF Shifted
<1>3. \A i, j \in DOMAIN t : i < j => i + n < j + n
  BY <1>1
<1>4. Marked(s, lost) => Marked(t, lost)
  BY <1>1, <1>3 DEF Marked
<1>5. Numbered(s, last) => Numbered(t, last)
  BY <1>1, <1>3 DEF Numbered
<1>6. \A m : After(s, m) => After(t, m)
  BY <1>1 DEF After
<1>7. ASSUME \A i \in 1..n : ~BadHeader(s, i), NEW i \in DOMAIN s, BadHeader(s, i)
      PROVE  i - n \in DOMAIN t /\ BadHeader(t, i - n)
  <2>1. i > n
    BY <1>2, <1>7 DEF Shifted
  <2> QED
    BY <1>2, <1>7, <2>1 DEF BadHeader
<1>8. ASSUME Warned(s), \A i \in 1..n : ~BadHeader(s, i) PROVE Warned(t)
  <2> SUFFICES ASSUME NEW j \in DOMAIN t, t[j].type = "payload", t[j].kind = "good", ~t[j].intact
               PROVE  \E i \in DOMAIN t : i < j /\ BadHeader(t, i)
    BY DEF Warned
  <2>1. PICK i \in DOMAIN s : i < j + n /\ BadHeader(s, i)
    BY <1>1, <1>8 DEF Warned
  <2>2. i - n \in DOMAIN t /\ BadHeader(t, i - n) /\ i - n < j
    BY <1>1, <1>2, <1>7, <1>8, <2>1
  <2> QED
    BY <2>2
<1> QED
  BY <1>1, <1>4, <1>5, <1>6, <1>7, <1>8

LEMMA ConsumedShifted ==
    ASSUME FrameInv, NEW n \in Nat, n <= Len(stdin), Consume(n)
    PROVE  Shifted(stdin, stdin', n) /\ (stdin' # << >> <=> n < Len(stdin))
<1>1. stdin \in Seq(Tokens) /\ Framed(stdin)
  BY DEF FrameInv
<1>2. stdin' = SubSeq(stdin, n + 1, Len(stdin))
  BY DEF Consume
<1>3. /\ stdin' \in Seq(Tokens) /\ Len(stdin') = Len(stdin) - n
      /\ \A i \in 1..Len(stdin) - n : stdin'[i] = stdin[i + n]
  BY <1>1, <1>2, ConsumedFramed
<1> QED
  BY <1>1, <1>3 DEF Shifted
-----------------------------------------------------------------------------
(* A frame, whole or cut, that enters the pipe at its end.                 *)
Longer(s, t, n) ==
    /\ Len(s) \in Nat /\ n \in Nat /\ DOMAIN s = 1..Len(s)
    /\ Len(t) = Len(s) + n /\ DOMAIN t = 1..Len(t)
    /\ \A i \in 1..Len(s) : t[i] = s[i]

LEMMA JoinedLonger ==
    ASSUME NEW S, NEW s \in Seq(S), NEW t \in Seq(S)
    PROVE  Longer(s, s \o t, Len(t)) /\ \A i \in 1..Len(t) : (s \o t)[Len(s) + i] = t[i]
<1>1. s \o t \in Seq(S) /\ Len(s \o t) = Len(s) + Len(t)
  OBVIOUS
<1>2. \A i \in 1..Len(s) : (s \o t)[i] = s[i]
  OBVIOUS
<1>3. \A i \in 1..Len(t) : (s \o t)[Len(s) + i] = t[i]
  OBVIOUS
<1> QED
  BY <1>1, <1>2, <1>3 DEF Longer

LEMMA SentFrame ==
    ASSUME FrameInv, Send
    PROVE  \E req \in Requests, kind \in FrameKinds :
             LET intact == kind = "good" /\ ~misframed
             IN  /\ Longer(stdin, stdin', 3)
                 /\ stdin'[Len(stdin) + 1] = Header(kind)
                 /\ stdin'[Len(stdin) + 2] = Blank
                 /\ stdin'[Len(stdin) + 3] = Payload(kind, req, sends + 1, intact)
                 /\ misframed' = (misframed \/ Unusable(kind))
<1>1. PICK req \in Requests, kind \in FrameKinds :
          /\ stdin' = stdin \o <<Header(kind), Blank, Payload(kind, req, sends + 1, kind = "good" /\ ~misframed)>>
          /\ misframed' = (misframed \/ Unusable(kind))
  BY DEF Send
<1> DEFINE intact == kind = "good" /\ ~misframed
           header == Header(kind)
           payload == Payload(kind, req, sends + 1, intact)
<1>2. stdin' = stdin \o <<header, Blank, payload>>
  BY <1>1
<1>3. intact \in BOOLEAN /\ sends + 1 \in Nat
  BY DEF FrameInv
<1> HIDE DEF intact
<1>4. header \in Tokens /\ Blank \in Tokens /\ payload \in Tokens
  BY <1>3, HeaderToken, BlankToken, PayloadToken
<1> HIDE DEF header, payload
<1> DEFINE frame == <<header, Blank, payload>>
<1>5. frame \in Seq(Tokens) /\ Len(frame) = 3 /\ frame[1] = header /\ frame[2] = Blank /\ frame[3] = payload
  BY <1>4
<1>6. stdin \in Seq(Tokens) /\ stdin' = stdin \o frame
  BY <1>2 DEF FrameInv
<1> HIDE DEF frame
<1>7. Longer(stdin, stdin', 3) /\ \A i \in 1..3 : stdin'[Len(stdin) + i] = frame[i]
  <2>0. frame \in Seq(Tokens) /\ stdin \in Seq(Tokens)
    BY <1>5, <1>6
  <2>1. /\ Longer(stdin, stdin \o frame, Len(frame))
        /\ \A i \in 1..Len(frame) : (stdin \o frame)[Len(stdin) + i] = frame[i]
    BY <2>0, JoinedLonger, Zenon
  <2> QED
    BY <2>1, <1>5, <1>6, Zenon
<1>8. /\ stdin'[Len(stdin) + 1] = header /\ stdin'[Len(stdin) + 2] = Blank /\ stdin'[Len(stdin) + 3] = payload
  BY <1>5, <1>7
<1> QED
  BY <1>1, <1>7, <1>8 DEF header, payload, intact

LEMMA OrderSend == FrameInv /\ OrderInv /\ Send => OrderInv'
<1> SUFFICES ASSUME FrameInv, OrderInv, Send PROVE OrderInv'
  OBVIOUS
<1> DEFINE n == Len(stdin)
<1>1. PICK req \in Requests, kind \in FrameKinds :
             LET intact == kind = "good" /\ ~misframed
             IN  /\ Longer(stdin, stdin', 3)
                 /\ stdin'[n + 1] = Header(kind)
                 /\ stdin'[n + 2] = Blank
                 /\ stdin'[n + 3] = Payload(kind, req, sends + 1, intact)
                 /\ misframed' = (misframed \/ Unusable(kind))
  BY SentFrame
<1> DEFINE intact == kind = "good" /\ ~misframed
<1>2. /\ stdin'[n + 1].kind = kind /\ stdin'[n + 1].type = "header" /\ ~stdin'[n + 1].intact
      /\ stdin'[n + 2].kind = "good" /\ stdin'[n + 2].type = "blank" /\ ~stdin'[n + 2].intact
      /\ stdin'[n + 3].kind = kind /\ stdin'[n + 3].type = "payload" /\ stdin'[n + 3].intact = intact
      /\ stdin'[n + 3].by = sends + 1 /\ stdin'[n + 1].by = 0 /\ stdin'[n + 2].by = 0
  BY <1>1, TokenFields
<1>3. /\ n \in Nat /\ DOMAIN stdin = 1..n /\ DOMAIN stdin' = 1..n + 3 /\ Len(stdin') = n + 3
      /\ \A i \in 1..n : stdin'[i] = stdin[i]
  BY <1>1 DEF Longer
<1>4. \A i \in DOMAIN stdin' : i \in 1..n \/ i = n + 1 \/ i = n + 2 \/ i = n + 3
  BY <1>3
<1>5. /\ UNCHANGED <<eof, length, phase, current, out>> /\ Running /\ ~eof /\ sends' = sends + 1
      /\ sends \in Nat /\ sends' <= MaxSends /\ (misframed' <=> misframed \/ Unusable(kind))
  <2>1. UNCHANGED <<eof, length, phase, current, out>> /\ Running /\ ~eof /\ sends' = sends + 1 /\ sends < MaxSends
    BY DEF Send, reader, call
  <2>2. sends \in Nat /\ sends' <= MaxSends
    BY <2>1, BoundsAssumption DEF FrameInv
  <2>3. misframed' <=> misframed \/ Unusable(kind)
    BY <1>1
  <2> QED
    BY <2>1, <2>2, <2>3
<1>6. ~(intact /\ Unusable(kind)) /\ ~Unusable("good") /\ (intact => ~misframed /\ kind = "good")
      /\ (kind = "good" /\ ~intact => misframed)
  BY DEF Unusable
<1>7. stdin' # << >> /\ (stdin # << >> <=> n # 0)
  BY <1>3, PipeTokens
<1>8. /\ stdin # << >> => stdin'[1] = stdin[1]
      /\ stdin = << >> => stdin'[1].type = "header"
  BY <1>2, <1>3, <1>7
<1> HIDE DEF intact, n
<1>9. LengthInv'
  <2>1. stdin'[Len(stdin')].type = "payload"
    BY <1>2, <1>3
  <2> QED
    BY <2>1, <1>5, <1>7, <1>8 DEF LengthInv, OrderInv
<1>10. Marked(stdin', misframed')
  <2>1. \A i \in 1..n : (stdin[i].intact => stdin[i].kind = "good") /\ (Unusable(stdin[i].kind) => misframed)
    BY <1>3 DEF OrderInv, PipeInv, Marked
  <2>2. \A i, j \in 1..n : i < j /\ Unusable(stdin[i].kind) => ~stdin[j].intact
    BY <1>3 DEF OrderInv, PipeInv, Marked
  <2>3. \A i \in DOMAIN stdin' : stdin'[i].intact => stdin'[i].kind = "good"
    BY <1>2, <1>3, <1>4, <1>6, <2>1
  <2>4. \A i \in DOMAIN stdin' : Unusable(stdin'[i].kind) => misframed'
    BY <1>2, <1>3, <1>4, <1>5, <1>6, <2>1
  <2>5. ASSUME NEW i \in DOMAIN stdin', NEW j \in DOMAIN stdin', i < j, Unusable(stdin'[i].kind), stdin'[j].intact
        PROVE  FALSE
    <3>1. CASE j \in 1..n
      <4>1. i \in 1..n
        BY <1>3, <1>4, <2>5, <3>1
      <4> QED
        BY <1>3, <2>2, <2>5, <3>1, <4>1
    <3>2. CASE j = n + 3
      <4>1. intact
        BY <1>2, <2>5, <3>2
      <4>2. i \in 1..n => misframed
        BY <1>3, <2>1, <2>5
      <4> QED
        BY <1>2, <1>4, <1>6, <2>5, <3>2, <4>1, <4>2
    <3> QED
      BY <1>2, <1>4, <2>5, <3>1, <3>2
  <2> QED
    BY <2>3, <2>4, <2>5 DEF Marked
<1>11. PipeInv'
  <2>1. \A i \in 1..n : /\ stdin[i].type = "payload" => 0 < stdin[i].by /\ stdin[i].by <= sends
                        /\ stdin[i].by \in Nat
    BY <1>3, PipeTokens DEF OrderInv, PipeInv, Numbered
  <2>2. \A i, j \in 1..n : i < j /\ stdin[j].type = "payload" => stdin[i].by < stdin[j].by
    BY <1>3 DEF OrderInv, PipeInv, Numbered
  <2>3. \A i \in 1..n : stdin[i].by <= sends
    <3>1. \A i \in 1..n : stdin[i].type # "payload" => stdin[i].by = 0
      BY <1>3, PipeTokens, UnnamedTokens DEF FrameInv
    <3> QED
      BY <2>1, <3>1, <1>5
  <2>4. \A i \in DOMAIN stdin' : stdin'[i].type = "payload" => 0 < stdin'[i].by /\ stdin'[i].by <= sends'
    BY <1>2, <1>3, <1>4, <1>5, <2>1
  <2>5. \A i, j \in DOMAIN stdin' : i < j /\ stdin'[j].type = "payload" => stdin'[i].by < stdin'[j].by
    <3> SUFFICES ASSUME NEW i \in DOMAIN stdin', NEW j \in DOMAIN stdin', i < j, stdin'[j].type = "payload"
                 PROVE  stdin'[i].by < stdin'[j].by
      OBVIOUS
    <3>1. CASE j \in 1..n
      <4>1. i \in 1..n
        BY <1>3, <1>4, <3>1
      <4> QED
        BY <1>3, <2>2, <3>1, <4>1
    <3>2. CASE j = n + 3
      <4>1. stdin'[j].by = sends + 1
        BY <1>2, <3>2
      <4>2. i \in 1..n \/ i = n + 1 \/ i = n + 2
        BY <1>3, <1>4, <3>2
      <4>3. stdin'[i].by \in Nat /\ stdin'[i].by <= sends
        BY <1>2, <1>3, <1>5, <2>1, <2>3, <4>2
      <4> QED
        BY <1>5, <4>1, <4>3
    <3> QED
      BY <1>2, <1>4, <3>1, <3>2
  <2> QED
    BY <1>5, <1>10, <2>4, <2>5 DEF PipeInv, Numbered
<1>12. TurnInv'
  <2>1. \A m \in Nat : After(stdin, m) /\ m <= sends => After(stdin', m)
    BY <1>2, <1>3, <1>4, <1>5 DEF After
  <2> QED
    BY <1>5, <2>1 DEF OrderInv, TurnInv
<1>13. LostInv'
  <2>1. Lost' <=> Lost
    BY <1>5, <1>7, <1>8 DEF Lost
  <2>2. ASSUME Lost PROVE misframed' /\ \A i \in DOMAIN stdin' : ~stdin'[i].intact
    BY <1>2, <1>3, <1>4, <1>5, <1>6, <2>2 DEF OrderInv, LostInv
  <2>3. ASSUME ~Lost, misframed PROVE \E i \in 1..n : BadHeader(stdin', i)
    BY <1>3, <1>5, <2>3 DEF OrderInv, LostInv, BadHeader
  <2>4. Unusable(kind) => BadHeader(stdin', n + 1)
    BY <1>2 DEF BadHeader
  <2>5. ~Lost /\ misframed' => \E i \in DOMAIN stdin' : BadHeader(stdin', i)
    BY <1>3, <1>5, <2>3, <2>4
  <2>6. ASSUME ~Lost PROVE Warned(stdin')
    <3> SUFFICES ASSUME NEW j \in DOMAIN stdin', stdin'[j].type = "payload", stdin'[j].kind = "good", ~stdin'[j].intact
                 PROVE  \E i \in DOMAIN stdin' : i < j /\ BadHeader(stdin', i)
      BY DEF Warned
    <3>1. CASE j \in 1..n
      BY <1>3, <2>6, <3>1 DEF OrderInv, LostInv, Warned, BadHeader
    <3>2. CASE j = n + 3
      <4>1. misframed
        BY <1>2, <1>6, <3>2
      <4> QED
        BY <1>3, <2>3, <2>6, <3>2, <4>1
    <3> QED
      BY <1>2, <1>4, <3>1, <3>2
  <2> QED
    BY <2>1, <2>2, <2>5, <2>6 DEF LostInv
<1> QED
  BY <1>9, <1>11, <1>12, <1>13 DEF OrderInv

LEMMA CutFrame ==
    ASSUME FrameInv, Hangup
    PROVE  \/ stdin' = stdin
           \/ /\ Longer(stdin, stdin', 2)
              /\ stdin'[Len(stdin) + 1] = Header("good")
              /\ stdin'[Len(stdin) + 2] = Blank
<1> DEFINE header == Header("good")
<1>1. \/ stdin' = stdin \o << >>
      \/ stdin' = stdin \o <<header, Blank>>
  BY DEF Hangup
<1>2. header \in Tokens /\ Blank \in Tokens /\ stdin \in Seq(Tokens)
  BY HeaderToken, BlankToken DEF FrameKinds, FrameInv
<1> HIDE DEF header
<1>3. CASE stdin' = stdin \o << >>
  BY <1>2, <1>3
<1>4. CASE stdin' = stdin \o <<header, Blank>>
  <2> DEFINE cut == <<header, Blank>>
  <2>1. cut \in Seq(Tokens) /\ Len(cut) = 2 /\ cut[1] = header /\ cut[2] = Blank
    BY <1>2
  <2>2. stdin' = stdin \o cut
    BY <1>4
  <2> HIDE DEF cut
  <2>3. /\ Longer(stdin, stdin \o cut, Len(cut))
        /\ \A i \in 1..Len(cut) : (stdin \o cut)[Len(stdin) + i] = cut[i]
    <3>1. cut \in Seq(Tokens) /\ stdin \in Seq(Tokens)
      BY <1>2, <2>1
    <3> QED
      BY <3>1, JoinedLonger, Zenon
  <2>4. Longer(stdin, stdin', 2) /\ \A i \in 1..2 : stdin'[Len(stdin) + i] = cut[i]
    BY <2>1, <2>2, <2>3, Zenon
  <2>5. stdin'[Len(stdin) + 1] = cut[1] /\ stdin'[Len(stdin) + 2] = cut[2]
    BY <2>4
  <2> QED
    BY <2>1, <2>4, <2>5 DEF header
<1> QED
  BY <1>1, <1>3, <1>4

LEMMA OrderHangup == FrameInv /\ OrderInv /\ Hangup => OrderInv'
<1> SUFFICES ASSUME FrameInv, OrderInv, Hangup PROVE OrderInv'
  OBVIOUS
<1>0. /\ UNCHANGED <<length, phase, current, out, sends, misframed>> /\ eof' = TRUE
  BY DEF Hangup, reader, call, bounds
<1>1. CASE stdin' = stdin
  BY <1>0, <1>1 DEF OrderInv, LengthInv, PipeInv, LostInv, TurnInv, Lost, Running
<1>2. CASE /\ Longer(stdin, stdin', 2)
           /\ stdin'[Len(stdin) + 1] = Header("good")
           /\ stdin'[Len(stdin) + 2] = Blank
  <2> DEFINE n == Len(stdin)
  <2>1. /\ stdin'[n + 1].kind = "good" /\ stdin'[n + 1].type = "header" /\ ~stdin'[n + 1].intact
        /\ stdin'[n + 2].kind = "good" /\ stdin'[n + 2].type = "blank" /\ ~stdin'[n + 2].intact
        /\ ~Unusable("good")
    BY <1>2, TokenFields DEF Unusable
  <2>2. /\ n \in Nat /\ DOMAIN stdin = 1..n /\ DOMAIN stdin' = 1..n + 2 /\ Len(stdin') = n + 2
        /\ \A i \in 1..n : stdin'[i] = stdin[i]
    BY <1>2 DEF Longer
  <2>3. \A i \in DOMAIN stdin' : i \in 1..n \/ i = n + 1 \/ i = n + 2
    BY <2>2
  <2>4. stdin' # << >> /\ (stdin # << >> <=> n # 0)
    BY <2>2, PipeTokens
  <2>5. /\ stdin # << >> => stdin'[1] = stdin[1]
        /\ stdin = << >> => stdin'[1].type = "header"
    BY <2>1, <2>2, <2>4
  <2> HIDE DEF n
  <2>6. LengthInv'
    <3>1. stdin'[Len(stdin')].type = "blank"
      BY <2>1, <2>2
    <3> QED
      BY <3>1, <1>0, <2>4, <2>5 DEF LengthInv, OrderInv
  <2>7. Marked(stdin', misframed')
    <3>1. Marked(stdin, misframed)
      BY DEF OrderInv, PipeInv
    <3>2. \A i \in DOMAIN stdin' : i \in 1..n \/ (~Unusable(stdin'[i].kind) /\ ~stdin'[i].intact)
      BY <2>1, <2>3
    <3> QED
      BY <1>0, <2>2, <3>1, <3>2 DEF Marked
  <2>8. \A i \in DOMAIN stdin' : stdin'[i].type = "payload" => i \in 1..n
    BY <2>1, <2>3
  <2>9. Numbered(stdin', sends')
    <3>1. Numbered(stdin, sends)
      BY DEF OrderInv, PipeInv
    <3>2. \A i, j \in DOMAIN stdin' : i < j /\ j \in 1..n => i \in 1..n
      BY <2>2
    <3> QED
      BY <1>0, <2>2, <2>8, <3>1, <3>2 DEF Numbered
  <2>10. \A m : After(stdin, m) => After(stdin', m)
    BY <2>2, <2>8 DEF After
  <2>11. Warned(stdin) => Warned(stdin')
    <3>1. \A i \in 1..n : BadHeader(stdin, i) => BadHeader(stdin', i) /\ i \in DOMAIN stdin'
      BY <2>2 DEF BadHeader
    <3> QED
      BY <2>2, <2>8, <3>1 DEF Warned
  <2>12. Lost' <=> Lost
    BY <1>0, <2>4, <2>5 DEF Lost
  <2>13. (\A i \in DOMAIN stdin : ~stdin[i].intact) => \A i \in DOMAIN stdin' : ~stdin'[i].intact
    BY <2>1, <2>2, <2>3
  <2>14. LostInv'
    BY <1>0, <2>11, <2>12, <2>13 DEF OrderInv, LostInv
  <2>15. PipeInv'
    BY <1>0, <2>7, <2>9 DEF OrderInv, PipeInv
  <2>16. TurnInv'
    BY <1>0, <2>10 DEF OrderInv, TurnInv
  <2> QED
    BY <2>6, <2>14, <2>15, <2>16 DEF OrderInv
<1> QED
  BY <1>1, <1>2, CutFrame

-----------------------------------------------------------------------------
(* What a line or a payload takes from the pipe.                           *)
LEMMA ReadTakes ==
    ASSUME FrameInv, OrderInv, NEW n \in {1, 2}, n <= Len(stdin), Consume(n), UNCHANGED <<sends, misframed>>
    PROVE  /\ Shifted(stdin, stdin', n) /\ PipeInv'
           /\ \A m : After(stdin, m) => After(stdin', m)
           /\ (stdin' # << >> <=> n < Len(stdin))
           /\ stdin' # << >> => stdin'[1] = stdin[n + 1] /\ stdin'[Len(stdin')] = stdin[Len(stdin)]
<1>1. Shifted(stdin, stdin', n) /\ (stdin' # << >> <=> n < Len(stdin)) /\ n \in Nat
  BY ConsumedShifted
<1>2. stdin' # << >> => stdin'[1] = stdin[n + 1] /\ stdin'[Len(stdin')] = stdin[Len(stdin)]
  BY <1>1 DEF Shifted
<1>3. PipeInv' /\ \A m : After(stdin, m) => After(stdin', m)
  BY <1>1, ShiftedPipe DEF OrderInv, PipeInv
<1> QED
  BY <1>1, <1>2, <1>3

(* A line is read: in its place, or lost and then so is the next one.      *)
LEMMA LostReadLine ==
    ASSUME FrameInv, OrderInv, ReadLine
    PROVE  LengthInv' /\ PipeInv' /\ LostInv' /\ \A m : After(stdin, m) => After(stdin', m)
<1> DEFINE n == LineLength
           line == stdin[1]
<1>1. /\ phase = "line" /\ stdin # << >> /\ Consume(n) /\ UNCHANGED <<sends, misframed, eof>>
      /\ n \in {1, 2} /\ n <= Len(stdin) /\ (line.type # "payload" => n = 1)
      /\ line.type = "payload" => (n = 2 /\ Len(stdin) > 1) \/ (n = 1 /\ Len(stdin) = 1 /\ eof)
  <2>1. Len(stdin) \in Nat /\ Len(stdin) # 0 /\ stdin # << >>
    BY PipeTokens DEF ReadLine, LineComplete
  <2>2. phase = "line" /\ Consume(n) /\ UNCHANGED <<sends, misframed, eof>> /\ (line.type = "payload" /\ Len(stdin) = 1 => eof)
    BY DEF ReadLine, LineComplete, bounds
  <2>3. n = IF line.type = "payload" /\ Len(stdin) > 1 THEN 2 ELSE 1
    BY DEF LineLength
  <2> HIDE DEF n, line
  <2>4. /\ n \in {1, 2} /\ n <= Len(stdin) /\ (line.type # "payload" => n = 1)
        /\ line.type = "payload" => (n = 2 /\ Len(stdin) > 1) \/ (n = 1 /\ Len(stdin) = 1)
    <3>1. CASE line.type = "payload" /\ Len(stdin) > 1
      <4>1. n = 2
        BY <2>3, <3>1, Zenon
      <4> QED
        BY <2>1, <3>1, <4>1
    <3>2. CASE ~(line.type = "payload" /\ Len(stdin) > 1)
      <4>1. n = 1
        BY <2>3, <3>2, Zenon
      <4> QED
        <5>1. Len(stdin) \in Nat /\ Len(stdin) >= 1
          BY <2>1
        <5>2. line.type = "payload" => ~(Len(stdin) > 1)
          BY <3>2, Zenon
        <5>3. ~(Len(stdin) > 1) => Len(stdin) = 1
          BY <5>1
        <5>4. n \in {1, 2} /\ n <= Len(stdin)
          BY <4>1, <5>1
        <5> QED
          BY <4>1, <5>2, <5>3, <5>4, Zenon
    <3> QED
      BY <3>1, <3>2
  <2>5. line.type = "payload" => (n = 2 /\ Len(stdin) > 1) \/ (n = 1 /\ Len(stdin) = 1 /\ eof)
    BY <2>2, <2>4, Zenon
  <2> QED
    BY <2>1, <2>2, <2>4, <2>5, Zenon
<1> HIDE DEF n
<1>2. /\ Shifted(stdin, stdin', n) /\ PipeInv'
      /\ \A m : After(stdin, m) => After(stdin', m)
      /\ (stdin' # << >> <=> n < Len(stdin))
      /\ stdin' # << >> => stdin'[1] = stdin[n + 1] /\ stdin'[Len(stdin')] = stdin[Len(stdin)]
  BY <1>1, ReadTakes
<1>3. /\ Len(stdin) \in Nat /\ DOMAIN stdin = 1..Len(stdin) /\ 1 \in DOMAIN stdin
      /\ line.type \in {"header", "blank", "payload"}
      /\ \A i \in DOMAIN stdin : i + 1 \in DOMAIN stdin => stdin[i + 1].type = Follower[stdin[i].type]
      /\ ~eof => stdin[Len(stdin)].type = "payload"
      /\ stdin[Len(stdin)].type # "header"
  <2>1. 1 \in DOMAIN stdin /\ Len(stdin) \in Nat /\ DOMAIN stdin = 1..Len(stdin)
    BY <1>1, PipeTokens
  <2> QED
    BY <1>1, <2>1, PipeTokens DEF FrameInv, Framed, OrderInv, LengthInv
<1>4. /\ n = 1 \/ Len(stdin) > 1
      /\ Len(stdin) > 1 => stdin[2].type = Follower[line.type]
      /\ Len(stdin) > 2 => stdin[3].type = Follower[stdin[2].type]
  <2>1. /\ Len(stdin) > 1 => 1 \in DOMAIN stdin /\ 1 + 1 \in DOMAIN stdin
        /\ Len(stdin) > 2 => 2 \in DOMAIN stdin /\ 2 + 1 \in DOMAIN stdin
    BY <1>3
  <2> QED
    BY <1>1, <1>3, <2>1
<1>5. /\ Warned(stdin) /\ (\A i \in 1..n : ~BadHeader(stdin, i)) => Warned(stdin')
      /\ (\E i \in DOMAIN stdin : BadHeader(stdin, i)) /\ (\A i \in 1..n : ~BadHeader(stdin, i))
           => \E i \in DOMAIN stdin' : BadHeader(stdin', i)
      /\ (\A i \in DOMAIN stdin : ~stdin[i].intact) => \A i \in DOMAIN stdin' : ~stdin'[i].intact
  BY <1>1, <1>2, ShiftedPipe
<1>6. length = "none" \/ line.type = "blank"
  BY <1>1 DEF OrderInv, LengthInv
<1>7. stdin' # << >> => stdin'[Len(stdin')].type # "header"
  BY <1>2, <1>3
<1>8. stdin' = << >> => Warned(stdin')
  <2>1. stdin' = << >> => DOMAIN stdin' = {}
    BY <1>2 DEF Shifted
  <2> QED
    BY <2>1 DEF Warned
<1> HIDE DEF line
<1>9. CASE line.type = "header"
  <2>1. n = 1 /\ stdin' # << >> /\ stdin'[1].type = "blank"
    BY <1>1, <1>2, <1>3, <1>4, <1>9 DEF Follower, line
  <2>2. ~Lost
    BY <1>9 DEF Lost, line
  <2>3. CASE Unusable(line.kind)
    <3>1. phase' = "line" /\ length' # "ok"
      BY <1>6, <1>9, <2>3 DEF ReadLine, ReadError, reader, Unusable, line
    <3>2. misframed /\ \A i \in DOMAIN stdin : i > 1 => ~stdin[i].intact
      BY <1>3, <2>3 DEF OrderInv, PipeInv, Marked, line
    <3>3. \A i \in DOMAIN stdin' : ~stdin'[i].intact
      <4>1. \A i \in DOMAIN stdin' : i + 1 \in DOMAIN stdin /\ stdin'[i] = stdin[i + 1] /\ i + 1 > 1
        BY <1>2, <2>1 DEF Shifted
      <4> QED
        BY <3>2, <4>1
    <3>4. Lost'
      BY <2>1, <3>1 DEF Lost
    <3> QED
      BY <1>1, <1>2, <1>7, <2>1, <3>1, <3>2, <3>3, <3>4 DEF LostInv, LengthInv
  <2>4. CASE ~Unusable(line.kind)
    <3>1. phase' = "line" /\ length' = "ok"
      BY <1>9, <2>4 DEF ReadLine, ReadError, reader, Unusable, line
    <3>2. ~Lost'
      BY <2>1, <3>1 DEF Lost
    <3>3. \A i \in 1..n : ~BadHeader(stdin, i)
      BY <2>1, <2>4 DEF BadHeader, line
    <3>4. LostInv'
      BY <1>1, <1>5, <2>2, <3>2, <3>3 DEF LostInv, OrderInv, Running
    <3> QED
      BY <1>2, <1>7, <2>1, <3>1, <3>4 DEF LengthInv
  <2> QED
    BY <2>3, <2>4
<1>10. CASE line.type = "blank" /\ length = "ok"
  <2>1. n = 1 /\ phase' = "payload" /\ length' = length
    BY <1>1, <1>10 DEF ReadLine, ReadError, reader, line
  <2>2. ~Lost /\ ~Lost'
    BY <1>10, <2>1 DEF Lost, line
  <2>3. \A i \in 1..n : ~BadHeader(stdin, i)
    BY <1>10, <2>1 DEF BadHeader, line
  <2>4. LostInv'
    BY <1>1, <1>5, <2>2, <2>3 DEF LostInv, OrderInv, Running
  <2> QED
    BY <1>2, <1>7, <1>10, <2>1, <2>4 DEF LengthInv
<1>11. CASE line.type = "blank" /\ length # "ok"
  <2>1. n = 1 /\ phase' = "line" /\ length' = "none"
    BY <1>1, <1>11 DEF ReadLine, ReadError, reader, line
  <2>2. Lost
    BY <1>1, <1>11 DEF Lost, line
  <2>3. stdin' # << >> => stdin'[1].type = "payload"
    BY <1>2, <1>4, <1>11, <2>1 DEF Follower
  <2>4. stdin' = << >> => eof
    BY <1>2, <1>3, <1>11, <2>1 DEF line
  <2>5. Lost' <=> stdin' # << >>
    BY <2>1, <2>3 DEF Lost
  <2>6. LostInv'
    BY <1>1, <1>5, <1>8, <2>2, <2>4, <2>5 DEF LostInv, OrderInv
  <2> QED
    BY <1>2, <1>7, <2>1, <2>6 DEF LengthInv
<1>12. CASE line.type = "payload"
  <2>1. phase' = "line" /\ length' = "none"
    BY <1>1, <1>6, <1>12 DEF ReadLine, ReadError, reader, line
  <2>2. Lost
    BY <1>1, <1>12 DEF Lost, line
  <2>3. stdin' # << >> => stdin'[1].type = "blank"
    BY <1>1, <1>2, <1>3, <1>4, <1>12 DEF Follower
  <2>4. stdin' = << >> => eof
    BY <1>1, <1>2, <1>3, <1>4, <1>12 DEF Follower
  <2>5. Lost' <=> stdin' # << >>
    BY <2>1, <2>3 DEF Lost
  <2>6. LostInv'
    BY <1>1, <1>5, <1>8, <2>2, <2>4, <2>5 DEF LostInv, OrderInv
  <2> QED
    BY <1>2, <1>7, <2>1, <2>6 DEF LengthInv
<1> QED
  BY <1>3, <1>9, <1>10, <1>11, <1>12 DEF line

(* A payload that is served was sent to be understood.                     *)
LEMMA ServesIntact ==
    ASSUME FrameInv, OrderInv, phase = "payload", stdin # << >>, stdin[1].kind = "good"
    PROVE  stdin[1].intact
<1>1. ~Lost /\ 1 \in DOMAIN stdin /\ stdin[1].type = "payload"
  BY PipeTokens DEF Lost, FrameInv
<1> SUFFICES ASSUME ~stdin[1].intact PROVE FALSE
  OBVIOUS
<1>2. \E i \in DOMAIN stdin : i < 1
  BY <1>1 DEF OrderInv, LostInv, Warned
<1> QED
  BY <1>2, PipeTokens

LEMMA LostReadPayload ==
    ASSUME FrameInv, OrderInv, ReadPayload
    PROVE  LengthInv' /\ PipeInv' /\ LostInv' /\ \A m : After(stdin, m) => After(stdin', m)
<1>1. /\ phase = "payload" /\ phase' \in {"line", "serve"} /\ length' = "none"
      /\ UNCHANGED <<sends, misframed, eof>>
  BY DEF ReadPayload, Begin, BadJson, ReadError, bounds
<1>2. ~Lost
  BY <1>1 DEF Lost
<1>3. CASE stdin # << >> /\ Consume(1)
  <2>1. Len(stdin) \in Nat /\ 1 <= Len(stdin) /\ DOMAIN stdin = 1..Len(stdin) /\ stdin[1].type = "payload"
    BY <1>1, <1>3, PipeTokens DEF FrameInv
  <2>2. /\ Shifted(stdin, stdin', 1) /\ PipeInv'
        /\ \A m : After(stdin, m) => After(stdin', m)
        /\ (stdin' # << >> <=> 1 < Len(stdin))
        /\ stdin' # << >> => stdin'[1] = stdin[1 + 1] /\ stdin'[Len(stdin')] = stdin[Len(stdin)]
    BY <1>1, <1>3, <2>1, ReadTakes
  <2>3. stdin' # << >> => stdin'[1].type = "header"
    <3>1. 1 < Len(stdin) => 1 \in DOMAIN stdin /\ 1 + 1 \in DOMAIN stdin
      BY <2>1
    <3> QED
      BY <2>1, <2>2, <3>1 DEF FrameInv, Framed, Follower
  <2>4. ~Lost'
    BY <2>3 DEF Lost
  <2>5. \A i \in 1..1 : ~BadHeader(stdin, i)
    BY <2>1 DEF BadHeader
  <2>6. /\ Warned(stdin) => Warned(stdin')
        /\ (\E i \in DOMAIN stdin : BadHeader(stdin, i)) => \E i \in DOMAIN stdin' : BadHeader(stdin', i)
    BY <2>2, <2>5, ShiftedPipe
  <2>7. LostInv'
    BY <1>1, <1>2, <2>4, <2>6 DEF OrderInv, LostInv, Running
  <2>8. LengthInv'
    BY <1>1, <1>3, <2>2, <2>3 DEF OrderInv, LengthInv
  <2> QED
    BY <2>2, <2>7, <2>8
<1>4. CASE stdin = << >> /\ eof /\ UNCHANGED stdin
  <2>1. ~Lost'
    BY <1>4 DEF Lost
  <2>2. LostInv' /\ LengthInv' /\ PipeInv'
    BY <1>1, <1>2, <1>4, <2>1 DEF OrderInv, LostInv, LengthInv, PipeInv
  <2> QED
    BY <1>4, <2>2
<1> QED
  BY <1>3, <1>4 DEF ReadPayload

LEMMA EmptyPipe ==
    /\ DOMAIN << >> = {}
    /\ \A lost, last : Marked(<< >>, lost) /\ Numbered(<< >>, last)
    /\ Warned(<< >>) /\ \A n : After(<< >>, n)
<1>1. DOMAIN << >> = {}
  OBVIOUS
<1> DEFINE e == << >>
<1>2. DOMAIN e = {}
  BY <1>1
<1> HIDE DEF e
<1>3. /\ \A lost, last : Marked(e, lost) /\ Numbered(e, last)
      /\ Warned(e) /\ \A n : After(e, n)
  BY <1>2 DEF Marked, Numbered, Warned, After
<1> QED
  BY <1>1, <1>3 DEF e

LEMMA LostOthers ==
    ASSUME FrameInv, OrderInv,
           DoWrite \/ FailWrite \/ Reply \/ Exit \/ ReplyFails \/ Crash \/ Restart \/ UNCHANGED vars
    PROVE  LengthInv' /\ PipeInv' /\ LostInv' /\ \A m : After(stdin, m) => After(stdin', m)
<1>1. CASE (DoWrite \/ FailWrite \/ UNCHANGED vars)
  <2>1. UNCHANGED <<stdin, eof, length, phase, sends, misframed>>
    BY <1>1 DEF DoWrite, FailWrite, vars, reader, bounds
  <2> QED
    BY <2>1 DEF OrderInv, LengthInv, PipeInv, LostInv, Lost, Running
<1>2. CASE Reply
  <2>1. UNCHANGED <<stdin, eof, length, sends, misframed>> /\ phase = "serve" /\ phase' = "line"
    BY <1>2 DEF Reply, bounds
  <2>2. ~Lost /\ ~Lost'
    BY <2>1 DEF OrderInv, LengthInv, Lost
  <2> QED
    BY <2>1, <2>2 DEF OrderInv, LengthInv, PipeInv, LostInv, Running
<1>3. CASE Exit \/ ReplyFails \/ Crash
  <2>1. stdin' = << >> /\ phase' \in {"exited", "killed"} /\ length' = "none" /\ sends' = sends
    BY <1>3 DEF Exit, ReplyFails, Crash, Vanish, bounds
  <2> QED
    BY <2>1, EmptyPipe DEF OrderInv, LengthInv, PipeInv, LostInv, Lost, Running
<1>4. CASE Restart
  <2>1. stdin = << >> /\ stdin' = << >> /\ phase' = "line" /\ length' = length /\ sends' = sends /\ misframed' = FALSE
    BY <1>4 DEF Restart, FrameInv
  <2>2. length = "none"
    BY <1>4, <2>1 DEF Restart, OrderInv, LengthInv, Running
  <2> QED
    BY <2>1, <2>2, EmptyPipe DEF OrderInv, LengthInv, PipeInv, LostInv, Lost
<1> QED
  BY <1>1, <1>2, <1>3, <1>4

-----------------------------------------------------------------------------
(* The answers of a step: of the request under way, or of none.            *)
LEMMA AnswersNames == \A i \in DOMAIN Answers : Answers[i].by = 0 \/ Answers[i].by = current.by
<1> DEFINE answer == [by |-> current.by, req |-> current.req,
                      ok |-> IsCall(current.req) /\ ~failed, facts |-> got]
<1>1. answer.by = current.by /\ NullAnswer.by = 0
  BY DEF NullAnswer
<1>2. Answers = IF ExpectsAnswer(current.req) THEN <<answer>>
                ELSE IF ExpectsNull(current.req) THEN <<NullAnswer>> ELSE << >>
  BY Zenon DEF Answers
<1> HIDE DEF answer
<1> QED
  BY <1>1, <1>2

LEMMA NewAnswers ==
    ASSUME StoreInv, CallInv, ReplyInv, [Next]_vars
    PROVE  /\ \A k \in DOMAIN out' : \/ k \in DOMAIN out /\ out'[k] = out[k]
                                     \/ out'[k].by = 0
                                     \/ phase = "serve" /\ out'[k].by = current.by
           /\ phase' = "serve" => out' = out
<1>1. CASE out' = out
  BY <1>1
<1>2. CASE out' = Append(out, NullAnswer)
  <2>1. \A k \in DOMAIN out' : (k \in DOMAIN out /\ out'[k] = out[k]) \/ out'[k] = NullAnswer
    BY <1>2 DEF ReplyInv
  <2>2. NullAnswer.by = 0
    BY DEF NullAnswer
  <2>3. phase' = "serve" => out' = out
    BY DEF Next, Serving, vars, ReadLine, ReadPayload, Begin, BadJson, ReadError, DoWrite, FailWrite, Reply, Exit,
           Send, Hangup, ReplyFails, Crash, Restart, Vanish
  <2> QED
    BY <2>1, <2>2, <2>3
<1>3. CASE Reply /\ out' = out \o Answers
  <2>1. phase = "serve" /\ phase' = "line"
    BY <1>3 DEF Reply
  <2>2. Answers \in Seq(Replies)
    BY <2>1, AnswersReply
  <2>3. \A k \in DOMAIN out' : \/ k \in DOMAIN out /\ out'[k] = out[k]
                               \/ \E i \in DOMAIN Answers : out'[k] = Answers[i]
    BY <1>3, <2>2, JoinedItems DEF ReplyInv
  <2>4. \A i \in DOMAIN Answers : Answers[i].by = 0 \/ Answers[i].by = current.by
    BY AnswersNames
  <2> QED
    BY <2>1, <2>3, <2>4
<1> QED
  BY <1>1, <1>2, <1>3, OutSteps

LEMMA TurnOthers ==
    ASSUME FrameInv, StoreInv, CallInv, ReplyInv, OrderInv, [Next]_vars, sends' = sends, PipeInv',
           \A m : After(stdin, m) => After(stdin', m)
    PROVE  TurnInv'
<1>1. sends \in Nat /\ After(stdin', 0)
  BY DEF FrameInv, PipeInv, Numbered, After
<1>2. /\ \A k \in DOMAIN out' : \/ k \in DOMAIN out /\ out'[k] = out[k]
                                \/ out'[k].by = 0
                                \/ phase = "serve" /\ out'[k].by = current.by
      /\ phase' = "serve" => out' = out
  BY NewAnswers
<1>3. \A k \in DOMAIN out' : out'[k].by \in Nat /\ out'[k].by <= sends' /\ After(stdin', out'[k].by)
  BY <1>1, <1>2 DEF OrderInv, TurnInv
<1>4. CASE phase' # "serve"
  BY <1>3, <1>4 DEF TurnInv
<1>5. CASE phase' = "serve" /\ phase = "serve"
  <2>1. current' = current
    BY <1>5 DEF Next, Serving, vars, ReadLine, ReadPayload, DoWrite, FailWrite, Reply, Exit,
           Send, Hangup, ReplyFails, Crash, Restart, Vanish, Running, call
  <2> QED
    BY <1>2, <1>3, <1>5, <2>1 DEF OrderInv, TurnInv
<1>6. CASE phase' = "serve" /\ phase # "serve"
  <2>1. phase = "payload" /\ stdin # << >> /\ current' = stdin[1] /\ Consume(1)
    BY <1>6 DEF Next, Serving, vars, ReadLine, ReadError, ReadPayload, Begin, BadJson, DoWrite, FailWrite, Reply, Exit,
           Send, Hangup, ReplyFails, Crash, Restart, Vanish, Running, reader
  <2>2. stdin[1].type = "payload" /\ 1 \in DOMAIN stdin /\ Len(stdin) \in Nat /\ 1 <= Len(stdin) /\ DOMAIN stdin = 1..Len(stdin)
    BY <2>1, PipeTokens DEF FrameInv
  <2>3. current'.by \in Nat /\ 0 < current'.by /\ current'.by <= sends'
    BY <2>1, <2>2, PipeTokens DEF OrderInv, PipeInv, Numbered
  <2>4. After(stdin', current'.by)
    <3>1. Shifted(stdin, stdin', 1)
      BY <2>1, <2>2, ConsumedShifted
    <3>2. \A i \in DOMAIN stdin' : i + 1 \in DOMAIN stdin /\ stdin'[i] = stdin[i + 1] /\ 1 < i + 1
      BY <3>1 DEF Shifted
    <3> QED
      BY <2>1, <2>2, <3>2 DEF OrderInv, PipeInv, Numbered, After
  <2>5. \A k \in DOMAIN out : out[k].by < current'.by
    BY <2>1, <2>2 DEF OrderInv, TurnInv, After
  <2> QED
    BY <1>2, <1>3, <2>3, <2>4, <2>5 DEF TurnInv
<1> QED
  BY <1>4, <1>5, <1>6

LEMMA OrderStep ==
    FrameInv /\ StoreInv /\ CallInv /\ ReplyInv /\ OrderInv /\ [Next]_vars => OrderInv'
<1> SUFFICES ASSUME FrameInv, StoreInv, CallInv, ReplyInv, OrderInv, [Next]_vars PROVE OrderInv'
  OBVIOUS
<1>1. CASE Send \/ Hangup
  BY <1>1, OrderSend, OrderHangup
<1>2. CASE ~(Send \/ Hangup)
  <2>1. /\ LengthInv' /\ PipeInv' /\ LostInv'
        /\ \A m : After(stdin, m) => After(stdin', m)
    BY <1>2, LostReadLine, LostReadPayload, LostOthers DEF Next, Serving
  <2>2. sends' = sends
    BY <1>2 DEF Next, Serving, vars, ReadLine, ReadPayload, DoWrite, FailWrite, Reply, Exit,
                ReplyFails, Crash, Restart, bounds
  <2> QED
    BY <2>1, <2>2, TurnOthers DEF OrderInv
<1> QED
  BY <1>1, <1>2

LEMMA OrderInit == Init => OrderInv
<1> SUFFICES ASSUME Init PROVE OrderInv
  OBVIOUS
<1>1. /\ stdin = << >> /\ length = "none" /\ phase = "line" /\ out = << >> /\ sends = 0 /\ misframed = FALSE
  BY DEF Init
<1>2. LengthInv /\ LostInv /\ PipeInv
  BY <1>1, EmptyPipe, BoundsAssumption DEF LengthInv, PipeInv, LostInv, Lost
<1>3. TurnInv
  BY <1>1, EmptyPipe DEF TurnInv
<1> QED
  BY <1>2, <1>3 DEF OrderInv

-----------------------------------------------------------------------------
(* What SuccessIsStored says of an answer. *)
Honest(a, kept, unsure, ends) ==
    a.ok => /\ \A f \in a.facts : f \in kept \/ (f \in unsure /\ f.by # a.by)
            /\ \A j \in DOMAIN Writes(a.req) : Settled(Writes(a.req)[j], a.by, a.facts, ends)

LEMMA HonestAnswers == SuccessIsStored <=> \A i \in DOMAIN out : Honest(out[i], Kept, doubt, KeptEnds)
  BY DEF SuccessIsStored, Honest, Settled

(* What is in doubt was written by a request that was read, and if it is   *)
(* the one under way, this has failed.                                     *)
Suspect(b) ==
    /\ b \in Nat /\ b <= sends /\ After(stdin, b)
    /\ phase = "serve" => b < current.by \/ (b = current.by /\ failed)
DoubtInv ==
    /\ \A f \in doubt : Suspect(f.by)
    /\ \A b \in doubtful : Suspect(b)

LEMMA NewerFrames ==
    ASSUME FrameInv, OrderInv, [Next]_vars, NEW m \in Nat, m <= sends, After(stdin, m)
    PROVE  After(stdin', m)
<1>1. CASE Send
  <2>1. PICK req \in Requests, kind \in FrameKinds :
             LET intact == kind = "good" /\ ~misframed
             IN  /\ Longer(stdin, stdin', 3)
                 /\ stdin'[Len(stdin) + 1] = Header(kind)
                 /\ stdin'[Len(stdin) + 2] = Blank
                 /\ stdin'[Len(stdin) + 3] = Payload(kind, req, sends + 1, intact)
                 /\ misframed' = (misframed \/ Unusable(kind))
    BY <1>1, SentFrame
  <2> DEFINE n == Len(stdin)
  <2>2. /\ stdin'[n + 1].type = "header" /\ stdin'[n + 2].type = "blank" /\ stdin'[n + 3].by = sends + 1
    BY <2>1, TokenFields
  <2>3. /\ n \in Nat /\ DOMAIN stdin = 1..n /\ DOMAIN stdin' = 1..n + 3 /\ \A i \in 1..n : stdin'[i] = stdin[i]
        /\ sends \in Nat
    BY <2>1 DEF Longer, FrameInv
  <2> HIDE DEF n
  <2>4. \A i \in DOMAIN stdin' : i \in 1..n \/ i = n + 1 \/ i = n + 2 \/ i = n + 3
    BY <2>3
  <2> QED
    BY <2>2, <2>3, <2>4 DEF After
<1>2. CASE Hangup
  <2>1. CASE stdin' = stdin
    BY <2>1
  <2>2. CASE /\ Longer(stdin, stdin', 2)
             /\ stdin'[Len(stdin) + 1] = Header("good")
             /\ stdin'[Len(stdin) + 2] = Blank
    <3> DEFINE n == Len(stdin)
    <3>1. stdin'[n + 1].type = "header" /\ stdin'[n + 2].type = "blank"
      BY <2>2, TokenFields
    <3>2. /\ n \in Nat /\ DOMAIN stdin = 1..n /\ DOMAIN stdin' = 1..n + 2 /\ \A i \in 1..n : stdin'[i] = stdin[i]
      BY <2>2 DEF Longer
    <3> HIDE DEF n
    <3>3. \A i \in DOMAIN stdin' : i \in 1..n \/ i = n + 1 \/ i = n + 2
      BY <3>2
    <3> QED
      BY <3>1, <3>2, <3>3 DEF After
  <2> QED
    BY <1>2, <2>1, <2>2, CutFrame
<1>3. CASE ~(Send \/ Hangup)
  BY <1>3, LostReadLine, LostReadPayload, LostOthers DEF Next, Serving
<1> QED
  BY <1>1, <1>2, <1>3

(* Facts and ends leave the database only when they are in doubt, and come *)
(* to be so only by the call under way.                                    *)
LEMMA DoubtGrows ==
    ASSUME [Next]_vars
    PROVE  /\ doubt \subseteq doubt' /\ Kept \subseteq store' /\ KeptEnds \subseteq ended'
           /\ \A f \in doubt' : f \in doubt \/ (phase = "serve" /\ f.by = current.by)
           /\ \A b \in doubtful' : b \in doubtful \/ (phase = "serve" /\ b = current.by)
           /\ phase' = "serve" /\ ~failed' => doubt' = doubt /\ doubtful' = doubtful
<1>1. CASE UNCHANGED <<memory, doubts>>
  BY <1>1 DEF memory, doubts, Kept, KeptEnds
<1>2. CASE DoWrite
  BY <1>2 DEF DoWrite, WriteDone, memory, doubts, Kept, KeptEnds
<1>3. CASE Writing /\ InDoubt /\ UNCHANGED memory /\ (phase' # "serve" \/ failed')
  <2>1. \A w : Stored(w).by = current.by
    BY DEF Stored
  <2> QED
    BY <1>3, <2>1 DEF Writing, InDoubt, memory, Kept, KeptEnds
<1>4. CASE Restart
  BY <1>4 DEF Restart, doubts, Kept, KeptEnds
<1>5. CASE FailWrite
  BY <1>3, <1>5 DEF FailWrite, AfterFailure
<1>6. CASE Crash
  <2>1. UNCHANGED memory /\ phase' # "serve"
    BY <1>6 DEF Crash, Vanish
  <2> QED
    BY <1>1, <1>3, <1>6, <2>1 DEF Crash
<1> QED
  BY <1>1, <1>2, <1>4, <1>5, <1>6
     DEF Next, Serving, vars, ReadLine, ReadPayload, Reply, Exit, Send, Hangup, ReplyFails

-----------------------------------------------------------------------------
(* What waits in the pipe.                                                 *)
Sent(s) == {s[i].by : i \in {j \in DOMAIN s : s[j].intact /\ ExpectsAnswer(s[j].req)}}
Served == IF phase = "serve" /\ ExpectsAnswer(current.req) THEN {current.by} ELSE {}

LEMMA WaitingIs == Waiting = Served \cup Sent(stdin) /\ Waiting' = Served' \cup Sent(stdin')
  BY DEF Waiting, Served, Sent

LEMMA SentShifted ==
    ASSUME NEW s, NEW t, NEW n, Shifted(s, t, n), \A i \in 1..n : ~s[i].intact
    PROVE  Sent(t) = Sent(s)
<1>1. \A i \in DOMAIN t : i + n \in DOMAIN s /\ t[i] = s[i + n]
  BY ShiftedItem
<1>2. \A j \in DOMAIN s : s[j].intact => j - n \in DOMAIN t /\ t[j - n] = s[j]
  <2>1. \A j \in DOMAIN s : j \in 1..n \/ j > n
    BY DEF Shifted
  <2> QED
    BY <2>1, ShiftedItem
<1>3. Sent(t) \subseteq Sent(s)
  BY <1>1 DEF Sent
<1>4. Sent(s) \subseteq Sent(t)
  BY <1>2 DEF Sent
<1> QED
  BY <1>3, <1>4

LEMMA SentHead ==
    ASSUME NEW s, NEW t, Shifted(s, t, 1), 1 \in DOMAIN s, s[1].intact
    PROVE  Sent(s) = (IF ExpectsAnswer(s[1].req) THEN {s[1].by} ELSE {}) \cup Sent(t)
<1>1. \A i \in DOMAIN t : i + 1 \in DOMAIN s /\ t[i] = s[i + 1]
  BY ShiftedItem
<1>2. \A j \in DOMAIN s : j = 1 \/ (j - 1 \in DOMAIN t /\ t[j - 1] = s[j])
  <2>1. \A j \in DOMAIN s : j = 1 \/ j > 1
    BY DEF Shifted
  <2> QED
    BY <2>1, ShiftedItem
<1>3. Sent(t) \subseteq Sent(s)
  BY <1>1 DEF Sent
<1>4. ExpectsAnswer(s[1].req) => s[1].by \in Sent(s)
  BY DEF Sent
<1>5. ASSUME NEW id \in Sent(s) PROVE id \in (IF ExpectsAnswer(s[1].req) THEN {s[1].by} ELSE {}) \cup Sent(t)
  <2>1. PICK j \in DOMAIN s : s[j].intact /\ ExpectsAnswer(s[j].req) /\ id = s[j].by
    BY DEF Sent
  <2>2. CASE j = 1
    BY <2>1, <2>2
  <2>3. CASE j - 1 \in DOMAIN t /\ t[j - 1] = s[j]
    BY <2>1, <2>3 DEF Sent
  <2> QED
    BY <1>2, <2>2, <2>3
<1> QED
  BY <1>3, <1>4, <1>5

LEMMA SentLonger ==
    ASSUME NEW s, NEW t, NEW n, Longer(s, t, n), \A i \in 1..Len(t) : i > Len(s) => ~t[i].intact
    PROVE  Sent(t) = Sent(s)
<1>1. \A i \in DOMAIN t : i \in DOMAIN s \/ ~t[i].intact
  BY DEF Longer
<1>2. \A i \in DOMAIN s : i \in DOMAIN t /\ t[i] = s[i]
  BY DEF Longer
<1> QED
  BY <1>1, <1>2 DEF Sent

LEMMA EmptySent == Sent(<< >>) = {}
<1> DEFINE e == << >>
<1>1. DOMAIN e = {}
  BY EmptyPipe
<1> HIDE DEF e
<1>2. Sent(e) = {}
  BY <1>1 DEF Sent
<1> QED
  BY <1>2 DEF e

LEMMA WaitingOrder ==
    ASSUME FrameInv, OrderInv
    PROVE  /\ \A id \in Waiting : id \in Nat /\ id <= sends
           /\ phase = "serve" => \A id \in Sent(stdin) : current.by < id
<1>1. \A id \in Sent(stdin) : \E i \in DOMAIN stdin : stdin[i].type = "payload" /\ id = stdin[i].by /\ id \in Nat
  BY PipeTokens DEF Sent
<1>2. \A id \in Sent(stdin) : id \in Nat /\ id <= sends /\ (phase = "serve" => current.by < id)
  BY <1>1 DEF OrderInv, PipeInv, Numbered, TurnInv, After
<1>3. \A id \in Served : id \in Nat /\ id <= sends
  BY DEF Served, OrderInv, TurnInv
<1> QED
  BY <1>2, <1>3, WaitingIs

LEMMA ConnectionIs ==
    /\ phase = "exited" => Connection = "closed"
    /\ phase = "killed" => Connection = "dead"
    /\ Running => Connection = IF misframed THEN "deaf" ELSE "up"
  BY DEF Connection, Running

LEMMA AnsweredAppend ==
    ASSUME NEW S, NEW s \in Seq(S), NEW e \in S
    PROVE  [i \in DOMAIN Append(s, e) |-> Append(s, e)[i].by] = Append([i \in DOMAIN s |-> s[i].by], e.by)
<1> DEFINE t == Append(s, e)
           b == [i \in DOMAIN s |-> s[i].by]
<1>1. Len(s) \in Nat /\ DOMAIN s = 1..Len(s) /\ DOMAIN t = 1..Len(s) + 1
      /\ t[Len(s) + 1] = e /\ \A i \in 1..Len(s) : t[i] = s[i]
  OBVIOUS
<1>2. b \in Seq({s[i].by : i \in DOMAIN s} \cup {e.by}) /\ Len(b) = Len(s) /\ \A i \in 1..Len(s) : b[i] = s[i].by
  BY <1>1
<1> DEFINE c == Append(b, e.by)
<1>3. DOMAIN c = 1..Len(s) + 1 /\ c[Len(s) + 1] = e.by /\ \A i \in 1..Len(s) : c[i] = s[i].by
  <2>1. e.by \in {s[i].by : i \in DOMAIN s} \cup {e.by}
    OBVIOUS
  <2> HIDE DEF b
  <2> QED
    BY <1>1, <1>2, <2>1
<1>4. c = [i \in DOMAIN c |-> c[i]]
  <2>1. c \in Seq({s[i].by : i \in DOMAIN s} \cup {e.by})
    <3> HIDE DEF b
    <3> QED
      BY <1>2
  <2> HIDE DEF c
  <2> QED
    BY <2>1
<1> HIDE DEF t, c, b
<1>5. \A i \in 1..Len(s) + 1 : t[i].by = c[i]
  <2>1. \A i \in 1..Len(s) + 1 : i \in 1..Len(s) \/ i = Len(s) + 1
    BY <1>1
  <2> QED
    BY <1>1, <1>3, <2>1
<1>6. [i \in DOMAIN t |-> t[i].by] = c
  BY <1>1, <1>3, <1>4, <1>5
<1> QED
  BY <1>6 DEF t, c, b

(* What a step adds to the answers, as the service sees it.                *)
LEMMA Complains ==
    ReplyInv /\ out' = Append(out, NullAnswer) => Answered' = Append(Answered, 0)
<1> SUFFICES ASSUME ReplyInv, out' = Append(out, NullAnswer) PROVE Answered' = Append(Answered, 0)
  OBVIOUS
<1>1. NullAnswer \in Replies /\ NullAnswer.by = 0
  BY DEF NullAnswer, Replies
<1> QED
  BY <1>1, AnsweredAppend DEF Answered, ReplyInv

LEMMA ReplyAnswers ==
    ASSUME StoreInv, CallInv, ReplyInv, Reply
    PROVE  /\ ExpectsAnswer(current.req) => Answered' = Append(Answered, current.by)
           /\ ~ExpectsAnswer(current.req) => Answered' = Answered \/ Answered' = Append(Answered, 0)
<1> DEFINE answer == [by |-> current.by, req |-> current.req,
                      ok |-> IsCall(current.req) /\ ~failed, facts |-> got]
<1>1. answer.by = current.by
  OBVIOUS
<1>2. out' = out \o Answers /\ Answers \in Seq(Replies) /\ out \in Seq(Replies)
  BY AnswersReply DEF Reply, ReplyInv
<1>3. Answers = IF ExpectsAnswer(current.req) THEN <<answer>>
                ELSE IF ExpectsNull(current.req) THEN <<NullAnswer>> ELSE << >>
  BY Zenon DEF Answers
<1> HIDE DEF answer
<1>4. CASE ExpectsAnswer(current.req)
  <2>1. Answers = <<answer>>
    BY <1>3, <1>4
  <2>2. answer \in Replies
    BY <1>2, <2>1
  <2>3. out' = Append(out, answer)
    BY <1>2, <2>1, <2>2
  <2> QED
    BY <1>1, <1>2, <1>4, <2>2, <2>3, AnsweredAppend DEF Answered
<1>5. CASE ~ExpectsAnswer(current.req) /\ ExpectsNull(current.req)
  <2>1. Answers = <<NullAnswer>>
    BY <1>3, <1>5
  <2>2. NullAnswer \in Replies
    BY <1>2, <2>1
  <2>3. out' = Append(out, NullAnswer)
    BY <1>2, <2>1, <2>2
  <2> QED
    BY <1>5, <2>3, Complains
<1>6. CASE ~ExpectsAnswer(current.req) /\ ~ExpectsNull(current.req)
  <2>1. Answers = << >>
    BY <1>3, <1>6
  <2>2. out' = out
    BY <1>2, <2>1
  <2> QED
    BY <1>6, <2>2 DEF Answered
<1> QED
  BY <1>4, <1>5, <1>6

-----------------------------------------------------------------------------
(* A step the service does not see, or the complaint about a message.      *)
LEMMA ServiceSilent ==
    ASSUME Running, Running', Waiting' = Waiting, misframed' = misframed,
           Answered' = Answered \/ Answered' = Append(Answered, 0)
    PROVE  Service!Next \/ UNCHANGED Service!vars
<1>1. Connection' = Connection /\ Connection \in {"up", "deaf"}
  BY ConnectionIs, ConnectionIs' DEF Connection, Running
<1>2. CASE Answered' = Answered
  BY <1>1, <1>2 DEF Service!vars
<1>3. CASE Answered' = Append(Answered, 0)
  BY <1>1, <1>3 DEF Service!Next, Service!Complain, Service!Open
<1> QED
  BY <1>2, <1>3

LEMMA ServiceSend ==
    ASSUME FrameInv, OrderInv, Send
    PROVE  Service!Next \/ UNCHANGED Service!vars
<1> DEFINE n == Len(stdin)
<1>1. PICK req \in Requests, kind \in FrameKinds :
             LET intact == kind = "good" /\ ~misframed
             IN  /\ Longer(stdin, stdin', 3)
                 /\ stdin'[n + 1] = Header(kind)
                 /\ stdin'[n + 2] = Blank
                 /\ stdin'[n + 3] = Payload(kind, req, sends + 1, intact)
                 /\ misframed' = (misframed \/ Unusable(kind))
  BY SentFrame
<1> DEFINE intact == kind = "good" /\ ~misframed
<1>2. /\ ~stdin'[n + 1].intact /\ ~stdin'[n + 2].intact
      /\ (stdin'[n + 3].intact <=> intact) /\ stdin'[n + 3].by = sends + 1 /\ stdin'[n + 3].req = req
  <2>1. stdin'[n + 1] = Header(kind) /\ stdin'[n + 2] = Blank /\ stdin'[n + 3] = Payload(kind, req, sends + 1, intact)
    BY <1>1
  <2> HIDE DEF intact
  <2> DEFINE payload == Payload(kind, req, sends + 1, intact)
  <2>0. payload.intact = intact /\ payload.by = sends + 1 /\ payload.req = req
    BY DEF Payload
  <2> HIDE DEF payload
  <2>2. stdin'[n + 3].intact = intact
    BY <2>0, <2>1, Zenon DEF payload
  <2>3. stdin'[n + 3].intact <=> intact
    BY <2>2, Zenon
  <2>4. ~stdin'[n + 1].intact /\ ~stdin'[n + 2].intact /\ stdin'[n + 3].by = sends + 1 /\ stdin'[n + 3].req = req
    BY <2>0, <2>1, TokenFields DEF payload
  <2> QED
    BY <2>3, <2>4, Zenon
<1>3. /\ n \in Nat /\ DOMAIN stdin = 1..n /\ DOMAIN stdin' = 1..n + 3 /\ Len(stdin') = n + 3
      /\ \A i \in 1..n : stdin'[i] = stdin[i]
  BY <1>1 DEF Longer
<1>4. \A i \in DOMAIN stdin' : i \in 1..n \/ i = n + 1 \/ i = n + 2 \/ i = n + 3
  BY <1>3
<1>5. /\ Running /\ Running' /\ sends < MaxSends /\ sends \in Nat
      /\ Served' = Served /\ Answered' = Answered /\ phase' = phase
  BY DEF Send, reader, call, FrameInv, Running, Served, Answered
<1> HIDE DEF n
<1>6. CASE ~intact
  <2>1. Sent(stdin') = Sent(stdin)
    <3>1. \A i \in 1..Len(stdin') : i > Len(stdin) => ~stdin'[i].intact
      BY <1>2, <1>3, <1>4, <1>6 DEF n
    <3> QED
      BY <1>1, <3>1, SentLonger
  <2>2. Waiting' = Waiting
    BY <1>5, <2>1, WaitingIs
  <2>3. CASE misframed' = misframed
    BY <1>5, <2>2, <2>3, ServiceSilent
  <2>4. CASE misframed' # misframed
    <3>1. ~misframed /\ misframed'
      BY <1>1, <2>4 DEF FrameInv
    <3>2. Connection = "up" /\ Connection' = "deaf"
      BY <1>5, <3>1, ConnectionIs, ConnectionIs' DEF Connection, Running
    <3> QED
      BY <1>5, <2>2, <3>2 DEF Service!Next, Service!Break
  <2> QED
    BY <2>3, <2>4
<1>7. CASE intact /\ ~ExpectsAnswer(req)
  <2>1. \A i \in DOMAIN stdin' : i \in DOMAIN stdin \/ ~stdin'[i].intact \/ ~ExpectsAnswer(stdin'[i].req)
    BY <1>2, <1>3, <1>4, <1>7
  <2>2. \A i \in DOMAIN stdin : i \in DOMAIN stdin' /\ stdin'[i] = stdin[i]
    BY <1>3
  <2>3. Sent(stdin') = Sent(stdin)
    BY <2>1, <2>2 DEF Sent
  <2>4. Waiting' = Waiting
    BY <1>5, <2>3, WaitingIs
  <2>5. misframed' = misframed
    BY <1>1, <1>7 DEF Unusable, FrameInv
  <2> QED
    BY <1>5, <2>4, <2>5, ServiceSilent
<1>8. CASE intact /\ ExpectsAnswer(req)
  <2>1. ~misframed /\ ~misframed'
    BY <1>1, <1>8 DEF Unusable
  <2>2. Connection = "up" /\ Connection' = "up"
    BY <1>5, <2>1, ConnectionIs, ConnectionIs' DEF Connection, Running
  <2>3. Sent(stdin') = Sent(stdin) \cup {sends + 1}
    <3>1. \A i \in DOMAIN stdin : i \in DOMAIN stdin' /\ stdin'[i] = stdin[i]
      BY <1>3
    <3>2. n + 3 \in DOMAIN stdin' /\ stdin'[n + 3].intact /\ ExpectsAnswer(stdin'[n + 3].req)
      BY <1>2, <1>3, <1>8
    <3>3. \A i \in DOMAIN stdin' : i \in DOMAIN stdin \/ ~stdin'[i].intact \/ stdin'[i].by = sends + 1
      BY <1>2, <1>3, <1>4
    <3> QED
      BY <1>2, <3>1, <3>2, <3>3 DEF Sent
  <2>4. Waiting' = Waiting \cup {sends + 1}
    BY <1>5, <2>3, WaitingIs
  <2>5. \A other \in Waiting : other < sends + 1
    BY <1>5, WaitingOrder
  <2>6. \A i \in DOMAIN Answered : Answered[i] < sends + 1
    BY <1>5 DEF Answered, OrderInv, TurnInv
  <2>7. sends + 1 \in Ids
    BY <1>5, BoundsAssumption DEF Ids
  <2>8. Service!Submit
    BY <1>5, <2>2, <2>4, <2>5, <2>6, <2>7 DEF Service!Submit
  <2> QED
    BY <2>8 DEF Service!Next
<1> QED
  BY <1>6, <1>7, <1>8

LEMMA ServiceHangup ==
    ASSUME FrameInv, Hangup
    PROVE  Service!Next \/ UNCHANGED Service!vars
<1>1. /\ Running /\ Running' /\ misframed' = misframed /\ Served' = Served /\ Answered' = Answered
  BY DEF Hangup, reader, call, Running, Served, Answered
<1>2. Sent(stdin') = Sent(stdin)
  <2>1. CASE stdin' = stdin
    BY <2>1
  <2>2. CASE /\ Longer(stdin, stdin', 2)
             /\ stdin'[Len(stdin) + 1] = Header("good")
             /\ stdin'[Len(stdin) + 2] = Blank
    <3>1. ~stdin'[Len(stdin) + 1].intact /\ ~stdin'[Len(stdin) + 2].intact
      BY <2>2, TokenFields
    <3>2. \A i \in 1..Len(stdin') : i > Len(stdin) => i = Len(stdin) + 1 \/ i = Len(stdin) + 2
      BY <2>2 DEF Longer
    <3> QED
      BY <2>2, <3>1, <3>2, SentLonger
  <2> QED
    BY <2>1, <2>2, CutFrame
<1> QED
  BY <1>1, <1>2, WaitingIs, ServiceSilent

LEMMA ServiceReadLine ==
    ASSUME FrameInv, OrderInv, ReplyInv, ReadLine
    PROVE  Service!Next \/ UNCHANGED Service!vars
<1>1. /\ phase = "line" /\ phase' \in {"line", "payload"} /\ misframed' = misframed
      /\ out' = out \/ out' = Append(out, NullAnswer)
  BY DEF ReadLine, ReadError, reader
<1>2. Answered' = Answered \/ Answered' = Append(Answered, 0)
  BY <1>1, Complains DEF Answered
<1>3. Running /\ Running' /\ Served = {} /\ Served' = {}
  BY <1>1 DEF Running, Served
<1> DEFINE n == LineLength
<1>4. /\ stdin # << >> /\ Consume(n) /\ n \in {1, 2} /\ n <= Len(stdin)
      /\ stdin[1].type # "payload" => n = 1
  <2>1. stdin # << >> /\ Consume(n) /\ Len(stdin) \in Nat /\ Len(stdin) # 0
    BY PipeTokens DEF ReadLine, LineComplete
  <2> QED
    BY <2>1 DEF LineLength
<1> HIDE DEF n
<1>5. Shifted(stdin, stdin', n)
  BY <1>4, ConsumedShifted
<1>6. \A i \in 1..n : ~stdin[i].intact
  <2>1. CASE stdin[1].type = "payload"
    <3>1. Lost
      BY <1>1, <1>4, <2>1 DEF Lost
    <3> QED
      BY <1>4, <1>5, <3>1 DEF OrderInv, LostInv, Shifted
  <2>2. CASE stdin[1].type # "payload"
    BY <1>4, <1>5, <2>2, PipeTokens DEF Shifted
  <2> QED
    BY <2>1, <2>2
<1>7. Waiting' = Waiting
  BY <1>3, <1>5, <1>6, SentShifted, WaitingIs
<1> QED
  BY <1>1, <1>2, <1>3, <1>7, ServiceSilent

LEMMA ServiceReadPayload ==
    ASSUME FrameInv, OrderInv, ReplyInv, ReadPayload
    PROVE  Service!Next \/ UNCHANGED Service!vars
<1>1. /\ phase = "payload" /\ phase' \in {"line", "serve"} /\ misframed' = misframed
      /\ out' = out \/ out' = Append(out, NullAnswer)
  BY DEF ReadPayload, Begin, BadJson, ReadError
<1>2. Answered' = Answered \/ Answered' = Append(Answered, 0)
  BY <1>1, Complains DEF Answered
<1>3. Running /\ Running' /\ Served = {}
  BY <1>1 DEF Running, Served
<1>4. Waiting' = Waiting
  <2>1. CASE stdin # << >> /\ Consume(1)
    <3>1. Len(stdin) \in Nat /\ 1 <= Len(stdin) /\ 1 \in DOMAIN stdin
      BY <2>1, PipeTokens
    <3>2. Shifted(stdin, stdin', 1)
      BY <2>1, <3>1, ConsumedShifted
    <3>3. CASE stdin[1].kind = "good" /\ Begin(stdin[1])
      <4>1. stdin[1].intact
        BY <1>1, <2>1, <3>3, ServesIntact
      <4>2. Served' = IF ExpectsAnswer(stdin[1].req) THEN {stdin[1].by} ELSE {}
        BY <3>3 DEF Served, Begin, ExpectsAnswer
      <4> QED
        BY <1>3, <3>1, <3>2, <4>1, <4>2, SentHead, WaitingIs
    <3>4. CASE stdin[1].kind = "notjson" /\ BadJson
      <4>1. ~stdin[1].intact
        BY <3>1, <3>4 DEF OrderInv, PipeInv, Marked
      <4>2. Served' = {}
        BY <3>4 DEF Served, BadJson, ReadError
      <4>3. Sent(stdin') = Sent(stdin)
        BY <3>2, <4>1, SentShifted
      <4> QED
        BY <1>3, <4>2, <4>3, WaitingIs
    <3> QED
      BY <2>1, <3>3, <3>4 DEF ReadPayload
  <2>2. CASE stdin = << >> /\ UNCHANGED stdin
    <3>1. Served' = {}
      BY <2>2 DEF ReadPayload, ReadError, Served
    <3> QED
      BY <1>3, <2>2, <3>1, WaitingIs
  <2> QED
    BY <2>1, <2>2 DEF ReadPayload
<1> QED
  BY <1>1, <1>2, <1>3, <1>4, ServiceSilent

LEMMA ServiceReply ==
    ASSUME FrameInv, StoreInv, CallInv, ReplyInv, OrderInv, Reply
    PROVE  Service!Next \/ UNCHANGED Service!vars
<1>1. /\ phase = "serve" /\ phase' = "line" /\ stdin' = stdin /\ misframed' = misframed
  BY DEF Reply
<1>2. Running /\ Running' /\ Served' = {} /\ Waiting' = Sent(stdin)
  BY <1>1, WaitingIs DEF Running, Served
<1>3. CASE ~ExpectsAnswer(current.req)
  <2>1. Served = {}
    BY <1>3 DEF Served
  <2> QED
    BY <1>1, <1>2, <1>3, <2>1, WaitingIs, ReplyAnswers, ServiceSilent
<1>4. CASE ExpectsAnswer(current.req)
  <2>1. Waiting = {current.by} \cup Sent(stdin)
    BY <1>1, <1>4, WaitingIs DEF Served
  <2>2. \A id \in Sent(stdin) : current.by < id
    BY <1>1, WaitingOrder
  <2>3. \A id \in Waiting : id \in Nat
    BY WaitingOrder
  <2>4. \A other \in Waiting : current.by <= other
    BY <2>1, <2>2, <2>3
  <2>5. Waiting' = Waiting \ {current.by}
    <3>1. current.by \notin Sent(stdin)
      BY <2>1, <2>2, <2>3
    <3> QED
      BY <1>2, <2>1, <3>1
  <2>6. Connection' = Connection /\ Connection \in {"up", "deaf"}
    BY <1>1, <1>2, ConnectionIs, ConnectionIs' DEF Connection, Running
  <2>7. Answered' = Append(Answered, current.by)
    BY <1>4, ReplyAnswers
  <2>8. Service!Serve
    BY <1>2, <2>1, <2>4, <2>5, <2>6, <2>7 DEF Service!Serve, Service!Open
  <2> QED
    BY <2>8 DEF Service!Next
<1> QED
  BY <1>3, <1>4

LEMMA ServiceEnds ==
    ASSUME FrameInv, Exit \/ ReplyFails \/ Crash
    PROVE  Service!Next
<1>1. Running /\ ~Running' /\ Answered' = Answered
  BY DEF Exit, ReplyFails, Crash, Vanish, Running, Answered
<1>2. Connection \in {"up", "deaf"}
  BY <1>1, ConnectionIs
<1>3. CASE Exit
  <2>1. Waiting = {}
    BY <1>3, WaitingIs, EmptySent DEF Exit, Served
  <2>2. Connection' = "closed"
    BY <1>3 DEF Exit, Connection
  <2> QED
    BY <1>1, <1>2, <2>1, <2>2 DEF Service!Next, Service!Close, Service!Open
<1>4. CASE ReplyFails \/ Crash
  <2>1. Connection' = "dead"
    BY <1>4 DEF ReplyFails, Crash, Vanish, Connection
  <2> QED
    BY <1>1, <1>2, <2>1 DEF Service!Next, Service!Die, Service!Open
<1> QED
  BY <1>3, <1>4

LEMMA ServiceRestarts == FrameInv /\ Restart => Service!Next
<1> SUFFICES ASSUME FrameInv, Restart PROVE Service!Next
  OBVIOUS
<1>1. /\ ~Running /\ Running' /\ Answered' = Answered /\ stdin' = << >> /\ phase' = "line" /\ misframed' = FALSE
  BY DEF Restart, FrameInv, Running, Answered
<1>2. Waiting' = {}
  BY <1>1, WaitingIs, EmptySent DEF Served
<1>3. Connection \in {"closed", "dead"}
  BY <1>1 DEF Connection, Running, FrameInv
<1>4. Connection' = "up"
  BY <1>1 DEF Connection
<1> QED
  BY <1>1, <1>2, <1>3, <1>4 DEF Service!Next, Service!Restart, Service!Open

LEMMA ServiceStep ==
    FrameInv /\ StoreInv /\ CallInv /\ ReplyInv /\ OrderInv /\ [Next]_vars => [Service!Next]_Service!vars
<1> SUFFICES ASSUME FrameInv, StoreInv, CallInv, ReplyInv, OrderInv, [Next]_vars
             PROVE  Service!Next \/ UNCHANGED Service!vars
  OBVIOUS
<1>1. CASE DoWrite \/ FailWrite \/ UNCHANGED vars
  <2>1. UNCHANGED <<stdin, phase, current, out, misframed>>
    BY <1>1 DEF DoWrite, FailWrite, vars, reader, call
  <2>2. Waiting' = Waiting /\ Answered' = Answered /\ Connection' = Connection /\ (Running <=> Running')
    BY <2>1 DEF Waiting, Answered, Connection, Running
  <2> QED
    BY <2>2 DEF Service!vars
<1> QED
  BY <1>1, ServiceSend, ServiceHangup, ServiceReadLine, ServiceReadPayload, ServiceReply, ServiceEnds,
     ServiceRestarts DEF Next, Serving

LEMMA ReplyStep == StoreInv /\ CallInv /\ ReplyInv /\ [Next]_vars => ReplyInv'
<1> SUFFICES ASSUME StoreInv, CallInv, ReplyInv, [Next]_vars PROVE ReplyInv'
  OBVIOUS
<1>1. NullAnswer \in Replies
  BY DEF Replies, NullAnswer
<1>2. Reply => Answers \in Seq(Replies)
  BY AnswersReply DEF Reply
<1>3. CASE out' = out
  BY <1>3 DEF ReplyInv
<1>4. CASE out' = Append(out, NullAnswer)
  BY <1>1, <1>4 DEF ReplyInv
<1>5. CASE Reply /\ out' = out \o Answers
  BY <1>2, <1>5 DEF ReplyInv
<1> QED
  BY <1>3, <1>4, <1>5, OutSteps

LEMMA ServeSteps ==
    ASSUME FrameInv, [Next]_vars, phase' = "serve"
    PROVE  \/ phase = "serve" /\ current' = current /\ (failed => failed')
           \/ phase # "serve" /\ 1 \in DOMAIN stdin /\ stdin[1].type = "payload" /\ current' = stdin[1]
<1>1. stdin # << >> => 1 \in DOMAIN stdin
  BY PipeTokens DEF FrameInv
<1>2. CASE DoWrite
  BY <1>2 DEF DoWrite, Writing
<1>3. CASE FailWrite
  BY <1>3 DEF FailWrite, AfterFailure, Writing
<1>4. CASE phase # "serve" /\ stdin # << >> /\ stdin[1].type = "payload" /\ Begin(stdin[1])
  BY <1>1, <1>4 DEF Begin
<1>5. CASE phase = phase' /\ UNCHANGED call
  BY <1>5 DEF call
<1>6. ~Restart
  BY DEF Restart
<1> QED
  BY <1>2, <1>3, <1>4, <1>5, <1>6, OtherSteps

LEMMA DoubtStep ==
    ASSUME FrameInv, OrderInv, OrderInv', DoubtInv, [Next]_vars
    PROVE  DoubtInv'
<1>1. sends \in Nat /\ (sends' = sends \/ sends' = sends + 1)
  BY DEF FrameInv, Next, Serving, vars, ReadLine, ReadPayload, DoWrite, FailWrite, Reply, Exit, Send, Hangup,
         ReplyFails, Crash, Restart, bounds
<1>2. ASSUME NEW b, Suspect(b) PROVE Suspect(b)'
  <2>1. b \in Nat /\ b <= sends /\ After(stdin, b)
    BY <1>2 DEF Suspect
  <2>2. b <= sends' /\ After(stdin', b)
    BY <1>1, <2>1, NewerFrames
  <2>3. ASSUME phase' = "serve" PROVE b < current'.by \/ (b = current'.by /\ failed')
    <3>1. CASE phase = "serve" /\ current' = current /\ (failed => failed')
      BY <1>2, <3>1 DEF Suspect
    <3>2. CASE 1 \in DOMAIN stdin /\ stdin[1].type = "payload" /\ current' = stdin[1]
      BY <2>1, <3>2 DEF After
    <3> QED
      BY <2>3, <3>1, <3>2, ServeSteps
  <2> QED
    BY <2>1, <2>2, <2>3 DEF Suspect
<1>3. ASSUME NEW b, phase = "serve", b = current.by, ~(phase' = "serve" /\ ~failed') PROVE Suspect(b)'
  <2>1. b \in Nat /\ b <= sends /\ After(stdin, b)
    BY <1>3 DEF OrderInv, TurnInv
  <2>2. b <= sends' /\ After(stdin', b)
    BY <1>1, <2>1, NewerFrames
  <2>3. phase' = "serve" => b = current'.by /\ failed'
    BY <1>3, ServeSteps
  <2> QED
    BY <2>1, <2>2, <2>3 DEF Suspect
<1> QED
  BY <1>2, <1>3, DoubtGrows DEF DoubtInv

LEMMA ReplyHonest ==
    ASSUME StoreInv, CallInv, ProgressInv, DoubtInv, Reply
    PROVE  \A i \in DOMAIN Answers : Honest(Answers[i], Kept, doubt, KeptEnds)
<1> DEFINE ok == IsCall(current.req) /\ ~failed
           answer == [by |-> current.by, req |-> current.req, ok |-> ok, facts |-> got]
<1>1. phase = "serve" /\ todo = << >>
  BY DEF Reply
<1>2. ~\E w : Pending(w)
  <2>1. << >> \in [1..0 -> AllWrites]
    BY EmptySeq, LenProperties
  <2> QED
    BY <1>1, <2>1 DEF Pending
<1>3. CASE ExpectsAnswer(current.req)
  <2>1. Answers = <<answer>>
    BY <1>3, Zenon DEF Answers
  <2>2. answer.ok => ok /\ current.req.id
    BY <1>3 DEF ExpectsAnswer
  <2>3. ok => \A j \in DOMAIN Writes(current.req) : Settled(Writes(current.req)[j], current.by, got, ended)
    BY <1>1, <1>2, <1>3 DEF ProgressInv, ExpectsAnswer
  <2>4. ok => current.by \notin doubtful /\ \A f \in doubt : f.by # current.by
    BY <1>1 DEF DoubtInv, Suspect
  <2>5. ok => \A j \in DOMAIN Writes(current.req) : Settled(Writes(current.req)[j], current.by, got, KeptEnds)
    BY <2>3, <2>4 DEF Settled, KeptEnds
  <2>6. ok => \A f \in got : f \in Kept \/ (f \in doubt /\ f.by # current.by)
    BY <2>4 DEF CallInv, Kept
  <2>7. Honest(answer, Kept, doubt, KeptEnds)
    BY <2>2, <2>5, <2>6 DEF Honest
  <2> HIDE DEF answer
  <2> QED
    BY <2>1, <2>7
<1>4. CASE ~ExpectsAnswer(current.req) /\ ExpectsNull(current.req)
  <2>1. Answers = <<NullAnswer>>
    BY <1>4, Zenon DEF Answers
  <2> QED
    BY <2>1 DEF Honest, NullAnswer
<1>5. CASE ~ExpectsAnswer(current.req) /\ ~ExpectsNull(current.req)
  <2>1. Answers = << >>
    BY <1>5, Zenon DEF Answers
  <2>2. << >> \in [1..0 -> AllWrites]
    BY EmptySeq, LenProperties
  <2> QED
    BY <2>1, <2>2
<1> QED
  BY <1>3, <1>4, <1>5

(* An answer that was given stays honest: what comes in doubt is of the    *)
(* call under way, which has not been answered.                            *)
LEMMA StaysHonest ==
    ASSUME OrderInv, [Next]_vars, NEW i \in DOMAIN out, Honest(out[i], Kept, doubt, KeptEnds)
    PROVE  Honest(out[i], Kept', doubt', KeptEnds')
<1> DEFINE a == out[i]
<1>1. phase = "serve" => a.by \in Nat /\ current.by \in Nat /\ a.by < current.by
  BY DEF OrderInv, TurnInv
<1>2. phase = "serve" => a.by # current.by
  BY <1>1
<1> HIDE DEF a
<1> SUFFICES ASSUME a.ok, Honest(a, Kept, doubt, KeptEnds) PROVE Honest(a, Kept', doubt', KeptEnds')
  BY DEF Honest, a
<1>3. ASSUME NEW f \in a.facts PROVE f \in Kept' \/ (f \in doubt' /\ f.by # a.by)
  <2>1. f \in Kept \/ (f \in doubt /\ f.by # a.by)
    BY DEF Honest
  <2>2. f \in Kept => f \notin doubt /\ f \in store'
    BY DoubtGrows DEF Kept
  <2>3. Kept' = store' \ doubt'
    BY DEF Kept
  <2> QED
    BY <1>2, <2>1, <2>2, <2>3, DoubtGrows
<1>4. a.by \in KeptEnds => a.by \in KeptEnds'
  <2>1. a.by \in KeptEnds => a.by \notin doubtful /\ a.by \in ended'
    BY DoubtGrows DEF KeptEnds
  <2>2. KeptEnds' = ended' \ doubtful'
    BY DEF KeptEnds
  <2> QED
    BY <1>2, <2>1, <2>2, DoubtGrows
<1>5. ASSUME NEW j \in DOMAIN Writes(a.req)
      PROVE  Settled(Writes(a.req)[j], a.by, a.facts, KeptEnds')
  <2>1. Settled(Writes(a.req)[j], a.by, a.facts, KeptEnds)
    BY DEF Honest
  <2> QED
    BY <1>4, <2>1 DEF Settled
<1> QED
  BY <1>3, <1>5 DEF Honest

LEMMA AnswersStep ==
    ASSUME StoreInv, CallInv, ProgressInv, ReplyInv, OrderInv, DoubtInv, SuccessIsStored, [Next]_vars
    PROVE  SuccessIsStored'
<1>1. \A i \in DOMAIN out : Honest(out[i], Kept', doubt', KeptEnds')
  BY HonestAnswers, StaysHonest
<1>2. (\A i \in DOMAIN out' : Honest(out'[i], Kept', doubt', KeptEnds')) => SuccessIsStored'
  BY DEF SuccessIsStored, Honest, Settled
<1>3. Honest(NullAnswer, Kept', doubt', KeptEnds')
  BY DEF NullAnswer, Honest
<1>4. CASE out' = out
  BY <1>1, <1>2, <1>4
<1>5. CASE out' = Append(out, NullAnswer)
  <2>1. \A i \in DOMAIN out' : out'[i] = NullAnswer \/ (i \in DOMAIN out /\ out'[i] = out[i])
    BY <1>5 DEF ReplyInv
  <2> QED
    BY <2>1, <1>1, <1>2, <1>3
<1>6. CASE Reply /\ out' = out \o Answers
  <2>1. Answers \in Seq(Replies) /\ \A i \in DOMAIN Answers : Honest(Answers[i], Kept, doubt, KeptEnds)
    BY <1>6, AnswersReply, ReplyHonest DEF Reply
  <2>2. Kept' = Kept /\ doubt' = doubt /\ KeptEnds' = KeptEnds
    BY <1>6 DEF Reply, memory, doubts, Kept, KeptEnds
  <2>4. \A i \in DOMAIN out' : \/ i \in DOMAIN out /\ out'[i] = out[i]
                              \/ \E k \in DOMAIN Answers : out'[i] = Answers[k]
    BY <1>6, <2>1, JoinedItems DEF ReplyInv
  <2> QED
    BY <2>1, <2>2, <2>4, <1>1, <1>2
<1> QED
  BY <1>4, <1>5, <1>6, OutSteps

(* If a client uses each key for one kind of write, an answer that reports *)
(* success speaks for the whole call, and whatever fails, is cut short or  *)
(* is opened again since, what the call stored or ended itself is there:   *)
(* only a fact that it found by its key, and whose own write did not       *)
(* succeed, can be gone.                                                   *)
THEOREM SuccessSpeaksForStoredFacts == ASSUME KeysNameOneKind(Requests) PROVE Spec => []SuccessIsStored
<1> DEFINE IInv == /\ FrameInv /\ StoreInv /\ CallInv /\ ProgressInv /\ ReplyInv
                   /\ OrderInv /\ DoubtInv /\ SuccessIsStored
<1>1. Init => IInv
  <2> SUFFICES ASSUME Init PROVE DoubtInv /\ SuccessIsStored
    BY InitInvs, OrderInit
  <2>1. << >> \in [1..0 -> Replies] /\ out = << >> /\ doubt = {} /\ doubtful = {}
    BY EmptySeq, LenProperties DEF Init
  <2>2. DOMAIN out = {}
    BY <2>1
  <2> QED
    BY <2>1, <2>2, Zenon DEF DoubtInv, SuccessIsStored
<1>2. IInv /\ [Next]_vars => IInv'
  BY FrameStep, StoreStep, ProgressStep, ReplyStep, OrderStep, DoubtStep, AnswersStep
<1>3. IInv => SuccessIsStored
  OBVIOUS
<1> HIDE DEF IInv
<1> QED
  BY <1>1, <1>2, <1>3, PTL DEF Spec

(* For any frames, usable or not, hangups, failing writes, kills and       *)
(* restarts: the requests sent before the first frame whose length cannot  *)
(* be used are answered one at a time, in the order they were sent and at  *)
(* most once, nothing else is answered by name, and the server ends by     *)
(* itself only when nothing waits.                                         *)
THEOREM ServerImplementsService == Spec => AnswersInOrder
<1> DEFINE IInv == FrameInv /\ StoreInv /\ CallInv /\ ReplyInv /\ OrderInv
<1>1. Init => IInv
  BY InitInvs, OrderInit
<1>2. IInv /\ [Next]_vars => IInv'
  BY FrameStep, StoreStep, ReplyStep, OrderStep
<1>3. Init => Service!Init
  <2> SUFFICES ASSUME Init PROVE Service!Init
    OBVIOUS
  <2>1. phase = "line" /\ stdin = << >> /\ out = << >> /\ misframed = FALSE
    BY DEF Init
  <2>2. Waiting = {} /\ Running
    BY <2>1, WaitingIs, EmptySent DEF Served, Running
  <2>3. Connection = "up"
    BY <2>1 DEF Connection
  <2>4. Answered = << >>
    BY <2>1 DEF Answered
  <2> QED
    BY <2>2, <2>3, <2>4 DEF Service!Init
<1>4. IInv /\ [Next]_vars => [Service!Next]_Service!vars
  BY ServiceStep
<1> HIDE DEF IInv
<1>5. Spec => Service!Init /\ [][Service!Next]_Service!vars
  BY <1>1, <1>2, <1>3, <1>4, PTL DEF Spec
<1> QED
  BY <1>5 DEF AnswersInOrder, Service!Safety
====
