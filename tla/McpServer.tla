---- MODULE McpServer ----
(***************************************************************************)
(* The MCP server (main.rs): one thread reads framed JSON-RPC messages     *)
(* from its standard input, serves each before it reads the next, and      *)
(* writes the answers.  A tool call is a list of writes, each a record of  *)
(* the append log; the process may be killed between any two steps.  Of a  *)
(* write that failed or was cut short the log does not know whether its    *)
(* record is in the file: that is seen when the next process opens it.     *)
(*                                                                         *)
(* The input is a sequence of tokens: a frame is a header line, a blank    *)
(* line and a payload.  A payload has no line break, so when it is read as *)
(* a line it swallows the header that follows it.  The pipes are unbounded *)
(* and frames arrive whole, except for the last one before a hangup.       *)
(***************************************************************************)
EXTENDS Naturals, Sequences, FiniteSets, McpTools

CONSTANTS
    Requests,   \* what a client may send: [id, method, tool, args, key, relation]
    Derived,    \* Derived[key] is the key of a text's relation, "{key}:works_at"
    NoKey,      \* no idempotency key
    NoRequest,  \* nothing is being served
    MaxSends, MaxFaults, MaxRestarts  \* bounds on frames, failing writes and processes

(* correct_fact takes no key, and a derived key is one.                    *)
ASSUME KeysAssumption ==
    \A req \in Requests : req.key # NoKey =>
        /\ req.tool # "correct_fact"
        /\ req.tool = "remember" /\ req.relation => Derived[req.key] # NoKey
ASSUME BoundsAssumption == MaxSends \in Nat

FrameKinds == {"good", "notjson", "nolength", "badlength", "oversize"}
Methods == {"ping", "tools/call", "notification", "unknown", "none"}

VARIABLES
    stdin,      \* tokens sent and not read
    eof,        \* the client closed the pipe
    length,     \* content_length of the frame being read: "none", "ok", "huge"
    phase,      \* "line", "payload", "serve", "exited", "killed"
    current,    \* the request served
    todo,       \* its writes not yet done
    failed,     \* one of them failed, or its arguments were refused
    got,        \* the facts it stored or found by their key
    store,      \* the facts of the database: [by, kind, key, source]
    index,      \* those of them that an idempotency key is answered with
    ended,      \* the requests that ended the validity of a fact
    doubt,      \* facts whose record may be in the file or not
    doubtful,   \* requests whose end of a fact may be in the file or not
    out,        \* answers written: [by, req, ok, facts], by = 0 for a null id
    sends, faults, restarts,
    misframed   \* history: a frame of this connection left its payload unread

reader == <<length, phase>>
call   == <<current, todo, failed, got>>
memory == <<store, index, ended>>
doubts == <<doubt, doubtful>>
bounds == <<sends, faults, restarts>>
vars == <<stdin, eof, reader, call, memory, doubts, out, bounds, misframed>>

-----------------------------------------------------------------------------
(* The writes of a tool call.  correct_fact ends a fact and stores its     *)
(* replacement; a text that names an employer is stored with a relation.   *)
Storing(kind, key) == [op |-> "store", kind |-> kind, key |-> key]
Ending == [op |-> "end", kind |-> "none", key |-> NoKey]

(* Mutant: the relation of a text is stored without a key. *)
WritesRelationUnkeyed(req) ==
    CASE req.tool = "remember" ->
           <<Storing("note", req.key)>>
           \o (IF req.relation THEN <<Storing("relation", NoKey)>> ELSE << >>)
      [] req.tool = "assert_fact" -> <<Storing("fact", req.key)>>
      [] req.tool = "correct_fact" -> <<Ending, Storing("replacement", NoKey)>>
      [] req.tool = "invalidate_fact" -> <<Ending>>
      [] OTHER -> << >>

Writes(req) ==
    CASE req.tool = "remember" ->
           <<Storing("note", req.key)>>
           \o (IF req.relation
               THEN <<Storing("relation", IF req.key = NoKey THEN NoKey ELSE Derived[req.key])>>
               ELSE << >>)
      [] req.tool = "assert_fact" -> <<Storing("fact", req.key)>>
      [] req.tool = "correct_fact" -> <<Ending, Storing("replacement", NoKey)>>
      [] req.tool = "invalidate_fact" -> <<Ending>>
      [] OTHER -> << >>

(* Clients that use each key for one kind of write, and none the server    *)
(* derives from another: what a success then says is SuccessIsStored.      *)
KeysNameOneKind(requests) ==
    \A q, r \in requests : \A i \in DOMAIN Writes(q), j \in DOMAIN Writes(r) :
        Writes(q)[i].key = Writes(r)[j].key /\ Writes(q)[i].key # NoKey
            => Writes(q)[i].kind = Writes(r)[j].kind

IsCall(req) == req.method = "tools/call"
RefusedCall(req) == IsCall(req) /\ Refuses(req.tool, req.args)
(* handle_request: a request with an id is answered with it, a known       *)
(* method without one with a null id, the rest not at all.                 *)
ExpectsAnswer(req) == req.id /\ req.method \notin {"none", "notification"}
ExpectsNull(req) == ~req.id /\ req.method \in {"ping", "tools/call"}

Line(type, kind) == [type |-> type, kind |-> kind, req |-> NoRequest, by |-> 0, intact |-> FALSE]
Header(kind)     == Line("header", kind)
Blank            == Line("blank", "good")
Payload(kind, req, by, intact) == [type |-> "payload", kind |-> kind, req |-> req, by |-> by, intact |-> intact]
NullAnswer == [by |-> 0, req |-> NoRequest, ok |-> FALSE, facts |-> {}]

Init ==
    /\ stdin = << >> /\ eof = FALSE
    /\ length = "none" /\ phase = "line"
    /\ current = NoRequest /\ todo = << >> /\ failed = FALSE /\ got = {}
    /\ store = {} /\ index = {} /\ ended = {} /\ doubt = {} /\ doubtful = {} /\ out = << >>
    /\ sends = 0 /\ faults = 0 /\ restarts = 0
    /\ misframed = FALSE

-----------------------------------------------------------------------------
(* The client. *)
Running == phase \in {"line", "payload", "serve"}
Unusable(kind) == kind \in {"nolength", "badlength", "oversize"}

Send ==
    /\ Running /\ ~eof /\ sends < MaxSends
    /\ \E req \in Requests, kind \in FrameKinds :
         /\ kind # "good" => req.method = "ping"
         /\ stdin' = stdin \o <<Header(kind), Blank,
                                Payload(kind, req, sends + 1, kind = "good" /\ ~misframed)>>
         /\ misframed' = (misframed \/ Unusable(kind))
    /\ sends' = sends + 1
    /\ UNCHANGED <<eof, reader, call, memory, doubts, out, faults, restarts>>

(* The client closes the pipe, in the middle of a frame or after one.      *)
Hangup ==
    /\ Running /\ ~eof /\ eof' = TRUE
    /\ \E cut \in {<< >>, <<Header("good"), Blank>>} : stdin' = stdin \o cut
    /\ UNCHANGED <<reader, call, memory, doubts, out, bounds, misframed>>

-----------------------------------------------------------------------------
(* read_message, line by line.  A payload without its header is a line of  *)
(* its own, which waits for a line break: the one of the next header.      *)
LineLength == IF stdin[1].type = "payload" /\ Len(stdin) > 1 THEN 2 ELSE 1
LineComplete == stdin # << >> /\ (stdin[1].type = "payload" /\ Len(stdin) = 1 => eof)
Consume(n) == stdin' = SubSeq(stdin, n + 1, Len(stdin))

ReadError == out' = Append(out, NullAnswer) /\ length' = "none" /\ phase' = "line"

ReadLine ==
    /\ phase = "line" /\ LineComplete
    /\ Consume(LineLength)
    /\ LET line == stdin[1]
       IN  \/ /\ line.type = "header" /\ line.kind # "badlength"
              /\ length' = CASE line.kind = "nolength" -> length
                             [] line.kind = "oversize" -> "huge"
                             [] OTHER -> "ok"
              /\ UNCHANGED <<phase, out>>
           \/ line.type = "header" /\ line.kind = "badlength" /\ ReadError
           \/ line.type = "blank" /\ length # "ok" /\ ReadError
           \/ /\ line.type = "blank" /\ length = "ok"
              /\ phase' = "payload" /\ UNCHANGED <<length, out>>
           \/ line.type = "payload" /\ UNCHANGED <<reader, out>>
    /\ UNCHANGED <<eof, call, memory, doubts, bounds, misframed>>

(* read_exact and from_slice, then handle_request up to the first write.   *)
Begin(msg) ==
    /\ phase' = "serve" /\ current' = msg
    /\ failed' = RefusedCall(msg.req)
    /\ todo' = IF IsCall(msg.req) /\ msg.req.id /\ ~RefusedCall(msg.req) THEN Writes(msg.req) ELSE << >>
    /\ got' = {} /\ length' = "none" /\ UNCHANGED out

(* Mutant: a payload that is no JSON ends the server. *)
BadJsonEnds == phase' = "exited" /\ UNCHANGED <<length, out, call>>
BadJson == ReadError /\ UNCHANGED call

ReadPayload ==
    /\ phase = "payload"
    /\ \/ /\ stdin # << >> /\ Consume(1)
          /\ \/ stdin[1].kind = "good" /\ Begin(stdin[1])
             \/ stdin[1].kind = "notjson" /\ BadJson
       \/ /\ stdin = << >> /\ eof
          /\ ReadError /\ UNCHANGED <<stdin, call>>
    /\ UNCHANGED <<eof, memory, doubts, bounds, misframed>>

-----------------------------------------------------------------------------
(* The writes of the call.  A key that is known finds its fact and writes  *)
(* nothing.                                                                *)
Keyed(w) == {f \in index : w.key # NoKey /\ f.key = w.key}
(* source is the client's key, of which the key of a relation is derived.  *)
Stored(w) == [by |-> current.by, kind |-> w.kind, key |-> w.key, source |-> current.req.key]

WriteDone ==
    LET w == Head(todo)
    IN  \/ /\ w.op = "store" /\ Keyed(w) = {}
           /\ store' = store \cup {Stored(w)} /\ got' = got \cup {Stored(w)}
           /\ index' = index \cup {f \in {Stored(w)} : w.key # NoKey}
           /\ UNCHANGED ended
        \/ /\ w.op = "store" /\ Keyed(w) # {}
           /\ got' = got \cup Keyed(w)
           /\ UNCHANGED memory
        \/ /\ w.op = "end"
           /\ ended' = ended \cup {current.by}
           /\ UNCHANGED <<store, index, got>>

Writing == phase = "serve" /\ todo # << >>

DoWrite ==
    /\ Writing
    /\ WriteDone /\ todo' = Tail(todo)
    /\ UNCHANGED <<stdin, eof, reader, current, failed, doubts, out, bounds, misframed>>

(* A record that was being written, when its sync fails or the process     *)
(* dies, may be in the file.                                               *)
InDoubt ==
    LET w == Head(todo)
    IN  /\ doubt' = doubt \cup {f \in {Stored(w)} : w.op = "store" /\ Keyed(w) = {}}
        /\ doubtful' = doubtful \cup {b \in {current.by} : w.op = "end"}

(* Mutant: the failure of a write behind the first is not reported. *)
AfterFailureQuiet == failed' = (got = {}) /\ todo' = << >>
AfterFailure == failed' = TRUE /\ todo' = << >>

(* The failed write changes nothing that this process sees. *)
FailWrite ==
    /\ Writing /\ faults < MaxFaults
    /\ AfterFailure /\ InDoubt /\ faults' = faults + 1
    /\ UNCHANGED <<stdin, eof, reader, current, got, memory, out, sends, restarts, misframed>>

(* handle_request returns, write_message writes the answer.                *)
Answers ==
    IF ExpectsAnswer(current.req)
    THEN <<[by |-> current.by, req |-> current.req,
            ok |-> IsCall(current.req) /\ ~failed, facts |-> got]>>
    ELSE IF ExpectsNull(current.req) THEN <<NullAnswer>> ELSE << >>
EndCall == current' = NoRequest /\ todo' = << >> /\ failed' = FALSE /\ got' = {}

Reply ==
    /\ phase = "serve" /\ todo = << >>
    /\ out' = out \o Answers /\ phase' = "line" /\ EndCall
    /\ UNCHANGED <<stdin, eof, length, memory, doubts, bounds, misframed>>

(* The end of the input ends the server, at the start of a line only.      *)
Exit ==
    /\ phase = "line" /\ stdin = << >> /\ eof
    /\ phase' = "exited" /\ length' = "none"
    /\ UNCHANGED <<stdin, eof, call, memory, doubts, out, bounds, misframed>>

-----------------------------------------------------------------------------
(* The process ends at once: the client has closed both pipes and the      *)
(* answer cannot be written, or it is killed.                              *)
Vanish == phase' = "killed" /\ length' = "none" /\ stdin' = << >> /\ EndCall
ReplyFails ==
    /\ phase = "serve" /\ todo = << >> /\ eof /\ Answers # << >>
    /\ Vanish /\ UNCHANGED <<eof, memory, doubts, out, bounds, misframed>>
Crash ==
    /\ Running
    /\ IF Writing THEN InDoubt ELSE UNCHANGED doubts
    /\ Vanish /\ UNCHANGED <<eof, memory, out, bounds, misframed>>

(* What the file gives back for certain, as long as it opens. *)
Kept == store \ doubt
KeptEnds == ended \ doubtful
(* Every key has one fact; a record of the key that was acknowledged stands *)
(* behind those that were not, and replaces them.                           *)
Indexes(facts) ==
    {named \in SUBSET {f \in facts : f.key # NoKey} :
        /\ \A f \in facts : f.key # NoKey => \E g \in named : g.key = f.key
        /\ \A f, g \in named : f.key = g.key => f = g
        /\ {f \in Kept : f.key # NoKey} \subseteq named}

(* A new process on the same database, with new pipes.  Records in doubt   *)
(* are read or not, each time anew: what was answered from one may be gone *)
(* at the next open.  A database that does not open starts no process.     *)
Restart ==
    /\ ~Running /\ restarts < MaxRestarts
    /\ restarts' = restarts + 1
    /\ \E found \in SUBSET doubt : store' = Kept \cup found
    /\ \E found \in SUBSET doubtful : ended' = KeptEnds \cup found
    /\ index' \in Indexes(store')
    /\ phase' = "line" /\ eof' = FALSE /\ misframed' = FALSE
    /\ UNCHANGED <<stdin, length, call, doubts, out, sends, faults>>

Serving == ReadLine \/ ReadPayload \/ DoWrite \/ FailWrite \/ Reply \/ Exit
Next == Serving \/ Send \/ Hangup \/ ReplyFails \/ Crash \/ Restart

(* The server's thread is never kept from its next step for ever. *)
Spec == Init /\ [][Next]_vars /\ WF_vars(Serving)

-----------------------------------------------------------------------------
Ids == 1..MaxSends

Found(w, facts) == \E f \in facts : f.kind = w.kind /\ f.key = w.key

(* An answer that reports success speaks for the whole call: whatever the  *)
(* text or the correction consists of has a fact in it, under its key, and *)
(* what the call stored or ended itself every later process finds again,   *)
(* whatever failed or was cut short since.  Only of a fact that the call   *)
(* found by its key, and whose own write had not succeeded, is that not    *)
(* said: the log may have answered from a record it then loses.            *)
SuccessIsStored ==
    \A i \in DOMAIN out : out[i].ok =>
        LET writes == Writes(out[i].req)
        IN  /\ \A f \in out[i].facts : f \in Kept \/ (f \in doubt /\ f.by # out[i].by)
            /\ \A j \in DOMAIN writes :
                 IF writes[j].op = "store" THEN Found(writes[j], out[i].facts)
                 ELSE out[i].by \in KeptEnds

(* A call sent again with its key, after an error, a crash or an answer    *)
(* that got lost, completes what the first one left undone: of the facts   *)
(* whose write succeeded there is one note and one relation for a key, and *)
(* that is the fact the key is answered with.  A second one under the key  *)
(* is the record of a write that failed, which an open brought back.       *)
RetryStoresOnce ==
    /\ \A f, g \in Kept : f.source = g.source /\ f.kind = g.kind /\ f.source # NoKey => f = g
    /\ \A f \in Kept : f.key # NoKey => {g \in index : g.key = f.key} = {f}

(* The server is a RequestService: what it was sent before the first frame *)
(* it could not delimit is served in order, once, and eventually.          *)
Waiting ==
    (IF phase = "serve" /\ ExpectsAnswer(current.req) THEN {current.by} ELSE {})
    \cup {stdin[i].by : i \in {j \in DOMAIN stdin : stdin[j].intact /\ ExpectsAnswer(stdin[j].req)}}
Answered == [i \in DOMAIN out |-> out[i].by]
Connection ==
    CASE phase = "exited" -> "closed" [] phase = "killed" -> "dead"
      [] OTHER -> IF misframed THEN "deaf" ELSE "up"
Service == INSTANCE RequestService WITH
    pending <- IF Running THEN Waiting ELSE {}, answered <- Answered, state <- Connection
ServesSerially == Service!Spec

(* Its part that says what the server never does.                          *)
AnswersInOrder == Service!Safety
====
