----------------------------- MODULE ChatStream -----------------------------
(***************************************************************************)
(* The OpenAI-compatible client: one call to a chat or embedding endpoint, *)
(* plain or streamed.  A plain call reads the whole body before it looks   *)
(* at it.  A streamed one is a sequence of lines the provider writes; the  *)
(* network hands them over in chunks that end wherever they end; the       *)
(* consumer polls, and each poll drains the events parsed so far before it *)
(* reads another chunk.                                                    *)
(* A line is a record of what its JSON holds; on the wire it is a head, a  *)
(* tail and a newline, and a chunk may end after any of them: that is all  *)
(* the parser can tell apart.  A head alone starts with "data:" and does   *)
(* not parse, a tail alone does not start with "data:".                    *)
(***************************************************************************)
EXTENDS Naturals, Sequences, FiniteSets, SequencesExt

CONSTANTS
  None,
  Configs,    \* [cloud, url, key, organization, host, port, model]
  Requests,   \* [kind, model]: kind "chat", "stream" or "embed"; model a name, "" or None
  Bodies,     \* plain answers: [choices, data]
  Scripts     \* what a provider may write: sequences of lines

Line(kind, deltas, finish) == [kind |-> kind, deltas |-> deltas, finish |-> finish]

VARIABLES
  config, request, endpoint,
  call,       \* "new", "sent", "streaming", "done"
  answer,     \* what the caller of a plain call or of chat_stream is told
  body,       \* the plain answer on its way
  script, at, \* the provider's lines, and how many symbols of them were handed over
  pending, torn, buffer, done,
  got,        \* the events the consumer was given
  over        \* the stream answered None

stream == <<script, at, pending, torn, buffer, done, got, over>>
chatVars == <<config, request, endpoint, call, answer, body, stream>>

-----------------------------------------------------------------------------
(* The endpoint a configuration names: the provider's default for an empty *)
(* URL, the runtime's for an empty host or a zero port; a local runtime is *)
(* given the bearer "none" and no organization.                            *)
resolve_endpoint(c) ==
  IF c.cloud
  THEN [base |-> CASE c.url = "blank" -> <<"default">> [] c.url = "slashed" -> <<"url", "trimmed">>
                   [] OTHER -> <<"url", c.url>>,
        bearer |-> c.key, organization |-> IF c.organization = "" THEN None ELSE c.organization]
  ELSE [base |-> <<"local", IF c.host = "blank" THEN "localhost" ELSE c.host,
                   IF c.port = 0 THEN 11434 ELSE c.port>>,
        bearer |-> "none", organization |-> None]

(* The model a request is made for; None is EmptyModel.  An embedding is   *)
(* made for the explicit model alone.                                      *)
completion_model(r, c) ==
  IF r.model \notin {None, ""} THEN r.model ELSE IF c.model # "" THEN c.model ELSE None
embedding_model(r, c) ==
  LET model == IF r.model = None THEN c.model ELSE r.model
  IN  IF model = "" THEN None ELSE model
ModelOf(r, c) == IF r.kind = "embed" THEN embedding_model(r, c) ELSE completion_model(r, c)

-----------------------------------------------------------------------------
ChatInit ==
  /\ config \in Configs /\ request \in Requests
  /\ endpoint = None /\ call = "new" /\ answer = None /\ body \in Bodies
  /\ script \in (IF request.kind = "stream" THEN Scripts ELSE {<<>>})
  /\ at = 0 /\ pending = <<>> /\ torn = FALSE /\ buffer = <<>> /\ done = FALSE
  /\ got = <<>> /\ over = FALSE

(* The call: the model is resolved first and nothing is sent without one.  *)
start_post ==
  /\ call = "new"
  /\ endpoint' = resolve_endpoint(config)
  /\ IF ModelOf(request, config) = None
     THEN call' = "done" /\ answer' = <<"error", "empty_model">>
     ELSE call' = "sent" /\ answer' = answer
  /\ UNCHANGED <<config, request, body, stream>>

(* No answer, an answer that is not a success, or one the caller reads.    *)
\* sort_by_key is stable: a datum stands after those of a smaller index, and after
\* the earlier ones of its own.
Place(data, i) ==
  Cardinality({j \in DOMAIN data : data[j].index < data[i].index \/ (data[j].index = data[i].index /\ j <= i)})
embedded(data) == [k \in DOMAIN data |-> data[CHOOSE i \in DOMAIN data : Place(data, i) = k].vector]
Answered ==
  /\ call = "sent"
  /\ \/ call' = "done" /\ \E e \in {"request", "status"} : answer' = <<"error", e>>
     \/ /\ request.kind = "chat" /\ call' = "done"
        /\ answer' = IF body.choices = <<>> THEN <<"error", "decode">> ELSE <<"message", Head(body.choices)>>
     \/ /\ request.kind = "embed" /\ call' = "done" /\ answer' = <<"vectors", embedded(body.data)>>
     \/ /\ request.kind = "stream" /\ call' = "streaming" /\ answer' = <<"stream">>
  /\ UNCHANGED <<config, request, endpoint, body, stream>>

-----------------------------------------------------------------------------
(* The provider's text, three symbols a line.                              *)
Symbol(n) == <<(n + 2) \div 3, ((n + 2) % 3) + 1>>     \* the n-th symbol: <<line, part>>
Text == 3 * Len(script)

(* The events of one data line: the content of each choice and its finish  *)
(* reason; a line that is not JSON is one decode error; a line that is not *)
(* data is nothing.                                                        *)
EventsOf(line) ==
  CASE line.kind = "data" -> [i \in DOMAIN line.deltas |-> <<"delta", line.deltas[i]>>]
                             \o (IF line.finish = None THEN <<>> ELSE <<<<"finish", line.finish>>>>)
    [] line.kind = "broken" -> <<<<"decode_error">>>>
    [] OTHER -> <<>>

(* parse_line on what stands between two cuts: a whole line, the head of   *)
(* one, or a tail, which is no data line.                                  *)
parse_line(parts) ==
  IF parts = <<>> \/ parts[1][2] # 1 THEN [events |-> <<>>, closes |-> FALSE]
  ELSE LET line == script[parts[1][1]]
       IN  IF Len(parts) = 2
           THEN [events |-> EventsOf(line), closes |-> line.kind = "done"]
           ELSE [events |-> IF line.kind \in {"data", "broken", "done"} THEN <<<<"decode_error">>>> ELSE <<>>,
                 closes |-> FALSE]

(* drain_lines: every line up to a newline is parsed, and what is left     *)
(* unterminated is flushed as a line as well.                              *)
Then(read, more) == [events |-> read.events \o more.events, closes |-> read.closes \/ more.closes]
Scanned(b) ==
  LET upto[i \in 0..Len(b)] ==
        IF i = 0 THEN [read |-> [events |-> <<>>, closes |-> FALSE], open |-> <<>>]
        ELSE IF b[i][2] = 3
        THEN [read |-> Then(upto[i - 1].read, parse_line(upto[i - 1].open)), open |-> <<>>]
        ELSE [read |-> upto[i - 1].read, open |-> Append(upto[i - 1].open, b[i])]
  IN  upto[Len(b)]
DrainedWholeLinesOnly(b) == Scanned(b).read
drained(b) == Then(Scanned(b).read, parse_line(Scanned(b).open))

drain_lines(b) ==
  /\ pending' = pending \o drained(b).events
  /\ done' = (done \/ drained(b).closes)
  /\ buffer' = <<>>

(* advance: an event parsed ahead, else the end, else another chunk.  The  *)
(* body's end drains what is left and ends the stream; a transport failure *)
(* is handed over as the stream's last event.                              *)
Pop ==
  /\ call = "streaming" /\ ~over /\ pending # <<>>
  /\ got' = Append(got, Head(pending)) /\ pending' = Tail(pending)
  /\ UNCHANGED <<config, request, endpoint, call, answer, body, script, at, torn, buffer, done, over>>
Finished ==
  /\ call = "streaming" /\ ~over /\ pending = <<>> /\ done
  /\ over' = TRUE
  /\ UNCHANGED <<config, request, endpoint, call, answer, body, script, at, pending, torn, buffer, done, got>>
Chunk ==
  /\ call = "streaming" /\ ~over /\ pending = <<>> /\ ~done
  /\ \/ \E n \in (at + 1)..Text :
          /\ at' = n /\ torn' = (torn \/ Symbol(n)[2] = 1)
          /\ drain_lines(buffer \o [i \in 1..(n - at) |-> Symbol(at + i)])
     \/ /\ at = Text
        /\ pending' = pending \o drained(buffer).events
        /\ done' = TRUE /\ buffer' = <<>> /\ UNCHANGED <<at, torn>>
  /\ UNCHANGED <<config, request, endpoint, call, answer, body, script, got, over>>
TransportFails ==
  /\ call = "streaming" /\ ~over /\ pending = <<>> /\ ~done
  /\ got' = Append(got, <<"request_error">>) /\ done' = TRUE
  /\ UNCHANGED <<config, request, endpoint, call, answer, body, script, at, pending, torn, buffer, over>>

ChatNext == start_post \/ Answered \/ Pop \/ Finished \/ Chunk \/ TransportFails

-----------------------------------------------------------------------------
(* What a provider's lines say, up to and without the closing one.         *)
Closing == LET ends == {i \in DOMAIN script : script[i].kind = "done"}
           IN  IF ends = {} THEN Len(script) + 1 ELSE CHOOSE i \in ends : \A j \in ends : i <= j
Said == FlattenSeq([i \in 1..(Closing - 1) |-> EventsOf(script[i])])
Failed == got # <<>> /\ Last(got) = <<"request_error">>
Heard == IF Failed THEN Front(got) ELSE got
ReadsBack == IsPrefix(Heard, Said) /\ (over /\ ~Failed => Heard = Said)

(* The events up to and with the first finish reason or undecodable line.  *)
(* lib.rs:113 has the stream end there; the code reads on.                 *)
Opens(events) ==
  {i \in DOMAIN events : \A j \in DOMAIN events : j < i => events[j][1] \notin {"finish", "decode_error"}}

(* A stream whose chunks end at line ends reads back what the provider     *)
(* wrote: every delta once and in order, and the first finish reason or    *)
(* undecodable line after them; some of it while it runs and all of it     *)
(* when it ends of itself; a transport failure is one event, and the last. *)
(* What the consumer is given after that finish reason or line is not      *)
(* judged: the code and its comment disagree on whether anything is.       *)
StreamReadsBack ==
  torn \/ /\ \A i \in Opens(Heard) : i \in DOMAIN Said /\ Heard[i] = Said[i]
          /\ over /\ ~Failed => \A i \in Opens(Said) : i \in DOMAIN Heard /\ Heard[i] = Said[i]

(* Every call ends: a plain one is answered, a stream ends of itself.      *)
CallEnded == call = "done" \/ over

(* The i-th vector of an answer belongs to the i-th text, whatever order   *)
(* the provider sent them in, as long as it numbered them.                 *)
VectorsBelong ==
  call = "done" /\ answer[1] = "vectors" =>
    \A i \in DOMAIN body.data :
      {d.index : d \in Range(body.data)} = 0..(Len(body.data) - 1) =>
        answer[2][body.data[i].index + 1] = body.data[i].vector
=============================================================================
