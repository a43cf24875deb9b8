-------------------------- MODULE HttpMessageParser -------------------------
(***************************************************************************)
(* The HTTP parser (http_protocol/http_message_parser.c): the callbacks    *)
(* that put messages together from what the llhttp library reports, and    *)
(* the functions that feed a buffer to it.  llhttp (vendor/src/llhttp,     *)
(* without LLHTTP_STRICT_MODE) is the part of its automaton that messages  *)
(* of this project meet: the first line, headers, and a body by length, in *)
(* chunks or to the end of the stream.  It reports each run of characters  *)
(* of a url, a status, a header or a body, in as many pieces as there are  *)
(* buffers; a run that a buffer cuts short is reported once more when it   *)
(* ends, if only with no characters.                                       *)
(***************************************************************************)
EXTENDS HttpMessage

HPE_OK == 0
HPE_INVALID == 1

kHEADER_STATE_NOTHING == 10
kHEADER_STATE_FIELD == 11
kHEADER_STATE_VALUE == 12

\* llhttp's own state: where it is in the message, what it has decoded, and the run of
\* characters it has not yet reported.
llhttp_init ==
    [at |-> "start", type |-> "both", status_code |-> "0", method |-> Unset,
     label |-> <<>>, left |-> -1, chunked |-> FALSE, span |-> "none", run |-> <<>>, errno |-> HPE_OK]

HttpParser_initialize ==
    [ll |-> llhttp_init, m_header_state |-> kHEADER_STATE_NOTHING, m_status_buf |-> <<>>,
     m_url_buf |-> <<>>, m_name_buf |-> <<>>, m_value_buf |-> <<>>,
     current |-> <<>>, out |-> <<>>, aborted |-> "no"]
http_message_parser_new == HttpParser_initialize

\* The current message, changed; a failed assertion in it is the parser's.
WithMessage(p, m) == [p EXCEPT !.current = <<m>>, !.aborted = m.aborted]
Current(p) == Head(p.current)

message_begin_cb(p) ==
    [p EXCEPT !.current = <<http_message_new>>,
              !.m_status_buf = <<>>, !.m_url_buf = <<>>, !.m_name_buf = <<>>, !.m_value_buf = <<>>]

url_data_cb(p, at) ==
    [WithMessage(p, http_message_set_is_request(Current(p), "yes")) EXCEPT !.m_url_buf = @ \o at]

status_data_cb(p, at) ==
    LET buf == p.m_status_buf \o at
        m == http_message_set_status(http_message_set_is_request(Current(p), "no"), p.ll.status_code)
    IN  [WithMessage(p, http_message_set_reason_cbuffer(m, buf)) EXCEPT !.m_status_buf = buf]

\* The header that is complete goes into the message.
FlushHeader(p) ==
    IF p.m_name_buf = <<>> THEN p
    ELSE [WithMessage(p, http_message_add_header_cbuf(Current(p), p.m_name_buf, p.m_value_buf))
             EXCEPT !.m_name_buf = <<>>, !.m_value_buf = <<>>]

\* Mutant: every piece of a name starts a header of its own.
header_field_data_cb_no_state(p, at) ==
    [FlushHeader(p) EXCEPT !.m_name_buf = @ \o at, !.m_header_state = kHEADER_STATE_FIELD]

header_field_data_cb(p, at) ==
    LET q == IF p.m_header_state = kHEADER_STATE_FIELD THEN p ELSE FlushHeader(p)
    IN  [q EXCEPT !.m_name_buf = @ \o at, !.m_header_state = kHEADER_STATE_FIELD]

header_value_data_cb(p, at) ==
    Asserting(p, p.m_header_state # kHEADER_STATE_NOTHING, "header_state",
        [p EXCEPT !.m_value_buf = IF p.m_header_state = kHEADER_STATE_FIELD THEN at ELSE @ \o at,
                  !.m_header_state = kHEADER_STATE_VALUE])

headers_complete_cb(p) ==
    LET q == FlushHeader(p)
        m == http_message_set_version(Current(q), 1)
    IN  WithMessage(q, IF q.m_url_buf = <<>> THEN m
                       ELSE http_message_set_target_cbuffer(
                                http_message_set_method(m, q.ll.method), q.m_url_buf))

body_data_cb(p, at) ==
    LET body == http_message_get_body(Current(p))
        chain == IF body = NoBody THEN BufferChain_new ELSE Head(body)
    IN  WithMessage(p, http_message_set_body(Current(p), BufferChain_append(chain, at)))

\* The handler of a sync socket: a list of the messages not yet read.
on_new_message(input_message_list, msg) == Append(input_message_list, msg)

message_complete_cb(p) ==
    [p EXCEPT !.out = on_new_message(@, Current(p)), !.current = <<http_message_new>>]

\* The callbacks that return at once: the data of a method, of the version and of a chunk
\* extension, the end of a run of characters, and the ends of a chunk.
method_data_cb(p, at) == p
version_data_cb(p, at) == p
chunk_extension_name_cb(p, at) == p
chunk_extension_value_cb(p, at) == p
run_complete_cb(p) == p
chunk_header_cb(p) == p
chunk_complete_cb(p) == p
on_reset_cb(p) == p

-----------------------------------------------------------------------------
\* atoi of one digit.
Number(c) == CHOOSE n \in 0 .. 9 : ToString(n) = c

Data(span, p, at) ==
    CASE span = "url"    -> url_data_cb(p, at)
      [] span = "status" -> status_data_cb(p, at)
      [] span = "field"  -> header_field_data_cb(p, at)
      [] span = "value"  -> header_value_data_cb(p, at)
      [] span = "body"   -> body_data_cb(p, at)
      [] span = "method" -> method_data_cb(p, at)
      [] span = "version" -> version_data_cb(p, at)
      [] span = "extension" -> chunk_extension_name_cb(p, at)
      [] span = "extension_value" -> chunk_extension_value_cb(p, at)

\* The end of a buffer within a run of characters, and the end of the run.
Report(p) == IF p.ll.span = "none" THEN p ELSE [Data(p.ll.span, p, p.ll.run) EXCEPT !.ll.run = <<>>]
SpanEnds(p) == [Report(p) EXCEPT !.ll.span = "none"]
RunEnds(p) == run_complete_cb(SpanEnds(p))

Goto(p, at) == [p EXCEPT !.ll.at = at]
More(p, span, c) == [p EXCEPT !.ll.span = span, !.ll.run = Append(@, c)]

\* All of the body has been seen.
Complete(p) == Goto(message_complete_cb(SpanEnds(p)), "start")

\* The first item of a message: a parser stays with requests or with responses.  A parser
\* that has seen a message is reset.
Begin(p, type, next) ==
    LET q == IF p.ll.type = type THEN on_reset_cb(p) ELSE p
    IN  [Goto(message_begin_cb(q), next) EXCEPT !.ll.type = type, !.ll.left = -1, !.ll.chunked = FALSE]

\* The blank line: with a length or with chunks the body follows; without one a request has
\* no body, and a response has all that comes.
HeadersEnd(p) ==
    LET q == headers_complete_cb(p)
    IN  IF p.ll.chunked THEN Goto(q, "chunk_size")
        ELSE IF p.ll.left = 0 \/ (p.ll.left = -1 /\ p.ll.type = "request") THEN Complete(q)
        ELSE Goto(q, IF p.ll.left = -1 THEN "until_eof" ELSE "body")

FirstLineItem(p, c) ==
    CASE p.ll.at = "start" /\ c = "HTTP" /\ p.ll.type # "request" ->
             [More(Begin(p, "response", "version"), "version", c) EXCEPT !.ll.status_code = "0"]
      [] p.ll.at = "start" /\ c = "GET" /\ p.ll.type # "response" ->
             [More(Begin(p, "request", "method"), "method", c) EXCEPT !.ll.method = c]
      [] p.ll.at = "version" /\ c = "SP" -> Goto(RunEnds(p), "code")
      [] p.ll.at = "code" /\ c = "SP" -> Goto(p, "status")  \* also when there was no code yet
      [] p.ll.at = "code" /\ c = "CRLF" -> Goto(p, "field")
      [] p.ll.at = "code" -> [p EXCEPT !.ll.status_code = c]
      [] p.ll.at = "status" /\ c = "CRLF" -> Goto(RunEnds(p), "field")
      [] p.ll.at = "status" -> More(p, "status", c)
      [] p.ll.at = "method" /\ c = "SP" -> Goto(RunEnds(p), "url")
      [] p.ll.at = "url" /\ c = "SP" -> Goto(RunEnds(p), "url_end")
      [] p.ll.at = "url" -> More(p, "url", c)
      [] p.ll.at = "url_end" -> IF c = "CRLF" THEN Goto(RunEnds(p), "field") ELSE More(p, "version", c)
      [] OTHER -> [p EXCEPT !.ll.errno = HPE_INVALID]

\* A header without a value is reported with an empty one.
HeaderItem(p, c) ==
    CASE p.ll.at = "field" /\ c = "CRLF" -> HeadersEnd(p)
      [] p.ll.at = "field" /\ c = ": " -> Goto(RunEnds(p), "value_start")
      [] p.ll.at = "field" -> [More(p, "field", c) EXCEPT !.ll.label = Append(@, toupper(c))]
      [] c = "CRLF" ->
             LET q == IF p.ll.at = "value_start" THEN [p EXCEPT !.ll.span = "value"] ELSE p
             IN  [Goto(RunEnds(q), "field") EXCEPT !.ll.label = <<>>]
      [] OTHER ->
             [Goto(More(p, "value", c), "value") EXCEPT
                 !.ll.left = IF p.ll.label = make_upper(CONTENT_LENGTH) THEN Number(c) ELSE @,
                 !.ll.chunked = (@ \/ c = "chunked")]

BodyItem(p, c) ==
    LET q == [More(p, "body", c) EXCEPT !.ll.left = IF p.ll.at = "body" THEN @ - 1 ELSE @]
    IN  IF q.ll.left # 0 THEN q
        ELSE IF q.ll.chunked THEN Goto(SpanEnds(q), "chunk_end") ELSE Complete(q)

\* A chunk: its size, perhaps an extension, its data and a line end; the one of size 0 is
\* the last.
ChunkItem(p, c) ==
    CASE p.ll.at = "chunk_size" /\ c = ";" -> Goto(p, "extension")
      [] p.ll.at = "extension" /\ c = "=" -> Goto(RunEnds(p), "extension_value")
      [] p.ll.at # "chunk_end" /\ p.ll.at # "last_end" /\ c = "CRLF" ->
             Goto(chunk_header_cb(RunEnds(p)), IF p.ll.left = 0 THEN "last_end" ELSE "body")
      [] p.ll.at = "chunk_size" -> [p EXCEPT !.ll.left = Number(c)]
      [] p.ll.at \in {"extension", "extension_value"} -> More(p, p.ll.at, c)
      [] p.ll.at = "chunk_end" -> Goto(chunk_complete_cb(p), "chunk_size")
      [] p.ll.at = "last_end" -> Complete(chunk_complete_cb(p))

llhttp_item(p, c) ==
    IF ~Alive(p) \/ p.ll.errno # HPE_OK THEN p
    ELSE IF p.ll.at \in {"field", "value_start", "value"} THEN HeaderItem(p, c)
    ELSE IF p.ll.at \in {"body", "until_eof"} THEN BodyItem(p, c)
    ELSE IF p.ll.at \in {"chunk_size", "extension", "extension_value", "chunk_end", "last_end"} THEN ChunkItem(p, c)
    ELSE FirstLineItem(p, c)

llhttp_execute(p, items) == Report(FoldLeft(llhttp_item, p, items))

llhttp_message_needs_eof(p) == p.ll.type # "request" /\ p.ll.left = -1 /\ ~p.ll.chunked

\* The error it returns within a message is not kept in the parser.
llhttp_finish(p) == IF p.ll.at = "until_eof" THEN message_complete_cb(p) ELSE p

\* No items at all are the end of the stream.
http_message_parser_consume(p, items) ==
    IF items = <<>> /\ llhttp_message_needs_eof(p) THEN llhttp_finish(p)
    ELSE llhttp_execute(p, items)

http_message_parser_get_errno(p) == p.ll.errno

\* The buffer is consumed unless there was an error.
http_message_parser_consume_buffer(p, iob) ==
    LET q == http_message_parser_consume(p, IOBuffer_data(iob))
    IN  [p |-> q, iob |-> IF http_message_parser_get_errno(q) = HPE_OK
                          THEN IOBuffer_consume(iob, IOBuffer_data_len(iob)) ELSE iob]
=============================================================================
