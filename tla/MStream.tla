------------------------------ MODULE MStream -------------------------------
(***************************************************************************)
(* The two message formats of the applications (apps/msg/), one of which a *)
(* build selects: "demo", STX content ETX (demo_msg.c, demo_msg_parser.c), *)
(* and "newline", content LF (newline_msg.c, newline_msg_parser.c).  A     *)
(* message is its content, a sequence of characters; characters from 32 on *)
(* are printable.                                                          *)
(***************************************************************************)
EXTENDS SocketFunctions, SequencesExt

NUL == 0
CH_STX == 2
CH_ETX == 3
LF == 10
isprint(ch) == ch >= 32

-----------------------------------------------------------------------------
(* demo_msg.c and demo_msg_parser.c *)

demo_msg_new == <<>>

demo_msg_get_content(msg) == msg
demo_msg_set_content(msg, content) == content

demo_msg_serialize(msg) == <<CH_STX>> \o demo_msg_get_content(msg) \o <<CH_ETX>>

demo_msg_parser_new == [select |-> "demo", m_state |-> "IDLE", current |-> demo_msg_new, read |-> <<>>]

\* The message goes to the callback, and a new one is begun.
MessageRead(p) == [p EXCEPT !.m_state = "IDLE", !.read = Append(@, p.current), !.current = demo_msg_new]

\* One character; last: it is the last one of its buffer.  A message with a bad character
\* is never reported: its content so far is dropped at the end of a buffer, and otherwise
\* stays in front of the next message.
demo_char(p, ch, last) ==
    CASE p.m_state = "IDLE" -> IF ch = CH_STX THEN [p EXCEPT !.m_state = "BODY"] ELSE p
      [] p.m_state = "BODY" ->
            IF isprint(ch) THEN [p EXCEPT !.current = Append(@, ch)]
            ELSE IF ch = CH_ETX THEN MessageRead(p)
            ELSE [p EXCEPT !.m_state = "ERROR_RECOVERY"]
      [] p.m_state = "ERROR_RECOVERY" ->
            IF ch = CH_STX /\ ~last THEN [p EXCEPT !.m_state = "BODY"]
            ELSE IF last THEN [p EXCEPT !.current = demo_msg_new]
            ELSE p

demo_msg_parser_consume(p, data) ==
    FoldLeft(LAMBDA q, i : demo_char(q, data[i], i = Len(data)), p, [i \in 1 .. Len(data) |-> i])

-----------------------------------------------------------------------------
(* newline_msg.c and newline_msg_parser.c *)

newline_msg_new == <<>>

newline_msg_get_content(msg) == msg
newline_msg_set_content(msg, content) == content

newline_msg_serialize(msg) == Append(newline_msg_get_content(msg), LF)

newline_msg_parser_new ==
    [select |-> "newline", m_state |-> "IDLE", current |-> newline_msg_new, read |-> <<>>]

newline_msg_parser_consume(p, data) ==
    FoldLeft(LAMBDA q, ch : IF ch \in {LF, NUL}
                            THEN [q EXCEPT !.read = Append(@, q.current), !.current = newline_msg_new]
                            ELSE [q EXCEPT !.current = Append(@, ch)], p, data)

-----------------------------------------------------------------------------
(* The selection of one format (msg_selection_header.h). *)

MSG_SET_CONTENT(select, msg, content) ==
    IF select = "demo" THEN demo_msg_set_content(msg, content)
    ELSE newline_msg_set_content(msg, content)

MSG_SERIALIZE(select, msg) ==
    IF select = "demo" THEN demo_msg_serialize(msg) ELSE newline_msg_serialize(msg)

MSG_PARSER_NEW(select) == IF select = "demo" THEN demo_msg_parser_new ELSE newline_msg_parser_new

\* The parser after the data; read are the messages it has called back with.
MSG_PARSER_CONSUME(p, data) ==
    IF p.select = "demo" THEN demo_msg_parser_consume([p EXCEPT !.read = <<>>], data)
    ELSE newline_msg_parser_consume([p EXCEPT !.read = <<>>], data)

-----------------------------------------------------------------------------
(***************************************************************************)
(* The blocking message stream of the clients (mstream/mstream.c): one     *)
(* connection, and the messages read from it and not yet taken.            *)
(***************************************************************************)

new_msg_cb(stream, nm) == [stream EXCEPT !.input_msg_list = Append(@, nm)]

mstream_init(fd) == [fd |-> fd, input_msg_list |-> <<>>]

\* The process after connecting, and its stream.
mstream_new(s, port) ==
    LET t == create_and_connect_socket(s, port) IN [s |-> t, stream |-> mstream_init(t.ret)]

mstream_write(s, stream, bytes) ==
    {Asserting(t, t.ret = Len(bytes), "write", t) : t \in write(s, stream.fd, bytes)}

\* A turn of the loop in mstream_read: a read, which blocks, and its data given to the
\* parser, unless a message is there already.
mstream_read(s, stream, parser) ==
    IF stream.input_msg_list # <<>> THEN {[s |-> s, stream |-> stream, parser |-> parser]}
    ELSE {LET p == MSG_PARSER_CONSUME(parser, t.data)
          IN  IF t.ret <= 0 THEN [s |-> Abort(t, "read"), stream |-> stream, parser |-> parser]
              ELSE [s |-> t, stream |-> FoldLeft(new_msg_cb, stream, p.read), parser |-> p]
             : t \in read(s, stream.fd, RCVBUF)}

\* The message mstream_read returns with.
ReadMessage(stream) ==
    [message |-> Head(stream.input_msg_list),
     stream |-> [stream EXCEPT !.input_msg_list = Tail(@)]]

mstream_free(s, stream) == close(s, stream.fd)
=============================================================================
