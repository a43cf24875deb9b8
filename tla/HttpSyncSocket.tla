--------------------------- MODULE HttpSyncSocket ---------------------------
(***************************************************************************)
(* Two programs with blocking HTTP sockets (http_protocol/                 *)
(* http_sync_socket.c): one writes messages, the other reads them from a   *)
(* TCP stream that hands over its bytes in pieces of any size.  A peer     *)
(* that is not this code sends responses in the standard form.             *)
(***************************************************************************)
EXTENDS HttpMessageParser

CONSTANTS MaxSent,     \* bound: messages sent
          MaxHeaders   \* bound: headers of all messages together

VARIABLES hmsg,      \* the message under construction, <<>> between messages
          stream,    \* items written and not yet read
          sent,      \* history: messages written, with the form of the first line
          syncsock,  \* the reader's HttpSyncSocket
          reading,   \* it is in http_syncsocket_read_message
          received,  \* history: messages read
          cut,       \* history: a buffer ended within the reason of a response, or right after it
          hung       \* the writer has closed

hsVars == <<hmsg, stream, sent, syncsock, reading, received, cut, hung>>

\* The descriptor is "garbage" until it is set, then "stream", "refused" (not connected), "-1"
\* or "closed".
http_syncsocket_init(this) == [this EXCEPT !.parser = http_message_parser_new]
NewSyncSocket == http_syncsocket_init([sock |-> "garbage", parser |-> <<>>])
http_syncsocket_new == NewSyncSocket
http_syncsocket_new_from_fd(fd) == [NewSyncSocket EXCEPT !.sock = fd]

\* A socket that cannot be made and a connection that is refused are logged, no more.
http_syncsocket_connect(this) == {[this EXCEPT !.sock = fd] : fd \in {"stream", "refused", "-1"}}

http_syncsocket_close(this) == this
http_syncsocket_free(this) == [this EXCEPT !.sock = "closed"]

parser == syncsock.parser
Reader(p) == syncsock' = [syncsock EXCEPT !.parser = p]

HsInit ==
    /\ hmsg = <<>> /\ stream = <<>> /\ sent = <<>> /\ received = <<>>
    /\ syncsock \in {http_syncsocket_new, http_syncsocket_new_from_fd("stream")} /\ reading = FALSE /\ cut = FALSE /\ hung = FALSE

Text == {<<>>, <<"k", "K">>}
Writing == hmsg # <<>>
Same == UNCHANGED <<stream, sent, syncsock, reading, received, cut, hung>>

\* The sent messages that the reader can know the end of: a response without a length
\* goes on to the end of the stream, and read_message does not tell the parser of that.
Delimited ==
    LET open == {i \in DOMAIN sent : /\ http_message_get_is_request(sent[i].msg) = "no"
                                     /\ \A h \in {CONTENT_LENGTH, TRANSFER_ENCODING} :
                                            http_message_get_header_value(sent[i].msg, h) = <<>>}
    IN  IF open = {} THEN Len(sent) ELSE Min(open) - 1

\* All messages of a stream are of one kind, and nothing follows one without an end.
MayStart(yn) ==
    /\ ~Writing /\ ~hung /\ syncsock.sock = "stream" /\ Len(sent) < MaxSent /\ Delimited = Len(sent)
    /\ \A i \in DOMAIN sent : http_message_get_is_request(sent[i].msg) = yn

HsNewRequest ==
    /\ MayStart("yes")
    /\ \E t \in Text \ {<<>>} :
          hmsg' = <<http_message_set_target(http_message_set_method(http_message_new_request, "GET"), t)>>
    /\ Same

HsNewResponse ==
    /\ MayStart("no")
    /\ \E r \in Text :
          hmsg' = <<http_message_set_reason(http_message_set_status(http_message_new_response, "200"), r)>>
    /\ Same

Headers == FoldLeft(LAMBDA n, s : n + HdrList_size(s.msg.headers), HdrList_size(hmsg[1].headers), sent)

HsAddHeader ==
    /\ Writing /\ Headers < MaxHeaders
    /\ \E v \in Text : \/ hmsg' = <<http_message_add_header_cstring(hmsg[1], <<"k", "k">>, v)>>
                       \/ hmsg' = <<http_message_add_header_cbuf(hmsg[1], <<"K">>, v)>>
                       \/ hmsg' = <<http_message_set_headers_arr(hmsg[1], <<<<<<"k">>, v>>>>)>>
    /\ Same

HsSetBody ==
    /\ Writing /\ Headers < MaxHeaders /\ http_message_get_body(hmsg[1]) = NoBody
    /\ \E b \in {<<>>, <<"x", "y">>} :
          LET chain == IF b = <<>> THEN BufferChain_new ELSE BufferChain_append(BufferChain_new, b)
          IN  hmsg' = <<http_message_set_content_length(http_message_set_body(hmsg[1], chain), Len(b))>>
    /\ Same

\* A message made elsewhere: the standard first line, with or without a reason.
StandardFirstLine(m) ==
    <<"HTTP", "SP", m.status_code>> \o (IF m.reason = <<>> THEN <<>> ELSE <<"SP">> \o m.reason) \o <<"CRLF">>

\* write() takes the whole message, a part of it (an assertion fails, so the process
\* ends), or nothing.
http_syncsocket_write_message(m) ==
    LET out == http_message_serialize(m) IN {out} \cup {SubSeq(out, 1, n) : n \in {0, 1}}

HsWrite ==
    /\ Writing /\ hmsg' = <<>>
    /\ \E out \in http_syncsocket_write_message(hmsg[1]) :
          /\ stream' = stream \o out
          /\ sent' = IF out = http_message_serialize(hmsg[1])
                     THEN Append(sent, [msg |-> hmsg[1], own |-> TRUE]) ELSE sent
          /\ hung' = (Len(out) = 1)
    /\ UNCHANGED <<syncsock, reading, received, cut>>

HsPeerWrite ==
    /\ Writing /\ hmsg' = <<>> /\ http_message_get_is_request(hmsg[1]) = "no"
    /\ LET own == http_message_serialize(hmsg[1])
           rest == SubSeq(own, Len(FirstLine(hmsg[1])) + 1, Len(own))
       IN  stream' = stream \o StandardFirstLine(hmsg[1]) \o rest
    /\ sent' = Append(sent, [msg |-> hmsg[1], own |-> FALSE])
    /\ UNCHANGED <<syncsock, reading, received, cut, hung>>

\* The same peer sends a body in chunks instead of with a length, one with an extension.
Chunks == {<<"2", ";", "e", "=", "v", "CRLF", "x", "y", "CRLF">>,
           <<"1", "CRLF", "x", "CRLF", "1", "CRLF", "y", "CRLF">>}

HsPeerWriteChunked ==
    /\ Writing /\ hmsg' = <<>> /\ Headers < MaxHeaders /\ http_message_get_body(hmsg[1]) = NoBody
    /\ LET m == http_message_add_header_cstring(hmsg[1], TRANSFER_ENCODING, <<"chunked">>)
           first == IF http_message_get_is_request(m) = "yes" THEN FirstLine(m) ELSE StandardFirstLine(m)
       IN  /\ \E chunks \in Chunks :
                 stream' = stream \o first \o HdrList_serialize(m.headers) \o <<"CRLF">>
                              \o chunks \o <<"0", "CRLF", "CRLF">>
           /\ sent' = Append(sent, [msg |-> http_message_set_body(m, BufferChain_append(BufferChain_new, <<"x", "y">>)),
                                    own |-> FALSE])
    /\ UNCHANGED <<syncsock, reading, received, cut, hung>>

\* The writer ends.
HsPeerClose == ~hung /\ ~Writing /\ hung' = TRUE /\ UNCHANGED <<hmsg, stream, sent, syncsock, reading, received, cut>>

HsConnect ==
    /\ syncsock.sock = "garbage" /\ syncsock' \in http_syncsocket_connect(syncsock)
    /\ UNCHANGED <<hmsg, stream, sent, reading, received, cut, hung>>

\* http_syncsocket_close leaves the descriptor open, http_syncsocket_free closes it.
HsClose ==
    /\ ~reading /\ ~Writing /\ syncsock.sock # "garbage"
    /\ syncsock' \in {http_syncsocket_close(syncsock), http_syncsocket_free(syncsock)}
    /\ UNCHANGED <<hmsg, stream, sent, reading, received, cut, hung>>

\* http_syncsocket_read_message: a message that is there, or ...
HsReadMessage ==
    /\ Alive(parser) /\ ~reading /\ ~Writing /\ syncsock.sock \notin {"garbage", "closed"}
    /\ IF parser.out # <<>>
       THEN /\ received' = Append(received, Head(parser.out))
            /\ Reader([parser EXCEPT !.out = Tail(@)])
            /\ UNCHANGED reading
       ELSE reading' = TRUE /\ UNCHANGED <<received, syncsock>>
    /\ UNCHANGED <<hmsg, stream, sent, cut, hung>>

\* ... one more read() of its loop, which returns after an error or with a message.  It
\* waits for a message under construction, which the reader does not see, to be written.
HsReadSome(n) ==
    /\ Alive(parser) /\ reading /\ ~Writing /\ n \in 1 .. Len(stream)
    /\ LET iob == IOBuffer_commit(memcpy(IOBuffer_new_with_capacity(n), 0, SubSeq(stream, 1, n)), n)
           res == http_message_parser_consume_buffer(parser, iob)
       IN  /\ Reader(res.p)
           /\ reading' = (http_message_parser_get_errno(res.p) = HPE_OK /\ res.p.out = <<>>)
    /\ stream' = SubSeq(stream, n + 1, Len(stream))
    /\ cut' = (cut \/ (parser.ll.at = "status" /\ parser.m_status_buf # <<>>))
    /\ UNCHANGED <<hmsg, sent, received, hung>>

\* read() finds the end of the stream, or a descriptor that is not connected: an error, and
\* the message is not finished.
HsReadFails ==
    /\ Alive(parser) /\ reading /\ ((stream = <<>> /\ hung) \/ syncsock.sock # "stream")
    /\ reading' = FALSE
    /\ UNCHANGED <<hmsg, stream, sent, syncsock, received, cut, hung>>

HsNext ==
    \/ HsNewRequest \/ HsNewResponse \/ HsAddHeader \/ HsSetBody \/ HsWrite \/ HsPeerWrite
    \/ HsPeerWriteChunked \/ HsPeerClose \/ HsConnect \/ HsClose \/ HsReadMessage \/ HsReadFails
    \/ \E n \in 1 .. Len(stream) : HsReadSome(n)

HsSpec == HsInit /\ [][HsNext]_hsVars

-----------------------------------------------------------------------------
\* A first line that says what was meant: a request's, and the standard one of a response
\* with a reason.  A response of this code's own serialiser has a second blank before the
\* status code, where the parser ends the code; one without a reason is never reported.
WellFormed(s) == http_message_get_is_request(s.msg) = "yes" \/ (~s.own /\ http_message_get_reason(s.msg) # <<>>)

SameFirstLine(m, n) ==
    /\ http_message_get_is_request(m) = http_message_get_is_request(n)
    /\ http_message_get_status(m) = http_message_get_status(n)
    /\ http_message_get_reason(m) = http_message_get_reason(n)
    /\ http_message_get_method(m) = http_message_get_method(n)
    /\ http_message_get_target(m) = http_message_get_target(n)

BodyOf(m) == FlattenSeq([i \in DOMAIN m.body |-> FlattenSeq([j \in DOMAIN m.body[i].m_chain |->
                                                          IOBuffer_data(m.body[i].m_chain[j])])])

\* Whatever the sizes of the pieces the stream comes in, the messages read are the
\* messages sent, in order, each with its headers, its body and its version; and none is
\* missing once all of the stream has been read.  The kind, the method and target, and the
\* status and reason are those of the message whenever its first line is well formed.
\* Nothing is said of the status of a response http_message_serialize wrote: the reader gets
\* status 0 for it, and the code as part of the reason.  An assertion of the parser fails for
\* one reason only: a buffer that ends within a reason phrase, or right after it.
MessagesReadAsSent ==
    /\ Alive(parser) <=> ~cut
    /\ Alive(parser) =>
        LET got == received \o parser.out IN
        /\ Len(got) <= Delimited
        /\ \A i \in DOMAIN got :
              /\ WellFormed(sent[i]) => SameFirstLine(got[i], sent[i].msg)
              /\ http_message_get_headerlist(got[i]) = http_message_get_headerlist(sent[i].msg)
              /\ http_message_get_minor_version(got[i]) = http_message_get_minor_version(sent[i].msg)
              /\ BodyOf(got[i]) = BodyOf(sent[i].msg)
        /\ stream = <<>> => Len(got) = Delimited

\* A message keeps one content length while it is made, and arrives as it was sent.
MessagesSound == OneContentLength /\ MessagesReadAsSent

\* What http_message_parser.h says of http_message_parser_consume_buffer ("Allows for parsing
\* to continue over buffer and message boundaries"): no well-formed message makes it fail,
\* wherever the boundaries of the buffers fall.
ParsingContinues == Alive(parser)
=============================================================================
