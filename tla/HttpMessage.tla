---------------------------- MODULE HttpMessage -----------------------------
(***************************************************************************)
(* Key/value pairs (http/kvpair.c) and header lists (http/header_list.c):  *)
(* a header list is the sequence the linked list of common/list.c          *)
(* implements.  A string is a sequence of characters; a C string argument  *)
(* and a pointer with a length are the same sequence.                      *)
(***************************************************************************)
EXTENDS BufferChain

\* toupper of ctype.h, on the letters the instances use.
toupper(c) == IF c = "k" THEN "K" ELSE IF c = "l" THEN "L" ELSE c

make_upper(src) == [i \in DOMAIN src |-> toupper(src[i])]

KVPair_new(label, value) == [label |-> make_upper(label), value |-> value]

KVPair_label(kv) == kv.label
KVPair_value(kv) == kv.value
KVPair_set_value(kv, value) == [kv EXCEPT !.value = value]

-----------------------------------------------------------------------------
HdrList_new == <<>>
HdrList_size(hl) == Len(hl)
HdrList_first(hl) == Head(hl)
HdrList_last(hl) == Last(hl)
HdrList_remove_first(hl) == Tail(hl)
HdrList_remove_last(hl) == Front(hl)
HdrList_itr_unpack(hl, iter) == hl[iter]
HdrList_itr_remove(hl, iter) == RemoveAt(hl, iter)
HdrList_add_back(hl, kv) == Append(hl, kv)
HdrList_add_front(hl, kv) == <<kv>> \o hl

\* A copy of the pairs, for all ways to give them; add_line alone puts it in front.
HdrList_add_cstr(hl, label, value) == HdrList_add_back(hl, KVPair_new(label, value))
HdrList_add_cbuf(hl, key, value) == HdrList_add_back(hl, KVPair_new(key, value))
HdrList_add_line(hl, label, value) == HdrList_add_front(hl, KVPair_new(label, value))
HdrList_add_arr(hl, ar) == FoldLeft(LAMBDA l, kv : HdrList_add_cstr(l, kv[1], kv[2]), hl, ar)
HdrList_from_array(ar) == FoldLeft(LAMBDA l, kv : HdrList_add_cstr(l, kv[1], kv[2]), HdrList_new, ar)

\* The iterator of the first pair with the label, 0 for NULL.
HdrList_find_iter(hl, key) ==
    SelectInSeq(hl, LAMBDA kv : KVPair_label(kv) = make_upper(key))

\* The pair, as a sequence of at most one: <<>> for NULL.
HdrList_find(hl, key) ==
    LET iter == HdrList_find_iter(hl, key)
    IN  IF iter = 0 THEN <<>> ELSE <<HdrList_itr_unpack(hl, iter)>>

HdrList_remove(hl, key) ==
    LET iter == HdrList_find_iter(hl, key)
    IN  IF iter = 0 THEN hl ELSE HdrList_itr_remove(hl, iter)

\* One line of lexical items per pair, in the order of the list.
HdrList_serialize(hl) ==
    FoldLeft(LAMBDA acc, kv : acc \o KVPair_label(kv) \o <<": ">> \o KVPair_value(kv) \o <<"CRLF">>,
             <<>>, hl)

-----------------------------------------------------------------------------
(***************************************************************************)
(* HTTP messages (http_protocol/http_message.c) and their serialised form. *)
(* Text on the wire is a sequence of lexical items: characters, and "SP",  *)
(* ": ", "CRLF" and the HTTP version as one item each.                     *)
(***************************************************************************)

\* What a field holds that http_message_new does not set.
Unset == "unset"
NoBody == <<>>

http_message_new ==
    [headers |-> HdrList_new, minor_vers |-> 1, is_request |-> Unset, status_code |-> Unset,
     method |-> Unset, target |-> <<>>, reason |-> <<>>, body |-> NoBody, aborted |-> "no"]

http_message_set_is_request(m, yn) == [m EXCEPT !.is_request = yn]

http_message_new_request == http_message_set_is_request(http_message_new, "yes")
http_message_new_response == http_message_set_is_request(http_message_new, "no")

http_message_get_headerlist(m) == m.headers
http_message_get_is_request(m) == m.is_request
http_message_get_body(m) == m.body
http_message_get_status(m) == m.status_code
http_message_get_minor_version(m) == m.minor_vers
http_message_get_method(m) == m.method
http_message_get_target(m) == m.target
http_message_get_reason(m) == m.reason

http_message_set_status(m, status) == [m EXCEPT !.status_code = status]
http_message_set_method(m, method) == [m EXCEPT !.method = method]
http_message_set_body(m, chain) == [m EXCEPT !.body = <<chain>>]

\* The major version is not stored.
http_message_set_version(m, minor) == [m EXCEPT !.minor_vers = minor]

\* A header that is there already is not replaced, whatever http_message.h says: a second
\* pair with its label goes to the back.
http_message_add_header_cstring(m, label, value) == [m EXCEPT !.headers = HdrList_add_cstr(@, label, value)]
http_message_add_header_cbuf(m, key, value) == [m EXCEPT !.headers = HdrList_add_cbuf(@, key, value)]
http_message_set_headers_arr(m, ar) == [m EXCEPT !.headers = HdrList_add_arr(@, ar)]

\* A target or a reason is set once: the setters assert that it is empty.
http_message_set_target(m, s) == Asserting(m, m.target = <<>>, "target", [m EXCEPT !.target = s])
http_message_set_target_cbuffer(m, cb) == Asserting(m, m.target = <<>>, "target", [m EXCEPT !.target = cb])
http_message_set_reason(m, s) == Asserting(m, m.reason = <<>>, "reason", [m EXCEPT !.reason = s])
http_message_set_reason_cbuffer(m, cb) == Asserting(m, m.reason = <<>>, "reason", [m EXCEPT !.reason = cb])

CONTENT_LENGTH == <<"l">>
TRANSFER_ENCODING == <<"t">>

\* sprintf("%d") of a length below ten: the one digit.
Digit(length) == <<ToString(length)>>

http_message_set_content_length(m, length) ==
    LET iter == HdrList_find_iter(m.headers, CONTENT_LENGTH)
    IN  [m EXCEPT !.headers = IF iter # 0
                              THEN [@ EXCEPT ![iter] = KVPair_set_value(@, Digit(length))]
                              ELSE HdrList_add_cstr(@, CONTENT_LENGTH, Digit(length))]

http_message_get_header_value(m, label) ==
    LET kvp == HdrList_find(http_message_get_headerlist(m), label)
    IN  IF kvp = <<>> THEN <<>> ELSE <<KVPair_value(Head(kvp))>>

\* 1: the header has the value, letter case aside; 0: another value; -1: no such header.
HttpMessage_cmp_header(m, key, test_value) ==
    LET kvp == HdrList_find(http_message_get_headerlist(m), key)
    IN  IF kvp = <<>> THEN -1
        ELSE IF make_upper(KVPair_value(Head(kvp))) = make_upper(test_value) THEN 1 ELSE 0

-----------------------------------------------------------------------------
\* The first line of a request, and of a response: with two blanks before the status code.
FirstLine(m) ==
    IF m.is_request = "yes"
    THEN <<m.method, "SP">> \o m.target \o <<"SP", "HTTP", "CRLF">>
    ELSE <<"HTTP", "SP", "SP", m.status_code, "SP">> \o m.reason \o <<"CRLF">>

\* A chain of pieces, one per line and one for the body, compacted into one IOBuffer.
http_message_serialize(m) ==
    LET Line(kv) == HdrList_serialize(<<kv>>)
        bc_head == FoldLeft(LAMBDA bc, kv : BufferChain_append(bc, Line(kv)),
                            BufferChain_append(BufferChain_new, FirstLine(m)),
                            http_message_get_headerlist(m))
        bc == BufferChain_append(bc_head, <<"CRLF">>)
        body == http_message_get_body(m)
        bc_result == IF body # NoBody /\ BufferChain_size(Head(body)) # 0
                     THEN BufferChain_add_back(bc, BufferChain_compact(Head(body)))
                     ELSE bc
    IN  IOBuffer_data(BufferChain_compact(bc_result))

-----------------------------------------------------------------------------
(* The headers of one message, changed through the header list and through *)
(* the message, in any order.                                              *)

CONSTANTS MaxHdr       \* bound: headers in the list

VARIABLES hmsgref,     \* the message
          set_length   \* history: the content length last set and not removed, or <<>>

hlVars == <<hmsgref, set_length>>

HlInit == hmsgref = http_message_new_request /\ set_length = <<>>

Label == {<<"k">>, <<"K">>}
Val == {<<"k">>, <<"x">>}
Hdrs == http_message_get_headerlist(hmsgref)
MayAddHdr == HdrList_size(Hdrs) < MaxHdr
SetHdrs(hl) == hmsgref' = [hmsgref EXCEPT !.headers = hl]

HlAdd(k, v) ==
    /\ MayAddHdr /\ UNCHANGED set_length
    /\ \/ hmsgref' = http_message_add_header_cstring(hmsgref, k, v)
       \/ SetHdrs(HdrList_add_line(Hdrs, k, v))

\* HdrList_from_array makes a list of its own, which takes the place of the headers.
HlFromArray(k, v) == SetHdrs(HdrList_from_array(<<<<k, v>>, <<k, v>>>>)) /\ set_length' = <<>>

HlSetLength(n) ==
    /\ MayAddHdr
    /\ hmsgref' = http_message_set_content_length(hmsgref, n)
    /\ set_length' = <<n>>

KeepLength(kv) ==
    set_length' = IF KVPair_label(kv) = make_upper(CONTENT_LENGTH) THEN <<>> ELSE set_length

HlRemove(k) ==
    /\ SetHdrs(HdrList_remove(Hdrs, k))
    /\ set_length' = IF make_upper(k) = make_upper(CONTENT_LENGTH) THEN <<>> ELSE set_length

HlRemoveEnd ==
    /\ HdrList_size(Hdrs) > 0
    /\ \/ SetHdrs(HdrList_remove_first(Hdrs)) /\ KeepLength(HdrList_first(Hdrs))
       \/ SetHdrs(HdrList_remove_last(Hdrs)) /\ KeepLength(HdrList_last(Hdrs))

HlNext ==
    \/ \E k \in Label, v \in Val : HlAdd(k, v) \/ HlFromArray(k, v)
    \/ \E n \in 0 .. 2 : HlSetLength(n)
    \/ \E k \in Label \cup {CONTENT_LENGTH} : HlRemove(k)
    \/ HlRemoveEnd

HlSpec == HlInit /\ [][HlNext]_hlVars

\* However often http_message_set_content_length sets the length, between other changes of
\* the headers, there is one such header, it has the length set last, and it is found
\* whatever the letter case it is asked for in.
OneContentLength ==
    LET lengths == SelectSeq(Hdrs, LAMBDA kv : make_upper(KVPair_label(kv)) = make_upper(CONTENT_LENGTH))
    IN  /\ Len(lengths) = Len(set_length)
        /\ set_length # <<>> =>
               HttpMessage_cmp_header(hmsgref, make_upper(CONTENT_LENGTH), Digit(set_length[1])) = 1
=============================================================================
