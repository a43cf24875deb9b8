----------------------------- MODULE UrlParser ------------------------------
(***************************************************************************)
(* The URL parser (common/url_parser.c, built with                         *)
(* C_HTTP_URL_PARSER_STRICT) and the Url made from its result              *)
(* (common/url.c).  One character stands for a class that the parser tells *)
(* apart: "a" a letter that is a hex digit, "g" another letter, "1" a      *)
(* digit, "!" the marks, "\\" what only a path may have, " " white space;  *)
(* the others are themselves.                                              *)
(***************************************************************************)
EXTENDS Integers, SequencesExt, FiniteSets

CONSTANTS UF_WIDTH,   \* offsets and lengths are kept modulo this (2^16)
          PORT_MAX    \* the largest port (0xffff)

ASSUME UrlAssumption == UF_WIDTH \in Nat \ {0} /\ PORT_MAX \in Nat

IS_ALPHA(c) == c \in {"a", "g"}
IS_NUM(c) == c = "1"
IS_ALPHANUM(c) == IS_ALPHA(c) \/ IS_NUM(c)
IS_HEX(c) == IS_NUM(c) \/ c = "a"
IS_MARK(c) == c \in {"!", "-", "_", ".", "~", "*"}
IS_USERINFO_CHAR(c) == IS_ALPHANUM(c) \/ IS_MARK(c) \/ c \in {"%", ":"}
IS_HOST_CHAR(c) == IS_ALPHANUM(c) \/ c \in {".", "-"}
IS_URL_CHAR(c) == IS_USERINFO_CHAR(c) \/ c \in {"/", "@", "[", "]", "\\"}

Fields == {"SCHEMA", "USERINFO", "HOST", "PORT", "PATH", "QUERY", "FRAGMENT"}

InQuery == {"s_req_query_string_start", "s_req_query_string"}
InServer == {"s_req_server_start", "s_req_server", "s_req_server_with_at"}

parse_url_char(s, ch) ==
    CASE s = "s_req_spaces_before_url" /\ ch \in {"/", "*"}  -> "s_req_path"
      [] s = "s_req_spaces_before_url" /\ IS_ALPHA(ch)       -> "s_req_schema"
      [] s = "s_req_schema" /\ IS_ALPHA(ch)                  -> s
      [] s = "s_req_schema" /\ ch = ":"                      -> "s_req_schema_slash"
      [] s = "s_req_schema_slash" /\ ch = "/"                -> "s_req_schema_slash_slash"
      [] s = "s_req_schema_slash_slash" /\ ch = "/"          -> "s_req_server_start"
      [] s = "s_req_server_with_at" /\ ch = "@"              -> "s_dead"
      [] s \in InServer /\ ch = "/"                          -> "s_req_path"
      [] s \in InServer /\ ch = "?"                          -> "s_req_query_string_start"
      [] s \in InServer /\ ch = "@"                          -> "s_req_server_with_at"
      [] s \in InServer /\ (IS_USERINFO_CHAR(ch) \/ ch \in {"[", "]"}) -> "s_req_server"
      [] s = "s_req_path" /\ IS_URL_CHAR(ch)                 -> s
      [] s = "s_req_path" /\ ch = "?"                        -> "s_req_query_string_start"
      [] s \in InQuery /\ (IS_URL_CHAR(ch) \/ ch = "?")      -> "s_req_query_string"
      [] s \in {"s_req_path"} \cup InQuery /\ ch = "#"       -> "s_req_fragment_start"
      [] s = "s_req_fragment_start" /\ ch = "#"              -> s
      [] s = "s_req_fragment_start" /\ (IS_URL_CHAR(ch) \/ ch = "?") -> "s_req_fragment"
      [] s = "s_req_fragment" /\ (IS_URL_CHAR(ch) \/ ch \in {"?", "#"}) -> s
      [] OTHER                                               -> "s_dead"

c_http_parse_host_char(s, ch) ==
    CASE s \in {"s_http_userinfo", "s_http_userinfo_start"} /\ ch = "@" -> "s_http_host_start"
      [] s \in {"s_http_userinfo", "s_http_userinfo_start"} /\ IS_USERINFO_CHAR(ch) -> "s_http_userinfo"
      [] s = "s_http_host_start" /\ ch = "["                          -> "s_http_host_v6_start"
      [] s \in {"s_http_host_start", "s_http_host"} /\ IS_HOST_CHAR(ch) -> "s_http_host"
      [] s \in {"s_http_host", "s_http_host_v6_end"} /\ ch = ":"      -> "s_http_host_port_start"
      [] s \in {"s_http_host_v6", "s_http_host_v6_zone"} /\ ch = "]"  -> "s_http_host_v6_end"
      [] s \in {"s_http_host_v6", "s_http_host_v6_start"} /\ (IS_HEX(ch) \/ ch \in {":", "."}) -> "s_http_host_v6"
      [] s = "s_http_host_v6" /\ ch = "%"                             -> "s_http_host_v6_zone_start"
      [] s \in {"s_http_host_v6_zone", "s_http_host_v6_zone_start"}
            /\ (IS_ALPHANUM(ch) \/ ch \in {"%", ".", "-", "_", "~"})  -> "s_http_host_v6_zone"
      [] s \in {"s_http_host_port", "s_http_host_port_start"} /\ IS_NUM(ch) -> "s_http_host_port"
      [] OTHER                                                        -> "s_http_host_dead"

-----------------------------------------------------------------------------
\* The result: the fields that are set, their places in the buffer (from 0), the port.
c_http_parser_url_init ==
    [set |-> {}, port |-> 0, off |-> [f \in Fields |-> 0], len |-> [f \in Fields |-> 0]]

\* A field that starts at a place, and a field that has one more character.
Start(u, f, at, n) == [u EXCEPT !.off[f] = at % UF_WIDTH, !.len[f] = n, !.set = @ \cup {f}]
Grow(u, f) == [u EXCEPT !.len[f] = (@ + 1) % UF_WIDTH]

HostField(s) ==
    CASE s \in {"s_http_host", "s_http_host_v6", "s_http_host_v6_zone_start", "s_http_host_v6_zone"} -> "HOST"
      [] s = "s_http_host_port" -> "PORT"
      [] s = "s_http_userinfo"  -> "USERINFO"
      [] OTHER                  -> "none"

\* One character of the host, at a place: a zone goes on with the field of its address,
\* and the length of the host, reset before, is not reset again.
HostStep(buf, h, at) ==
    LET s == c_http_parse_host_char(h.s, buf[at + 1])
        f == HostField(s)
        starts == s # h.s /\ s \notin {"s_http_host_v6_zone_start", "s_http_host_v6_zone"}
        u == IF starts THEN Start(h.u, f, at, IF f = "HOST" THEN h.u.len[f] ELSE 0) ELSE h.u
    IN  IF h.s = "s_http_host_dead" THEN h
        ELSE [s |-> s, u |-> IF f = "none" THEN h.u ELSE Grow(u, f)]

HostEndsBadly ==
    {"s_http_host_dead", "s_http_host_start", "s_http_host_v6_start", "s_http_host_v6",
     "s_http_host_v6_zone_start", "s_http_host_v6_zone", "s_http_host_port_start",
     "s_http_userinfo", "s_http_userinfo_start"}

c_http_parse_host(buf, u, found_at) ==
    LET first == u.off["HOST"]
        places == [i \in 1 .. u.len["HOST"] |-> first + i - 1]
        h0 == [s |-> IF found_at THEN "s_http_userinfo_start" ELSE "s_http_host_start",
               u |-> [u EXCEPT !.len["HOST"] = 0]]
        h == FoldLeft(LAMBDA acc, at : HostStep(buf, acc, at), h0, places)
    IN  [ret |-> IF h.s \in HostEndsBadly THEN 1 ELSE 0, u |-> h.u]

\* Mutant: the "@" of a user is taken for a delimiter.
UrlField_skip_at(s) ==
    CASE s = "s_req_schema" -> "SCHEMA"
      [] s = "s_req_server" -> "HOST"
      [] s = "s_req_path" -> "PATH"
      [] OTHER -> "none"

UrlField(s) ==
    CASE s = "s_req_schema" -> "SCHEMA"
      [] s \in {"s_req_server", "s_req_server_with_at"} -> "HOST"
      [] s = "s_req_path" -> "PATH"
      [] s = "s_req_query_string" -> "QUERY"
      [] s = "s_req_fragment" -> "FRAGMENT"
      [] OTHER -> "none"    \* a delimiter, or s_dead

UrlStart(is_connect) ==
    [s |-> IF is_connect THEN "s_req_server_start" ELSE "s_req_spaces_before_url",
     old_uf |-> "MAX", found_at |-> FALSE, u |-> c_http_parser_url_init]

\* One turn of the loop of c_http_parser_parse_url, for the character at a place.
UrlStep(p, at, ch) ==
    LET s == parse_url_char(p.s, ch)
        uf == UrlField(s)
    IN  IF uf = "none" THEN [p EXCEPT !.s = s]
        ELSE [s |-> s, old_uf |-> uf, found_at |-> p.found_at \/ s = "s_req_server_with_at",
              u |-> IF uf = p.old_uf THEN Grow(p.u, uf) ELSE Start(p.u, uf, at, 1)]

\* The bytes of a field.
Slice(buf, u, f) == SubSeq(buf, u.off[f] + 1, u.off[f] + u.len[f])
PortValue(digits) == FoldLeft(LAMBDA v, c : 10 * v + 1, 0, digits)

\* What follows the loop: the host is parsed, and then the port.
UrlEnd(p, buf, is_connect) ==
    LET h == IF "HOST" \in p.u.set THEN c_http_parse_host(buf, p.u, p.found_at) ELSE [ret |-> 0, u |-> p.u]
        v == PortValue(Slice(buf, h.u, "PORT"))
    IN  IF \/ buf = <<>> \/ p.s = "s_dead" \/ {"SCHEMA", "HOST"} \cap p.u.set = {"SCHEMA"}
        THEN [ret |-> 1, u |-> p.u]
        ELSE IF h.ret # 0 \/ (is_connect /\ h.u.set # {"HOST", "PORT"}) \/ ("PORT" \in h.u.set /\ v > PORT_MAX)
        THEN [ret |-> 1, u |-> h.u]
        ELSE [ret |-> 0, u |-> IF "PORT" \in h.u.set THEN [h.u EXCEPT !.port = v] ELSE h.u]

\* Url_new takes what the parser has found, whatever the parser returned.
Url_new(buf, u) == [f \in Fields |-> Slice(buf, u, f)]

-----------------------------------------------------------------------------
(* Every URL over an alphabet, character by character.                     *)

CONSTANTS UrlChar, PathChar, \* the alphabet, and what is tried of it after the host
          MaxUrl,            \* bound: characters of a URL
          MaxField, MaxHost  \* bounds: characters of a field, and of the host

VARIABLES urlbuf, urlstate, is_connect

urlVars == <<urlbuf, urlstate, is_connect>>

UrlInit ==
    /\ urlbuf = <<>> /\ is_connect \in BOOLEAN
    /\ urlstate = UrlStart(is_connect)

UrlNextChar(c) ==
    /\ urlstate.s # "s_dead" /\ Len(urlbuf) < MaxUrl
    /\ urlstate.s \in {"s_req_path", "s_req_fragment_start", "s_req_fragment"} \cup InQuery => c \in PathChar
    /\ urlstate' = UrlStep(urlstate, Len(urlbuf), c)
    /\ \A f \in Fields : urlstate'.u.len[f] <= IF f = "HOST" THEN MaxHost ELSE MaxField
    /\ urlbuf' = Append(urlbuf, c)
    /\ UNCHANGED is_connect

UrlNext == \E c \in UrlChar : UrlNextChar(c)

UrlSpec == UrlInit /\ [][UrlNext]_urlVars

-----------------------------------------------------------------------------
c_http_parser_parse_url == UrlEnd(urlstate, urlbuf, is_connect)

Order == <<"SCHEMA", "USERINFO", "HOST", "PORT", "PATH", "QUERY", "FRAGMENT">>
Places(u, f) == u.off[f] .. u.off[f] + u.len[f] - 1

\* A URL that is accepted falls into fields in the order of RFC 3986, without overlap;
\* what is in none of them is a delimiter; a user, a host and a port hold only what they
\* may, and the port fits.  This holds for URLs whose length fits the 16 bits of an offset.
\* Url_new copies the fields even when the parser has failed, and when an offset has
\* wrapped: the places it copies from are inside the URL.
UrlFieldsFit ==
    LET r == c_http_parser_parse_url
        u == r.u
    IN  /\ \A f \in Fields : /\ u.off[f] + u.len[f] <= Len(urlbuf)
                             /\ Len(Url_new(urlbuf, u)[f]) = u.len[f]
        /\ r.ret = 0 /\ Len(urlbuf) <= UF_WIDTH =>
            /\ \A i, j \in DOMAIN Order : i < j /\ {Order[i], Order[j]} \subseteq u.set =>
                   \A a \in Places(u, Order[i]), b \in Places(u, Order[j]) : a < b
            /\ \A at \in 0 .. Len(urlbuf) - 1 :
                   (\A f \in u.set : at \notin Places(u, f)) =>
                       urlbuf[at + 1] \in {":", "/", "?", "#", "@", "[", "]"}
            /\ \A f \in u.set : u.len[f] > 0
            /\ \A i \in DOMAIN Slice(urlbuf, u, "HOST") :
                   Slice(urlbuf, u, "HOST")[i] \notin {"/", "?", "#", "@", "[", "]", "\\", " "}
            /\ \A i \in DOMAIN Slice(urlbuf, u, "PORT") : IS_NUM(Slice(urlbuf, u, "PORT")[i])
            /\ u.port <= PORT_MAX

=============================================================================
