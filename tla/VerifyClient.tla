---------------------------- MODULE VerifyClient ----------------------------
(***************************************************************************)
(* The response times of the verify client (client/verify_statistics.c).   *)
(* A time is abstracted to the round trip it was taken in.  allocated is   *)
(* the number of doubles malloc and realloc gave; a write behind them is   *)
(* recorded as the abort "overrun".                                        *)
(***************************************************************************)
EXTENDS MStream, TLC

rta_new(size) ==
    [size_in_doubles |-> size, allocated |-> size, readings |-> <<>>,
     round_trip_start_time |-> 0, measured |-> FALSE, aborted |-> "no"]

rta_start_measurement(a) == [a EXCEPT !.measured = FALSE]
rta_end_measurement(a) == [a EXCEPT !.measured = TRUE]

rta_length(a) == Len(a.readings)

\* size_in_doubles keeps its value.
rta_expand(a, to) ==
    Asserting(a, to > a.size_in_doubles, "rta_expand", [a EXCEPT !.allocated = to])

Put(a, value) ==
    Asserting(a, rta_length(a) < a.allocated, "overrun", [a EXCEPT !.readings = Append(@, value)])

rta_add(a, value) ==
    Put(IF rta_length(a) + 1 >= a.size_in_doubles THEN rta_expand(a, 2 * a.size_in_doubles) ELSE a,
        value)

rta_start_round_trip(a, now) == [a EXCEPT !.round_trip_start_time = now]
rta_end_round_trip(a) == rta_add(a, a.round_trip_start_time)

\* Mutant: the readings already there are not counted.
NeedsRoom_source(dest, src) == rta_length(src) > dest.size_in_doubles

NeedsRoom(dest, src) == rta_length(dest) + rta_length(src) > dest.size_in_doubles

rta_append(dest, src) ==
    FoldLeft(Put, IF NeedsRoom(dest, src) THEN rta_expand(dest, rta_length(dest) + rta_length(src))
                  ELSE dest, src.readings)

rta_at_index(a, index) == a.readings[index + 1]

\* The mean and the variance as fractions of the number of readings.
rta_stat_analyse(a) ==
    LET n == rta_length(a)
        total == FoldLeft(+, 0, [i \in 1 .. n |-> rta_at_index(a, i - 1)])
        std_total == FoldLeft(LAMBDA t, v : t + (n * v - total) * (n * v - total), 0, a.readings)
    IN  [mean |-> <<total, n>>, variance |-> <<std_total, n * n * n>>, total_nbr_roundtrips |-> n]

-----------------------------------------------------------------------------
(***************************************************************************)
(* The verify client (client/verify_main.c and the files beside it): the   *)
(* options, one thread per client, and for every thread a number of        *)
(* connections with a number of round trips each.                          *)
(***************************************************************************)

CONSTANTS NBR_THREADS, NBR_CONNECTIONS_PER_THREAD, NBR_ROUNDTRIPS_PER_CONNECTION

verify_process_args(given) == given @@ [h |-> "127.0.0.1", p |-> 9002, n |-> 1, t |-> 1, c |-> 1, r |-> 1]

verify_ctx_new(select, args, id) ==
    [pc |-> "start", ident |-> id, i |-> 0, j |-> 0, roundtrip_per_connection_counter |-> 0,
     total_roundtrips |-> 0, rta |-> rta_new(args.r * args.c), parser |-> MSG_PARSER_NEW(select),
     stream |-> mstream_init(0), request |-> <<>>, verified |-> TRUE]

verify_ctx_reset_connection_round_trip_count(x) == [x EXCEPT !.roundtrip_per_connection_counter = 0]
verify_ctx_increment_connection_round_trip_count(x) ==
    [x EXCEPT !.roundtrip_per_connection_counter = @ + 1]
verify_ctx_increment_total_round_trip_count(x) == [x EXCEPT !.total_roundtrips = @ + 1]

\* "Client %d connection: %d msg: %d", one printable character for each triple.
RoundTrip(ident, i, j) == 100 + 36 * ident + 6 * i + j

make_request(x) == <<RoundTrip(x.ident, x.i, x.j)>>

\* "ServerResponse:[%s]" of the request's content is what the response has to hold.
verify_response(request, response) == response = <<91>> \o request \o <<93>>

-----------------------------------------------------------------------------
(* main *)

\* args is what the options say; all_readings is sized by the values before them.
NoClient(select) ==
    [pc |-> "main", select |-> select, args |-> verify_process_args(<<>>), created |-> 0, joined |-> 0,
     thread |-> <<>>, all_readings |-> rta_new(0), report |-> <<>>, aborted |-> "no"]

verify_main(v, given) == [v EXCEPT !.args = verify_process_args(given), !.pc = "create"]

TotalRoundtrips == NBR_THREADS * NBR_CONNECTIONS_PER_THREAD * NBR_ROUNDTRIPS_PER_CONNECTION

pthread_create_client(v) ==
    [v EXCEPT !.thread = Append(@, verify_ctx_new(v.select, v.args, v.created)), !.created = @ + 1]

Consolidate(v) == [v EXCEPT !.all_readings = rta_new(TotalRoundtrips), !.pc = "join"]

pthread_join(v) ==
    LET all == rta_append(v.all_readings, v.thread[v.joined + 1].rta) IN
    [v EXCEPT !.all_readings = all, !.joined = @ + 1, !.aborted = all.aborted]

Analyse(v) == [v EXCEPT !.report = rta_stat_analyse(v.all_readings), !.pc = "done"]

-----------------------------------------------------------------------------
(* verify_client_thread_function, in the steps between which others run. *)

Starts(x, args) ==
    [x EXCEPT !.rta = rta_start_measurement(@), !.pc = IF args.c = 0 THEN "end" ELSE "connect"]

\* The process and the thread after connecting.
ConnectsTo(s, x, args) ==
    LET m == mstream_new(s, args.p) IN
    [s |-> m.s, x |-> [verify_ctx_reset_connection_round_trip_count(x)
                           EXCEPT !.stream = m.stream, !.j = 0, !.pc = "write"]]

\* The start of a round trip, up to the write.
WritesRequest(s, x0, select) ==
    LET x == [x0 EXCEPT !.j = @ + 1]
        request == make_request(x)
        y == [x EXCEPT !.rta = rta_start_round_trip(@, RoundTrip(x.ident, x.i, x.j)),
                       !.request = request, !.pc = "read"]
    IN  {[s |-> t, x |-> y] : t \in mstream_write(s, x.stream, MSG_SERIALIZE(select, request))}

\* Mutant: one round trip more on every connection.
EndsConnection_late(x, args) == x.roundtrip_per_connection_counter > args.r

EndsConnection(x, args) == x.roundtrip_per_connection_counter >= args.r

\* A read of mstream_read; once a message is there, the rest of the round trip.
ReadsResponse(s, x, args) ==
    {LET y == [x EXCEPT !.stream = m.stream, !.parser = m.parser]
         r == ReadMessage(m.stream)
         ended == rta_end_round_trip(x.rta)
         z == verify_ctx_increment_total_round_trip_count(
                  verify_ctx_increment_connection_round_trip_count(
                      [y EXCEPT !.stream = r.stream, !.rta = ended,
                                !.verified = @ /\ verify_response(x.request, r.message)]))
     IN  IF ~Alive(m.s) \/ m.stream.input_msg_list = <<>> THEN [s |-> m.s, x |-> y]
         ELSE [s |-> [m.s EXCEPT !.aborted = ended.aborted],
               x |-> [z EXCEPT !.pc = IF EndsConnection(z, args) THEN "close" ELSE "write"]]
        : m \in mstream_read(s, x.stream, x.parser)}

ClosesStream(s, x, args) ==
    [s |-> mstream_free(s, x.stream),
     x |-> [x EXCEPT !.i = @ + 1, !.stream = mstream_init(0), !.request = <<>>,
                     !.pc = IF x.i + 1 < args.c THEN "connect" ELSE "end"]]

EndsThread(x) == [x EXCEPT !.rta = rta_end_measurement(@), !.pc = "done"]
=============================================================================
