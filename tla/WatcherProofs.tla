---------------------------- MODULE WatcherProofs ---------------------------
(***************************************************************************)
(* The rest of the steps of a program on the watchers of the epoll runloop *)
(* and what follows: streams, listeners, the loop and the invariant.       *)
(***************************************************************************)
EXTENDS WatcherLemmas

-----------------------------------------------------------------------------
(* Streams. *)

StreamBut(r2, r, s) == Own(r2, r, "stream", s) /\ DOMAIN NoStream \subseteq DOMAIN r2.stream[s]

LEMMA StreamRuns ==
    ASSUME NEW r, Runs(r), NEW s \in Stream, NEW r2, StreamBut(r2, r, s)
    PROVE  Runs(r2) /\ RStep(r2, r, s) /\ r2.entries = r.entries /\ r2.interest = r.interest
<1>1. "stream" \in Kind /\ Own(r2, r, "stream", s)
  BY DEF Kind, StreamBut
<1>2. /\ Sound(r2) /\ Alive(r2) /\ ~r2.closed_flag /\ RStep(r2, r, s)
      /\ r2.entries = r.entries /\ r2.interest = r.interest /\ DOMAIN r2 = DOMAIN r
      /\ \A x \in Kind : DOMAIN r2[x] = DOMAIN r[x]
  BY <1>1, OwnSound
<1>3. /\ DOMAIN r2.timer = DOMAIN r.timer /\ DOMAIN r2.eventfd = DOMAIN r.eventfd
      /\ DOMAIN r2.stream = DOMAIN r.stream /\ DOMAIN r2.listener = DOMAIN r.listener
  BY <1>2 DEF Kind
<1>4. s \notin Timer /\ s \notin Eventfd /\ s \notin Listener
  BY WatcherAssumption
<1>5. \A v \in Stream : DOMAIN NoStream \subseteq DOMAIN r2.stream[v]
  BY <1>2 DEF StreamBut, RStep, Runs
<1>6. Runs(r2)
  BY <1>2, <1>3, <1>4, <1>5 DEF Runs, RStep
<1> QED BY <1>2, <1>6

LEMMA StreamReplaced ==
    ASSUME NEW r, Runs(r), NEW s \in Stream, NEW x, DOMAIN NoStream \subseteq DOMAIN x
    PROVE  LET r2 == [r EXCEPT !.stream[s] = x] IN StreamBut(r2, r, s) /\ r2.stream[s] = x
<1>1. DOMAIN r.stream = Stream /\ "stream" \in DOMAIN r
  BY DEF Runs, Kind
<1> QED BY <1>1 DEF StreamBut, Own, Only

\* The mask and the postables change.
MaskIs(r2, r, s, m) ==
    StreamBut(r2, r, s) /\ r2.stream[s].event_mask = m /\ r2.stream[s].open = r.stream[s].open

LEMMA MaskSet ==
    ASSUME NEW r, Runs(r), NEW s \in Stream, NEW m, NEW rd, NEW wr
    PROVE  /\ MaskIs([r EXCEPT !.stream[s].event_mask = m, !.stream[s].read_postable_cb = rd], r, s, m)
           /\ MaskIs([r EXCEPT !.stream[s].event_mask = m, !.stream[s].write_postable_cb = wr], r, s, m)
           /\ MaskIs([r EXCEPT !.stream[s].event_mask = m, !.stream[s].read_postable_cb = rd,
                               !.stream[s].write_postable_cb = wr], r, s, m)
<1>1. DOMAIN r.stream = Stream /\ DOMAIN NoStream \subseteq DOMAIN r.stream[s] /\ "stream" \in DOMAIN r
  BY DEF Runs, Kind
<1>2. MaskIs([r EXCEPT !.stream[s].event_mask = m, !.stream[s].read_postable_cb = rd], r, s, m)
  BY <1>1, Zenon DEF MaskIs, StreamBut, Own, Only, NoStream
<1>3. MaskIs([r EXCEPT !.stream[s].event_mask = m, !.stream[s].write_postable_cb = wr], r, s, m)
  BY <1>1, Zenon DEF MaskIs, StreamBut, Own, Only, NoStream
<1>4. MaskIs([r EXCEPT !.stream[s].event_mask = m, !.stream[s].read_postable_cb = rd,
                       !.stream[s].write_postable_cb = wr], r, s, m)
  BY <1>1, Zenon DEF MaskIs, StreamBut, Own, Only, NoStream
<1> QED BY <1>2, <1>3, <1>4

LEMMA StreamIsOK ==
    ASSUME NEW r, NEW n, NEW s \in Stream
    PROVE  /\ s \in Watcher
           /\ WatcherOK(r, n, s) <=> StreamOK(r, n, s)
           /\ QueuedOK(r, n, s) <=> Has(r, s)
BY WatcherAssumption DEF WatcherOK, QueuedOK

LEMMA ToldSet ==
    ASSUME HasNotes(note), NEW s \in Stream
    PROVE  /\ NStep(Told(s), note, s) /\ Quiet(Told(s), note) /\ s \in Told(s).told
           /\ LET n == [note EXCEPT !.told = @ \ {s}] IN NStep(n, note, s) /\ Quiet(n, note) /\ s \notin n.told
BY DEF NStep, Quiet, HasNotes, NoNote, Told

\* What a call on a stream has to show.
LEMMA StreamKeeps ==
    ASSUME WcInv, NEW s \in Stream, NEW r2, NEW n2, Call(r2, n2), Runs(r2), RStep(r2, rl, s),
           NStep(n2, note, s), Quiet(n2, note), StreamOK(r2, n2, s), ~Has(r2, s) => ~Queued(s)
    PROVE  WcInv'
BY StreamIsOK, CallKeeps

\* The stream's mask changes and the kernel is told.
LEMMA MaskKeeps ==
    ASSUME WcInv, NEW s \in Stream, InTable(s), NEW r1, NEW m, MaskIs(r1, rl, s, m),
           m \subseteq {"IN", "OUT", "RDHUP", "ET"}, Call(WithMask(r1, s), Told(s))
    PROVE  WcInv'
<1> DEFINE r2 == runloop_reregister(r1, fdOf[s], m, s)
<1>0. Alive(rl) /\ HasNotes(note) /\ Has(rl, s)
  BY DEF Call, InProgram, WcInv, InTable, Has
<1>1. Runs(rl) /\ StreamOK(rl, note, s) /\ s \in Watcher
  BY <1>0, StreamIsOK DEF WcInv
<1>2. Runs(r1) /\ RStep(r1, rl, s) /\ r1.entries = rl.entries /\ r1.interest = rl.interest /\ Has(r1, s)
  BY <1>0, <1>1, StreamRuns DEF MaskIs, Has
<1>3. "EXCLUSIVE" \notin r1.interest[fdOf[s]] /\ m \in SUBSET EpollEvent
  BY <1>0, <1>1, <1>2 DEF StreamOK, EpollEvent
<1>4. Renewed(r2, r1, fdOf[s], m)
  BY <1>1, <1>2, <1>3, ReregisterFields, Zenon DEF Has, Runs
<1>5. Call(r2, Told(s))
  BY DEF WithMask, MaskIs
<1> HIDE DEF r2
<1>6. Runs(r2) /\ RStep(r2, r1, s) /\ SameWatchers(r2, r1) /\ r2.entries = r1.entries /\ r2.interest[fdOf[s]] = m
  <2>1. RenewedAt(r2, r1, s, m)
    BY <1>1, <1>2, <1>4, RenewedRuns
  <2> QED BY <2>1 DEF RenewedAt
<1>7. RStep(r2, rl, s) /\ r2.stream = r1.stream /\ Has(r2, s)
  BY <1>2, <1>6, StepTwice DEF SameWatchers, Kind, Has
<1>8. NStep(Told(s), note, s) /\ Quiet(Told(s), note) /\ s \in Told(s).told
  BY <1>0, ToldSet, Zenon
<1>9. StreamOK(r2, Told(s), s)
  <2>1. r2.stream[s].event_mask = m /\ r2.stream[s].open
    BY <1>0, <1>1, <1>7 DEF StreamOK, MaskIs
  <2> QED BY <1>6, <1>7, <1>8, <2>1 DEF StreamOK
<1> QED BY <1>5, <1>6, <1>7, <1>8, <1>9, StreamKeeps

LEMMA StreamCallKeeps ==
    ASSUME WcInv, NEW s \in Stream, StreamCall(s)
    PROVE  WcInv'
<1>0. Alive(rl) /\ HasNotes(note)
  BY DEF StreamCall, CallAbsent, Call, InProgram, WcInv
<1>1. Runs(rl) /\ StreamOK(rl, note, s) /\ s \in Watcher
  BY <1>0, StreamIsOK DEF WcInv
<1>2. InTable(s) <=> Has(rl, s)
  BY DEF InTable, Has
<1>3. Queued(s) => Has(rl, s)
  BY <1>0 DEF Queued, WcInv, BatchOK, QueuedOK
<1>4. NStep(note, note, s) /\ Quiet(note, note)
  BY <1>0, SameNote
<1>5. CASE ~rl.stream[s].open /\ Call(runloop_stream_new(rl, s), note)
  <2> DEFINE x == [NoStream EXCEPT !.open = TRUE]
             r2 == [rl EXCEPT !.stream[s] = x]
  <2>1. DOMAIN NoStream \subseteq DOMAIN x /\ x.event_mask = {}
    BY DEF NoStream
  <2>2. Call(r2, note)
    BY <1>5 DEF runloop_stream_new, runloop_stream_init
  <2> HIDE DEF x
  <2>3. StreamBut(r2, rl, s) /\ r2.stream[s] = x
    BY <1>1, <2>1, StreamReplaced
  <2> HIDE DEF r2
  <2>4. Runs(r2) /\ RStep(r2, rl, s) /\ r2.entries = rl.entries
    BY <1>1, <2>3, StreamRuns
  <2>5. ~Has(rl, s) /\ ~Has(r2, s)
    BY <1>1, <1>5, <2>4 DEF StreamOK, Has
  <2>6. StreamOK(r2, note, s)
    BY <2>1, <2>3, <2>5 DEF StreamOK
  <2> QED BY <1>3, <1>4, <2>2, <2>4, <2>5, <2>6, StreamKeeps
<1>6. CASE rl.stream[s].open /\ ~InTable(s) /\ Call(runloop_stream_register(rl, s), [note EXCEPT !.told = @ \ {s}])
  <2> DEFINE r2 == runloop_register(rl, fdOf[s], {}, s)
             n2 == [note EXCEPT !.told = @ \ {s}]
  <2>1. Call(r2, n2)
    BY <1>6 DEF runloop_stream_register
  <2>2. Placed(r2, rl, fdOf[s], s, {})
    <3>1. \A i \in SUBSET EpollEvent : Placed(runloop_register(rl, fdOf[s], i, s), rl, fdOf[s], s, i)
      BY <1>1, <1>2, <1>6, NotHas, RegisterFields DEF Runs
    <3> QED BY <3>1
  <2>3. NStep(n2, note, s) /\ Quiet(n2, note) /\ s \notin n2.told
    BY <1>0, ToldSet
  <2> HIDE DEF r2, n2
  <2>4. Runs(r2) /\ RStep(r2, rl, s) /\ SameWatchers(r2, rl) /\ Has(r2, s) /\ r2.interest[fdOf[s]] = {}
    <3>1. PlacedAt(r2, rl, s, s, {})
      BY <1>1, <2>2, PlacedRuns
    <3> QED BY <3>1 DEF PlacedAt, Has
  <2>5. r2.stream = rl.stream
    BY <2>4 DEF SameWatchers, Kind
  <2>6. StreamOK(r2, n2, s)
    BY <1>1, <1>6, <2>3, <2>4, <2>5 DEF StreamOK
  <2> QED BY <2>1, <2>3, <2>4, <2>6, StreamKeeps
<1>7. CASE rl.stream[s].open /\ ~InTable(s) /\ Call(runloop_stream_free(rl, s), note)
  <2> DEFINE c == close_fd(rl, fdOf[s])
             r2 == [c EXCEPT !.stream[s] = NoStream]
  <2>1. Call(r2, note)
    BY <1>7 DEF runloop_stream_free
  <2>2. Runs(c) /\ RStep(c, rl, s) /\ c.entries = rl.entries
    BY <1>1, <1>2, <1>7, ClosedRuns
  <2> HIDE DEF c
  <2>3. StreamBut(r2, c, s) /\ r2.stream[s] = NoStream
    BY <2>2, StreamReplaced
  <2> HIDE DEF r2
  <2>4. Runs(r2) /\ RStep(r2, c, s) /\ r2.entries = c.entries
    BY <2>2, <2>3, StreamRuns
  <2>5. RStep(r2, rl, s) /\ ~Has(r2, s)
    BY <1>2, <1>7, <2>2, <2>4, StepTwice DEF Has
  <2>6. StreamOK(r2, note, s)
    BY <2>3, <2>5 DEF StreamOK, NoStream
  <2> QED BY <1>2, <1>3, <1>4, <1>7, <2>1, <2>4, <2>5, <2>6, StreamKeeps
<1>8. CASE InTable(s) /\ ~Queued(s) /\ Call(runloop_stream_deregister(rl, s), note)
  <2> DEFINE r2 == runloop_deregister(rl, fdOf[s])
  <2>1. Runs(r2) /\ RStep(r2, rl, s) /\ SameWatchers(r2, rl) /\ ~Has(r2, s)
    BY <1>1, <1>2, <1>8, Released
  <2>2. Call(r2, note)
    BY <1>8 DEF runloop_stream_deregister
  <2> HIDE DEF r2
  <2>3. StreamOK(r2, note, s)
    BY <1>1, <2>1 DEF StreamOK, SameWatchers, Kind
  <2> QED BY <1>4, <1>8, <2>1, <2>2, <2>3, StreamKeeps
<1>9. ASSUME InTable(s), NEW r1, NEW m, MaskIs(r1, rl, s, m), Call(WithMask(r1, s), Told(s)),
             m \ {"IN", "OUT", "RDHUP", "ET"} \subseteq rl.stream[s].event_mask
      PROVE  WcInv'
  BY <1>1, <1>9, MaskKeeps DEF StreamOK
<1> DEFINE k == rl.stream[s].event_mask
           rd == rl.stream[s].read_postable_cb
           wr == rl.stream[s].write_postable_cb
<1>10. CASE InTable(s) /\ Call(runloop_stream_arm_read(rl, s, "cb"), Told(s))
  <2> DEFINE m == k \cup {"IN", "RDHUP"}
             r1 == [rl EXCEPT !.stream[s].event_mask = m, !.stream[s].read_postable_cb = Given("cb", rd)]
  <2>1. r1 = [rl EXCEPT !.stream[s].event_mask = @ \cup {"IN", "RDHUP"},
                        !.stream[s].read_postable_cb = Given("cb", @)]
    BY <1>1 DEF Runs, NoStream
  <2>2. Call(WithMask(r1, s), Told(s))
    BY <1>10, <2>1 DEF runloop_stream_arm_read
  <2>3. MaskIs(r1, rl, s, m)
    BY <1>1, MaskSet, Zenon
  <2>4. m \ {"IN", "OUT", "RDHUP", "ET"} \subseteq k
    OBVIOUS
  <2> HIDE DEF r1, m
  <2> QED BY <1>9, <1>10, <2>2, <2>3, <2>4
<1>11. CASE InTable(s) /\ Call(runloop_stream_arm_write(rl, s, "cb"), Told(s))
  <2> DEFINE m == k \cup {"OUT", "RDHUP"}
             r1 == [rl EXCEPT !.stream[s].event_mask = m, !.stream[s].write_postable_cb = Given("cb", wr)]
  <2>1. r1 = [rl EXCEPT !.stream[s].event_mask = @ \cup {"OUT", "RDHUP"},
                        !.stream[s].write_postable_cb = Given("cb", @)]
    BY <1>1 DEF Runs, NoStream
  <2>2. Call(WithMask(r1, s), Told(s))
    BY <1>11, <2>1 DEF runloop_stream_arm_write
  <2>3. MaskIs(r1, rl, s, m)
    BY <1>1, MaskSet, Zenon
  <2>4. m \ {"IN", "OUT", "RDHUP", "ET"} \subseteq k
    OBVIOUS
  <2> HIDE DEF r1, m
  <2> QED BY <1>9, <1>11, <2>2, <2>3, <2>4
<1>12. CASE InTable(s) /\ Call(runloop_stream_arm_both(rl, s, "cb", "cb"), Told(s))
  <2> DEFINE m == k \cup {"ET", "OUT", "IN", "RDHUP"}
             r1 == [rl EXCEPT !.stream[s].event_mask = m, !.stream[s].read_postable_cb = Given("cb", rd),
                              !.stream[s].write_postable_cb = Given("cb", wr)]
  <2>1. r1 = [rl EXCEPT !.stream[s].event_mask = @ \cup {"ET", "OUT", "IN", "RDHUP"},
                        !.stream[s].read_postable_cb = Given("cb", @),
                        !.stream[s].write_postable_cb = Given("cb", @)]
    BY <1>1 DEF Runs, NoStream
  <2>2. Call(WithMask(r1, s), Told(s))
    BY <1>12, <2>1 DEF runloop_stream_arm_both
  <2>3. MaskIs(r1, rl, s, m)
    BY <1>1, MaskSet, Zenon
  <2>4. m \ {"IN", "OUT", "RDHUP", "ET"} \subseteq k
    OBVIOUS
  <2> HIDE DEF r1, m
  <2> QED BY <1>9, <1>12, <2>2, <2>3, <2>4
<1>13. CASE InTable(s) /\ Call(runloop_stream_disarm_read(rl, s), Told(s))
  <2> DEFINE m == k \ {"IN"}
             r1 == [rl EXCEPT !.stream[s].event_mask = m, !.stream[s].read_postable_cb = NULL]
  <2>1. Call(WithMask(r1, s), Told(s))
    BY <1>13 DEF runloop_stream_disarm_read
  <2>2. MaskIs(r1, rl, s, m)
    BY <1>1, MaskSet, Zenon
  <2>3. m \ {"IN", "OUT", "RDHUP", "ET"} \subseteq k
    OBVIOUS
  <2> HIDE DEF r1, m
  <2> QED BY <1>9, <1>13, <2>1, <2>2, <2>3
<1>14. CASE InTable(s) /\ Call(runloop_stream_disarm_write(rl, s), Told(s))
  <2> DEFINE m == k \ {"OUT"}
             r1 == [rl EXCEPT !.stream[s].event_mask = m, !.stream[s].write_postable_cb = NULL]
  <2>1. Call(WithMask(r1, s), Told(s))
    BY <1>14 DEF runloop_stream_disarm_write
  <2>2. MaskIs(r1, rl, s, m)
    BY <1>1, MaskSet, Zenon
  <2>3. m \ {"IN", "OUT", "RDHUP", "ET"} \subseteq k
    OBVIOUS
  <2> HIDE DEF r1, m
  <2> QED BY <1>9, <1>14, <2>1, <2>2, <2>3
<1>15. CASE rl.stream[s].open /\ CallAbsent(s, runloop_stream_deregister(rl, s))
  BY <1>1, <1>2, <1>15, AbsentKeeps DEF CallAbsent, runloop_stream_deregister
<1> QED BY <1>5, <1>6, <1>7, <1>8, <1>10, <1>11, <1>12, <1>13, <1>14, <1>15 DEF StreamCall

-----------------------------------------------------------------------------
(* Listeners. *)

ListenerBut(r2, r, l) == Own(r2, r, "listener", l) /\ DOMAIN NoListener \subseteq DOMAIN r2.listener[l]

LEMMA ListenerRuns ==
    ASSUME NEW r, Runs(r), NEW l \in Listener, NEW r2, ListenerBut(r2, r, l)
    PROVE  Runs(r2) /\ RStep(r2, r, l) /\ r2.entries = r.entries /\ r2.interest = r.interest
<1>1. "listener" \in Kind /\ Own(r2, r, "listener", l)
  BY DEF Kind, ListenerBut
<1>2. /\ Sound(r2) /\ Alive(r2) /\ ~r2.closed_flag /\ RStep(r2, r, l)
      /\ r2.entries = r.entries /\ r2.interest = r.interest /\ DOMAIN r2 = DOMAIN r
      /\ \A x \in Kind : DOMAIN r2[x] = DOMAIN r[x]
  BY <1>1, OwnSound
<1>3. /\ DOMAIN r2.timer = DOMAIN r.timer /\ DOMAIN r2.eventfd = DOMAIN r.eventfd
      /\ DOMAIN r2.stream = DOMAIN r.stream /\ DOMAIN r2.listener = DOMAIN r.listener
  BY <1>2 DEF Kind
<1>4. l \notin Timer /\ l \notin Eventfd /\ l \notin Stream
  BY WatcherAssumption
<1>5. \A v \in Listener : DOMAIN NoListener \subseteq DOMAIN r2.listener[v]
  BY <1>2 DEF ListenerBut, RStep, Runs
<1>6. Runs(r2)
  BY <1>2, <1>3, <1>4, <1>5 DEF Runs, RStep
<1> QED BY <1>2, <1>6

LEMMA ListenerReplaced ==
    ASSUME NEW r, Runs(r), NEW l \in Listener, NEW x, DOMAIN NoListener \subseteq DOMAIN x
    PROVE  LET r2 == [r EXCEPT !.listener[l] = x] IN ListenerBut(r2, r, l) /\ r2.listener[l] = x
<1>1. DOMAIN r.listener = Listener /\ "listener" \in DOMAIN r
  BY DEF Runs, Kind
<1> QED BY <1>1 DEF ListenerBut, Own, Only

LEMMA AcceptSet ==
    ASSUME NEW r, Runs(r), NEW l \in Listener, NEW x
    PROVE  LET r2 == [r EXCEPT !.listener[l].on_accept_callback = x]
           IN  /\ ListenerBut(r2, r, l) /\ r2.listener[l].on_accept_callback = x
               /\ r2.listener[l].open = r.listener[l].open
<1>1. DOMAIN r.listener = Listener /\ DOMAIN NoListener \subseteq DOMAIN r.listener[l] /\ "listener" \in DOMAIN r
  BY DEF Runs, Kind
<1> QED BY <1>1 DEF ListenerBut, Own, Only, NoListener

LEMMA ListenSet ==
    ASSUME NEW r, Runs(r), NEW l \in Listener, NEW x
    PROVE  LET r2 == [r EXCEPT !.listener[l].listen_postable = x]
           IN  /\ ListenerBut(r2, r, l) /\ r2.listener[l].listen_postable = x
               /\ r2.listener[l].on_accept_callback = r.listener[l].on_accept_callback
               /\ r2.listener[l].open = r.listener[l].open
<1>1. DOMAIN r.listener = Listener /\ DOMAIN NoListener \subseteq DOMAIN r.listener[l] /\ "listener" \in DOMAIN r
  BY DEF Runs, Kind
<1> QED BY <1>1 DEF ListenerBut, Own, Only, NoListener

LEMMA ListenerOpened ==
    ASSUME NEW r, Runs(r), NEW l \in Listener
    PROVE  ListenerBut(asio_listener_new(r, l), r, l)
<1>1. DOMAIN r.listener = Listener /\ DOMAIN NoListener \subseteq DOMAIN r.listener[l] /\ "listener" \in DOMAIN r
  BY DEF Runs, Kind
<1> QED BY <1>1, Zenon DEF ListenerBut, Own, Only, NoListener, asio_listener_new, asio_listener_init,
                    runloop_listener_new, runloop_listener_init

LEMMA ListenerIsOK ==
    ASSUME NEW r, NEW n, NEW l \in Listener
    PROVE  /\ l \in Watcher
           /\ WatcherOK(r, n, l) <=> ListenerOK(r, l)
           /\ QueuedOK(r, n, l) <=> Has(r, l)
BY WatcherAssumption DEF WatcherOK, QueuedOK

\* What a call on a listener has to show.
LEMMA ListenerKeeps ==
    ASSUME WcInv, NEW l \in Listener, NEW r2, Call(r2, note), Runs(r2), RStep(r2, rl, l),
           ListenerOK(r2, l), ~Has(r2, l) => ~Queued(l)
    PROVE  WcInv'
<1>1. NStep(note, note, l) /\ Quiet(note, note)
  BY SameNote DEF WcInv
<1> QED BY <1>1, ListenerIsOK, CallKeeps

\* The kernel refuses to modify a listener.
LEMMA NotModified ==
    ASSUME NEW r, Runs(r), NEW l \in Listener, Has(r, l), "EXCLUSIVE" \in r.interest[fdOf[l]],
           NEW i \in SUBSET EpollEvent
    PROVE  LET r2 == runloop_reregister(r, fdOf[l], i, l)
           IN  r2.aborted = "epoll_ctl" /\ "aborted" \in DOMAIN r2
<1>1. runloop_reregister(r, fdOf[l], i, l) = Abort(r, "epoll_ctl")
  BY ReregisterFields, WatcherAssumption, Zenon DEF Runs, Has
<1>2. "aborted" \in DOMAIN r
  BY DEF Runs, Sound, IsRunloop
<1> QED BY <1>1, <1>2 DEF Abort

LEMMA ListenerCallKeeps ==
    ASSUME WcInv, NEW l \in Listener, ListenerCall(l)
    PROVE  WcInv'
<1>0. Alive(rl) /\ HasNotes(note)
  BY DEF ListenerCall, CallAbsent, Call, InProgram, WcInv
<1>1. Runs(rl) /\ ListenerOK(rl, l) /\ l \in Watcher
  BY <1>0, ListenerIsOK DEF WcInv
<1>2. InTable(l) <=> Has(rl, l)
  BY DEF InTable, Has
<1>3. Queued(l) => Has(rl, l)
  BY <1>0 DEF Queued, WcInv, BatchOK, QueuedOK
<1>4. CASE ~rl.listener[l].open /\ Call(asio_listener_new(rl, l), note)
  <2> DEFINE r2 == asio_listener_new(rl, l)
  <2>1. ListenerBut(r2, rl, l) /\ Call(r2, note)
    BY <1>1, <1>4, ListenerOpened
  <2> HIDE DEF r2
  <2>2. Runs(r2) /\ RStep(r2, rl, l) /\ r2.entries = rl.entries
    BY <1>1, <2>1, ListenerRuns
  <2>3. ~Has(rl, l) /\ ~Has(r2, l)
    BY <1>1, <1>4, <2>2 DEF ListenerOK, Has
  <2>4. ListenerOK(r2, l)
    BY <2>3 DEF ListenerOK
  <2> QED BY <1>3, <2>1, <2>2, <2>3, <2>4, ListenerKeeps
<1>5. CASE rl.listener[l].open /\ ~InTable(l) /\ Call(asio_accept(rl, l, "cb"), note)
  <2> DEFINE p == "on_listening_postable"
             a == [rl EXCEPT !.listener[l].on_accept_callback = "cb"]
             b == [a EXCEPT !.listener[l].listen_postable = p]
             i == {"IN", "EXCLUSIVE"}
             r2 == runloop_register(b, fdOf[l], i, l)
  <2>0. NULL # "cb" /\ NULL # p /\ i \in SUBSET EpollEvent
    BY WatcherAssumption DEF EpollEvent
  <2>1. Call(r2, note)
    BY <1>5, <2>0, Zenon DEF asio_accept, runloop_listener_register
  <2>2. ListenerBut(a, rl, l) /\ a.listener[l].on_accept_callback = "cb" /\ a.listener[l].open = rl.listener[l].open
    BY <1>1, AcceptSet
  <2> HIDE DEF a, p
  <2>3. Runs(a) /\ RStep(a, rl, l) /\ a.entries = rl.entries
    BY <1>1, <2>2, ListenerRuns
  <2>4. /\ ListenerBut(b, a, l) /\ b.listener[l].listen_postable = p /\ b.listener[l].open = a.listener[l].open
        /\ b.listener[l].on_accept_callback = a.listener[l].on_accept_callback
    BY <2>3, ListenSet
  <2> HIDE DEF b
  <2>5. Runs(b) /\ RStep(b, a, l) /\ b.entries = a.entries
    BY <2>3, <2>4, ListenerRuns
  <2>6. b.entries[fdOf[l]] = NULL /\ Sound(b) /\ Alive(b) /\ ~b.closed_flag
    BY <1>1, <1>2, <1>5, <2>3, <2>5, NotHas, Zenon DEF Runs
  <2>7. Placed(r2, b, fdOf[l], l, i)
    BY <1>1, <2>0, <2>6, RegisterFields
  <2>8. "EXCLUSIVE" \in i
    OBVIOUS
  <2> HIDE DEF r2, i
  <2>9. Runs(r2) /\ RStep(r2, b, l) /\ SameWatchers(r2, b) /\ Has(r2, l) /\ r2.interest[fdOf[l]] = i
    <3>1. PlacedAt(r2, b, l, l, i)
      BY <1>1, <2>5, <2>7, PlacedRuns
    <3> QED BY <3>1 DEF PlacedAt, Has
  <2>10. RStep(r2, rl, l) /\ r2.listener = b.listener
    BY <2>3, <2>5, <2>9, StepTwice DEF SameWatchers, Kind
  <2>11. ListenerOK(r2, l)
    BY <1>5, <2>0, <2>2, <2>4, <2>8, <2>9, <2>10, Zenon DEF ListenerOK
  <2> QED BY <2>1, <2>9, <2>10, <2>11, ListenerKeeps
<1>6. CASE rl.listener[l].open /\ ~InTable(l) /\ Call(asio_listener_free(rl, l), note)
  <2> DEFINE a == [rl EXCEPT !.listener[l].on_accept_callback = NULL]
             c == close_fd(a, fdOf[l])
             r2 == [c EXCEPT !.listener[l] = NoListener]
  <2>1. Call(r2, note)
    BY <1>6 DEF asio_listener_free, asio_listener_deinit, runloop_listener_free
  <2>2. ListenerBut(a, rl, l)
    BY <1>1, AcceptSet
  <2> HIDE DEF a
  <2>3. Runs(a) /\ RStep(a, rl, l) /\ a.entries = rl.entries /\ ~Has(a, l)
    BY <1>1, <1>2, <1>6, <2>2, ListenerRuns DEF Has
  <2>4. Runs(c) /\ RStep(c, a, l) /\ c.entries = a.entries
    BY <1>1, <2>3, ClosedRuns
  <2> HIDE DEF c
  <2>5. ListenerBut(r2, c, l)
    BY <2>4, ListenerReplaced
  <2> HIDE DEF r2
  <2>6. Runs(r2) /\ RStep(r2, c, l) /\ r2.entries = c.entries
    BY <2>4, <2>5, ListenerRuns
  <2>7. RStep(r2, a, l) /\ ~Has(r2, l)
    BY <2>3, <2>4, <2>6, StepTwice DEF Has
  <2>8. RStep(r2, rl, l) /\ ListenerOK(r2, l)
    BY <2>3, <2>7, StepTwice DEF ListenerOK
  <2> QED BY <1>2, <1>3, <1>6, <2>1, <2>6, <2>7, <2>8, ListenerKeeps
<1>7. CASE InTable(l) /\ ~Queued(l) /\ Call(runloop_listener_deregister(rl, l), note)
  <2> DEFINE r2 == runloop_deregister(rl, fdOf[l])
  <2>1. Runs(r2) /\ RStep(r2, rl, l) /\ ~Has(r2, l)
    BY <1>1, <1>2, <1>7, Released
  <2>2. Call(r2, note)
    BY <1>7 DEF runloop_listener_deregister
  <2> HIDE DEF r2
  <2> QED BY <1>7, <2>1, <2>2, ListenerKeeps DEF ListenerOK
<1>8. CASE InTable(l) /\ Call(runloop_listener_arm(rl, l, NULL), Misuse("epoll_ctl"))
  <2> DEFINE p == rl.listener[l].listen_postable
             a == [rl EXCEPT !.listener[l].listen_postable = p]
             i == {"IN"}
             r2 == runloop_reregister(a, fdOf[l], i, l)
  <2>1. Call(r2, Misuse("epoll_ctl")) /\ i \in SUBSET EpollEvent
    BY <1>8 DEF runloop_listener_arm, EpollEvent
  <2> HIDE DEF p, i
  <2>2. ListenerBut(a, rl, l)
    BY <1>1, ListenSet
  <2> HIDE DEF a
  <2>3. Runs(a) /\ a.entries = rl.entries /\ a.interest = rl.interest
    BY <1>1, <2>2, ListenerRuns
  <2>4. Has(a, l) /\ "EXCLUSIVE" \in a.interest[fdOf[l]]
    BY <1>1, <1>2, <1>8, <2>3 DEF ListenerOK, Has
  <2>5. r2.aborted = "epoll_ctl" /\ "aborted" \in DOMAIN r2
    BY <2>1, <2>3, <2>4, NotModified
  <2> HIDE DEF r2
  <2> QED BY <2>1, <2>5, AbortKeeps
<1>9. CASE InTable(l) /\ Call(runloop_listener_disarm(rl, l), Misuse("epoll_ctl"))
  <2> DEFINE i == {}
             r2 == runloop_reregister(rl, fdOf[l], i, l)
  <2>1. Call(r2, Misuse("epoll_ctl")) /\ i \in SUBSET EpollEvent
    BY <1>9 DEF runloop_listener_disarm
  <2> HIDE DEF i
  <2>2. Has(rl, l) /\ "EXCLUSIVE" \in rl.interest[fdOf[l]]
    BY <1>1, <1>2, <1>9 DEF ListenerOK
  <2>3. r2.aborted = "epoll_ctl" /\ "aborted" \in DOMAIN r2
    BY <1>1, <2>1, <2>2, NotModified
  <2> HIDE DEF r2
  <2> QED BY <2>1, <2>3, AbortKeeps
<1>10. CASE rl.listener[l].open /\ CallAbsent(l, runloop_listener_deregister(rl, l))
  BY <1>1, <1>2, <1>10, AbsentKeeps DEF CallAbsent, runloop_listener_deregister
<1> QED BY <1>4, <1>5, <1>6, <1>7, <1>8, <1>9, <1>10 DEF ListenerCall

LEMMA HandleStreamKeeps ==
    ASSUME WcInv, Alive(rl), loop = "events", running = NULL, ~note.early, NEW s \in Stream, Next1(s),
           HandleStream(s)
    PROVE  WcInv'
<1> DEFINE c == StreamTurn(rl, s)
<1>0. Runs(rl) /\ HasNotes(note) /\ conns \in Nat /\ conns' = conns /\ RunningOK(note, NULL) /\ s \in Watcher
  BY DEF WcInv, HandleStream, Next1
<1>1. Handled(rl, c, note)
  BY DEF HandleStream, Next1
<1>2. c \in {NULL, <<s, "read">>, <<s, "write">>}
  BY DEF StreamTurn
<1>3. c # NULL => c[1] = s
  BY <1>0, <1>2, CallbackName
<1> HIDE DEF c
<1>4. RunningOK(note, c)
  BY <1>0, <1>3, WatcherAssumption DEF RunningOK
<1>5. NStep(note, note, s) /\ RStep(rl, rl, s) /\ WatcherOK(rl, note, s)
  BY <1>0, SameNote, NoStep DEF Next1
<1> QED BY <1>0, <1>1, <1>4, <1>5, HandledKeeps

LEMMA HandleListenerKeeps ==
    ASSUME WcInv, Alive(rl), loop = "events", running = NULL, ~note.early, note.misuse = "no",
           NEW l \in Listener, Next1(l), HandleListener(l)
    PROVE  WcInv'
<1> DEFINE taken == [rl EXCEPT !.listener[l].on_accept_callback = NULL]
           n2 == IF conns = 0 THEN Misuse("epoll_ctl") ELSE note
           c == <<l, "call">>
<1>0. Runs(rl) /\ HasNotes(note) /\ conns \in Nat /\ conns' \in Nat /\ RunningOK(note, NULL)
  BY DEF WcInv, HandleListener
<1>1. l \in Watcher /\ ListenerOK(rl, l) /\ Has(rl, l) /\ Delivered(l) = rl
  BY ListenerIsOK DEF Next1
<1>2. /\ rl.listener[l].listen_postable # NULL /\ rl.listener[l].on_accept_callback # NULL
      /\ "EXCLUSIVE" \in rl.interest[fdOf[l]]
  BY <1>1 DEF ListenerOK
<1>3. ListenerBut(taken, rl, l)
  BY <1>0, AcceptSet
<1>4. listener_handler(rl, l, conns > 0) = IF conns > 0 THEN runloop_deregister(taken, fdOf[l])
                                           ELSE runloop_reregister(taken, fdOf[l], {}, l)
  BY <1>2 DEF listener_handler, on_listening_postable, Asserting, runloop_listener_deregister,
              runloop_listener_disarm
<1>5. Handled(listener_handler(rl, l, conns > 0), c, n2)
  BY <1>1 DEF HandleListener
<1>6. /\ HasNotes(n2) /\ n2.early = note.early /\ n2.repeated = note.repeated /\ n2.wasOff = note.wasOff
      /\ n2.misuse = (IF conns = 0 THEN "epoll_ctl" ELSE "no")
  <2>1. CASE conns = 0
    <3>1. DOMAIN n2 = DOMAIN note /\ n2.misuse = "epoll_ctl" /\ n2.owed = note.owed
      BY <1>0, <2>1 DEF HasNotes, NoNote, Misuse
    <3>2. n2.early = note.early /\ n2.repeated = note.repeated /\ n2.wasOff = note.wasOff
      BY <1>0, <2>1 DEF HasNotes, NoNote, Misuse
    <3> HIDE DEF n2
    <3> QED BY <1>0, <2>1, <3>1, <3>2 DEF HasNotes
  <2>2. CASE conns # 0
    <3>1. n2 = note
      BY <2>2
    <3> QED BY <1>0, <2>2, <3>1
  <2> QED BY <2>1, <2>2
<1>7. conns # 0 => NStep(n2, note, l)
  BY <1>0, SameNote
<1> HIDE DEF taken, n2
<1>8. /\ Runs(taken) /\ RStep(taken, rl, l) /\ Has(taken, l) /\ "EXCLUSIVE" \in taken.interest[fdOf[l]]
  BY <1>0, <1>1, <1>2, <1>3, ListenerRuns DEF Has
<1>9. CASE conns # 0
  <2> DEFINE r2 == runloop_deregister(taken, fdOf[l])
  <2>1. Runs(r2) /\ RStep(r2, taken, l) /\ ~Has(r2, l)
    BY <1>1, <1>8, Released
  <2>2. Handled(r2, c, n2)
    BY <1>0, <1>4, <1>5, <1>9
  <2> HIDE DEF r2
  <2>3. RStep(r2, rl, l) /\ ListenerOK(r2, l)
    BY <1>8, <2>1, StepTwice DEF ListenerOK
  <2>4. WatcherOK(r2, n2, l)
    BY <2>3, ListenerIsOK
  <2>5. c # NULL /\ c[1] = l /\ l \notin Eventfd
    BY <1>1, CallbackName, WatcherAssumption
  <2> HIDE DEF c
  <2>6. RunningOK(n2, c)
    BY <1>0, <1>6, <2>5 DEF RunningOK
  <2> QED BY <1>0, <1>7, <1>9, <2>1, <2>2, <2>3, <2>4, <2>6, HandledKeeps
<1>10. CASE conns = 0
  <2> DEFINE i == {}
             r2 == runloop_reregister(taken, fdOf[l], i, l)
  <2>1. Handled(r2, c, n2) /\ i \in SUBSET EpollEvent
    BY <1>0, <1>4, <1>5, <1>10
  <2> HIDE DEF i
  <2>2. r2.aborted = "epoll_ctl" /\ "aborted" \in DOMAIN r2
    BY <1>8, <2>1, NotModified, Zenon
  <2> HIDE DEF r2
  <2>3. rl' = r2 /\ note' = n2 /\ running' = NULL /\ ~Alive(r2)
    BY <2>1, <2>2 DEF Handled, Alive
  <2>4. RunningOK(n2, NULL)
    BY <1>0, <1>6 DEF RunningOK
  <2> QED BY <1>6, <1>10, <2>2, <2>3, <2>4 DEF WcInv
<1> QED BY <1>9, <1>10

-----------------------------------------------------------------------------
(* The loop, the kernel and the other threads. *)

LEMMA ReportedTimer ==
    ASSUME NEW t \in Timer, NEW x, <<fdOf[t], x>> \in ReadyOf(rl, conns, sock)
    PROVE  rl.timer[t].expired
<1>1. \A v \in Watcher : fdOf[v] = fdOf[t] => v = t
  BY WatcherAssumption
<1>2. \A v \in Eventfd \cup Listener \cup Stream : fdOf[v] # fdOf[t]
  BY <1>1, WatcherAssumption
<1> QED BY <1>1, <1>2, WatcherAssumption DEF ReadyOf

LEMMA ReportedEventfd ==
    ASSUME NEW e \in Eventfd, NEW x, <<fdOf[e], x>> \in ReadyOf(rl, conns, sock)
    PROVE  x = "IN"
<1>1. \A v \in Stream : fdOf[v] # fdOf[e]
  BY WatcherAssumption
<1> QED BY <1>1 DEF ReadyOf

LEMMA ReportedOK ==
    ASSUME WcInv, Alive(rl), NEW d \in Reportable, NEW n2, n2.elapsed = note.elapsed, n2.wasOff = note.off
    PROVE  QueuedOK(rl, n2, rl.epoll[d]) /\ fdOf[rl.epoll[d]] = d
<1> DEFINE w == rl.epoll[d]
<1>0. Runs(rl) /\ Sound(rl)
  BY Zenon DEF WcInv, Runs
<1>1. d \in Fd /\ w = rl.entries[d] /\ w # NULL
  BY <1>0, Zenon DEF Reportable, Runs, Sound, Mirrored
<1>2. w \in Watcher /\ fdOf[w] = d /\ Has(rl, w)
  BY <1>0, <1>1 DEF Sound, IsRunloop, Slot, OwnPlace, Has
<1>3. PICK x \in rl.interest[d] \cup {"ERR", "HUP"} : <<d, x>> \in ReadyOf(rl, conns, sock)
  BY Zenon DEF Reportable, WcInv
<1> HIDE DEF w
<1>4. WatcherOK(rl, note, w)
  BY <1>2 DEF WcInv
<1>5. ASSUME w \in Timer PROVE w \in n2.elapsed
  <2>1. rl.timer[w].expired
    BY <1>2, <1>3, <1>5, ReportedTimer
  <2> QED BY <1>4, <1>5, <2>1, Zenon DEF WatcherOK, TimerOK
<1>6. ASSUME w \in Eventfd PROVE rl.eventfd[w].fdevent_postable # NULL /\ w \notin n2.wasOff
  <2>1. x = "IN"
    BY <1>2, <1>3, <1>6, ReportedEventfd
  <2>2. rl.interest[fdOf[w]] # {}
    BY <1>2, <1>3, <2>1
  <2> QED BY <1>2, <1>4, <1>6, <2>2, Zenon DEF WatcherOK, EventfdOK
<1>7. QueuedOK(rl, n2, w)
  BY <1>2, <1>5, <1>6 DEF QueuedOK
<1> QED BY <1>2, <1>7 DEF w

LEMMA WaitKeeps ==
    ASSUME WcInv, Wait
    PROVE  WcInv'
<1> DEFINE n2 == [note EXCEPT !.reset = {}, !.wasOff = note.off]
<1>1. /\ Alive(rl) /\ running = NULL /\ running' = NULL /\ rl' = rl /\ ready' = ready /\ conns' = conns
      /\ sock' = sock /\ note' = n2
  BY DEF Wait, runloop_run_wait, AtEpollWait
<1>2. /\ Runs(rl) /\ HasNotes(note) /\ RunningOK(note, NULL) /\ conns \in Nat /\ ready = ReadyOf(rl, conns, sock)
      /\ \A w \in Watcher : WatcherOK(rl, note, w)
  BY <1>1 DEF WcInv
<1>3. /\ DOMAIN n2 = DOMAIN note /\ n2.elapsed = note.elapsed /\ n2.wasOff = note.off /\ n2.once = note.once
      /\ n2.off = note.off /\ n2.told = note.told /\ n2.owed = note.owed /\ n2.misuse = note.misuse
      /\ n2.early = note.early /\ n2.repeated = note.repeated
  BY <1>2 DEF HasNotes, NoNote
<1> HIDE DEF n2
<1>4. HasNotes(n2) /\ RunningOK(n2, NULL)
  BY <1>2, <1>3 DEF HasNotes, RunningOK
<1>5. ASSUME NEW w \in Watcher PROVE WatcherOK(rl, n2, w)
  <2>1. WatcherOK(rl, note, w)
    BY <1>2
  <2> QED BY <1>3, <2>1, Zenon DEF WatcherOK, TimerOK, EventfdOK, StreamOK
<1>6. PICK S \in SUBSET Reportable : S # {} /\ \E order \in Orders(S) : batch' = [i \in DOMAIN order |-> rl.epoll[order[i]]]
  BY DEF Wait, runloop_run_wait
<1>7. PICK order \in Orders(S) : batch' = [i \in DOMAIN order |-> rl.epoll[order[i]]]
  BY <1>6
<1>8. IsFiniteSet(S) /\ Cardinality(S) \in Nat /\ Cardinality(S) # 0
  <2>1. IsFiniteSet(Fd) /\ S \subseteq Fd
    BY FS_Interval, RunloopAssumption DEF Fd, Reportable
  <2>2. IsFiniteSet(S)
    BY <2>1, FS_Subset
  <2> QED BY <1>6, <2>2, FS_EmptySet, FS_CardinalityType
<1> DEFINE b == batch'
<1>9. /\ order \in [1 .. Cardinality(S) -> S] /\ \A i, j \in DOMAIN order : order[i] = order[j] => i = j
  BY <1>7 DEF Orders
<1>10. DOMAIN b = 1 .. Cardinality(S) /\ \A i \in DOMAIN b : b[i] = rl.epoll[order[i]] /\ order[i] \in Reportable
  BY <1>7, <1>9
<1>11. \A i \in DOMAIN b : QueuedOK(rl, n2, b[i]) /\ fdOf[b[i]] = order[i]
  BY <1>1, <1>3, <1>10, ReportedOK
<1>12. \A i \in DOMAIN b : b[i] \in Watcher
  BY <1>11 DEF QueuedOK
<1>13. b \in Seq(Watcher) /\ b # <<>>
  <2>1. b \in [1 .. Cardinality(S) -> Watcher]
    BY <1>7, <1>9, <1>10, <1>12
  <2>2. b \in Seq(Watcher) /\ Len(b) = Cardinality(S)
    BY <1>8, <2>1
  <2> HIDE DEF b
  <2> QED BY <1>8, <2>2
<1>14. \A i, j \in DOMAIN b : b[i] = b[j] => i = j
  BY <1>9, <1>10, <1>11
<1> HIDE DEF b
<1>15. BatchOK(rl, n2, b)
  BY <1>11, <1>13, <1>14 DEF BatchOK
<1>16. BatchOK(rl', note', batch') /\ batch' # <<>>
  BY <1>1, <1>13, <1>15 DEF b
<1>17. rl'.aborted = note'.misuse /\ "aborted" \in DOMAIN rl'
  BY <1>1, <1>3, Zenon DEF WcInv
<1> QED BY <1>1, <1>2, <1>4, <1>5, <1>16, <1>17 DEF WcInv

LEMMA ReturnKeeps ==
    ASSUME WcInv, Return
    PROVE  WcInv'
<1> DEFINE n2 == [note EXCEPT !.early = FALSE, !.repeated = FALSE]
<1>1. /\ Alive(rl) /\ rl' = rl /\ ready' = ready /\ conns' = conns /\ sock' = sock /\ note' = n2 /\ batch' = batch
      /\ running # NULL /\ running' \in {NULL, <<running[1], "write">>}
      /\ loop' = IF running' = NULL /\ batch = <<>> THEN "top" ELSE loop
  BY DEF Return
<1>2. /\ HasNotes(note) /\ RunningOK(note, running) /\ BatchOK(rl, note, batch)
      /\ \A w \in Watcher : WatcherOK(rl, note, w)
  BY <1>1 DEF WcInv
<1>3. /\ DOMAIN n2 = DOMAIN note /\ n2.elapsed = note.elapsed /\ n2.wasOff = note.wasOff /\ n2.once = note.once
      /\ n2.off = note.off /\ n2.told = note.told /\ n2.owed = note.owed /\ n2.misuse = note.misuse
      /\ n2.early = FALSE /\ n2.repeated = FALSE /\ n2.reset = note.reset
  BY <1>2 DEF HasNotes, NoNote
<1> HIDE DEF n2
<1>4. HasNotes(n2)
  BY <1>2, <1>3 DEF HasNotes
<1>5. RunningOK(n2, running')
  <2>1. running' # NULL => running'[1] = running[1]
    BY <1>1
  <2> QED BY <1>1, <1>2, <1>3, <2>1 DEF RunningOK
<1>6. ASSUME NEW w \in Watcher PROVE WatcherOK(rl, n2, w)
  <2>1. WatcherOK(rl, note, w)
    BY <1>2
  <2> QED BY <1>3, <2>1, Zenon DEF WatcherOK, TimerOK, EventfdOK, StreamOK
<1>7. BatchOK(rl, n2, batch)
  BY <1>2, <1>3, Zenon DEF BatchOK, QueuedOK
<1>8. loop' = "events" /\ running' = NULL => batch # <<>>
  BY <1>1
<1> QED BY <1>1, <1>3, <1>4, <1>5, <1>6, <1>7, <1>8 DEF WcInv

LEMMA LoopKeeps ==
    ASSUME WcInv, Run \/ Idle
    PROVE  WcInv'
<1>1. /\ rl' = rl /\ ready' = ready /\ conns' = conns /\ sock' = sock /\ note' = note /\ batch' = batch
      /\ running' = running /\ loop' \in {"top", "returned"}
  BY DEF Run, Idle, runloop_run_idle
<1> QED BY <1>1 DEF WcInv

LEMMA OutsideKeeps ==
    ASSUME WcInv, Connections \/ SocketChanges
    PROVE  WcInv'
<1>1. PICK n, evs : Outside(rl, n, evs) /\ note' = note /\ (conns \in Nat => n \in Nat)
  <2>1. CASE Connections
    <3>1. conns \in Nat /\ conns > 0 => conns - 1 \in Nat
      OBVIOUS
    <3> QED BY <2>1, <3>1 DEF Connections
  <2>2. CASE SocketChanges
    BY <2>2 DEF SocketChanges
  <2> QED BY <2>1, <2>2
<1>2. /\ Alive(rl) /\ rl' = rl /\ batch' = batch /\ running' = running /\ loop' = loop
      /\ conns' = n /\ ready' = ReadyOf(rl', conns', sock')
  BY <1>1 DEF Outside
<1> QED BY <1>1, <1>2 DEF WcInv

-----------------------------------------------------------------------------
(* The invariant and what follows from it. *)

LEMMA InitRuns ==
    ASSUME WcInit
    PROVE  /\ Runs(rl) /\ rl.aborted = "no"
           /\ rl.entries = [d \in Fd |-> NULL] /\ SameWatchers(rl, NoWatchers)
<1> DEFINE core == {"entries", "count", "epoll", "interest", "closed_flag", "ready_list", "aborted"}
<1>1. DOMAIN runloop_new = core /\ DOMAIN NoWatchers = Kind /\ core \cap Kind = {}
  BY DEF runloop_new, NoWatchers, Kind
<1>2. /\ DOMAIN rl = core \cup Kind /\ (\A x \in core : rl[x] = runloop_new[x])
      /\ \A x \in Kind : rl[x] = NoWatchers[x]
  BY <1>1 DEF WcInit
<1>3. /\ rl.entries = runloop_new.entries /\ rl.count = runloop_new.count /\ rl.epoll = runloop_new.epoll
      /\ rl.interest = runloop_new.interest /\ rl.closed_flag = runloop_new.closed_flag
      /\ rl.aborted = runloop_new.aborted
  BY <1>2
<1>4. core \subseteq DOMAIN rl /\ Kind \subseteq DOMAIN rl
  BY <1>2
<1>5. IsRunloop(rl)
  BY <1>3, <1>4, NewSound DEF Sound, IsRunloop
<1>6. Sound(rl) /\ Alive(rl) /\ ~rl.closed_flag /\ rl.entries = [d \in Fd |-> NULL]
  BY <1>3, <1>5, NewSound DEF Sound, OwnPlace, Counted, Used, Mirrored, Alive
<1>7. /\ rl.timer = NoWatchers.timer /\ rl.eventfd = NoWatchers.eventfd
      /\ rl.stream = NoWatchers.stream /\ rl.listener = NoWatchers.listener
  BY <1>2 DEF Kind
<1>8. Runs(rl)
  BY <1>4, <1>6, <1>7, Zenon DEF Runs, NoWatchers
<1> QED BY <1>2, <1>3, <1>6, <1>8, NewSound DEF SameWatchers

LEMMA InitInv == WcInit => WcInv
<1> SUFFICES ASSUME WcInit PROVE WcInv
  OBVIOUS
<1>1. /\ Runs(rl) /\ rl.aborted = "no"
      /\ rl.entries = [d \in Fd |-> NULL] /\ SameWatchers(rl, NoWatchers)
  BY InitRuns
<1>2. /\ note = NoNote /\ batch = <<>> /\ loop = "setup" /\ running = NULL /\ conns = 0 /\ sock = {} /\ ready = {}
  BY DEF WcInit
<1>3. HasNotes(note) /\ note.misuse = "no" /\ ~note.early /\ ~note.repeated /\ note.owed = [e \in Eventfd |-> 0]
  BY <1>2, Zenon DEF HasNotes, NoNote
<1>4. /\ rl.timer = [t \in Timer |-> NoTimer] /\ rl.eventfd = [e \in Eventfd |-> NoEventfd]
      /\ rl.stream = [s \in Stream |-> NoStream] /\ rl.listener = [l \in Listener |-> NoListener]
  BY <1>1, Zenon DEF SameWatchers, Kind, NoWatchers
<1>5. ASSUME NEW w \in Watcher PROVE WatcherOK(rl, note, w)
  <2>1. ~Has(rl, w)
    BY <1>1, WatcherPlace DEF Has
  <2>2. w \in Timer => ~rl.timer[w].expired
    BY <1>4 DEF NoTimer
  <2>3. w \in Eventfd => ~rl.eventfd[w].open
    BY <1>4 DEF NoEventfd
  <2>4. w \in Stream => rl.stream[w].event_mask = {}
    BY <1>4 DEF NoStream
  <2> QED BY <2>1, <2>2, <2>3, <2>4, Zenon DEF WatcherOK, TimerOK, EventfdOK, StreamOK, ListenerOK
<1>6. RunningOK(note, running)
  BY <1>2, <1>3 DEF RunningOK
<1>7. BatchOK(rl, note, batch)
  BY <1>2 DEF BatchOK
<1>8. ready = ReadyOf(rl, conns, sock)
  <2>1. {t \in Timer : rl.timer[t].expired} = {}
    BY <1>4 DEF NoTimer
  <2>2. {e \in Eventfd : rl.eventfd[e].counter > 0} = {}
    BY <1>4 DEF NoEventfd
  <2> QED BY <1>2, <2>1, <2>2 DEF ReadyOf
<1>9. rl.aborted = note.misuse /\ "aborted" \in DOMAIN rl
  BY <1>1, <1>3, Zenon DEF Runs, Sound, IsRunloop
<1>10. conns \in Nat /\ ~(loop = "events")
  BY <1>2
<1> QED BY <1>1, <1>3, <1>5, <1>6, <1>7, <1>8, <1>9, <1>10, Zenon DEF WcInv

LEMMA DispatchKeeps ==
    ASSUME WcInv, Dispatch
    PROVE  WcInv'
<1> DEFINE w == Head(batch)
<1>1. Alive(rl) /\ loop = "events" /\ running = NULL
  BY DEF Dispatch
<1>2. Next1(w) /\ ~note.early /\ ~note.repeated /\ note.misuse = "no"
  BY <1>1, HeadQueued
<1>3. \/ w \in Timer /\ HandleTimer(w)
      \/ w \in Eventfd /\ HandleEventfd(w)
      \/ w \in Stream /\ HandleStream(w)
      \/ w \in Listener /\ HandleListener(w)
  BY DEF Dispatch
<1> HIDE DEF w
<1> QED BY <1>1, <1>2, <1>3, HandleTimerKeeps, HandleEventfdKeeps, HandleStreamKeeps, HandleListenerKeeps

LEMMA NextInv == WcInv /\ [WcNext]_clientVars => WcInv'
<1> SUFFICES ASSUME WcInv, [WcNext]_clientVars PROVE WcInv'
  OBVIOUS
<1>1. CASE UNCHANGED clientVars
  BY <1>1, Zenon DEF clientVars, WcInv, Alive, Runs, BatchOK
<1>2. CASE ProgramCall
  BY <1>2, TimerCallsKeep, EventfdCallKeeps, StreamCallKeeps, ListenerCallKeeps DEF ProgramCall
<1>3. CASE Run
  BY <1>3, LoopKeeps
<1>4. CASE LoopSteps
  BY <1>4, LoopKeeps, WaitKeeps, DispatchKeeps, ReturnKeeps DEF LoopSteps
<1>5. CASE Kernel
  BY <1>5, ExpiresKeeps, FireKeeps, OutsideKeeps DEF Kernel
<1> QED BY <1>1, <1>2, <1>3, <1>4, <1>5 DEF WcNext

LEMMA WcInvHolds == WcSpec => []WcInv
BY InitInv, NextInv, PTL DEF WcSpec

\* Whatever a program does with its watchers, a timer's callback runs only when the timer
\* has expired, or was set anew by an earlier callback of the same batch; a timer that does
\* not repeat is called back once at most.
THEOREM TimersDue == WcSpec => []TimerCallbackDue
<1>1. WcInv => TimerCallbackDue
  BY Zenon DEF WcInv, RunningOK, TimerCallbackDue
<1> QED BY <1>1, WcInvHolds, PTL

\* No event fired on an eventfd is lost or delivered twice, and an eventfd that was disarmed
\* before the events were collected is not called back.
THEOREM EventsOwed == WcSpec => []EventfdOwed
<1>1. WcInv => EventfdOwed
  <2> SUFFICES ASSUME WcInv PROVE EventfdOwed
    OBVIOUS
  <2>1. ASSUME Alive(rl), NEW e \in Eventfd, rl.eventfd[e].open PROVE rl.eventfd[e].counter = note.owed[e]
    <3>1. EventfdOK(rl, note, e)
      BY <2>1, EventfdIsOK, Zenon DEF WcInv
    <3> QED BY <2>1, <3>1 DEF EventfdOK
  <2>2. running # NULL => running[1] \notin note.wasOff \cap Eventfd
    BY DEF WcInv, RunningOK
  <2> QED BY <2>1, <2>2 DEF EventfdOwed
<1> QED BY <1>1, WcInvHolds, PTL

\* The kernel and a stream agree on the events the stream waits for, once the stream has
\* been armed or disarmed.
THEOREM MasksMatch == WcSpec => []MaskMatchesKernel
<1>1. WcInv => MaskMatchesKernel
  <2> SUFFICES ASSUME WcInv, Alive(rl), NEW s \in Stream, InTable(s)
               PROVE  rl.interest[fdOf[s]] = IF s \in note.told THEN rl.stream[s].event_mask ELSE {}
    BY DEF MaskMatchesKernel
  <2>1. StreamOK(rl, note, s)
    BY StreamIsOK DEF WcInv
  <2> QED BY <2>1 DEF StreamOK, InTable, Has
<1> QED BY <1>1, WcInvHolds, PTL

\* The calls that stop a program are those on a watcher that is not in the table and must
\* be, and those that modify a listener, which a failed accept does as well: for the rest
\* no call, no handler and no event makes an assertion of the runloop fail.
THEOREM MisuseAborts == WcSpec => []OnlyMisuseAborts
<1>1. WcInv => OnlyMisuseAborts
  BY DEF WcInv, OnlyMisuseAborts
<1> QED BY <1>1, WcInvHolds, PTL
=============================================================================
