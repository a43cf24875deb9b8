---------------------------- MODULE WatcherLemmas ---------------------------
(***************************************************************************)
(* An arbitrary program on the watchers of the epoll runloop, for every    *)
(* set of timers, eventfds, streams and listeners, every interval and any  *)
(* number of events and connections that wait.                             *)
(***************************************************************************)
EXTENDS WatcherClient, RunloopLemmas

Kind == {"timer", "eventfd", "stream", "listener"}

\* A runloop that is open and runs, with a structure for every watcher.
Runs(r) ==
    /\ Sound(r) /\ Alive(r) /\ ~r.closed_flag /\ Kind \subseteq DOMAIN r
    /\ DOMAIN r.timer = Timer /\ DOMAIN r.eventfd = Eventfd
    /\ DOMAIN r.stream = Stream /\ DOMAIN r.listener = Listener
    /\ \A t \in Timer : DOMAIN NoTimer \subseteq DOMAIN r.timer[t]
    /\ \A e \in Eventfd : DOMAIN NoEventfd \subseteq DOMAIN r.eventfd[e]
    /\ \A s \in Stream : DOMAIN NoStream \subseteq DOMAIN r.stream[s]
    /\ \A l \in Listener : DOMAIN NoListener \subseteq DOMAIN r.listener[l]

HasNotes(n) == DOMAIN NoNote \subseteq DOMAIN n /\ DOMAIN n.owed = Eventfd

Has(r, w) == r.entries[fdOf[w]] = w

(* What holds of each watcher. *)
TimerOK(r, n, t) ==
    /\ Has(r, t) => /\ r.timer[t].open /\ r.timer[t].timer_postable # NULL
                    /\ t \notin n.once /\ "EXCLUSIVE" \notin r.interest[fdOf[t]]
    /\ r.timer[t].expired => t \in n.elapsed

EventfdOK(r, n, e) ==
    /\ Has(r, e) => /\ r.eventfd[e].open /\ "EXCLUSIVE" \notin r.interest[fdOf[e]]
                    /\ r.interest[fdOf[e]] # {} => r.eventfd[e].fdevent_postable # NULL /\ e \notin n.off
    /\ r.eventfd[e].open => r.eventfd[e].counter \in Nat /\ r.eventfd[e].counter = n.owed[e]

StreamOK(r, n, s) ==
    /\ r.stream[s].event_mask \subseteq {"IN", "OUT", "RDHUP", "ET"}
    /\ Has(r, s) => /\ r.stream[s].open
                    /\ r.interest[fdOf[s]] = IF s \in n.told THEN r.stream[s].event_mask ELSE {}

ListenerOK(r, l) ==
    Has(r, l) => /\ r.listener[l].open /\ "EXCLUSIVE" \in r.interest[fdOf[l]]
                 /\ r.listener[l].listen_postable # NULL /\ r.listener[l].on_accept_callback # NULL

WatcherOK(r, n, w) ==
    /\ w \in Timer => TimerOK(r, n, w)
    /\ w \in Eventfd => EventfdOK(r, n, w)
    /\ w \in Stream => StreamOK(r, n, w)
    /\ w \in Listener => ListenerOK(r, w)

\* What holds of the watcher of an event that is still to be delivered.
QueuedOK(r, n, w) ==
    /\ w \in Watcher /\ Has(r, w)
    /\ w \in Timer => w \in n.elapsed \cup n.reset
    /\ w \in Eventfd => r.eventfd[w].fdevent_postable # NULL /\ w \notin n.wasOff

BatchOK(r, n, b) ==
    /\ b \in Seq(Watcher)
    /\ \A i, j \in DOMAIN b : b[i] = b[j] => i = j
    /\ \A i \in DOMAIN b : QueuedOK(r, n, b[i])

\* What holds of the callback that runs.
RunningOK(n, c) ==
    /\ n.early => c # NULL /\ c[1] \in n.reset
    /\ ~n.repeated
    /\ c # NULL => c[1] \notin n.wasOff \cap Eventfd

(* The inductive invariant. *)
WcInv ==
    /\ HasNotes(note) /\ "aborted" \in DOMAIN rl
    /\ rl.aborted = note.misuse
    /\ RunningOK(note, running)
    /\ Alive(rl) => /\ Runs(rl) /\ BatchOK(rl, note, batch)
                    /\ \A w \in Watcher : WatcherOK(rl, note, w)
                    /\ ready = ReadyOf(rl, conns, sock) /\ conns \in Nat
                    /\ loop = "events" /\ running = NULL => batch # <<>>

-----------------------------------------------------------------------------
(* What a call on w leaves alone. *)

\* r2 differs from r at the watcher w and its descriptor at most.
RStep(r2, r, w) ==
    /\ \A d \in Fd : d # fdOf[w] => r2.entries[d] = r.entries[d] /\ r2.interest[d] = r.interest[d]
    /\ \A v \in Timer : v # w => r2.timer[v] = r.timer[v]
    /\ \A v \in Eventfd : v # w => r2.eventfd[v] = r.eventfd[v]
    /\ \A v \in Stream : v # w => r2.stream[v] = r.stream[v]
    /\ \A v \in Listener : v # w => r2.listener[v] = r.listener[v]

\* The same for the history.
NStep(n2, n, w) ==
    /\ HasNotes(n2) /\ n2.wasOff = n.wasOff /\ n2.misuse = n.misuse /\ n.reset \subseteq n2.reset
    /\ \A v \in Watcher : v # w => /\ v \in n2.elapsed <=> v \in n.elapsed
                                   /\ v \in n2.once <=> v \in n.once
                                   /\ v \in n2.off <=> v \in n.off
                                   /\ v \in n2.told <=> v \in n.told
    /\ \A v \in Eventfd : v # w => n2.owed[v] = n.owed[v]

LEMMA Descriptors ==
    \A v, w \in Watcher : fdOf[v] \in Fd /\ fdOf[w] \in Fd /\ (v # w => fdOf[v] # fdOf[w])
BY WatcherAssumption, WatcherPlace

\* An entry that is not the watcher's is empty.
LEMMA NotHas ==
    ASSUME NEW r, Sound(r), NEW w \in Watcher, ~Has(r, w)
    PROVE  r.entries[fdOf[w]] = NULL
<1>1. fdOf[w] \in Fd /\ r.entries[fdOf[w]] \in Slot
  BY WatcherPlace DEF Sound, IsRunloop
<1>2. r.entries[fdOf[w]] # NULL => fdOf[r.entries[fdOf[w]]] = fdOf[w] /\ r.entries[fdOf[w]] \in Watcher
  BY <1>1 DEF Sound, OwnPlace, Slot
<1> QED BY <1>2, WatcherAssumption DEF Has

LEMMA OthersOK ==
    ASSUME NEW r2, NEW n2, NEW r, NEW n, NEW w \in Watcher, RStep(r2, r, w), NStep(n2, n, w),
           NEW v \in Watcher, v # w
    PROVE  /\ WatcherOK(r, n, v) => WatcherOK(r2, n2, v)
           /\ QueuedOK(r, n, v) => QueuedOK(r2, n2, v)
<1>1. fdOf[v] \in Fd /\ fdOf[v] # fdOf[w]
  BY Descriptors
<1>2. r2.entries[fdOf[v]] = r.entries[fdOf[v]] /\ r2.interest[fdOf[v]] = r.interest[fdOf[v]]
  BY <1>1 DEF RStep
<1>3. Has(r2, v) <=> Has(r, v)
  BY <1>2 DEF Has
<1>4. ASSUME v \in Timer PROVE TimerOK(r, n, v) => TimerOK(r2, n2, v)
  BY <1>2, <1>3, <1>4 DEF RStep, NStep, TimerOK
<1>5. ASSUME v \in Eventfd PROVE EventfdOK(r, n, v) => EventfdOK(r2, n2, v)
  BY <1>2, <1>3, <1>5 DEF RStep, NStep, EventfdOK
<1>6. ASSUME v \in Stream PROVE StreamOK(r, n, v) => StreamOK(r2, n2, v)
  BY <1>2, <1>3, <1>6 DEF RStep, NStep, StreamOK
<1>7. ASSUME v \in Listener PROVE ListenerOK(r, v) => ListenerOK(r2, v)
  BY <1>2, <1>3, <1>7 DEF RStep, ListenerOK
<1>8. WatcherOK(r, n, v) => WatcherOK(r2, n2, v)
  BY <1>4, <1>5, <1>6, <1>7 DEF WatcherOK
<1>9. QueuedOK(r, n, v) => QueuedOK(r2, n2, v)
  BY <1>3 DEF QueuedOK, RStep, NStep
<1> QED BY <1>8, <1>9

LEMMA StepTwice ==
    ASSUME NEW a, NEW b, NEW c, NEW w, RStep(b, a, w), RStep(c, b, w)
    PROVE  RStep(c, a, w)
BY DEF RStep

LEMMA NoStep == ASSUME NEW r, NEW w PROVE RStep(r, r, w)
BY DEF RStep

\* The structure of a watcher changes and nothing else.
Own(r2, r, k, w) ==
    /\ Only(r2, r, {k}) /\ DOMAIN r2[k] = DOMAIN r[k]
    /\ \A v \in DOMAIN r[k] : v # w => r2[k][v] = r[k][v]

LEMMA OwnSound ==
    ASSUME NEW r, Runs(r), NEW k \in Kind, NEW w, NEW r2, Own(r2, r, k, w)
    PROVE  /\ Sound(r2) /\ Alive(r2) /\ ~r2.closed_flag /\ RStep(r2, r, w)
           /\ r2.entries = r.entries /\ r2.interest = r.interest /\ DOMAIN r2 = DOMAIN r
           /\ \A x \in Kind : DOMAIN r2[x] = DOMAIN r[x]
<1>0. k \notin {"entries", "count", "epoll", "interest", "closed_flag", "ready_list", "aborted"}
  BY DEF Kind
<1>1. /\ {"entries", "count", "epoll", "interest", "closed_flag", "ready_list", "aborted"} \subseteq DOMAIN r
      /\ IsRunloop(r) /\ Alive(r) /\ ~r.closed_flag /\ Kind \subseteq DOMAIN r
  BY DEF Runs, Sound, IsRunloop
<1>2. /\ r2.entries = r.entries /\ r2.count = r.count /\ r2.epoll = r.epoll /\ r2.interest = r.interest
      /\ r2.closed_flag = r.closed_flag /\ r2.ready_list = r.ready_list /\ r2.aborted = r.aborted
      /\ DOMAIN r2 = DOMAIN r
  BY <1>0, <1>1 DEF Own, Only
<1>3. IsRunloop(r2)
  BY <1>1, <1>2 DEF IsRunloop
<1>4. Sound(r2) /\ Alive(r2) /\ ~r2.closed_flag
  BY <1>1, <1>2, <1>3 DEF Runs, Sound, OwnPlace, Counted, Used, Mirrored, Alive
<1>5. ASSUME NEW x \in Kind PROVE DOMAIN r2[x] = DOMAIN r[x] /\ \A v \in DOMAIN r[x] : v # w => r2[x][v] = r[x][v]
  <2>1. CASE x = k
    BY <2>1 DEF Own
  <2>2. CASE x # k
    <3>1. r2[x] = r[x]
      BY <1>1, <2>2 DEF Own, Only
    <3> QED BY <3>1
  <2> QED BY <2>1, <2>2
<1>6. RStep(r2, r, w)
  BY <1>2, <1>5 DEF RStep, Kind, Runs
<1> QED BY <1>2, <1>4, <1>5, <1>6

\* The table changes at the descriptor of w; no structure does.
SameWatchers(r2, r) == \A x \in Kind : r2[x] = r[x]

\* What the loop r2 is when r has w's place filled with x, or its mask renewed.
PlacedAt(r2, r, w, x, i) ==
    /\ Runs(r2) /\ RStep(r2, r, w) /\ SameWatchers(r2, r)
    /\ r2.entries[fdOf[w]] = x /\ r2.interest[fdOf[w]] = i

RenewedAt(r2, r, w, i) ==
    /\ Runs(r2) /\ RStep(r2, r, w) /\ SameWatchers(r2, r)
    /\ r2.entries = r.entries /\ r2.interest[fdOf[w]] = i

LEMMA PlacedRuns ==
    ASSUME NEW r, Runs(r), NEW w \in Watcher, NEW x, NEW i, NEW r2, Placed(r2, r, fdOf[w], x, i)
    PROVE  PlacedAt(r2, r, w, x, i)
<1>1. /\ Sound(r2) /\ Alive(r2) /\ Only(r2, r, Table) /\ fdOf[w] \in Fd
      /\ r2.entries = [r.entries EXCEPT ![fdOf[w]] = x] /\ r2.interest = [r.interest EXCEPT ![fdOf[w]] = i]
  BY WatcherPlace DEF Placed
<1>2. DOMAIN r.entries = Fd /\ DOMAIN r.interest = Fd /\ "closed_flag" \in DOMAIN r /\ Kind \subseteq DOMAIN r
  BY DEF Runs, Sound, IsRunloop
<1>3. \A y \in Kind \cup {"closed_flag"} : r2[y] = r[y] /\ DOMAIN r2 = DOMAIN r
  BY <1>1, <1>2 DEF Only, Table, Kind
<1>4. SameWatchers(r2, r) /\ r2.closed_flag = r.closed_flag /\ DOMAIN r2 = DOMAIN r
  BY <1>3 DEF SameWatchers
<1>5. r2.timer = r.timer /\ r2.eventfd = r.eventfd /\ r2.stream = r.stream /\ r2.listener = r.listener
  BY <1>3 DEF Kind
<1>6. Runs(r2)
  BY <1>1, <1>4, <1>5 DEF Runs
<1>7. RStep(r2, r, w) /\ r2.entries[fdOf[w]] = x /\ r2.interest[fdOf[w]] = i
  BY <1>1, <1>2, <1>5 DEF RStep
<1> QED BY <1>4, <1>6, <1>7 DEF PlacedAt

LEMMA RenewedRuns ==
    ASSUME NEW r, Runs(r), NEW w \in Watcher, NEW i, NEW r2, Renewed(r2, r, fdOf[w], i)
    PROVE  RenewedAt(r2, r, w, i)
<1>1. /\ Sound(r2) /\ Alive(r2) /\ Only(r2, r, {"epoll", "interest"}) /\ fdOf[w] \in Fd
      /\ r2.interest = [r.interest EXCEPT ![fdOf[w]] = i]
  BY WatcherPlace DEF Renewed
<1>2. /\ DOMAIN r.interest = Fd /\ {"closed_flag", "entries"} \subseteq DOMAIN r /\ Kind \subseteq DOMAIN r
  BY DEF Runs, Sound, IsRunloop
<1>3. \A y \in Kind \cup {"closed_flag", "entries"} : r2[y] = r[y] /\ DOMAIN r2 = DOMAIN r
  BY <1>1, <1>2 DEF Only, Kind
<1>4. SameWatchers(r2, r) /\ r2.closed_flag = r.closed_flag /\ DOMAIN r2 = DOMAIN r /\ r2.entries = r.entries
  BY <1>3 DEF SameWatchers
<1>5. r2.timer = r.timer /\ r2.eventfd = r.eventfd /\ r2.stream = r.stream /\ r2.listener = r.listener
  BY <1>3 DEF Kind
<1>6. Runs(r2)
  BY <1>1, <1>4, <1>5 DEF Runs
<1>7. RStep(r2, r, w) /\ r2.interest[fdOf[w]] = i
  BY <1>1, <1>2, <1>4, <1>5 DEF RStep
<1> QED BY <1>4, <1>6, <1>7 DEF RenewedAt

\* A descriptor that is not in the table is closed.
LEMMA ClosedRuns ==
    ASSUME NEW r, Runs(r), NEW w \in Watcher, ~Has(r, w)
    PROVE  LET r2 == close_fd(r, fdOf[w]) IN
           Runs(r2) /\ RStep(r2, r, w) /\ SameWatchers(r2, r) /\ r2.entries = r.entries
<1> DEFINE d == fdOf[w]
           r2 == close_fd(r, d)
<1>1. d \in Fd /\ NULL \in Slot /\ IsRunloop(r) /\ {} \in SUBSET EpollEvent /\ r.entries[d] = NULL
  BY WatcherPlace, NotHas DEF Runs, Sound
<1>2. r2 = KernelSide(r, d, NULL, {})
  BY DEF close_fd, KernelSide
<1>3. /\ IsRunloop(r2) /\ Only(r2, r, {"epoll", "interest"})
      /\ r2.epoll = [r.epoll EXCEPT ![d] = NULL] /\ r2.interest = [r.interest EXCEPT ![d] = {}]
  <2>1. \A i \in SUBSET EpollEvent :
          LET k == KernelSide(r, d, NULL, i)
          IN  /\ IsRunloop(k) /\ Only(k, r, {"epoll", "interest"})
              /\ k.epoll = [r.epoll EXCEPT ![d] = NULL] /\ k.interest = [r.interest EXCEPT ![d] = i]
    BY <1>1, KernelChanged
  <2> QED BY <1>1, <1>2, <2>1
<1> HIDE DEF r2
<1>4. /\ r2.entries = r.entries /\ r2.count = r.count /\ r2.aborted = r.aborted
      /\ r2.closed_flag = r.closed_flag
  BY <1>1, <1>3 DEF IsRunloop, Only
<1>5. r2.epoll = r.epoll
  BY <1>1, <1>3 DEF Runs, Sound, Mirrored, IsRunloop
<1>6. Sound(r2) /\ Alive(r2)
  BY <1>3, <1>4, <1>5 DEF Runs, Sound, OwnPlace, Counted, Used, Mirrored, Alive
<1>7. Renewed(r2, r, d, {})
  BY <1>3, <1>6 DEF Renewed
<1>8. /\ Runs(r2) /\ RStep(r2, r, w) /\ SameWatchers(r2, r) /\ r2.entries = r.entries
  <2>1. RenewedAt(r2, r, w, {})
    BY <1>7, RenewedRuns
  <2> QED BY <2>1 DEF RenewedAt
<1> QED BY <1>8 DEF r2

-----------------------------------------------------------------------------
(* Steps that are about one watcher keep the invariant. *)

LEMMA BatchSame ==
    ASSUME NEW r2, NEW n2, NEW r, NEW n, NEW w \in Watcher, RStep(r2, r, w), NStep(n2, n, w),
           NEW b, BatchOK(r, n, b), (\E i \in DOMAIN b : b[i] = w) => QueuedOK(r2, n2, w)
    PROVE  BatchOK(r2, n2, b)
<1>1. ASSUME NEW i \in DOMAIN b PROVE QueuedOK(r2, n2, b[i])
  <2>1. QueuedOK(r, n, b[i]) /\ b[i] \in Watcher
    BY DEF BatchOK, QueuedOK
  <2>2. CASE b[i] = w
    BY <2>2
  <2>3. CASE b[i] # w
    BY <2>1, <2>3, OthersOK
  <2> QED BY <2>2, <2>3
<1> QED BY <1>1 DEF BatchOK

LEMMA BatchTail ==
    ASSUME NEW r2, NEW n2, NEW r, NEW n, NEW w \in Watcher, RStep(r2, r, w), NStep(n2, n, w),
           NEW b, BatchOK(r, n, b), b # <<>>, w = Head(b)
    PROVE  BatchOK(r2, n2, Tail(b))
<1> DEFINE c == Tail(b)
<1>1. b \in Seq(Watcher) /\ DOMAIN b = 1 .. Len(b) /\ Len(b) \in Nat /\ Len(b) # 0 /\ w = b[1]
  BY DEF BatchOK
<1>2. c \in Seq(Watcher) /\ DOMAIN c = 1 .. Len(b) - 1 /\ \A i \in 1 .. Len(b) - 1 : c[i] = b[i + 1]
  BY <1>1
<1> HIDE DEF c
<1>3. ASSUME NEW i \in DOMAIN c PROVE i + 1 \in DOMAIN b /\ i + 1 # 1 /\ 1 \in DOMAIN b /\ c[i] = b[i + 1]
  BY <1>1, <1>2
<1>4. ASSUME NEW i \in DOMAIN c PROVE QueuedOK(r2, n2, c[i])
  <2>1. QueuedOK(r, n, c[i]) /\ c[i] \in Watcher /\ c[i] # w
    BY <1>1, <1>3 DEF BatchOK, QueuedOK
  <2> QED BY <2>1, OthersOK
<1>5. ASSUME NEW i \in DOMAIN c, NEW j \in DOMAIN c, c[i] = c[j] PROVE i = j
  <2>1. i + 1 = j + 1
    BY <1>3, <1>5 DEF BatchOK
  <2> QED BY <1>2, <2>1
<1>6. BatchOK(r2, n2, c)
  BY <1>2, <1>4, <1>5 DEF BatchOK
<1> QED BY <1>6 DEF c

LEMMA StepKeeps ==
    ASSUME WcInv, Alive(rl), NEW w \in Watcher, Runs(rl'), RStep(rl', rl, w), NStep(note', note, w),
           WatcherOK(rl', note', w), RunningOK(note', running'), BatchOK(rl', note', batch'),
           ready' = ReadyOf(rl', conns', sock'), conns' \in Nat, loop' = "events" /\ running' = NULL => batch' # <<>>
    PROVE  WcInv'
<1>1. ASSUME NEW v \in Watcher PROVE WatcherOK(rl', note', v)
  <2>1. CASE v = w
    BY <2>1
  <2>2. CASE v # w
    <3>1. WatcherOK(rl, note, v)
      BY DEF WcInv
    <3> QED BY <2>2, <3>1, OthersOK
  <2> QED BY <2>1, <2>2
<1>2. note.misuse = "no"
  BY DEF WcInv, Alive
<1>3. HasNotes(note') /\ note'.misuse = "no"
  BY <1>2 DEF NStep
<1>4. rl'.aborted = "no" /\ "aborted" \in DOMAIN rl'
  BY DEF Runs, Alive, Sound, IsRunloop
<1> QED BY <1>1, <1>3, <1>4 DEF WcInv

Quiet(n2, n) == n2.early = n.early /\ n2.repeated = n.repeated

LEMMA RunningSame ==
    ASSUME NEW n2, NEW n, NEW w, NStep(n2, n, w), Quiet(n2, n), NEW c, RunningOK(n, c)
    PROVE  RunningOK(n2, c)
BY DEF NStep, Quiet, RunningOK

LEMMA CallKeeps ==
    ASSUME WcInv, NEW r2, NEW n2, Call(r2, n2), NEW w \in Watcher, Runs(r2), RStep(r2, rl, w),
           NStep(n2, note, w), Quiet(n2, note), WatcherOK(r2, n2, w), Queued(w) => QueuedOK(r2, n2, w)
    PROVE  WcInv'
<1>1. /\ rl' = r2 /\ note' = n2 /\ ready' = ReadyOf(r2, conns, sock) /\ Alive(rl)
      /\ batch' = batch /\ loop' = loop /\ running' = running /\ conns' = conns /\ sock' = sock
  BY DEF Call, InProgram
<1>2. BatchOK(r2, n2, batch)
  BY <1>1, BatchSame DEF WcInv, Queued
<1>3. RunningOK(n2, running)
  BY RunningSame DEF WcInv
<1>4. ready' = ReadyOf(rl', conns', sock')
  BY <1>1
<1>5. (loop = "events" /\ running = NULL => batch # <<>>) /\ conns \in Nat
  BY <1>1 DEF WcInv
<1> QED BY <1>1, <1>2, <1>3, <1>4, <1>5, StepKeeps

\* A call that stops the program.
LEMMA AbortKeeps ==
    ASSUME WcInv, NEW r2, NEW why, why # "no", Call(r2, Misuse(why)), r2.aborted = why, "aborted" \in DOMAIN r2
    PROVE  WcInv'
<1> DEFINE n2 == Misuse(why)
<1>1. rl' = r2 /\ note' = n2 /\ running' = running
  BY DEF Call
<1>2. HasNotes(note) /\ RunningOK(note, running)
  BY DEF WcInv
<1>3. ~Alive(r2)
  BY DEF Alive
<1>4. HasNotes(n2) /\ n2.misuse = why /\ RunningOK(n2, running)
  BY <1>2 DEF HasNotes, NoNote, RunningOK, Misuse
<1> QED BY <1>1, <1>3, <1>4 DEF WcInv

\* A watcher that is not in the table is looked up in it.
LEMMA AbsentAborts ==
    ASSUME NEW r, Runs(r), NEW w \in Watcher, ~Has(r, w)
    PROVE  LET r2 == runloop_deregister(r, fdOf[w])
               r3 == runloop_reregister(r, fdOf[w], {}, w)
           IN  /\ r2.aborted = "lookup" /\ "aborted" \in DOMAIN r2
               /\ r3.aborted = "lookup" /\ "aborted" \in DOMAIN r3
<1>1. r.entries[fdOf[w]] = NULL /\ "aborted" \in DOMAIN r
  BY NotHas DEF Runs, Sound, IsRunloop
<1> DEFINE a == FdTable_lookup(r, fdOf[w])
<1>2. a.aborted = "lookup" /\ "aborted" \in DOMAIN a
  BY <1>1 DEF FdTable_lookup, Asserting, Abort, Runs, Alive
<1> HIDE DEF a
<1>3. runloop_epoll_ctl(a, "DEL", fdOf[w], {}, NULL) = a /\ runloop_epoll_ctl(a, "MOD", fdOf[w], {}, w) = a
  BY <1>2 DEF runloop_epoll_ctl, Asserting, Alive
<1>4. runloop_deregister(r, fdOf[w]) = a /\ runloop_reregister(r, fdOf[w], {}, w) = a
  BY <1>2, <1>3 DEF runloop_deregister, runloop_reregister, FdTable_remove, Asserting, Alive, a
<1> QED BY <1>2, <1>4

LEMMA AbsentKeeps ==
    ASSUME WcInv, NEW w \in Watcher, NEW r, Runs(r), ~Has(r, w), NEW r2, CallAbsent(w, r2),
           \/ r2 = runloop_deregister(r, fdOf[w])
           \/ r2 = runloop_reregister(r, fdOf[w], {}, w)
    PROVE  WcInv'
<1>1. r2.aborted = "lookup" /\ "aborted" \in DOMAIN r2
  BY AbsentAborts
<1> QED BY <1>1, AbortKeeps DEF CallAbsent

-----------------------------------------------------------------------------
(* Timers. *)

TimerBut(r2, r, t) == Own(r2, r, "timer", t) /\ DOMAIN NoTimer \subseteq DOMAIN r2.timer[t]

LEMMA TimerRuns ==
    ASSUME NEW r, Runs(r), NEW t \in Timer, NEW r2, TimerBut(r2, r, t)
    PROVE  Runs(r2) /\ RStep(r2, r, t) /\ r2.entries = r.entries /\ r2.interest = r.interest
<1>1. "timer" \in Kind /\ Own(r2, r, "timer", t)
  BY DEF Kind, TimerBut
<1>2. /\ Sound(r2) /\ Alive(r2) /\ ~r2.closed_flag /\ RStep(r2, r, t)
      /\ r2.entries = r.entries /\ r2.interest = r.interest /\ DOMAIN r2 = DOMAIN r
      /\ \A x \in Kind : DOMAIN r2[x] = DOMAIN r[x]
  BY <1>1, OwnSound
<1>3. /\ DOMAIN r2.timer = DOMAIN r.timer /\ DOMAIN r2.eventfd = DOMAIN r.eventfd
      /\ DOMAIN r2.stream = DOMAIN r.stream /\ DOMAIN r2.listener = DOMAIN r.listener
  BY <1>2 DEF Kind
<1>4. t \notin Eventfd /\ t \notin Stream /\ t \notin Listener
  BY WatcherAssumption
<1>5. \A v \in Timer : DOMAIN NoTimer \subseteq DOMAIN r2.timer[v]
  BY <1>2 DEF TimerBut, RStep, Runs
<1>6. Runs(r2)
  BY <1>2, <1>3, <1>4, <1>5 DEF Runs, RStep
<1> QED BY <1>2, <1>6

\* timerfd_settime and what goes with it.
Started(r2, r, t) ==
    /\ TimerBut(r2, r, t) /\ r2.timer[t].expired = FALSE
    /\ r2.timer[t].timer_postable = r.timer[t].timer_postable /\ r2.timer[t].open = r.timer[t].open

LEMMA IntervalSet ==
    ASSUME NEW r, Runs(r), NEW t \in Timer, NEW ms, NEW rep
    PROVE  Started(SetInterval(r, t, ms, rep), r, t)
<1>1. DOMAIN r.timer = Timer /\ DOMAIN NoTimer \subseteq DOMAIN r.timer[t] /\ "timer" \in DOMAIN r
  BY DEF Runs, Kind
<1> DEFINE a == [r EXCEPT !.timer[t].repeating = rep, !.timer[t].interval = ms]
           b == timerfd_settime(a, t, WTimerFd_update_interval(ms))
<1>2. /\ TimerBut(a, r, t) /\ DOMAIN a = DOMAIN r /\ a.timer[t].open = r.timer[t].open
      /\ a.timer[t].timer_postable = r.timer[t].timer_postable
  BY <1>1, Zenon DEF TimerBut, Own, Only, NoTimer
<1> HIDE DEF a
<1>3. DOMAIN a.timer = Timer /\ DOMAIN NoTimer \subseteq DOMAIN a.timer[t] /\ "timer" \in DOMAIN a
  BY <1>1, <1>2 DEF TimerBut, Own
<1>4. Started(b, a, t)
  BY <1>3, Zenon DEF timerfd_settime, Started, TimerBut, Own, Only, NoTimer
<1> HIDE DEF b
<1>5. Started(b, r, t)
  BY <1>2, <1>4 DEF Started, TimerBut, Own, Only
<1> QED BY <1>5 DEF a, b, SetInterval

PostableSet(r2, r, t, cb) ==
    /\ TimerBut(r2, r, t) /\ r2.timer[t].timer_postable = cb /\ r2.timer[t].open = r.timer[t].open

LEMMA TimerPostableSet ==
    ASSUME NEW r, Runs(r), NEW t \in Timer, NEW cb
    PROVE  PostableSet([r EXCEPT !.timer[t].timer_postable = cb], r, t, cb)
<1>1. DOMAIN r.timer = Timer /\ DOMAIN NoTimer \subseteq DOMAIN r.timer[t] /\ "timer" \in DOMAIN r
  BY DEF Runs, Kind
<1> QED BY <1>1 DEF PostableSet, TimerBut, Own, Only, NoTimer

LEMMA TimerReplaced ==
    ASSUME NEW r, Runs(r), NEW t \in Timer, NEW x, DOMAIN NoTimer \subseteq DOMAIN x
    PROVE  LET r2 == [r EXCEPT !.timer[t] = x] IN TimerBut(r2, r, t) /\ r2.timer[t] = x
<1>1. DOMAIN r.timer = Timer /\ "timer" \in DOMAIN r
  BY DEF Runs, Kind
<1> QED BY <1>1 DEF TimerBut, Own, Only

LEMMA ExpiredSet ==
    ASSUME NEW r, Runs(r), NEW t \in Timer
    PROVE  /\ TimerBut(timerfd_expires(r, t), r, t) /\ Started(timerfd_read(r, t), r, t)
           /\ timerfd_read(r, t).timer[t].repeating = r.timer[t].repeating
           /\ timerfd_expires(r, t).timer[t].timer_postable = r.timer[t].timer_postable
           /\ timerfd_expires(r, t).timer[t].open = r.timer[t].open
<1>1. DOMAIN r.timer = Timer /\ DOMAIN NoTimer \subseteq DOMAIN r.timer[t] /\ "timer" \in DOMAIN r
  BY DEF Runs, Kind
<1> QED BY <1>1 DEF timerfd_expires, timerfd_read, Started, TimerBut, Own, Only, NoTimer

\* A timer is registered.
Registered(r2, r, t) ==
    /\ Runs(r2) /\ RStep(r2, r, t) /\ Has(r2, t) /\ r2.interest[fdOf[t]] = {"IN"}
    /\ r2.timer[t].expired = FALSE /\ r2.timer[t].timer_postable = "cb" /\ r2.timer[t].open

LEMMA TimerRegistered ==
    ASSUME NEW r, Runs(r), NEW t \in Timer, ~Has(r, t), r.timer[t].open, NEW ms, NEW rep
    PROVE  Registered(runloop_timer_register(r, t, "cb", ms, rep), r, t)
<1> DEFINE a == [r EXCEPT !.timer[t].timer_postable = "cb"]
           b == SetInterval(a, t, ms, rep)
           c == runloop_register(b, fdOf[t], {"IN"}, t)
<1>0. t \in Watcher /\ {"IN"} \in SUBSET EpollEvent
  BY WatcherAssumption DEF EpollEvent
<1>1. PostableSet(a, r, t, "cb")
  BY TimerPostableSet
<1>2. runloop_timer_register(r, t, "cb", ms, rep) = c
  BY DEF runloop_timer_register
<1> HIDE DEF a
<1>3. Runs(a) /\ RStep(a, r, t) /\ a.entries = r.entries
  BY <1>1, TimerRuns DEF PostableSet
<1>4. Started(b, a, t)
  BY <1>3, IntervalSet
<1> HIDE DEF b
<1>5. Runs(b) /\ RStep(b, a, t) /\ b.entries = a.entries
  BY <1>3, <1>4, TimerRuns DEF Started
<1>6. b.entries[fdOf[t]] = NULL /\ Sound(b) /\ Alive(b) /\ ~b.closed_flag
  BY <1>0, <1>3, <1>5, NotHas DEF Runs
<1>7. Placed(c, b, fdOf[t], t, {"IN"})
  BY <1>0, <1>6, RegisterFields
<1> HIDE DEF c
<1>8. /\ Runs(c) /\ RStep(c, b, t) /\ SameWatchers(c, b)
      /\ c.entries[fdOf[t]] = t /\ c.interest[fdOf[t]] = {"IN"}
  <2>1. PlacedAt(c, b, t, t, {"IN"})
    BY <1>0, <1>5, <1>7, PlacedRuns
  <2> QED BY <2>1 DEF PlacedAt
<1>9. RStep(c, r, t)
  BY <1>3, <1>5, <1>8, StepTwice
<1>10. c.timer = b.timer
  BY <1>8 DEF SameWatchers, Kind
<1>11. c.timer[t].expired = FALSE /\ c.timer[t].timer_postable = "cb" /\ c.timer[t].open
  BY <1>1, <1>4, <1>10, Zenon DEF Started, PostableSet
<1> QED BY <1>2, <1>8, <1>9, <1>11 DEF Registered, Has

\* A watcher is taken out of the table.
LEMMA Released ==
    ASSUME NEW r, Runs(r), NEW w \in Watcher, Has(r, w)
    PROVE  LET r2 == runloop_deregister(r, fdOf[w]) IN
           Runs(r2) /\ RStep(r2, r, w) /\ SameWatchers(r2, r) /\ ~Has(r2, w)
<1> DEFINE r2 == runloop_deregister(r, fdOf[w])
<1>1. Placed(r2, r, fdOf[w], NULL, {})
  BY ReleaseFields DEF Runs, Has
<1> HIDE DEF r2
<1>2. Runs(r2) /\ RStep(r2, r, w) /\ SameWatchers(r2, r) /\ r2.entries[fdOf[w]] = NULL
  <2>1. PlacedAt(r2, r, w, NULL, {})
    BY <1>1, PlacedRuns
  <2> QED BY <2>1 DEF PlacedAt
<1>3. ~Has(r2, w)
  BY <1>2, WatcherPlace DEF Has
<1> QED BY <1>2, <1>3 DEF r2

\* The descriptor of a timer that is not registered is closed.
LEMMA TimerFreed ==
    ASSUME NEW r, Runs(r), NEW t \in Timer, ~Has(r, t)
    PROVE  LET r2 == runloop_timer_free(r, t) IN
           Runs(r2) /\ RStep(r2, r, t) /\ ~Has(r2, t) /\ r2.timer[t] = NoTimer
<1> DEFINE c == close_fd(r, fdOf[t])
           r2 == [c EXCEPT !.timer[t] = NoTimer]
<1>0. t \in Watcher
  BY WatcherAssumption
<1>1. Runs(c) /\ RStep(c, r, t) /\ c.entries = r.entries
  BY <1>0, ClosedRuns
<1> HIDE DEF c
<1>2. TimerBut(r2, c, t) /\ r2.timer[t] = NoTimer
  BY <1>1, TimerReplaced
<1> HIDE DEF r2
<1>3. Runs(r2) /\ RStep(r2, c, t) /\ r2.entries = c.entries
  BY <1>1, <1>2, TimerRuns
<1>4. RStep(r2, r, t) /\ ~Has(r2, t)
  BY <1>1, <1>3, StepTwice DEF Has
<1> QED BY <1>2, <1>3, <1>4 DEF r2, c, runloop_timer_free

LEMMA TimerIsOK ==
    ASSUME NEW r, NEW n, NEW t \in Timer
    PROVE  /\ t \in Watcher
           /\ WatcherOK(r, n, t) <=> TimerOK(r, n, t)
           /\ QueuedOK(r, n, t) <=> Has(r, t) /\ t \in n.elapsed \cup n.reset
BY WatcherAssumption DEF WatcherOK, QueuedOK

\* The history of a timer that is set anew.
Restarted(n2, n, t) ==
    /\ NStep(n2, n, t) /\ Quiet(n2, n) /\ t \in n2.reset /\ (t \in n2.once => t \in n.once)

LEMMA SameNote ==
    ASSUME NEW n, HasNotes(n), NEW w
    PROVE  NStep(n, n, w) /\ Quiet(n, n)
BY DEF NStep, Quiet

LEMMA StartNotes ==
    ASSUME HasNotes(note), NEW t \in Timer
    PROVE  LET fresh == [Start(t) EXCEPT !.once = @ \ {t}] IN
           /\ Restarted(Start(t), note, t)
           /\ Restarted([Start(t) EXCEPT !.off = @ \cup {t}], note, t)
           /\ Restarted(fresh, note, t) /\ t \notin fresh.once
           /\ Restarted([fresh EXCEPT !.updated = @ \ {t}], note, t)
           /\ t \notin [fresh EXCEPT !.updated = @ \ {t}].once
           /\ Restarted([fresh EXCEPT !.updated = @ \cup {t}], note, t)
           /\ t \notin [fresh EXCEPT !.updated = @ \cup {t}].once
<1> DEFINE s == Start(t)
           fresh == [s EXCEPT !.once = @ \ {t}]
<1>1. /\ DOMAIN s = DOMAIN note /\ s.elapsed = note.elapsed \ {t} /\ s.reset = note.reset \cup {t}
      /\ s.off = note.off \ {t} /\ s.once = note.once /\ s.told = note.told /\ s.owed = note.owed
      /\ s.wasOff = note.wasOff /\ s.misuse = note.misuse /\ s.early = note.early
      /\ s.repeated = note.repeated
  BY DEF Start, HasNotes, NoNote
<1>2. HasNotes(s)
  BY <1>1 DEF HasNotes
<1> HIDE DEF s
<1>3. Restarted(s, note, t)
  BY <1>1, <1>2 DEF Restarted, NStep, Quiet
<1>4. Restarted([s EXCEPT !.off = @ \cup {t}], note, t)
  BY <1>1, <1>2 DEF Restarted, NStep, Quiet, HasNotes, NoNote
<1>5. /\ DOMAIN fresh = DOMAIN s /\ fresh.once = s.once \ {t} /\ fresh.elapsed = s.elapsed
      /\ fresh.reset = s.reset /\ fresh.off = s.off /\ fresh.told = s.told /\ fresh.owed = s.owed
      /\ fresh.wasOff = s.wasOff /\ fresh.misuse = s.misuse /\ fresh.early = s.early
      /\ fresh.repeated = s.repeated
  BY <1>2 DEF HasNotes, NoNote
<1> HIDE DEF fresh
<1>6. HasNotes(fresh)
  BY <1>1, <1>2, <1>5 DEF HasNotes
<1>7. Restarted(fresh, note, t) /\ t \notin fresh.once
  BY <1>1, <1>5, <1>6 DEF Restarted, NStep, Quiet
<1>8. ASSUME NEW x
      PROVE  Restarted([fresh EXCEPT !.updated = x], note, t) /\ t \notin [fresh EXCEPT !.updated = x].once
  <2> DEFINE n2 == [fresh EXCEPT !.updated = x]
  <2>1. /\ DOMAIN n2 = DOMAIN fresh /\ n2.once = fresh.once /\ n2.elapsed = fresh.elapsed
        /\ n2.reset = fresh.reset /\ n2.off = fresh.off /\ n2.told = fresh.told /\ n2.owed = fresh.owed
        /\ n2.wasOff = fresh.wasOff /\ n2.misuse = fresh.misuse /\ n2.early = fresh.early
        /\ n2.repeated = fresh.repeated
    BY <1>6 DEF HasNotes, NoNote
  <2> HIDE DEF n2
  <2>2. HasNotes(n2)
    BY <1>6, <2>1 DEF HasNotes
  <2>3. Restarted(n2, note, t) /\ t \notin n2.once
    BY <1>7, <2>1, <2>2 DEF Restarted, NStep, Quiet
  <2> QED BY <2>3 DEF n2
<1> QED BY <1>3, <1>4, <1>7, <1>8, Zenon DEF fresh, s

\* A timer that is set anew, whatever its history becomes.
LEMMA RestartKeeps ==
    ASSUME WcInv, NEW t \in Timer, NEW r2, NEW n2, Call(r2, n2), Restarted(n2, note, t),
           Runs(r2), RStep(r2, rl, t), r2.timer[t].expired = FALSE,
           Has(r2, t) => /\ r2.timer[t].open /\ r2.timer[t].timer_postable # NULL
                         /\ t \notin n2.once /\ "EXCLUSIVE" \notin r2.interest[fdOf[t]],
           Has(rl, t) => Has(r2, t)
    PROVE  WcInv'
<1>1. t \in Watcher /\ WatcherOK(r2, n2, t)
  BY TimerIsOK DEF TimerOK
<1>2. Queued(t) => QueuedOK(r2, n2, t)
  <2>1. Queued(t) => Has(rl, t)
    BY Zenon DEF Queued, WcInv, BatchOK, QueuedOK, Call, InProgram
  <2> QED BY <2>1, TimerIsOK DEF Restarted
<1> QED BY <1>1, <1>2, CallKeeps DEF Restarted

LEMMA TimerCallsKeep ==
    ASSUME WcInv, NEW t \in Timer, TimerCalls(t)
    PROVE  WcInv'
<1>0. Alive(rl)
  BY DEF TimerCalls, Call, CallAbsent, InProgram
<1>1. Runs(rl) /\ t \in Watcher /\ TimerOK(rl, note, t) /\ HasNotes(note)
  BY <1>0, TimerIsOK DEF WcInv
<1>2. InTable(t) <=> Has(rl, t)
  BY DEF InTable, Has
<1>3. Queued(t) => Has(rl, t)
  BY <1>0 DEF Queued, WcInv, BatchOK, QueuedOK
<1>4. NStep(note, note, t) /\ Quiet(note, note)
  BY <1>1, SameNote
\* Calls that leave the timer outside the table and not expired.
<1>5. ASSUME NEW r2, Call(r2, note), Runs(r2), RStep(r2, rl, t), ~Has(r2, t), ~Queued(t),
             r2.timer[t].expired => rl.timer[t].expired
      PROVE  WcInv'
  <2>1. WatcherOK(r2, note, t)
    BY <1>1, <1>5, TimerIsOK, Zenon DEF TimerOK
  <2> QED BY <1>1, <1>4, <1>5, <2>1, CallKeeps
<1>6. CASE ~rl.timer[t].open /\ Call(runloop_timer_new(rl, t), note)
  <2> DEFINE r2 == runloop_timer_new(rl, t)
             x == [NoTimer EXCEPT !.open = TRUE]
  <2>1. DOMAIN NoTimer \subseteq DOMAIN x /\ x.expired = FALSE
    BY DEF NoTimer
  <2>2. r2 = [rl EXCEPT !.timer[t] = x]
    BY DEF runloop_timer_new, runloop_timer_init
  <2> HIDE DEF x
  <2>3. TimerBut(r2, rl, t) /\ r2.timer[t] = x
    BY <1>1, <2>1, <2>2, TimerReplaced
  <2>4. Call(r2, note)
    BY <1>6
  <2> HIDE DEF r2
  <2>5. Runs(r2) /\ RStep(r2, rl, t) /\ r2.entries = rl.entries
    BY <1>1, <2>3, TimerRuns
  <2>6. ~Has(rl, t) /\ ~Has(r2, t)
    BY <1>1, <1>6, <2>5 DEF TimerOK, Has
  <2> QED BY <1>3, <1>5, <2>1, <2>3, <2>4, <2>5, <2>6
<1>7. CASE rl.timer[t].open /\ ~InTable(t) /\ Call(runloop_timer_free(rl, t), note)
  <2> DEFINE r2 == runloop_timer_free(rl, t)
  <2>1. Runs(r2) /\ RStep(r2, rl, t) /\ ~Has(r2, t) /\ r2.timer[t] = NoTimer
    BY <1>1, <1>2, <1>7, TimerFreed
  <2>2. Call(r2, note) /\ ~Queued(t)
    BY <1>2, <1>3, <1>7
  <2> HIDE DEF r2
  <2>3. ~r2.timer[t].expired
    BY <2>1 DEF NoTimer
  <2> QED BY <1>5, <2>1, <2>2, <2>3
<1>8. CASE InTable(t) /\ ~Queued(t) /\ Call(runloop_timer_deregister(rl, t), note)
  <2> DEFINE r2 == runloop_timer_deregister(rl, t)
  <2>1. Runs(r2) /\ RStep(r2, rl, t) /\ SameWatchers(r2, rl) /\ ~Has(r2, t)
    BY <1>1, <1>2, <1>8, Released DEF runloop_timer_deregister
  <2>2. Call(r2, note)
    BY <1>8
  <2> HIDE DEF r2
  <2>3. r2.timer = rl.timer
    BY <2>1 DEF SameWatchers, Kind
  <2> QED BY <1>5, <1>8, <2>1, <2>2, <2>3
<1>9. CASE InTable(t) /\ ~Queued(t) /\ Call(runloop_timer_clear(rl, t), note)
  <2> DEFINE a == runloop_timer_deregister(rl, t)
             r2 == runloop_timer_free(a, t)
  <2>1. Runs(a) /\ RStep(a, rl, t) /\ ~Has(a, t)
    BY <1>1, <1>2, <1>9, Released DEF runloop_timer_deregister
  <2>2. Call(r2, note)
    BY <1>9, <2>1 DEF runloop_timer_clear, Runs
  <2> HIDE DEF a
  <2>3. Runs(r2) /\ RStep(r2, a, t) /\ ~Has(r2, t) /\ r2.timer[t] = NoTimer
    BY <2>1, TimerFreed
  <2> HIDE DEF r2
  <2>4. RStep(r2, rl, t)
    BY <2>1, <2>3, StepTwice
  <2>5. ~r2.timer[t].expired
    BY <2>3 DEF NoTimer
  <2> QED BY <1>5, <1>9, <2>2, <2>3, <2>4, <2>5
\* Calls that set the timer and leave the table alone.
<1>10. ASSUME NEW r2, NEW n2, Call(r2, n2), Restarted(n2, note, t), Started(r2, rl, t)
       PROVE  WcInv'
  <2>1. Runs(r2) /\ RStep(r2, rl, t) /\ r2.entries = rl.entries /\ r2.interest = rl.interest
    BY <1>1, <1>10, TimerRuns DEF Started
  <2>2. Has(r2, t) <=> Has(rl, t)
    BY <2>1 DEF Has
  <2>3. Has(r2, t) => /\ r2.timer[t].open /\ r2.timer[t].timer_postable # NULL
                      /\ t \notin n2.once /\ "EXCLUSIVE" \notin r2.interest[fdOf[t]]
    BY <1>1, <1>10, <2>1, <2>2, Zenon DEF TimerOK, Started, Restarted
  <2> QED BY <1>10, <2>1, <2>2, <2>3, RestartKeeps, Zenon DEF Started
<1>11. CASE Call(runloop_timer_rearm(rl, t), Start(t))
  BY <1>1, <1>10, <1>11, IntervalSet, StartNotes, Zenon DEF runloop_timer_rearm
<1>12. CASE Call(runloop_timer_disarm(rl, t), [Start(t) EXCEPT !.off = @ \cup {t}])
  BY <1>1, <1>10, <1>12, IntervalSet, StartNotes, Zenon DEF runloop_timer_disarm
<1>13. ASSUME NEW ms \in Interval, NEW repeating \in BOOLEAN, rl.timer[t].open, ~InTable(t),
              Call(runloop_timer_register(rl, t, "cb", ms, repeating),
                   [[Start(t) EXCEPT !.once = @ \ {t}] EXCEPT !.updated = @ \ {t}])
       PROVE  WcInv'
  <2> DEFINE r2 == runloop_timer_register(rl, t, "cb", ms, repeating)
             n2 == [[Start(t) EXCEPT !.once = @ \ {t}] EXCEPT !.updated = @ \ {t}]
  <2>1. Registered(r2, rl, t)
    BY <1>1, <1>2, <1>13, TimerRegistered
  <2>2. Restarted(n2, note, t) /\ t \notin n2.once
    BY <1>1, StartNotes, Zenon
  <2>3. Call(r2, n2)
    BY <1>13
  <2> HIDE DEF r2, n2
  <2>4. r2.timer[t].timer_postable # NULL /\ "EXCLUSIVE" \notin r2.interest[fdOf[t]]
    BY <2>1, WatcherAssumption DEF Registered
  <2> QED BY <2>1, <2>2, <2>3, <2>4, RestartKeeps, Zenon DEF Registered
<1>14. ASSUME NEW ms \in Interval, NEW repeating \in BOOLEAN, ~rl.timer[t].open,
              Call(runloop_timer_set(rl, t, "cb", ms, repeating),
                   [[Start(t) EXCEPT !.once = @ \ {t}] EXCEPT !.updated = @ \ {t}])
       PROVE  WcInv'
  <2> DEFINE a == runloop_timer_new(rl, t)
             r2 == runloop_timer_register(a, t, "cb", ms, repeating)
             n2 == [[Start(t) EXCEPT !.once = @ \ {t}] EXCEPT !.updated = @ \ {t}]
             x == [NoTimer EXCEPT !.open = TRUE]
  <2>1. DOMAIN NoTimer \subseteq DOMAIN x /\ x.open
    BY DEF NoTimer
  <2>2. a = [rl EXCEPT !.timer[t] = x]
    BY DEF runloop_timer_new, runloop_timer_init
  <2> HIDE DEF x
  <2>3. TimerBut(a, rl, t) /\ a.timer[t] = x
    BY <1>1, <2>1, <2>2, TimerReplaced
  <2>4. Call(r2, n2)
    BY <1>14 DEF runloop_timer_set
  <2> HIDE DEF a
  <2>5. Runs(a) /\ RStep(a, rl, t) /\ a.entries = rl.entries
    BY <1>1, <2>3, TimerRuns
  <2>6. ~Has(rl, t) /\ ~Has(a, t)
    BY <1>1, <1>14, <2>5 DEF TimerOK, Has
  <2>7. Registered(r2, a, t)
    BY <2>1, <2>3, <2>5, <2>6, TimerRegistered
  <2>8. Restarted(n2, note, t) /\ t \notin n2.once
    BY <1>1, StartNotes, Zenon
  <2> HIDE DEF r2, n2
  <2>9. /\ r2.timer[t].timer_postable # NULL /\ "EXCLUSIVE" \notin r2.interest[fdOf[t]]
        /\ RStep(r2, rl, t)
    BY <2>5, <2>7, StepTwice, WatcherAssumption DEF Registered
  <2> QED BY <2>4, <2>7, <2>8, <2>9, RestartKeeps, Zenon DEF Registered
<1>15. ASSUME NEW ms \in Interval, NEW repeating \in BOOLEAN, rl.timer[t].open,
              Call(runloop_timer_rearm_old(rl, t, "cb", ms, repeating), [Start(t) EXCEPT !.once = @ \ {t}])
       PROVE  WcInv'
  <2> DEFINE a == [rl EXCEPT !.timer[t].timer_postable = "cb"]
             r2 == SetInterval(a, t, ms, repeating)
             n2 == [Start(t) EXCEPT !.once = @ \ {t}]
  <2>1. PostableSet(a, rl, t, "cb")
    BY <1>1, TimerPostableSet
  <2>2. Call(r2, n2)
    BY <1>15 DEF runloop_timer_rearm_old
  <2> HIDE DEF a
  <2>3. Runs(a) /\ RStep(a, rl, t) /\ a.entries = rl.entries /\ a.interest = rl.interest
    BY <1>1, <2>1, TimerRuns, Zenon DEF PostableSet
  <2>4. Started(r2, a, t)
    BY <2>3, IntervalSet
  <2> HIDE DEF r2
  <2>5. Runs(r2) /\ RStep(r2, a, t) /\ r2.entries = a.entries /\ r2.interest = a.interest
    BY <2>3, <2>4, TimerRuns DEF Started
  <2>6. RStep(r2, rl, t)
    BY <2>3, <2>5, StepTwice
  <2>7. Restarted(n2, note, t) /\ t \notin n2.once
    BY <1>1, StartNotes, Zenon
  <2> HIDE DEF n2
  <2>8. /\ r2.timer[t].timer_postable # NULL /\ (Has(r2, t) => "EXCLUSIVE" \notin r2.interest[fdOf[t]])
        /\ r2.timer[t].open /\ (Has(rl, t) => Has(r2, t)) /\ r2.timer[t].expired = FALSE
    BY <1>1, <1>15, <2>1, <2>3, <2>4, <2>5, WatcherAssumption DEF Started, PostableSet, TimerOK, Has
  <2> QED BY <2>2, <2>5, <2>6, <2>7, <2>8, RestartKeeps, Zenon
<1>16. ASSUME NEW ms \in Interval, NEW repeating \in BOOLEAN, InTable(t),
              Call(runloop_timer_update(rl, t, ms, repeating),
                   [[Start(t) EXCEPT !.once = @ \ {t}] EXCEPT !.updated = @ \cup {t}])
       PROVE  WcInv'
  <2> DEFINE a == SetInterval(rl, t, ms, repeating)
             r2 == runloop_reregister(a, fdOf[t], {}, t)
             n2 == [[Start(t) EXCEPT !.once = @ \ {t}] EXCEPT !.updated = @ \cup {t}]
  <2>1. Started(a, rl, t)
    BY <1>1, IntervalSet
  <2>2. Call(r2, n2)
    BY <1>16 DEF runloop_timer_update
  <2> HIDE DEF a
  <2>3. Runs(a) /\ RStep(a, rl, t) /\ a.entries = rl.entries /\ a.interest = rl.interest
    BY <1>1, <2>1, TimerRuns DEF Started
  <2>4. Renewed(r2, a, fdOf[t], {})
    <3>1. a.entries[fdOf[t]] = t /\ "EXCLUSIVE" \notin a.interest[fdOf[t]] /\ Sound(a) /\ Alive(a) /\ ~a.closed_flag
      BY <1>1, <1>2, <1>16, <2>3 DEF TimerOK, Has, Runs
    <3>2. \A i \in SUBSET EpollEvent : Renewed(runloop_reregister(a, fdOf[t], i, t), a, fdOf[t], i)
      BY <1>1, <3>1, ReregisterFields, Zenon
    <3> QED BY <3>2
  <2> HIDE DEF r2
  <2>5. Runs(r2) /\ RStep(r2, a, t) /\ SameWatchers(r2, a) /\ r2.entries = a.entries /\ r2.interest[fdOf[t]] = {}
    <3>1. RenewedAt(r2, a, t, {})
      BY <1>1, <2>3, <2>4, RenewedRuns
    <3> QED BY <3>1 DEF RenewedAt
  <2>6. RStep(r2, rl, t) /\ r2.timer = a.timer
    BY <2>3, <2>5, StepTwice DEF SameWatchers, Kind
  <2>7. Restarted(n2, note, t) /\ t \notin n2.once
    BY <1>1, StartNotes, Zenon
  <2> HIDE DEF n2
  <2>8. /\ r2.timer[t].timer_postable # NULL /\ "EXCLUSIVE" \notin r2.interest[fdOf[t]]
        /\ r2.timer[t].open /\ Has(r2, t) /\ r2.timer[t].expired = FALSE
    BY <1>1, <1>2, <1>16, <2>1, <2>3, <2>5, <2>6 DEF Started, TimerOK, Has
  <2> QED BY <2>2, <2>5, <2>6, <2>7, <2>8, RestartKeeps, Zenon
\* Calls on a timer that is not in the table and must be.
<1>17. CASE rl.timer[t].open /\ CallAbsent(t, runloop_timer_deregister(rl, t))
  BY <1>1, <1>2, <1>17, AbsentKeeps DEF CallAbsent, runloop_timer_deregister
<1>18. CASE rl.timer[t].open /\ CallAbsent(t, runloop_timer_clear(rl, t))
  <2>1. ~Has(rl, t)
    BY <1>2, <1>18 DEF CallAbsent
  <2>2. ~Alive(runloop_deregister(rl, fdOf[t]))
    BY <1>1, <2>1, AbsentAborts DEF Alive
  <2>3. runloop_timer_clear(rl, t) = runloop_deregister(rl, fdOf[t])
    BY <2>2 DEF runloop_timer_clear, runloop_timer_deregister
  <2> QED BY <1>1, <1>18, <2>1, <2>3, AbsentKeeps
<1>19. ASSUME NEW ms \in Interval, NEW repeating \in BOOLEAN, CallAbsent(t, runloop_timer_update(rl, t, ms, repeating))
       PROVE  WcInv'
  <2> DEFINE a == SetInterval(rl, t, ms, repeating)
  <2>1. Started(a, rl, t)
    BY <1>1, IntervalSet
  <2>2. runloop_timer_update(rl, t, ms, repeating) = runloop_reregister(a, fdOf[t], {}, t)
    BY DEF runloop_timer_update
  <2> HIDE DEF a
  <2>3. Runs(a) /\ a.entries = rl.entries
    BY <1>1, <2>1, TimerRuns DEF Started
  <2>4. ~Has(a, t)
    BY <1>2, <1>19, <2>3 DEF CallAbsent, Has
  <2> QED BY <1>1, <1>19, <2>2, <2>3, <2>4, AbsentKeeps
<1> QED BY <1>6, <1>7, <1>8, <1>9, <1>11, <1>12, <1>13, <1>14, <1>15, <1>16, <1>17, <1>18, <1>19 DEF TimerCalls


-----------------------------------------------------------------------------
(* Eventfds. *)

EventfdBut(r2, r, e) == Own(r2, r, "eventfd", e) /\ DOMAIN NoEventfd \subseteq DOMAIN r2.eventfd[e]

LEMMA EventfdRuns ==
    ASSUME NEW r, Runs(r), NEW e \in Eventfd, NEW r2, EventfdBut(r2, r, e)
    PROVE  Runs(r2) /\ RStep(r2, r, e) /\ r2.entries = r.entries /\ r2.interest = r.interest
<1>1. "eventfd" \in Kind /\ Own(r2, r, "eventfd", e)
  BY DEF Kind, EventfdBut
<1>2. /\ Sound(r2) /\ Alive(r2) /\ ~r2.closed_flag /\ RStep(r2, r, e)
      /\ r2.entries = r.entries /\ r2.interest = r.interest /\ DOMAIN r2 = DOMAIN r
      /\ \A x \in Kind : DOMAIN r2[x] = DOMAIN r[x]
  BY <1>1, OwnSound
<1>3. /\ DOMAIN r2.timer = DOMAIN r.timer /\ DOMAIN r2.eventfd = DOMAIN r.eventfd
      /\ DOMAIN r2.stream = DOMAIN r.stream /\ DOMAIN r2.listener = DOMAIN r.listener
  BY <1>2 DEF Kind
<1>4. e \notin Timer /\ e \notin Stream /\ e \notin Listener
  BY WatcherAssumption
<1>5. \A v \in Eventfd : DOMAIN NoEventfd \subseteq DOMAIN r2.eventfd[v]
  BY <1>2 DEF EventfdBut, RStep, Runs
<1>6. Runs(r2)
  BY <1>2, <1>3, <1>4, <1>5, Zenon DEF Runs, RStep
<1> QED BY <1>2, <1>6

\* The counter changes, the postable does, or the whole structure.
CounterIs(r2, r, e, x) ==
    /\ EventfdBut(r2, r, e) /\ r2.eventfd[e].counter = x /\ r2.eventfd[e].open = r.eventfd[e].open
    /\ r2.eventfd[e].fdevent_postable = r.eventfd[e].fdevent_postable

PostableIs(r2, r, e, x) ==
    /\ EventfdBut(r2, r, e) /\ r2.eventfd[e].fdevent_postable = x
    /\ r2.eventfd[e].open = r.eventfd[e].open /\ r2.eventfd[e].counter = r.eventfd[e].counter

LEMMA CounterSet ==
    ASSUME NEW r, Runs(r), NEW e \in Eventfd, NEW x
    PROVE  CounterIs([r EXCEPT !.eventfd[e].counter = x], r, e, x)
<1>1. DOMAIN r.eventfd = Eventfd /\ DOMAIN NoEventfd \subseteq DOMAIN r.eventfd[e] /\ "eventfd" \in DOMAIN r
  BY DEF Runs, Kind
<1> QED BY <1>1 DEF CounterIs, EventfdBut, Own, Only, NoEventfd

LEMMA EventfdPostableSet ==
    ASSUME NEW r, Runs(r), NEW e \in Eventfd, NEW x
    PROVE  PostableIs([r EXCEPT !.eventfd[e].fdevent_postable = x], r, e, x)
<1>1. DOMAIN r.eventfd = Eventfd /\ DOMAIN NoEventfd \subseteq DOMAIN r.eventfd[e] /\ "eventfd" \in DOMAIN r
  BY DEF Runs, Kind
<1> QED BY <1>1 DEF PostableIs, EventfdBut, Own, Only, NoEventfd

LEMMA EventfdReplaced ==
    ASSUME NEW r, Runs(r), NEW e \in Eventfd, NEW x, DOMAIN NoEventfd \subseteq DOMAIN x
    PROVE  LET r2 == [r EXCEPT !.eventfd[e] = x] IN EventfdBut(r2, r, e) /\ r2.eventfd[e] = x
<1>1. DOMAIN r.eventfd = Eventfd /\ "eventfd" \in DOMAIN r
  BY DEF Runs, Kind
<1> QED BY <1>1 DEF EventfdBut, Own, Only

LEMMA EventfdIsOK ==
    ASSUME NEW r, NEW n, NEW e \in Eventfd
    PROVE  /\ e \in Watcher
           /\ WatcherOK(r, n, e) <=> EventfdOK(r, n, e)
           /\ QueuedOK(r, n, e) <=> Has(r, e) /\ r.eventfd[e].fdevent_postable # NULL /\ e \notin n.wasOff
BY WatcherAssumption, Zenon DEF WatcherOK, QueuedOK

LEMMA OwedSet ==
    ASSUME HasNotes(note), NEW e \in Eventfd, NEW x
    PROVE  LET n == [note EXCEPT !.owed[e] = x]
           IN  NStep(n, note, e) /\ Quiet(n, note) /\ n.owed[e] = x /\ n.off = note.off
BY DEF NStep, Quiet, HasNotes, NoNote

LEMMA OffSet ==
    ASSUME HasNotes(note), NEW e \in Eventfd
    PROVE  /\ NStep(Off(e), note, e) /\ Quiet(Off(e), note) /\ Off(e).owed = note.owed
           /\ NStep(On(e), note, e) /\ Quiet(On(e), note) /\ On(e).owed = note.owed /\ e \notin On(e).off
BY DEF NStep, Quiet, HasNotes, NoNote, Off, On

\* What a call on an eventfd has to show.
LEMMA EventfdKeeps ==
    ASSUME WcInv, NEW e \in Eventfd, NEW r2, NEW n2, Call(r2, n2), Runs(r2), RStep(r2, rl, e),
           NStep(n2, note, e), Quiet(n2, note), EventfdOK(r2, n2, e),
           Has(r2, e) => (Has(rl, e) /\ rl.eventfd[e].fdevent_postable # NULL
                              => r2.eventfd[e].fdevent_postable # NULL),
           ~Has(r2, e) => ~Queued(e)
    PROVE  WcInv'
<1>1. e \in Watcher /\ WatcherOK(r2, n2, e)
  BY EventfdIsOK, Zenon
<1>2. ASSUME Queued(e) PROVE QueuedOK(r2, n2, e)
  <2>1. QueuedOK(rl, note, e)
    BY <1>2 DEF Queued, WcInv, BatchOK, Call, InProgram
  <2> QED BY <1>2, <2>1, EventfdIsOK, Zenon DEF NStep
<1> QED BY <1>1, <1>2, CallKeeps

\* Only the counter changes.
LEMMA CounterKeeps ==
    ASSUME WcInv, NEW e \in Eventfd, NEW x \in Nat,
           Call([rl EXCEPT !.eventfd[e].counter = x], [note EXCEPT !.owed[e] = x])
    PROVE  WcInv'
<1> DEFINE r2 == [rl EXCEPT !.eventfd[e].counter = x]
           n2 == [note EXCEPT !.owed[e] = x]
<1>0. Alive(rl) /\ HasNotes(note)
  BY DEF Call, InProgram, WcInv
<1>1. Runs(rl) /\ EventfdOK(rl, note, e) /\ e \in Watcher
  BY <1>0, EventfdIsOK DEF WcInv
<1>2. /\ EventfdBut(r2, rl, e) /\ r2.eventfd[e].counter = x /\ r2.eventfd[e].open = rl.eventfd[e].open
      /\ r2.eventfd[e].fdevent_postable = rl.eventfd[e].fdevent_postable
  BY <1>1, CounterSet DEF CounterIs
<1>3. NStep(n2, note, e) /\ Quiet(n2, note) /\ n2.owed[e] = x /\ n2.off = note.off
  BY <1>0, OwedSet
<1>4. Call(r2, n2)
  OBVIOUS
<1> HIDE DEF r2, n2
<1>5. Runs(r2) /\ RStep(r2, rl, e) /\ r2.entries = rl.entries /\ r2.interest = rl.interest
  BY <1>1, <1>2, EventfdRuns
<1>6. Has(r2, e) <=> Has(rl, e)
  BY <1>5 DEF Has
<1>7. EventfdOK(r2, n2, e)
  BY <1>1, <1>2, <1>3, <1>5, <1>6 DEF EventfdOK
<1>8. ~Has(r2, e) => ~Queued(e)
  BY <1>0, <1>6 DEF Queued, WcInv, BatchOK, QueuedOK
<1> QED BY <1>2, <1>3, <1>4, <1>5, <1>7, <1>8, EventfdKeeps

\* The interest of a registered eventfd changes, and perhaps its postable.
LEMMA WatchKeeps ==
    ASSUME WcInv, NEW e \in Eventfd, NEW r1, Runs(r1), RStep(r1, rl, e), r1.entries = rl.entries,
           r1.interest = rl.interest, r1.eventfd[e].open = rl.eventfd[e].open,
           r1.eventfd[e].counter = rl.eventfd[e].counter,
           rl.eventfd[e].fdevent_postable # NULL => r1.eventfd[e].fdevent_postable # NULL,
           NEW i \in SUBSET EpollEvent, "EXCLUSIVE" \notin i, InTable(e),
           NEW n2, NStep(n2, note, e), Quiet(n2, note), n2.owed = note.owed,
           i # {} => r1.eventfd[e].fdevent_postable # NULL /\ e \notin n2.off,
           Call(runloop_reregister(r1, fdOf[e], i, e), n2)
    PROVE  WcInv'
<1> DEFINE r2 == runloop_reregister(r1, fdOf[e], i, e)
<1>0. Alive(rl) /\ HasNotes(note) /\ Has(rl, e) /\ Has(r1, e)
  BY Zenon DEF Call, InProgram, WcInv, InTable, Has
<1>1. Runs(rl) /\ EventfdOK(rl, note, e) /\ e \in Watcher
  BY <1>0, EventfdIsOK, Zenon DEF WcInv
<1>2. Renewed(r2, r1, fdOf[e], i)
  <2>1. "EXCLUSIVE" \notin r1.interest[fdOf[e]]
    BY <1>0, <1>1, Zenon DEF EventfdOK
  <2> QED BY <1>0, <1>1, <2>1, ReregisterFields, Zenon DEF Has, Runs
<1>3. Call(r2, n2)
  BY Zenon
<1> HIDE DEF r2
<1>4. Runs(r2) /\ RStep(r2, r1, e) /\ SameWatchers(r2, r1) /\ r2.entries = r1.entries /\ r2.interest[fdOf[e]] = i
  <2>1. Runs(r1) /\ e \in Watcher
    BY <1>1, Zenon
  <2>2. RenewedAt(r2, r1, e, i)
    BY <1>2, <2>1, RenewedRuns, Zenon
  <2> QED BY <2>2, Zenon DEF RenewedAt
<1>5. RStep(r2, rl, e) /\ Has(r2, e) /\ r2.eventfd = r1.eventfd
  BY <1>0, <1>4, StepTwice, Zenon DEF Has, SameWatchers, Kind
<1>6. EventfdOK(r2, n2, e)
  BY <1>0, <1>1, <1>4, <1>5, Zenon DEF EventfdOK
<1> QED BY <1>3, <1>4, <1>5, <1>6, EventfdKeeps, Zenon

LEMMA EventfdCallKeeps ==
    ASSUME WcInv, NEW e \in Eventfd, EventfdCall(e)
    PROVE  WcInv'
<1>0. Alive(rl) /\ HasNotes(note)
  BY DEF EventfdCall, CallAbsent, Call, InProgram, WcInv
<1>1. Runs(rl) /\ EventfdOK(rl, note, e) /\ e \in Watcher
  BY <1>0, EventfdIsOK, Zenon DEF WcInv
<1>2. InTable(e) <=> Has(rl, e)
  BY DEF InTable, Has
<1>3. Queued(e) => Has(rl, e)
  BY <1>0, Zenon DEF Queued, WcInv, BatchOK, QueuedOK
<1>4. NStep(note, note, e) /\ Quiet(note, note)
  BY <1>0, SameNote
<1>5. CASE ~rl.eventfd[e].open /\ Call(runloop_eventfd_new(rl, e), [note EXCEPT !.owed[e] = 0])
  <2> DEFINE x == [NoEventfd EXCEPT !.open = TRUE]
             r2 == [rl EXCEPT !.eventfd[e] = x]
             n2 == [note EXCEPT !.owed[e] = 0]
  <2>1. DOMAIN NoEventfd \subseteq DOMAIN x /\ x.counter = 0 /\ x.open
    BY DEF NoEventfd
  <2>2. Call(r2, n2)
    BY <1>5 DEF runloop_eventfd_new, runloop_eventfd_init
  <2> HIDE DEF x
  <2>3. EventfdBut(r2, rl, e) /\ r2.eventfd[e] = x
    BY <1>1, <2>1, EventfdReplaced
  <2>4. NStep(n2, note, e) /\ Quiet(n2, note) /\ n2.owed[e] = 0
    BY <1>0, OwedSet
  <2> HIDE DEF r2, n2
  <2>5. Runs(r2) /\ RStep(r2, rl, e) /\ r2.entries = rl.entries
    BY <1>1, <2>3, EventfdRuns
  <2>6. ~Has(rl, e) /\ ~Has(r2, e)
    BY <1>1, <1>5, <2>5 DEF EventfdOK, Has
  <2>7. EventfdOK(r2, n2, e)
    <3>1. r2.eventfd[e].counter \in Nat /\ r2.eventfd[e].counter = n2.owed[e]
      BY <2>1, <2>3, <2>4
    <3> QED BY <2>6, <3>1, Zenon DEF EventfdOK
  <2> QED BY <1>3, <2>2, <2>4, <2>5, <2>6, <2>7, EventfdKeeps, Zenon
<1>6. CASE rl.eventfd[e].open /\ ~InTable(e) /\ Call(runloop_eventfd_free(rl, e), note)
  <2> DEFINE c == close_fd(rl, fdOf[e])
             r2 == [c EXCEPT !.eventfd[e] = NoEventfd]
  <2>1. Call(r2, note)
    BY <1>6 DEF runloop_eventfd_free
  <2>2. Runs(c) /\ RStep(c, rl, e) /\ c.entries = rl.entries
    BY <1>1, <1>2, <1>6, ClosedRuns, Zenon
  <2> HIDE DEF c
  <2>3. EventfdBut(r2, c, e) /\ r2.eventfd[e] = NoEventfd
    BY <2>2, EventfdReplaced
  <2> HIDE DEF r2
  <2>4. Runs(r2) /\ RStep(r2, c, e) /\ r2.entries = c.entries
    BY <2>2, <2>3, EventfdRuns
  <2>5. RStep(r2, rl, e) /\ ~Has(r2, e)
    BY <1>2, <1>6, <2>2, <2>4, StepTwice, Zenon DEF Has
  <2>6. ~r2.eventfd[e].open
    BY <2>3 DEF NoEventfd
  <2>7. EventfdOK(r2, note, e)
    BY <2>5, <2>6 DEF EventfdOK
  <2> QED BY <1>2, <1>3, <1>4, <1>6, <2>1, <2>4, <2>5, <2>7, EventfdKeeps
<1>7. CASE rl.eventfd[e].open /\ ~InTable(e) /\ Call(runloop_eventfd_register(rl, e), Off(e))
  <2> DEFINE a == [rl EXCEPT !.eventfd[e].fdevent_postable = NULL]
             r2 == runloop_register(a, fdOf[e], {}, e)
  <2>1. Call(r2, Off(e))
    BY <1>7 DEF runloop_eventfd_register
  <2>2. EventfdBut(a, rl, e) /\ a.eventfd[e].open = rl.eventfd[e].open /\ a.eventfd[e].counter = rl.eventfd[e].counter
    BY <1>1, EventfdPostableSet DEF PostableIs
  <2> HIDE DEF a
  <2>3. Runs(a) /\ RStep(a, rl, e) /\ a.entries = rl.entries /\ ~Has(a, e)
    BY <1>1, <1>2, <1>7, <2>2, EventfdRuns, Zenon DEF Has
  <2>4. Placed(r2, a, fdOf[e], e, {})
    <3>1. \A i \in SUBSET EpollEvent : Placed(runloop_register(a, fdOf[e], i, e), a, fdOf[e], e, i)
      BY <1>1, <2>3, NotHas, RegisterFields, Zenon DEF Runs
    <3> QED BY <3>1
  <2> HIDE DEF r2
  <2>5. /\ Runs(r2) /\ RStep(r2, a, e) /\ SameWatchers(r2, a) /\ Has(r2, e) /\ r2.interest[fdOf[e]] = {}
    <3>1. PlacedAt(r2, a, e, e, {})
      BY <1>1, <2>3, <2>4, PlacedRuns
    <3> QED BY <3>1 DEF PlacedAt, Has
  <2>6. RStep(r2, rl, e) /\ r2.eventfd = a.eventfd
    BY <2>3, <2>5, StepTwice DEF SameWatchers, Kind
  <2>7. NStep(Off(e), note, e) /\ Quiet(Off(e), note) /\ Off(e).owed = note.owed
    BY <1>0, OffSet
  <2>8. EventfdOK(r2, Off(e), e)
    BY <1>1, <1>7, <2>2, <2>5, <2>6, <2>7, Zenon DEF EventfdOK
  <2> QED BY <1>2, <1>7, <2>1, <2>5, <2>6, <2>7, <2>8, EventfdKeeps, Zenon
<1>8. CASE InTable(e) /\ ~Queued(e) /\ Call(runloop_eventfd_deregister(rl, e), note)
  <2> DEFINE r2 == runloop_deregister(rl, fdOf[e])
  <2>1. Runs(r2) /\ RStep(r2, rl, e) /\ SameWatchers(r2, rl) /\ ~Has(r2, e)
    BY <1>1, <1>2, <1>8, Released
  <2>2. Call(r2, note)
    BY <1>8 DEF runloop_eventfd_deregister
  <2> HIDE DEF r2
  <2>3. EventfdOK(r2, note, e)
    BY <1>1, <2>1, Zenon DEF EventfdOK, SameWatchers, Kind
  <2> QED BY <1>4, <1>8, <2>1, <2>2, <2>3, EventfdKeeps
<1>9. ASSUME NEW cb, cb # NULL \/ rl.eventfd[e].fdevent_postable # NULL, InTable(e),
             Call(runloop_eventfd_arm(rl, e, cb), On(e))
      PROVE  WcInv'
  <2> DEFINE p == IF cb = NULL THEN rl.eventfd[e].fdevent_postable ELSE cb
             a == [rl EXCEPT !.eventfd[e].fdevent_postable = p]
  <2>1. {"IN", "RDHUP"} \in SUBSET EpollEvent /\ p # NULL
    BY <1>9 DEF EpollEvent
  <2>2. a = [rl EXCEPT !.eventfd[e].fdevent_postable = IF cb = NULL THEN @ ELSE cb]
    OBVIOUS
  <2>3. Call(runloop_reregister(a, fdOf[e], {"IN", "RDHUP"}, e), On(e))
    BY <1>9, <2>2 DEF runloop_eventfd_arm, runloop_eventfd_change_watch
  <2> HIDE DEF p
  <2>4. /\ EventfdBut(a, rl, e) /\ a.eventfd[e].fdevent_postable = p
        /\ a.eventfd[e].open = rl.eventfd[e].open /\ a.eventfd[e].counter = rl.eventfd[e].counter
    BY <1>1, EventfdPostableSet DEF PostableIs
  <2> HIDE DEF a
  <2>5. Runs(a) /\ RStep(a, rl, e) /\ a.entries = rl.entries /\ a.interest = rl.interest
    BY <1>1, <2>4, EventfdRuns
  <2>6. NStep(On(e), note, e) /\ Quiet(On(e), note) /\ On(e).owed = note.owed /\ e \notin On(e).off
    BY <1>0, OffSet
  <2> HIDE DEF On
  <2> QED BY <1>9, <2>1, <2>3, <2>4, <2>5, <2>6, WatchKeeps, Zenon
<1>10. CASE InTable(e) /\ Call(runloop_eventfd_arm(rl, e, "cb"), On(e))
  BY <1>9, <1>10, WatcherAssumption
<1>11. CASE InTable(e) /\ rl.eventfd[e].fdevent_postable # NULL /\ Call(runloop_eventfd_arm(rl, e, NULL), On(e))
  BY <1>9, <1>11
<1>12. CASE InTable(e) /\ Call(runloop_eventfd_disarm(rl, e), Off(e))
  <2> DEFINE i == {}
  <2>1. i \in SUBSET EpollEvent /\ "EXCLUSIVE" \notin i /\ i = {}
    OBVIOUS
  <2>2. Call(runloop_reregister(rl, fdOf[e], i, e), Off(e))
    BY <1>12 DEF runloop_eventfd_disarm
  <2> HIDE DEF i
  <2>3. NStep(Off(e), note, e) /\ Quiet(Off(e), note) /\ Off(e).owed = note.owed
    BY <1>0, OffSet
  <2>4. RStep(rl, rl, e)
    BY NoStep
  <2> QED BY <1>1, <1>12, <2>1, <2>2, <2>3, <2>4, WatchKeeps, Zenon
<1>13. CASE rl.eventfd[e].open /\ Call(runloop_eventfd_clear_one_event(rl, e),
                                      [note EXCEPT !.owed[e] = IF @ > 0 THEN @ - 1 ELSE @])
  <2>1. rl.eventfd[e].counter \in Nat /\ rl.eventfd[e].counter = note.owed[e]
    BY <1>1, <1>13 DEF EventfdOK
  <2>2. CASE rl.eventfd[e].counter = 0
    <3>1. Call(rl, [note EXCEPT !.owed[e] = 0])
      BY <1>13, <2>1, <2>2 DEF runloop_eventfd_clear_one_event, eventfd_read
    <3>2. LET n2 == [note EXCEPT !.owed[e] = 0] IN NStep(n2, note, e) /\ Quiet(n2, note) /\ n2.owed[e] = 0 /\ n2.off = note.off
      BY <1>0, OwedSet
    <3> DEFINE n2 == [note EXCEPT !.owed[e] = 0]
    <3> HIDE DEF n2
    <3>3. Call(rl, n2) /\ NStep(n2, note, e) /\ Quiet(n2, note) /\ n2.owed[e] = 0 /\ n2.off = note.off
      BY <3>1, <3>2 DEF n2
    <3>4. EventfdOK(rl, n2, e)
      BY <1>1, <2>2, <3>3, Zenon DEF EventfdOK
    <3> QED BY <1>1, <1>3, <3>3, <3>4, NoStep, EventfdKeeps, Zenon
  <2>3. CASE rl.eventfd[e].counter # 0
    <3> DEFINE x == rl.eventfd[e].counter - 1
    <3>1. x \in Nat /\ note.owed[e] > 0 /\ note.owed[e] - 1 = x
      BY <2>1, <2>3
    <3>2. Call([rl EXCEPT !.eventfd[e].counter = x], [note EXCEPT !.owed[e] = x])
      BY <1>13, <2>3, <3>1 DEF runloop_eventfd_clear_one_event, eventfd_read
    <3> HIDE DEF x
    <3> QED BY <3>1, <3>2, CounterKeeps
  <2> QED BY <2>2, <2>3
<1>14. CASE Call(runloop_eventfd_clear_all_events(rl, e), [note EXCEPT !.owed[e] = 0])
  BY <1>14, CounterKeeps DEF runloop_eventfd_clear_all_events
<1>15. CASE rl.eventfd[e].open /\ CallAbsent(e, runloop_eventfd_deregister(rl, e))
  BY <1>1, <1>2, <1>15, AbsentKeeps DEF CallAbsent, runloop_eventfd_deregister
<1> QED BY <1>5, <1>6, <1>7, <1>8, <1>10, <1>11, <1>12, <1>13, <1>14, <1>15 DEF EventfdCall

-----------------------------------------------------------------------------
(* The handlers. *)

\* The watcher whose event is next.
Next1(w) ==
    /\ w \in Watcher /\ w = Head(batch) /\ QueuedOK(rl, note, w) /\ Delivered(w) = rl
    /\ WatcherOK(rl, note, w) /\ Has(rl, w)

LEMMA HeadQueued ==
    ASSUME WcInv, Alive(rl), loop = "events", running = NULL
    PROVE  Next1(Head(batch)) /\ ~note.early /\ ~note.repeated /\ note.misuse = "no"
<1> DEFINE w == Head(batch)
<1>1. batch \in Seq(Watcher) /\ batch # <<>> /\ Runs(rl)
  BY DEF WcInv, BatchOK
<1>2. 1 \in DOMAIN batch /\ w = batch[1]
  BY <1>1
<1>3. QueuedOK(rl, note, w)
  BY <1>2 DEF WcInv, BatchOK
<1>4. w \in Watcher /\ Has(rl, w) /\ w # NULL
  BY <1>3, WatcherPlace DEF QueuedOK
<1>5. Delivered(w) = rl
  BY <1>1, <1>4, DeliveredFields, Zenon DEF Has, Runs
<1>6. WatcherOK(rl, note, w)
  BY <1>4 DEF WcInv
<1>7. ~note.early /\ ~note.repeated
  BY DEF WcInv, RunningOK
<1>8. note.misuse = "no"
  BY DEF WcInv, Alive
<1> HIDE DEF w
<1>9. Next1(w)
  BY <1>3, <1>4, <1>5, <1>6 DEF Next1, w
<1> QED BY <1>7, <1>8, <1>9 DEF w

LEMMA HandledKeeps ==
    ASSUME WcInv, Alive(rl), loop = "events", running = NULL, NEW w, Next1(w),
           NEW r2, NEW c, NEW n2, Handled(r2, c, n2), Runs(r2), RStep(r2, rl, w), NStep(n2, note, w),
           WatcherOK(r2, n2, w), RunningOK(n2, c), conns' \in Nat
    PROVE  WcInv'
<1>1. batch \in Seq(Watcher) /\ batch # <<>> /\ BatchOK(rl, note, batch)
  BY DEF WcInv, BatchOK
<1>2. w \in Watcher /\ w = Head(batch)
  BY DEF Next1
<1>3. /\ rl' = r2 /\ note' = n2 /\ running' = c /\ batch' = Tail(batch) /\ sock' = sock
      /\ ready' = ReadyOf(r2, conns', sock) /\ loop' = IF c = NULL THEN AfterEvent ELSE loop
  BY Zenon DEF Handled, Runs
<1>4. BatchOK(rl', note', batch')
  BY <1>1, <1>2, <1>3, BatchTail
<1>5. loop' = "events" /\ running' = NULL => batch' # <<>>
  <2>1. Len(batch) \in Nat /\ Len(batch) # 0 /\ Len(Tail(batch)) = Len(batch) - 1
    BY <1>1
  <2>2. Len(batch) # 1 => Len(Tail(batch)) # 0
    BY <2>1
  <2>3. Len(batch) # 1 => Tail(batch) # <<>>
    BY <2>2, Zenon
  <2> QED BY <1>3, <2>3 DEF AfterEvent
<1>6. ready' = ReadyOf(rl', conns', sock')
  BY <1>3
<1> QED BY <1>2, <1>3, <1>4, <1>5, <1>6, StepKeeps

\* The timer's callback: the timer is read, and deregistered unless it repeats.
LEMMA TimerHandled ==
    ASSUME NEW r, Runs(r), NEW t \in Timer, Has(r, t), r.timer[t].timer_postable # NULL
    PROVE  LET r2 == timer_handler(r, t)
           IN  /\ Runs(r2) /\ RStep(r2, r, t) /\ r2.timer[t].expired = FALSE
               /\ r2.timer[t].open = r.timer[t].open
               /\ r2.timer[t].timer_postable = r.timer[t].timer_postable
               /\ Has(r2, t) => r.timer[t].repeating /\ r2.interest = r.interest
<1> DEFINE read == timerfd_read(r, t)
           done == IF read.timer[t].repeating THEN read ELSE runloop_deregister(read, fdOf[t])
<1>0. t \in Watcher
  BY WatcherAssumption
<1>1. Started(read, r, t) /\ read.timer[t].repeating = r.timer[t].repeating
  BY ExpiredSet, Zenon
<1>2. timer_handler(r, t) = Asserting(done, done.timer[t].timer_postable # NULL, "timer_postable", done)
  BY Zenon DEF timer_handler, runloop_timer_deregister
<1> HIDE DEF read
<1>3. Runs(read) /\ RStep(read, r, t) /\ read.entries = r.entries /\ read.interest = r.interest /\ Has(read, t)
  BY <1>1, TimerRuns DEF Started, Has
<1>4. CASE read.timer[t].repeating
  <2>1. done = read
    BY <1>4
  <2> HIDE DEF done
  <2>2. timer_handler(r, t) = read
    BY <1>1, <1>2, <2>1, Zenon DEF Asserting, Started
  <2> QED BY <1>1, <1>3, <1>4, <2>2 DEF Started
<1>5. CASE ~read.timer[t].repeating
  <2>1. done = runloop_deregister(read, fdOf[t])
    BY <1>5
  <2>2. Runs(done) /\ RStep(done, read, t) /\ SameWatchers(done, read) /\ ~Has(done, t)
    BY <1>0, <1>3, <2>1, Released, Zenon
  <2> HIDE DEF done
  <2>3. done.timer = read.timer /\ RStep(done, r, t)
    BY <1>3, <2>2, StepTwice DEF SameWatchers, Kind
  <2>4. timer_handler(r, t) = done
    BY <1>1, <1>2, <2>3, Zenon DEF Asserting, Started
  <2> QED BY <1>1, <2>2, <2>3, <2>4 DEF Started
<1> QED BY <1>4, <1>5, Zenon

LEMMA CallbackName ==
    ASSUME NEW w \in Watcher, NEW k \in {"call", "read", "write"}
    PROVE  <<w, k>> # NULL /\ <<w, k>>[1] = w
BY WatcherAssumption

LEMMA HandleTimerKeeps ==
    ASSUME WcInv, Alive(rl), loop = "events", running = NULL, NEW t \in Timer, Next1(t), HandleTimer(t)
    PROVE  WcInv'
<1> DEFINE n2 == [note EXCEPT !.early = t \notin note.elapsed, !.elapsed = @ \ {t},
                              !.repeated = t \in note.once,
                              !.once = IF rl.timer[t].repeating THEN @ ELSE @ \cup {t}]
           r2 == timer_handler(rl, t)
           c == <<t, "call">>
<1>0. Runs(rl) /\ HasNotes(note) /\ conns \in Nat
  BY DEF WcInv
<1>1. t \in Watcher /\ TimerOK(rl, note, t) /\ t \in note.elapsed \cup note.reset /\ Has(rl, t) /\ Delivered(t) = rl
  BY TimerIsOK DEF Next1
<1>2. /\ Runs(r2) /\ RStep(r2, rl, t) /\ r2.timer[t].expired = FALSE
      /\ r2.timer[t].open = rl.timer[t].open /\ r2.timer[t].timer_postable = rl.timer[t].timer_postable
      /\ Has(r2, t) => rl.timer[t].repeating /\ r2.interest = rl.interest
  BY <1>0, <1>1, TimerHandled, Zenon DEF TimerOK
<1>3. Handled(r2, c, n2) /\ conns' = conns
  BY <1>1 DEF HandleTimer
<1>4. /\ n2.early <=> t \notin note.elapsed
      /\ n2.repeated <=> t \in note.once
      /\ n2.reset = note.reset
      /\ n2.wasOff = note.wasOff
      /\ rl.timer[t].repeating => n2.once = note.once
      /\ NStep(n2, note, t)
  <2>1. /\ n2.early = (t \notin note.elapsed) /\ n2.elapsed = note.elapsed \ {t}
        /\ n2.repeated = (t \in note.once)
        /\ n2.once = (IF rl.timer[t].repeating THEN note.once ELSE note.once \cup {t})
        /\ n2.reset = note.reset /\ n2.wasOff = note.wasOff /\ n2.misuse = note.misuse
        /\ n2.off = note.off /\ n2.told = note.told /\ n2.owed = note.owed /\ DOMAIN n2 = DOMAIN note
    BY <1>0 DEF HasNotes, NoNote
  <2> HIDE DEF n2
  <2>2. HasNotes(n2)
    BY <1>0, <2>1 DEF HasNotes
  <2>3. \A v \in Watcher : v # t => (v \in n2.once <=> v \in note.once) /\ (v \in n2.elapsed <=> v \in note.elapsed)
    BY <2>1
  <2> QED BY <2>1, <2>2, <2>3, Zenon DEF NStep
<1> HIDE DEF n2, r2
<1>5. TimerOK(r2, n2, t)
  BY <1>1, <1>2, <1>4, Zenon DEF TimerOK
<1>6. c # NULL /\ c[1] = t
  BY <1>1, CallbackName, Zenon
<1> HIDE DEF c
<1>7. RunningOK(n2, c)
  <2>1. t \notin note.once /\ t \notin Eventfd
    BY <1>1, WatcherAssumption, Zenon DEF TimerOK
  <2> QED BY <1>1, <1>4, <1>6, <2>1, Zenon DEF RunningOK
<1>8. WatcherOK(r2, n2, t)
  BY <1>5, TimerIsOK
<1> QED BY <1>0, <1>2, <1>3, <1>4, <1>7, <1>8, HandledKeeps, Zenon

LEMMA HandleEventfdKeeps ==
    ASSUME WcInv, Alive(rl), loop = "events", running = NULL, ~note.early, NEW e \in Eventfd, Next1(e),
           HandleEventfd(e)
    PROVE  WcInv'
<1>0. Runs(rl) /\ HasNotes(note) /\ conns \in Nat /\ conns' = conns /\ RunningOK(note, NULL)
  BY DEF WcInv, HandleEventfd
<1>1. /\ e \in Watcher /\ EventfdOK(rl, note, e) /\ Has(rl, e) /\ Delivered(e) = rl
      /\ rl.eventfd[e].fdevent_postable # NULL /\ e \notin note.wasOff
  BY EventfdIsOK, Zenon DEF Next1
<1>2. rl.eventfd[e].counter \in Nat /\ rl.eventfd[e].counter = note.owed[e]
  BY <1>1, Zenon DEF EventfdOK
<1>3. CASE rl.eventfd[e].counter = 0
  <2>1. ~EventfdCalls(rl, e) /\ eventfd_handler(rl, e) = rl
    BY <1>3 DEF EventfdCalls, eventfd_handler, eventfd_read, Asserting
  <2>2. Handled(rl, NULL, note)
    BY <1>1, <2>1 DEF HandleEventfd
  <2>3. NStep(note, note, e) /\ RStep(rl, rl, e) /\ WatcherOK(rl, note, e)
    BY <1>0, SameNote, NoStep DEF Next1
  <2> QED BY <1>0, <2>2, <2>3, HandledKeeps
<1>4. CASE rl.eventfd[e].counter # 0
  <2> DEFINE x == rl.eventfd[e].counter - 1
             r2 == [rl EXCEPT !.eventfd[e].counter = x]
             n2 == [note EXCEPT !.owed[e] = x]
             c == <<e, "call">>
  <2>1. EventfdCalls(rl, e) /\ note.owed[e] - 1 = x /\ x \in Nat
    <3>1. rl.eventfd[e].counter > 0
      BY <1>2, <1>4
    <3> QED BY <1>2, <3>1 DEF EventfdCalls
  <2>2. eventfd_read(rl, e) = r2
    BY <1>4 DEF eventfd_read
  <2>3. eventfd_handler(rl, e) = r2
    BY <1>1, <2>2 DEF eventfd_handler, Asserting
  <2>4. n2 = [note EXCEPT !.owed[e] = @ - 1]
    BY <1>2
  <2>5. Handled(r2, c, n2)
    BY <1>1, <2>1, <2>3, <2>4 DEF HandleEventfd
  <2> HIDE DEF x
  <2>6. CounterIs(r2, rl, e, x)
    BY <1>0, CounterSet
  <2>7. NStep(n2, note, e) /\ Quiet(n2, note) /\ n2.owed[e] = x /\ n2.off = note.off
    BY <1>0, OwedSet
  <2> HIDE DEF r2, n2
  <2>8. Runs(r2) /\ RStep(r2, rl, e) /\ r2.entries = rl.entries /\ r2.interest = rl.interest
    BY <1>0, <2>6, EventfdRuns DEF CounterIs
  <2>9. EventfdOK(r2, n2, e)
    BY <1>1, <2>1, <2>6, <2>7, <2>8, Zenon DEF EventfdOK, CounterIs, Has
  <2>10. WatcherOK(r2, n2, e)
    BY <2>9, EventfdIsOK, Zenon
  <2>11. c # NULL /\ c[1] = e
    BY <1>1, CallbackName, Zenon
  <2> HIDE DEF c
  <2>12. RunningOK(n2, c)
    BY <1>0, <1>1, <2>7, <2>11, Zenon DEF RunningOK, NStep, Quiet
  <2> QED BY <1>0, <2>5, <2>7, <2>8, <2>10, <2>12, HandledKeeps
<1> QED BY <1>3, <1>4

LEMMA ExpiresKeeps ==
    ASSUME WcInv, NEW t \in Timer, Expires(t)
    PROVE  WcInv'
<1> DEFINE r2 == timerfd_expires(rl, t)
           n2 == [note EXCEPT !.elapsed = @ \cup {t}]
<1>1. /\ Alive(rl) /\ rl' = r2 /\ note' = n2 /\ batch' = batch /\ running' = running /\ loop' = loop
      /\ conns' = conns /\ sock' = sock /\ ready' = ReadyOf(r2, conns, sock)
  BY DEF Expires, Outside
<1>2. /\ Runs(rl) /\ HasNotes(note) /\ RunningOK(note, running) /\ BatchOK(rl, note, batch) /\ conns \in Nat
      /\ loop = "events" /\ running = NULL => batch # <<>>
  BY <1>1 DEF WcInv
<1>3. t \in Watcher /\ TimerOK(rl, note, t)
  BY <1>1, TimerIsOK DEF WcInv
<1>4. /\ TimerBut(r2, rl, t) /\ r2.timer[t].timer_postable = rl.timer[t].timer_postable
      /\ r2.timer[t].open = rl.timer[t].open
  BY <1>2, ExpiredSet, Zenon
<1>5. NStep(n2, note, t) /\ Quiet(n2, note) /\ t \in n2.elapsed /\ n2.once = note.once
  BY <1>2 DEF NStep, Quiet, HasNotes, NoNote
<1> HIDE DEF r2, n2
<1>6. Runs(r2) /\ RStep(r2, rl, t) /\ r2.entries = rl.entries /\ r2.interest = rl.interest
  BY <1>2, <1>4, TimerRuns
<1>7. TimerOK(r2, n2, t)
  BY <1>3, <1>4, <1>5, <1>6, Zenon DEF TimerOK, Has
<1>8. WatcherOK(r2, n2, t)
  BY <1>7, TimerIsOK
<1>9. BatchOK(r2, n2, batch)
  <2>1. ASSUME NEW i \in DOMAIN batch, batch[i] = t PROVE QueuedOK(r2, n2, t)
    <3>1. Has(r2, t)
      BY <1>2, <1>6, <2>1 DEF BatchOK, QueuedOK, Has
    <3> QED BY <1>5, <3>1, TimerIsOK, Zenon
  <2> QED BY <1>2, <1>3, <1>5, <1>6, <2>1, BatchSame, Zenon
<1>10. RunningOK(n2, running)
  BY <1>2, <1>5, RunningSame, Zenon
<1>11. ready' = ReadyOf(rl', conns', sock')
  BY <1>1
<1> QED BY <1>1, <1>2, <1>3, <1>5, <1>6, <1>8, <1>9, <1>10, <1>11, StepKeeps, Zenon

LEMMA FireKeeps ==
    ASSUME WcInv, NEW e \in Eventfd, Fire(e)
    PROVE  WcInv'
<1> DEFINE x == rl.eventfd[e].counter + 1
           r2 == [rl EXCEPT !.eventfd[e].counter = x]
           n2 == [note EXCEPT !.owed[e] = x]
<1>1. /\ Alive(rl) /\ batch' = batch /\ running' = running /\ loop' = loop /\ rl.eventfd[e].open
      /\ conns' = conns /\ sock' = sock
  BY DEF Fire, Outside
<1>2. /\ Runs(rl) /\ HasNotes(note) /\ RunningOK(note, running) /\ BatchOK(rl, note, batch) /\ conns \in Nat
      /\ loop = "events" /\ running = NULL => batch # <<>>
  BY <1>1 DEF WcInv
<1>3. e \in Watcher /\ EventfdOK(rl, note, e)
  BY <1>1, EventfdIsOK, Zenon DEF WcInv
<1>4. x \in Nat /\ note.owed[e] + 1 = x
  <2>1. rl.eventfd[e].counter \in Nat /\ rl.eventfd[e].counter = note.owed[e]
    BY <1>1, <1>3, Zenon DEF EventfdOK
  <2> QED BY <2>1
<1>5. rl' = r2 /\ note' = n2 /\ ready' = ReadyOf(r2, conns, sock)
  BY <1>4 DEF Fire, Outside, runloop_eventfd_fire
<1> HIDE DEF x
<1>6. CounterIs(r2, rl, e, x)
  BY <1>2, CounterSet
<1>7. NStep(n2, note, e) /\ Quiet(n2, note) /\ n2.owed[e] = x /\ n2.off = note.off
  BY <1>2, OwedSet, Zenon
<1> HIDE DEF r2, n2
<1>8. Runs(r2) /\ RStep(r2, rl, e) /\ r2.entries = rl.entries /\ r2.interest = rl.interest
  BY <1>2, <1>6, EventfdRuns DEF CounterIs
<1>9. EventfdOK(r2, n2, e)
  BY <1>3, <1>4, <1>6, <1>7, <1>8, Zenon DEF EventfdOK, CounterIs, Has
<1>10. WatcherOK(r2, n2, e)
  BY <1>9, EventfdIsOK
<1>11. BatchOK(r2, n2, batch)
  <2>1. ASSUME NEW i \in DOMAIN batch, batch[i] = e PROVE QueuedOK(r2, n2, e)
    <3>1. QueuedOK(rl, note, e)
      BY <1>2, <2>1 DEF BatchOK
    <3>2. Has(rl, e) /\ rl.eventfd[e].fdevent_postable # NULL /\ e \notin note.wasOff
      BY <3>1, EventfdIsOK
    <3>3. r2.eventfd[e].fdevent_postable = rl.eventfd[e].fdevent_postable /\ n2.wasOff = note.wasOff
      BY <1>6, <1>7, Zenon DEF CounterIs, NStep
    <3>4. Has(r2, e)
      BY <1>8, <3>2, Zenon DEF Has
    <3> QED BY <3>2, <3>3, <3>4, EventfdIsOK, Zenon
  <2> QED BY <1>2, <1>3, <1>7, <1>8, <2>1, BatchSame
<1>12. RunningOK(n2, running)
  BY <1>2, <1>7, RunningSame
<1>13. ready' = ReadyOf(rl', conns', sock')
  BY <1>1, <1>5
<1> QED BY <1>1, <1>2, <1>3, <1>5, <1>7, <1>8, <1>10, <1>11, <1>12, <1>13, StepKeeps, Zenon
=============================================================================
