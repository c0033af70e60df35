---------------------------- MODULE DnsRequests ----------------------------
(***************************************************************************)
(* The stub resolver of evdns.c: requests in flight and waiting, the ring  *)
(* of nameservers with their failures and probes, retransmission on        *)
(* timeouts, search lists, cancellation, suspension and shutdown.  Replies *)
(* may be lost, repeated, late or refusals; a send may succeed, block or   *)
(* fail.  User callbacks run later, from the queue of deferred callbacks.  *)
(*                                                                         *)
(* The order of the requests in flight is that of one list (req_heads has  *)
(* (max+4)/5 lists, one for up to five requests); a transaction id is the  *)
(* identity of the request; times are left out.                            *)
(***************************************************************************)
EXTENDS Integers, Sequences, FiniteSets, SequencesExt, FiniteSetsExt

CONSTANTS
  Servers,      \* nameservers that may ever be configured, numbers from 1
  Configured,   \* how many of them are configured at the start
  Users,        \* handles of the user's requests
  Probes,       \* handles of the probe requests that may be active at once
  MaxInflight,  \* global_max_requests_inflight
  MaxTx,        \* global_max_retransmits
  MaxTimeouts,  \* global_max_nameserver_timeout
  MaxReissues,  \* global_max_reissues
  Searches,     \* how many more names the search list of a request holds
  Calls,        \* what the user does
  Replies,      \* the results a nameserver may reply with
  Nets          \* the results sendto() may have

VARIABLE s

None == 0

Handles == Users \cup Probes

\* a struct evdns_request with its current struct request: the list it is on,
\* its nameserver, transmissions, reissues, transmit_me, whether its timeout
\* event is pending, names left to search, pending_cb, the nameserver it
\* probes, and what became of it: "new", "active" or "freed".
Fresh == [q |-> "none", ns |-> None, tx |-> 0, re |-> 0, tm |-> FALSE, tmr |-> FALSE,
          more |-> 0, cb |-> FALSE, probes |-> None, life |-> "new"]

\* a struct nameserver
NewServer == [state |-> 0, timedout |-> 0, choked |-> FALSE, waiting |-> FALSE,
              timer |-> FALSE, probe |-> None, mem |-> "new"]

\* A failed assertion, or a use of memory that was freed.
Aborted(t, why) == IF t.abort = "" THEN [t EXCEPT !.abort = why] ELSE t

\* ---------------------------------------------------------------------------
\* nameservers

\* Advance server_head to the server after the i-th.
Advance(ring, i) == SubSeq(ring, i + 1, Len(ring)) \o SubSeq(ring, 1, i)

nameserver_pick(t) ==
  LET up == {i \in 1..Len(t.ring) : t.ns[t.ring[i]].state = 1} IN
  IF t.ring = <<>> THEN [t |-> t, n |-> None]
  ELSE IF t.ns[t.ring[1]].mem = "freed" \/ (t.good = 0 /\ t.ns[Advance(t.ring, 1)[1]].mem = "freed")
  THEN [t |-> Aborted(t, "a freed nameserver is picked"), n |-> None]
  ELSE IF t.good = 0
  THEN [t |-> [t EXCEPT !.ring = Advance(@, 1)], n |-> Advance(t.ring, 1)[1]]
  ELSE IF up = {} THEN [t |-> Aborted(t, "global_good_nameservers == 0"), n |-> None]
  ELSE [t |-> [t EXCEPT !.ring = Advance(@, Min(up))], n |-> t.ring[Min(up)]]

\* Give request h the nameserver that was picked.
Given(p, h) == [p.t EXCEPT !.h[h].ns = p.n]
Assign(t, h) == Given(nameserver_pick(t), h)

nameserver_failed(t, n) ==
  LET u == [t EXCEPT !.good = @ - 1, !.ns[n].state = 0, !.ns[n].timer = TRUE]
      Move(v, h) == IF v.h[h].tx = 0 /\ v.h[h].ns = n THEN Assign(v, h) ELSE v IN
  CASE t.ns[n].state = 0 -> t
    [] t.good = 0 -> Aborted(t, "global_good_nameservers >= 0")
    [] u.good = 0 -> u
    [] OTHER -> FoldLeft(Move, u, t.inflight)

nameserver_probe_failed(t, n) ==
  [t EXCEPT !.ns[n].timer = t.ns[n].state = 0]

\* ---------------------------------------------------------------------------
\* sending

NoWriteWaiting(t, h) ==
  LET n == t.h[h].ns
      u == [t EXCEPT !.h[h].tm = TRUE] IN
  IF n = None \/ t.ns[n].choked THEN u
  ELSE IF t.net[n] = "again" THEN [u EXCEPT !.ns[n].choked = TRUE]
  ELSE [u EXCEPT !.h[h].tm = FALSE, !.h[h].tx = @ + 1, !.h[h].tmr = TRUE, !.sent = @ \cup {<<n, h>>}]

Transmitted(t, h) == [t EXCEPT !.h[h].tm = FALSE, !.h[h].tx = @ + 1, !.h[h].tmr = TRUE]

evdns_request_transmit(t, h) ==
  LET n == t.h[h].ns
      u == [t EXCEPT !.h[h].tm = TRUE] IN
  IF n = None THEN u
  ELSE IF t.ns[n].mem = "freed" THEN Aborted(t, "a request is sent to a freed nameserver")
  ELSE IF t.ns[n].choked THEN u
  ELSE IF t.net[n] = "again" THEN [u EXCEPT !.ns[n].choked = TRUE, !.ns[n].waiting = TRUE]
  ELSE Transmitted(IF t.net[n] = "error" THEN nameserver_failed(u, n) ELSE [u EXCEPT !.sent = @ \cup {<<n, h>>}], h)

evdns_transmit(t) ==
  FoldLeft(LAMBDA u, h : IF u.h[h].tm THEN evdns_request_transmit(u, h) ELSE u, t, t.inflight)

evdns_request_insert(t, h, q) ==
  IF q = "in" THEN [t EXCEPT !.inflight = Append(@, h), !.h[h].q = q]
  ELSE [t EXCEPT !.waiting = Append(@, h), !.h[h].q = q]

evdns_request_remove(t, h, q) ==
  IF t.h[h].q # q THEN Aborted(t, "a request is removed from a list it is not on")
  ELSE IF q = "in" THEN [t EXCEPT !.inflight = Remove(@, h), !.h[h].q = "none"]
  ELSE [t EXCEPT !.waiting = Remove(@, h), !.h[h].q = "none"]

RECURSIVE evdns_requests_pump_waiting_queue(_)

Start(t, h) ==
  evdns_requests_pump_waiting_queue(evdns_transmit(evdns_request_transmit(
    evdns_request_insert([t EXCEPT !.nwait = @ - 1, !.nin = @ + 1], h, "in"), h)))

StartAt(p, h) ==
  IF p.n = None THEN p.t ELSE Start(evdns_request_remove([p.t EXCEPT !.h[h].ns = p.n], h, "wait"), h)

evdns_requests_pump_waiting_queue(t) ==
  IF t.nin >= MaxInflight \/ t.nwait = 0 \/ t.abort # "" THEN t
  ELSE IF t.waiting = <<>> THEN Aborted(t, "base->req_waiting_head")
  ELSE StartAt(nameserver_pick(t), t.waiting[1])

\* ---------------------------------------------------------------------------
\* the life of a request

reply_schedule_callback(t, h, err) ==
  [t EXCEPT !.h[h].cb = TRUE, !.deferred = Append(@, [h |-> h, err |-> err, from |-> t.from])]

Uncounted(t, q) == IF q = "in" THEN [t EXCEPT !.nin = @ - 1] ELSE [t EXCEPT !.nwait = @ - 1]

request_finished(t, h, q, free_handle) ==
  evdns_requests_pump_waiting_queue(
    [Uncounted(evdns_request_remove(t, h, q), q) EXCEPT
       !.sent = {x \in @ : x[2] # h},
       !.h[h] = [@ EXCEPT !.tmr = FALSE, !.tm = FALSE, !.ns = None, !.tx = 0, !.re = 0,
                          !.more = IF free_handle THEN 0 ELSE @,
                          !.life = IF free_handle /\ ~t.h[h].cb THEN "freed" ELSE @]])

evdns_cancel_request(t, h) ==
  IF t.h[h].q = "none" \/ t.h[h].cb THEN t
  ELSE request_finished(reply_schedule_callback(t, h, "CANCEL"), h,
                        IF t.h[h].ns # None THEN "in" ELSE "wait", TRUE)

nameserver_up(t, n) ==
  LET p == t.ns[n].probe
      u == IF p = None THEN t ELSE evdns_cancel_request([t EXCEPT !.ns[n].timer = FALSE], p) IN
  IF t.ns[n].state = 1 THEN t
  ELSE [u EXCEPT !.ns[n] = [@ EXCEPT !.timer = FALSE, !.probe = None, !.state = 1, !.timedout = 0],
                 !.good = @ + 1]

\* request_new() chooses the nameserver, or none when too many are in flight;
\* request_submit() puts the request on the list that follows from it.
request_new(t, h) ==
  IF t.nin < MaxInflight THEN nameserver_pick(t) ELSE [t |-> t, n |-> None]

Submit(t, h, n) ==
  IF n # None
  THEN evdns_request_transmit(evdns_request_insert([t EXCEPT !.nin = @ + 1], h, "in"), h)
  ELSE evdns_request_insert([t EXCEPT !.nwait = @ + 1], h, "wait")

request_submit(t, h, n) == Submit([t EXCEPT !.h[h].ns = n], h, n)

\* The next name of the search list: the new request is made before the old
\* one is finished, and submitted after.
TryAt(p, h) ==
  request_submit(request_finished([p.t EXCEPT !.h[h].more = @ - 1], h, "in", FALSE), h, p.n)

search_try_next(t, h) == TryAt(request_new(t, h), h)

SendProbe(p, n, h) == request_submit([p.t EXCEPT !.ns[n].probe = h], h, n)

nameserver_send_probe(t, n, h) ==
  SendProbe(request_new([t EXCEPT !.h[h] = [Fresh EXCEPT !.life = "active", !.probes = n]], h), n, h)

\* ---------------------------------------------------------------------------
\* events

GoodReply(t, h) ==
  LET n == t.h[h].ns
  IN nameserver_up(IF t.ns[n].probe = h THEN [t EXCEPT !.ns[n].probe = None] ELSE t, n)

\* "all else failed": the next name of the search list, or the user is told
PassUp(t, h, err) ==
  IF t.h[h].more > 0 THEN search_try_next(t, h)
  ELSE request_finished(reply_schedule_callback(t, h, err), h, "in", TRUE)

\* request_reissue() sends the request to another nameserver than the last.
Reissue(t, h, last, err) ==
  IF t.h[h].ns # last THEN [t EXCEPT !.h[h].re = @ + 1, !.h[h].tx = 0, !.h[h].tm = TRUE]
  ELSE PassUp(t, h, err)

reply_handle(t, h, err) ==
  CASE err = "NONE" ->
         request_finished(GoodReply(reply_schedule_callback(t, h, err), h), h, "in", TRUE)
    [] err = "REFUSED" /\ t.h[h].re < MaxReissues ->
         Reissue(Assign(nameserver_failed(t, t.h[h].ns), h), h, t.h[h].ns, err)
    [] err = "SERVERFAILED" \/ (err = "REFUSED" /\ t.h[h].re >= MaxReissues) -> PassUp(t, h, err)
    [] OTHER -> PassUp(GoodReply(t, h), h, err)

\* Nothing after a failed assertion; the result of sendto() to each server is
\* one for the whole event.
Event(t) == s.abort = "" /\ s' = [t EXCEPT !.net = s.net, !.from = None]

Sends == {[s EXCEPT !.net = net] : net \in [Servers -> Nets]}

\* Server n is readable: a reply to request h, which was sent to it.
nameserver_read(n, h, err) ==
  /\ <<n, h>> \in s.sent /\ s.ns[n].mem = "live"
  /\ \E t \in Sends : Event(reply_handle([t EXCEPT !.ns[n].timedout = 0, !.from = n], h, err))

\* Server n is writable: what is to be sent is tried; when there is nothing,
\* it is no longer watched for that.
nameserver_ready_callback(n) ==
  LET tried == \E i \in 1..Len(s.inflight) : s.h[s.inflight[i]].tm IN
  /\ s.ns[n].mem = "live" /\ s.ns[n].waiting
  /\ \E t \in Sends : Event(evdns_transmit([t EXCEPT !.ns[n].choked = FALSE, !.ns[n].waiting = tried]))

\* Reading from the socket of server n fails.
ReadError(n) ==
  /\ s.ns[n].mem = "live" /\ "error" \in Nets
  /\ Event(nameserver_failed(s, n))

TimedOut(t, n) ==
  IF t.ns[n].timedout + 1 > MaxTimeouts THEN nameserver_failed([t EXCEPT !.ns[n].timedout = 0], n)
  ELSE [t EXCEPT !.ns[n].timedout = @ + 1]

Retransmit(p, h) ==
  evdns_request_transmit([p.t EXCEPT !.h[h].tmr = FALSE, !.h[h].ns = IF p.n # None THEN p.n ELSE @], h)

GiveUpOrRetry(t, h) ==
  IF t.h[h].tx >= MaxTx
  THEN request_finished(reply_schedule_callback(t, h, "TIMEOUT"), h, "in", TRUE)
  ELSE Retransmit(nameserver_pick(t), h)

Timeout(t, h) == GiveUpOrRetry(TimedOut(t, t.h[h].ns), h)

evdns_request_timeout_callback(h) ==
  /\ s.h[h].tmr
  /\ \E t \in Sends : Event(Timeout(t, h))

nameserver_prod_callback(n) ==
  /\ s.ns[n].mem = "live" /\ s.ns[n].timer
  /\ \E h \in Probes :
       /\ s.h[h].life # "active"
       /\ \E t \in Sends : Event(nameserver_send_probe([t EXCEPT !.ns[n].timer = FALSE], n, h))

nameserver_probe_callback(t, n, err) ==
  IF err = "CANCEL" THEN t
  ELSE IF t.ns[n].mem = "freed" THEN Aborted(t, "a probe's callback uses a freed nameserver")
  ELSE LET u == [t EXCEPT !.ns[n].probe = None] IN
       IF err \in {"NONE", "NOTEXIST"} THEN nameserver_up(u, n) ELSE nameserver_probe_failed(u, n)

\* The first deferred callback runs, and its handle is freed.
RunCallback(t, d) ==
  IF d.h \in Users THEN [t EXCEPT !.called[d.h] = Append(@, d.err)]
  ELSE nameserver_probe_callback(t, t.h[d.h].probes, d.err)

reply_run_callback ==
  /\ s.deferred # <<>>
  /\ \E t \in Sends, d \in {Head(s.deferred)} :
       Event([RunCallback([t EXCEPT !.deferred = Tail(@)], d) EXCEPT !.h[d.h] = [Fresh EXCEPT !.life = "freed"]])

\* ---------------------------------------------------------------------------
\* the user

SubmitAt(p, h) == request_submit(p.t, h, p.n)

evdns_base_resolve(h, more) ==
  /\ "resolve" \in Calls /\ s.h[h].life = "new" /\ s.base
  /\ \E t \in Sends : Event(SubmitAt(request_new([t EXCEPT !.h[h].life = "active", !.h[h].more = more], h), h))

CancelRequest(h) ==
  /\ "cancel" \in Calls /\ s.h[h].life = "active" /\ s.base
  /\ \E t \in Sends : Event(evdns_cancel_request([t EXCEPT !.cancelled = @ \cup {h}], h))

\* Free server n: its events are deleted and its probe is cancelled.
evdns_nameserver_free(t, n) ==
  LET p == t.ns[n].probe
      u == IF p = None THEN t ELSE evdns_cancel_request(t, p)
  IN [u EXCEPT !.ns[n] = [@ EXCEPT !.timer = FALSE, !.waiting = FALSE, !.probe = None, !.mem = "freed"],
               !.sent = {x \in @ : x[1] # n}]

\* Every request in flight goes back to the front of the waiting queue.
Suspend(t, h) ==
  [t EXCEPT !.h[h] = [@ EXCEPT !.q = "wait", !.ns = None, !.tx = 0, !.re = 0, !.tm = FALSE, !.tmr = FALSE],
            !.waiting = <<h>> \o @, !.nwait = @ + 1, !.sent = {x \in @ : x[2] # h}]

SuspendAll(t) ==
  [FoldLeft(Suspend, [t EXCEPT !.ring = <<>>, !.good = 0], t.inflight) EXCEPT !.inflight = <<>>, !.nin = 0]

evdns_base_clear_nameservers_and_suspend ==
  /\ "clear" \in Calls /\ s.base /\ s.ring # <<>>
  /\ \E t \in Sends : Event(SuspendAll(FoldLeft(evdns_nameserver_free, t, t.ring)))

evdns_base_resume ==
  /\ "clear" \in Calls /\ s.base
  /\ \E t \in Sends : Event(evdns_requests_pump_waiting_queue(t))

\* A new nameserver goes behind the head of the ring.
evdns_base_nameserver_add(n) ==
  /\ "clear" \in Calls /\ s.base /\ s.ns[n].mem = "new"
  /\ \A m \in Servers : m < n => s.ns[m].mem # "new"
  /\ Event([s EXCEPT !.ns[n] = [@ EXCEPT !.mem = "live", !.state = 1], !.good = @ + 1,
                     !.ring = IF @ = <<>> THEN <<n>> ELSE <<@[1], n>> \o Tail(@)])

\* The loop over the servers ends at the server that is now the head.
RECURSIVE FreeServers(_, _)
FreeFrom(t, next) == IF next = t.ring[1] \/ t.abort # "" THEN t ELSE FreeServers(t, next)
FreeServers(t, n) ==
  IF t.ns[n].mem = "freed" THEN Aborted(t, "a nameserver is freed twice")
  ELSE FreeFrom(evdns_nameserver_free(t, n),
                t.ring[((CHOOSE i \in 1..Len(t.ring) : t.ring[i] = n) % Len(t.ring)) + 1])

\* Every request, in flight or waiting, is failed or dropped.
Drop(t, h, fail) ==
  request_finished(IF fail THEN reply_schedule_callback(t, h, "SHUTDOWN") ELSE t, h, t.h[h].q, TRUE)

DropAll(t, hs, fail) == FoldLeft(LAMBDA v, h : Drop(v, h, fail), t, hs)
DropWaiting(t, fail) == DropAll(t, t.waiting, fail)
FreeRequests(t, fail) == DropWaiting(DropAll(t, t.inflight, fail), fail)

FreeRing(t) == IF t.ring = <<>> THEN t ELSE FreeServers(t, t.ring[1])

evdns_base_free(fail_requests) ==
  /\ "free" \in Calls /\ s.base
  /\ \E t \in Sends :
       Event([FreeRequests([FreeRing(t) EXCEPT !.ring = <<>>, !.good = 0], fail_requests) EXCEPT
                !.base = FALSE, !.dropped = ~fail_requests, !.nin = 0, !.nwait = 0])

Init ==
  s = [ring |-> SetToSortSeq(1..Configured, <), good |-> Configured,
       ns |-> [n \in Servers |-> IF n <= Configured THEN [NewServer EXCEPT !.mem = "live", !.state = 1]
                                 ELSE NewServer],
       inflight |-> <<>>, waiting |-> <<>>, nin |-> 0, nwait |-> 0,
       h |-> [h \in Handles |-> Fresh], deferred |-> <<>>, sent |-> {},
       called |-> [h \in Users |-> <<>>], cancelled |-> {}, from |-> None,
       base |-> TRUE, dropped |-> FALSE, net |-> [n \in Servers |-> "ok"], abort |-> ""]

Next ==
  \/ \E n \in Servers, h \in Handles, err \in Replies : nameserver_read(n, h, err)
  \/ \E n \in Servers : nameserver_ready_callback(n)
  \/ \E n \in Servers : ReadError(n)
  \/ \E h \in Handles : evdns_request_timeout_callback(h)
  \/ \E n \in Servers : nameserver_prod_callback(n)
  \/ reply_run_callback
  \/ \E h \in Users, more \in Searches : evdns_base_resolve(h, more)
  \/ \E h \in Users : CancelRequest(h)
  \/ evdns_base_clear_nameservers_and_suspend
  \/ evdns_base_resume
  \/ \E n \in Servers : evdns_base_nameserver_add(n)
  \/ \E fail \in BOOLEAN : evdns_base_free(fail)

Spec == Init /\ [][Next]_s

\* ---------------------------------------------------------------------------
\* properties

\* No assertion of evdns.c fails, no request is taken off a list it is not on
\* and no freed nameserver is used.
NoAbort == s.abort = ""

\* The counters that decide whether a request is sent or waits, and which
\* nameservers may be picked, always agree with the lists and the states.
Counted ==
  /\ s.nin = Len(s.inflight) /\ s.nwait = Len(s.waiting)
  /\ s.good = Cardinality({n \in Servers : s.ns[n].mem = "live" /\ s.ns[n].state = 1})

\* A request in flight can always go on by itself: its timeout is pending, or
\* it is to be sent and some nameserver's socket is being watched for writing.
NotForgotten ==
  \A h \in Handles : s.h[h].q = "in" =>
    s.h[h].tmr \/ (s.h[h].tm /\ \E n \in Servers : s.ns[n].waiting)

\* A nameserver that is down is never given up: its timer is pending, or one
\* of its probes is in flight, or the answer of one waits to be delivered.
AlwaysProbed ==
  \A n \in Servers : s.ns[n].mem = "live" /\ s.ns[n].state = 0 =>
    \/ s.ns[n].timer
    \/ \E h \in Probes : s.h[h].life = "active" /\ s.h[h].probes = n

\* Waiting requests always have a request in flight in front of them, whose
\* end starts them, unless there is no nameserver.
NeverIdle == s.waiting # <<>> => s.inflight # <<>> \/ s.ring = <<>>

\* Except for probes, no more requests are in flight than allowed.
InflightBound == Cardinality({i \in 1..Len(s.inflight) : s.inflight[i] \in Users}) <= MaxInflight

\* Every request's callback runs at most once, and DNS_ERR_CANCEL is the
\* result only of a request that was cancelled.
CalledOnce ==
  \A h \in Users : /\ Len(s.called[h]) <= 1
                   /\ s.called[h] = <<"CANCEL">> => h \in s.cancelled

\* After evdns_base_free(), no request is left that will never hear of it
\* (unless they were to be dropped).
FreeAnswersAll ==
  ~s.base /\ ~s.dropped =>
    \A h \in Users : s.h[h].life # "new" =>
      s.called[h] # <<>> \/ \E i \in 1..Len(s.deferred) : s.deferred[i].h = h

\* Every request submitted is one day called back.
Uncalled(h) == s.h[h].life = "active" /\ s.called[h] = <<>>
=============================================================================
