---------------------------- MODULE GetAddrInfo ----------------------------
(***************************************************************************)
(* evdns_getaddrinfo(): one lookup of a name as an A request, an AAAA      *)
(* request or both at once, whose answers are put together; the second one *)
(* has a short time to arrive once the first has.  The callback of a       *)
(* request that has ended is deferred; the user may cancel the lookup as   *)
(* long as its own callback was not called.                                *)
(***************************************************************************)
EXTENDS Naturals, Sequences

CONSTANTS
  Families,     \* the families asked for: "UNSPEC", "INET", "INET6"
  Results,      \* what a DNS request may end with, e.g. "NONE", "NOTEXIST";
                \* "EMPTY" is DNS_ERR_NONE without an address
  Memory,       \* {TRUE}, or {TRUE, FALSE}: evutil_new_addrinfo() may fail
  Hosts         \* the kinds of addresses the hosts file may hold for the name

VARIABLE g

Subs == {"v4", "v6"}
Other(q) == IF q = "v4" THEN "v6" ELSE "v4"

\* req[q]: "null" when data->ipvX_request.r is NULL, "flight" while the DNS
\* request runs, "ended" when its callback is scheduled.
Idle == [req |-> [q \in Subs |-> "null"], queue |-> <<>>, timer |-> "none", user_cb |-> FALSE,
         result |-> {}, error |-> "", canceled |-> FALSE, done |-> FALSE, mem |-> "none",
         calls |-> <<>>, wants |-> {}, asked |-> FALSE, abort |-> ""]

Aborted(t, why) == [t EXCEPT !.abort = why]

Call(t, err, res) == [t EXCEPT !.calls = Append(@, [err |-> err, res |-> res])]

\* evdns_cancel_request(): nothing happens to a request that has ended
Cancel(t, q) ==
  IF t.req[q] # "flight" THEN t
  ELSE [t EXCEPT !.req[q] = "ended", !.queue = Append(@, [q |-> q, result |-> "CANCEL"])]

free_getaddrinfo_request(t) == [t EXCEPT !.mem = "freed", !.timer = "none", !.result = {}]

\* The skew that is allowed is longer than a round of deferred callbacks: the
\* timer cannot expire before those already scheduled have run.
evdns_getaddrinfo_set_timeout(t) ==
  [t EXCEPT !.timer = IF t.queue = <<>> THEN "running" ELSE "started"]

evdns_err_to_getaddrinfo_err(result) ==
  CASE result = "NONE" -> "" [] result = "EMPTY" -> "EAI_NODATA" [] result = "NOTEXIST" -> "EAI_NONAME" [] OTHER -> "EAI_FAIL"

getaddrinfo_merge_err(e1, e2) == IF e1 = "" THEN e2 ELSE e1

\* An answer arrives first, or last: then it is reported with the other one.
Success(t, q, memory) ==
  LET o == Other(q)
      u == Call(Cancel(t, o), "EAI_MEMORY", {}) IN
  IF ~memory THEN IF u.req[o] = "null" THEN free_getaddrinfo_request(u) ELSE u
  ELSE IF t.req[o] # "null" THEN [evdns_getaddrinfo_set_timeout(t) EXCEPT !.result = {q}]
  ELSE free_getaddrinfo_request(Call(t, "", t.result \cup {q}))

Failure(t, q, err) ==
  IF t.req[Other(q)] # "null"
  THEN [evdns_getaddrinfo_set_timeout(t) EXCEPT !.error = err]
  ELSE free_getaddrinfo_request(
         CASE t.canceled -> Call(t, "EAI_CANCEL", {})
           [] ~t.canceled /\ t.result # {} -> Call(t, "", t.result)
           [] OTHER -> Call(t, IF t.error # "" THEN getaddrinfo_merge_err(err, t.error) ELSE err, {}))

\* an answer that comes after the user was told is reported too
AnswerLate(t, q, result, memory) ==
  LET u == [t EXCEPT !.req[q] = "null", !.done = @ \/ t.req[Other(q)] = "null"]
      err == evdns_err_to_getaddrinfo_err(result) IN
  IF result = "CANCEL" /\ ~t.canceled THEN free_getaddrinfo_request(u)
  ELSE IF err # "" THEN Failure(u, q, err) ELSE Success(u, q, memory)

GotResolve(t, q, result, memory) ==
  LET o == Other(q)
      u == [t EXCEPT !.req[q] = "null", !.done = @ \/ t.req[o] = "null"]
      err == evdns_err_to_getaddrinfo_err(result) IN
  IF t.mem # "live" THEN Aborted(t, "a callback uses a freed lookup")
  ELSE IF result = "CANCEL" /\ ~t.canceled
  THEN IF u.req[o] = "null" THEN free_getaddrinfo_request(u) ELSE u
  ELSE IF ~t.user_cb THEN free_getaddrinfo_request(u)
  ELSE IF err # "" THEN Failure(u, q, err)
  ELSE IF t.canceled
  THEN IF u.req[o] # "null" THEN u ELSE free_getaddrinfo_request(Call(u, "EAI_CANCEL", {}))
  ELSE Success(u, q, memory)

evdns_getaddrinfo_gotresolve(memory) ==
  /\ g.abort = "" /\ g.queue # <<>>
  /\ LET d == Head(g.queue)
         t == [g EXCEPT !.queue = Tail(@), !.timer = IF @ = "started" /\ Tail(g.queue) = <<>> THEN "running" ELSE @]
     IN g' = GotResolve(t, d.q, d.result, memory)

\* A DNS request ends with a result: its callback is scheduled.
DnsReply(q, result) ==
  /\ g.abort = "" /\ g.req[q] = "flight"
  /\ g' = [g EXCEPT !.req[q] = "ended", !.queue = Append(@, [q |-> q, result |-> result])]

\* "if the request's callback is already running", cancelling does nothing
Timeout(t) ==
  LET u == Cancel(Cancel(t, "v4"), "v6")
      late == {q \in Subs : t.req[q] # "null"}
      v == IF t.result # {} THEN [Call(u, "", t.result) EXCEPT !.result = {}]
           ELSE Call(u, IF t.error # "" THEN t.error ELSE "EAI_AGAIN", {})
      w == [v EXCEPT !.user_cb = FALSE, !.timer = "none"] IN
  IF late = Subs THEN Aborted(t, "!v4_timedout || !v6_timedout")
  ELSE IF late = {} THEN free_getaddrinfo_request(w) ELSE w

evdns_getaddrinfo_timeout_cb ==
  /\ g.abort = "" /\ g.mem = "live" /\ g.timer = "running"
  /\ g' = Timeout(g)

evdns_getaddrinfo(family, started, hosts) ==
  /\ g = Idle
  /\ LET wants == {q \in Subs : family = "UNSPEC" \/ (family = "INET") = (q = "v4")}
         t == [Idle EXCEPT !.asked = TRUE, !.wants = wants, !.mem = "live", !.user_cb = TRUE,
                           !.req = [q \in Subs |-> IF q \in wants \cap started THEN "flight" ELSE "null"]]
     IN g' = IF hosts # {} THEN Call([Idle EXCEPT !.asked = TRUE, !.wants = wants], "", wants \cap hosts)
             ELSE IF wants \cap started = {} THEN Call([t EXCEPT !.mem = "freed"], "EAI_FAIL", {})
             ELSE t

\* The user cancels a lookup whose callback was not called.
evdns_getaddrinfo_cancel ==
  /\ g.abort = "" /\ g.mem = "live" /\ g.calls = <<>> /\ ~g.canceled
  /\ g' = IF g.done THEN g ELSE Cancel(Cancel([g EXCEPT !.timer = "none", !.canceled = TRUE], "v4"), "v6")

Init == g = Idle

Next ==
  \/ \E f \in Families, started \in SUBSET Subs, h \in Hosts : evdns_getaddrinfo(f, started, h)
  \/ \E q \in Subs, r \in Results : DnsReply(q, r)
  \/ \E m \in Memory : evdns_getaddrinfo_gotresolve(m)
  \/ evdns_getaddrinfo_timeout_cb
  \/ evdns_getaddrinfo_cancel

Spec == Init /\ [][Next]_g

\* Every DNS request ends (DnsRequests) and deferred callbacks run.
GoesOn == (\E m \in Memory : evdns_getaddrinfo_gotresolve(m)) \/ \E q \in Subs, r \in Results : DnsReply(q, r)

\* ---------------------------------------------------------------------------

\* No callback runs on a lookup that was freed, and no assertion fails.
NoAbort == g.abort = ""

\* The user's callback is called at most once ("prevent double-call if evdns
\* callbacks are in-progress"), unless it is told that there is no memory for an
\* answer: the other request, when it has ended by then, is not cancelled and
\* reports its own (evdns.c:4438).
CalledOnce == Len(g.calls) <= IF g.calls # <<>> /\ g.calls[1].err = "EAI_MEMORY" THEN 2 ELSE 1

\* When no DNS request is left and no callback is scheduled, the lookup has
\* been freed and the user has been told: nothing is leaked or left hanging.
NothingLeft ==
  g.asked /\ g.queue = <<>> /\ (\A q \in Subs : g.req[q] = "null") =>
    g.mem # "live" /\ Len(g.calls) >= 1

\* A lookup that was canceled is reported as canceled, whatever answers were
\* there or on their way.
CancelReported == g.canceled /\ g.calls # <<>> => g.calls[1].err = "EAI_CANCEL"

\* Success is reported with addresses of the families that were asked for (or
\* with none, when the hosts file has only others).
AnswerIsWanted ==
  \A i \in 1..Len(g.calls) :
    /\ g.calls[i].res \subseteq g.wants
    /\ g.calls[i].err = "" /\ g.mem # "none" => g.calls[i].res # {}

\* Every lookup ends in the user's callback.
Untold == g.asked /\ g.calls = <<>>
=============================================================================
