----------------------------- MODULE RateLimit ------------------------------
(***************************************************************************)
(* The rate limit of one bufferevent (bufferevent_ratelim.c): a token      *)
(* bucket for each direction, refilled by ticks, and one timer for both    *)
(* that lets an exhausted direction go on.  Tick numbers and sizes are     *)
(* unsigned and wrap; milliseconds stand for themselves.                   *)
(***************************************************************************)
EXTENDS Integers, FiniteSets, FiniteSetsExt

CONSTANTS Wanted,    \* the limits asked for: rate, burst, and the tick's length
          Calls,     \* what the program calls
          TickMod,   \* 2^32: tick numbers are ev_uint32_t
          SizeMod,   \* 2^64: sizes are size_t
          MaxEver,   \* MAX_TO_READ_EVER, MAX_TO_WRITE_EVER
          MaxOver    \* bound: how far a bucket goes below zero or over its burst

Dir == {"R", "W"}
INT_MAX == TickMod \div 2 - 1
NoCfg == [rate |-> 0, max |-> 0, msec |-> 0]
Clocks == TickMod * 2

ev_token_bucket_cfg_new(rate, burst, msec) ==
    IF rate > burst \/ rate < 1 \/ burst > SizeMod \div 2 - 1 THEN NoCfg
    ELSE [rate |-> rate, max |-> burst, msec |-> msec]

Cfgs == {ev_token_bucket_cfg_new(w[1], w[2], w[3]) : w \in Wanted} \ {NoCfg}

MaxBurst == Max({c.max : c \in Cfgs} \cup {MaxEver})

VARIABLES r,         \* struct bufferevent_rate_limit, and BEV_SUSPEND_BW of each direction
          now,       \* milliseconds, on a cycle
          since,     \* milliseconds since the bucket was brought up to date
          unit       \* history: the tick's length when it was

vars == <<r, now, since, unit>>

ev_token_bucket_get_tick(cfg, t) == (t \div cfg.msec) % TickMod

ev_token_bucket_init(b, cfg, tick, reinitialize) ==
    IF reinitialize THEN [b EXCEPT !.limit = [d \in Dir |-> Min({b.limit[d], cfg.max})]]
    ELSE [b EXCEPT !.limit = [d \in Dir |-> cfg.rate], !.last_updated = tick]

Ticks(b, tick) == (tick - b.last_updated) % TickMod

(* the subtraction is done on size_t *)
Filled(b, cfg, d, n) ==
    IF ((cfg.max - b.limit[d]) % SizeMod) \div n < cfg.rate THEN cfg.max
    ELSE b.limit[d] + n * cfg.rate

ev_token_bucket_update(b, cfg, tick) ==
    LET n == Ticks(b, tick) IN
    IF n = 0 \/ n > INT_MAX THEN b
    ELSE [b EXCEPT !.limit = [d \in Dir |-> Filled(b, cfg, d, n)], !.last_updated = tick]

bufferevent_update_buckets(b) == ev_token_bucket_update(b, b.cfg, ev_token_bucket_get_tick(b.cfg, now))

_bufferevent_get_rlim_max(b, d) ==
    IF b.cfg = NoCfg THEN MaxEver ELSE Max({0, b.limit[d]})

Other(d) == CHOOSE e \in Dir : e # d
event_add(b) == [b EXCEPT !.timer = b.cfg.msec]
event_del(b) == [b EXCEPT !.timer = -1]

(* a direction goes on; the timer stays for the other one *)
Resume(b, d) == [IF Other(d) \in b.bw THEN b ELSE event_del(b) EXCEPT !.bw = @ \ {d}]
Exhaust(b, d) == [event_add(b) EXCEPT !.bw = @ \union {d}]

_bufferevent_decrement_read_buckets(b, d, bytes) ==
    LET c == [b EXCEPT !.limit[d] = @ - bytes]
    IN IF b.cfg = NoCfg THEN b
       ELSE IF c.limit[d] <= 0 THEN Exhaust(c, d)
       ELSE IF d \in b.bw THEN Resume(c, d) ELSE c

(* what the program may do to the bucket *)
bufferevent_decrement_read_limit(b, d, decr) ==
    LET c == [b EXCEPT !.limit[d] = @ - decr]
    IN IF b.limit[d] > 0 /\ c.limit[d] <= 0 THEN Exhaust(c, d)
       ELSE IF b.limit[d] <= 0 /\ c.limit[d] > 0 THEN Resume(c, d) ELSE c

_bev_refill_callback(b) ==
    LET c == bufferevent_update_buckets(b)
        still == {d \in c.bw : c.limit[d] <= 0}
        u == [c EXCEPT !.bw = still]
    IN IF b.cfg = NoCfg THEN b ELSE IF still # {} THEN event_add(u) ELSE u

bufferevent_set_rate_limit(b, cfg) ==
    LET reinit == b.cfg # NoCfg
        i == ev_token_bucket_init([event_del(b) EXCEPT !.cfg = cfg], cfg,
                                  ev_token_bucket_get_tick(cfg, now), reinit)
        u == [i EXCEPT !.bw = {d \in Dir : i.limit[d] <= 0}]
    IN IF u.bw # {} THEN event_add(u) ELSE u

-----------------------------------------------------------------------------

Init == /\ r = [cfg |-> NoCfg, limit |-> [d \in Dir |-> 0], last_updated |-> 0, bw |-> {}, timer |-> -1]
        /\ now = 0 /\ since = 0 /\ unit = 0

Same == UNCHANGED <<now, since, unit>>
Updated(b) == /\ r' = b
              /\ IF b.last_updated # r.last_updated THEN since' = 0 /\ unit' = b.cfg.msec
                 ELSE UNCHANGED <<since, unit>>
              /\ UNCHANGED now

SetRateLimit == \E cfg \in Cfgs \ {r.cfg} :
    /\ "set" \in Calls
    /\ r' = bufferevent_set_rate_limit(r, cfg)
    /\ IF r.cfg = NoCfg THEN since' = 0 /\ unit' = cfg.msec ELSE UNCHANGED <<since, unit>>
    /\ UNCHANGED now

RemoveRateLimit == /\ r.cfg # NoCfg
                   /\ r' = [event_del(r) EXCEPT !.cfg = NoCfg, !.bw = {}]
                   /\ unit' = 0 /\ UNCHANGED <<now, since>>

Decrement(d) == \E decr \in -1..1 :
    /\ decr < 0 => "refill" \in Calls
    /\ r.cfg # NoCfg /\ r.limit[d] - decr \in (-MaxOver)..(r.cfg.max + MaxOver)
    /\ r' = bufferevent_decrement_read_limit(r, d, decr) /\ Same

GetLimit == r.cfg # NoCfg /\ Updated(bufferevent_update_buckets(r))

(* bufferevent_readcb and bufferevent_writecb: as many bytes as the limit
   allows; a TLS record may be more, and go though its direction is suspended *)
Transfer(d) == \E bytes \in 1..MaxBurst + 1 :
    LET b == IF r.cfg = NoCfg THEN r ELSE bufferevent_update_buckets(r) IN
    /\ d \notin r.bw \/ "tls" \in Calls
    /\ _bufferevent_get_rlim_max(b, d) > 0
    /\ bytes <= _bufferevent_get_rlim_max(b, d) \/ ("tls" \in Calls /\ b.limit[d] - bytes >= -MaxOver)
    /\ Updated(_bufferevent_decrement_read_buckets(b, d, bytes))

Refill == r.timer = 0 /\ Updated(_bev_refill_callback(event_del(r)))

(* the loop is never away for 2^31 ticks *)
Clock == /\ since < INT_MAX \/ r.cfg = NoCfg
         /\ now' = (now + 1) % Clocks
         /\ since' = (IF r.cfg = NoCfg THEN 0 ELSE since + 1)
         /\ r' = [r EXCEPT !.timer = IF @ > 0 THEN @ - 1 ELSE @]
         /\ UNCHANGED unit

Next == \/ SetRateLimit \/ RemoveRateLimit \/ GetLimit \/ Refill \/ Clock
        \/ \E d \in Dir : Decrement(d) \/ Transfer(d)

(* the clock goes on, the loop runs a timer that is due, and the bufferevent
   is used at least once in 2^31 ticks *)
Spec == /\ Init /\ [][Next]_vars
        /\ WF_vars(Clock) /\ WF_vars(Refill) /\ WF_vars(since = INT_MAX /\ GetLimit)

-----------------------------------------------------------------------------
(* Properties *)

(* A direction that is suspended has the timer coming that will look at it
   again, and one that has nothing left is suspended. *)
SuspendedIsWatched ==
    /\ r.bw # {} => r.cfg # NoCfg /\ r.timer >= 0
    /\ r.cfg # NoCfg => \A d \in Dir : r.limit[d] <= 0 => d \in r.bw

(* The comment of ev_token_bucket_update: what it does instead of
   "limit += n_ticks * rate; if (limit > maximum) limit = maximum" comes to
   the same. *)
UpdateIsNaive ==
    r'.last_updated # r.last_updated /\ r.cfg # NoCfg /\ r'.cfg = r.cfg =>
         LET n == Ticks(r, r'.last_updated) IN
         \A d \in Dir : r'.limit[d] <= Min({r.cfg.max, r.limit[d] + n * r.cfg.rate})

(* "the next update will add the appropriate amount of bandwidth to the
   bucket": a timer that runs a tick or more after the last update leaves
   no bucket as it was, unless it is full or a new limit has changed the
   length of a tick meanwhile, when last_updated counts in the old one. *)
RefillAdds ==
    Refill /\ since >= r.cfg.msec /\ unit = r.cfg.msec =>
        \A d \in Dir : r'.limit[d] > r.limit[d] \/ r.limit[d] >= r.cfg.max

(* A bucket never holds more than the burst, over every change of the limit;
   so one read takes no more than that, which may be more than
   MAX_TO_READ_EVER: the bucket takes the place of that bound. *)
WithinBurst ==
    /\ r.cfg # NoCfg => \A d \in Dir : r.limit[d] <= r.cfg.max
    /\ \A d \in Dir : _bufferevent_get_rlim_max(r, d) <= IF r.cfg = NoCfg THEN MaxEver ELSE r.cfg.max

=============================================================================
