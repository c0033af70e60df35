----------------------------- MODULE RateGroup ------------------------------
(***************************************************************************)
(* A rate-limit group (bufferevent_ratelim.c): bufferevents, each with a   *)
(* lock of its own, that share one bucket.  The group's lock nests inside  *)
(* theirs, so the group can only try to lock a member when it suspends or  *)
(* resumes it, and may miss it.  Reading and writing are the same code     *)
(* twice; this is one of them.                                             *)
(***************************************************************************)
EXTENDS Integers, FiniteSets, FiniteSetsExt

CONSTANTS Bev,       \* the bufferevents
          Cfgs,      \* the configurations the program sets: [rate, max]
          Shares,    \* the minimal shares it asks for
          Calls,     \* what else the program calls
          MaxOver    \* bound: how far the program takes the bucket below zero

VARIABLES g,         \* struct bufferevent_rate_limit_group
          members,   \* g->members
          susp,      \* who is suspended with BEV_SUSPEND_BW_GROUP
          at         \* at[b]: where the thread that holds b's lock is, and its share

vars == <<g, members, susp, at>>

Idle == [in |-> "idle", n |-> 0]

(* who can be locked: nobody, or this very thread, has the lock *)
Lockable(self) == {b \in members : at[b].in = "idle" \/ b \in self}

(* bufferevent_rate_limit_group_set_min_share *)
MinShare(cfg, share) == Min({share, cfg.rate})

_bev_group_suspend_reading(h, self) ==
    [group |-> [h EXCEPT !.suspended = TRUE, !.pending = FALSE], susp |-> susp \union Lockable(self)]

_bev_group_unsuspend_reading(h, self) ==
    [group |-> [h EXCEPT !.suspended = FALSE, !.pending = members \ Lockable(self) # {}],
     susp |-> susp \ Lockable(self)]

Become(s) == g' = s.group /\ susp' = s.susp
Stay(h) == [group |-> h, susp |-> susp]

(* mutant: the mark of an exhausted group is not looked at *)
_bufferevent_get_rlim_max_Unchecked ==
    Max({g.limit \div Cardinality(members), g.min_share, 0})

(* the group's part of what one transfer may move *)
_bufferevent_get_rlim_max ==
    IF g.suspended THEN 0 ELSE Max({g.limit \div Cardinality(members), g.min_share, 0})

_bufferevent_decrement_read_buckets(b, bytes) ==
    LET h == [g EXCEPT !.limit = @ - bytes]
    IN IF h.limit <= 0 THEN _bev_group_suspend_reading(h, {b})
       ELSE IF g.suspended THEN _bev_group_unsuspend_reading(h, {b}) ELSE Stay(h)

_bev_group_refill_callback ==
    LET h == [g EXCEPT !.limit = Min({@ + g.cfg.rate, g.cfg.max})]
    IN IF g.pending \/ (g.suspended /\ h.limit >= g.min_share) THEN _bev_group_unsuspend_reading(h, {}) ELSE Stay(h)

bufferevent_rate_limit_group_decrement_read(decr) ==
    LET h == [g EXCEPT !.limit = @ - decr]
    IN IF g.limit > 0 /\ h.limit <= 0 THEN _bev_group_suspend_reading(h, {})
       ELSE IF g.limit <= 0 /\ h.limit > 0 THEN _bev_group_unsuspend_reading(h, {}) ELSE Stay(h)

-----------------------------------------------------------------------------

(* bufferevent_rate_limit_group_new *)
Init == /\ \E cfg \in Cfgs, share \in Shares :
              g = [cfg |-> cfg, limit |-> cfg.rate, suspended |-> FALSE, pending |-> FALSE,
                   configured |-> share, min_share |-> MinShare(cfg, share)]
        /\ members = {} /\ susp = {} /\ at = [b \in Bev |-> Idle]

(* The thread that has data for b takes b's lock and asks how much *)
GetMax(b) ==
    /\ at[b] = Idle /\ b \in members
    /\ susp' = (IF g.suspended THEN susp \union {b} ELSE susp)
    /\ at' = [at EXCEPT ![b] = IF _bufferevent_get_rlim_max > 0
                               THEN [in |-> "transfer", n |-> _bufferevent_get_rlim_max] ELSE Idle]
    /\ UNCHANGED <<g, members>>

(* it has moved some bytes, and lets the lock go *)
Transferred(b) == \E bytes \in 1..at[b].n :
    /\ at[b].in = "transfer"
    /\ Become(_bufferevent_decrement_read_buckets(b, bytes))
    /\ at' = [at EXCEPT ![b] = Idle]
    /\ UNCHANGED members

(* another thread has the lock for reasons of its own *)
Lock(b) == at[b] = Idle /\ at' = [at EXCEPT ![b].in = "held"] /\ UNCHANGED <<g, members, susp>>
Unlock(b) == at[b].in = "held" /\ at' = [at EXCEPT ![b] = Idle] /\ UNCHANGED <<g, members, susp>>

(* bufferevent_add_to_rate_limit_group: the group's lock is let go before the
   new member is suspended *)
Add(b) == /\ at[b] = Idle /\ b \notin members
          /\ members' = members \union {b}
          /\ at' = [at EXCEPT ![b] = [in |-> "adding", n |-> IF g.suspended THEN 1 ELSE 0]]
          /\ UNCHANGED <<g, susp>>
Added(b) == /\ at[b].in = "adding"
            /\ susp' = (IF at[b].n = 1 THEN susp \union {b} ELSE susp)
            /\ at' = [at EXCEPT ![b] = Idle]
            /\ UNCHANGED <<g, members>>

bufferevent_remove_from_rate_limit_group_internal(b) ==
    /\ at[b] = Idle /\ b \in members
    /\ members' = members \ {b}
    /\ susp' = susp \ {b}
    /\ UNCHANGED <<g, at>>

Remove(b) == bufferevent_remove_from_rate_limit_group_internal(b)

Refill == Become(_bev_group_refill_callback) /\ UNCHANGED <<members, at>>

SetCfg == \E cfg \in Cfgs :
    /\ g' = [g EXCEPT !.cfg = cfg, !.limit = Min({@, cfg.max}), !.min_share = MinShare(cfg, g.configured)]
    /\ UNCHANGED <<members, susp, at>>

SetMinShare == \E share \in Shares :
    /\ g' = [g EXCEPT !.configured = share, !.min_share = MinShare(g.cfg, share)]
    /\ UNCHANGED <<members, susp, at>>

Decrement == \E decr \in {-1, 1} :
    /\ "decrement" \in Calls
    /\ g.limit - decr >= -MaxOver /\ g.limit - decr <= g.cfg.max
    /\ Become(bufferevent_rate_limit_group_decrement_read(decr))
    /\ UNCHANGED <<members, at>>

Next == \/ Refill \/ SetCfg \/ SetMinShare \/ Decrement
        \/ \E b \in Bev : \/ GetMax(b) \/ Transferred(b) \/ Lock(b) \/ Unlock(b)
                          \/ Add(b) \/ Added(b) \/ Remove(b)

(* the group's timer is persistent *)
Spec == Init /\ [][Next]_vars /\ WF_vars(Refill)

-----------------------------------------------------------------------------
(* Properties *)

(* Whoever is suspended for the group will be resumed by it: it is a member,
   and the group is suspended or knows that it has missed someone. *)
MissedIsKnown == \A b \in susp : b \in members /\ (g.suspended \/ g.pending)

(* While the group is suspended nobody takes a new share, so the bucket is
   overdrawn by one share of each member at most. *)
Overdraft == LET burst == Max({c.max : c \in Cfgs}) IN
    "decrement" \notin Calls => g.limit >= -(Cardinality(Bev) * burst)

=============================================================================
