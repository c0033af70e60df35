----------------------------- MODULE MCLibevent -----------------------------
(***************************************************************************)
(* The core of libevent, each part on a small instance.  A behaviour       *)
(* belongs to one part, named by the variable part; v1 to v12 are that     *)
(* part's state, and 0 where it has fewer variables.  The select back end  *)
(* keeps its own variables, which stand still in the behaviours of the     *)
(* others.                                                                 *)
(***************************************************************************)
EXTENDS SelectBackend, TLC

CONSTANTS None, once, every

VARIABLES part, v1, v2, v3, v4, v5, v6, v7, v8, v9, v10, v11, v12

-----------------------------------------------------------------------------
(* The instances. *)

\* An I/O event, a timer, the timer of event_base_loopexit, one deferred callback.
Loop == INSTANCE EventBase
    WITH b <- v1, pc <- v2, loop <- v3, other <- v4, ready <- v5, now <- v6, calls <- v7,
         quiet <- v8, sinceBreak <- v9,
         Event <- {"io", "timer", "exit"}, Io <- {"io"}, Persist <- {"io"}, LoopExit <- "exit",
         Notify <- "notify",
         ev_pri <- [io |-> 1, timer |-> 0, exit |-> 1, notify |-> 0], nactivequeues <- 2,
         Cb <- {"cb"}, MAX_DEFERRED <- 1, Delay <- {0, 1}, Horizon <- 1, MaxCalls <- 3

\* An I/O event and two events of different priority that the program
\* activates: enough calls for a notification while another is pending, and
\* for event_continue and event_break after an event was activated.
Busy == INSTANCE EventBase
    WITH b <- v1, pc <- v2, loop <- v3, other <- v4, ready <- v5, now <- v6, calls <- v7,
         quiet <- v8, sinceBreak <- v9,
         Event <- {"io", "low", "high"}, Io <- {"io"}, Persist <- {"io"}, LoopExit <- None,
         Notify <- "notify",
         ev_pri <- [io |-> 1, low |-> 1, high |-> 0, notify |-> 0], nactivequeues <- 2,
         Cb <- {}, MAX_DEFERRED <- 1, Delay <- {}, Horizon <- 0, MaxCalls <- 4

\* Two timers, one of them persistent, and two common durations.
Timers == INSTANCE CommonTimeout
    WITH queues <- v1, heap <- v2, ev_timeout <- v3, io_timeout <- v4, active <- v5, fired <- v6,
         now <- v7, event_tv <- v8, tv_cache <- v12, back <- v9, adds <- v10, hist <- v11,
         Event <- {once, every}, Persist <- {every}, Duration <- <<1, 2>>, Delay <- {1},
         Horizon <- 3, MaxBack <- 1, MaxAdds <- 2

\* Two back ends that differ in their features.
Life == INSTANCE BaseLife
    WITH cfg <- v1, base <- v2,
         Event <- {"io"}, Signal <- {"sig"}, Timer <- {"timer"}, Notify <- "notify", EvSignal <- "ev_signal",
         eventops <- <<[name |-> "epoll", features |-> {}], [name |-> "poll", features |-> {"fds"}]>>

\* Four events on two descriptors, with the changelist and without.
EpollChanges == INSTANCE EvMap
    WITH ctx <- v1, eventqueue <- v2, changes <- v3, idxplus1 <- v4, kernel <- v5, waiting <- v6,
         asked <- v7, active <- v8,
         Fd <- {"f1", "f2"}, Event <- {"r1", "w1", "rw1", "r2"},
         ev_fd <- [r1 |-> "f1", w1 |-> "f1", rw1 |-> "f1", r2 |-> "f2"],
         ev_events <- [r1 |-> {"read"}, w1 |-> {"write"}, rw1 |-> Rw, r2 |-> {"read"}],
         UseChangelist <- TRUE, Fails <- {}
EpollDirect == INSTANCE EvMap
    WITH ctx <- v1, eventqueue <- v2, changes <- v3, idxplus1 <- v4, kernel <- v5, waiting <- v6,
         asked <- v7, active <- v8,
         Fd <- {"f1", "f2"}, Event <- {"r1", "w1", "rw1", "r2"},
         ev_fd <- [r1 |-> "f1", w1 |-> "f1", rw1 |-> "f1", r2 |-> "f2"],
         ev_events <- [r1 |-> {"read"}, w1 |-> {"write"}, rw1 |-> Rw, r2 |-> {"read"}],
         UseChangelist <- FALSE, Fails <- {}

\* Three events, when epoll_ctl fails on the first descriptor.
FailingChanges == INSTANCE EvMap
    WITH ctx <- v1, eventqueue <- v2, changes <- v3, idxplus1 <- v4, kernel <- v5, waiting <- v6,
         asked <- v7, active <- v8,
         Fd <- {"f1", "f2"}, Event <- {"r1", "w1", "r2"},
         ev_fd <- [r1 |-> "f1", w1 |-> "f1", r2 |-> "f2"],
         ev_events <- [r1 |-> {"read"}, w1 |-> {"write"}, r2 |-> {"read"}],
         UseChangelist <- TRUE, Fails <- {"f1"}
FailingDirect == INSTANCE EvMap
    WITH ctx <- v1, eventqueue <- v2, changes <- v3, idxplus1 <- v4, kernel <- v5, waiting <- v6,
         asked <- v7, active <- v8,
         Fd <- {"f1", "f2"}, Event <- {"r1", "w1", "r2"},
         ev_fd <- [r1 |-> "f1", w1 |-> "f1", r2 |-> "f2"],
         ev_events <- [r1 |-> {"read"}, w1 |-> {"write"}, r2 |-> {"read"}],
         UseChangelist <- FALSE, Fails <- {"f1"}

\* Three events on two signals, one of them not persistent.
Sigs == INSTANCE Signals
    WITH evsig_base <- v1, copy <- v2, base <- v3, handler <- v4, ev <- v5, loop <- v6,
         delivered <- v7, failed <- v8,
         Base <- {"a"}, Sig <- {"s1", "s2"}, Event <- {"e1", "e2", "e3"},
         ev_base <- [e1 |-> "a", e2 |-> "a", e3 |-> "a"],
         ev_signal <- [e1 |-> "s1", e2 |-> "s1", e3 |-> "s2"], Persist <- {"e1", "e3"}, MaxSignals <- 3

\* Three threads, one recursive lock.
Locks == INSTANCE EvThread
    WITH fns <- v1, original <- v2, kind <- v3, inner <- v4, count <- v5, held_by <- v6,
         owner <- v7, depth <- v8, started <- v9, todo <- v10, held <- v11, failed <- v12,
         Thread <- {1, 2, 3}, First <- 1, Recursive <- {1}

\* Three waiting threads.
Cond == INSTANCE Win32Cond
    WITH lock <- v1, event <- v2, n_waiting <- v3, n_to_wake <- v4, generation <- v5, pc <- v6,
         start <- v7, Waiter <- {1, 2, 3}, MaxBroadcasts <- 3

\* Limits of two tick lengths, with bursts below and above the bytes one read
\* takes without a limit; the widths 2^32 and 2^64 become 8 and 64.
Rate == INSTANCE RateLimit
    WITH r <- v1, now <- v2, since <- v3, unit <- v4,
         Wanted <- {<<1, 1, 1>>, <<1, 2, 1>>, <<2, 1, 1>>, <<1, 2, 2>>},
         Calls <- {"set", "tls"}, TickMod <- 8, SizeMod <- 64, MaxEver <- 1, MaxOver <- 1

\* Two bufferevents of a group, which the program takes from or does not.
Group == INSTANCE RateGroup
    WITH g <- v1, members <- v2, susp <- v3, at <- v4, Bev <- {"a", "b"},
         Cfgs <- {[rate |-> 1, max |-> 2], [rate |-> 2, max |-> 2]}, Shares <- {0, 1, 3}, Calls <- {}, MaxOver <- 1
GroupTaken == INSTANCE RateGroup
    WITH g <- v1, members <- v2, susp <- v3, at <- v4, Bev <- {"a", "b"},
         Cfgs <- {[rate |-> 1, max |-> 2], [rate |-> 2, max |-> 2]}, Shares <- {1}, Calls <- {"decrement"}, MaxOver <- 1

\* A bufferevent over a completion port that owns its socket, and a listener
\* that its callback frees, while another thread changes it.
AsyncOwns == INSTANCE BuffereventAsync
    WITH b <- v1, port <- v2, CloseOnFree <- TRUE, Cap <- 2, High <- 0,
         UserOps <- {"free", "read on", "write on", "write off", "drain", "write"}
ListeningAlone == INSTANCE Listener
    WITH lev <- v1, lock <- v2, epc <- v3, tpc <- v4, arrived <- v5, backlog <- v6,
         CbOps <- {"enable", "disable", "cb", "nocb", "errorcb", "free"},
         TOps <- {"enable", "cb", "nocb", "errorcb", "noerrorcb"},
         Accept <- {"ok", "empty", "error"}, MaxConn <- 3, MaxLeft <- 1

-----------------------------------------------------------------------------
(* Behaviours. *)

From12 == v12 = 0
From11 == v11 = 0 /\ From12
From10 == v10 = 0 /\ From11
From9 == v9 = 0 /\ From10
From8 == v8 = 0 /\ From9
From7 == v7 = 0 /\ From8
From6 == v6 = 0 /\ From7
From5 == v5 = 0 /\ From6
From4 == v4 = 0 /\ From5
From3 == v3 = 0 /\ From4
From2 == v2 = 0 /\ From3
From1 == v1 = 0 /\ From2

Rest9 == <<v10, v11, v12>>
Rest8 == <<v9, v10, v11, v12>>
Rest7 == <<v8, v9, v10, v11, v12>>
Rest6 == <<v7, v8, v9, v10, v11, v12>>
Rest4 == <<v5, v6, v7, v8, v9, v10, v11, v12>>
Rest2 == <<v3, v4, v5, v6, v7, v8, v9, v10, v11, v12>>
Rest1 == <<v2, v3, v4, v5, v6, v7, v8, v9, v10, v11, v12>>
Rest0 == <<v1, v2, v3, v4, v5, v6, v7, v8, v9, v10, v11, v12>>
all == <<vars, part, Rest0>>

MCInit ==
    /\ Init
    /\ \/ part = "select" /\ From1
       \/ part = "loop" /\ Loop!Init /\ From10
       \/ part = "busy" /\ Busy!Init /\ From10
       \/ part = "timers" /\ Timers!Init
       \/ part = "life" /\ Life!Init /\ From3
       \/ part = "epoll changes" /\ EpollChanges!Init /\ From9
       \/ part = "epoll" /\ EpollDirect!Init /\ From9
       \/ part = "failing changes" /\ FailingChanges!Init /\ From9
       \/ part = "failing" /\ FailingDirect!Init /\ From9
       \/ part = "signals" /\ Sigs!Init /\ From9
       \/ part = "locks" /\ Locks!Init
       \/ part = "cond" /\ Cond!Init /\ From8
       \/ part = "async owns" /\ AsyncOwns!Init /\ From3
       \/ part = "rate" /\ Rate!Init /\ From5
       \/ part = "group" /\ Group!Init /\ From5
       \/ part = "group taken" /\ GroupTaken!Init /\ From5
       \/ part = "listener alone" /\ ListeningAlone!Init /\ From7

MCNext ==
    /\ UNCHANGED part
    /\ \/ part = "select" /\ Next /\ UNCHANGED Rest0
       \/ /\ UNCHANGED vars
          /\ \/ part = "loop" /\ Loop!Next /\ UNCHANGED Rest9
             \/ part = "busy" /\ Busy!Next /\ UNCHANGED Rest9
             \/ part = "timers" /\ Timers!Next
             \/ part = "life" /\ Life!Next /\ UNCHANGED Rest2
             \/ part = "epoll changes" /\ EpollChanges!Next /\ UNCHANGED Rest8
             \/ part = "epoll" /\ EpollDirect!Next /\ UNCHANGED Rest8
             \/ part = "failing changes" /\ FailingChanges!Next /\ UNCHANGED Rest8
             \/ part = "failing" /\ FailingDirect!Next /\ UNCHANGED Rest8
             \/ part = "signals" /\ Sigs!Next /\ UNCHANGED Rest8
             \/ part = "locks" /\ Locks!Next
             \/ part = "cond" /\ Cond!Next /\ UNCHANGED Rest7
             \/ part = "async owns" /\ AsyncOwns!Next /\ UNCHANGED Rest2
             \/ part = "rate" /\ Rate!Next /\ UNCHANGED Rest4
             \/ part = "group" /\ Group!Next /\ UNCHANGED Rest4
             \/ part = "group taken" /\ GroupTaken!Next /\ UNCHANGED Rest4
             \/ part = "listener alone" /\ ListeningAlone!Next /\ UNCHANGED Rest6

\* The threads are scheduled, callbacks return, clocks go on, persistent
\* timers come and the completion port delivers.  The first two conditions
\* are weak fairness with what enables the step spelt out.
Runnable == \/ part = "loop" /\ Loop!LoopCanMove
            \/ part = "signals" /\ Sigs!Busy("a")
            \/ part = "timers" /\ Timers!LoopCanRun
            \/ part = "async owns" /\ \E o \in DOMAIN v2 : AsyncOwns!Arrived(o)
Runs == \/ part = "loop" /\ Loop!LoopStep
        \/ part = "signals" /\ Sigs!LoopStep("a")
        \/ part = "timers" /\ Timers!LoopRuns
        \/ part = "async owns" /\ AsyncOwns!Port
DelMayResume == part = "loop" /\ v4[1] = "woken" /\ Loop!LockFree
Scheduled == /\ UNCHANGED <<vars, part>>
             /\ \/ part = "group" /\ Group!Refill /\ UNCHANGED Rest4
                \/ part = "timers" /\ Timers!Tick
                \/ part = "listener alone" /\ ListeningAlone!EStep /\ UNCHANGED Rest6
MCFairness == /\ []<>~Runnable \/ []<><<Runs>>_all
              /\ []<>~DelMayResume \/ []<><<part = "loop" /\ Loop!event_del_resume>>_all
              /\ WF_all(Scheduled)

MCSpec == MCInit /\ [][MCNext]_all /\ MCFairness

-----------------------------------------------------------------------------
(* Properties *)

\* event_base_loop decides by its counts, its flags and its deadline: they
\* say what is on the queues, no wakeup from another thread is lost, and
\* event_break and the limit on deferred callbacks are honoured.  The queues of
\* common timeouts are sorted and scheduled, over corrections of the clock.
LoopSound ==
    /\ part = "loop" => Loop!CountsAgree /\ Loop!WaitIsInterrupted /\ Loop!BreakStops
                          /\ Loop!DeferredBounded
    /\ part = "busy" => Busy!CountsAgree /\ Busy!WaitIsInterrupted /\ Busy!BreakStops
    /\ part = "timers" => Timers!QueuesSorted /\ Timers!QueueIsScheduled /\ Timers!SameCommonTimeout

\* What no step of the loop does: run an event out of its priority, run one
\* that event_del took off, report "no events" while there are some, or run a
\* timer early; the ticks of the rate limits fill the buckets as the naive
\* formula would.
LoopSteps ==
    [][/\ part = "loop" => Loop!PriorityRespected /\ Loop!DeletedStaysQuiet /\ Loop!NoEventsMeansNone
       /\ part = "busy" => Busy!PriorityRespected /\ Busy!DeletedStaysQuiet /\ Busy!NoEventsMeansNone
       /\ part = "timers" => Timers!NeverEarly
       /\ part = "rate" => Rate!UpdateIsNaive /\ Rate!RefillAdds]_all

\* A base that is made, re-initialised after a fork and freed: its back end
\* watches what is inserted unless event_reinit has returned
\* -1, a notification is lost only by a fork while it is pending, and nothing
\* is left at the end.
BaseLifeSound ==
    part = "life" => /\ Life!FreeLeavesNothing /\ Life!KernelMatches
                     /\ Life!InternalOnce /\ Life!PendingIsSent

\* epoll is asked for exactly what the events want, with the changelist and
\* without, over adds and deletes taken back, files reopened and failing
\* calls on another descriptor: every step is a step of IoInterest.
EpollAsksWhatIsWanted ==
    [][/\ part = "epoll changes" => EpollChanges!AsksWhatIsWanted
       /\ part = "epoll" => EpollDirect!AsksWhatIsWanted
       /\ part = "failing changes" => FailingChanges!AsksWhatIsWanted
       /\ part = "failing" => FailingDirect!AsksWhatIsWanted]_all

\* The bookkeeping of the back ends: the map of evmap.c, the changelist, and
\* the sets of select.c, which are large enough also after a failed
\* allocation.  After a failed epoll_ctl the map holds what is inserted, and
\* may hold an event whose deletion failed.
MapsSound ==
    /\ part = "epoll changes" => EpollChanges!MapMatchesQueue /\ EpollChanges!CountsMatch
                                   /\ EpollChanges!ChangelistConsistent
    /\ part = "epoll" => EpollDirect!MapMatchesQueue /\ EpollDirect!CountsMatch
    /\ part = "failing changes" => FailingChanges!MapMatchesQueue /\ FailingChanges!CountsMatch
                                     /\ FailingChanges!ChangelistConsistent
    /\ part = "failing" => FailingDirect!MapMatchesQueue /\ FailingDirect!CountsMatch
    /\ SetsFit

\* Signal handlers are installed and restored in balance, and what event_del
\* zeroes is the count the running closure reads.
SignalsSound ==
    part = "signals" => Sigs!HandlersBalance /\ Sigs!CountsAgree

\* The lock wrappers and the Windows condition variable: no assertion fails,
\* a thread knows what it holds, two locks do not deadlock, and wakeups are
\* for those who waited.
LocksSound ==
    /\ part = "locks" => Locks!LocksFitCallbacks /\ Locks!NoAssertionFails /\ Locks!HeldIsTrue
                           /\ Locks!NotAllBlocked
    /\ part = "cond" => Cond!WakesAreForWaiters

\* A bucket holds no more than its burst, and one read takes no more than
\* that; a group is overdrawn by a share of each member at most; what a limit
\* suspended has somebody who will resume it, members included that the
\* group missed because another thread held their lock.
RatesHold ==
    /\ part = "rate" => Rate!WithinBurst /\ Rate!SuspendedIsWatched
    /\ part = "group" => Group!Overdraft /\ Group!MissedIsKnown
    /\ part = "group taken" => GroupTaken!MissedIsKnown

Waits(i) ==
    \/ part = "loop" /\ i <= 2 /\ Loop!Unserved(<<"io", "timer">>[i])
    \/ part = "loop" /\ i = 3 /\ Loop!DelWaits
    \/ part = "timers" /\ i <= 2 /\ Timers!Overdue(<<once, every>>[i])
    \/ part = "signals" /\ Sigs!Caught(<<"e1", "e2", "e3">>[i])
    \/ part = "async owns" /\ i = 1 /\ v1.freed
    \/ part = "group" /\ i = 1 /\ v1.suspended
    \/ part = "listener alone" /\ i = 1 /\ v1.freed

Served(i) ==
    \/ part \in {"loop", "timers", "group"} /\ ~Waits(i)
    \/ part = "signals" /\ Sigs!Called(<<"e1", "e2", "e3">>[i])
    \/ part \in {"async owns", "listener alone"} /\ v1.gone

\* What must happen does: active events are served and event_del returns,
\* due timers run, caught signals are called, freed bufferevents and listeners
\* are deallocated, and an exhausted group recovers.  The listener is freed
\* from its own callbacks: a thread that disables or frees it while a callback
\* runs waits for good (listener.c:299, see Listener!LockAccounted).
EventuallyServed == \A i \in 1 .. 3 : Waits(i) ~> Served(i)
=============================================================================
