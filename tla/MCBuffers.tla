------------------------------ MODULE MCBuffers ------------------------------
(***************************************************************************)
(* The buffers, bufferevents and listeners of libevent, each on a small    *)
(* instance.  A behaviour belongs to one part, named by the variable part; *)
(* v1 to v6 are that part's state, and 0 where it has fewer variables.     *)
(***************************************************************************)
EXTENDS Integers, Sequences, TLC

VARIABLES part, v1, v2, v3, v4, v5, v6

-----------------------------------------------------------------------------
(* The instances. *)

\* Small chains; two buffers that exchange bytes, and one whose chains are
\* referenced, frozen and pulled up, or read into, or both added to and read
\* into.
BufMove == INSTANCE Evbuffer
    WITH bufs <- v1, Buf <- {"a", "b"},
         Ops <- {"add", "drain", "add_buffer", "prepend_buffer", "remove_buffer"},
         MIN_BUFFER_SIZE <- 2, EVBUFFER_CHAIN_MAX_AUTO_SIZE <- 4, MAX_TO_REALIGN_IN_EXPAND <- 2,
         NUM_READ_IOVEC <- 2, EV_SIZE_MAX <- 3, MaxOp <- 2
BufRef == INSTANCE Evbuffer
    WITH bufs <- v1, Buf <- {"a"},
         Ops <- {"add", "prepend", "reference", "drain", "write", "pullup", "freeze"},
         MIN_BUFFER_SIZE <- 2, EVBUFFER_CHAIN_MAX_AUTO_SIZE <- 4, MAX_TO_REALIGN_IN_EXPAND <- 2,
         NUM_READ_IOVEC <- 2, EV_SIZE_MAX <- 3, MaxOp <- 2
BufRead == INSTANCE Evbuffer
    WITH bufs <- v1, Buf <- {"a"},
         Ops <- {"read", "reserve", "expand", "printf", "drain", "pullup", "write"},
         MIN_BUFFER_SIZE <- 2, EVBUFFER_CHAIN_MAX_AUTO_SIZE <- 4, MAX_TO_REALIGN_IN_EXPAND <- 2,
         NUM_READ_IOVEC <- 2, EV_SIZE_MAX <- 3, MaxOp <- 3

BufMixed == INSTANCE Evbuffer
    WITH bufs <- v1, Buf <- {"a"},
         Ops <- {"read", "reserve", "add", "prepend", "drain"},
         MIN_BUFFER_SIZE <- 2, EVBUFFER_CHAIN_MAX_AUTO_SIZE <- 4, MAX_TO_REALIGN_IN_EXPAND <- 2,
         NUM_READ_IOVEC <- 2, EV_SIZE_MAX <- 4, MaxOp <- 3

\* Texts of four letters in chains of at most two.
Search == INSTANCE EvbufferSearch
    WITH chains <- v1, line <- v2, before <- v3, style <- v4, MaxLen <- 4, MaxChain <- 2

\* A socket bufferevent that calls back at once, later under its lock, and
\* later without it.
BevNow == INSTANCE Bufferevent
    WITH bev <- v1, loop <- v2, DEFER <- FALSE, UNLOCK <- FALSE, MaxLen <- 3,
         Calls <- {"write", "read", "enable", "disable", "watermark", "connect", "host", "free", "hard"}
BevLocked == INSTANCE Bufferevent
    WITH bev <- v1, loop <- v2, DEFER <- TRUE, UNLOCK <- FALSE, MaxLen <- 2,
         Calls <- {"write", "read", "enable", "host", "free"}
BevUnlocked == INSTANCE Bufferevent
    WITH bev <- v1, loop <- v2, DEFER <- TRUE, UNLOCK <- TRUE, MaxLen <- 1,
         Calls <- {"write", "enable", "free", "setfd"}

Pair == INSTANCE BuffereventPair
    WITH p <- v1, Calls <- {"write", "read", "enable", "disable", "watermark", "flush", "free"},
         MaxLen <- 2, MaxLeft <- 1

\* A filter that moves two bytes at a time, which owns the bufferevent under
\* it or does not.
Filtering == INSTANCE BuffereventFilter
    WITH f <- v1, u <- v2, Filter <- "user", CLOSE_ON_FREE <- FALSE, MaxLen <- 3,
         Calls <- {"write", "read", "enable", "disable", "watermark", "flush", "free"}
FilteringOwns == INSTANCE BuffereventFilter
    WITH f <- v1, u <- v2, Filter <- "user", CLOSE_ON_FREE <- TRUE, MaxLen <- 2,
         Calls <- {"write", "read", "enable", "disable", "watermark", "flush", "free"}

\* TLS on a socket, and on another bufferevent.
TlsSocket == INSTANCE BuffereventOpenssl
    WITH b <- v1, Under <- FALSE, MaxLen <- 2,
         Calls <- {"write", "read", "watermark", "enable", "limit", "renegotiate", "react"}
TlsUnder == INSTANCE BuffereventOpenssl
    WITH b <- v1, Under <- TRUE, MaxLen <- 2,
         Calls <- {"write", "read", "watermark", "enable", "limit", "renegotiate"}

\* A high-water mark at the bound on the buffer.
AsyncMark == INSTANCE BuffereventAsync
    WITH b <- v1, port <- v2, CloseOnFree <- FALSE, Cap <- 2, High <- 2,
         UserOps <- {"free", "read on", "read off", "write on", "write off", "suspend", "unsuspend", "drain", "write"}

\* A listener that its callback and another thread change and free.
Listening == INSTANCE Listener
    WITH lev <- v1, lock <- v2, epc <- v3, tpc <- v4, arrived <- v5, backlog <- v6,
         CbOps <- {"enable", "disable", "cb", "nocb", "errorcb", "noerrorcb", "free"},
         TOps <- {"enable", "disable", "cb", "nocb", "errorcb", "noerrorcb", "free"},
         Accept <- {"ok", "empty", "error"}, MaxConn <- 3, MaxLeft <- 2

-----------------------------------------------------------------------------
(* Behaviours. *)

From6 == v6 = 0
From5 == v5 = 0 /\ From6
From4 == v4 = 0 /\ From5
From3 == v3 = 0 /\ From4
From2 == v2 = 0 /\ From3

Rest4 == <<v5, v6>>
Rest2 == <<v3, v4, v5, v6>>
Rest1 == <<v2, v3, v4, v5, v6>>
all == <<part, v1, v2, v3, v4, v5, v6>>

MCInit ==
    \/ part = "buf move" /\ BufMove!Init /\ From2
    \/ part = "buf ref" /\ BufRef!Init /\ From2
    \/ part = "buf read" /\ BufRead!Init /\ From2
    \/ part = "buf mixed" /\ BufMixed!Init /\ From2
    \/ part = "search" /\ Search!Init /\ From5
    \/ part = "bev now" /\ BevNow!Init /\ From3
    \/ part = "bev locked" /\ BevLocked!Init /\ From3
    \/ part = "bev unlocked" /\ BevUnlocked!Init /\ From3
    \/ part = "pair" /\ Pair!Init /\ From2
    \/ part = "filter" /\ Filtering!Init /\ From3
    \/ part = "filter owns" /\ FilteringOwns!Init /\ From3
    \/ part = "tls" /\ TlsSocket!Init /\ From2
    \/ part = "tls under" /\ TlsUnder!Init /\ From2
    \/ part = "async" /\ AsyncMark!Init /\ From3
    \/ part = "listener" /\ Listening!Init

MCNext ==
    /\ UNCHANGED part
    /\ \/ part = "buf move" /\ BufMove!Next /\ UNCHANGED Rest1
       \/ part = "buf ref" /\ BufRef!Next /\ UNCHANGED Rest1
       \/ part = "buf read" /\ BufRead!Next /\ UNCHANGED Rest1
       \/ part = "buf mixed" /\ BufMixed!Next /\ UNCHANGED Rest1
       \/ part = "search" /\ Search!Next /\ UNCHANGED Rest4
       \/ part = "bev now" /\ BevNow!Next /\ UNCHANGED Rest2
       \/ part = "bev locked" /\ BevLocked!Next /\ UNCHANGED Rest2
       \/ part = "bev unlocked" /\ BevUnlocked!Next /\ UNCHANGED Rest2
       \/ part = "pair" /\ Pair!Next /\ UNCHANGED Rest1
       \/ part = "filter" /\ Filtering!Next /\ UNCHANGED Rest2
       \/ part = "filter owns" /\ FilteringOwns!Next /\ UNCHANGED Rest2
       \/ part = "tls" /\ TlsSocket!Next /\ UNCHANGED Rest1
       \/ part = "tls under" /\ TlsUnder!Next /\ UNCHANGED Rest1
       \/ part = "async" /\ AsyncMark!Next /\ UNCHANGED Rest2
       \/ part = "listener" /\ Listening!Next

MCSpec == MCInit /\ [][MCNext]_all

-----------------------------------------------------------------------------
(* Properties *)

\* Each call on an evbuffer adds, moves, finds and returns exactly the bytes
\* it should, over the gaps and empty chains earlier calls have left.  After an
\* evbuffer_add behind a reserved chain (buffer.c:1561) last_with_datap is wrong,
\* and the bytes of later calls may be too.
BytesExact ==
    /\ part = "buf move" => BufMove!ExactBytes /\ BufMove!NeverBehind
    /\ part = "buf ref" => BufRef!ExactBytes /\ BufRef!NeverBehind
    /\ part = "buf read" => BufRead!ExactBytes
    /\ part = "buf mixed" => BufMixed!ExactBytes
    /\ part = "search" => Search!SearchFindsFirst /\ Search!PointerIsPlace /\ Search!LineIsRight
                            /\ Search!PeekIsEnough

\* The chains are in order, foreign memory is never written, and callbacks
\* are told the length, but for two cases: evbuffer_add behind a reserved chain
\* (buffer.c:1561) leaves last_with_datap wrong, and evbuffer_prepend miscounts
\* what goes into a new chain (:1708).
ChainsSound ==
    /\ part = "buf move" => BufMove!Validate /\ BufMove!CallbackKnowsLength
    /\ part = "buf ref" => BufRef!Validate /\ BufRef!CallbackKnowsLength /\ BufRef!ImmutableIsFull
    /\ part = "buf read" => BufRead!Validate /\ BufRead!CallbackKnowsLength
    /\ part = "buf mixed" => BufMixed!Validate /\ BufMixed!CallbackKnowsLength

\* The chains implement the byte sequences of ByteQueue, as long as nothing
\* was added behind a reserved chain, and frozen ends stay.
IsByteQueue ==
    [][/\ part = "buf move" => BufMove!IsByteQueue
       /\ part = "buf ref" => BufRef!FrozenEndsStay
       /\ part = "buf read" => BufRead!IsByteQueue
       /\ part = "buf mixed" => BufMixed!IsByteQueue]_all

\* Nothing stalls: what a bufferevent or a listener may do is waited for, and
\* what is suspended has somebody who will resume it.  The exceptions are
\* stated where the code has them: the endless loops of a TLS bufferevent that
\* is suspended while it is blocked (bufferevent_openssl.c:772, :846), the read
\* event that consider_reading deletes after a callback wrote (:833), and the
\* lock of a listener that another thread disables or frees while its callback
\* runs (listener.c:299), or whose accept fails without an error callback
\* (:442).
NothingStalls ==
    /\ part = "bev now" => BevNow!ReadArmed /\ BevNow!WriteArmed /\ BevNow!WatermarkHolds
                             /\ BevNow!ConnectIsWatched
    /\ part = "bev locked" => BevLocked!ReadArmed /\ BevLocked!PendingIsQueued
    /\ part = "bev unlocked" => BevUnlocked!PendingIsQueued
    /\ part = "pair" => Pair!NothingHeldBack
    /\ part = "filter" => Filtering!SuspendedTogether
    /\ part = "tls" => TlsSocket!ReadArmed /\ TlsSocket!WriteArmed /\ TlsSocket!BlockedArmed
                         /\ TlsSocket!HandshakeArmed /\ TlsSocket!LoopsEnd
    /\ part = "tls under" => TlsUnder!ReadArmed /\ TlsUnder!BlockedArmed /\ TlsUnder!LoopsEnd
    /\ part = "async" => AsyncMark!NotStalled
    /\ part = "listener" => Listening!Armed /\ Listening!LockAccounted

\* What holds a bufferevent or a listener is what is counted: it is freed
\* once, with the last holder, and is not called back after it was freed.  A
\* flush of a pair that has nothing to do is a holder that never lets go
\* (bufferevent_pair.c:288), and a thread that frees a listener whose callback
\* is about to enter never gets to the memory (listener.c:276).
ReferencesAddUp ==
    /\ part = "bev now" => BevNow!Refs /\ BevNow!NotCalledAfterFree
    /\ part = "bev locked" => BevLocked!Refs /\ BevLocked!NotCalledAfterFree
    /\ part = "bev unlocked" => BevUnlocked!Refs
    /\ part = "pair" => Pair!PartnerLives /\ Pair!FreeDeallocates
    /\ part = "filter" => Filtering!UnderRefs
    /\ part = "filter owns" => FilteringOwns!UnderRefs
    /\ part = "async" => AsyncMark!Refs /\ AsyncMark!InProgress /\ AsyncMark!VirtualBalance
    /\ part = "listener" => Listening!Refs

\* Bytes that pass a pair or a filter are neither lost nor doubled, and the
\* high-water mark of the reader holds: only a flush of a pair goes over it.
\* (The filters here move bytes; the null filter, the report of a flush and
\* got_eof are not among them.)
BytesPass ==
    [][/\ part = "bev now" => BevNow!NeverPastWatermark
       /\ part = "pair" => Pair!BytesGoOver
       /\ part = "filter" => Filtering!WithinMarks /\ Filtering!ReadIsTold]_all
=============================================================================
