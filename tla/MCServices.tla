----------------------------- MODULE MCServices -----------------------------
(***************************************************************************)
(* The programs around the gateway and the protocols libevent brings (HTTP, *)
(* DNS, RPC, tagged data, texts of addresses), each on a small instance.   *)
(* A behaviour belongs to one part, named by the variable part; v1 to v13  *)
(* are that part's state, and 0 where it has fewer variables.  The node    *)
(* keeps its own variables, which stand still in the behaviours of the     *)
(* others.                                                                 *)
(***************************************************************************)
EXTENDS Node, TLC

VARIABLES part, v1, v2, v3, v4, v5, v6, v7, v8, v9, v10, v11, v12, v13

-----------------------------------------------------------------------------
(* The instances. *)

Virtualhosts == [root |-> <<"v", "w">>, v |-> <<"x">>, w |-> <<>>, x |-> <<>>]
Patterns == [root |-> <<>>, v |-> <<"*", ".", "a">>, w |-> <<"*", "b">>, x |-> <<"b", "*", "a">>]
Aliases == [root |-> {<<"a">>}, v |-> {}, w |-> {<<"B", "b">>}, x |-> {<<"b", "b">>}]

F(n) == [i \in 1..n |-> 15]

\* Tags at the byte boundaries of their encoding, numbers of 0, 1, 2, 8 and
\* 16 nibbles, payloads of 0, 2 and 17 bytes.
Records ==
    {[tag |-> 0, kind |-> "int", val |-> v] : v \in {<<>>, <<7>>, <<0, 1>>, F(8)}}
    \cup {[tag |-> 127, kind |-> "int64", val |-> v] : v \in {<<0, 0, 0, 3>>, F(16)}}
    \cup {[tag |-> 128, kind |-> "string", val |-> v] : v \in {<<>>, <<65, 255>>}}
    \cup {[tag |-> 16384, kind |-> "timeval", val |-> v] : v \in {<< <<>>, F(5) >>, << F(8), <<1>> >>}}
    \cup {[tag |-> 268435456, kind |-> "fixed", val |-> [i \in 1..17 |-> i]]}

\* A watched pin, interrupts without end.
NodeLive == INSTANCE Node
    WITH inbox <- v1, pins <- v2, level <- v3, main <- v4, isr <- v5, flag <- v6,
         Protocols <- {0, 1}, PinNums <- {2}, Data <- {0, 1}, Types <- {"S", "R"}, MaxInbox <- 1, RETRY_MAX <- 2

\* Asked for its level, too.
NodeGet == INSTANCE Node
    WITH inbox <- v1, pins <- v2, level <- v3, main <- v4, isr <- v5, flag <- v6,
         Protocols <- {0}, PinNums <- {2}, Data <- {1}, Types <- {"S", "G"}, MaxInbox <- 1, RETRY_MAX <- 2

\* Every kind of URL and fault, and two browsers of a gateway that may be silent.
Front == INSTANCE HttpFront
    WITH up <- v1, asked <- v2, state <- v3, reply <- v4, cur <- v5, args <- v6, type <- v7, socks <- v8, leaked <- v9, cause <- v10, level <- v11, unheard <- v12,
         Browser <- {1}, Protocol <- {0, 1}, GetSet <- {0, 1, 2, 3}, Data <- {0, 1, 300}, MaxFd <- 2,
         Faults <- {"refuse", "silent", "nomem"}

FrontTwo == INSTANCE HttpFront
    WITH up <- v1, asked <- v2, state <- v3, reply <- v4, cur <- v5, args <- v6, type <- v7, socks <- v8, leaked <- v9, cause <- v10, level <- v11, unheard <- v12,
         Browser <- {1, 2}, Protocol <- {0}, GetSet <- {0, 1}, Data <- {1}, MaxFd <- 2, Faults <- {"silent"}

\* Two nodes, the pins and values of a byte's edges.
Path == INSTANCE MessagePath
    WITH stage <- v1, cmd <- v2, buf <- v3, hdr <- v4, level <- v5, acted <- v6,
         NodeId <- {1, 255}, PinNum <- {0, 2, 255}, Value <- {0, 1, 255}, Protocol <- {0, 1, 6}

\* Phase 1: two clients that end with their input, and one that may say exit
\* with other senders on the air.
First == INSTANCE Phase1
    WITH up <- v1, cli <- v2, line <- v3, inbuf <- v4, echo <- v5, open <- v6, active <- v7, wev <- v8, heap <- v9, fifo <- v10, node <- v11, ordered <- v12, flag <- v13,
         Client <- {1, 2}, Line <- {"a", "b"}, Buf <- {11, 12}, BodyLen <- {}, Transmitter <- FALSE,
         MaxFifo <- 1, None <- 0

FirstPin == INSTANCE Phase1
    WITH up <- v1, cli <- v2, line <- v3, inbuf <- v4, echo <- v5, open <- v6, active <- v7, wev <- v8, heap <- v9, fifo <- v10, node <- v11, ordered <- v12, flag <- v13,
         Client <- {1}, Line <- {"a", "exit"}, Buf <- {11, 12, 13}, BodyLen <- {24, 25},
         Transmitter <- TRUE, MaxFifo <- 2, None <- 0

\* Three HTTP requests on one connection, left alone; and with a program that
\* cancels and frees, bytes nobody asked for and late deferred reads.
Client == INSTANCE HttpClient
    WITH c <- v1,
         Requests <- {1, 2, 3}, RetryMax <- 1, Calls <- {"request", "left"},
         ConnectNow <- {"LATER", "REFUSED", "ERROR"}

ClientAny == INSTANCE HttpClient
    WITH c <- v1,
         Requests <- 1..3, RetryMax <- 1, ConnectNow <- {"LATER", "REFUSED", "ERROR", "BIND"},
         Calls <- {"request", "cancel", "left", "stray", "crowd", "free"}

\* Two requests on one server connection, replies of up to two chunks.
Server == INSTANCE HttpServer
    WITH evcon <- v1, req <- v2, program <- v3,
         Methods <- {"GET", "HEAD", "POST", "POST expect", "POST expects more", "POST too large"},
         MaxRequests <- 2, MaxChunks <- 2, Calls <- {}

\* All heads and all bodies of a few characters, cut anywhere.
Head1 == INSTANCE HttpMessage
    WITH text <- v1, start <- v2, r <- v3,
         Chars <- {"v", "2", " ", ":", "\n"}, MaxLen <- 8, MaxPiece <- 2,
         Starts <- {<<"FIRSTLINE", "REQUEST", 0>>, <<"FIRSTLINE", "RESPONSE", 0>>},
         max_headers_size <- 4, max_body_size <- 0

Body == INSTANCE HttpMessage
    WITH text <- v1, start <- v2, r <- v3,
         Chars <- {"0", "1", "2", "x", " ", "\n"}, MaxLen <- 5, MaxPiece <- 2,
         Starts <- {<<"BODY", "chunked", -1>>, <<"BODY", "close", -1>>, <<"BODY", "length", 3>>, <<"BODY", "length", 5>>},
         max_headers_size <- 6, max_body_size <- 4

\* All URIs, authorities, texts and patterns of a few characters.
Uri == INSTANCE HttpUri
    WITH str <- v1, pattern <- v2,
         Alphabet <- {"a", "1", ":", "/", "?", "#", "@", "%", "["}, MaxLen <- 4, PatternAlphabet <- {}, MaxPattern <- 0,
         Virtualhosts <- Virtualhosts, Vhost_pattern <- Patterns, Aliases <- Aliases

Host == INSTANCE HttpUri
    WITH str <- v1, pattern <- v2,
         Alphabet <- {"a", "B", "b", ".", ":", "1", "[", "]"}, MaxLen <- 4, PatternAlphabet <- {}, MaxPattern <- 0,
         Virtualhosts <- Virtualhosts, Vhost_pattern <- Patterns, Aliases <- Aliases

Escape == INSTANCE HttpUri
    WITH str <- v1, pattern <- v2,
         Alphabet <- {"a", "2", "B", "%", "+", " ", "?", "&", "=", "<"}, MaxLen <- 3, PatternAlphabet <- {}, MaxPattern <- 0,
         Virtualhosts <- Virtualhosts, Vhost_pattern <- Patterns, Aliases <- Aliases

Globs == INSTANCE HttpUri
    WITH str <- v1, pattern <- v2,
         Alphabet <- {"a", "B"}, MaxLen <- 4, PatternAlphabet <- {"a", "b", "*"}, MaxPattern <- 4,
         Virtualhosts <- Virtualhosts, Vhost_pattern <- Patterns, Aliases <- Aliases

\* DNS requests over two servers: cancelled ones, refused ones with a search
\* list, servers taken away, and one request for its end.
Dns == INSTANCE DnsRequests
    WITH s <- v1,
         Servers <- {1, 2}, Configured <- 2, Users <- {11, 12}, Probes <- {21},
         MaxInflight <- 1, MaxTx <- 1, MaxTimeouts <- 0, MaxReissues <- 1, Searches <- {0},
         Calls <- {"resolve", "cancel"}, Replies <- {"NONE"}, Nets <- {"ok", "again"}

DnsErrors == INSTANCE DnsRequests
    WITH s <- v1,
         Servers <- {1, 2}, Configured <- 2, Users <- {11, 12}, Probes <- {21},
         MaxInflight <- 1, MaxTx <- 1, MaxTimeouts <- 0, MaxReissues <- 1, Searches <- {0},
         Calls <- {"resolve"}, Replies <- {"REFUSED"}, Nets <- {"ok", "error"}

DnsRetry == INSTANCE DnsRequests
    WITH s <- v1,
         Servers <- {1, 2}, Configured <- 2, Users <- {11}, Probes <- {21},
         MaxInflight <- 1, MaxTx <- 2, MaxTimeouts <- 0, MaxReissues <- 1, Searches <- {0},
         Calls <- {"resolve", "cancel"}, Replies <- {"NONE", "SERVERFAILED"}, Nets <- {"ok", "again"}

DnsSuspend == INSTANCE DnsRequests
    WITH s <- v1,
         Servers <- {1, 2}, Configured <- 1, Users <- {11, 12}, Probes <- {},
         MaxInflight <- 1, MaxTx <- 1, MaxTimeouts <- 9, MaxReissues <- 1, Searches <- {0},
         Calls <- {"resolve", "cancel", "clear", "free"}, Replies <- {"NONE"}, Nets <- {"ok", "again"}

DnsLive == INSTANCE DnsRequests
    WITH s <- v1,
         Servers <- {1, 2}, Configured <- 2, Users <- {11}, Probes <- {21},
         MaxInflight <- 2, MaxTx <- 1, MaxTimeouts <- 0, MaxReissues <- 1, Searches <- {1},
         Calls <- {"resolve"}, Replies <- {"REFUSED"}, Nets <- {"ok", "again"}

\* Three queries at a DNS server that another thread answers.
Port == INSTANCE DnsServerPort
    WITH p <- v1,
         Requests <- {1, 2, 3}, Threads <- {"loop", "user"}, Opcodes <- {0}, Nets <- {"ok", "again", "error"},
         Calls <- {"close"}

\* One lookup of each family.
Lookup == INSTANCE GetAddrInfo
    WITH g <- v1,
         Families <- {"UNSPEC", "INET", "INET6"}, Results <- {"NONE", "EMPTY", "NOTEXIST", "SERVERFAILED"},
         Memory <- BOOLEAN, Hosts <- {{}, {"v4"}}

\* Three RPCs over two connections, with hooks or with timeouts.
Pool == INSTANCE RpcPool
    WITH rpc <- v1, queue <- v2, pool <- v3, conn <- v4,
         Rpcs <- {1, 2, 3}, Conns <- {11, 12}, NoConn <- 0,
         OutHook <- {"continue", "pause"}, InHook <- {"continue", "pause", "terminate"}, Resumes <- {"continue"},
         Timeout <- FALSE, MakeFails <- FALSE, Frees <- FALSE

PoolTimeout == INSTANCE RpcPool
    WITH rpc <- v1, queue <- v2, pool <- v3, conn <- v4,
         Rpcs <- {1, 2, 3}, Conns <- {11, 12}, NoConn <- 0,
         OutHook <- {"continue"}, InHook <- {"continue", "pause"}, Resumes <- {"continue", "terminate"},
         Timeout <- TRUE, MakeFails <- FALSE, Frees <- FALSE

PoolFreed == INSTANCE RpcPool
    WITH rpc <- v1, queue <- v2, pool <- v3, conn <- v4,
         Rpcs <- {1, 2}, Conns <- {11, 12}, NoConn <- 0,
         OutHook <- {"continue"}, InHook <- {"continue", "pause"}, Resumes <- {"continue"},
         Timeout <- FALSE, MakeFails <- FALSE, Frees <- TRUE

\* Three requests to one RPC.
Rpc == INSTANCE RpcServer
    WITH rpc <- v1, req <- v2, paused <- v3, answers <- v4,
         Reqs <- {1, 2, 3}, InHook <- {"continue", "pause", "terminate"},
         OutHook <- {"continue", "pause", "terminate"}

\* Two records of every kind, cut anywhere.
Tags == INSTANCE Tagging
    WITH sent <- v1, wire <- v2, evbuf <- v3, got <- v4,
         Records <- Records, MaxRecords <- 2

\* Texts of addresses of four words, addresses of eight.
Pton == INSTANCE EvutilAddr
    WITH str <- v1, words <- v2, port <- v3,
         NWords <- 4, WordValues <- {0, 1, 65535}, Alphabet <- {":", "1", "."}, MaxLen <- 8

Ntop == INSTANCE EvutilAddr
    WITH str <- v1, words <- v2, port <- v3,
         NWords <- 8, WordValues <- {0, 65535}, Alphabet <- {}, MaxLen <- 0

-----------------------------------------------------------------------------
(* Behaviours. *)

From13 == v13 = 0
From12 == v12 = 0 /\ From13
From11 == v11 = 0 /\ From12
From10 == v10 = 0 /\ From11
From9 == v9 = 0 /\ From10
From8 == v8 = 0 /\ From9
From7 == v7 = 0 /\ From8
From6 == v6 = 0 /\ From7
From5 == v5 = 0 /\ From6
From4 == v4 = 0 /\ From5
From3 == v3 = 0 /\ From4
From2 == v2 = 0 /\ From3
From1 == v1 = 0 /\ From2

Rest12 == <<v13>>
Rest11 == <<v12, v13>>
Rest10 == <<v11, v12, v13>>
Rest9 == <<v10, v11, v12, v13>>
Rest8 == <<v9, v10, v11, v12, v13>>
Rest7 == <<v8, v9, v10, v11, v12, v13>>
Rest6 == <<v7, v8, v9, v10, v11, v12, v13>>
Rest5 == <<v6, v7, v8, v9, v10, v11, v12, v13>>
Rest4 == <<v5, v6, v7, v8, v9, v10, v11, v12, v13>>
Rest3 == <<v4, v5, v6, v7, v8, v9, v10, v11, v12, v13>>
Rest2 == <<v3, v4, v5, v6, v7, v8, v9, v10, v11, v12, v13>>
Rest1 == <<v2, v3, v4, v5, v6, v7, v8, v9, v10, v11, v12, v13>>
Rest0 == <<v1, v2, v3, v4, v5, v6, v7, v8, v9, v10, v11, v12, v13>>
all == <<vars, part, Rest0>>

MCInit ==
    /\ Init /\ (part = "node" \/ \A n \in Pins : level[n] = 0)
    /\ \/ part = "node" /\ From1
       \/ part = "node live" /\ NodeLive!Init /\ From7
       \/ part = "node get" /\ NodeGet!Init /\ From7
       \/ part = "front" /\ Front!Init /\ From13
       \/ part = "front two" /\ FrontTwo!Init /\ From13
       \/ part = "path" /\ Path!Init /\ From7
       \/ part = "phase1" /\ First!Init
       \/ part = "phase1 pin" /\ FirstPin!Init
       \/ part = "client" /\ Client!Init /\ From2
       \/ part = "client any" /\ ClientAny!Init /\ From2
       \/ part = "server" /\ Server!Init /\ From4
       \/ part = "head" /\ Head1!Init /\ From4
       \/ part = "body" /\ Body!Init /\ From4
       \/ part = "uri" /\ Uri!Init /\ From3
       \/ part = "host" /\ Host!Init /\ From3
       \/ part = "escape" /\ Escape!Init /\ From3
       \/ part = "glob" /\ Globs!Init /\ From3
       \/ part = "dns" /\ Dns!Init /\ From2
       \/ part = "dns errors" /\ DnsErrors!Init /\ From2
       \/ part = "dns retry" /\ DnsRetry!Init /\ From2
       \/ part = "dns suspend" /\ DnsSuspend!Init /\ From2
       \/ part = "dns live" /\ DnsLive!Init /\ From2
       \/ part = "port" /\ Port!Init /\ From2
       \/ part = "lookup" /\ Lookup!Init /\ From2
       \/ part = "pool" /\ Pool!Init /\ From5
       \/ part = "pool timeout" /\ PoolTimeout!Init /\ From5
       \/ part = "pool freed" /\ PoolFreed!Init /\ From5
       \/ part = "rpc" /\ Rpc!Init /\ From5
       \/ part = "tags" /\ Tags!Init /\ From5
       \/ part = "pton" /\ Pton!Init /\ From4
       \/ part = "ntop" /\ Ntop!Init /\ From4

MCNext ==
    /\ UNCHANGED part
    /\ \/ part = "node" /\ Next /\ UNCHANGED Rest0
       \/ /\ UNCHANGED vars
          /\ \/ part = "node live" /\ NodeLive!Next /\ UNCHANGED Rest6
             \/ part = "node get" /\ NodeGet!Next /\ UNCHANGED Rest6
             \/ part = "front" /\ Front!Next /\ UNCHANGED Rest12
             \/ part = "front two" /\ FrontTwo!Next /\ UNCHANGED Rest12
             \/ part = "path" /\ Path!Next /\ UNCHANGED Rest6
             \/ part = "phase1" /\ First!Next
             \/ part = "phase1 pin" /\ FirstPin!Next
             \/ part = "client" /\ Client!Next /\ UNCHANGED Rest1
             \/ part = "client any" /\ ClientAny!Next /\ UNCHANGED Rest1
             \/ part = "server" /\ Server!Next /\ UNCHANGED Rest3
             \/ part = "head" /\ Head1!Next /\ UNCHANGED Rest3
             \/ part = "body" /\ Body!Next /\ UNCHANGED Rest3
             \/ part = "uri" /\ Uri!Next /\ UNCHANGED Rest2
             \/ part = "host" /\ Host!Next /\ UNCHANGED Rest2
             \/ part = "escape" /\ Escape!Next /\ UNCHANGED Rest2
             \/ part = "glob" /\ Globs!Next /\ UNCHANGED Rest2
             \/ part = "dns" /\ Dns!Next /\ UNCHANGED Rest1
             \/ part = "dns errors" /\ DnsErrors!Next /\ UNCHANGED Rest1
             \/ part = "dns retry" /\ DnsRetry!Next /\ UNCHANGED Rest1
             \/ part = "dns suspend" /\ DnsSuspend!Next /\ UNCHANGED Rest1
             \/ part = "dns live" /\ DnsLive!Next /\ UNCHANGED Rest1
             \/ part = "port" /\ Port!Next /\ UNCHANGED Rest1
             \/ part = "lookup" /\ Lookup!Next /\ UNCHANGED Rest1
             \/ part = "pool" /\ Pool!Next /\ UNCHANGED Rest4
             \/ part = "pool timeout" /\ PoolTimeout!Next /\ UNCHANGED Rest4
             \/ part = "pool freed" /\ PoolFreed!Next /\ UNCHANGED Rest4
             \/ part = "rpc" /\ Rpc!Next /\ UNCHANGED Rest4
             \/ part = "tags" /\ Tags!Next /\ UNCHANGED Rest4
             \/ part = "pton" /\ Pton!Next /\ UNCHANGED Rest3
             \/ part = "ntop" /\ Ntop!Next /\ UNCHANGED Rest3

\* Parts of which something is asked that must happen.
Live == {"client", "server", "lookup", "pool", "rpc", "front two", "phase1", "dns live", "node live"}

\* Connects, writes and reads end, because every one has a deadline; timers
\* and deferred callbacks run; peers and programs do what is theirs; the
\* interrupt handlers of the node run to their end.
GoesOn(k) ==
    /\ part \in Live /\ UNCHANGED <<vars, part>>
    /\ \/ part = "client" /\ k = 1 /\ Client!GoesOn /\ UNCHANGED Rest1
       \/ part = "server" /\ k = 1 /\ Server!WriteGoesOn /\ UNCHANGED Rest3
       \/ part = "lookup" /\ k = 1 /\ Lookup!GoesOn /\ UNCHANGED Rest1
       \/ part = "pool" /\ k = 1 /\ (Pool!Network \/ Pool!Resume) /\ UNCHANGED Rest4
       \/ part = "rpc" /\ k = 1 /\ Rpc!GoesOn /\ UNCHANGED Rest4
       \/ part = "front two" /\ k <= 2 /\ FrontTwo!send_message(k) /\ UNCHANGED Rest12
       \/ part = "phase1" /\ k = 1 /\ First!Gateway
       \/ part = "phase1" /\ k >= 2 /\ First!ReceiveEcho(k - 1)
       \/ part = "node live" /\ k = 1 /\ NodeLive!isr_send_message /\ UNCHANGED Rest6
       \/ part = "node live" /\ k = 2 /\ NodeLive!interrupt(0) /\ UNCHANGED Rest6

\* What others may hold up again and again comes to its turn: a browser in
\* front of another, a full socket that becomes writable, and the main
\* program of the node, of which the AVR executes an instruction between two
\* handlers.
MayHaveTurn(k) ==
    \/ part = "front two" /\ FrontTwo!Serving(k)
    \/ part = "dns live" /\ v1.ns[k].waiting
    \/ part = "node live" /\ k = 1 /\ NodeLive!MainRuns /\ v4.pc = "idle" /\ v1 # <<>>
    \/ part = "node live" /\ k = 2 /\ NodeLive!MainRuns /\ v4.pc # "idle"
HasItsTurn(k) ==
    /\ part \in Live
    /\ \/ part = "front two" /\ (FrontTwo!test_cb(k) \/ FrontTwo!generic_cb(k))
       \/ part = "dns live" /\ DnsLive!nameserver_ready_callback(k) /\ ~v1'.ns[k].choked
       \/ part = "node live" /\ k = 1 /\ NodeLive!loop
       \/ part = "node live" /\ k = 2 /\ NodeLive!send_message

\* In the last two, what enables the step is spelt out.
MCFairness ==
    /\ WF_all(GoesOn(1)) /\ WF_all(GoesOn(2)) /\ WF_all(GoesOn(3))
    /\ \/ []<>(part = "dns live" => v1.deferred = <<>>)
       \/ []<><<part = "dns live" /\ DnsLive!reply_run_callback>>_all
    /\ \A h \in {11, 21} : \/ []<>(part = "dns live" => ~v1.h[h].tmr)
                           \/ []<><<part = "dns live" /\ DnsLive!evdns_request_timeout_callback(h)>>_all
    /\ \A k \in {1, 2} : <>[]~MayHaveTurn(k) \/ []<><<HasItsTurn(k)>>_all

MCSpec == MCInit /\ [][MCNext]_all /\ MCFairness

-----------------------------------------------------------------------------
(* Properties *)

\* No assertion of http.c and evdns.c fails, no event is assigned while it
\* is pending and nothing freed is used.  An HTTP connection of the program's
\* is the exception: its deferred read, its retry timer and its mark outlive
\* evhttp_connection_reset, and what then fails is said case by case.
NoAbort ==
    /\ part = "client" => Client!NoAbort /\ v1.aborted = {}
    /\ part = "client any" => ClientAny!NoAbort
    /\ part = "server" => Server!NoAbort
    /\ part = "dns" => Dns!NoAbort
    /\ part = "dns errors" => DnsErrors!NoAbort
    /\ part = "dns retry" => DnsRetry!NoAbort
    /\ part = "dns suspend" => DnsSuspend!NoAbort
    /\ part = "lookup" => Lookup!NoAbort
    /\ part = "phase1" => First!EventsIntact

\* Callbacks are called once and told the truth: HTTP requests, DNS requests
\* and lookups that are cancelled, retried or dropped with their base, RPCs
\* that hooks pause; and no answer is given twice.  A lookup that runs out of
\* memory may be told twice, and an HTTP request sent twice once the retry
\* timer of a cancelled one has outlived its connection.
CalledOnce ==
    /\ part = "client" => Client!SentOnce
    /\ part = "client any" => ClientAny!SentOnce /\ ClientAny!CalledOnce
    /\ part = "dns" => Dns!CalledOnce
    /\ part = "dns retry" => DnsRetry!CalledOnce
    /\ part = "dns suspend" => DnsSuspend!CalledOnce /\ DnsSuspend!FreeAnswersAll
    /\ part = "lookup" => Lookup!CalledOnce /\ Lookup!CancelReported /\ Lookup!AnswerIsWanted
    /\ part = "port" => Port!AnsweredOnce
    /\ part = "pool" => Pool!CalledOnce
    /\ part = "pool freed" => PoolFreed!CalledOnce
    /\ part = "pool timeout" => PoolTimeout!AbortedInTime
    /\ part = "rpc" => Rpc!AnsweredOnce /\ Rpc!PausedRight

\* What is unfinished has something under way that will finish it: an event
\* that is armed, a timer, a probe, a request in front of it.  The DNS parts
\* have no search list: at the limit of requests in flight (evdns.c:3235) the
\* next name of a list is not submitted but lost.
NotForgotten ==
    /\ part = "client" => Client!NotStuck /\ Client!IdleWatched
    /\ part = "client any" => ClientAny!NotStuck /\ ClientAny!IdleWatched
    /\ part = "server" => Server!NotStuck
    /\ part = "dns" => Dns!NotForgotten /\ Dns!AlwaysProbed /\ Dns!NeverIdle
    /\ part = "dns errors" => DnsErrors!AlwaysProbed /\ DnsErrors!NeverIdle
    /\ part = "dns retry" => DnsRetry!NotForgotten /\ DnsRetry!AlwaysProbed
    /\ part = "dns suspend" => DnsSuspend!NotForgotten
    /\ part = "port" => Port!PendingWatched
    /\ part = "pool" => Pool!NoIdleWhileQueued
    /\ part = "pool freed" => PoolFreed!NoIdleWhileQueued
    /\ part = "pool timeout" => PoolTimeout!TimerHasRpc

\* Counters and flags say what the lists and the holders are: the requests
\* in flight and the good nameservers, the references of a server port, the
\* program's hold on a request, a lookup that is over.
CountsAgree ==
    /\ part = "dns" => Dns!Counted /\ Dns!InflightBound
    /\ part = "dns errors" => DnsErrors!Counted
    /\ part = "dns retry" => DnsRetry!Counted
    /\ part = "dns suspend" => DnsSuspend!Counted
    /\ part = "port" => Port!RefCounted
    /\ part = "server" => Server!HoldIsUserdone
    /\ part = "lookup" => Lookup!NothingLeft

\* A reader finds the borders of messages where they are, however the stream
\* was cut: heads, chunks and lengths of HTTP, records of tagged data.  The
\* replies libevent writes by itself (http.c:614, :2459) are not among what the
\* server part frames.
MessagesFramed ==
    /\ part = "server" => Server!Framed
    /\ part = "head" => Head1!SplitIndependent /\ Head1!WithinLimits /\ Head1!FirstLineChecked
    /\ part = "body" => Body!SplitIndependent /\ Body!ChunksDecoded
    /\ part = "tags" => Tags!ReadIsWritten /\ Tags!Framed /\ Tags!PeekRight

\* Texts mean what they should, and printing is undone by reading: URIs,
\* hosts, escapes, host patterns, IPv6 addresses and addresses with a port.
TextsMean ==
    /\ part = "uri" => Uri!UriComponents /\ Uri!UriRoundTrip
    /\ part = "host" => Host!HostAgrees /\ Host!BestHost
    /\ part = "escape" => Escape!EscapesUndone /\ Escape!HtmlSafe
    /\ part = "glob" => Globs!MatchIsGlob
    /\ part = "pton" => Pton!PtonMeans
    /\ part = "ntop" => Ntop!NtopMeans /\ Ntop!SockaddrRoundTrip

\* A command reaches the node as it was asked for and its answer comes back
\* to the asker, through the HTTP front end, the buffers on the way and the
\* programs of phase 1, which own their buffers and sockets.  Only a command
\* the gateway leaves unanswered for three seconds is answered with a value that
\* is nobody's.
CommandsIntact ==
    /\ part = "node get" => NodeGet!NodeSafe
    /\ part = "front" => Front!GoodAnswer /\ Front!SocketsAccounted /\ Front!CommandFromUrl /\ Front!ExitCause /\ Front!SetAnswer
    /\ part = "front two" => FrontTwo!GoodAnswer
    /\ part = "path" => Path!CommandIntact /\ Path!AnswerIntact /\ Path!LengthCovers
    /\ part = "phase1" => First!BuffersOwned /\ First!EchoIsOwn
    /\ part = "phase1 pin" => FirstPin!PinFollows /\ FirstPin!PacketFits

\* Of those that are alike one is asked for; of the requests of an HTTP
\* client the first and the last.
Waits(i) ==
    /\ part \in Live
    /\ \/ part = "client" /\ Client!Unanswered(<<1, 3>>[i])
       \/ part = "server" /\ i = 1 /\ Server!Unwritten
       \/ part = "dns live" /\ i = 1 /\ DnsLive!Uncalled(11)
       \/ part = "lookup" /\ i = 1 /\ Lookup!Untold
       \/ part = "pool" /\ i = 1 /\ Pool!Uncalled(1)
       \/ part = "rpc" /\ i = 1 /\ Rpc!Unanswered(1)
       \/ part = "front two" /\ i = 1 /\ FrontTwo!Unanswered(1)
       \/ part = "phase1" /\ i = 1 /\ First!Unechoed(1)
       \/ part = "node live" /\ i = 1 /\ NodeLive!Unhandled
       \/ part = "node live" /\ i = 2 /\ NodeLive!Unreported

Answered(i) ==
    \/ part = "server" /\ Server!GivenBack
    \/ part = "node live" /\ i = 2 /\ NodeLive!Reported
    \/ part # "server" /\ ~Waits(i)

\* Everyone who waits is answered: requests over HTTP, DNS and RPC, clients
\* of both gateways, and at the node every message and every edge.  That a
\* handler of the node returns is assumed.
EventuallyAnswered == \A i \in {1, 2} : Waits(i) ~> Answered(i)
=============================================================================
