------------------------------ MODULE RpcServer ------------------------------
(***************************************************************************)
(* The server half of evrpc.c: an HTTP request for a registered RPC passes *)
(* input hooks, is unmarshalled and given to the user, who some time later *)
(* calls evrpc_request_done; the reply passes output hooks and is sent.    *)
(* A paused request is an entry of a list, which holds the function to go  *)
(* on with; evrpc_resume_request calls it and then removes the entry.      *)
(***************************************************************************)
EXTENDS Integers, Sequences, Functions, SequenceTheorems, TLAPS

CONSTANTS Reqs,             \* HTTP requests
          InHook, OutHook   \* what hooks return: "continue", "pause", "terminate"

VARIABLES rpc,       \* is the RPC registered
          req,       \* where each request is
          paused,    \* base->paused_requests
          answers    \* ghost: the answers given to each

vars == <<rpc, req, paused, answers>>

Init == /\ rpc = TRUE /\ req = [q \in Reqs |-> "none"] /\ paused = <<>>
        /\ answers = [q \in Reqs |-> <<>>]

\* Requests that have a state object, which points to the RPC.
Held == {q \in Reqs : req[q] \in {"paused_in", "user", "paused_out"}}

----------------------------------------------------------------------------
(* The steps of a request, on the list l of paused ones.                    *)

Entry(q, cb) == [ctx |-> q, cb |-> cb]
evrpc_pause_request(q, to, l) ==
    /\ req' = [req EXCEPT ![q] = to] /\ paused' = Append(l, Entry(q, to)) /\ UNCHANGED answers

\* The state object is freed and the answer sent.
Answer(q, code, l) ==
    /\ req' = [req EXCEPT ![q] = "answered"] /\ paused' = l
    /\ answers' = [answers EXCEPT ![q] = Append(@, code)]

evrpc_request_done_closure(q, res, l) == Answer(q, IF res = "terminate" THEN 503 ELSE 200, l)

\* A reply that is complete is marshalled and shown to the hooks.
evrpc_request_done(q, l) ==
    \/ Answer(q, 503, l)
    \/ \E hook \in OutHook : IF hook = "pause" THEN evrpc_pause_request(q, "paused_out", l)
                             ELSE evrpc_request_done_closure(q, hook, l)

\* The body is unmarshalled and the user called, who may finish the RPC there
\* and then.
evrpc_request_cb_closure(q, res, l) ==
    \/ Answer(q, 503, l)
    \/ /\ res # "terminate"
       /\ \/ req' = [req EXCEPT ![q] = "user"] /\ paused' = l /\ UNCHANGED answers
          \/ evrpc_request_done(q, l)

\* A request arrives; post: it is a POST with a body.
evrpc_request_cb(q, post) ==
    /\ rpc /\ req[q] = "none"
    /\ \/ ~post /\ Answer(q, 503, paused)
       \/ \E hook \in InHook :
             /\ post
             /\ IF hook = "pause" THEN evrpc_pause_request(q, "paused_in", paused)
                ELSE evrpc_request_cb_closure(q, hook, paused)
    /\ UNCHANGED rpc

UserDone(q) == req[q] = "user" /\ evrpc_request_done(q, paused) /\ UNCHANGED rpc

\* The first entry of the request; it goes when its function has returned,
\* which may have paused the request again.
Without(l, i) == [j \in 1 .. Len(l) - 1 |-> IF j < i THEN l[j] ELSE l[j + 1]]
evrpc_resume_request(q, res) ==
    /\ \E i \in DOMAIN paused :
          /\ paused[i].ctx = q /\ \A j \in 1..(i - 1) : paused[j].ctx # q
          /\ IF paused[i].cb = "paused_in"
             THEN evrpc_request_cb_closure(q, res, Without(paused, i))
             ELSE evrpc_request_done_closure(q, res, Without(paused, i))
    /\ UNCHANGED rpc

\* A request for an RPC that is not registered is the HTTP server's to refuse.
NotFound(q) == ~rpc /\ req[q] = "none" /\ Answer(q, 404, paused) /\ UNCHANGED rpc

evrpc_register_rpc == ~rpc /\ rpc' = TRUE /\ UNCHANGED <<req, paused, answers>>

\* It frees the RPC, so the user has to wait for the requests that use it.
evrpc_unregister_rpc ==
    /\ rpc /\ Held = {} /\ rpc' = FALSE /\ UNCHANGED <<req, paused, answers>>

Next == \/ \E q \in Reqs :
              \/ \E post \in BOOLEAN : evrpc_request_cb(q, post)
              \/ UserDone(q) \/ NotFound(q)
              \/ \E res \in {"continue", "terminate"} : evrpc_resume_request(q, res)
        \/ evrpc_register_rpc \/ evrpc_unregister_rpc

Spec == Init /\ [][Next]_vars

\* The user finishes its RPCs and resumes paused ones.
GoesOn == \E q \in Reqs : UserDone(q) \/ \E res \in {"continue", "terminate"} : evrpc_resume_request(q, res)

----------------------------------------------------------------------------
\* An HTTP request is answered exactly once, by whichever of the error paths,
\* hooks, resumptions or the user comes to it, and never again afterwards.
AnsweredOnce == \A q \in Reqs : Len(answers[q]) = (IF req[q] = "answered" THEN 1 ELSE 0)

\* The list holds each paused request once, with the function of the stage it
\* was paused at, and no request that is answered or with the user.
PausedRight ==
    /\ \A q \in Reqs : req[q] \in {"paused_in", "paused_out"}
                         <=> \E i \in DOMAIN paused : paused[i] = Entry(q, req[q])
    /\ \A i, j \in DOMAIN paused : paused[i].ctx = paused[j].ctx => i = j

\* Every request that reached the RPC is answered.
Unanswered(q) == q \in Held
----------------------------------------------------------------------------
(***************************************************************************)
(* Proofs, for any set of requests and whatever the hooks return.          *)
(***************************************************************************)

Stage == {"paused_in", "paused_out"}
PausedEntry == [ctx : Reqs, cb : Stage]
Distinct(l) == \A i, j \in 1 .. Len(l) : l[i].ctx = l[j].ctx => i = j

\* Each request is answered when it says so, and the list holds the paused
\* ones, each once and at its stage.  That no other entry is on the list makes
\* PausedRight inductive: a stale one would be resumed.
IInv ==
    /\ req \in [Reqs -> {"none", "user", "answered"} \cup Stage]
    /\ answers \in [Reqs -> Seq(Nat)] /\ AnsweredOnce
    /\ paused \in Seq(PausedEntry) /\ Distinct(paused)
    /\ Range(paused) = {Entry(q, req[q]) : q \in {r \in Reqs : req[r] \in Stage}}

\* The list l is the one of the other requests: what the functions are given.
Others(q, l) ==
    /\ l \in Seq(PausedEntry) /\ Distinct(l)
    /\ Range(l) = {Entry(r, req[r]) : r \in {r \in Reqs \ {q} : req[r] \in Stage}}

\* Zenon is the default prover; steps with arithmetic name the SMT solver.
USE ZenonT(60)

LEMMA EntryIs ==
    ASSUME NEW q, NEW cb
    PROVE  Entry(q, cb).ctx = q /\ Entry(q, cb).cb = cb
BY SMTT(60) DEF Entry

\* Such a list stays right when its request moves on, to where it is not
\* paused or to the end of the list.
LEMMA Moved ==
    ASSUME IInv, NEW q \in Reqs, NEW l, Others(q, l), NEW to \in {"user", "answered"},
           req' = [req EXCEPT ![q] = to], paused' = l
    PROVE  /\ req' \in [Reqs -> {"none", "user", "answered"} \cup Stage]
           /\ paused' \in Seq(PausedEntry) /\ Distinct(paused')
           /\ Range(paused') = {Entry(r, req'[r]) : r \in {r \in Reqs : req'[r] \in Stage}}
<1>1. req'[q] = to /\ (\A r \in Reqs : r # q => req'[r] = req[r])
  BY DEF IInv
<1>2. to \notin Stage
  BY DEF Stage
<1>3. {Entry(r, req'[r]) : r \in {r \in Reqs : req'[r] \in Stage}}
        = {Entry(r, req[r]) : r \in {r \in Reqs \ {q} : req[r] \in Stage}}
  BY <1>1, <1>2
<1>4. req' \in [Reqs -> {"none", "user", "answered"} \cup Stage]
  BY DEF IInv
<1> QED BY <1>3, <1>4 DEF Others

LEMMA PauseStep ==
    ASSUME IInv, NEW q \in Reqs, NEW l, Others(q, l), NEW to \in Stage, req[q] # "answered",
           evrpc_pause_request(q, to, l)
    PROVE  IInv'
<1> DEFINE e == Entry(q, to)
           n == Len(l)
<1>1. req' = [req EXCEPT ![q] = to] /\ paused' = Append(l, e) /\ answers' = answers
  BY DEF evrpc_pause_request
<1>2. req'[q] = to /\ (\A r \in Reqs : r # q => req'[r] = req[r])
  BY <1>1 DEF IInv
<1>3. req' \in [Reqs -> {"none", "user", "answered"} \cup Stage]
  BY <1>1 DEF IInv
<1>4. e \in PausedEntry /\ e.ctx = q
  BY DEF Entry, PausedEntry
<1> HIDE DEF e
<1>5. l \in Seq(PausedEntry) /\ n \in Nat /\ DOMAIN l = 1 .. n
  BY LenProperties DEF Others
<1>6. /\ paused' \in Seq(PausedEntry) /\ Len(paused') = n + 1 /\ DOMAIN paused' = 1 .. n + 1
      /\ paused'[n + 1] = e /\ \A i \in 1 .. n : paused'[i] = l[i]
  BY <1>1, <1>4, <1>5, AppendProperties, LenProperties, SMTT(60)
<1>7. /\ \A i \in 1 .. n : i \in 1 .. n + 1
      /\ n + 1 \in 1 .. n + 1
      /\ \A i \in 1 .. n + 1 : i \in 1 .. n \/ i = n + 1
  BY <1>5, SMTT(60)
<1> HIDE DEF n
<1>8. Range(paused') = Range(l) \cup {e}
  BY <1>5, <1>6, <1>7 DEF Range
<1>9. \A i \in 1 .. n : l[i].ctx # q
  <2> SUFFICES ASSUME NEW i \in 1 .. n PROVE l[i].ctx # q
    OBVIOUS
  <2>1. l[i] \in Range(l)
    BY <1>5 DEF Range
  <2>2. PICK r \in Reqs \ {q} : l[i] = Entry(r, req[r])
    BY <2>1 DEF Others
  <2> QED BY <2>2, EntryIs
<1>10. Distinct(paused')
  <2>1. \A i, j \in 1 .. n : l[i].ctx = l[j].ctx => i = j
    BY DEF Others, Distinct, n
  <2> QED BY <1>4, <1>6, <1>7, <1>9, <2>1 DEF Distinct
<1>11. Range(paused') = {Entry(r, req'[r]) : r \in {r \in Reqs : req'[r] \in Stage}}
  <2>1. {Entry(r, req'[r]) : r \in {r \in Reqs : req'[r] \in Stage}}
          = {Entry(r, req[r]) : r \in {r \in Reqs \ {q} : req[r] \in Stage}} \cup {Entry(q, to)}
    BY <1>2
  <2> QED BY <1>8, <2>1 DEF Others, e
<1>12. AnsweredOnce'
  <2>1. \A r \in Reqs : req'[r] = "answered" <=> req[r] = "answered"
    BY <1>2 DEF Stage
  <2> QED BY <1>1, <2>1 DEF IInv, AnsweredOnce
<1> QED BY <1>1, <1>3, <1>6, <1>10, <1>11, <1>12 DEF IInv

LEMMA AnswerStep ==
    ASSUME IInv, NEW q \in Reqs, NEW l, Others(q, l), NEW code \in Nat, req[q] # "answered",
           Answer(q, code, l)
    PROVE  IInv'
<1>1. /\ req' = [req EXCEPT ![q] = "answered"] /\ paused' = l
      /\ answers' = [answers EXCEPT ![q] = Append(@, code)]
  BY DEF Answer
<1>2. /\ req' \in [Reqs -> {"none", "user", "answered"} \cup Stage]
      /\ paused' \in Seq(PausedEntry) /\ Distinct(paused')
      /\ Range(paused') = {Entry(r, req'[r]) : r \in {r \in Reqs : req'[r] \in Stage}}
  BY <1>1, Moved
<1>3. answers[q] \in Seq(Nat) /\ Len(answers[q]) = 0
  BY DEF IInv, AnsweredOnce
<1>4. Append(answers[q], code) \in Seq(Nat) /\ Len(Append(answers[q], code)) = 1
  BY <1>3, AppendProperties, SMTT(60)
<1>5. answers' \in [Reqs -> Seq(Nat)]
  BY <1>1, <1>4 DEF IInv
<1>6. /\ answers'[q] = Append(answers[q], code) /\ req'[q] = "answered"
      /\ \A r \in Reqs : r # q => answers'[r] = answers[r] /\ req'[r] = req[r]
  BY <1>1 DEF IInv
<1>7. AnsweredOnce'
  BY <1>4, <1>6 DEF IInv, AnsweredOnce
<1> QED BY <1>2, <1>5, <1>7 DEF IInv

LEMMA DoneStep ==
    ASSUME IInv, NEW q \in Reqs, NEW l, Others(q, l), req[q] # "answered", evrpc_request_done(q, l)
    PROVE  IInv'
<1>1. (503 \in Nat) /\ (200 \in Nat) /\ "paused_out" \in Stage
  BY SMTT(60) DEF Stage
<1>2. ASSUME NEW res, evrpc_request_done_closure(q, res, l) PROVE IInv'
  BY <1>1, <1>2, AnswerStep DEF evrpc_request_done_closure
<1> QED BY <1>1, <1>2, AnswerStep, PauseStep DEF evrpc_request_done

LEMMA CbStep ==
    ASSUME IInv, NEW q \in Reqs, NEW l, Others(q, l), req[q] # "answered", NEW res,
           evrpc_request_cb_closure(q, res, l)
    PROVE  IInv'
<1>1. 503 \in Nat
  BY SMTT(60)
<1>2. CASE req' = [req EXCEPT ![q] = "user"] /\ paused' = l /\ UNCHANGED answers
  <2>1. /\ req' \in [Reqs -> {"none", "user", "answered"} \cup Stage]
        /\ paused' \in Seq(PausedEntry) /\ Distinct(paused')
        /\ Range(paused') = {Entry(r, req'[r]) : r \in {r \in Reqs : req'[r] \in Stage}}
    BY <1>2, Moved
  <2>2. \A r \in Reqs : req'[r] = "answered" <=> req[r] = "answered"
    BY <1>2 DEF IInv
  <2>3. AnsweredOnce'
    BY <1>2, <2>2 DEF IInv, AnsweredOnce
  <2> QED BY <1>2, <2>1, <2>3 DEF IInv
<1> QED BY <1>1, <1>2, AnswerStep, DoneStep DEF evrpc_request_cb_closure

\* The list of a request that is not paused has only others.
LEMMA NotOnList ==
    ASSUME IInv, NEW q \in Reqs, req[q] \notin Stage
    PROVE  Others(q, paused)
BY DEF IInv, Others

\* And without its entry so has the list of one that is.
LEMMA WithoutIs ==
    ASSUME IInv, NEW q \in Reqs, NEW i \in DOMAIN paused, paused[i].ctx = q
    PROVE  /\ Others(q, Without(paused, i)) /\ req[q] \in Stage /\ paused[i].cb = req[q]
<1> DEFINE l == paused
           m == Without(l, i)
           n == Len(l)
<1>1. /\ l \in Seq(PausedEntry) /\ n \in Nat /\ DOMAIN l = 1 .. n /\ i \in 1 .. n
      /\ \A j \in 1 .. n : l[j] \in PausedEntry
  BY LenProperties, ElementOfSeq DEF IInv
<1>2. \A j, k \in 1 .. n : l[j].ctx = l[k].ctx => j = k
  BY DEF IInv, Distinct
<1>3. ASSUME NEW j \in 1 .. n
      PROVE  /\ l[j].ctx \in Reqs /\ req[l[j].ctx] \in Stage
             /\ l[j] = Entry(l[j].ctx, req[l[j].ctx]) /\ l[j].cb = req[l[j].ctx]
  <2>1. l[j] \in Range(l)
    BY <1>1 DEF Range
  <2>2. PICK r \in Reqs : req[r] \in Stage /\ l[j] = Entry(r, req[r])
    BY <2>1 DEF IInv
  <2>3. Entry(r, req[r]).ctx = r /\ Entry(r, req[r]).cb = req[r]
    BY EntryIs
  <2> HIDE DEF l
  <2>4. l[j].ctx = r /\ l[j].cb = req[r]
    BY <2>2, <2>3
  <2> QED BY <2>2, <2>4
<1>4. m = [j \in 1 .. n - 1 |-> IF j < i THEN l[j] ELSE l[j + 1]]
  BY DEF Without
<1> HIDE DEF l, m, n
<1>5. n - 1 \in Nat /\ DOMAIN m = 1 .. n - 1
  BY <1>1, <1>4, SMTT(60)
<1>6. \A j \in 1 .. n - 1 : /\ j < i => j \in 1 .. n /\ m[j] = l[j]
                            /\ ~(j < i) => j + 1 \in 1 .. n /\ m[j] = l[j + 1]
  BY <1>1, <1>4, SMTT(60)
<1>7. m \in [1 .. n - 1 -> PausedEntry]
  BY <1>1, <1>4, <1>6
<1>8. m \in Seq(PausedEntry) /\ Len(m) = n - 1
  <2>1. m \in Seq(PausedEntry)
    BY <1>5, <1>7, SMTT(60)
  <2> QED BY <1>5, <1>7, <2>1, LenProperties, SMTT(60)
<1>9. ASSUME NEW j \in 1 .. n - 1
      PROVE  \E k \in 1 .. n : k # i /\ m[j] = l[k] /\ k = (IF j < i THEN j ELSE j + 1)
  BY <1>1, <1>6, SMTT(60)
<1>10. ASSUME NEW k \in 1 .. n, k # i
       PROVE  \E j \in 1 .. n - 1 : m[j] = l[k]
  <2>1. CASE k < i
    BY <1>1, <1>6, <2>1, SMTT(60)
  <2>2. CASE ~(k < i)
    <3>1. k - 1 \in 1 .. n - 1 /\ ~(k - 1 < i) /\ k - 1 + 1 = k
      BY <1>1, <1>10, <2>2, SMTT(60)
    <3> QED BY <1>6, <3>1
  <2> QED BY <2>1, <2>2
<1>11. Distinct(m)
  <2> SUFFICES ASSUME NEW j \in 1 .. n - 1, NEW k \in 1 .. n - 1, m[j].ctx = m[k].ctx PROVE j = k
    BY <1>8 DEF Distinct
  <2>1. PICK a \in 1 .. n : m[j] = l[a] /\ a = (IF j < i THEN j ELSE j + 1)
    BY <1>9
  <2>2. PICK b \in 1 .. n : m[k] = l[b] /\ b = (IF k < i THEN k ELSE k + 1)
    BY <1>9
  <2>3. a = b
    BY <1>2, <2>1, <2>2
  <2> QED BY <1>1, <2>1, <2>2, <2>3, SMTT(60)
<1>12. Range(m) = {Entry(r, req[r]) : r \in {r \in Reqs \ {q} : req[r] \in Stage}}
  <2>1. ASSUME NEW x \in Range(m)
        PROVE  \E r \in Reqs \ {q} : req[r] \in Stage /\ x = Entry(r, req[r])
    <3>1. PICK j \in 1 .. n - 1 : x = m[j]
      BY <1>5 DEF Range
    <3>2. PICK k \in 1 .. n : k # i /\ m[j] = l[k]
      BY <1>9
    <3>3. l[k].ctx # q
      BY <1>1, <1>2, <3>2 DEF l
    <3> QED BY <1>3, <3>1, <3>2, <3>3
  <2>2. ASSUME NEW r \in Reqs \ {q}, req[r] \in Stage PROVE Entry(r, req[r]) \in Range(m)
    <3>1. Entry(r, req[r]) \in Range(l)
      BY <2>2 DEF IInv, l
    <3>2. PICK k \in 1 .. n : l[k] = Entry(r, req[r])
      BY <1>1, <3>1 DEF Range
    <3>3. k # i
      <4>1. Entry(r, req[r]).ctx = r
        BY EntryIs
      <4>2. l[i].ctx = q
        BY DEF l
      <4> QED BY <3>2, <4>1, <4>2
    <3>4. PICK j \in 1 .. n - 1 : m[j] = l[k]
      BY <1>10, <3>3
    <3> QED BY <1>5, <3>2, <3>4 DEF Range
  <2> QED BY <2>1, <2>2
<1>13. req[q] \in Stage /\ l[i].cb = req[q]
  BY <1>1, <1>3 DEF l
<1> QED BY <1>8, <1>11, <1>12, <1>13 DEF Others, m, l

LEMMA NextStep ==
    ASSUME IInv, [Next]_vars
    PROVE  IInv'
<1>0. 503 \in Nat /\ 404 \in Nat /\ "paused_in" \in Stage /\ "answered" \notin Stage
      /\ "none" \notin Stage /\ "user" \notin Stage
  BY SMTT(60) DEF Stage
<1>1. ASSUME NEW q \in Reqs, NEW post \in BOOLEAN, evrpc_request_cb(q, post) PROVE IInv'
  <2>1. req[q] = "none"
    BY <1>1 DEF evrpc_request_cb
  <2>2. Others(q, paused) /\ req[q] # "answered"
    BY <1>0, <2>1, NotOnList
  <2> QED BY <1>0, <1>1, <2>2, AnswerStep, PauseStep, CbStep DEF evrpc_request_cb
<1>2. ASSUME NEW q \in Reqs, UserDone(q) PROVE IInv'
  <2>1. Others(q, paused) /\ req[q] # "answered" /\ evrpc_request_done(q, paused)
    BY <1>0, <1>2, NotOnList DEF UserDone
  <2> QED BY <2>1, DoneStep
<1>3. ASSUME NEW q \in Reqs, NotFound(q) PROVE IInv'
  <2>1. Others(q, paused) /\ req[q] # "answered" /\ Answer(q, 404, paused)
    BY <1>0, <1>3, NotOnList DEF NotFound
  <2> QED BY <1>0, <2>1, AnswerStep
<1>4. ASSUME NEW q \in Reqs, NEW res, evrpc_resume_request(q, res) PROVE IInv'
  <2>1. PICK i \in DOMAIN paused :
            /\ paused[i].ctx = q
            /\ \/ evrpc_request_cb_closure(q, res, Without(paused, i))
               \/ evrpc_request_done_closure(q, res, Without(paused, i))
    BY <1>4 DEF evrpc_resume_request
  <2>2. Others(q, Without(paused, i)) /\ req[q] # "answered"
    BY <1>0, <2>1, WithoutIs
  <2>3. 200 \in Nat
    BY SMTT(60)
  <2> QED BY <1>0, <2>1, <2>2, <2>3, CbStep, AnswerStep DEF evrpc_request_done_closure
<1>5. ASSUME UNCHANGED <<req, paused, answers>> PROVE IInv'
  BY <1>5 DEF IInv, AnsweredOnce
<1> QED BY <1>1, <1>2, <1>3, <1>4, <1>5 DEF Next, vars, evrpc_register_rpc, evrpc_unregister_rpc

\* evrpc.c answers every request once at most, and paused_requests holds
\* exactly the paused ones at their stage, however hooks pause and
\* terminate, the user resumes and finishes, and requests interleave.
THEOREM AnswersOnce == Spec => [](AnsweredOnce /\ PausedRight)
<1>1. Init => IInv
  <2> SUFFICES ASSUME Init PROVE IInv
    OBVIOUS
  <2>1. /\ req = [q \in Reqs |-> "none"] /\ paused = <<>> /\ answers = [q \in Reqs |-> <<>>]
    BY DEF Init
  <2>2. <<>> \in Seq(Nat) /\ <<>> \in Seq(PausedEntry) /\ DOMAIN <<>> = {} /\ Len(<<>>) = 0 /\ 1 .. 0 = {}
    BY SMTT(60)
  <2>3. \A q \in Reqs : req[q] \notin Stage
    BY <2>1 DEF Stage
  <2>4. Range(paused) = {} /\ Distinct(paused) /\ AnsweredOnce
    <3>1. Range(paused) = {}
      BY <2>1, SMTT(60) DEF Range
    <3>2. Distinct(paused)
      BY <2>1, SMTT(60) DEF Distinct
    <3>3. AnsweredOnce
      BY <2>1, SMTT(60) DEF AnsweredOnce
    <3> QED BY <3>1, <3>2, <3>3
  <2> QED BY <2>1, <2>2, <2>3, <2>4 DEF IInv
<1>2. IInv /\ [Next]_vars => IInv'
  BY NextStep
<1>3. IInv => AnsweredOnce /\ PausedRight
  <2> SUFFICES ASSUME IInv PROVE PausedRight
    BY DEF IInv
  <2>1. DOMAIN paused = 1 .. Len(paused)
    BY LenProperties DEF IInv
  <2>2. ASSUME NEW q \in Reqs
        PROVE  req[q] \in Stage <=> \E i \in DOMAIN paused : paused[i] = Entry(q, req[q])
    <3>1. (\E i \in DOMAIN paused : paused[i] = Entry(q, req[q])) <=> Entry(q, req[q]) \in Range(paused)
      BY DEF Range
    <3>2. \A r \in Reqs : Entry(q, req[q]) = Entry(r, req[r]) => q = r
      BY DEF Entry
    <3>3. Entry(q, req[q]) \in Range(paused) <=> req[q] \in Stage
      BY <3>2 DEF IInv
    <3> QED BY <3>1, <3>3
  <2> QED BY <2>1, <2>2 DEF PausedRight, IInv, Distinct, Stage
<1> QED BY <1>1, <1>2, <1>3, PTL DEF Spec
=============================================================================
