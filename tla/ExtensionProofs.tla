--------------------------- MODULE ExtensionProofs ---------------------------
(***************************************************************************)
(* The requests of a page and the grants of the extension, for any finite  *)
(* set of requests and any number of ports, moves of the server and lost   *)
(* messages; for any finite set of origins and tabs and any number of      *)
(* changes and failures; and the printer streams of its worker, for any    *)
(* set of subscriptions, any number of ports and of attempts, and any      *)
(* number of revoked grants, dead workers and stopped servers.             *)
(***************************************************************************)
EXTENDS PageRequests, GrantPopup, StreamRelay, FiniteSetTheorems, WellFoundedInduction, TLAPS

Steps == {"idle", "posted", "authorizing", "reading", "scanning", "remembering", "calling",
          "invalidating", "removing", "replying"}
Answers == {"EXTENSION_UNAVAILABLE", "ORIGIN_NOT_GRANTED", "PROTOCOL_MISMATCH", "false", "true",
            "ok", "DAEMON_UNAVAILABLE", "PRINT_FAILED", "PRINTER_NOT_FOUND"}
Call ==
  [step : Steps, base : 0 .. LastPort, retried : BOOLEAN, compared : 0 .. LastPort,
   next : {"none", "replying", "calling", "scanning", "reading"}, reply : Answers \union {"none"}]

RequestTypeOK ==
  /\ op \in [Requests -> {"health", "list", "print"}]
  /\ page \in [Requests -> Answers \union {"unsent", "pending"}]
  /\ calls \in [Requests -> Call]
  /\ stored \in 0 .. LastPort
  /\ writers \in Seq(Requests)
  /\ listening \in [DaemonPorts -> {"daemon", "other", "nothing"}]
  /\ printed \in [Requests -> 0 .. 1]
  /\ moves \in 0 .. MaxMoves /\ losses \in 0 .. MaxLosses
  /\ calm \subseteq Requests

-----------------------------------------------------------------------------
(* What is printed.                                                        *)

BeforeCall == {"posted", "authorizing", "reading", "scanning", "remembering", "calling"}
Invalidation == {"invalidating", "removing"}

\* Where a request stands tells whether its bytes may have been accepted, and a
\* print never gets back from an invalidation to a call.
PrintInv(r) ==
  /\ op[r] # "print" => printed[r] = 0
  /\ page[r] = "unsent" => At(r, "idle") /\ printed[r] = 0
  /\ page[r] \notin {"unsent", "pending", "EXTENSION_UNAVAILABLE"} => At(r, "idle")
  /\ calls[r].step \in BeforeCall => printed[r] = 0
  /\ op[r] = "print" /\ calls[r].step \in Invalidation => calls[r].next = "replying"
  /\ At(r, "replying") =>
       /\ op[r] = "print" /\ calls[r].reply = "ok" => printed[r] = 1
       /\ calls[r].reply = "PRINTER_NOT_FOUND" => printed[r] = 0
       /\ calls[r].reply # "none"
  /\ op[r] = "print" /\ page[r] = "ok" => printed[r] = 1
  /\ page[r] = "PRINTER_NOT_FOUND" => printed[r] = 0

-----------------------------------------------------------------------------
(* Requests that nobody disturbs.                                          *)

Serves(p) == listening[p] = "daemon"

\* What a stored port that no server listens on is called here.
Outdated == stored # None /\ ~Serves(stored)

\* A request has its place in the write queue.
Waits(r) == \E i \in 1 .. Len(writers) : writers[i] = r

\* A call's port is one, what is to be written waits its turn, and a call that removes
\* the stored port heads the queue and compares what is still stored.
WriterInv(r) ==
  /\ calls[r].step \in {"scanning", "remembering", "calling", "invalidating", "removing"} =>
       calls[r].base # None
  /\ calls[r].step \in {"remembering", "invalidating", "removing"} =>
       Waits(r) /\ calls[r].next # "none"
  /\ At(r, "removing") =>
       writers # << >> /\ Head(writers) = r /\ calls[r].compared = stored
  /\ calls[r].step \in {"idle", "posted", "authorizing"} => ~calls[r].retried

\* While the server rests, what a request remembers is its port.
Rest ==
  /\ ServerRests /\ ~Misleading
  /\ \A r \in Requests : At(r, "remembering") => Serves(calls[r].base)

\* A calm list or health request ends at the server: a scan has it still before it,
\* and what is stored is outdated once at most.
CalmCall(r) ==
  /\ page[r] \notin {"unsent", "DAEMON_UNAVAILABLE", "false"}
  /\ At(r, "replying") => calls[r].reply \notin {"DAEMON_UNAVAILABLE", "false"}
  /\ op[r] # "print" =>
       /\ At(r, "scanning") => \E p \in DaemonPorts : calls[r].base <= p /\ Serves(p)
       /\ At(r, "calling") => listening[calls[r].base] # "other"
       /\ /\ calls[r].step \in {"calling", "invalidating", "removing"}
          /\ ~Serves(calls[r].base) /\ Outdated
          => stored = calls[r].base
       /\ op[r] = "list" =>
            /\ At(r, "reading") /\ calls[r].retried => ~Outdated
            /\ At(r, "calling") /\ calls[r].retried => Serves(calls[r].base)
            /\ At(r, "remembering") => calls[r].next = "calling"
       /\ calls[r].step \in Invalidation =>
            /\ ~Serves(calls[r].base)
            /\ calls[r].next = IF op[r] = "list" THEN "reading" ELSE "scanning"

CalmInv == calm # {} => Rest /\ \A r \in calm : CalmCall(r)

QInv ==
  /\ RequestTypeOK
  /\ \A r \in Requests : PrintInv(r) /\ WriterInv(r)
  /\ CalmInv

-----------------------------------------------------------------------------
LEMMA PortBounds == LastPort \in Nat /\ LastPort # 0 /\ MaxMoves \in Nat /\ MaxLosses \in Nat
BY RequestAssumption

LEMMA CallFields ==
  ASSUME NEW c \in Call
  PROVE  /\ c.step \in Steps /\ c.base \in 0 .. LastPort /\ c.retried \in BOOLEAN
         /\ c.compared \in 0 .. LastPort
         /\ c.next \in {"none", "replying", "calling", "scanning", "reading"}
         /\ c.reply \in Answers \union {"none"}
BY DEF Call

LEMMA IdleCall == Idle \in Call /\ Idle.step = "idle" /\ Idle.retried = FALSE
BY PortBounds DEF Idle, Call, None, Steps

LEMMA GoFields ==
  ASSUME RequestTypeOK, NEW r \in Requests, NEW s \in Steps, Go(r, s)
  PROVE  /\ calls' \in [Requests -> Call] /\ \A q \in Requests \ {r} : calls'[q] = calls[q]
         /\ calls'[r].step = s /\ calls'[r].base = calls[r].base
         /\ calls'[r].retried = calls[r].retried
BY DEF Go, RequestTypeOK, Call

LEMMA ReplyFields ==
  ASSUME RequestTypeOK, NEW r \in Requests, NEW reply \in Answers, Replies(r, reply)
  PROVE  /\ calls' \in [Requests -> Call] /\ \A q \in Requests \ {r} : calls'[q] = calls[q]
         /\ calls'[r].step = "replying" /\ calls'[r].reply = reply
<1> DEFINE d == [calls[r] EXCEPT !.step = "replying", !.reply = reply]
<1>1. calls \in [Requests -> Call] /\ calls[r] \in Call
  BY DEF RequestTypeOK
<1>2. d \in Call /\ d.step = "replying" /\ d.reply = reply
  BY <1>1 DEF Call, Steps
<1>3. calls' = [calls EXCEPT ![r] = d]
  BY DEF Replies
<1> HIDE DEF d
<1> QED BY <1>1, <1>2, <1>3

\* The queue goes on behind the one that holds it.
HeadKept ==
  /\ writers # << >> => writers' # << >> /\ Head(writers') = Head(writers)
  /\ \A q \in Requests : Waits(q) => Waits(q)'

LEMMA Queued ==
  ASSUME NEW r \in Requests, writers \in Seq(Requests), writers' = Append(writers, r)
  PROVE  writers' \in Seq(Requests) /\ HeadKept /\ Waits(r)'
<1>1. /\ writers' \in Seq(Requests) /\ Len(writers') = Len(writers) + 1 /\ Len(writers) \in Nat
      /\ writers'[Len(writers) + 1] = r
      /\ \A i \in 1 .. Len(writers) : writers'[i] = writers[i]
  OBVIOUS
<1>2. Waits(r)' /\ \A q \in Requests : Waits(q) => Waits(q)'
  BY <1>1 DEF Waits
<1>3. writers # << >> => writers' # << >> /\ Head(writers') = Head(writers)
  OBVIOUS
<1> QED BY <1>1, <1>2, <1>3 DEF HeadKept

\* The one that holds the queue leaves it.
LEMMA Served ==
  ASSUME NEW r \in Requests, writers \in Seq(Requests), Waits(r), Head(writers) = r,
         writers' = Tail(writers)
  PROVE  writers' \in Seq(Requests) /\ \A q \in Requests \ {r} : Waits(q) => Waits(q)'
<1>1. Len(writers) \in Nat /\ writers # << >> /\ writers[1] = r
  BY DEF Waits
<1>2. /\ writers' \in Seq(Requests) /\ Len(writers') = Len(writers) - 1
      /\ \A i \in 1 .. Len(writers) - 1 : writers'[i] = writers[i + 1]
  BY <1>1
<1>3. ASSUME NEW q \in Requests \ {r}, Waits(q) PROVE Waits(q)'
  <2>1. PICK i \in 1 .. Len(writers) : writers[i] = q
    BY <1>3 DEF Waits
  <2>2. i - 1 \in 1 .. Len(writers) - 1
    BY <1>1, <1>3, <2>1
  <2>3. writers'[i - 1] = q
    BY <1>1, <1>2, <2>1, <2>2
  <2> QED BY <1>2, <2>2, <2>3 DEF Waits
<1> QED BY <1>2, <1>3

LEMMA WriteFields ==
  ASSUME RequestTypeOK, NEW r \in Requests, NEW s \in Steps, NEW b \in 0 .. LastPort,
         NEW next \in {"replying", "calling", "scanning", "reading"}, Writes(r, s, b, next)
  PROVE  /\ calls' \in [Requests -> Call] /\ \A q \in Requests \ {r} : calls'[q] = calls[q]
         /\ calls'[r].step = s /\ calls'[r].base = b /\ calls'[r].next = next
         /\ calls'[r].retried = calls[r].retried
         /\ writers' \in Seq(Requests) /\ HeadKept /\ Waits(r)'
<1> DEFINE d == [calls[r] EXCEPT !.step = s, !.base = b, !.next = next]
<1>1. calls \in [Requests -> Call] /\ calls[r] \in Call /\ writers \in Seq(Requests)
  BY DEF RequestTypeOK
<1>2. /\ d \in Call /\ d.step = s /\ d.base = b /\ d.next = next
      /\ d.retried = calls[r].retried
  BY <1>1 DEF Call, Steps
<1>3. calls' = [calls EXCEPT ![r] = d] /\ writers' = Append(writers, r)
  BY DEF Writes
<1> HIDE DEF d
<1>4. writers' \in Seq(Requests) /\ HeadKept /\ Waits(r)'
  BY <1>1, <1>3, Queued
<1> QED BY <1>1, <1>2, <1>3, <1>4

-----------------------------------------------------------------------------
(* A step of one request, seen from the others.                            *)

OthersKept(r) ==
  /\ \A q \in Requests \ {r} : calls'[q] = calls[q] /\ page'[q] = page[q] /\ printed'[q] = printed[q]
  /\ UNCHANGED <<op, listening>>
  /\ calm' \subseteq calm

LEMMA CalmFacts ==
  ASSUME QInv, calm # {}
  PROVE  Rest /\ \A r \in calm : r \in Requests /\ CalmCall(r)
BY DEF QInv, CalmInv, RequestTypeOK

\* A step that leaves the stored port alone.
LEMMA OneRequest ==
  ASSUME QInv, NEW r \in Requests, OthersKept(r), HeadKept, UNCHANGED stored,
         RequestTypeOK', PrintInv(r)', WriterInv(r)',
         calm' # {} => (At(r, "remembering")' => Serves(calls'[r].base)),
         r \in calm' => CalmCall(r)'
  PROVE  QInv'
<1>1. \A q \in Requests \ {r} : PrintInv(q)' /\ WriterInv(q)'
  BY DEF QInv, PrintInv, WriterInv, OthersKept, HeadKept, At
<1>2. ASSUME calm' # {} PROVE Rest'
  BY <1>2, CalmFacts DEF Rest, OthersKept, ServerRests, Misleading, Serves, At
<1>3. ASSUME NEW q \in calm', q # r PROVE CalmCall(q)'
  <2>1. q \in Requests /\ q \in calm /\ CalmCall(q)
    BY <1>3, CalmFacts DEF OthersKept
  <2> QED BY <1>3, <2>1 DEF CalmCall, OthersKept, At, Serves, Outdated
<1> QED BY <1>1, <1>2, <1>3 DEF QInv, CalmInv

\* A step of the writer that heads the queue.
LEMMA WriterStep ==
  ASSUME QInv, NEW r \in Requests, OthersKept(r), Head(writers) = r,
         \A q \in Requests \ {r} : Waits(q) => Waits(q)',
         calm' # {} => stored' \in {stored, None} \/ (stored' # None /\ Serves(stored')),
         RequestTypeOK', PrintInv(r)', WriterInv(r)',
         calls'[r].step # "remembering",
         r \in calm' => CalmCall(r)'
  PROVE  QInv'
<1>1. \A q \in Requests \ {r} : PrintInv(q)' /\ WriterInv(q)'
  BY DEF QInv, PrintInv, WriterInv, OthersKept, At
<1>2. ASSUME calm' # {} PROVE Rest'
  BY <1>2, CalmFacts DEF Rest, OthersKept, ServerRests, Misleading, Serves, At
<1>3. ASSUME NEW q \in calm', q # r PROVE CalmCall(q)'
  <2>1. q \in Requests /\ q \in calm /\ CalmCall(q)
    BY <1>3, CalmFacts DEF OthersKept
  <2>2. Outdated' => Outdated /\ stored' = stored
    BY <1>3 DEF Outdated, Serves, OthersKept
  <2> QED BY <1>3, <2>1, <2>2 DEF CalmCall, OthersKept, At, Serves
<1> QED BY <1>1, <1>2, <1>3 DEF QInv, CalmInv

-----------------------------------------------------------------------------
(* The steps of a request.                                                 *)

LEMMA RequestFacts ==
  ASSUME QInv, NEW r \in Requests
  PROVE  /\ RequestTypeOK /\ PrintInv(r) /\ WriterInv(r)
         /\ calls[r] \in Call /\ calls[r].base \in 0 .. LastPort
         /\ calls \in [Requests -> Call] /\ page \in [Requests -> Answers \union {"unsent", "pending"}]
         /\ printed \in [Requests -> 0 .. 1] /\ writers \in Seq(Requests)
         /\ r \in calm => CalmCall(r)
BY CalmFacts DEF QInv, RequestTypeOK, Call

LEMMA SendStep == ASSUME QInv, NEW r \in Requests, Send(r) PROVE QInv'
<1>0. RequestTypeOK /\ PrintInv(r) /\ WriterInv(r) /\ "posted" \in Steps
  BY RequestFacts DEF Steps
<1>1. /\ page[r] = "unsent" /\ page' = [page EXCEPT ![r] = "pending"] /\ Go(r, "posted")
      /\ UNCHANGED <<op, stored, writers, listening, printed, moves, losses>>
  BY DEF Send
<1>2. /\ calls' \in [Requests -> Call] /\ \A q \in Requests \ {r} : calls'[q] = calls[q]
      /\ calls'[r].step = "posted" /\ calls'[r].retried = calls[r].retried
  BY <1>0, <1>1, GoFields
<1>3. page'[r] = "pending" /\ \A q \in Requests \ {r} : page'[q] = page[q]
  BY <1>0, <1>1 DEF RequestTypeOK
<1>4. RequestTypeOK'
  <2>1. page' \in [Requests -> Answers \union {"unsent", "pending"}]
    BY <1>0, <1>1 DEF RequestTypeOK
  <2>2. calm' \subseteq Requests
    BY <1>0 DEF RequestTypeOK, Send
  <2> QED BY <1>0, <1>1, <1>2, <2>1, <2>2 DEF RequestTypeOK
<1>5. PrintInv(r)'
  BY <1>0, <1>1, <1>2, <1>3 DEF PrintInv, At, BeforeCall, Invalidation
<1>6. WriterInv(r)'
  BY <1>0, <1>1, <1>2 DEF PrintInv, WriterInv, At
<1>7. CalmCall(r)'
  BY <1>2, <1>3 DEF CalmCall, At, Invalidation
<1>8. CASE calm' \subseteq calm
  BY <1>0, <1>1, <1>2, <1>3, <1>4, <1>5, <1>6, <1>7, <1>8, OneRequest DEF OthersKept, HeadKept, Waits, At
<1>9. CASE ~(calm' \subseteq calm)
  <2>1. UnderWay = {} /\ ServerRests /\ ~Misleading /\ calm' = calm \union {r}
    BY <1>9 DEF Send
  <2>2. \A q \in Requests : At(q, "idle")
    BY <2>1 DEF UnderWay, At
  <2>3. \A q \in Requests \ {r} : PrintInv(q)' /\ WriterInv(q)'
    BY <1>1, <1>2, <1>3, <2>2 DEF QInv, PrintInv, WriterInv, At
  <2>4. Rest'
    BY <1>1, <1>2, <2>1, <2>2 DEF Rest, ServerRests, Misleading, At
  <2>5. ASSUME NEW q \in calm, q # r PROVE CalmCall(q)'
    <3>1. q \in Requests /\ CalmCall(q)
      BY CalmFacts
    <3> QED BY <1>1, <1>2, <1>3, <2>2, <2>5, <3>1 DEF CalmCall, At, Invalidation
  <2> QED BY <1>4, <1>5, <1>6, <1>7, <2>1, <2>3, <2>4, <2>5 DEF QInv, CalmInv
<1> QED BY <1>8, <1>9

LEMMA TimeOutStep == ASSUME QInv, NEW r \in Requests, TimeOut(r) PROVE QInv'
<1>0. RequestTypeOK /\ PrintInv(r) /\ WriterInv(r) /\ (r \in calm => CalmCall(r))
  BY RequestFacts
<1>1. /\ page[r] = "pending" /\ page' = [page EXCEPT ![r] = "EXTENSION_UNAVAILABLE"]
      /\ losses < MaxLosses /\ losses' = losses + 1
      /\ UNCHANGED <<op, calls, stored, writers, listening, printed, moves, calm>>
  BY DEF TimeOut
<1>2. page'[r] = "EXTENSION_UNAVAILABLE" /\ \A q \in Requests \ {r} : page'[q] = page[q]
  BY <1>0, <1>1 DEF RequestTypeOK
<1>3. RequestTypeOK'
  BY <1>0, <1>1, PortBounds DEF RequestTypeOK, Answers
<1>4. PrintInv(r)' /\ (r \in calm' => CalmCall(r)')
  BY <1>0, <1>1, <1>2 DEF PrintInv, CalmCall, At, Outdated, Serves
<1>6. WriterInv(r)'
  BY <1>0, <1>1 DEF WriterInv, Waits, At
<1>5. calm' # {} => (At(r, "remembering")' => Serves(calls'[r].base))
  BY <1>1, CalmFacts DEF Rest, At
<1> QED BY <1>1, <1>2, <1>3, <1>4, <1>5, <1>6, OneRequest DEF OthersKept, HeadKept, Waits

LEMMA ReceiveStep == ASSUME QInv, NEW r \in Requests, Receive(r) PROVE QInv'
<1>0. RequestTypeOK /\ PrintInv(r) /\ WriterInv(r) /\ (r \in calm => CalmCall(r))
      /\ calls[r] \in Call
  BY RequestFacts
<1>1. /\ At(r, "replying") /\ calls' = [calls EXCEPT ![r] = Idle]
      /\ page' = [page EXCEPT ![r] = IF @ = "pending" THEN calls[r].reply ELSE @]
      /\ UNCHANGED <<op, stored, writers, listening, printed, moves, losses, calm>>
  BY DEF Receive
<1>2. /\ page'[r] = (IF page[r] = "pending" THEN calls[r].reply ELSE page[r])
      /\ \A q \in Requests \ {r} : page'[q] = page[q]
      /\ calls'[r] = Idle /\ \A q \in Requests \ {r} : calls'[q] = calls[q]
  BY <1>0, <1>1 DEF RequestTypeOK
<1>3. calls[r].reply \in Answers
  BY <1>0, <1>1, CallFields DEF PrintInv
<1>4. RequestTypeOK'
  BY <1>0, <1>1, <1>3, IdleCall DEF RequestTypeOK
<1>5. PrintInv(r)'
  BY <1>0, <1>1, <1>2, <1>3, IdleCall DEF PrintInv, At, BeforeCall, Invalidation, Answers
<1>6. WriterInv(r)' /\ (r \in calm' => CalmCall(r)')
  BY <1>0, <1>1, <1>2, <1>3, IdleCall DEF WriterInv, CalmCall, At, Invalidation, Answers
<1> QED BY <1>1, <1>2, <1>4, <1>5, <1>6, IdleCall, OneRequest DEF OthersKept, HeadKept, Waits, At

LEMMA ForwardStep == ASSUME QInv, NEW r \in Requests, Forward(r) PROVE QInv'
<1>0. RequestTypeOK /\ PrintInv(r) /\ WriterInv(r) /\ (r \in calm => CalmCall(r))
  BY RequestFacts
<1>1. /\ At(r, "posted") /\ UNCHANGED <<op, page, stored, writers, listening, printed, moves, calm>>
      /\ losses' \in 0 .. MaxLosses
  BY <1>0, PortBounds DEF Forward, RequestTypeOK
<1>2. CASE Go(r, "authorizing")
  <2>1. /\ calls' \in [Requests -> Call] /\ \A q \in Requests \ {r} : calls'[q] = calls[q]
        /\ calls'[r].step = "authorizing" /\ calls'[r].retried = calls[r].retried
    BY <1>0, <1>2, GoFields DEF Steps
  <2>2. RequestTypeOK' /\ PrintInv(r)' /\ WriterInv(r)' /\ (r \in calm' => CalmCall(r)')
    BY <1>0, <1>1, <2>1 DEF RequestTypeOK, PrintInv, WriterInv, CalmCall, At, BeforeCall, Invalidation
  <2> QED BY <1>1, <2>1, <2>2, OneRequest DEF OthersKept, HeadKept, Waits, At
<1>3. CASE Replies(r, "EXTENSION_UNAVAILABLE")
  <2>1. /\ calls' \in [Requests -> Call] /\ \A q \in Requests \ {r} : calls'[q] = calls[q]
        /\ calls'[r].step = "replying" /\ calls'[r].reply = "EXTENSION_UNAVAILABLE"
    BY <1>0, <1>3, ReplyFields DEF Answers
  <2>2. RequestTypeOK' /\ PrintInv(r)' /\ WriterInv(r)' /\ (r \in calm' => CalmCall(r)')
    BY <1>0, <1>1, <2>1 DEF RequestTypeOK, PrintInv, WriterInv, CalmCall, At, BeforeCall, Invalidation
  <2> QED BY <1>1, <2>1, <2>2, OneRequest DEF OthersKept, HeadKept, Waits, At
<1> QED BY <1>2, <1>3 DEF Forward

LEMMA AuthorizeStep == ASSUME QInv, NEW r \in Requests, Authorize(r) PROVE QInv'
<1>0. RequestTypeOK /\ PrintInv(r) /\ WriterInv(r) /\ (r \in calm => CalmCall(r))
  BY RequestFacts
<1>1. /\ At(r, "authorizing")
      /\ UNCHANGED <<op, page, stored, writers, listening, printed, moves, losses, calm>>
  BY DEF Authorize
<1>2. CASE Go(r, "reading")
  <2>1. /\ calls' \in [Requests -> Call] /\ \A q \in Requests \ {r} : calls'[q] = calls[q]
        /\ calls'[r].step = "reading" /\ calls'[r].retried = calls[r].retried
    BY <1>0, <1>2, GoFields DEF Steps
  <2>2. RequestTypeOK' /\ PrintInv(r)' /\ WriterInv(r)' /\ (r \in calm' => CalmCall(r)')
    BY <1>0, <1>1, <2>1 DEF RequestTypeOK, PrintInv, WriterInv, CalmCall, At, BeforeCall, Invalidation
  <2> QED BY <1>1, <2>1, <2>2, OneRequest DEF OthersKept, HeadKept, Waits, At
<1>3. ASSUME NEW refusal \in {"ORIGIN_NOT_GRANTED", "PROTOCOL_MISMATCH"}, Replies(r, refusal)
      PROVE  QInv'
  <2>1. /\ calls' \in [Requests -> Call] /\ \A q \in Requests \ {r} : calls'[q] = calls[q]
        /\ calls'[r].step = "replying" /\ calls'[r].reply = refusal
    BY <1>0, <1>3, ReplyFields DEF Answers
  <2>2. RequestTypeOK' /\ PrintInv(r)' /\ WriterInv(r)' /\ (r \in calm' => CalmCall(r)')
    BY <1>0, <1>1, <2>1 DEF RequestTypeOK, PrintInv, WriterInv, CalmCall, At, BeforeCall, Invalidation
  <2> QED BY <1>1, <2>1, <2>2, OneRequest DEF OthersKept, HeadKept, Waits, At
<1> QED BY <1>2, <1>3 DEF Authorize

LEMMA ReadPortStep == ASSUME QInv, NEW r \in Requests, ReadPort(r) PROVE QInv'
<1>0. RequestTypeOK /\ PrintInv(r) /\ WriterInv(r) /\ (r \in calm => CalmCall(r))
      /\ calls[r] \in Call /\ stored \in 0 .. LastPort
  BY RequestFacts DEF RequestTypeOK
<1> DEFINE s == IF stored = None THEN "scanning" ELSE "calling"
           b == IF stored = None THEN 1 ELSE stored
           d == [calls[r] EXCEPT !.step = s, !.base = b]
<1>1. /\ At(r, "reading") /\ calls' = [calls EXCEPT ![r] = d]
      /\ UNCHANGED <<op, page, stored, writers, listening, printed, moves, losses, calm>>
  BY DEF ReadPort
<1>2. s \in Steps /\ b \in 0 .. LastPort /\ b # None
  BY <1>0, PortBounds DEF Steps, None
<1>3. /\ s = IF stored = None THEN "scanning" ELSE "calling"
      /\ b = IF stored = None THEN 1 ELSE stored
  OBVIOUS
<1> HIDE DEF s, b
<1>4. d \in Call /\ d.step = s /\ d.base = b /\ d.retried = calls[r].retried
  BY <1>0, <1>2 DEF Call
<1> HIDE DEF d
<1>5. /\ calls' \in [Requests -> Call] /\ \A q \in Requests \ {r} : calls'[q] = calls[q]
      /\ calls'[r] = d
  BY <1>0, <1>1, <1>4 DEF RequestTypeOK
<1>6. RequestTypeOK' /\ PrintInv(r)' /\ WriterInv(r)'
  BY <1>0, <1>1, <1>2, <1>3, <1>4, <1>5
     DEF RequestTypeOK, PrintInv, WriterInv, At, BeforeCall, Invalidation
<1>7. ASSUME r \in calm PROVE CalmCall(r)'
  <2>1. ServerRests /\ ~Misleading /\ CalmCall(r)
    BY <1>0, <1>7, CalmFacts DEF Rest
  <2>2. s = "scanning" => \E p \in DaemonPorts : b <= p /\ Serves(p)
    BY <1>3, <2>1 DEF ServerRests, Serves, DaemonPorts
  <2>3. s = "calling" => b = stored /\ stored # None /\ listening[b] # "other"
    BY <1>3, <2>1 DEF Misleading
  <2> QED BY <1>1, <1>2, <1>3, <1>4, <1>5, <2>1, <2>2, <2>3
          DEF CalmCall, At, Invalidation, Outdated, Serves
<1> QED BY <1>1, <1>3, <1>4, <1>5, <1>6, <1>7, OneRequest DEF OthersKept, HeadKept, Waits, At

LEMMA ProbeStep == ASSUME QInv, NEW r \in Requests, Probe(r) PROVE QInv'
<1> DEFINE b == calls[r].base
           next == IF op[r] = "health" THEN "replying" ELSE "calling"
<1>0. RequestTypeOK /\ PrintInv(r) /\ WriterInv(r) /\ (r \in calm => CalmCall(r))
      /\ calls[r] \in Call /\ b \in 0 .. LastPort
  BY RequestFacts
<1>1. /\ At(r, "scanning")
      /\ UNCHANGED <<op, page, stored, listening, printed, moves, losses, calm>>
      /\ op[r] \in {"health", "list", "print"}
  BY <1>0 DEF Probe, RequestTypeOK
<1>2. b # None /\ b \in DaemonPorts
  BY <1>0, <1>1 DEF WriterInv, At, None, DaemonPorts
<1>3. CASE Serves(b) /\ Writes(r, "remembering", b, next)
  <2>1. next \in {"replying", "calling", "scanning", "reading"} /\ "remembering" \in Steps
    BY DEF Steps
  <2> HIDE DEF next
  <2>2. /\ calls' \in [Requests -> Call] /\ \A q \in Requests \ {r} : calls'[q] = calls[q]
        /\ calls'[r].step = "remembering" /\ calls'[r].base = b /\ calls'[r].next = next
        /\ calls'[r].retried = calls[r].retried
        /\ writers' \in Seq(Requests) /\ HeadKept /\ Waits(r)'
    BY <1>0, <1>3, <2>1, WriteFields
  <2>3. RequestTypeOK' /\ PrintInv(r)'
    BY <1>0, <1>1, <1>2, <2>2 DEF RequestTypeOK, PrintInv, At, BeforeCall, Invalidation
  <2>6. WriterInv(r)'
    BY <1>2, <2>1, <2>2 DEF WriterInv, At
  <2>4. r \in calm' => CalmCall(r)'
    BY <1>0, <1>1, <1>3, <2>2 DEF CalmCall, At, Invalidation, Serves, next
  <2>5. Serves(calls'[r].base)
    BY <1>1, <1>3, <2>2 DEF Serves
  <2> QED BY <1>1, <1>3, <2>2, <2>3, <2>4, <2>5, <2>6, OneRequest DEF OthersKept
<1>4. CASE /\ ~Serves(b) /\ b < LastPort /\ UNCHANGED writers
           /\ calls' = [calls EXCEPT ![r].base = b + 1]
  <2> DEFINE d == [calls[r] EXCEPT !.base = b + 1]
  <2>1. b + 1 \in 0 .. LastPort /\ b + 1 # None
    BY <1>0, <1>4, PortBounds DEF None
  <2>2. d \in Call /\ d.step = calls[r].step /\ d.base = b + 1 /\ d.retried = calls[r].retried
        /\ d.next = calls[r].next
    BY <1>0, <2>1 DEF Call
  <2>3. calls' = [calls EXCEPT ![r] = d]
    BY <1>4
  <2> HIDE DEF d
  <2>4. /\ calls' \in [Requests -> Call] /\ \A q \in Requests \ {r} : calls'[q] = calls[q]
        /\ calls'[r] = d
    BY <1>0, <2>2, <2>3 DEF RequestTypeOK
  <2>5. RequestTypeOK' /\ PrintInv(r)' /\ WriterInv(r)'
    BY <1>0, <1>1, <1>4, <2>1, <2>2, <2>4
       DEF RequestTypeOK, PrintInv, WriterInv, At, BeforeCall, Invalidation
  <2>6. (\E p \in DaemonPorts : b <= p /\ Serves(p)) => \E p \in DaemonPorts : b + 1 <= p /\ Serves(p)
    BY <1>0, <1>4 DEF DaemonPorts
  <2>7. r \in calm' => CalmCall(r)'
    BY <1>0, <1>1, <2>2, <2>4, <2>6 DEF CalmCall, At, Invalidation, Serves
  <2> QED BY <1>1, <1>4, <2>2, <2>4, <2>5, <2>7, OneRequest DEF OthersKept, HeadKept, Waits, At
<1>5. CASE ~Serves(b) /\ b = LastPort /\ Replies(r, Unavailable(r)) /\ UNCHANGED writers
  <2>1. Unavailable(r) \in Answers /\ Unavailable(r) \notin {"ok", "PRINTER_NOT_FOUND", "none"}
        /\ (op[r] = "print" => Unavailable(r) = "PRINT_FAILED")
    BY <1>1 DEF Unavailable, Answers
  <2>2. /\ calls' \in [Requests -> Call] /\ \A q \in Requests \ {r} : calls'[q] = calls[q]
        /\ calls'[r].step = "replying" /\ calls'[r].reply = Unavailable(r)
    BY <1>0, <1>5, <2>1, ReplyFields
  <2>3. RequestTypeOK' /\ PrintInv(r)' /\ WriterInv(r)'
    BY <1>0, <1>1, <1>5, <2>1, <2>2
       DEF RequestTypeOK, PrintInv, WriterInv, At, BeforeCall, Invalidation
  <2>4. r \in calm => op[r] = "print"
    BY <1>0, <1>1, <1>5, PortBounds DEF CalmCall, DaemonPorts
  <2>5. r \in calm' => CalmCall(r)'
    BY <1>0, <1>1, <2>1, <2>2, <2>4 DEF CalmCall, At, Invalidation
  <2> QED BY <1>1, <1>5, <2>2, <2>3, <2>5, OneRequest DEF OthersKept, HeadKept, Waits, At
<1> QED BY <1>3, <1>4, <1>5 DEF Probe, Serves

LEMMA RememberStep == ASSUME QInv, NEW r \in Requests, Remember(r) PROVE QInv'
<1> DEFINE b == calls[r].base
           s == calls[r].next
           reply == IF s = "replying" THEN "true" ELSE calls[r].reply
           d == [calls[r] EXCEPT !.step = s, !.reply = reply]
<1>0. /\ RequestTypeOK /\ PrintInv(r) /\ WriterInv(r) /\ (r \in calm => CalmCall(r))
      /\ calls[r] \in Call /\ b \in 0 .. LastPort /\ writers \in Seq(Requests)
  BY RequestFacts
<1>1. /\ At(r, "remembering") /\ Head(writers) = r /\ stored' = b /\ writers' = Tail(writers)
      /\ calls' = [calls EXCEPT ![r] = d]
      /\ UNCHANGED <<op, page, listening, printed, moves, losses, calm>>
  BY DEF Remember
<1>2. b # None /\ Waits(r) /\ s \in {"replying", "calling", "scanning", "reading"}
  BY <1>0, <1>1, CallFields DEF WriterInv, At
<1>3. writers' \in Seq(Requests) /\ \A q \in Requests \ {r} : Waits(q) => Waits(q)'
  BY <1>0, <1>1, <1>2, Served
<1>4. s \in Steps /\ reply \in Answers \union {"none"} /\ (s = "replying" => reply = "true")
  BY <1>0, <1>2, CallFields DEF Steps, Answers
<1> HIDE DEF reply
<1>5. /\ d \in Call /\ d.step = s /\ d.base = b /\ d.retried = calls[r].retried
      /\ d.reply = reply
  BY <1>0, <1>4 DEF Call
<1> HIDE DEF d
<1>6. /\ calls' \in [Requests -> Call] /\ \A q \in Requests \ {r} : calls'[q] = calls[q]
      /\ calls'[r] = d
  BY <1>0, <1>1, <1>5 DEF RequestTypeOK
<1>7. RequestTypeOK'
  BY <1>0, <1>1, <1>3, <1>6 DEF RequestTypeOK
<1>8. PrintInv(r)'
  BY <1>0, <1>1, <1>2, <1>4, <1>5, <1>6 DEF PrintInv, At, BeforeCall, Invalidation
<1>9. WriterInv(r)'
  BY <1>0, <1>2, <1>5, <1>6 DEF WriterInv, At
<1>10. ASSUME calm' # {} PROVE stored' # None /\ Serves(stored') /\ ServerRests
  BY <1>1, <1>2, <1>10, CalmFacts DEF Rest
<1>11. ASSUME r \in calm' PROVE CalmCall(r)'
  <2>1. CalmCall(r) /\ Serves(b) /\ b \in DaemonPorts
    BY <1>0, <1>1, <1>2, <1>10, <1>11 DEF DaemonPorts, None
  <2>2. /\ page'[r] \notin {"unsent", "DAEMON_UNAVAILABLE", "false"}
        /\ At(r, "replying")' => calls'[r].reply \notin {"DAEMON_UNAVAILABLE", "false"}
    BY <1>1, <1>4, <1>5, <1>6, <2>1 DEF CalmCall, At
  <2>3. op[r] = "list" => s = "calling"
    BY <1>1, <2>1 DEF CalmCall
  <2>4. \E p \in DaemonPorts : b <= p /\ Serves(p)
    BY <1>0, <2>1
  <2> QED BY <1>1, <1>2, <1>5, <1>6, <2>1, <2>2, <2>3, <2>4
          DEF CalmCall, At, Invalidation, Serves, Outdated
<1>12. d.step # "remembering"
  BY <1>2, <1>5
<1> QED BY <1>1, <1>3, <1>5, <1>6, <1>7, <1>8, <1>9, <1>10, <1>11, <1>12, WriterStep DEF OthersKept

LEMMA CompareStoredStep == ASSUME QInv, NEW r \in Requests, CompareStored(r) PROVE QInv'
<1> DEFINE d == [calls[r] EXCEPT !.step = "removing", !.compared = stored]
<1>0. /\ RequestTypeOK /\ PrintInv(r) /\ WriterInv(r) /\ (r \in calm => CalmCall(r))
      /\ calls[r] \in Call /\ stored \in 0 .. LastPort
  BY RequestFacts DEF RequestTypeOK
<1>1. /\ At(r, "invalidating") /\ Head(writers) = r /\ calls' = [calls EXCEPT ![r] = d]
      /\ UNCHANGED <<op, page, stored, writers, listening, printed, moves, losses, calm>>
  BY DEF CompareStored
<1>2. /\ d \in Call /\ d.step = "removing" /\ d.compared = stored /\ d.base = calls[r].base
      /\ d.next = calls[r].next /\ d.retried = calls[r].retried
  BY <1>0 DEF Call, Steps
<1> HIDE DEF d
<1>3. /\ calls' \in [Requests -> Call] /\ \A q \in Requests \ {r} : calls'[q] = calls[q]
      /\ calls'[r] = d
  BY <1>0, <1>1, <1>2 DEF RequestTypeOK
<1>4. RequestTypeOK' /\ PrintInv(r)'
  BY <1>0, <1>1, <1>2, <1>3 DEF RequestTypeOK, PrintInv, At, BeforeCall, Invalidation
<1>5. WriterInv(r)'
  <2>1. Waits(r) /\ writers # << >> /\ calls[r].base # None /\ calls[r].next # "none"
    BY <1>0, <1>1 DEF WriterInv, At, Waits
  <2> QED BY <1>1, <1>2, <1>3, <2>1 DEF WriterInv, At, Waits
<1>6. r \in calm' => CalmCall(r)'
  BY <1>0, <1>1, <1>2, <1>3 DEF CalmCall, At, Invalidation, Serves, Outdated
<1> QED BY <1>1, <1>2, <1>3, <1>4, <1>5, <1>6, OneRequest DEF OthersKept, HeadKept, Waits, At

LEMMA RemoveStoredStep == ASSUME QInv, NEW r \in Requests, RemoveStored(r) PROVE QInv'
<1> DEFINE s == calls[r].next
           b == IF s = "scanning" THEN 1 ELSE calls[r].base
           reply == IF s = "replying" THEN Unavailable(r) ELSE calls[r].reply
           d == [calls[r] EXCEPT !.step = s, !.compared = None, !.base = b, !.reply = reply]
<1>0. /\ RequestTypeOK /\ PrintInv(r) /\ WriterInv(r) /\ (r \in calm => CalmCall(r))
      /\ calls[r] \in Call /\ stored \in 0 .. LastPort /\ writers \in Seq(Requests)
      /\ op[r] \in {"health", "list", "print"} /\ calls[r].base \in 0 .. LastPort
  BY RequestFacts DEF RequestTypeOK
<1>1. /\ At(r, "removing") /\ writers' = Tail(writers)
      /\ stored' = IF calls[r].compared = calls[r].base THEN None ELSE stored
      /\ calls' = [calls EXCEPT ![r] = d]
      /\ UNCHANGED <<op, page, listening, printed, moves, losses, calm>>
  BY DEF RemoveStored, Forgets
<1>2. /\ calls[r].base # None /\ Waits(r) /\ Head(writers) = r /\ calls[r].compared = stored
      /\ s \in {"replying", "calling", "scanning", "reading"}
  BY <1>0, <1>1, CallFields DEF WriterInv, At
<1>3. writers' \in Seq(Requests) /\ \A q \in Requests \ {r} : Waits(q) => Waits(q)'
  BY <1>0, <1>1, <1>2, Served
<1>4. /\ Unavailable(r) \in Answers /\ Unavailable(r) \notin {"ok", "PRINTER_NOT_FOUND", "none"}
      /\ op[r] = "print" => Unavailable(r) = "PRINT_FAILED"
  BY <1>0 DEF Unavailable, Answers
<1>5. /\ s \in Steps /\ reply \in Answers \union {"none"} /\ b \in 0 .. LastPort /\ b # None
      /\ s = "replying" => reply = Unavailable(r)
      /\ s # "scanning" => b = calls[r].base
      /\ s = "scanning" => b = 1
  BY <1>0, <1>2, <1>4, CallFields, PortBounds DEF Steps, None
<1>6. None \in 0 .. LastPort
  BY PortBounds DEF None
<1> HIDE DEF reply, b
<1>7. /\ d \in Call /\ d.step = s /\ d.base = b /\ d.retried = calls[r].retried
      /\ d.reply = reply
  BY <1>0, <1>5, <1>6 DEF Call
<1> HIDE DEF d
<1>8. /\ calls' \in [Requests -> Call] /\ \A q \in Requests \ {r} : calls'[q] = calls[q]
      /\ calls'[r] = d
  BY <1>0, <1>1, <1>7 DEF RequestTypeOK
<1>9. stored' \in {stored, None} /\ (stored' # None => stored # calls[r].base)
  BY <1>1, <1>2
<1>10. RequestTypeOK'
  BY <1>0, <1>1, <1>3, <1>6, <1>8, <1>9 DEF RequestTypeOK
<1>11. PrintInv(r)'
  BY <1>0, <1>1, <1>2, <1>4, <1>5, <1>7, <1>8 DEF PrintInv, At, BeforeCall, Invalidation
<1>12. WriterInv(r)'
  BY <1>0, <1>2, <1>5, <1>7, <1>8 DEF WriterInv, At
<1>13. ASSUME r \in calm' PROVE CalmCall(r)'
  <2>1. CalmCall(r) /\ ServerRests
    BY <1>0, <1>1, <1>13, CalmFacts DEF Rest
  <2>2. CASE op[r] = "print"
    BY <1>1, <1>2, <1>4, <1>5, <1>7, <1>8, <2>1, <2>2 DEF CalmCall, At
  <2>3. CASE op[r] = "list"
    <3>1. s = "reading" /\ ~Serves(calls[r].base)
      BY <1>1, <2>1, <2>3 DEF CalmCall, At, Invalidation
    <3>2. ~Outdated'
      BY <1>1, <1>9, <2>1, <2>3, <3>1 DEF CalmCall, At, Outdated, Serves
    <3> QED BY <1>1, <1>7, <1>8, <2>1, <2>3, <3>1, <3>2 DEF CalmCall, At, Invalidation
  <2>4. CASE op[r] = "health"
    <3>1. s = "scanning" /\ b = 1
      BY <1>1, <1>5, <2>1, <2>4 DEF CalmCall, At, Invalidation
    <3>2. \E p \in DaemonPorts : b <= p /\ Serves(p)
      BY <2>1, <3>1 DEF ServerRests, Serves, DaemonPorts
    <3> QED BY <1>1, <1>7, <1>8, <2>1, <2>4, <3>1, <3>2 DEF CalmCall, At, Invalidation, Serves
  <2> QED BY <1>0, <2>2, <2>3, <2>4
<1>14. d.step # "remembering"
  BY <1>2, <1>7
<1> QED BY <1>1, <1>2, <1>3, <1>7, <1>8, <1>9, <1>10, <1>11, <1>12, <1>13, <1>14, WriterStep
        DEF OthersKept

-----------------------------------------------------------------------------
(* The calls.                                                              *)

LEMMA CallFacts ==
  ASSUME QInv, NEW r \in Requests, At(r, "calling")
  PROVE  /\ calls[r].base \in 0 .. LastPort /\ calls[r].base # None
         /\ calls[r].base \in DaemonPorts /\ printed[r] = 0
         /\ page[r] \in {"pending", "EXTENSION_UNAVAILABLE"}
<1>1. /\ RequestTypeOK /\ PrintInv(r) /\ WriterInv(r)
      /\ calls[r].base \in 0 .. LastPort
  BY RequestFacts
<1>2. calls[r].base # None /\ printed[r] = 0
  BY <1>1 DEF WriterInv, PrintInv, At, BeforeCall
<1>3. page[r] \in {"pending", "EXTENSION_UNAVAILABLE"}
  BY <1>1 DEF PrintInv, At
<1> QED BY <1>1, <1>2, <1>3, PortBounds DEF DaemonPorts, None

\* A call is answered, or what it found wrong is to be written.
LEMMA AnsweredCall ==
  ASSUME QInv, NEW r \in Requests, At(r, "calling"), NEW reply \in Answers, Replies(r, reply),
         UNCHANGED <<op, page, stored, writers, listening, moves, losses, calm>>,
         printed' \in [Requests -> 0 .. 1], \A q \in Requests \ {r} : printed'[q] = printed[q],
         op[r] # "print" => printed'[r] = 0,
         op[r] = "print" /\ reply = "ok" => printed'[r] = 1,
         reply = "PRINTER_NOT_FOUND" => printed'[r] = 0,
         r \in calm => reply \notin {"DAEMON_UNAVAILABLE", "false"}
  PROVE  QInv'
<1>0. RequestTypeOK /\ PrintInv(r) /\ WriterInv(r) /\ (r \in calm => CalmCall(r))
  BY RequestFacts
<1>1. page[r] \in {"pending", "EXTENSION_UNAVAILABLE"}
  BY CallFacts
<1>2. /\ calls' \in [Requests -> Call] /\ \A q \in Requests \ {r} : calls'[q] = calls[q]
      /\ calls'[r].step = "replying" /\ calls'[r].reply = reply
  BY <1>0, ReplyFields
<1>3. RequestTypeOK' /\ WriterInv(r)'
  BY <1>0, <1>2 DEF RequestTypeOK, WriterInv, At
<1>4. reply # "none"
  BY DEF Answers
<1>5. PrintInv(r)'
  BY <1>1, <1>2, <1>4 DEF PrintInv, At, BeforeCall, Invalidation
<1>6. r \in calm' => CalmCall(r)'
  BY <1>0, <1>1, <1>2 DEF CalmCall, At, Invalidation
<1> QED BY <1>2, <1>3, <1>5, <1>6, OneRequest DEF OthersKept, HeadKept, Waits, At

LEMMA BrokenCall ==
  ASSUME QInv, NEW r \in Requests, At(r, "calling"),
         NEW next \in {"replying", "calling", "scanning", "reading"},
         calls' \in [Requests -> Call], \A q \in Requests \ {r} : calls'[q] = calls[q],
         calls'[r].step = "invalidating", calls'[r].base = calls[r].base, calls'[r].next = next,
         writers' \in Seq(Requests), HeadKept, Waits(r)',
         UNCHANGED <<op, page, stored, listening, moves>>, losses' \in 0 .. MaxLosses,
         calm' \subseteq calm,
         printed' \in [Requests -> 0 .. 1], \A q \in Requests \ {r} : printed'[q] = printed[q],
         op[r] # "print" => printed'[r] = 0,
         op[r] = "print" => next = "replying",
         r \in calm' /\ op[r] # "print" =>
           ~Serves(calls[r].base) /\ next = (IF op[r] = "list" THEN "reading" ELSE "scanning")
  PROVE  QInv'
<1>0. RequestTypeOK /\ PrintInv(r) /\ WriterInv(r) /\ (r \in calm => CalmCall(r))
  BY RequestFacts
<1>1. page[r] \in {"pending", "EXTENSION_UNAVAILABLE"} /\ calls[r].base # None
  BY CallFacts
<1>2. RequestTypeOK'
  BY <1>0 DEF RequestTypeOK
<1>3. PrintInv(r)'
  BY <1>1 DEF PrintInv, At, BeforeCall, Invalidation
<1>4. WriterInv(r)'
  BY <1>1 DEF WriterInv, At
<1>5. r \in calm' => CalmCall(r)'
  BY <1>0, <1>1 DEF CalmCall, At, Invalidation, Serves, Outdated
<1> QED BY <1>2, <1>3, <1>4, <1>5, OneRequest DEF OthersKept, At

\* What a lost answer costs: one of the losses, and the calm.
LEMMA LossFacts ==
  ASSUME RequestTypeOK, NEW r \in Requests, NEW b, Breaks(b) \/ Loses(b), Lost(r, b), Uncalm(r, b)
  PROVE  /\ losses' \in 0 .. MaxLosses /\ calm' \subseteq calm
         /\ r \in calm' => ~Serves(b)
BY PortBounds DEF RequestTypeOK, Breaks, Loses, Lost, Uncalm, Serves

LEMMA CallHealthStep == ASSUME QInv, NEW r \in Requests, CallHealth(r) PROVE QInv'
<1> DEFINE b == calls[r].base
<1>0. /\ RequestTypeOK /\ (r \in calm => CalmCall(r)) /\ b \in 0 .. LastPort
      /\ printed \in [Requests -> 0 .. 1]
  BY RequestFacts
<1>1. /\ At(r, "calling") /\ op[r] = "health"
      /\ UNCHANGED <<op, page, stored, listening, printed, moves>>
  BY DEF CallHealth
<1>2. printed[r] = 0
  BY <1>1, CallFacts
<1>3. CASE Ok(b) /\ Replies(r, "true") /\ UNCHANGED <<writers, losses, calm>>
  <2>1. "true" \in Answers
    BY DEF Answers
  <2> QED BY <1>0, <1>1, <1>2, <1>3, <2>1, AnsweredCall
<1>4. CASE listening[b] = "other" /\ Invalidates(r, "replying") /\ UNCHANGED <<losses, calm>>
  <2>1. r \notin calm
    BY <1>0, <1>1, <1>4 DEF CalmCall
  <2>2. Writes(r, "invalidating", b, "replying") /\ "invalidating" \in Steps
    BY <1>4 DEF Invalidates, Steps
  <2>3. losses' \in 0 .. MaxLosses
    BY <1>0, <1>4 DEF RequestTypeOK
  <2> QED BY <1>0, <1>1, <1>2, <1>4, <2>1, <2>2, <2>3, WriteFields, BrokenCall
<1>5. CASE /\ Breaks(b) \/ Loses(b)
           /\ Lost(r, b) /\ Uncalm(r, b) /\ Invalidates(r, "scanning")
  <2>1. Writes(r, "invalidating", b, "scanning") /\ "invalidating" \in Steps
    BY <1>5 DEF Invalidates, Steps
  <2>2. losses' \in 0 .. MaxLosses /\ calm' \subseteq calm /\ (r \in calm' => ~Serves(b))
    BY <1>0, <1>5, LossFacts
  <2> QED BY <1>0, <1>1, <1>2, <2>1, <2>2, WriteFields, BrokenCall
<1> QED BY <1>3, <1>4, <1>5 DEF CallHealth

LEMMA CallListStep == ASSUME QInv, NEW r \in Requests, CallList(r) PROVE QInv'
<1> DEFINE b == calls[r].base
           d == [calls[r] EXCEPT !.step = "invalidating", !.retried = TRUE, !.next = AfterBreak(r)]
<1>0. /\ RequestTypeOK /\ (r \in calm => CalmCall(r)) /\ calls[r] \in Call
      /\ printed \in [Requests -> 0 .. 1] /\ writers \in Seq(Requests)
  BY RequestFacts
<1>1. /\ At(r, "calling") /\ op[r] = "list"
      /\ UNCHANGED <<op, page, stored, listening, printed, moves>>
  BY DEF CallList
<1>2. printed[r] = 0
  BY <1>1, CallFacts
<1>3. CASE Ok(b) /\ Replies(r, "ok") /\ UNCHANGED <<writers, losses, calm>>
  <2>1. "ok" \in Answers
    BY DEF Answers
  <2> QED BY <1>0, <1>1, <1>2, <1>3, <2>1, AnsweredCall
<1>4. CASE /\ listening[b] = "other" /\ Replies(r, "DAEMON_UNAVAILABLE")
           /\ UNCHANGED <<writers, losses, calm>>
  <2>1. r \notin calm
    BY <1>0, <1>1, <1>4 DEF CalmCall
  <2>2. "DAEMON_UNAVAILABLE" \in Answers
    BY DEF Answers
  <2> QED BY <1>0, <1>1, <1>2, <1>4, <2>1, <2>2, AnsweredCall
<1>5. CASE /\ Breaks(b) \/ Loses(b)
           /\ Lost(r, b) /\ Uncalm(r, b)
           /\ calls' = [calls EXCEPT ![r] = d] /\ writers' = Append(writers, r)
  <2>1. AfterBreak(r) \in {"replying", "reading"}
    BY DEF AfterBreak
  <2>2. /\ d \in Call /\ d.step = "invalidating" /\ d.base = b /\ d.next = AfterBreak(r)
    BY <1>0, <2>1 DEF Call, Steps
  <2> HIDE DEF d
  <2>3. /\ calls' \in [Requests -> Call] /\ \A q \in Requests \ {r} : calls'[q] = calls[q]
        /\ calls'[r].step = "invalidating" /\ calls'[r].base = b
        /\ calls'[r].next = AfterBreak(r)
    BY <1>0, <1>5, <2>2 DEF RequestTypeOK
  <2>4. losses' \in 0 .. MaxLosses /\ calm' \subseteq calm /\ (r \in calm' => ~Serves(b))
    BY <1>0, <1>5, LossFacts
  <2>5. r \in calm' => AfterBreak(r) = "reading"
    BY <1>0, <1>1, <2>4 DEF CalmCall, AfterBreak
  <2>6. writers' \in Seq(Requests) /\ HeadKept /\ Waits(r)'
    BY <1>0, <1>5, Queued
  <2> QED BY <1>0, <1>1, <1>2, <2>1, <2>3, <2>4, <2>5, <2>6, BrokenCall
<1> QED BY <1>3, <1>4, <1>5 DEF CallList

LEMMA CallPrintStep == ASSUME QInv, NEW r \in Requests, CallPrint(r) PROVE QInv'
<1> DEFINE b == calls[r].base
           accepted == [printed EXCEPT ![r] = @ + 1]
<1>0. /\ RequestTypeOK /\ b \in 0 .. LastPort /\ printed \in [Requests -> 0 .. 1]
      /\ losses \in 0 .. MaxLosses
  BY RequestFacts DEF RequestTypeOK
<1>1. /\ At(r, "calling") /\ op[r] = "print"
      /\ UNCHANGED <<op, page, stored, listening, moves, calm>>
  BY DEF CallPrint
<1>2. printed[r] = 0
  BY <1>1, CallFacts
<1>3. /\ accepted \in [Requests -> 0 .. 1] /\ accepted[r] = 1
      /\ \A q \in Requests \ {r} : accepted[q] = printed[q]
  BY <1>0, <1>2
<1> HIDE DEF accepted
<1>4. "ok" \in Answers /\ "PRINTER_NOT_FOUND" \in Answers /\ "invalidating" \in Steps
  BY DEF Answers, Steps
<1>5. CASE /\ Ok(b) /\ printed' = accepted /\ Replies(r, "ok") /\ UNCHANGED <<writers, losses>>
  BY <1>0, <1>1, <1>3, <1>4, <1>5, AnsweredCall
<1>6. CASE /\ Ok(b) /\ UNCHANGED <<printed, writers, losses>> /\ Replies(r, "PRINTER_NOT_FOUND")
  BY <1>0, <1>1, <1>2, <1>4, <1>6, AnsweredCall
<1>7. CASE Invalidates(r, "replying") /\ UNCHANGED <<printed, losses>>
  <2>1. Writes(r, "invalidating", b, "replying")
    BY <1>7 DEF Invalidates
  <2> QED BY <1>0, <1>1, <1>2, <1>4, <1>7, <2>1, WriteFields, BrokenCall
<1>8. CASE /\ Loses(b) /\ losses' = losses + 1
           /\ printed' = accepted /\ Invalidates(r, "replying")
  <2>1. Writes(r, "invalidating", b, "replying")
    BY <1>8 DEF Invalidates
  <2>2. losses' \in 0 .. MaxLosses
    BY <1>0, <1>8, PortBounds DEF Loses
  <2> QED BY <1>0, <1>1, <1>3, <1>4, <1>8, <2>1, <2>2, WriteFields, BrokenCall
<1> QED BY <1>5, <1>6, <1>7, <1>8 DEF CallPrint, accepted

LEMMA MoveStep == ASSUME QInv, Move PROVE QInv'
<1>1. RequestTypeOK
  BY DEF QInv
<1>2. /\ listening' \in [DaemonPorts -> {"daemon", "other", "nothing"}]
      /\ moves < MaxMoves /\ moves' = moves + 1 /\ calm' = {}
      /\ UNCHANGED <<op, page, calls, stored, writers, printed, losses>>
  BY DEF Move
<1>3. moves' \in 0 .. MaxMoves
  BY <1>1, <1>2, PortBounds DEF RequestTypeOK
<1>4. RequestTypeOK'
  BY <1>1, <1>2, <1>3 DEF RequestTypeOK
<1>5. ASSUME NEW q \in Requests PROVE PrintInv(q)' /\ WriterInv(q)'
  <2>1. PrintInv(q) /\ WriterInv(q)
    BY DEF QInv
  <2> QED BY <1>2, <2>1 DEF PrintInv, WriterInv, Waits, At
<1> QED BY <1>2, <1>4, <1>5 DEF QInv, CalmInv

-----------------------------------------------------------------------------
LEMMA InitRequest == ASSUME InitRequests PROVE QInv
<1>1. /\ op \in [Requests -> {"health", "list", "print"}]
      /\ page = [r \in Requests |-> "unsent"] /\ calls = [r \in Requests |-> Idle]
      /\ stored = None /\ writers = << >>
      /\ listening = [p \in DaemonPorts |-> IF p = 1 THEN "daemon" ELSE "nothing"]
      /\ printed = [r \in Requests |-> 0] /\ moves = 0 /\ losses = 0 /\ calm = {}
  BY DEF InitRequests
<1>2. calls \in [Requests -> Call] /\ writers \in Seq(Requests)
  BY <1>1, IdleCall
<1>3. RequestTypeOK
  BY <1>1, <1>2, PortBounds DEF RequestTypeOK, None
<1>4. ASSUME NEW r \in Requests PROVE PrintInv(r) /\ WriterInv(r)
  <2>1. calls[r].step = "idle" /\ calls[r].retried = FALSE /\ page[r] = "unsent" /\ printed[r] = 0
    BY <1>1, IdleCall
  <2> QED BY <2>1 DEF PrintInv, WriterInv, At, BeforeCall, Invalidation
<1> QED BY <1>1, <1>3, <1>4 DEF QInv, CalmInv

LEMMA RequestStepInv == ASSUME QInv, [NextRequests]_requestVars PROVE QInv'
<1>1. CASE UNCHANGED requestVars
  BY <1>1 DEF requestVars, QInv, RequestTypeOK, PrintInv, WriterInv, CalmInv, Rest, CalmCall,
              Outdated, Serves, ServerRests, Misleading, Waits, At
<1>2. CASE Move
  BY <1>2, MoveStep
<1>3. ASSUME NEW r \in Requests, RequestStep(r) PROVE QInv'
  BY <1>3, SendStep, TimeOutStep, ReceiveStep, ForwardStep, AuthorizeStep, ReadPortStep, ProbeStep,
     RememberStep, CompareStoredStep, RemoveStoredStep, CallHealthStep, CallListStep, CallPrintStep
     DEF RequestStep
<1> QED BY <1>1, <1>2, <1>3 DEF NextRequests

\* Every state of the requests satisfies the invariant.
THEOREM RequestInvariant == RequestSpec => []QInv
BY InitRequest, RequestStepInv, PTL DEF RequestSpec

\* A print reaches the server at most once, whatever is lost, moved or retried, and
\* what the page was told about it is true: background.ts and daemon.ts never post
\* the bytes again.
THEOREM NothingPrintsTwice == RequestSpec => []PrintsAtMostOnce
<1>1. QInv => PrintsAtMostOnce
  BY DEF QInv, RequestTypeOK, PrintInv, PrintsAtMostOnce
<1> QED BY <1>1, RequestInvariant, PTL

\* However stale the remembered port is, a list or health request that nobody else
\* disturbs finds the server that stays where it is.
THEOREM CalmRequestsFindTheServer == RequestSpec => []CalmRequestsSucceed
<1>1. QInv => CalmRequestsSucceed
  BY DEF QInv, CalmInv, CalmCall, CalmRequestsSucceed
<1> QED BY <1>1, RequestInvariant, PTL

-----------------------------------------------------------------------------
(* The registration of the relay.                                          *)

PassSteps == {"none", "grants", "scripts", "write"}
Pass == [step : PassSteps, matches : SUBSET Origins, exists : BOOLEAN, failed : BOOLEAN]

RegistrationTypeOK ==
  /\ granted \in SUBSET Origins /\ registered \in SUBSET Origins
  /\ events \in 0 .. 2 /\ stale \in BOOLEAN /\ failures \in 0 .. MaxFailures
  /\ passes \in [Passes -> Pass] /\ checked \in BOOLEAN

\* What the background's pass read is what the browser has, unless an event is to
\* tell it otherwise, a popup wrote in between, or the pass failed.
PassInv ==
  LET p == passes[Background] IN
  /\ p.step \in {"scripts", "write"} /\ events = 0 /\ ~stale => p.matches = granted
  /\ p.step = "write" /\ checked => p.exists = (registered # {})
  /\ p.step = "none" /\ events = 0 /\ checked => registered = granted

RegInv == RegistrationTypeOK /\ PassInv

-----------------------------------------------------------------------------
(* The popup.                                                              *)

TaskSteps == {"none", "query", "contains", "probe", "grant", "revoke", "registering"}
Grants == {"none", "unknown", "failed", "absent", "present"}

Doing ==
  {t \in [step : TaskSteps, site : Sites] :
     t.step \in {"grant", "revoke"} => t.site \in Origins}

PopupTypeOK ==
  /\ site \in [Tabs -> Sites] /\ active \in Tabs
  /\ tabEvents \in Seq(Tabs \union {NoTab})
  /\ revision \in Revisions
  /\ tasks \in [Revisions -> Doing]
  /\ pendingTab \in Tabs \union {NoTab}
  /\ view \in [site : Sites, grant : Grants, action : {"none", "grant", "revoke"}]
  /\ acts \in 0 .. MaxActs /\ surprised \in BOOLEAN

Current == tasks[revision]

\* An event the popup will answer with a refresh.
Disturbs(t) == t = NoTab \/ pendingTab = NoTab \/ t = pendingTab
Disturbed == \E i \in 1 .. Len(tabEvents) : Disturbs(tabEvents[i])

\* A button is there only when nothing runs for the revision that shows it.
ButtonInv ==
  view.action # "none" => Current.step = "none" /\ view.grant \in {"absent", "present"}

\* Without an event to come the popup is about the site of the active tab.
SiteInv ==
  ~Disturbed =>
    /\ pendingTab \in {NoTab, active}
    /\ Current.step = "none" => view.grant = "failed" \/ view.site = site[active]
    /\ Current.step \notin {"none", "query"} => Current.site = site[active]

\* What the popup was told of the grant still holds.
GrantInv ==
  /\ Current.step = "probe" => surprised \/ Current.site \in granted
  /\ Current.step = "none" /\ view.grant # "failed" /\ view.site # NoSite =>
       surprised \/ view.grant = IF view.site \in granted THEN "present" ELSE "absent"

PopupInv == RegInv /\ PopupTypeOK /\ ButtonInv /\ SiteInv /\ GrantInv

-----------------------------------------------------------------------------
LEMMA PassBounds ==
  /\ MaxFailures \in Nat /\ MaxActs \in Nat /\ 1 \in Revisions
  /\ Background \in Passes /\ Revisions \subseteq Passes \ {Background} /\ Revisions \subseteq Nat
BY RegistrationAssumption, PopupAssumption DEF Passes, Background, Revisions

LEMMA PassShapes ==
  /\ Resting \in Pass /\ Resting.step = "none"
  /\ Starting \in Pass /\ Starting.step = "grants"
  /\ Failing \in Pass /\ Failing.step = "none"
BY DEF Resting, Starting, Failing, Pass, PassSteps

LEMMA FinishedFields ==
  ASSUME RegistrationTypeOK, NEW i \in Passes, NEW failed \in BOOLEAN, NEW late \in BOOLEAN,
         Finished(i, failed, late)
  PROVE  /\ passes' \in [Passes -> Pass] /\ \A j \in Passes \ {i} : passes'[j] = passes[j]
         /\ passes'[i].step = IF i = Background /\ late /\ ~failed THEN "grants" ELSE "none"
<1> DEFINE d == IF i = Background /\ late /\ ~failed THEN Starting
                ELSE IF i = Background /\ failed THEN Failing ELSE Resting
<1>1. d \in Pass /\ d.step = IF i = Background /\ late /\ ~failed THEN "grants" ELSE "none"
  BY PassShapes
<1>2. passes' = [passes EXCEPT ![i] = d]
  BY DEF Finished
<1> HIDE DEF d
<1> QED BY <1>1, <1>2 DEF RegistrationTypeOK

LEMMA ReadGrantsStep == ASSUME RegInv, NEW i \in Passes, ReadGrants(i) PROVE RegInv'
<1> DEFINE d == [passes[i] EXCEPT !.step = "scripts", !.matches = granted]
<1>0. RegistrationTypeOK /\ PassInv /\ passes \in [Passes -> Pass] /\ granted \in SUBSET Origins
  BY DEF RegInv, RegistrationTypeOK
<1>1. passes' = [passes EXCEPT ![i] = d]
      /\ UNCHANGED <<granted, registered, events, stale, failures, checked>>
  BY DEF ReadGrants
<1>2. passes[i] \in Pass
  BY <1>0
<1>3. d \in Pass /\ d.step = "scripts" /\ d.matches = granted
  BY <1>0, <1>2 DEF Pass, PassSteps
<1> HIDE DEF d
<1>4. /\ passes' \in [Passes -> Pass] /\ passes'[i] = d
      /\ \A j \in Passes \ {i} : passes'[j] = passes[j]
  BY <1>0, <1>1, <1>3
<1>5. RegistrationTypeOK'
  BY <1>0, <1>1, <1>4 DEF RegistrationTypeOK
<1>6. PassInv'
  BY <1>0, <1>1, <1>3, <1>4, PassBounds DEF PassInv
<1> QED BY <1>5, <1>6 DEF RegInv

LEMMA ReadScriptsStep == ASSUME RegInv, NEW i \in Passes, ReadScripts(i) PROVE RegInv'
<1> DEFINE e == registered # {}
           d == [passes[i] EXCEPT !.step = "write", !.exists = e]
<1>0. RegistrationTypeOK /\ PassInv /\ passes \in [Passes -> Pass] /\ checked \in BOOLEAN
  BY DEF RegInv, RegistrationTypeOK
<1>1. /\ passes[i].step = "scripts" /\ ~Overtaken(i) /\ passes' = [passes EXCEPT ![i] = d]
      /\ checked' = (checked \/ i = Background)
      /\ UNCHANGED <<granted, registered, events, stale, failures>>
  BY DEF ReadScripts
<1>2. passes[i] \in Pass /\ e \in BOOLEAN /\ checked' \in BOOLEAN
  <2>1. checked' \in BOOLEAN
    BY <1>1, Zenon
  <2> QED BY <1>0, <2>1
<1>3. d \in Pass /\ d.step = "write" /\ d.matches = passes[i].matches /\ d.exists = e
  <2> HIDE DEF e
  <2> QED BY <1>2 DEF Pass, PassSteps
<1> HIDE DEF d
<1>4. /\ passes' \in [Passes -> Pass] /\ passes'[i] = d
      /\ \A j \in Passes \ {i} : passes'[j] = passes[j]
  BY <1>0, <1>1, <1>3
<1>5. RegistrationTypeOK'
  BY <1>0, <1>1, <1>2, <1>4 DEF RegistrationTypeOK
<1>6. ASSUME i = Background PROVE PassInv'
  BY <1>0, <1>1, <1>3, <1>4, <1>6 DEF PassInv
<1>7. ASSUME i # Background PROVE PassInv'
  <2>1. passes'[Background] = passes[Background] /\ checked' = checked
    BY <1>0, <1>1, <1>4, <1>7, PassBounds
  <2> QED BY <1>0, <1>1, <2>1 DEF PassInv
<1>8. PassInv'
  BY <1>6, <1>7
<1> QED BY <1>5, <1>8 DEF RegInv

LEMMA WriteStep == ASSUME RegInv, NEW i \in Passes, Write(i) PROVE RegInv'
<1> DEFINE p == passes[i]
           nothing == p.matches = {} /\ ~p.exists
           rejected == ~nothing /\ p.exists # (registered # {})
<1>0. /\ RegistrationTypeOK /\ PassInv /\ p \in Pass /\ registered \in SUBSET Origins
      /\ p.matches \in SUBSET Origins
  BY DEF RegInv, RegistrationTypeOK, Pass
<1>1. /\ p.step = "write" /\ ~Overtaken(i)
      /\ registered' = IF nothing \/ rejected THEN registered ELSE p.matches
      /\ Finished(i, rejected, FALSE)
      /\ checked' = (checked /\ (IF i = Background THEN ~rejected ELSE nothing \/ rejected))
      /\ UNCHANGED <<granted, events, stale, failures>>
  BY DEF Write
<1>2. rejected \in BOOLEAN /\ nothing \in BOOLEAN
  BY Zenon
<1>3. /\ passes' \in [Passes -> Pass] /\ \A j \in Passes \ {i} : passes'[j] = passes[j]
      /\ passes'[i].step = "none"
  <2> HIDE DEF rejected
  <2> QED BY <1>0, <1>1, <1>2, FinishedFields
<1>4. checked' \in BOOLEAN
  BY <1>1, Zenon
<1>5. RegistrationTypeOK'
  BY <1>0, <1>1, <1>3, <1>4 DEF RegistrationTypeOK
<1>6. ASSUME i = Background PROVE PassInv'
  <2>1. checked' => checked /\ ~rejected
    BY <1>1, <1>6
  <2>2. checked /\ ~rejected => registered' = p.matches
    BY <1>0, <1>1, <1>6 DEF PassInv
  <2>3. events = 0 => p.matches = granted
    BY <1>0, <1>1, <1>6 DEF PassInv, Overtaken
  <2> QED BY <1>1, <1>3, <1>6, <2>1, <2>2, <2>3 DEF PassInv
<1>7. ASSUME i # Background PROVE PassInv'
  <2>1. passes'[Background] = passes[Background]
    BY <1>3, <1>7, PassBounds
  <2>2. checked' => checked /\ registered' = registered
    BY <1>1, <1>7
  <2> QED BY <1>0, <1>1, <2>1, <2>2 DEF PassInv
<1>8. PassInv'
  BY <1>6, <1>7
<1> QED BY <1>5, <1>8 DEF RegInv

LEMMA GiveUpStep == ASSUME RegInv, NEW i \in Passes, GiveUp(i) PROVE RegInv'
<1>0. RegistrationTypeOK /\ PassInv
  BY DEF RegInv
<1>1. /\ i = Background /\ Finished(i, FALSE, TRUE) /\ stale' = FALSE
      /\ UNCHANGED <<granted, registered, events, failures, checked>>
  BY DEF GiveUp, Overtaken
<1>2. /\ passes' \in [Passes -> Pass] /\ \A j \in Passes \ {i} : passes'[j] = passes[j]
      /\ passes'[i].step = "grants"
  BY <1>0, <1>1, FinishedFields
<1>3. stale' \in BOOLEAN
  BY <1>1, Zenon
<1> QED BY <1>0, <1>1, <1>2, <1>3 DEF RegInv, RegistrationTypeOK, PassInv

LEMMA RejectStep == ASSUME RegInv, NEW i \in Passes, Reject(i) PROVE RegInv'
<1>0. RegistrationTypeOK /\ PassInv /\ failures \in 0 .. MaxFailures
  BY DEF RegInv, RegistrationTypeOK
<1>1. /\ failures < MaxFailures /\ failures' = failures + 1 /\ Finished(i, TRUE, FALSE)
      /\ checked' = (checked /\ i # Background)
      /\ UNCHANGED <<granted, registered, events, stale>>
  BY DEF Reject
<1>2. /\ passes' \in [Passes -> Pass] /\ \A j \in Passes \ {i} : passes'[j] = passes[j]
      /\ passes'[i].step = "none"
  BY <1>0, <1>1, FinishedFields
<1>3. checked' \in BOOLEAN /\ failures' \in 0 .. MaxFailures
  <2>1. checked' \in BOOLEAN
    BY <1>1, Zenon
  <2> QED BY <1>0, <1>1, <2>1, PassBounds
<1>4. RegistrationTypeOK'
  BY <1>0, <1>1, <1>2, <1>3 DEF RegistrationTypeOK
<1>5. ASSUME i = Background PROVE PassInv'
  BY <1>1, <1>2, <1>5 DEF PassInv
<1>6. ASSUME i # Background PROVE PassInv'
  <2>1. passes'[Background] = passes[Background] /\ (checked' => checked)
    BY <1>1, <1>2, <1>6, PassBounds
  <2> QED BY <1>0, <1>1, <2>1 DEF PassInv
<1> QED BY <1>4, <1>5, <1>6 DEF RegInv

LEMMA StartedBackground ==
  ASSUME RegInv, passes' = [passes EXCEPT ![Background] = Starting], stale' = FALSE,
         UNCHANGED <<granted, registered, checked>>, events' \in 0 .. 2,
         failures' \in 0 .. MaxFailures
  PROVE  RegInv'
<1>1. RegistrationTypeOK /\ stale' \in BOOLEAN
  BY Zenon DEF RegInv
<1>2. passes' \in [Passes -> Pass] /\ passes'[Background].step = "grants"
  BY <1>1, PassShapes, PassBounds DEF RegistrationTypeOK
<1>3. RegistrationTypeOK'
  BY <1>1, <1>2 DEF RegistrationTypeOK
<1>4. PassInv'
  BY <1>2 DEF PassInv
<1> QED BY <1>3, <1>4 DEF RegInv

LEMMA PermissionEventStep == ASSUME RegInv, PermissionEvent PROVE RegInv'
<1>0. RegistrationTypeOK /\ PassInv /\ failures \in 0 .. MaxFailures
  BY DEF RegInv, RegistrationTypeOK
<1>1. /\ events' \in 0 .. 2 /\ UNCHANGED <<granted, registered, failures, checked>> /\ Refreshed
  BY <1>0 DEF PermissionEvent, RegistrationTypeOK
<1>2. CASE passes[Background].step = "none"
  BY <1>0, <1>1, <1>2, StartedBackground DEF Refreshed
<1>3. CASE passes[Background].step # "none"
  <2>1. UNCHANGED passes /\ stale' = TRUE
    BY <1>1, <1>3 DEF Refreshed
  <2>2. stale' \in BOOLEAN
    BY <2>1, Zenon
  <2> QED BY <1>0, <1>1, <1>3, <2>1, <2>2 DEF RegInv, RegistrationTypeOK, PassInv
<1> QED BY <1>2, <1>3

LEMMA RestartStep == ASSUME RegInv, Restart PROVE RegInv'
<1>1. failures' \in 0 .. MaxFailures /\ events' \in 0 .. 2
  BY PassBounds DEF Restart, RegInv, RegistrationTypeOK
<1> QED BY <1>1, StartedBackground DEF Restart

\* Grants that change while the passes stay where they are, or a popup starts one.
LEMMA RegrantedStep ==
  ASSUME RegInv, NEW origins \in SUBSET Origins, Regranted(origins),
         passes' \in [Passes -> Pass], passes'[Background] = passes[Background],
         UNCHANGED <<registered, stale, failures, checked>>
  PROVE  RegInv'
<1>0. RegistrationTypeOK /\ PassInv
  BY DEF RegInv
<1>1. events' \in 0 .. 2 /\ (events' = 0 => granted' = granted /\ events = 0)
      /\ granted' \in SUBSET Origins
  BY <1>0 DEF Regranted, RegistrationTypeOK
<1>2. RegistrationTypeOK'
  BY <1>0, <1>1 DEF RegistrationTypeOK
<1>3. PassInv'
  BY <1>0, <1>1 DEF PassInv
<1> QED BY <1>2, <1>3 DEF RegInv

LEMMA RegistrationRests ==
  ASSUME RegInv, UNCHANGED <<granted, registered, events, passes, stale, checked>>,
         failures' \in 0 .. MaxFailures
  PROVE  RegInv'
BY DEF RegInv, RegistrationTypeOK, PassInv

LEMMA RegistrationStep ==
  ASSUME RegInv, PermissionEvent \/ Restart \/ \E i \in Passes : PassStep(i)
  PROVE  RegInv' /\ granted' = granted
<1>1. RegInv'
  BY ReadGrantsStep, ReadScriptsStep, WriteStep, GiveUpStep, RejectStep, PermissionEventStep,
     RestartStep DEF PassStep
<1>2. granted' = granted
  BY DEF PassStep, ReadGrants, ReadScripts, Write, GiveUp, Reject, PermissionEvent, Restart
<1> QED BY <1>1, <1>2

-----------------------------------------------------------------------------
(* The popup's steps.                                                      *)

PInv == PopupTypeOK /\ ButtonInv /\ SiteInv /\ GrantInv

LEMMA TaskFields ==
  ASSUME PopupTypeOK, NEW v \in Revisions, NEW step \in TaskSteps, NEW s \in Sites, Task(v, step, s),
         step \in {"grant", "revoke"} => s \in Origins
  PROVE  /\ tasks' \in [Revisions -> Doing]
         /\ tasks'[v].step = step /\ tasks'[v].site = s
         /\ \A w \in Revisions \ {v} : tasks'[w] = tasks[w]
<1> DEFINE d == [step |-> step, site |-> s]
<1>1. d \in Doing /\ d.step = step /\ d.site = s
  BY DEF Doing
<1>2. tasks' = [tasks EXCEPT ![v] = d]
  BY DEF Task
<1> HIDE DEF d
<1> QED BY <1>1, <1>2 DEF PopupTypeOK

LEMMA EndsFields ==
  ASSUME PopupTypeOK, NEW v \in Revisions, Ends(v)
  PROVE  /\ tasks' \in [Revisions -> Doing] /\ tasks'[v].step = "none"
         /\ \A w \in Revisions \ {v} : tasks'[w] = tasks[w]
BY TaskFields DEF Ends, TaskSteps, Sites

LEMMA TaskTypes ==
  ASSUME PopupTypeOK, NEW v \in Revisions
  PROVE  /\ tasks[v].step \in TaskSteps /\ tasks[v].site \in Sites
         /\ view.site \in Sites /\ view.grant \in Grants /\ revision \in Revisions
         /\ site[active] \in Sites /\ active \in Tabs
         /\ tasks[v].step \in {"grant", "revoke"} => tasks[v].site \in Origins
BY DEF PopupTypeOK, Doing

LEMMA Suppression ==
  ASSUME PopupTypeOK
  PROVE  /\ Suppressed \in [site : Sites, grant : Grants, action : {"none", "grant", "revoke"}]
         /\ Suppressed.action = "none" /\ Suppressed.site = view.site
         /\ Suppressed.grant = view.grant
BY DEF PopupTypeOK, Suppressed

LEMMA RenderFields ==
  ASSUME NEW s \in Sites, NEW grant \in Grants, Render(s, grant)
  PROVE  /\ view' \in [site : Sites, grant : Grants, action : {"none", "grant", "revoke"}]
         /\ view'.site = s /\ view'.grant = grant
         /\ view'.action # "none" => grant \in {"absent", "present"}
BY DEF Render, ActionFor, Grants

\* Nothing of the popup changes, or only what an old revision's task does.
LEMMA OldTask ==
  ASSUME PInv, tasks' \in [Revisions -> Doing], Current' = Current,
         UNCHANGED <<site, active, tabEvents, revision, pendingTab, view>>,
         acts' \in 0 .. MaxActs, surprised' \in BOOLEAN,
         surprised' \/ (surprised' = surprised /\ granted' = granted)
  PROVE  PInv'
<1>1. PopupTypeOK'
  BY DEF PInv, PopupTypeOK
<1>2. ButtonInv' /\ SiteInv'
  BY DEF PInv, ButtonInv, SiteInv, Disturbed, Disturbs
<1>3. GrantInv'
  BY DEF PInv, GrantInv
<1> QED BY <1>1, <1>2, <1>3 DEF PInv

\* A step of the current revision's task, which may show what it found.
LEMMA CurrentTask ==
  ASSUME PInv, tasks' \in [Revisions -> Doing],
         UNCHANGED <<site, active, tabEvents, revision>>, pendingTab' \in {pendingTab, active},
         view' \in [site : Sites, grant : Grants, action : {"none", "grant", "revoke"}],
         acts' \in 0 .. MaxActs, surprised' \in BOOLEAN,
         ButtonInv', GrantInv',
         ~Disturbed' /\ (pendingTab' = pendingTab => ~Disturbed) =>
           /\ Current'.step = "none" => view'.grant = "failed" \/ view'.site = site[active]
           /\ Current'.step \notin {"none", "query"} => Current'.site = site[active]
  PROVE  PInv'
<1>1. PopupTypeOK'
  BY DEF PInv, PopupTypeOK
<1>2. ~Disturbed' => (pendingTab' = pendingTab => ~Disturbed)
  BY DEF Disturbed, Disturbs
<1>3. SiteInv'
  BY <1>2 DEF PInv, SiteInv
<1> QED BY <1>1, <1>3 DEF PInv

LEMMA RefreshStep ==
  ASSUME PInv, Refresh, UNCHANGED <<site, active, acts, surprised>>,
         tabEvents' \in Seq(Tabs \union {NoTab})
  PROVE  PInv'
<1>0. PopupTypeOK
  BY DEF PInv
<1> DEFINE v == revision + 1
<1>1. /\ v \in Revisions /\ revision' = v /\ pendingTab' = NoTab /\ view' = Suppressed
      /\ Task(v, "query", NoSite)
  BY DEF Refresh
<1> HIDE DEF v
<1>2. /\ tasks' \in [Revisions -> Doing] /\ tasks'[v].step = "query"
  BY <1>0, <1>1, TaskFields DEF TaskSteps, Sites
<1>3. PopupTypeOK' /\ view'.action = "none" /\ Current'.step = "query"
  BY <1>0, <1>1, <1>2, Suppression DEF PopupTypeOK, Current
<1> QED BY <1>1, <1>3 DEF PInv, ButtonInv, SiteInv, GrantInv

LEMMA TabEventStep == ASSUME PInv, TabEvent PROVE PInv'
<1> DEFINE t == Head(tabEvents)
<1>0. PopupTypeOK /\ tabEvents \in Seq(Tabs \union {NoTab})
  BY DEF PInv, PopupTypeOK
<1>1. /\ tabEvents # << >> /\ tabEvents' = Tail(tabEvents)
      /\ UNCHANGED <<registrationVars, site, active, acts, surprised>>
  BY DEF TabEvent
<1> DEFINE E == Tabs \union {NoTab}
<1>2. /\ tabEvents' \in Seq(E) /\ t = tabEvents[1] /\ Len(tabEvents) \in Nat
      /\ Len(tabEvents') = Len(tabEvents) - 1
      /\ \A i \in 1 .. Len(tabEvents) - 1 : tabEvents'[i] = tabEvents[i + 1]
  <2>1. tabEvents \in Seq(E)
    BY <1>0
  <2> HIDE DEF E
  <2> QED BY <1>1, <2>1
<1>3. CASE Disturbs(t)
  <2>1. Refresh
    BY <1>3 DEF TabEvent, Disturbs
  <2> QED BY <1>1, <1>2, <2>1, RefreshStep
<1>4. CASE ~Disturbs(t)
  <2>1. UNCHANGED <<revision, pendingTab, view, tasks>>
    BY <1>4 DEF TabEvent, Disturbs
  <2>2. Disturbed => Disturbed'
    <3>1. SUFFICES ASSUME NEW i \in 1 .. Len(tabEvents), Disturbs(tabEvents[i]) PROVE Disturbed'
      BY DEF Disturbed
    <3>2. i # 1
      BY <1>2, <1>4, <3>1
    <3>3. i - 1 \in 1 .. Len(tabEvents') /\ tabEvents'[i - 1] = tabEvents[i]
      BY <1>2, <3>2
    <3> QED BY <2>1, <3>1, <3>3 DEF Disturbed, Disturbs
  <2>3. PopupTypeOK'
    BY <1>0, <1>1, <1>2, <2>1 DEF PopupTypeOK
  <2>4. granted' = granted
    BY <1>1 DEF registrationVars
  <2> QED BY <1>1, <2>1, <2>2, <2>3, <2>4 DEF PInv, ButtonInv, SiteInv, GrantInv, Current
<1> QED BY <1>3, <1>4

LEMMA QueryTabStep == ASSUME PInv, NEW v \in Revisions, QueryTab(v) PROVE PInv'
<1>0. /\ PopupTypeOK /\ ButtonInv /\ acts \in 0 .. MaxActs /\ surprised \in BOOLEAN
      /\ view \in [site : Sites, grant : Grants, action : {"none", "grant", "revoke"}]
      /\ revision \in Revisions /\ site[active] \in Sites /\ pendingTab \in Tabs \union {NoTab}
  BY TaskTypes DEF PInv, PopupTypeOK
<1>1. /\ tasks[v].step = "query"
      /\ UNCHANGED <<granted, site, active, tabEvents, revision, acts, surprised>>
  BY DEF QueryTab
<1>2. CASE ~IsCurrent(v) /\ Ends(v) /\ UNCHANGED <<pendingTab, view, failures>>
  <2>1. tasks' \in [Revisions -> Doing] /\ Current' = Current
    BY <1>0, <1>1, <1>2, EndsFields DEF Current, IsCurrent
  <2> QED BY <1>0, <1>1, <1>2, <2>1, OldTask
<1>3. CASE /\ IsCurrent(v) /\ site[active] # NoSite /\ Task(v, "contains", site[active])
           /\ pendingTab' = active /\ UNCHANGED <<view, failures>>
  <2>1. /\ tasks' \in [Revisions -> Doing]
        /\ Current'.step = "contains" /\ Current'.site = site[active]
    BY <1>0, <1>1, <1>3, TaskFields DEF Current, IsCurrent, TaskSteps
  <2>2. view.action = "none"
    BY <1>0, <1>1, <1>3 DEF ButtonInv, Current, IsCurrent
  <2>3. ButtonInv' /\ GrantInv'
    BY <1>3, <2>1, <2>2 DEF ButtonInv, GrantInv
  <2> QED BY <1>0, <1>1, <1>3, <2>1, <2>3, CurrentTask
<1>4. ASSUME NEW grant \in {"unknown", "failed"},
             IsCurrent(v), Ends(v), Render(NoSite, grant), UNCHANGED pendingTab,
             grant = "unknown" => site[active] = NoSite
      PROVE  PInv'
  <2>1. tasks' \in [Revisions -> Doing] /\ Current'.step = "none"
    BY <1>0, <1>1, <1>4, EndsFields DEF Current, IsCurrent
  <2>2. NoSite \in Sites /\ grant \in Grants
    BY DEF Sites, Grants
  <2>3. /\ view' \in [site : Sites, grant : Grants, action : {"none", "grant", "revoke"}]
        /\ view'.site = NoSite /\ view'.grant = grant /\ view'.action = "none"
    BY <1>4, <2>2, RenderFields
  <2>4. ButtonInv' /\ GrantInv'
    BY <2>1, <2>3 DEF ButtonInv, GrantInv
  <2> QED BY <1>0, <1>1, <1>4, <2>1, <2>3, <2>4, CurrentTask
<1> QED BY <1>2, <1>3, <1>4 DEF QueryTab

LEMMA ContainsStep == ASSUME PInv, NEW v \in Revisions, Contains(v) PROVE PInv'
<1> DEFINE s == tasks[v].site
<1>0. /\ PopupTypeOK /\ ButtonInv /\ SiteInv /\ acts \in 0 .. MaxActs /\ surprised \in BOOLEAN
      /\ view \in [site : Sites, grant : Grants, action : {"none", "grant", "revoke"}]
      /\ revision \in Revisions /\ s \in Sites /\ "probe" \in TaskSteps
      /\ {"absent", "failed"} \subseteq Grants
  BY TaskTypes DEF PInv, PopupTypeOK, TaskSteps, Grants
<1>1. /\ tasks[v].step = "contains"
      /\ UNCHANGED <<granted, site, active, tabEvents, revision, pendingTab, acts>>
  BY DEF Contains
<1>2. ASSUME IsCurrent(v) PROVE view.action = "none" /\ (~Disturbed => s = site[active])
  BY <1>0, <1>1, <1>2 DEF ButtonInv, SiteInv, Current, IsCurrent
<1>3. CASE /\ s \in granted /\ Task(v, "probe", s) /\ UNCHANGED <<view, failures>>
           /\ surprised' = IF IsCurrent(v) THEN FALSE ELSE surprised
  <2>1. /\ tasks' \in [Revisions -> Doing]
        /\ tasks'[v].step = "probe" /\ tasks'[v].site = s
        /\ \A w \in Revisions \ {v} : tasks'[w] = tasks[w]
    BY <1>0, <1>3, TaskFields
  <2>2. surprised' \in BOOLEAN
    BY <1>0, <1>3, Zenon
  <2>3. CASE IsCurrent(v)
    <3>1. Current'.step = "probe" /\ Current'.site = s
      BY <1>1, <2>1, <2>3 DEF Current, IsCurrent
    <3>2. ButtonInv' /\ GrantInv'
      BY <1>1, <1>2, <1>3, <2>3, <3>1 DEF ButtonInv, GrantInv
    <3> QED BY <1>0, <1>1, <1>2, <1>3, <2>1, <2>2, <2>3, <3>1, <3>2, CurrentTask
  <2>4. CASE ~IsCurrent(v)
    <3>1. Current' = Current /\ surprised' = surprised
      BY <1>0, <1>1, <1>3, <2>1, <2>4 DEF Current, IsCurrent
    <3> QED BY <1>0, <1>1, <1>3, <2>1, <3>1, OldTask
  <2> QED BY <2>3, <2>4
<1>4. ASSUME Ends(v), ~IsCurrent(v), UNCHANGED <<view, surprised>> PROVE PInv'
  <2>1. tasks' \in [Revisions -> Doing] /\ Current' = Current
    BY <1>0, <1>1, <1>4, EndsFields DEF Current, IsCurrent
  <2> QED BY <1>0, <1>1, <1>4, <2>1, OldTask
<1>5. ASSUME NEW grant \in {"absent", "failed"},
             Ends(v), IsCurrent(v), Render(s, grant), surprised' \in BOOLEAN,
             grant = "absent" => s \notin granted
      PROVE  PInv'
  <2>1. tasks' \in [Revisions -> Doing] /\ Current'.step = "none"
    BY <1>0, <1>1, <1>5, EndsFields DEF Current, IsCurrent
  <2>2. /\ view' \in [site : Sites, grant : Grants, action : {"none", "grant", "revoke"}]
        /\ view'.site = s /\ view'.grant = grant
        /\ view'.action # "none" => grant \in {"absent", "present"}
    BY <1>0, <1>5, RenderFields
  <2>3. ButtonInv' /\ GrantInv'
    BY <1>1, <1>5, <2>1, <2>2 DEF ButtonInv, GrantInv
  <2> QED BY <1>0, <1>1, <1>2, <1>5, <2>1, <2>2, <2>3, CurrentTask
<1>6. CASE /\ s \notin granted /\ Ends(v)
           /\ IF IsCurrent(v) THEN Render(s, "absent") /\ surprised' = FALSE
                              ELSE UNCHANGED <<view, surprised>>
  <2>1. CASE IsCurrent(v)
    <3>1. surprised' \in BOOLEAN
      BY <1>6, <2>1, Zenon
    <3> QED BY <1>5, <1>6, <2>1, <3>1
  <2> QED BY <1>4, <1>6, <2>1
<1>7. CASE /\ Ends(v) /\ UNCHANGED surprised
           /\ IF IsCurrent(v) THEN Render(s, "failed") ELSE UNCHANGED view
  BY <1>0, <1>4, <1>5, <1>7
<1> QED BY <1>3, <1>6, <1>7 DEF Contains

LEMMA ProbeServerStep == ASSUME PInv, NEW v \in Revisions, ProbeServer(v) PROVE PInv'
<1> DEFINE s == tasks[v].site
<1>0. /\ PopupTypeOK /\ SiteInv /\ GrantInv /\ acts \in 0 .. MaxActs /\ surprised \in BOOLEAN
      /\ view \in [site : Sites, grant : Grants, action : {"none", "grant", "revoke"}]
      /\ revision \in Revisions /\ s \in Sites /\ "present" \in Grants
  BY TaskTypes DEF PInv, PopupTypeOK, Grants
<1>1. /\ tasks[v].step = "probe" /\ Ends(v)
      /\ IF IsCurrent(v) THEN Render(s, "present") ELSE UNCHANGED view
      /\ UNCHANGED <<granted, site, active, tabEvents, revision, pendingTab, acts, surprised>>
  BY DEF ProbeServer, registrationVars
<1>2. CASE ~IsCurrent(v)
  <2>1. tasks' \in [Revisions -> Doing] /\ Current' = Current
    BY <1>0, <1>1, <1>2, EndsFields DEF Current, IsCurrent
  <2> QED BY <1>0, <1>1, <1>2, <2>1, OldTask
<1>3. CASE IsCurrent(v)
  <2>1. tasks' \in [Revisions -> Doing] /\ Current'.step = "none"
    BY <1>0, <1>1, <1>3, EndsFields DEF Current, IsCurrent
  <2>2. /\ view' \in [site : Sites, grant : Grants, action : {"none", "grant", "revoke"}]
        /\ view'.site = s /\ view'.grant = "present"
    BY <1>0, <1>1, <1>3, RenderFields
  <2>3. (surprised \/ s \in granted) /\ (~Disturbed => s = site[active])
    BY <1>0, <1>1, <1>3 DEF SiteInv, GrantInv, Current, IsCurrent
  <2>4. ButtonInv' /\ GrantInv'
    BY <1>1, <2>1, <2>2, <2>3 DEF ButtonInv, GrantInv
  <2> QED BY <1>0, <1>1, <2>1, <2>2, <2>3, <2>4, CurrentTask
<1> QED BY <1>2, <1>3

LEMMA ActBound == ASSUME acts \in 0 .. MaxActs, Act PROVE acts' \in 0 .. MaxActs
BY PassBounds DEF Act

LEMMA ClickStep == ASSUME PInv, Click PROVE PInv'
<1>0. /\ PopupTypeOK /\ ButtonInv /\ SiteInv /\ acts \in 0 .. MaxActs /\ surprised \in BOOLEAN
      /\ view \in [site : Sites, grant : Grants, action : {"none", "grant", "revoke"}]
      /\ revision \in Revisions
  BY DEF PInv, PopupTypeOK
<1>1. /\ Act /\ view.action # "none" /\ Task(revision, view.action, view.site)
      /\ view.site \in Origins
      /\ view' = Suppressed
      /\ UNCHANGED <<granted, site, active, tabEvents, revision, pendingTab, surprised>>
  BY DEF Click, registrationVars
<1>2. view.action \in {"grant", "revoke"} /\ view.site \in Sites
  BY <1>0, <1>1
<1>3. {"grant", "revoke"} \subseteq TaskSteps
  BY DEF TaskSteps
<1>4. /\ tasks' \in [Revisions -> Doing]
      /\ Current'.step = view.action /\ Current'.site = view.site
  BY <1>0, <1>1, <1>2, <1>3, TaskFields DEF Current
<1>5. /\ view' \in [site : Sites, grant : Grants, action : {"none", "grant", "revoke"}]
      /\ view'.action = "none"
  BY <1>0, <1>1, Suppression
<1>6. ButtonInv' /\ GrantInv'
  BY <1>2, <1>4, <1>5 DEF ButtonInv, GrantInv
<1>7. ~Disturbed => view.site = site[active]
  BY <1>0, <1>1 DEF ButtonInv, SiteInv
<1> QED BY <1>0, <1>1, <1>2, <1>4, <1>5, <1>6, <1>7, ActBound, CurrentTask

\* A task goes on to a step that shows nothing.
LEMMA TaskGoesOn ==
  ASSUME PInv, NEW v \in Revisions, tasks[v].step \in {"grant", "revoke", "registering"},
         NEW step \in {"registering", "contains"}, Task(v, step, tasks[v].site),
         UNCHANGED <<site, active, tabEvents, revision, pendingTab, view, acts>>,
         surprised' \in BOOLEAN,
         IsCurrent(v) \/ surprised' \/ (surprised' = surprised /\ granted' = granted)
  PROVE  PInv'
<1>0. /\ PopupTypeOK /\ ButtonInv /\ SiteInv /\ acts \in 0 .. MaxActs
      /\ view \in [site : Sites, grant : Grants, action : {"none", "grant", "revoke"}]
      /\ revision \in Revisions /\ tasks[v].site \in Sites /\ step \in TaskSteps
  BY TaskTypes DEF PInv, PopupTypeOK, TaskSteps
<1>1. /\ tasks' \in [Revisions -> Doing]
      /\ tasks'[v].step = step /\ tasks'[v].site = tasks[v].site
      /\ \A w \in Revisions \ {v} : tasks'[w] = tasks[w]
  BY <1>0, TaskFields
<1>2. CASE ~IsCurrent(v)
  <2>1. Current' = Current
    BY <1>0, <1>1, <1>2 DEF Current, IsCurrent
  <2> QED BY <1>0, <1>1, <1>2, <2>1, OldTask
<1>3. CASE IsCurrent(v)
  <2>1. Current'.step = step /\ Current'.site = tasks[v].site /\ view.action = "none"
    BY <1>0, <1>1, <1>3 DEF ButtonInv, Current, IsCurrent
  <2>2. ButtonInv' /\ GrantInv'
    BY <2>1 DEF ButtonInv, GrantInv
  <2>3. ~Disturbed => tasks[v].site = site[active]
    BY <1>0, <1>3 DEF SiteInv, Current, IsCurrent
  <2> QED BY <1>0, <1>1, <2>1, <2>2, <2>3, CurrentTask
<1> QED BY <1>2, <1>3

LEMMA MutateStep == ASSUME RegInv, PInv, NEW v \in Revisions, Mutate(v) PROVE RegInv' /\ PInv'
<1> DEFINE s == tasks[v].site
           origins == IF tasks[v].step = "grant" THEN granted \union {s} ELSE granted \ {s}
<1>1. /\ tasks[v].step \in {"grant", "revoke"}
      /\ UNCHANGED <<registered, stale, failures, checked,
                     site, active, tabEvents, revision, pendingTab, view, acts>>
      /\ surprised \in BOOLEAN
  BY DEF Mutate, PInv, PopupTypeOK
<1>2. CASE /\ Regranted(origins) /\ Task(v, "registering", s)
           /\ passes' = [passes EXCEPT ![v] = Starting]
           /\ surprised' = (surprised \/ ~IsCurrent(v))
  <2>1. surprised' \in BOOLEAN
    BY <1>2, Zenon
  <2>2. PInv'
    BY <1>1, <1>2, <2>1, TaskGoesOn
  <2>3. passes' \in [Passes -> Pass] /\ passes'[Background] = passes[Background]
    BY <1>2, PassShapes, PassBounds DEF RegInv, RegistrationTypeOK
  <2>4. s \in Origins
    BY <1>1, TaskTypes DEF PInv
  <2>5. origins \in SUBSET Origins
    BY <2>4 DEF RegInv, RegistrationTypeOK
  <2> HIDE DEF origins
  <2>6. RegInv'
    BY <1>1, <1>2, <2>3, <2>5, RegrantedStep
  <2> QED BY <2>2, <2>6
<1>3. CASE Task(v, "contains", s) /\ UNCHANGED <<granted, events, passes, surprised>>
  <2>1. PInv'
    BY <1>1, <1>3, TaskGoesOn
  <2>2. RegInv'
    BY <1>1, <1>3, RegistrationRests DEF RegInv, RegistrationTypeOK
  <2> QED BY <2>1, <2>2
<1> QED BY <1>2, <1>3 DEF Mutate

LEMMA RegisteredStep == ASSUME PInv, NEW v \in Revisions, Registered(v) PROVE PInv'
<1>1. surprised \in BOOLEAN
  BY DEF PInv, PopupTypeOK
<1> QED BY <1>1, TaskGoesOn DEF Registered, registrationVars

\* An event of tab t comes in, which the popup has not seen.
LEMMA EventComes ==
  ASSUME PInv, NEW t \in Tabs \union {NoTab}, tabEvents' = Append(tabEvents, t),
         site' \in [Tabs -> Sites], active' \in Tabs,
         UNCHANGED <<granted, revision, tasks, pendingTab, view, surprised>>, acts' \in 0 .. MaxActs,
         Disturbs(t) \/ pendingTab \notin {NoTab, active}
           \/ (active' = active /\ site'[active] = site[active])
  PROVE  PInv'
<1> DEFINE E == Tabs \union {NoTab}
<1>0. PopupTypeOK /\ ButtonInv /\ SiteInv /\ GrantInv /\ tabEvents \in Seq(E) /\ t \in E
  BY DEF PInv, PopupTypeOK
<1>1. /\ tabEvents' \in Seq(E) /\ Len(tabEvents) \in Nat /\ Len(tabEvents') = Len(tabEvents) + 1
      /\ tabEvents'[Len(tabEvents) + 1] = t
      /\ \A i \in 1 .. Len(tabEvents) : tabEvents'[i] = tabEvents[i]
  <2> HIDE DEF E
  <2> QED BY <1>0
<1>2. ASSUME ~Disturbed' PROVE ~Disturbed /\ ~Disturbs(t)
  <2>1. \A i \in 1 .. Len(tabEvents') : ~Disturbs(tabEvents'[i])
    BY <1>2 DEF Disturbed, Disturbs
  <2>2. ~Disturbs(t)
    BY <1>1, <2>1
  <2>3. \A i \in 1 .. Len(tabEvents) : ~Disturbs(tabEvents[i])
    BY <1>1, <2>1
  <2> QED BY <2>2, <2>3 DEF Disturbed
<1>3. PopupTypeOK'
  BY <1>0, <1>1 DEF PopupTypeOK
<1>4. ButtonInv' /\ GrantInv'
  BY <1>0 DEF ButtonInv, GrantInv, Current
<1>5. SiteInv'
  BY <1>0, <1>2 DEF SiteInv, Current
<1> QED BY <1>3, <1>4, <1>5 DEF PInv

LEMMA ActivateStep == ASSUME PInv, NEW t \in Tabs, Activate(t) PROVE PInv'
<1>1. /\ acts' \in 0 .. MaxActs /\ active' \in Tabs /\ site' \in [Tabs -> Sites]
      /\ UNCHANGED <<granted, revision, tasks, pendingTab, view, surprised>>
      /\ tabEvents' = Append(tabEvents, NoTab) /\ Disturbs(NoTab)
  BY ActBound DEF Activate, PInv, PopupTypeOK, registrationVars, Disturbs
<1> QED BY <1>1, EventComes

LEMMA NavigateStep == ASSUME PInv, NEW t \in Tabs, NEW s \in Sites, Navigate(t, s) PROVE PInv'
<1>1. /\ acts' \in 0 .. MaxActs /\ active' \in Tabs /\ site' \in [Tabs -> Sites]
      /\ UNCHANGED <<granted, active, revision, tasks, pendingTab, view, surprised>>
      /\ tabEvents' = Append(tabEvents, t) /\ active \in Tabs
      /\ t # active => site'[active] = site[active]
  BY ActBound DEF Navigate, PInv, PopupTypeOK, registrationVars
<1>2. t = active => Disturbs(t) \/ pendingTab \notin {NoTab, active}
  BY DEF Disturbs
<1> QED BY <1>1, <1>2, EventComes

LEMMA ChangeElsewhereStep ==
  ASSUME RegInv, PInv, NEW o \in Origins, ChangeElsewhere(o) PROVE RegInv' /\ PInv'
<1> DEFINE origins == IF o \in granted THEN granted \ {o} ELSE granted \union {o}
<1>1. /\ Act /\ Regranted(origins) /\ surprised' = TRUE
      /\ UNCHANGED <<registered, passes, stale, failures, checked,
                     site, active, tabEvents, revision, tasks, pendingTab, view>>
  BY DEF ChangeElsewhere
<1>2. origins \in SUBSET Origins
  BY DEF RegInv, RegistrationTypeOK
<1> HIDE DEF origins
<1>3. RegInv'
  <2>1. passes' \in [Passes -> Pass]
    BY <1>1 DEF RegInv, RegistrationTypeOK
  <2> QED BY <1>1, <1>2, <2>1, RegrantedStep
<1>4. PInv'
  <2>1. surprised' \in BOOLEAN
    BY <1>1, Zenon
  <2>2. tasks' \in [Revisions -> Doing] /\ acts \in 0 .. MaxActs
    BY <1>1 DEF PInv, PopupTypeOK
  <2>3. Current' = Current
    BY <1>1 DEF Current
  <2> QED BY <1>1, <2>1, <2>2, <2>3, ActBound, OldTask
<1> QED BY <1>3, <1>4

-----------------------------------------------------------------------------
LEMMA InitPopupInv == ASSUME InitPopup PROVE RegInv /\ PInv
<1>1. RegInv
  <2>1. /\ granted \in SUBSET Origins /\ registered = {}
        /\ events = 0 /\ stale = FALSE /\ failures = 0 /\ checked = FALSE
        /\ passes = [i \in Passes |-> IF i = Background THEN Starting ELSE Resting]
    BY DEF InitPopup, InitRegistration
  <2>2. passes \in [Passes -> Pass] /\ passes[Background].step = "grants"
    BY <2>1, PassShapes, PassBounds
  <2>3. stale \in BOOLEAN /\ checked \in BOOLEAN
    BY <2>1, Zenon
  <2>4. RegistrationTypeOK
    BY <2>1, <2>2, <2>3, PassBounds DEF RegistrationTypeOK
  <2> QED BY <2>2, <2>4 DEF RegInv, PassInv
<1>2. /\ site \in [Tabs -> Sites] /\ active \in Tabs
      /\ tabEvents = << >> /\ acts = 0 /\ surprised = FALSE /\ revision = 1 /\ pendingTab = NoTab
      /\ tasks = [v \in Revisions |-> [NoTask EXCEPT !.step = IF v = 1 THEN "query" ELSE @]]
      /\ view = [site |-> NoSite, grant |-> "none", action |-> "none"]
  BY DEF InitPopup
<1>3. /\ tasks \in [Revisions -> Doing] /\ Current.step = "query"
  BY <1>2, PassBounds DEF NoTask, TaskSteps, Sites, Current, Doing
<1>4. /\ view \in [site : Sites, grant : Grants, action : {"none", "grant", "revoke"}]
      /\ view.action = "none"
  BY <1>2 DEF Sites, Grants
<1>5. surprised \in BOOLEAN
  BY <1>2, Zenon
<1>6. tabEvents \in Seq(Tabs \union {NoTab}) /\ pendingTab \in Tabs \union {NoTab}
  BY <1>2
<1>7. PopupTypeOK
  BY <1>2, <1>3, <1>4, <1>5, <1>6, PassBounds DEF PopupTypeOK
<1> QED BY <1>1, <1>2, <1>3, <1>4, <1>7 DEF PInv, ButtonInv, SiteInv, GrantInv

LEMMA PopupStepInv ==
  ASSUME RegInv, PInv, [NextPopup]_grantPopupVars PROVE RegInv' /\ PInv'
<1>1. CASE UNCHANGED popupVars /\ RegInv' /\ granted' = granted
  <2>1. PInv'
    BY <1>1 DEF popupVars, PInv, PopupTypeOK, ButtonInv, SiteInv, GrantInv, Disturbed, Disturbs,
                Current
  <2> QED BY <1>1, <2>1
<1>2. CASE UNCHANGED grantPopupVars
  <2>1. UNCHANGED popupVars /\ UNCHANGED registrationVars
    BY <1>2 DEF grantPopupVars
  <2>2. RegInv' /\ granted' = granted
    BY <2>1 DEF registrationVars, RegInv, RegistrationTypeOK, PassInv
  <2> QED BY <1>1, <2>1, <2>2
<1>3. CASE /\ PermissionEvent \/ Restart \/ \E i \in Passes : PassStep(i)
           /\ UNCHANGED popupVars
  BY <1>1, <1>3, RegistrationStep
<1>4. ASSUME UNCHANGED registrationVars, PInv' PROVE RegInv' /\ PInv'
  BY <1>4 DEF registrationVars, RegInv, RegistrationTypeOK, PassInv
<1>5. CASE TabEvent \/ Click \/ \E t \in Tabs : Activate(t) \/ \E s \in Sites : Navigate(t, s)
  <2>1. UNCHANGED registrationVars
    BY <1>5 DEF TabEvent, Click, Activate, Navigate
  <2>2. PInv'
    BY <1>5, TabEventStep, ClickStep, ActivateStep, NavigateStep
  <2> QED BY <1>4, <2>1, <2>2
<1>6. ASSUME NEW v \in Revisions, QueryTab(v) \/ Contains(v) PROVE RegInv' /\ PInv'
  <2>1. PInv'
    BY <1>6, QueryTabStep, ContainsStep
  <2>2. failures \in 0 .. MaxFailures
    BY DEF RegInv, RegistrationTypeOK
  <2>3. /\ UNCHANGED <<granted, registered, events, passes, stale, checked>>
        /\ failures' \in {failures, failures + 1} /\ (failures' = failures \/ failures < MaxFailures)
    BY <1>6 DEF QueryTab, Contains
  <2>4. RegInv'
    BY <2>2, <2>3, PassBounds, RegistrationRests
  <2> QED BY <2>1, <2>4
<1>7. ASSUME NEW v \in Revisions, ProbeServer(v) \/ Registered(v) PROVE RegInv' /\ PInv'
  BY <1>4, <1>7, ProbeServerStep, RegisteredStep DEF ProbeServer, Registered
<1> QED BY <1>2, <1>3, <1>5, <1>6, <1>7, MutateStep, ChangeElsewhereStep DEF NextPopup

\* Every state of the popup and of the registration satisfies the invariant.
THEOREM PopupInvariant == PopupSpec => [](RegInv /\ PInv)
BY InitPopupInv, PopupStepInv, PTL DEF PopupSpec

\* When all is at rest the relay is registered for the granted origins, provided
\* the background's last pass did not fail and no popup wrote after it read.
THEOREM RegistrationSettles == PopupSpec => []RegistrationFollowsGrants
<1>1. RegInv => RegistrationFollowsGrants
  BY PassBounds DEF RegInv, PassInv, RegistrationFollowsGrants, AtRest
<1> QED BY <1>1, PopupInvariant, PTL

\* A popup at rest is about the site of the active tab and shows its grant as it is,
\* unless the grant changed where the popup cannot see it.
THEOREM PopupTellsTruth == PopupSpec => []RestingPopupTellsTruth
<1>1. ASSUME PInv PROVE RestingPopupTellsTruth
  <2>1. SUFFICES ASSUME Running = {}, tabEvents = << >>, view.grant # "failed"
                 PROVE  /\ view.site = site[active]
                        /\ view.site # NoSite =>
                             surprised \/ view.grant = IF view.site \in granted THEN "present"
                                                                               ELSE "absent"
    BY DEF RestingPopupTellsTruth
  <2>2. Current.step = "none" /\ ~Disturbed
    BY <1>1, <2>1 DEF PInv, PopupTypeOK, Running, Current, Disturbed
  <2> QED BY <1>1, <2>1, <2>2 DEF PInv, SiteInv, GrantInv
<1> QED BY <1>1, PopupInvariant, PTL

-----------------------------------------------------------------------------
(* The printer streams of the worker.                                      *)

PortRecord ==
  [state : {"none", "open", "closed"}, subscriptions : SUBSET Subscriptions,
   denied : SUBSET Subscriptions, authorization : {"none", "asked", "yes", "no"},
   stream : 0 .. MaxAttempts, timer : BOOLEAN]
Progress == {"idle", "open", "cut"}

PageMessage == [kind : {"subscribe", "unsubscribe"}, subscription : Subscriptions]
WorkerMessage == [kind : {"denied", "unavailable", "snapshot"}, to : SUBSET Subscriptions]

WorkerTypes ==
  /\ owned \in [Ports -> PortRecord]
  /\ attempts \in [Ports -> [Attempts -> Progress]]
  /\ aborted \in [Ports -> SUBSET Attempts]
ChannelTypes ==
  /\ toWorker \in [Ports -> Seq(PageMessage \union {Disconnect})]
  /\ toRelay \in [Ports -> Seq(WorkerMessage \union {Disconnect})]
OutsideTypes ==
  /\ permitted \in BOOLEAN /\ clean \in BOOLEAN /\ serving \in BOOLEAN
  /\ removals \in Nat /\ troubles \in 0 .. MaxTroubles
PageTypes ==
  /\ callbacks \subseteq allocated /\ allocated \subseteq Subscriptions
  /\ window \in Seq(PageMessage)
  /\ shown \in [Subscriptions -> {"nothing", "lost", "denied", "unavailable", "snapshot"}]
RelayTypes ==
  relayed \subseteq Subscriptions /\ port \in Ports \union {NoPort} /\ reconnect \in BOOLEAN

RelayTypeOK == WorkerTypes /\ ChannelTypes /\ OutsideTypes /\ PageTypes /\ RelayTypes

Busy(tries) == {a \in Attempts : tries[a] # "idle"}

\* What the worker keeps for one port: the record `o`, the attempts `tries`, of
\* which `gone` are aborted, while the origin is `granting` since the last removal.
PortInv(o, tries, gone, granting) ==
  /\ gone \subseteq Busy(tries)
  /\ Busy(tries) \ gone \subseteq {o.stream}
  /\ o.stream # NoAttempt => o.state = "open" /\ o.subscriptions # {} /\ ~o.timer
  /\ o.state = "open" /\ (o.stream # NoAttempt \/ o.authorization = "yes") => granting

StreamInv ==
  /\ permitted => clean
  /\ \A p \in Ports : PortInv(owned[p], attempts[p], aborted[p], clean)

RInv == RelayTypeOK /\ StreamInv

-----------------------------------------------------------------------------
(* What a handler makes of one port's record.                              *)

LEMMA Fields ==
  ASSUME NEW o \in PortRecord
  PROVE  /\ o.state \in {"none", "open", "closed"} /\ o.subscriptions \in SUBSET Subscriptions
         /\ o.denied \in SUBSET Subscriptions
         /\ o.authorization \in {"none", "asked", "yes", "no"}
         /\ o.stream \in 0 .. MaxAttempts /\ o.timer \in BOOLEAN
BY DEF PortRecord

LEMMA Bounds == MaxPorts \in Nat /\ MaxAttempts \in Nat /\ MaxTroubles \in Nat /\ 0 \in 0 .. MaxAttempts
BY StreamAssumption

LEMMA NewPorts ==
  /\ NewPort \in PortRecord /\ Unconnected \in PortRecord
  /\ NewPort.state = "open" /\ NewPort.stream = NoAttempt /\ NewPort.authorization = "none"
  /\ Unconnected.state = "none" /\ Unconnected.stream = NoAttempt
BY Bounds DEF NewPort, Unconnected, PortRecord, NoAttempt

LEMMA StoppedFields ==
  ASSUME NEW o \in PortRecord
  PROVE  /\ Stopped(o) \in PortRecord
         /\ Stopped(o).state = o.state /\ Stopped(o).subscriptions = o.subscriptions
         /\ Stopped(o).denied = o.denied /\ Stopped(o).authorization = o.authorization
         /\ Stopped(o).stream = NoAttempt /\ Stopped(o).timer = FALSE
BY Bounds DEF Stopped, PortRecord, NoAttempt

LEMMA ClosedFields ==
  ASSUME NEW o \in PortRecord
  PROVE  Closed(o) \in PortRecord /\ Closed(o).state = "closed" /\ Closed(o).stream = NoAttempt
BY Bounds DEF Closed, Stopped, PortRecord, NoAttempt

LEMMA UnsubscribeFields ==
  ASSUME NEW o \in PortRecord, NEW s
  PROVE  /\ AfterUnsubscribe(o, s) \in PortRecord
         /\ AfterUnsubscribe(o, s).state = o.state
         /\ AfterUnsubscribe(o, s).authorization = o.authorization
         /\ \/ AfterUnsubscribe(o, s).stream = NoAttempt
            \/ /\ AfterUnsubscribe(o, s).stream = o.stream
               /\ AfterUnsubscribe(o, s).timer = o.timer
               /\ AfterUnsubscribe(o, s).subscriptions # {}
<1>1. PICK left \in PortRecord : left = AfterQuietUnsubscribe(o, s)
  BY DEF AfterQuietUnsubscribe, PortRecord
<1>2. /\ left.state = o.state /\ left.authorization = o.authorization
      /\ left.stream = o.stream /\ left.timer = o.timer
  BY <1>1 DEF AfterQuietUnsubscribe, PortRecord
<1>3. AfterUnsubscribe(o, s) = IF left.subscriptions = {} THEN Stopped(left) ELSE left
  BY <1>1 DEF AfterUnsubscribe, AfterQuietUnsubscribe
<1> QED BY <1>2, <1>3, StoppedFields

LEMMA AskingFields ==
  ASSUME NEW o \in PortRecord
  PROVE  /\ Asking(o) \in PortRecord
         /\ Asking(o).state = o.state /\ Asking(o).subscriptions = o.subscriptions
         /\ Asking(o).stream = o.stream /\ Asking(o).timer = o.timer
         /\ Asking(o).authorization = "yes" => o.authorization = "yes"
BY DEF Asking, PortRecord

LEMMA SubscribeFields ==
  ASSUME NEW o \in PortRecord, NEW s \in Subscriptions
  PROVE  LET joined == [o EXCEPT !.subscriptions = @ \union {s}] IN
         /\ joined \in PortRecord /\ joined.state = o.state /\ joined.stream = o.stream
         /\ joined.timer = o.timer /\ joined.authorization = o.authorization
         /\ joined.subscriptions # {}
BY DEF PortRecord

LEMMA TimerFields ==
  ASSUME NEW o \in PortRecord
  PROVE  LET fired == [o EXCEPT !.timer = FALSE] IN
         /\ fired \in PortRecord /\ fired.state = o.state /\ fired.stream = o.stream
         /\ fired.subscriptions = o.subscriptions /\ fired.authorization = o.authorization
         /\ ~fired.timer
BY DEF PortRecord

-----------------------------------------------------------------------------
(* Attempts, and the invariant of one port.                                *)

\* An attempt that is aborted, or of a port that has none, may start or settle.
LEMMA AbortKeeps ==
  ASSUME NEW o, NEW e, NEW tries, NEW gone, NEW g, NEW h, PortInv(o, tries, gone, g),
         e.stream = NoAttempt, e.state = "open" /\ e.authorization = "yes" => h
  PROVE  PortInv(e, tries, gone \union (Busy(tries) \intersect {o.stream}), h)
BY DEF PortInv, NoAttempt

LEMMA StartKeeps ==
  ASSUME NEW o \in PortRecord, NEW e, NEW tries \in [Attempts -> Progress], NEW gone, NEW g,
         NEW a \in Attempts, NEW begun \in Progress,
         PortInv(o, tries, gone, g), o.stream = NoAttempt, a \notin Busy(tries),
         begun # "idle", e.state = "open", e.subscriptions # {}, ~e.timer, e.stream = a, g
  PROVE  PortInv(e, [tries EXCEPT ![a] = begun], gone, g)
<1> DEFINE later == [tries EXCEPT ![a] = begun]
<1>1. Busy(later) = Busy(tries) \union {a}
  BY DEF Busy, Progress
<1>2. NoAttempt \notin Attempts
  BY DEF NoAttempt, Attempts
<1>3. Busy(tries) \ gone = {}
  BY <1>2 DEF PortInv, Busy
<1> HIDE DEF later
<1>4. gone \subseteq Busy(tries)
  BY DEF PortInv
<1>5. PortInv(e, later, gone, g)
  BY <1>1, <1>3, <1>4 DEF PortInv
<1> QED BY <1>5 DEF later

LEMMA SettleKeeps ==
  ASSUME NEW o \in PortRecord, NEW e, NEW tries \in [Attempts -> Progress], NEW gone, NEW g,
         NEW a \in Attempts, PortInv(o, tries, gone, g),
         \/ e = o /\ a \in gone
         \/ o.stream = a /\ e.stream = NoAttempt /\ e.authorization = o.authorization
            /\ e.state = o.state
  PROVE  PortInv(e, [tries EXCEPT ![a] = "idle"], gone \ {a}, g)
<1> DEFINE later == [tries EXCEPT ![a] = "idle"]
<1>1. Busy(later) = Busy(tries) \ {a}
  BY DEF Busy, Progress
<1> HIDE DEF later
<1>2. PortInv(e, later, gone \ {a}, g)
  BY <1>1 DEF PortInv
<1> QED BY <1>2 DEF later

-----------------------------------------------------------------------------
(* The steps of the worker.                                                *)

LEMMA PortValues ==
  ASSUME RInv, NEW p \in Ports
  PROVE  /\ owned[p] \in PortRecord /\ attempts[p] \in [Attempts -> Progress]
         /\ aborted[p] \in SUBSET Attempts
         /\ PortInv(owned[p], attempts[p], aborted[p], clean)
         /\ Unsettled(p) = Busy(attempts[p])
         /\ Aborting(p) = aborted[p] \union (Busy(attempts[p]) \intersect {owned[p].stream})
         /\ Aborting(p) \in SUBSET Attempts
BY DEF RInv, RelayTypeOK, WorkerTypes, StreamInv, Unsettled, Busy, Aborting

\* A step that touches the worker's state of one port.
LEMMA OnePort ==
  ASSUME RInv, NEW p \in Ports, UNCHANGED <<permitted, clean>>,
         NEW o \in PortRecord, owned' = [owned EXCEPT ![p] = o],
         NEW tries \in [Attempts -> Progress], attempts' = [attempts EXCEPT ![p] = tries],
         NEW gone \in SUBSET Attempts, aborted' = [aborted EXCEPT ![p] = gone],
         PortInv(o, tries, gone, clean)
  PROVE  WorkerTypes' /\ StreamInv'
BY DEF RInv, RelayTypeOK, WorkerTypes, StreamInv

LEMMA SameTries == ASSUME RInv, NEW p \in Ports PROVE attempts = [attempts EXCEPT ![p] = attempts[p]]
BY DEF RInv, RelayTypeOK, WorkerTypes
LEMMA SameAborted == ASSUME RInv, NEW p \in Ports PROVE aborted = [aborted EXCEPT ![p] = aborted[p]]
BY DEF RInv, RelayTypeOK, WorkerTypes
LEMMA SameOwned == ASSUME RInv, NEW p \in Ports PROVE owned = [owned EXCEPT ![p] = owned[p]]
BY DEF RInv, RelayTypeOK, WorkerTypes

\* What a fan leaves on a port.
LEMMA Fanned ==
  ASSUME ChannelTypes, NEW p \in Ports, NEW kind \in {"denied", "unavailable", "snapshot"},
         NEW ids \in SUBSET Subscriptions
  PROVE  /\ Fan(p, kind, ids) \in Seq(WorkerMessage \union {Disconnect})
         /\ \/ Fan(p, kind, ids) = toRelay[p]
            \/ Fan(p, kind, ids) = Append(toRelay[p], [kind |-> kind, to |-> ids])
<1>1. [kind |-> kind, to |-> ids] \in WorkerMessage
  BY DEF WorkerMessage
<1>2. toRelay[p] \in Seq(WorkerMessage \union {Disconnect})
  BY DEF ChannelTypes
<1> QED BY <1>1, <1>2 DEF Fan

LEMMA PostedAll ==
  ASSUME ChannelTypes, NEW p \in Ports, NEW kind \in {"denied", "unavailable", "snapshot"},
         NEW ids \in SUBSET Subscriptions, PostAll(p, kind, ids), UNCHANGED toWorker
  PROVE  ChannelTypes'
BY Fanned DEF PostAll, ChannelTypes

LEMMA AnswerStep ==
  ASSUME RInv, NEW p \in Ports, Answer(p)
  PROVE  WorkerTypes' /\ StreamInv' /\ ChannelTypes' /\ OutsideTypes'
<1>1. OutsideTypes' /\ ChannelTypes'
  BY Bounds DEF Answer, RInv, RelayTypeOK, OutsideTypes, ChannelTypes, portVars, grantVars
<1>2. PICK answer \in {"yes", "no"} : /\ owned' = [owned EXCEPT ![p].authorization = answer]
                                      /\ answer = "yes" => permitted
  BY DEF Answer
<1> DEFINE o == [owned[p] EXCEPT !.authorization = answer]
<1>3. /\ o \in PortRecord /\ o.state = owned[p].state /\ o.stream = owned[p].stream
      /\ o.subscriptions = owned[p].subscriptions /\ o.timer = owned[p].timer
      /\ o.authorization = answer
  BY PortValues DEF PortRecord
<1>4. owned' = [owned EXCEPT ![p] = o] /\ UNCHANGED <<attempts, aborted, permitted, clean>>
  BY <1>2 DEF Answer, grantVars
<1> HIDE DEF o
<1>5. answer = "yes" => clean
  BY <1>2 DEF RInv, StreamInv
<1>6. PortInv(owned[p], attempts[p], aborted[p], clean)
  BY PortValues
<1>7. PortInv(o, attempts[p], aborted[p], clean)
  BY <1>3, <1>5, <1>6 DEF PortInv
<1> QED BY <1>1, <1>3, <1>4, <1>7, OnePort, PortValues, SameTries, SameAborted

LEMMA DecideStep ==
  ASSUME RInv, NEW p \in Ports, Decide(p)
  PROVE  WorkerTypes' /\ StreamInv' /\ ChannelTypes' /\ OutsideTypes'
<1> DEFINE o == [owned[p] EXCEPT !.authorization = "none"]
           refused == [o EXCEPT !.denied = o.subscriptions]
           allowed == [o EXCEPT !.denied = {}]
<1>1. owned[p] \in PortRecord
  BY PortValues
<1>2. /\ o \in PortRecord /\ o.state = owned[p].state /\ o.stream = owned[p].stream
      /\ o.subscriptions = owned[p].subscriptions /\ o.timer = owned[p].timer
      /\ o.authorization = "none" /\ o.denied = owned[p].denied
  BY <1>1 DEF PortRecord
<1>3. /\ refused \in PortRecord /\ refused.state = o.state /\ refused.stream = o.stream
      /\ refused.subscriptions = o.subscriptions /\ refused.timer = o.timer
      /\ refused.authorization = o.authorization
  BY <1>2 DEF PortRecord
<1>4. /\ allowed \in PortRecord /\ allowed.state = o.state /\ allowed.stream = o.stream
      /\ allowed.subscriptions = o.subscriptions /\ allowed.timer = o.timer
      /\ allowed.authorization = o.authorization
  BY <1>2 DEF PortRecord
<1>5. /\ UNCHANGED <<aborted, toWorker, permitted, clean>> /\ OutsideTypes'
  BY DEF Decide, grantVars, RInv, RelayTypeOK, OutsideTypes
<1>6. PortInv(owned[p], attempts[p], aborted[p], clean) /\ attempts[p] \in [Attempts -> Progress]
      /\ aborted[p] \in SUBSET Attempts /\ Unsettled(p) = Busy(attempts[p])
  BY PortValues
<1>7. ChannelTypes
  BY DEF RInv, RelayTypeOK
<1>8. CASE owned' = [owned EXCEPT ![p] = o] /\ UNCHANGED <<attempts, toRelay>>
  <2>1. PortInv(o, attempts[p], aborted[p], clean)
    BY <1>2, <1>6 DEF PortInv
  <2> QED BY <1>2, <1>5, <1>6, <1>7, <1>8, <2>1, OnePort, SameTries, SameAborted DEF ChannelTypes
<1>9. CASE /\ owned' = [owned EXCEPT ![p] = refused] /\ UNCHANGED attempts
           /\ PostAll(p, "denied", o.subscriptions \ o.denied)
  <2>1. PortInv(refused, attempts[p], aborted[p], clean)
    BY <1>2, <1>3, <1>6 DEF PortInv
  <2>2. o.subscriptions \ o.denied \in SUBSET Subscriptions
    BY <1>2 DEF PortRecord
  <2>3. ChannelTypes'
    BY <1>5, <1>7, <1>9, <2>2, PostedAll
  <2> QED BY <1>3, <1>5, <1>6, <1>9, <2>1, <2>3, OnePort, SameTries, SameAborted
<1>10. CASE /\ owned' = [owned EXCEPT ![p] = allowed] /\ UNCHANGED <<attempts, toRelay>>
  <2>1. PortInv(allowed, attempts[p], aborted[p], clean)
    BY <1>2, <1>4, <1>6 DEF PortInv
  <2> QED BY <1>4, <1>5, <1>6, <1>7, <1>10, <2>1, OnePort, SameTries, SameAborted DEF ChannelTypes
<1>11. CASE /\ Open(p) /\ owned[p].authorization = "yes" /\ MayStart(allowed)
            /\ UNCHANGED toRelay
            /\ \E a \in Attempts \ Unsettled(p) :
                 /\ attempts' = [attempts EXCEPT ![p][a] = Connected]
                 /\ owned' = [owned EXCEPT ![p] = [allowed EXCEPT !.stream = a]]
  <2>1. PICK a \in Attempts \ Unsettled(p) :
          /\ attempts' = [attempts EXCEPT ![p][a] = Connected]
          /\ owned' = [owned EXCEPT ![p] = [allowed EXCEPT !.stream = a]]
    BY <1>11
  <2> DEFINE e == [allowed EXCEPT !.stream = a]
             tries == [attempts[p] EXCEPT ![a] = Connected]
  <2>2. allowed.state = "open" /\ allowed.stream = NoAttempt /\ ~allowed.timer
        /\ allowed.subscriptions # {}
    BY <1>11 DEF MayStart
  <2> HIDE DEF o, refused, allowed
  <2>3. /\ e \in PortRecord /\ e.state = "open" /\ e.stream = a
        /\ e.subscriptions # {} /\ ~e.timer
    <3>1. a \in 0 .. MaxAttempts
      BY Bounds DEF Attempts
    <3> QED BY <1>4, <2>2, <3>1 DEF PortRecord
  <2>4. Connected \in Progress /\ Connected # "idle"
    BY DEF Connected, Progress
  <2>5. clean
    BY <1>6, <1>11 DEF PortInv, Open
  <2>6. attempts' = [attempts EXCEPT ![p] = tries] /\ owned' = [owned EXCEPT ![p] = e]
        /\ tries \in [Attempts -> Progress]
    BY <1>6, <2>1, <2>4
  <2>7. owned[p].stream = NoAttempt
    BY <1>2, <1>4, <2>2
  <2> HIDE DEF e
  <2>8. PortInv(e, tries, aborted[p], clean)
    BY <1>1, <1>6, <2>1, <2>3, <2>4, <2>5, <2>7, StartKeeps
  <2> HIDE DEF tries
  <2>9. ChannelTypes'
    BY <1>5, <1>7, <1>11 DEF ChannelTypes
  <2> QED BY <1>5, <1>6, <2>3, <2>6, <2>8, <2>9, OnePort, SameAborted
<1> QED BY <1>8, <1>9, <1>10, <1>11 DEF Decide

LEMMA SnapshotStep ==
  ASSUME RInv, NEW p \in Ports, NEW a \in Attempts, Snapshot(p, a)
  PROVE  WorkerTypes' /\ StreamInv' /\ ChannelTypes' /\ OutsideTypes'
<1>1. UNCHANGED <<owned, attempts, aborted, toWorker, permitted, removals, clean, troubles, serving>>
      /\ PostAll(p, "snapshot", owned[p].subscriptions)
  BY DEF Snapshot, workerVars, grantVars
<1>2. owned[p].subscriptions \in SUBSET Subscriptions
  BY PortValues, Fields
<1>3. ChannelTypes'
  BY <1>1, <1>2, PostedAll DEF RInv, RelayTypeOK
<1> QED BY <1>1, <1>3 DEF RInv, RelayTypeOK, WorkerTypes, OutsideTypes, StreamInv

LEMMA SettleStep ==
  ASSUME RInv, NEW p \in Ports, NEW a \in Attempts, Settle(p, a)
  PROVE  WorkerTypes' /\ StreamInv' /\ ChannelTypes' /\ OutsideTypes'
<1> DEFINE tries == [attempts[p] EXCEPT ![a] = "idle"]
           gone == aborted[p] \ {a}
<1>1. /\ owned[p] \in PortRecord /\ attempts[p] \in [Attempts -> Progress]
      /\ aborted[p] \in SUBSET Attempts
      /\ PortInv(owned[p], attempts[p], aborted[p], clean)
  BY PortValues
<1>2. tries \in [Attempts -> Progress] /\ gone \in SUBSET Attempts
      /\ attempts' = [attempts EXCEPT ![p] = tries] /\ aborted' = [aborted EXCEPT ![p] = gone]
      /\ UNCHANGED <<toWorker, permitted, clean>> /\ OutsideTypes'
  BY <1>1 DEF Settle, Progress, grantVars, RInv, RelayTypeOK, OutsideTypes
<1>3. ChannelTypes /\ owned[p].subscriptions \in SUBSET Subscriptions
  BY PortValues, Fields DEF RInv, RelayTypeOK
<1> HIDE DEF gone
<1>4. CASE IsNewest(p, a)
  <2> DEFINE e == [owned[p] EXCEPT !.stream = NoAttempt, !.timer = TRUE]
  <2>1. owned' = [owned EXCEPT ![p] = e]
        /\ PostAll(p, "unavailable", owned[p].subscriptions)
    BY <1>4 DEF Settle
  <2>2. /\ e \in PortRecord /\ e.stream = NoAttempt /\ e.state = owned[p].state
        /\ e.authorization = owned[p].authorization
    BY <1>1, Bounds DEF PortRecord, NoAttempt
  <2>3. owned[p].stream = a
    BY <1>4 DEF IsNewest
  <2> HIDE DEF e
  <2>4. PortInv(e, tries, gone, clean)
    BY <1>1, <2>2, <2>3, SettleKeeps DEF gone
  <2>5. ChannelTypes'
    BY <1>2, <1>3, <2>1, PostedAll
  <2> HIDE DEF tries
  <2> QED BY <1>2, <2>1, <2>2, <2>4, <2>5, OnePort
<1>5. CASE ~IsNewest(p, a)
  <2>1. UNCHANGED <<owned, toRelay>>
    BY <1>5 DEF Settle
  <2>2. a \in aborted[p]
    <3>1. SUFFICES ASSUME a \notin aborted[p], attempts[p][a] = "cut" PROVE FALSE
      BY DEF Settle
    <3>2. owned[p].stream = a
      BY <1>1, <3>1 DEF PortInv, Busy
    <3>3. a # NoAttempt
      BY DEF Attempts, NoAttempt
    <3>4. owned[p].state = "open" /\ owned[p].subscriptions # {}
      BY <1>1, <3>2, <3>3 DEF PortInv
    <3> QED BY <1>5, <3>1, <3>2, <3>4 DEF IsNewest, Open
  <2>3. PortInv(owned[p], tries, gone, clean)
    BY <1>1, <2>2, SettleKeeps DEF gone
  <2>4. ChannelTypes'
    BY <1>2, <1>3, <2>1 DEF ChannelTypes
  <2> HIDE DEF tries
  <2> QED BY <1>1, <1>2, <2>1, <2>3, <2>4, OnePort, SameOwned
<1> QED BY <1>4, <1>5

LEMMA TimerStep ==
  ASSUME RInv, NEW p \in Ports, TimerFires(p)
  PROVE  WorkerTypes' /\ StreamInv' /\ ChannelTypes' /\ OutsideTypes'
<1> DEFINE fired == [owned[p] EXCEPT !.timer = FALSE]
<1>1. /\ owned[p] \in PortRecord /\ attempts[p] \in [Attempts -> Progress]
      /\ aborted[p] \in SUBSET Attempts
      /\ PortInv(owned[p], attempts[p], aborted[p], clean)
  BY PortValues
<1>2. /\ fired \in PortRecord /\ fired.state = owned[p].state /\ fired.stream = owned[p].stream
      /\ fired.subscriptions = owned[p].subscriptions
      /\ fired.authorization = owned[p].authorization /\ ~fired.timer
  BY <1>1, TimerFields
<1>3. owned' = [owned EXCEPT ![p] = Asking(fired)] /\ UNCHANGED <<attempts, aborted>>
      /\ UNCHANGED <<toWorker, toRelay, permitted, removals, clean, troubles, serving>>
  BY DEF TimerFires, portVars, grantVars
<1> HIDE DEF fired
<1>4. PortInv(Asking(fired), attempts[p], aborted[p], clean)
  BY <1>1, <1>2, AskingFields DEF PortInv
<1>5. Asking(fired) \in PortRecord
  BY <1>2, AskingFields
<1>6. ChannelTypes' /\ OutsideTypes'
  BY <1>3 DEF RInv, RelayTypeOK, ChannelTypes, OutsideTypes
<1> QED BY <1>1, <1>3, <1>4, <1>5, <1>6, OnePort, SameTries, SameAborted

\* The next message of the page's side, and what is left after it.
LEMMA NextForWorker ==
  ASSUME ChannelTypes, NEW p \in Ports, toWorker[p] # << >>
  PROVE  /\ Head(toWorker[p]) \in PageMessage \union {Disconnect}
         /\ Tail(toWorker[p]) \in Seq(PageMessage \union {Disconnect})
BY DEF ChannelTypes

LEMMA PortReceiveStep ==
  ASSUME RInv, NEW p \in Ports, WorkerReceive(p)
  PROVE  WorkerTypes' /\ StreamInv' /\ ChannelTypes' /\ OutsideTypes'
<1> DEFINE m == Head(toWorker[p])
<1>1. /\ owned[p] \in PortRecord /\ attempts[p] \in [Attempts -> Progress]
      /\ aborted[p] \in SUBSET Attempts
      /\ PortInv(owned[p], attempts[p], aborted[p], clean)
      /\ Aborting(p) = aborted[p] \union (Busy(attempts[p]) \intersect {owned[p].stream})
      /\ Aborting(p) \in SUBSET Attempts
  BY PortValues
<1>2. /\ UNCHANGED <<attempts, toRelay, permitted, removals, clean, troubles, serving>>
      /\ toWorker' = [toWorker EXCEPT ![p] = Tail(@)] /\ toWorker[p] # << >>
  BY DEF WorkerReceive, grantVars
<1>3. ChannelTypes' /\ OutsideTypes'
  BY <1>2, NextForWorker DEF RInv, RelayTypeOK, ChannelTypes, OutsideTypes
<1>4. m \in PageMessage \union {Disconnect}
  BY <1>2, NextForWorker DEF RInv, RelayTypeOK
<1> HIDE DEF m
<1>5. CASE Open(p) /\ Close(p)
  <2>1. PortInv(Closed(owned[p]), attempts[p], Aborting(p), clean)
    BY <1>1, ClosedFields, AbortKeeps
  <2>2. owned' = [owned EXCEPT ![p] = Closed(owned[p])]
        /\ aborted' = [aborted EXCEPT ![p] = Aborting(p)]
    BY <1>5 DEF Close
  <2> QED BY <1>1, <1>2, <1>3, <2>1, <2>2, ClosedFields, OnePort, SameTries
<1>6. CASE /\ m.kind = "subscribe" /\ Open(p) /\ UNCHANGED aborted
           /\ owned' = [owned EXCEPT ![p] = AfterSubscribe(owned[p], m.subscription)]
  <2> DEFINE joined == [owned[p] EXCEPT !.subscriptions = @ \union {m.subscription}]
  <2>1. m.subscription \in Subscriptions
    BY <1>4, <1>6 DEF PageMessage, Disconnect
  <2>2. /\ joined \in PortRecord /\ joined.state = owned[p].state
        /\ joined.stream = owned[p].stream /\ joined.timer = owned[p].timer
        /\ joined.authorization = owned[p].authorization /\ joined.subscriptions # {}
    BY <1>1, <2>1, SubscribeFields
  <2>3. owned' = [owned EXCEPT ![p] = Asking(joined)]
    BY <1>6 DEF AfterSubscribe
  <2> HIDE DEF joined
  <2>4. PortInv(Asking(joined), attempts[p], aborted[p], clean)
    BY <1>1, <2>2, AskingFields DEF PortInv
  <2>5. Asking(joined) \in PortRecord
    BY <2>2, AskingFields
  <2> QED BY <1>1, <1>2, <1>3, <1>6, <2>3, <2>4, <2>5, OnePort, SameTries, SameAborted
<1>7. CASE /\ m.kind = "unsubscribe" /\ Open(p)
           /\ owned' = [owned EXCEPT ![p] = AfterUnsubscribe(owned[p], m.subscription)]
           /\ aborted' = [aborted EXCEPT ![p] =
                            IF owned'[p].stream = NoAttempt THEN Aborting(p) ELSE aborted[p]]
  <2> DEFINE e == AfterUnsubscribe(owned[p], m.subscription)
             gone == IF e.stream = NoAttempt THEN Aborting(p) ELSE aborted[p]
  <2>1. /\ e \in PortRecord /\ e.state = owned[p].state
        /\ e.authorization = owned[p].authorization
        /\ \/ e.stream = NoAttempt
           \/ e.stream = owned[p].stream /\ e.timer = owned[p].timer /\ e.subscriptions # {}
    BY <1>1, UnsubscribeFields
  <2>2. owned' = [owned EXCEPT ![p] = e] /\ owned'[p] = e
    BY <1>7 DEF RInv, RelayTypeOK, WorkerTypes
  <2>3. aborted' = [aborted EXCEPT ![p] = gone] /\ gone \in SUBSET Attempts
    BY <1>1, <1>7, <2>2
  <2> HIDE DEF e
  <2>4. PortInv(e, attempts[p], gone, clean)
    <3>1. CASE e.stream = NoAttempt
      <4>1. owned[p].state = "open" /\ owned[p].authorization = "yes" => clean
        BY <1>1 DEF PortInv
      <4>2. PortInv(e, attempts[p], Aborting(p), clean)
        BY <1>1, <2>1, <3>1, <4>1, AbortKeeps
      <4> QED BY <3>1, <4>2
    <3>2. CASE e.stream # NoAttempt
      <4>1. PortInv(e, attempts[p], aborted[p], clean)
        BY <1>1, <2>1, <3>2 DEF PortInv
      <4> QED BY <3>2, <4>1
    <3> QED BY <3>1, <3>2
  <2> HIDE DEF gone
  <2> QED BY <1>1, <1>2, <1>3, <2>1, <2>2, <2>3, <2>4, OnePort, SameTries
<1>8. CASE ~Open(p) /\ UNCHANGED <<owned, aborted>>
  BY <1>1, <1>2, <1>3, <1>8, OnePort, SameOwned, SameTries, SameAborted
<1> QED BY <1>5, <1>6, <1>7, <1>8 DEF WorkerReceive, m

LEMMA RemovalStep ==
  ASSUME RInv, HandleRemoval
  PROVE  WorkerTypes' /\ StreamInv' /\ ChannelTypes' /\ OutsideTypes'
<1>1. /\ clean' = permitted /\ UNCHANGED <<attempts, permitted, toWorker, troubles, serving>>
      /\ removals > 0 /\ removals' = removals - 1
  BY DEF HandleRemoval
<1>2. OutsideTypes'
  BY <1>1 DEF RInv, RelayTypeOK, OutsideTypes
<1>3. ASSUME NEW p \in Ports
      PROVE  /\ owned'[p] \in PortRecord /\ aborted'[p] \in SUBSET Attempts
             /\ PortInv(owned'[p], attempts[p], aborted'[p], permitted)
             /\ toRelay'[p] \in Seq(WorkerMessage \union {Disconnect})
  <2>1. /\ owned[p] \in PortRecord /\ aborted[p] \in SUBSET Attempts
        /\ PortInv(owned[p], attempts[p], aborted[p], clean)
        /\ Aborting(p) = aborted[p] \union (Busy(attempts[p]) \intersect {owned[p].stream})
        /\ Aborting(p) \in SUBSET Attempts
    BY PortValues
  <2>2. toRelay[p] \in Seq(WorkerMessage \union {Disconnect}) /\ ChannelTypes
        /\ owned[p].subscriptions \in SUBSET Subscriptions
    BY <2>1, Fields DEF RInv, RelayTypeOK, ChannelTypes
  <2>3. CASE Open(p)
    <3>1. /\ owned'[p] = Closed(owned[p]) /\ aborted'[p] = Aborting(p)
          /\ toRelay'[p] = Fan(p, "denied", owned[p].subscriptions)
      BY <2>3 DEF HandleRemoval
    <3>2. PortInv(Closed(owned[p]), attempts[p], Aborting(p), permitted)
      BY <2>1, ClosedFields, AbortKeeps
    <3> QED BY <2>1, <2>2, <3>1, <3>2, ClosedFields, Fanned
  <2>4. CASE ~Open(p)
    <3>1. owned'[p] = owned[p] /\ aborted'[p] = aborted[p] /\ toRelay'[p] = toRelay[p]
      BY <2>4 DEF HandleRemoval
    <3> QED BY <2>1, <2>2, <2>4, <3>1 DEF PortInv, Open
  <2> QED BY <2>3, <2>4
<1>4. WorkerTypes' /\ ChannelTypes'
  BY <1>1, <1>3 DEF HandleRemoval, RInv, RelayTypeOK, WorkerTypes, ChannelTypes
<1>5. StreamInv'
  BY <1>1, <1>3 DEF StreamInv
<1> QED BY <1>2, <1>4, <1>5

-----------------------------------------------------------------------------
(* The user, the server, and the death of the worker.                      *)

\* A step that leaves the worker, and what it may do, alone.
LEMMA WorkerKept ==
  ASSUME RInv, UNCHANGED <<owned, attempts, aborted, clean>>, permitted' => clean
  PROVE  WorkerTypes' /\ StreamInv'
BY DEF RInv, RelayTypeOK, WorkerTypes, StreamInv

LEMMA OneTrouble ==
  ASSUME OutsideTypes, troubles < MaxTroubles, troubles' = troubles + 1
  PROVE  troubles' \in 0 .. MaxTroubles
BY Bounds DEF OutsideTypes

LEMMA GrantStep ==
  ASSUME RInv, Grant
  PROVE  WorkerTypes' /\ StreamInv' /\ ChannelTypes' /\ OutsideTypes'
<1>1. /\ permitted' = TRUE /\ clean' = TRUE
      /\ UNCHANGED <<owned, attempts, aborted, toWorker, toRelay, removals, troubles, serving>>
  BY DEF Grant, workerVars, portVars
<1>2. \A p \in Ports : PortInv(owned[p], attempts[p], aborted[p], TRUE)
  BY DEF RInv, StreamInv, PortInv
<1>3. StreamInv'
  BY <1>1, <1>2 DEF StreamInv
<1> QED BY <1>1, <1>3 DEF RInv, RelayTypeOK, WorkerTypes, ChannelTypes, OutsideTypes

LEMMA RevokeStep ==
  ASSUME RInv, Revoke
  PROVE  WorkerTypes' /\ StreamInv' /\ ChannelTypes' /\ OutsideTypes'
<1>1. /\ UNCHANGED <<owned, attempts, aborted, toWorker, toRelay, clean, serving>>
      /\ permitted' = FALSE /\ removals' = removals + 1
  BY DEF Revoke, workerVars, portVars
<1>2. troubles' \in 0 .. MaxTroubles
  BY OneTrouble DEF Revoke, RInv, RelayTypeOK
<1>3. WorkerTypes' /\ StreamInv'
  BY <1>1, WorkerKept
<1>4. ChannelTypes'
  BY <1>1 DEF RInv, RelayTypeOK, ChannelTypes
<1>5. removals \in Nat /\ clean \in BOOLEAN /\ serving \in BOOLEAN
  BY DEF RInv, RelayTypeOK, OutsideTypes
<1>6. removals' \in Nat
  BY <1>1, <1>5
<1>7. permitted' \in BOOLEAN
  BY <1>1, Zenon
<1>8. OutsideTypes'
  BY <1>1, <1>2, <1>5, <1>6, <1>7 DEF OutsideTypes
<1> QED BY <1>3, <1>4, <1>8

LEMMA ServerStartStep ==
  ASSUME RInv, ServerStarts
  PROVE  WorkerTypes' /\ StreamInv' /\ ChannelTypes' /\ OutsideTypes'
BY WorkerKept DEF ServerStarts, workerVars, portVars, grantVars, RInv, RelayTypeOK, StreamInv,
   ChannelTypes, OutsideTypes

\* A server that stops leaves every attempt to be settled.
LEMMA ServerStopStep ==
  ASSUME RInv, ServerStops
  PROVE  WorkerTypes' /\ StreamInv' /\ ChannelTypes' /\ OutsideTypes'
<1>1. UNCHANGED <<owned, aborted, toWorker, toRelay, permitted, removals, clean>>
  BY DEF ServerStops, portVars, grantVars
<1>2. ASSUME NEW p \in Ports
      PROVE  attempts'[p] \in [Attempts -> Progress] /\ Busy(attempts'[p]) = Busy(attempts[p])
  BY PortValues DEF ServerStops, Progress, Busy
<1>3. WorkerTypes'
  BY <1>1, <1>2 DEF ServerStops, RInv, RelayTypeOK, WorkerTypes
<1>4. StreamInv'
  BY <1>1, <1>2 DEF RInv, StreamInv, PortInv
<1>5. troubles' \in 0 .. MaxTroubles /\ serving' = FALSE
  BY OneTrouble DEF ServerStops, RInv, RelayTypeOK
<1> QED BY <1>1, <1>3, <1>4, <1>5 DEF RInv, RelayTypeOK, ChannelTypes, OutsideTypes

LEMMA DeathStep == ASSUME RInv, WorkerDies PROVE RInv'
<1>1. /\ owned' = [p \in Ports |-> Unconnected]
      /\ attempts' = [p \in Ports |-> [a \in Attempts |-> "idle"]]
      /\ aborted' = [p \in Ports |-> {}] /\ toWorker' = [p \in Ports |-> << >>]
      /\ UNCHANGED <<permitted, removals, clean, serving, callbacks, allocated, window, shown,
                     relayed, port, reconnect>>
  BY DEF WorkerDies, grantVars, pageVars, relayVars
<1>2. troubles' \in 0 .. MaxTroubles
  BY OneTrouble DEF WorkerDies, RInv, RelayTypeOK
<1>3. ASSUME NEW p \in Ports PROVE toRelay'[p] \in Seq(WorkerMessage \union {Disconnect})
  <2>1. toRelay[p] \in Seq(WorkerMessage \union {Disconnect})
    BY DEF RInv, RelayTypeOK, ChannelTypes
  <2> QED BY <2>1 DEF WorkerDies
<1>4. ChannelTypes' /\ WorkerTypes'
  BY <1>1, <1>3, NewPorts DEF WorkerDies, ChannelTypes, WorkerTypes, Progress
<1>5. \A p \in Ports : PortInv(Unconnected, [a \in Attempts |-> "idle"], {}, clean)
  BY NewPorts DEF PortInv, Busy
<1>6. StreamInv'
  BY <1>1, <1>5 DEF StreamInv, RInv
<1> QED BY <1>1, <1>2, <1>4, <1>6
        DEF RInv, RelayTypeOK, OutsideTypes, PageTypes, RelayTypes

-----------------------------------------------------------------------------
(* The relay.                                                              *)

\* The least of a set of numbers: a port that is unused may be opened.
Less == {pair \in Nat \X Nat : pair[1] < pair[2]}

LEMMA LeastNumber ==
  ASSUME NEW numbers \in SUBSET Nat, numbers # {}
  PROVE  \E n \in numbers : \A k \in numbers : n <= k
<1>1. IsWellFoundedOn(Less, Nat)
  BY NatLessThanWellFounded DEF OpToRel, Less
<1>2. PICK n \in numbers : \A k \in numbers : ~ (<<k, n>> \in Less)
  BY <1>1, WFMin
<1>3. \A k \in numbers : ~ (k < n)
  BY <1>2 DEF Less
<1> QED BY <1>3

LEMMA FreshPortIsUnused ==
  ASSUME NEW p \in Ports, Unused(p)
  PROVE  FreshPort \in Ports /\ Unused(FreshPort)
<1> DEFINE unused == {q \in Ports : Unused(q)}
<1>1. unused \in SUBSET Nat /\ unused # {}
  BY DEF Ports
<1>2. \E q \in unused : \A k \in unused : q <= k
  BY <1>1, LeastNumber
<1>3. \E q \in Ports : Unused(q) /\ \A k \in Ports : Unused(k) => q <= k
  BY <1>2
<1> QED BY <1>3 DEF FreshPort

RelayState == [subscriptions : SUBSET Subscriptions, port : Ports \union {NoPort}, reconnect : BOOLEAN]

LEMMA RelayRecord == ASSUME RelayTypes PROVE Relay \in RelayState
BY DEF RelayTypes, RelayState, Relay

LEMMA ScheduledFields ==
  ASSUME NEW rel \in RelayState
  PROVE  /\ Scheduled(rel) \in RelayState /\ PortLost(rel) \in RelayState
         /\ Scheduled(rel).subscriptions = rel.subscriptions
<1>1. Scheduled(rel) \in RelayState /\ Scheduled(rel).subscriptions = rel.subscriptions
  BY DEF Scheduled, RelayState
<1>2. [rel EXCEPT !.port = NoPort] \in RelayState
  BY DEF RelayState
<1>3. PortLost(rel) \in RelayState
  BY <1>2 DEF PortLost, Scheduled, RelayState
<1> QED BY <1>1, <1>3

LEMMA Telling ==
  ASSUME PageTypes, NEW ids, NEW kind \in {"lost", "denied", "unavailable", "snapshot"},
         Told(kind, ids)
  PROVE  shown' \in [Subscriptions -> {"nothing", "lost", "denied", "unavailable", "snapshot"}]
BY DEF Told, PageTypes

LEMMA OpenPortStep ==
  ASSUME RInv, NEW rel \in RelayState, OpenPort(rel),
         UNCHANGED <<attempts, aborted, toRelay, permitted, removals, clean, serving, callbacks>>
  PROVE  /\ WorkerTypes' /\ StreamInv' /\ ChannelTypes' /\ OutsideTypes' /\ RelayTypes'
         /\ shown' \in [Subscriptions -> {"nothing", "lost", "denied", "unavailable", "snapshot"}]
<1>1. rel.subscriptions \in SUBSET Subscriptions /\ rel.port \in Ports \union {NoPort}
      /\ rel.reconnect \in BOOLEAN
  BY DEF RelayState
<1>2. CASE /\ \E p \in Ports : Unused(p)
           /\ relayed' = rel.subscriptions /\ port' = FreshPort /\ reconnect' = rel.reconnect
           /\ owned' = [owned EXCEPT ![port'] = NewPort]
           /\ \E order \in [1 .. Cardinality(rel.subscriptions) -> rel.subscriptions] :
                /\ {order[i] : i \in DOMAIN order} = rel.subscriptions
                /\ toWorker' = [toWorker EXCEPT ![port'] =
                                  [i \in DOMAIN order |-> Subscribing(order[i])]]
           /\ UNCHANGED <<troubles, shown>>
  <2>1. port' \in Ports /\ Unused(port')
    BY <1>2, FreshPortIsUnused
  <2> DEFINE p == port'
  <2>2. PICK order \in [1 .. Cardinality(rel.subscriptions) -> rel.subscriptions] :
          toWorker' = [toWorker EXCEPT ![p] = [i \in DOMAIN order |-> Subscribing(order[i])]]
    BY <1>2
  <2>3. Cardinality(rel.subscriptions) \in Nat
    BY <1>1, StreamAssumption, FS_Subset, FS_CardinalityType
  <2>4. [i \in DOMAIN order |-> Subscribing(order[i])] \in Seq(PageMessage \union {Disconnect})
    BY <1>1, <2>3 DEF Subscribing, PageMessage
  <2>5. ChannelTypes'
    BY <2>1, <2>2, <2>4 DEF RInv, RelayTypeOK, ChannelTypes
  <2>6. Busy(attempts[p]) = {} /\ PortInv(owned[p], attempts[p], aborted[p], clean)
        /\ attempts[p] \in [Attempts -> Progress] /\ aborted[p] \in SUBSET Attempts
    BY <2>1, PortValues DEF Unused
  <2>7. PortInv(NewPort, attempts[p], aborted[p], clean)
    BY <2>6, NewPorts DEF PortInv
  <2>8. owned' = [owned EXCEPT ![p] = NewPort]
    BY <1>2
  <2> HIDE DEF p
  <2>9. p \in Ports
    BY <2>1 DEF p
  <2>10. WorkerTypes' /\ StreamInv'
    BY <2>6, <2>7, <2>8, <2>9, NewPorts, OnePort, SameTries, SameAborted
  <2> QED BY <1>1, <1>2, <2>1, <2>5, <2>10
          DEF RInv, RelayTypeOK, OutsideTypes, RelayTypes, PageTypes
<1>3. CASE /\ troubles < MaxTroubles
           /\ troubles' = troubles + 1
           /\ LET tried == Scheduled(rel) IN
                relayed' = tried.subscriptions /\ port' = tried.port /\ reconnect' = tried.reconnect
           /\ Told("lost", rel.subscriptions)
           /\ UNCHANGED <<owned, toWorker>>
  <2>1. Scheduled(rel) \in RelayState
    BY ScheduledFields
  <2>2. RelayTypes'
    BY <1>3, <2>1 DEF RelayState, RelayTypes
  <2>3. WorkerTypes' /\ StreamInv' /\ ChannelTypes'
    BY <1>3, WorkerKept DEF RInv, RelayTypeOK, ChannelTypes, StreamInv
  <2>4. OutsideTypes'
    BY <1>3, Bounds DEF RInv, RelayTypeOK, OutsideTypes
  <2> QED BY <1>3, <2>2, <2>3, <2>4, Telling DEF RInv, RelayTypeOK
<1> QED BY <1>2, <1>3 DEF OpenPort

\* A message to the worker: appended to the port it is for.
LEMMA Forwarded ==
  ASSUME ChannelTypes, NEW messages \in Seq(PageMessage \union {Disconnect}),
         \/ UNCHANGED toWorker
         \/ port \in Ports /\ toWorker' = [toWorker EXCEPT ![port] = @ \o messages]
  PROVE  toWorker' \in [Ports -> Seq(PageMessage \union {Disconnect})]
<1> DEFINE Messages == PageMessage \union {Disconnect}
<1>1. toWorker \in [Ports -> Seq(Messages)]
  BY DEF ChannelTypes
<1> HIDE DEF Messages
<1>2. \A p \in Ports : toWorker[p] \o messages \in Seq(Messages)
  BY <1>1 DEF Messages
<1>3. toWorker' \in [Ports -> Seq(Messages)]
  BY <1>1, <1>2
<1> QED BY <1>3 DEF Messages

LEMMA FromPage ==
  ASSUME RInv, window # << >>
  PROVE  /\ Head(window) \in PageMessage /\ Head(window).subscription \in Subscriptions
         /\ Tail(window) \in Seq(PageMessage)
<1>1. window \in Seq(PageMessage)
  BY DEF RInv, RelayTypeOK, PageTypes
<1>2. Head(window) \in PageMessage /\ Tail(window) \in Seq(PageMessage)
  BY <1>1
<1> QED BY <1>2 DEF PageMessage

LEMMA RelaySubscribeStep == ASSUME RInv, RelaySubscribe PROVE RInv'
<1> DEFINE s == Head(window).subscription
           rel == [Relay EXCEPT !.subscriptions = @ \union {s}]
<1>1. /\ s \in Subscriptions /\ window' \in Seq(PageMessage)
      /\ UNCHANGED <<attempts, aborted, toRelay, permitted, removals, clean, serving,
                     callbacks, allocated>>
  BY FromPage DEF RelaySubscribe, grantVars
<1>2. RelayTypes /\ Relay \in RelayState
  BY RelayRecord DEF RInv, RelayTypeOK
<1>3. rel \in RelayState /\ rel.subscriptions = relayed \union {s}
  BY <1>1, <1>2 DEF RelayState, Relay
<1>4. CASE port = NoPort /\ ~reconnect
  <2>1. OpenPort(rel)
    BY <1>4 DEF RelaySubscribe
  <2> HIDE DEF rel
  <2> QED BY <1>1, <1>3, <2>1, OpenPortStep DEF RInv, RelayTypeOK, PageTypes
<1>5. CASE ~(port = NoPort /\ ~reconnect)
  <2>1. /\ relayed' = relayed \union {s} /\ UNCHANGED <<owned, troubles, port, reconnect, shown>>
        /\ toWorker' = IF port = NoPort THEN toWorker
                       ELSE [toWorker EXCEPT ![port] = Append(@, Subscribing(s))]
    BY <1>3, <1>5 DEF RelaySubscribe
  <2>2. <<Subscribing(s)>> \in Seq(PageMessage \union {Disconnect})
        /\ Subscribing(s) \in PageMessage \union {Disconnect}
    BY <1>1 DEF Subscribing, PageMessage
  <2>3. toWorker' \in [Ports -> Seq(PageMessage \union {Disconnect})]
    BY <1>2, <2>1, <2>2 DEF RInv, RelayTypeOK, ChannelTypes, RelayTypes
  <2>4. WorkerTypes' /\ StreamInv'
    BY <1>1, <2>1, WorkerKept DEF RInv, StreamInv
  <2> QED BY <1>1, <1>2, <2>1, <2>3, <2>4
          DEF RInv, RelayTypeOK, ChannelTypes, OutsideTypes, PageTypes, RelayTypes
<1> QED BY <1>4, <1>5

LEMMA RelayUnsubscribeStep == ASSUME RInv, RelayUnsubscribe PROVE RInv'
<1> DEFINE s == Head(window).subscription
           left == relayed \ {s}
           told == IF left = {} THEN <<Unsubscribing(s), Disconnect>> ELSE <<Unsubscribing(s)>>
<1>1. /\ s \in Subscriptions /\ window' \in Seq(PageMessage)
      /\ UNCHANGED <<owned, attempts, aborted, permitted, removals, clean, troubles, serving,
                     callbacks, allocated, shown>>
  BY FromPage DEF RelayUnsubscribe, grantVars
<1>2. WorkerTypes' /\ StreamInv'
  BY <1>1, WorkerKept DEF RInv, StreamInv
<1>3. told \in Seq(PageMessage \union {Disconnect})
  <2>1. Unsubscribing(s) \in PageMessage
    BY <1>1 DEF Unsubscribing, PageMessage
  <2>2. /\ <<Unsubscribing(s)>> \in Seq(PageMessage \union {Disconnect})
        /\ <<Unsubscribing(s), Disconnect>> \in Seq(PageMessage \union {Disconnect})
    BY <2>1
  <2> QED BY <2>2, Zenon
<1>4. RelayTypes /\ ChannelTypes
  BY DEF RInv, RelayTypeOK
<1> HIDE DEF told
<1>5. CASE s \notin relayed
  <2>1. UNCHANGED <<relayed, port, reconnect, toWorker, toRelay>>
    BY <1>5 DEF RelayUnsubscribe
  <2> QED BY <1>1, <1>2, <1>4, <2>1
          DEF RInv, RelayTypeOK, ChannelTypes, OutsideTypes, PageTypes, RelayTypes
<1>6. CASE s \in relayed
  <2>1. /\ relayed' = left /\ reconnect' = (reconnect /\ left # {})
        /\ port' = IF left = {} THEN NoPort ELSE port
        /\ toWorker' = IF port = NoPort THEN toWorker
                       ELSE [toWorker EXCEPT ![port] = @ \o told]
        /\ toRelay' = IF port = NoPort \/ left # {} THEN toRelay
                      ELSE [toRelay EXCEPT ![port] = << >>]
    BY <1>6 DEF RelayUnsubscribe, told
  <2>2. ChannelTypes'
    BY <1>3, <1>4, <2>1, Forwarded DEF ChannelTypes, RelayTypes
  <2>3. RelayTypes'
    BY <1>4, <2>1 DEF RelayTypes
  <2> QED BY <1>1, <1>2, <2>2, <2>3 DEF RInv, RelayTypeOK, OutsideTypes, PageTypes
<1> QED BY <1>5, <1>6

LEMMA ReconnectStep == ASSUME RInv, Reconnect PROVE RInv'
<1> DEFINE rel == [Relay EXCEPT !.reconnect = FALSE]
<1>1. UNCHANGED <<attempts, aborted, toRelay, permitted, removals, clean, serving,
                  callbacks, allocated, window>>
  BY DEF Reconnect, grantVars
<1>2. RelayTypes /\ rel \in RelayState
  BY RelayRecord DEF RInv, RelayTypeOK, RelayState
<1>3. CASE OpenPort(rel)
  <2> HIDE DEF rel
  <2> QED BY <1>1, <1>2, <1>3, OpenPortStep DEF RInv, RelayTypeOK, PageTypes
<1>4. CASE reconnect' = FALSE /\ UNCHANGED <<relayed, port, shown, owned, toWorker, troubles>>
  <2>1. WorkerTypes' /\ StreamInv'
    BY <1>1, <1>4, WorkerKept DEF RInv, StreamInv
  <2> QED BY <1>1, <1>2, <1>4, <2>1
          DEF RInv, RelayTypeOK, ChannelTypes, OutsideTypes, PageTypes, RelayTypes
<1> QED BY <1>3, <1>4 DEF Reconnect

LEMMA RelayReceiveStep == ASSUME RInv, NEW p \in Ports, RelayReceive(p) PROVE RInv'
<1> DEFINE m == Head(toRelay[p])
<1>1. /\ UNCHANGED <<owned, attempts, aborted, toWorker, permitted, removals, clean, troubles,
                     serving, callbacks, allocated, window>>
      /\ toRelay[p] # << >> /\ toRelay' = [toRelay EXCEPT ![p] = Tail(@)]
  BY DEF RelayReceive, workerVars, grantVars
<1>2. toRelay[p] \in Seq(WorkerMessage \union {Disconnect})
  BY DEF RInv, RelayTypeOK, ChannelTypes
<1>3. m \in WorkerMessage \union {Disconnect}
      /\ Tail(toRelay[p]) \in Seq(WorkerMessage \union {Disconnect})
  BY <1>1, <1>2
<1>4. ChannelTypes' /\ WorkerTypes' /\ StreamInv' /\ OutsideTypes'
  BY <1>1, <1>3, WorkerKept DEF RInv, RelayTypeOK, ChannelTypes, StreamInv, OutsideTypes
<1>5. RelayTypes /\ PageTypes /\ Relay \in RelayState
  BY RelayRecord DEF RInv, RelayTypeOK
<1> HIDE DEF m
<1>6. CASE /\ LET rel == PortLost(Relay) IN
                relayed' = rel.subscriptions /\ port' = rel.port /\ reconnect' = rel.reconnect
           /\ Told("lost", relayed)
  <2>1. RelayTypes'
    BY <1>5, <1>6, ScheduledFields DEF RelayState, RelayTypes
  <2>2. PageTypes'
    BY <1>1, <1>5, <1>6, Telling DEF PageTypes
  <2> QED BY <1>4, <2>1, <2>2 DEF RInv, RelayTypeOK
<1>7. CASE /\ m.kind # "disconnect" /\ Told(m.kind, m.to \intersect relayed)
           /\ UNCHANGED <<relayed, port, reconnect>>
  <2>1. m.kind \in {"lost", "denied", "unavailable", "snapshot"}
    BY <1>3, <1>7 DEF WorkerMessage, Disconnect
  <2>2. PageTypes'
    BY <1>1, <1>5, <1>7, <2>1, Telling DEF PageTypes
  <2> QED BY <1>4, <1>5, <1>7, <2>2 DEF RInv, RelayTypeOK, RelayTypes
<1>8. CASE UNCHANGED <<shown, relayed, port, reconnect>>
  BY <1>1, <1>4, <1>5, <1>8 DEF RInv, RelayTypeOK, RelayTypes, PageTypes
<1> QED BY <1>6, <1>7, <1>8 DEF RelayReceive, m

LEMMA PageStep ==
  ASSUME RInv, NEW s \in Subscriptions, Subscribe(s) \/ Cancel(s)
  PROVE  RInv'
<1>1. UNCHANGED <<owned, attempts, aborted, toWorker, toRelay, permitted, removals, clean,
                  troubles, serving, shown, relayed, port, reconnect>>
  BY DEF Subscribe, Cancel, streamVars, workerVars, portVars, grantVars, relayVars
<1>2. Subscribing(s) \in PageMessage /\ Unsubscribing(s) \in PageMessage
  BY DEF Subscribing, Unsubscribing, PageMessage
<1>3. PageTypes'
  BY <1>1, <1>2 DEF Subscribe, Cancel, RInv, RelayTypeOK, PageTypes
<1> QED BY <1>1, <1>3, WorkerKept
        DEF RInv, RelayTypeOK, ChannelTypes, OutsideTypes, RelayTypes, StreamInv

-----------------------------------------------------------------------------
LEMMA InitStep == ASSUME InitRelay PROVE RInv
<1>1. WorkerTypes /\ ChannelTypes
  BY NewPorts DEF InitRelay, InitStreams, WorkerTypes, ChannelTypes, Progress
<1>3. OutsideTypes
  <2>1. serving \in BOOLEAN
    BY Zenon DEF InitRelay, InitStreams
  <2> QED BY <2>1, Bounds DEF InitRelay, InitStreams, OutsideTypes
<1>4. PageTypes /\ RelayTypes
  <2>1. reconnect \in BOOLEAN
    BY Zenon DEF InitRelay
  <2> QED BY <2>1 DEF InitRelay, PageTypes, RelayTypes
<1>2. StreamInv
  BY NewPorts DEF InitRelay, InitStreams, StreamInv, PortInv, Busy
<1> QED BY <1>1, <1>2, <1>3, <1>4 DEF RInv, RelayTypeOK

LEMMA StepInvariant == ASSUME RInv, [NextRelay]_relayRunVars PROVE RInv'
<1>1. ASSUME NEW s \in Subscriptions, Subscribe(s) \/ Cancel(s) PROVE RInv'
  BY <1>1, PageStep
<1>2. CASE RelayStep
  BY <1>2, RelaySubscribeStep, RelayUnsubscribeStep, ReconnectStep, RelayReceiveStep DEF RelayStep
<1>3. CASE WorkerStep
  <2>1. UNCHANGED <<pageVars, relayVars>>
    BY <1>3 DEF WorkerStep
  <2>2. PageTypes' /\ RelayTypes'
    BY <2>1 DEF pageVars, relayVars, RInv, RelayTypeOK, PageTypes, RelayTypes
  <2>3. ASSUME NEW p \in Ports, PortStep(p)
        PROVE  WorkerTypes' /\ StreamInv' /\ ChannelTypes' /\ OutsideTypes'
    BY <2>3, AnswerStep, DecideStep, TimerStep, PortReceiveStep, SnapshotStep, SettleStep DEF PortStep
  <2>4. WorkerTypes' /\ StreamInv' /\ ChannelTypes' /\ OutsideTypes'
    BY <1>3, <2>3, RemovalStep DEF WorkerStep
  <2> QED BY <2>2, <2>4 DEF RInv, RelayTypeOK
<1>4. CASE WorkerDies
  BY <1>4, DeathStep
<1>5. CASE StreamEnvironment /\ UNCHANGED <<pageVars, relayVars>>
  <2>1. PageTypes' /\ RelayTypes'
    BY <1>5 DEF pageVars, relayVars, RInv, RelayTypeOK, PageTypes, RelayTypes
  <2> QED BY <1>5, <2>1, GrantStep, RevokeStep, ServerStartStep, ServerStopStep
          DEF StreamEnvironment, RInv, RelayTypeOK
<1>6. CASE UNCHANGED relayRunVars
  BY <1>6, WorkerKept
     DEF relayRunVars, streamVars, workerVars, portVars, grantVars, pageVars, relayVars,
         RInv, RelayTypeOK, ChannelTypes, OutsideTypes, PageTypes, RelayTypes, StreamInv
<1> QED BY <1>1, <1>2, <1>3, <1>4, <1>5, <1>6 DEF NextRelay

THEOREM RelayInvariant == RelaySpec => []RInv
BY InitStep, StepInvariant, PTL DEF RelaySpec

\* The worker's, the relay's and the page's state keep their types
\* (inventory-stream.ts, relay.ts, subscriptions.ts).
THEOREM RelayTypesHold == RelaySpec => []RelayTypeOK
BY RelayInvariant, PTL DEF RInv

\* The server is never asked for a stream twice for one port, or for nobody
\* (inventory-stream.ts), whatever is revoked, aborted, cut or dies.
THEOREM StreamsAreOwned == RelaySpec => []OneStreamPerPort
<1>1. RInv => OneStreamPerPort
  BY DEF RInv, StreamInv, PortInv, OneStreamPerPort, Open, Unsettled, Busy
<1> QED BY <1>1, RelayInvariant, PTL

-----------------------------------------------------------------------------
(* Snapshots and the grant.                                                *)

\* A step that adds a snapshot to what the worker has sent on a port.
AddsSnapshot(p) ==
  Len(toRelay'[p]) > Len(toRelay[p]) /\ toRelay'[p][Len(toRelay'[p])].kind = "snapshot"

\* Only a fan of a snapshot adds one.
LEMMA FanAdds ==
  ASSUME ChannelTypes, NEW p \in Ports, NEW kind \in {"denied", "unavailable", "snapshot"},
         NEW ids \in SUBSET Subscriptions, toRelay'[p] = Fan(p, kind, ids), AddsSnapshot(p)
  PROVE  kind = "snapshot"
<1>1. toRelay[p] \in Seq(WorkerMessage \union {Disconnect})
  BY DEF ChannelTypes
<1>2. [kind |-> kind, to |-> ids] \in WorkerMessage \union {Disconnect}
  BY DEF WorkerMessage
<1>3. toRelay'[p] = Append(toRelay[p], [kind |-> kind, to |-> ids])
  BY <1>1, Fanned DEF AddsSnapshot
<1>4. toRelay'[p][Len(toRelay'[p])] = [kind |-> kind, to |-> ids]
  BY <1>1, <1>2, <1>3
<1> QED BY <1>4 DEF AddsSnapshot

LEMMA PostAdds ==
  ASSUME ChannelTypes, NEW p \in Ports, NEW q \in Ports,
         NEW kind \in {"denied", "unavailable", "snapshot"},
         NEW ids \in SUBSET Subscriptions, PostAll(q, kind, ids), AddsSnapshot(p)
  PROVE  p = q /\ kind = "snapshot"
<1>1. toRelay'[p] = IF p = q THEN Fan(p, kind, ids) ELSE toRelay[p]
  BY DEF PostAll, ChannelTypes
<1>2. Len(toRelay[p]) \in Nat
  BY DEF ChannelTypes
<1>3. p = q
  BY <1>1, <1>2 DEF AddsSnapshot
<1> QED BY <1>1, <1>3, FanAdds

\* Nothing is added where nothing is sent.
LEMMA NothingAdds ==
  ASSUME ChannelTypes, NEW p \in Ports, toRelay'[p] = toRelay[p]
  PROVE  ~AddsSnapshot(p)
<1>1. Len(toRelay[p]) \in Nat
  BY DEF ChannelTypes
<1> QED BY <1>1 DEF AddsSnapshot

LEMMA SnapshotsAreGranted ==
  ASSUME RInv, [NextRelay]_relayRunVars, NEW p \in Ports, AddsSnapshot(p)
  PROVE  clean
<1>0. ChannelTypes /\ toRelay[p] \in Seq(WorkerMessage \union {Disconnect})
  BY DEF RInv, RelayTypeOK, ChannelTypes
<1>1. ASSUME UNCHANGED toRelay PROVE FALSE
  BY <1>0, <1>1, NothingAdds
<1>2. ASSUME NEW q \in Ports, NEW a \in Attempts, Snapshot(q, a) PROVE clean
  <2>1. IsNewest(q, a) /\ PostAll(q, "snapshot", owned[q].subscriptions)
    BY <1>2 DEF Snapshot
  <2>2. owned[q].stream # NoAttempt /\ owned[q].state = "open"
    BY <2>1 DEF IsNewest, Open, Attempts, NoAttempt
  <2> QED BY <2>2, PortValues DEF PortInv
<1>3. ASSUME NEW q \in Ports, NEW a \in Attempts, Settle(q, a) PROVE FALSE
  <2>1. owned[q].subscriptions \in SUBSET Subscriptions
    BY PortValues, Fields
  <2> QED BY <1>0, <1>1, <1>3, <2>1, PostAdds DEF Settle
<1>4. ASSUME NEW q \in Ports, Decide(q) PROVE FALSE
  <2> DEFINE o == [owned[q] EXCEPT !.authorization = "none"]
             refused == o.subscriptions \ o.denied
  <2>1. refused \in SUBSET Subscriptions
    BY PortValues DEF PortRecord
  <2>2. PostAll(q, "denied", refused) \/ UNCHANGED toRelay
    BY <1>4 DEF Decide
  <2> HIDE DEF refused
  <2> QED BY <1>0, <1>1, <2>1, <2>2, PostAdds
<1>5. ASSUME HandleRemoval PROVE FALSE
  <2>1. owned[p].subscriptions \in SUBSET Subscriptions
    BY PortValues, Fields
  <2>2. toRelay'[p] = Fan(p, "denied", owned[p].subscriptions) \/ toRelay'[p] = toRelay[p]
    BY <1>5 DEF HandleRemoval
  <2> QED BY <1>0, <2>1, <2>2, FanAdds, NothingAdds
<1>6. ASSUME NEW q \in Ports, Answer(q) \/ TimerFires(q) \/ WorkerReceive(q) PROVE FALSE
  BY <1>1, <1>6 DEF Answer, TimerFires, WorkerReceive, portVars
<1>7. ASSUME StreamEnvironment PROVE FALSE
  BY <1>1, <1>7 DEF StreamEnvironment, Grant, Revoke, ServerStarts, ServerStops, portVars
<1>8. ASSUME NEW s \in Subscriptions, Subscribe(s) \/ Cancel(s) PROVE FALSE
  BY <1>1, <1>8 DEF Subscribe, Cancel, streamVars, portVars
<1>9. ASSUME RelaySubscribe \/ Reconnect PROVE FALSE
  BY <1>1, <1>9 DEF RelaySubscribe, Reconnect
<1>10. ASSUME RelayUnsubscribe PROVE FALSE
  <2>1. toRelay'[p] = toRelay[p] \/ toRelay'[p] = << >>
    BY <1>0, <1>10 DEF RelayUnsubscribe, ChannelTypes
  <2> QED BY <1>0, <2>1, NothingAdds DEF AddsSnapshot
<1>11. ASSUME NEW q \in Ports, RelayReceive(q) PROVE FALSE
  <2>1. \/ toRelay'[p] = toRelay[p]
        \/ toRelay[p] # << >> /\ toRelay'[p] = Tail(toRelay[p])
    BY <1>0, <1>11 DEF RelayReceive, ChannelTypes
  <2>2. toRelay[p] # << >> => Len(Tail(toRelay[p])) < Len(toRelay[p]) /\ Len(toRelay[p]) \in Nat
                              /\ Len(Tail(toRelay[p])) \in Nat
    BY <1>0
  <2>3. ASSUME toRelay[p] # << >>, toRelay'[p] = Tail(toRelay[p]) PROVE FALSE
    <3>1. Len(toRelay'[p]) < Len(toRelay[p]) /\ Len(toRelay[p]) \in Nat /\ Len(toRelay'[p]) \in Nat
      BY <2>2, <2>3
    <3> QED BY <3>1 DEF AddsSnapshot
  <2> QED BY <1>0, <2>1, <2>3, NothingAdds
<1>12. ASSUME WorkerDies PROVE FALSE
  <2>1. toRelay'[p] = toRelay[p] \/ toRelay'[p] = Append(toRelay[p], Disconnect)
    BY <1>12 DEF WorkerDies
  <2>2. ASSUME toRelay'[p] = Append(toRelay[p], Disconnect) PROVE FALSE
    <3>1. toRelay'[p][Len(toRelay'[p])] = Disconnect
      BY <1>0, <2>2
    <3> QED BY <3>1 DEF AddsSnapshot, Disconnect
  <2> QED BY <1>0, <2>1, <2>2, NothingAdds
<1>13. ASSUME UNCHANGED relayRunVars PROVE FALSE
  BY <1>1, <1>13 DEF relayRunVars, streamVars, portVars
<1> QED BY <1>2, <1>3, <1>4, <1>5, <1>6, <1>7, <1>8, <1>9, <1>10, <1>11, <1>12, <1>13
        DEF NextRelay, RelayStep, WorkerStep, PortStep

\* Once the removal of a grant was handled, no page is sent a snapshot before its
\* origin is granted again (inventory-stream.ts): not by an attempt under way, nor
\* by a check of the grant that was answered before.
THEOREM SnapshotsAreOfGrants == RelaySpec => SnapshotsNeedGrant
<1>1. RInv /\ [NextRelay]_relayRunVars
        => [\A p \in Ports :
              Len(toRelay'[p]) > Len(toRelay[p]) /\ toRelay'[p][Len(toRelay'[p])].kind = "snapshot"
                => clean]_relayRunVars
  BY SnapshotsAreGranted DEF AddsSnapshot
<1> QED BY <1>1, RelayInvariant, PTL DEF RelaySpec, SnapshotsNeedGrant
=============================================================================
