--------------------------- MODULE DiscoveryProofs ---------------------------
(***************************************************************************)
(* What a page shows of a scan is what answered that scan, a registered    *)
(* printer leaves the new results, and a listing that ends well is whole:  *)
(* for every machine, every named network, every number of probes and      *)
(* every order of their answers.                                           *)
(*                                                                         *)
(* From the scan up: what joining answers reports (JoinAll), that a probe  *)
(* is in one place at a time and counted (ScanInv), what a poll adds to    *)
(* what is under way (PollSays), that the addresses probed are those a     *)
(* reader means by sweeping a network (NamedAddressesAreProbed), the       *)
(* page's inductive invariant (PageInv: whatever was announced is shown or *)
(* under way, once, and the closing event comes last), and the command's   *)
(* (CommandInv).                                                           *)
(***************************************************************************)
EXTENDS DiscoveryPage, DiscoveryCommand, FiniteSetTheorems, TLAPS

-----------------------------------------------------------------------------
(* Recursive functions over the places of a sequence.                      *)

Less == {pair \in Nat \X Nat : pair[1] < pair[2]}

LEMMA LeastNumber ==
  ASSUME NEW numbers \in SUBSET Nat, numbers # {}
  PROVE  \E n \in numbers : \A k \in numbers : n <= k
<1>1. IsWellFoundedOn(Less, Nat)
  BY NatLessThanWellFounded DEF OpToRel, Less
<1>2. PICK n \in numbers : \A k \in numbers : ~ (<<k, n>> \in Less)
  BY <1>1, WFMin
<1>3. \A k \in numbers : ~ (k < n)
  BY <1>2 DEF Less
<1> QED BY <1>3

\* What LaterPoll joins, one probe after the other.
JoinedBy(g, s, order) ==
  g = [n \in 0..Len(order) |->
         IF n = 0 THEN Reported(s, <<>>) ELSE JoinProbe(g[n - 1], order[n])]
Joined(s, order) == CHOOSE g : JoinedBy(g, s, order)

LEMMA LaterPollJoins ==
  ASSUME NEW s, NEW order
  PROVE  LaterPoll(s, order) =
           Reported(Settled(Joined(s, order)[Len(order)].scan), Joined(s, order)[Len(order)].events)
BY DEF LaterPoll, Joined, JoinedBy

LEMMA JoinedExists ==
  ASSUME NEW s, NEW order, Len(order) \in Nat
  PROVE  JoinedBy(Joined(s, order), s, order)
<1> DEFINE Upto(n) == \E g : g = [m \in 0..n |->
                        IF m = 0 THEN Reported(s, <<>>) ELSE JoinProbe(g[m - 1], order[m])]
           wrong == {n \in 0..Len(order) : ~Upto(n)}
<1>1. CASE wrong = {}
  <2>1. Upto(Len(order))
    BY <1>1
  <2> QED BY <2>1 DEF Joined, JoinedBy
<1>2. CASE wrong # {}
  <2>1. PICK n \in wrong : \A k \in wrong : n <= k
    <3>1. wrong \in SUBSET Nat
      OBVIOUS
    <3> HIDE DEF wrong
    <3> QED BY <1>2, <3>1, LeastNumber
  <2>2. n \in 0..Len(order) /\ ~Upto(n)
    BY <2>1
  <2>3. n # 0
    <3>1. [m \in 0..0 |-> Reported(s, <<>>)] =
            [m \in 0..0 |-> IF m = 0 THEN Reported(s, <<>>)
                            ELSE JoinProbe([k \in 0..0 |-> Reported(s, <<>>)][m - 1], order[m])]
      OBVIOUS
    <3>2. Upto(0)
      BY <3>1
    <3> QED BY <2>2, <3>2
  <2>4. n - 1 \in 0..Len(order) /\ n - 1 \notin wrong
    BY <2>1, <2>2, <2>3
  <2>5. PICK g : g = [m \in 0..(n - 1) |->
                        IF m = 0 THEN Reported(s, <<>>) ELSE JoinProbe(g[m - 1], order[m])]
    BY <2>4
  <2> DEFINE h == [m \in 0..n |->
                     IF m = 0 THEN Reported(s, <<>>) ELSE JoinProbe(g[m - 1], order[m])]
  <2>6. \A m \in 0..(n - 1) : h[m] = g[m]
    <3>1. ASSUME NEW m \in 0..(n - 1) PROVE h[m] = g[m]
      <4>1. g[m] = IF m = 0 THEN Reported(s, <<>>) ELSE JoinProbe(g[m - 1], order[m])
        BY <2>5
      <4>2. m \in 0..n
        BY <2>2
      <4> QED BY <4>1, <4>2
    <3> QED BY <3>1
  <2>7. \A m \in 1..n : m - 1 \in 0..(n - 1)
    BY <2>2
  <2>8. h = [m \in 0..n |-> IF m = 0 THEN Reported(s, <<>>) ELSE JoinProbe(h[m - 1], order[m])]
    <3>1. \A m \in 0..n : h[m] = IF m = 0 THEN Reported(s, <<>>) ELSE JoinProbe(h[m - 1], order[m])
      <4>1. ASSUME NEW m \in 0..n, m # 0 PROVE h[m - 1] = g[m - 1]
        <5>1. m - 1 \in 0..(n - 1)
          BY <2>2, <4>1
        <5> HIDE DEF h
        <5> QED BY <2>6, <5>1
      <4> QED BY <4>1
    <3> QED BY <3>1
  <2> HIDE DEF h
  <2> QED BY <2>2, <2>8
<1> QED BY <1>1, <1>2

LEMMA JoinedSteps ==
  ASSUME NEW s, NEW order, Len(order) \in Nat
  PROVE  /\ Joined(s, order)[0] = Reported(s, <<>>)
         /\ \A n \in 1..Len(order) :
              Joined(s, order)[n] = JoinProbe(Joined(s, order)[n - 1], order[n])
<1> DEFINE g == Joined(s, order)
<1>1. g = [n \in 0..Len(order) |->
             IF n = 0 THEN Reported(s, <<>>) ELSE JoinProbe(g[n - 1], order[n])]
  BY JoinedExists DEF JoinedBy
<1> HIDE DEF g
<1>2. g[0] = Reported(s, <<>>)
  BY <1>1
<1>3. \A n \in 1..Len(order) : n \in 0..Len(order) /\ n # 0
  OBVIOUS
<1>4. \A n \in 1..Len(order) : g[n] = JoinProbe(g[n - 1], order[n])
  BY <1>1, <1>3
<1> QED BY <1>2, <1>4 DEF g

-----------------------------------------------------------------------------
(* What one poll reports.                                                  *)

Devices == UNION {{usb.printers[i] : i \in DOMAIN usb.printers} : usb \in UsbOutcomes}
PrinterKeys == ({"usb"} \X Devices) \union ({"network"} \X Addresses)
Event ==
  [type : {"prepared"}, total : Nat]
    \union [type : {"printer"}, key : PrinterKeys, configured : BOOLEAN]
    \union [type : {"usb_failure"}]
    \union [type : {"progress"}, completed : Nat, total : Nat]
    \union [type : {"completed", "failed"}]

ProbeSet == [target : Nat, address : Addresses]
Answers == [probe : ProbeSet, connected : BOOLEAN]

ScanFields == {"at", "scope", "targets", "configured", "total", "waiting", "probing",
               "answered", "done", "announced"}
IsScan(s) == DOMAIN s = ScanFields

\* Two values of one scan that differ in what was joined only.
SameScan(s, t) ==
  /\ IsScan(t)
  /\ t.scope = s.scope /\ t.targets = s.targets /\ t.configured = s.configured
  /\ t.total = s.total /\ t.waiting = s.waiting /\ t.probing = s.probing

NetworkEvent(s, address) == PrinterEvent(s, <<"network", address>>)

LEMMA EventKinds ==
  ASSUME NEW s, NEW address \in Addresses, NEW done \in Nat, s.total \in Nat
  PROVE  /\ NetworkEvent(s, address) \in Event
         /\ NetworkEvent(s, address).type = "printer"
         /\ NetworkEvent(s, address).key = <<"network", address>>
         /\ ProgressEvent(done, s.total) \in Event
         /\ ProgressEvent(done, s.total).type = "progress"
         /\ ProgressEvent(done, s.total).total = s.total
         /\ ProgressEvent(done, s.total).completed = done
<1>1. <<"network", address>> \in PrinterKeys
  BY DEF PrinterKeys
<1>2. (<<"network", address>> \in s.configured) \in BOOLEAN
  OBVIOUS
<1>3. PICK configured \in BOOLEAN : configured = (<<"network", address>> \in s.configured)
  BY <1>2, Zenon
<1>4. NetworkEvent(s, address)
        = [type |-> "printer", key |-> <<"network", address>>, configured |-> configured]
  BY <1>3, Zenon DEF NetworkEvent, PrinterEvent
<1>5. PICK key \in PrinterKeys : key = <<"network", address>>
  BY <1>1
<1>6. [type |-> "printer", key |-> key, configured |-> configured] \in Event
  BY DEF Event
<1>7. ProgressEvent(done, s.total) \in Event
  BY DEF Event, ProgressEvent
<1> QED BY <1>4, <1>5, <1>6, <1>7 DEF ProgressEvent

LEMMA JoinOne ==
  ASSUME NEW r, NEW answer, IsScan(r.scan)
  PROVE  LET t == JoinProbe(r, answer).scan
             address == answer.probe.address
             found == IF answer.connected /\ address \notin r.scan.announced
                      THEN <<NetworkEvent(r.scan, address)>> ELSE <<>>
         IN  /\ SameScan(r.scan, t) /\ t.at = r.scan.at
             /\ t.answered = r.scan.answered \ {answer} /\ t.done = r.scan.done + 1
             /\ t.announced = IF answer.connected THEN r.scan.announced \union {address}
                              ELSE r.scan.announced
             /\ JoinProbe(r, answer).events =
                  r.events \o found \o <<ProgressEvent(r.scan.done + 1, r.scan.total)>>
<1> DEFINE s == r.scan
           address == answer.probe.address
           t == [s EXCEPT !.answered = @ \ {answer}, !.done = @ + 1,
                          !.announced = IF answer.connected THEN @ \union {address} ELSE @]
<1>1. /\ DOMAIN t = ScanFields
      /\ t.at = s.at /\ t.scope = s.scope /\ t.targets = s.targets
      /\ t.configured = s.configured /\ t.total = s.total
      /\ t.waiting = s.waiting /\ t.probing = s.probing
      /\ t.answered = s.answered \ {answer} /\ t.done = s.done + 1
      /\ t.announced = IF answer.connected THEN s.announced \union {address} ELSE s.announced
  BY DEF IsScan, ScanFields
<1>2. /\ JoinProbe(r, answer).scan = t
      /\ JoinProbe(r, answer).events =
           r.events \o (IF answer.connected /\ address \notin s.announced
                        THEN <<NetworkEvent(s, address)>> ELSE <<>>)
             \o <<ProgressEvent(t.done, s.total)>>
  BY DEF JoinProbe, Reported, FoundFirst, NetworkEvent
<1> HIDE DEF t
<1> QED BY <1>1, <1>2 DEF SameScan, IsScan

IsPrinter(event) == event.type = "printer"

\* What the events say of the step from s to t: every address announced meanwhile
\* once, and where the progress stands, last.
Tells(s, t, events) ==
  /\ events \in Seq(Event)
  /\ \A i \in DOMAIN events :
       \/ events[i].type = "progress" /\ events[i].total = s.total
       \/ \E address \in t.announced \ s.announced : events[i] = NetworkEvent(s, address)
  /\ \A address \in t.announced \ s.announced :
       \E i \in DOMAIN events : events[i] = NetworkEvent(s, address)
  /\ \A i, k \in DOMAIN events :
       IsPrinter(events[i]) /\ IsPrinter(events[k]) /\ events[i].key = events[k].key => i = k
  /\ t.done = s.done => events = <<>>
  /\ t.done # s.done => events # <<>> /\ events[Len(events)] = ProgressEvent(t.done, s.total)

LEMMA Appended ==
  ASSUME NEW S, NEW events \in Seq(S), NEW event \in S
  PROVE  /\ events \o <<event>> = Append(events, event)
         /\ events \o <<>> = events
         /\ Append(events, event) \in Seq(S)
         /\ DOMAIN events = 1..Len(events) /\ Len(events) \in Nat
         /\ Len(Append(events, event)) = Len(events) + 1
         /\ DOMAIN Append(events, event) = 1..(Len(events) + 1)
         /\ \A i \in 1..Len(events) : Append(events, event)[i] = events[i]
         /\ Append(events, event)[Len(events) + 1] = event
OBVIOUS

\* A probe that found a printer, or found nothing new.
LEMMA TellsFound ==
  ASSUME NEW s, NEW t, NEW events, Tells(s, t, events), NEW address \in Addresses,
         address \notin t.announced, s.announced \subseteq t.announced, s.total \in Nat,
         NEW u, u.announced = t.announced \union {address}, u.done \in Nat, u.done # s.done
  PROVE  Tells(s, u, events \o <<NetworkEvent(s, address)>> \o <<ProgressEvent(u.done, s.total)>>)
<1> DEFINE found == NetworkEvent(s, address)
           more == Append(events, found)
<1>1. found \in Event /\ IsPrinter(found) /\ found.key = <<"network", address>>
  BY EventKinds DEF IsPrinter
<1>2. events \in Seq(Event)
  BY DEF Tells
<1>3. /\ events \o <<found>> = more /\ more \in Seq(Event)
      /\ DOMAIN events = 1..Len(events) /\ Len(events) \in Nat
      /\ Len(more) = Len(events) + 1 /\ DOMAIN more = 1..(Len(events) + 1)
      /\ \A i \in 1..Len(events) : more[i] = events[i]
      /\ more[Len(events) + 1] = found
  <2> HIDE DEF found
  <2> QED BY <1>1, <1>2, Appended
<1> HIDE DEF found, more
<1>4. Tells(s, u, more \o <<ProgressEvent(u.done, s.total)>>)
  <2> DEFINE last == ProgressEvent(u.done, s.total)
             all == Append(more, last)
  <2>1. last \in Event /\ last.type = "progress" /\ last.total = s.total /\ ~IsPrinter(last)
    BY EventKinds DEF IsPrinter
  <2>2. /\ more \o <<last>> = all /\ all \in Seq(Event)
        /\ Len(all) = Len(events) + 2 /\ DOMAIN all = 1..(Len(events) + 2)
        /\ \A i \in 1..(Len(events) + 1) : all[i] = more[i]
        /\ all[Len(events) + 2] = last
    <3> HIDE DEF last
    <3> QED BY <1>3, <2>1, Appended
  <2> HIDE DEF last, all
  <2>3. ASSUME NEW i \in DOMAIN all
        PROVE  \/ i \in DOMAIN events /\ all[i] = events[i]
               \/ i = Len(events) + 1 /\ all[i] = found
               \/ i = Len(events) + 2 /\ all[i] = last
    BY <1>3, <2>2
  <2>4. \A i \in DOMAIN all :
          \/ all[i].type = "progress" /\ all[i].total = s.total
          \/ \E other \in u.announced \ s.announced : all[i] = NetworkEvent(s, other)
    <3>1. \A other \in t.announced \ s.announced : other \in u.announced \ s.announced
      OBVIOUS
    <3>2. address \in u.announced \ s.announced
      OBVIOUS
    <3> QED BY <2>1, <2>3, <3>1, <3>2 DEF Tells, found
  <2>5. \A other \in u.announced \ s.announced :
          \E i \in DOMAIN all : all[i] = NetworkEvent(s, other)
    <3>1. ASSUME NEW other \in t.announced \ s.announced
          PROVE  \E i \in DOMAIN all : all[i] = NetworkEvent(s, other)
      <4>1. PICK i \in DOMAIN events : events[i] = NetworkEvent(s, other)
        BY DEF Tells
      <4>2. i \in DOMAIN all /\ all[i] = events[i]
        BY <1>3, <2>2, <4>1
      <4> QED BY <4>1, <4>2
    <3>2. Len(events) + 1 \in DOMAIN all /\ all[Len(events) + 1] = NetworkEvent(s, address)
      BY <1>3, <2>2 DEF found
    <3> QED BY <3>1, <3>2
  <2>6. ASSUME NEW i \in DOMAIN all, NEW k \in DOMAIN all, IsPrinter(all[i]), IsPrinter(all[k]),
               all[i].key = all[k].key
        PROVE  i = k
    <3>1. ASSUME NEW j \in DOMAIN events, IsPrinter(events[j])
          PROVE  events[j].key # <<"network", address>>
      <4>1. PICK other \in t.announced \ s.announced : events[j] = NetworkEvent(s, other)
        BY <3>1 DEF Tells, IsPrinter
      <4>2. events[j].key = <<"network", other>>
        BY <4>1 DEF NetworkEvent, PrinterEvent
      <4> QED BY <4>1, <4>2
    <3> QED BY <1>1, <2>1, <2>3, <2>6, <3>1 DEF Tells
  <2>7. u.done # s.done /\ all # <<>> /\ all[Len(all)] = ProgressEvent(u.done, s.total)
    BY <1>3, <2>2 DEF last
  <2>8. Tells(s, u, all)
    BY <2>2, <2>4, <2>5, <2>6, <2>7 DEF Tells
  <2> QED BY <2>2, <2>8 DEF last
<1> QED BY <1>3, <1>4 DEF found

LEMMA TellsNothing ==
  ASSUME NEW s, NEW t, NEW events, Tells(s, t, events), s.total \in Nat,
         NEW u, u.announced = t.announced, u.done \in Nat, u.done # s.done
  PROVE  Tells(s, u, events \o <<>> \o <<ProgressEvent(u.done, s.total)>>)
<1> DEFINE last == ProgressEvent(u.done, s.total)
           all == Append(events, last)
<1>1. last \in Event /\ last.type = "progress" /\ last.total = s.total /\ ~IsPrinter(last)
  BY DEF Event, ProgressEvent, IsPrinter
<1>2. /\ events \o <<>> \o <<last>> = all /\ all \in Seq(Event)
      /\ DOMAIN events = 1..Len(events) /\ Len(events) \in Nat
      /\ Len(all) = Len(events) + 1 /\ DOMAIN all = 1..(Len(events) + 1)
      /\ \A i \in 1..Len(events) : all[i] = events[i]
      /\ all[Len(events) + 1] = last
  <2> HIDE DEF last
  <2> QED BY <1>1, Appended DEF Tells
<1> HIDE DEF last, all
<1>3. ASSUME NEW i \in DOMAIN all
      PROVE  \/ i \in DOMAIN events /\ all[i] = events[i]
             \/ i = Len(events) + 1 /\ all[i] = last
  BY <1>2
<1>4. \A i \in DOMAIN all :
        \/ all[i].type = "progress" /\ all[i].total = s.total
        \/ \E other \in u.announced \ s.announced : all[i] = NetworkEvent(s, other)
  BY <1>1, <1>3 DEF Tells
<1>5. \A other \in u.announced \ s.announced :
        \E i \in DOMAIN all : all[i] = NetworkEvent(s, other)
  <2> SUFFICES ASSUME NEW other \in u.announced \ s.announced
               PROVE  \E i \in DOMAIN all : all[i] = NetworkEvent(s, other)
    OBVIOUS
  <2>1. PICK i \in DOMAIN events : events[i] = NetworkEvent(s, other)
    BY DEF Tells
  <2>2. i \in DOMAIN all /\ all[i] = events[i]
    BY <1>2
  <2> QED BY <2>1, <2>2
<1>6. \A i, k \in DOMAIN all :
        IsPrinter(all[i]) /\ IsPrinter(all[k]) /\ all[i].key = all[k].key => i = k
  BY <1>1, <1>3 DEF Tells
<1>7. all # <<>> /\ all[Len(all)] = ProgressEvent(u.done, s.total)
  BY <1>2 DEF last
<1>8. Tells(s, u, all)
  BY <1>2, <1>4, <1>5, <1>6, <1>7 DEF Tells
<1> QED BY <1>2, <1>8 DEF last

-----------------------------------------------------------------------------
(* All the probes of one poll.                                             *)

JoinedAddresses(order, n) == {order[i].probe.address : i \in {k \in 1..n : order[k].connected}}

JoinedSo(s, order, n, r) ==
  /\ SameScan(s, r.scan) /\ r.scan.at = s.at
  /\ r.scan.answered = s.answered \ {order[i] : i \in 1..n}
  /\ r.scan.done = s.done + n
  /\ r.scan.announced = s.announced \union JoinedAddresses(order, n)
  /\ Tells(s, r.scan, r.events)

LEMMA JoinMore ==
  ASSUME NEW s, IsScan(s), s.done \in Nat, s.total \in Nat, NEW order, NEW n \in Nat,
         NEW r, JoinedSo(s, order, n, r), order[n + 1] \in Answers
  PROVE  JoinedSo(s, order, n + 1, JoinProbe(r, order[n + 1]))
<1> DEFINE answer == order[n + 1]
           address == answer.probe.address
           q == JoinProbe(r, answer)
<1>1. IsScan(r.scan)
  BY DEF JoinedSo, SameScan
<1>2. address \in Addresses /\ answer.connected \in BOOLEAN
  BY DEF Answers, ProbeSet
<1>3. /\ SameScan(r.scan, q.scan) /\ q.scan.at = r.scan.at
      /\ q.scan.answered = r.scan.answered \ {answer} /\ q.scan.done = r.scan.done + 1
      /\ q.scan.announced = IF answer.connected THEN r.scan.announced \union {address}
                            ELSE r.scan.announced
      /\ q.events = r.events
                      \o (IF answer.connected /\ address \notin r.scan.announced
                          THEN <<NetworkEvent(r.scan, address)>> ELSE <<>>)
                      \o <<ProgressEvent(r.scan.done + 1, r.scan.total)>>
  BY <1>1, JoinOne
<1> HIDE DEF q
<1>4. SameScan(s, q.scan) /\ q.scan.at = s.at
  BY <1>3 DEF JoinedSo, SameScan
<1>5. 1..(n + 1) = (1..n) \union {n + 1}
  OBVIOUS
<1>6. q.scan.answered = s.answered \ {order[i] : i \in 1..(n + 1)}
  BY <1>3, <1>5 DEF JoinedSo
<1>7. q.scan.done = s.done + (n + 1) /\ q.scan.done \in Nat /\ q.scan.done # s.done
  BY <1>3 DEF JoinedSo
<1>8. q.scan.announced = s.announced \union JoinedAddresses(order, n + 1)
  <2>1. JoinedAddresses(order, n + 1) =
          JoinedAddresses(order, n) \union IF answer.connected THEN {address} ELSE {}
    BY <1>5 DEF JoinedAddresses
  <2> QED BY <1>3, <2>1 DEF JoinedSo
<1>9. r.scan.total = s.total /\ NetworkEvent(r.scan, address) = NetworkEvent(s, address)
      /\ r.scan.done + 1 = q.scan.done
  BY <1>3 DEF JoinedSo, SameScan, NetworkEvent, PrinterEvent
<1>10. Tells(s, q.scan, q.events)
  <2>1. Tells(s, r.scan, r.events) /\ s.announced \subseteq r.scan.announced
    BY DEF JoinedSo
  <2>2. CASE answer.connected /\ address \notin r.scan.announced
    <3>1. q.events = r.events \o <<NetworkEvent(s, address)>> \o <<ProgressEvent(q.scan.done, s.total)>>
      BY <1>3, <1>9, <2>2
    <3>2. q.scan.announced = r.scan.announced \union {address}
      BY <1>3, <2>2
    <3>3. PICK a \in Addresses : a = address
      BY <1>2
    <3>4. Tells(s, q.scan, r.events \o <<NetworkEvent(s, a)>> \o <<ProgressEvent(q.scan.done, s.total)>>)
      <4> HIDE DEF address
      <4>1. a \notin r.scan.announced /\ q.scan.announced = r.scan.announced \union {a}
        BY <2>2, <3>2, <3>3
      <4> QED BY ONLY s.total \in Nat, <1>7, <2>1, <4>1, TellsFound
    <3> QED BY <3>1, <3>3, <3>4
  <2>3. CASE ~(answer.connected /\ address \notin r.scan.announced)
    <3>1. q.events = r.events \o <<>> \o <<ProgressEvent(q.scan.done, s.total)>>
      BY <1>3, <1>9, <2>3
    <3>2. q.scan.announced = r.scan.announced
      BY <1>3, <2>3
    <3> QED BY <1>7, <2>1, <3>1, <3>2, TellsNothing
  <2> QED BY <2>2, <2>3
<1> QED BY <1>4, <1>6, <1>7, <1>8, <1>10 DEF JoinedSo, q

LEMMA JoinAll ==
  ASSUME NEW s, IsScan(s), s.done \in Nat, s.total \in Nat,
         NEW order, Len(order) \in Nat, \A i \in 1..Len(order) : order[i] \in Answers
  PROVE  JoinedSo(s, order, Len(order), Joined(s, order)[Len(order)])
<1> DEFINE So(n) == JoinedSo(s, order, n, Joined(s, order)[n])
           wrong == {n \in 0..Len(order) : ~So(n)}
<1>1. CASE wrong = {}
  BY <1>1
<1>2. CASE wrong # {}
  <2>1. PICK n \in wrong : \A k \in wrong : n <= k
    <3>1. wrong \in SUBSET Nat
      OBVIOUS
    <3> HIDE DEF wrong
    <3> QED BY <1>2, <3>1, LeastNumber
  <2>2. n \in 0..Len(order) /\ ~So(n)
    BY <2>1
  <2>3. n # 0
    <3>1. Joined(s, order)[0] = Reported(s, <<>>)
      BY JoinedSteps
    <3>2. 1..0 = {} /\ JoinedAddresses(order, 0) = {}
      BY DEF JoinedAddresses
    <3>3. Tells(s, s, <<>>)
      BY DEF Tells
    <3>4. Reported(s, <<>>).scan = s /\ Reported(s, <<>>).events = <<>>
      BY DEF Reported
    <3>5. JoinedSo(s, order, 0, Reported(s, <<>>))
      BY <3>2, <3>3, <3>4 DEF JoinedSo, SameScan
    <3> QED BY <2>2, <3>1, <3>5
  <2>4. n - 1 \in Nat /\ n - 1 \in 0..Len(order) /\ n - 1 \notin wrong /\ n \in 1..Len(order)
        /\ (n - 1) + 1 = n
    BY <2>1, <2>2, <2>3
  <2>5. JoinedSo(s, order, n - 1, Joined(s, order)[n - 1])
    BY <2>4
  <2>6. Joined(s, order)[n] = JoinProbe(Joined(s, order)[n - 1], order[n])
    BY <2>4, JoinedSteps
  <2>7. PICK m \in Nat : m = n - 1 /\ m + 1 = n
    BY <2>4
  <2>8. JoinedSo(s, order, m + 1, JoinProbe(Joined(s, order)[m], order[m + 1]))
    BY <2>4, <2>5, <2>7, JoinMore
  <2> QED BY <2>2, <2>6, <2>7, <2>8
<1> QED BY <1>1, <1>2

-----------------------------------------------------------------------------
(* The scan.                                                               *)

Answered(s) == {answer.probe : answer \in s.answered}
ConnectedAddresses(answers) == {answer.probe.address : answer \in {a \in answers : a.connected}}

\* A probe is in one place at a time, and counted: a scan is over when every probe
\* was joined.
ProbesInv(s) ==
  /\ s.waiting \subseteq ProbesOf(s.targets) /\ s.probing \subseteq ProbesOf(s.targets)
  /\ s.answered \subseteq [probe : ProbesOf(s.targets), connected : BOOLEAN]
  /\ s.waiting \cap s.probing = {}
  /\ Answered(s) \cap (s.waiting \union s.probing) = {}
  /\ \A a, b \in s.answered : a.probe = b.probe => a = b
  /\ IsFiniteSet(s.waiting) /\ IsFiniteSet(s.probing) /\ IsFiniteSet(s.answered)

NoProbes(s) == s.waiting = {} /\ s.probing = {} /\ s.answered = {} /\ s.announced = {} /\ s.done = 0

ScanInv(s) ==
  /\ IsScan(s) /\ s.at \in {"prepared", "sweeping", "completed", "failed"}
  /\ IsFiniteSet(ProbesOf(s.targets)) /\ ProbesOf(s.targets) \subseteq ProbeSet
  /\ s.total = Cardinality(ProbesOf(s.targets)) /\ s.total \in Nat /\ s.done \in Nat
  /\ s.announced \subseteq Addresses
  /\ ProbesInv(s)
  /\ s.at \in {"prepared", "failed"} => NoProbes(s)
  /\ s.at \in {"sweeping", "completed"} =>
       s.done + Cardinality(s.waiting) + Cardinality(s.probing) + Cardinality(s.answered) = s.total
  /\ s.at = "completed" <=> s.at # "prepared" /\ s.at # "failed" /\ s.done = s.total

LEMMA SettledFields ==
  ASSUME NEW s, IsScan(s)
  PROVE  /\ IsScan(Settled(s)) /\ SameScan(s, Settled(s))
         /\ Settled(s).answered = s.answered /\ Settled(s).done = s.done
         /\ Settled(s).announced = s.announced
         /\ Settled(s).at = IF s.done = s.total THEN "completed" ELSE s.at
<1>1. CASE s.done = s.total
  <2>1. Settled(s) = [s EXCEPT !.at = "completed"]
    BY <1>1 DEF Settled
  <2> QED BY <1>1, <2>1 DEF IsScan, ScanFields, SameScan
<1>2. CASE s.done # s.total
  BY <1>2 DEF Settled, SameScan
<1> QED BY <1>1, <1>2

LEMMA ScanCounts ==
  ASSUME NEW s, ScanInv(s)
  PROVE  /\ Cardinality(s.waiting) \in Nat /\ Cardinality(s.probing) \in Nat
         /\ Cardinality(s.answered) \in Nat
         /\ s.at = "completed" => s.waiting = {} /\ s.probing = {} /\ s.answered = {}
<1>1. IsFiniteSet(s.waiting) /\ IsFiniteSet(s.probing) /\ IsFiniteSet(s.answered)
  BY DEF ScanInv, ProbesInv
<1>2. Cardinality(s.waiting) \in Nat /\ Cardinality(s.probing) \in Nat
      /\ Cardinality(s.answered) \in Nat
  BY <1>1, FS_CardinalityType
<1>3. ASSUME s.at = "completed"
      PROVE  Cardinality(s.waiting) = 0 /\ Cardinality(s.probing) = 0
             /\ Cardinality(s.answered) = 0
  BY <1>2, <1>3 DEF ScanInv
<1> QED BY <1>1, <1>2, <1>3, FS_EmptySet

\* Every order in which the answers of a poll are joined has them all.
LEMMA OrderOfAll ==
  ASSUME NEW S, IsFiniteSet(S), NEW order \in SetToSeqs(S)
  PROVE  /\ Len(order) = Cardinality(S) /\ Len(order) \in Nat
         /\ \A i \in 1..Len(order) : order[i] \in S
         /\ {order[i] : i \in 1..Len(order)} = S
<1>1. /\ order \in [1..Cardinality(S) -> S]
      /\ \A i, j \in 1..Cardinality(S) : i # j => order[i] # order[j]
  BY DEF SetToSeqs
<1>2. Cardinality(S) \in Nat
  BY FS_CardinalityType
<1>3. Len(order) = Cardinality(S)
  BY <1>1, <1>2
<1>4. order \in Injection(1..Cardinality(S), S)
  BY <1>1 DEF Injection, IsInjective
<1>5. IsFiniteSet(1..Cardinality(S)) /\ Cardinality(1..Cardinality(S)) = Cardinality(S)
  BY <1>2, FS_Interval
<1>6. order \in Surjection(1..Cardinality(S), S)
  BY <1>4, <1>5, FS_Injection
<1>7. \A e \in S : \E i \in 1..Cardinality(S) : order[i] = e
  BY <1>6 DEF Surjection
<1> QED BY <1>1, <1>2, <1>3, <1>7

-----------------------------------------------------------------------------
(* A poll.                                                                 *)

UsbKey(device) == <<"usb", device>>

Announces(s, t, event) ==
  \/ event.type \in {"prepared", "progress"} /\ event.total = s.total
  \/ event.type = "usb_failure"
  \/ \E address \in t.announced \ s.announced : event = NetworkEvent(s, address)
  \/ s.at = "prepared" /\ \E device \in Devices : event = PrinterEvent(s, UsbKey(device))

\* Where the last of the progress events stands.
Stands(events, done) ==
  \A i \in DOMAIN events :
    /\ events[i].type = "progress"
    /\ \A k \in DOMAIN events : i < k => events[k].type # "progress"
    => events[i].completed = done

PollTells(s, t, events) ==
  /\ events \in Seq(Event)
  /\ \A i \in DOMAIN events : Announces(s, t, events[i])
  /\ \A address \in t.announced \ s.announced :
       \E i \in DOMAIN events : events[i] = NetworkEvent(s, address)
  /\ \A i, k \in DOMAIN events :
       IsPrinter(events[i]) /\ IsPrinter(events[k]) /\ events[i].key = events[k].key => i = k
  /\ Stands(events, t.done)
  /\ t.done # s.done => \E i \in DOMAIN events : events[i].type = "progress"
  /\ s.at = "prepared" => \E i \in DOMAIN events : events[i].type = "prepared"

\* What a poll does to the scan.
PollMoves(s, t) ==
  /\ IsScan(t) /\ ScanInv(t)
  /\ t.scope = s.scope /\ t.targets = s.targets /\ t.configured = s.configured /\ t.total = s.total
  /\ t.at # "prepared" /\ t.answered = {}
  /\ t.announced = s.announced \union ConnectedAddresses(s.answered)

LEMMA LaterPollMoves ==
  ASSUME NEW s, ScanInv(s), s.at = "sweeping", NEW order \in SetToSeqs(s.answered),
         NEW r, r = LaterPoll(s, order)
  PROVE  PollMoves(s, r.scan) /\ PollTells(s, r.scan, r.events)
<1> DEFINE q == Joined(s, order)[Len(order)]
<1>1. IsFiniteSet(s.answered) /\ s.answered \subseteq Answers /\ IsScan(s)
      /\ s.done \in Nat /\ s.total \in Nat
  BY DEF ScanInv, ProbesInv, Answers
<1>2. /\ Len(order) = Cardinality(s.answered) /\ Len(order) \in Nat
      /\ \A i \in 1..Len(order) : order[i] \in s.answered
      /\ {order[i] : i \in 1..Len(order)} = s.answered
  BY <1>1, OrderOfAll
<1>3. JoinedSo(s, order, Len(order), q)
  BY <1>1, <1>2, JoinAll
<1>4. r.scan = Settled(q.scan) /\ r.events = q.events
  BY LaterPollJoins DEF Reported
<1> HIDE DEF q
<1>5. q.scan.announced = s.announced \union ConnectedAddresses(s.answered)
  <2>1. JoinedAddresses(order, Len(order)) = ConnectedAddresses(s.answered)
    BY <1>2 DEF JoinedAddresses, ConnectedAddresses
  <2> QED BY <1>3, <2>1 DEF JoinedSo
<1>6. /\ SameScan(s, q.scan) /\ q.scan.at = "sweeping" /\ q.scan.answered = {}
      /\ q.scan.done = s.done + Cardinality(s.answered)
      /\ Tells(s, q.scan, r.events)
  BY <1>2, <1>3, <1>4 DEF JoinedSo
<1>7. /\ SameScan(s, r.scan) /\ r.scan.answered = {} /\ r.scan.done = q.scan.done
      /\ r.scan.announced = q.scan.announced
      /\ r.scan.at = IF q.scan.done = s.total THEN "completed" ELSE "sweeping"
  BY <1>4, <1>6, SettledFields DEF SameScan
<1>8. r.scan.announced \subseteq Addresses
  <2>1. ConnectedAddresses(s.answered) \subseteq Addresses
    BY <1>1 DEF ConnectedAddresses, Answers, ProbeSet
  <2> QED BY <1>5, <1>7, <2>1 DEF ScanInv
<1>9. ScanInv(r.scan)
  <2>1. Answered(r.scan) = {} /\ IsFiniteSet({}) /\ Cardinality({}) = 0
    BY <1>7, FS_EmptySet DEF Answered
  <2>2. ProbesInv(r.scan)
    BY <1>7, <2>1 DEF ProbesInv, SameScan, ScanInv
  <2>3. r.scan.done + Cardinality(r.scan.waiting) + Cardinality(r.scan.probing)
          + Cardinality(r.scan.answered) = s.total /\ r.scan.done \in Nat
    BY <1>6, <1>7, <2>1, ScanCounts DEF SameScan, ScanInv
  <2> QED BY <1>7, <1>8, <2>2, <2>3 DEF ScanInv, SameScan
<1>10. PollMoves(s, r.scan)
  BY <1>5, <1>7, <1>9 DEF PollMoves, SameScan
<1>11. PollTells(s, r.scan, r.events)
  <2>1. Tells(s, r.scan, r.events)
    BY <1>6, <1>7 DEF Tells
  <2>2. \A i \in DOMAIN r.events : Announces(s, r.scan, r.events[i])
    BY <2>1 DEF Tells, Announces
  <2>3. Stands(r.events, r.scan.done)
    <3>1. CASE r.scan.done = s.done
      BY <2>1, <3>1 DEF Tells, Stands
    <3>2. CASE r.scan.done # s.done
      <4>1. /\ r.events \in Seq(Event) /\ r.events # <<>>
            /\ r.events[Len(r.events)] = ProgressEvent(r.scan.done, s.total)
        BY <2>1, <3>2 DEF Tells
      <4>2. /\ Len(r.events) \in DOMAIN r.events
            /\ \A i \in DOMAIN r.events : i <= Len(r.events) /\ i \in Nat /\ Len(r.events) \in Nat
        BY <4>1
      <4>3. /\ ProgressEvent(r.scan.done, s.total).type = "progress"
            /\ ProgressEvent(r.scan.done, s.total).completed = r.scan.done
        BY DEF ProgressEvent
      <4> QED BY <4>1, <4>2, <4>3 DEF Stands
    <3> QED BY <3>1, <3>2
  <2>4. r.scan.done # s.done => \E i \in DOMAIN r.events : r.events[i].type = "progress"
    <3> SUFFICES ASSUME r.scan.done # s.done
                 PROVE  \E i \in DOMAIN r.events : r.events[i].type = "progress"
      OBVIOUS
    <3>1. /\ r.events \in Seq(Event) /\ r.events # <<>>
          /\ r.events[Len(r.events)] = ProgressEvent(r.scan.done, s.total)
      BY <2>1 DEF Tells
    <3>2. Len(r.events) \in DOMAIN r.events
      BY <3>1
    <3> QED BY <3>1, <3>2 DEF ProgressEvent
  <2> QED BY <2>1, <2>2, <2>3, <2>4 DEF PollTells, Tells
<1> QED BY <1>10, <1>11

LEMMA Concatenated ==
  ASSUME NEW S, NEW a \in Seq(S), NEW b \in Seq(S)
  PROVE  /\ a \o b \in Seq(S)
         /\ Len(a) \in Nat /\ Len(b) \in Nat
         /\ DOMAIN a = 1..Len(a) /\ DOMAIN b = 1..Len(b)
         /\ DOMAIN (a \o b) = 1..(Len(a) + Len(b))
         /\ \A i \in 1..Len(a) : (a \o b)[i] = a[i]
         /\ \A i \in 1..Len(b) : (a \o b)[Len(a) + i] = b[i]
         /\ \A i \in DOMAIN (a \o b) : i \in 1..Len(a) \/ i - Len(a) \in 1..Len(b)
         /\ \A i \in (Len(a) + 1)..(Len(a) + Len(b)) :
              i - Len(a) \in 1..Len(b) /\ (a \o b)[i] = b[i - Len(a)]
OBVIOUS

\* The events of a first poll.
Opening(s, t, events) ==
  /\ events \in Seq(Event)
  /\ \A i \in DOMAIN events : Announces(s, t, events[i])
  /\ \A i, k \in DOMAIN events :
       IsPrinter(events[i]) /\ IsPrinter(events[k]) /\ events[i].key = events[k].key => i = k
  /\ \A i \in DOMAIN events : events[i].type = "progress" => events[i].completed = 0
Printerless(events) == \A i \in DOMAIN events : ~IsPrinter(events[i])
Prepares(events) == \E i \in DOMAIN events : events[i].type = "prepared"

LEMMA OpeningConcat ==
  ASSUME NEW s, NEW t, NEW a, NEW b, Opening(s, t, a), Opening(s, t, b),
         Printerless(a) \/ Printerless(b)
  PROVE  /\ Opening(s, t, a \o b)
         /\ Prepares(a) => Prepares(a \o b)
         /\ Printerless(a) /\ Printerless(b) => Printerless(a \o b)
<1> DEFINE c == a \o b
<1>1. a \in Seq(Event) /\ b \in Seq(Event)
  BY DEF Opening
<1>2. /\ c \in Seq(Event)
      /\ Len(a) \in Nat /\ Len(b) \in Nat
      /\ DOMAIN a = 1..Len(a) /\ DOMAIN b = 1..Len(b)
      /\ DOMAIN c = 1..(Len(a) + Len(b))
      /\ \A i \in 1..Len(a) : c[i] = a[i]
      /\ \A i \in (Len(a) + 1)..(Len(a) + Len(b)) :
           i - Len(a) \in 1..Len(b) /\ c[i] = b[i - Len(a)]
  BY <1>1, Concatenated
<1> HIDE DEF c
<1>3. ASSUME NEW i \in DOMAIN c
      PROVE  \/ i \in DOMAIN a /\ c[i] = a[i]
             \/ i - Len(a) \in DOMAIN b /\ c[i] = b[i - Len(a)]
  BY <1>2
<1>4. \A i \in DOMAIN c : Announces(s, t, c[i])
  BY <1>3 DEF Opening
<1>5. \A i \in DOMAIN c : c[i].type = "progress" => c[i].completed = 0
  BY <1>3 DEF Opening
<1>6. ASSUME NEW i \in DOMAIN c, NEW k \in DOMAIN c, IsPrinter(c[i]), IsPrinter(c[k]),
             c[i].key = c[k].key
      PROVE  i = k
  <2>1. CASE Printerless(a)
    <3>1. i - Len(a) \in DOMAIN b /\ c[i] = b[i - Len(a)]
      BY <1>3, <1>6, <2>1 DEF Printerless
    <3>2. k - Len(a) \in DOMAIN b /\ c[k] = b[k - Len(a)]
      BY <1>3, <1>6, <2>1 DEF Printerless
    <3>3. i - Len(a) = k - Len(a)
      BY <1>6, <3>1, <3>2 DEF Opening
    <3> QED BY <1>2, <3>3
  <2>2. CASE Printerless(b)
    <3>1. i \in DOMAIN a /\ c[i] = a[i]
      BY <1>3, <1>6, <2>2 DEF Printerless
    <3>2. k \in DOMAIN a /\ c[k] = a[k]
      BY <1>3, <1>6, <2>2 DEF Printerless
    <3> QED BY <1>6, <3>1, <3>2 DEF Opening
  <2> QED BY <2>1, <2>2
<1>7. Opening(s, t, c)
  BY <1>2, <1>4, <1>5, <1>6 DEF Opening
<1>8. Prepares(a) => Prepares(c)
  <2> SUFFICES ASSUME NEW i \in DOMAIN a, a[i].type = "prepared" PROVE Prepares(c)
    BY DEF Prepares
  <2>1. i \in DOMAIN c /\ c[i] = a[i]
    BY <1>2
  <2> QED BY <2>1 DEF Prepares
<1>9. Printerless(a) /\ Printerless(b) => Printerless(c)
  BY <1>3 DEF Printerless
<1> QED BY <1>7, <1>8, <1>9 DEF c

LEMMA OpeningEvents ==
  ASSUME NEW s, NEW t, s.total \in Nat, s.at = "prepared", NEW usb \in UsbOutcomes
  PROVE  LET opening == <<PreparedEvent(s.total)>>
             devices == [i \in DOMAIN usb.printers |-> PrinterEvent(s, UsbKey(usb.printers[i]))]
             failures == [i \in 1..usb.failures |-> UsbFailureEvent]
             sweep == IF s.scope.network THEN <<ProgressEvent(0, s.total)>> ELSE <<>>
         IN  /\ Opening(s, t, opening) /\ Printerless(opening) /\ Prepares(opening)
             /\ Opening(s, t, devices)
             /\ Opening(s, t, failures) /\ Printerless(failures)
             /\ Opening(s, t, sweep) /\ Printerless(sweep)
<1> DEFINE opening == <<PreparedEvent(s.total)>>
           devices == [i \in DOMAIN usb.printers |-> PrinterEvent(s, UsbKey(usb.printers[i]))]
           failures == [i \in 1..usb.failures |-> UsbFailureEvent]
           sweep == IF s.scope.network THEN <<ProgressEvent(0, s.total)>> ELSE <<>>
<1>1. /\ usb.printers \in Seq({usb.printers[i] : i \in DOMAIN usb.printers})
      /\ \A i, k \in DOMAIN usb.printers : usb.printers[i] = usb.printers[k] => i = k
      /\ usb.failures \in Nat
  BY UsbListsOnce
<1>2. Opening(s, t, opening) /\ Printerless(opening) /\ Prepares(opening)
  <2>1. /\ PreparedEvent(s.total) \in Event /\ PreparedEvent(s.total).type = "prepared"
        /\ PreparedEvent(s.total).total = s.total
    BY DEF PreparedEvent, Event
  <2>2. Announces(s, t, PreparedEvent(s.total)) /\ ~IsPrinter(PreparedEvent(s.total))
    BY <2>1 DEF Announces, IsPrinter
  <2> QED BY <2>1, <2>2 DEF Opening, Printerless, Prepares
<1>3. Opening(s, t, devices)
  <2>1. ASSUME NEW i \in DOMAIN usb.printers
        PROVE  LET event == PrinterEvent(s, UsbKey(usb.printers[i])) IN
               /\ event \in Event /\ event.type = "printer" /\ event.key = UsbKey(usb.printers[i])
               /\ Announces(s, t, event)
    <3>1. usb.printers[i] \in Devices
      BY DEF Devices
    <3>2. UsbKey(usb.printers[i]) \in PrinterKeys
      BY <3>1 DEF UsbKey, PrinterKeys
    <3>3. PICK configured \in BOOLEAN : configured = (UsbKey(usb.printers[i]) \in s.configured)
      <4>1. (UsbKey(usb.printers[i]) \in s.configured) \in BOOLEAN
        OBVIOUS
      <4> QED BY <4>1, Zenon
    <3>4. PrinterEvent(s, UsbKey(usb.printers[i]))
            = [type |-> "printer", key |-> UsbKey(usb.printers[i]), configured |-> configured]
      BY <3>3, Zenon DEF PrinterEvent
    <3>5. PICK key \in PrinterKeys : key = UsbKey(usb.printers[i])
      BY <3>2
    <3>6. [type |-> "printer", key |-> key, configured |-> configured] \in Event
      BY DEF Event
    <3> QED BY <3>1, <3>4, <3>5, <3>6 DEF Announces
  <2>2. \A i \in DOMAIN usb.printers : PrinterEvent(s, UsbKey(usb.printers[i])) \in Event
    BY <2>1
  <2>3. Len(usb.printers) \in Nat /\ DOMAIN usb.printers = 1..Len(usb.printers)
    BY <1>1
  <2>4. devices \in Seq(Event) /\ DOMAIN devices = DOMAIN usb.printers
    BY <2>2, <2>3
  <2>5. ASSUME NEW i \in DOMAIN devices, NEW k \in DOMAIN devices, devices[i].key = devices[k].key
        PROVE  i = k
    <3>1. UsbKey(usb.printers[i]) = UsbKey(usb.printers[k])
      BY <2>1, <2>4, <2>5
    <3>2. usb.printers[i] = usb.printers[k]
      BY <3>1 DEF UsbKey
    <3> QED BY <1>1, <2>4, <3>2
  <2>6. ASSUME NEW i \in DOMAIN devices
        PROVE  Announces(s, t, devices[i]) /\ devices[i].type # "progress"
    BY <2>1, <2>4
  <2> HIDE DEF devices
  <2> QED BY <2>4, <2>5, <2>6 DEF Opening
<1>4. Opening(s, t, failures) /\ Printerless(failures)
  <2>1. /\ UsbFailureEvent \in Event /\ UsbFailureEvent.type = "usb_failure"
        /\ Announces(s, t, UsbFailureEvent) /\ ~IsPrinter(UsbFailureEvent)
    BY DEF UsbFailureEvent, Event, Announces, IsPrinter
  <2>2. failures \in Seq(Event) /\ \A i \in DOMAIN failures : failures[i] = UsbFailureEvent
    BY <1>1, <2>1
  <2> HIDE DEF failures
  <2> QED BY <2>1, <2>2 DEF Opening, Printerless
<1>5. Opening(s, t, sweep) /\ Printerless(sweep)
  <2>1. /\ ProgressEvent(0, s.total) \in Event /\ ProgressEvent(0, s.total).type = "progress"
        /\ ProgressEvent(0, s.total).total = s.total /\ ProgressEvent(0, s.total).completed = 0
    BY DEF ProgressEvent, Event
  <2>2. Announces(s, t, ProgressEvent(0, s.total)) /\ ~IsPrinter(ProgressEvent(0, s.total))
    BY <2>1 DEF Announces, IsPrinter
  <2>3. CASE s.scope.network
    BY <2>1, <2>2, <2>3 DEF Opening, Printerless
  <2>4. CASE ~s.scope.network
    BY <2>4 DEF Opening, Printerless
  <2> QED BY <2>3, <2>4
<1> QED BY <1>2, <1>3, <1>4, <1>5

LEMMA FirstPollMoves ==
  ASSUME NEW s, ScanInv(s), s.at = "prepared", NEW usb \in UsbOutcomes,
         NEW r, r = FirstPoll(s, usb)
  PROVE  PollMoves(s, r.scan) /\ PollTells(s, r.scan, r.events)
<1> DEFINE opening == <<PreparedEvent(s.total)>>
           devices == [i \in DOMAIN usb.printers |-> PrinterEvent(s, UsbKey(usb.printers[i]))]
           failures == [i \in 1..usb.failures |-> UsbFailureEvent]
           sweep == IF s.scope.network THEN <<ProgressEvent(0, s.total)>> ELSE <<>>
           swept == [s EXCEPT !.at = "sweeping", !.waiting = ProbesOf(s.targets)]
           t == r.scan
<1>1. /\ IsScan(s) /\ s.total \in Nat /\ NoProbes(s) /\ ProbesInv(s)
      /\ IsFiniteSet(ProbesOf(s.targets)) /\ s.total = Cardinality(ProbesOf(s.targets))
      /\ ConnectedAddresses({}) = {} /\ IsFiniteSet({}) /\ Cardinality({}) = 0
  BY FS_EmptySet DEF ScanInv, ConnectedAddresses
<1>2. /\ IsScan(swept) /\ swept.at = "sweeping" /\ swept.waiting = ProbesOf(s.targets)
      /\ swept.scope = s.scope /\ swept.targets = s.targets /\ swept.configured = s.configured
      /\ swept.total = s.total /\ swept.probing = s.probing /\ swept.answered = s.answered
      /\ swept.done = s.done /\ swept.announced = s.announced
  BY <1>1 DEF IsScan, ScanFields
<1>3. \/ t = Settled(swept) /\ r.events = opening \o sweep
      \/ t = [s EXCEPT !.at = "failed"] /\ r.events = opening
      \/ t = Settled(swept) /\ r.events = opening \o devices \o failures \o sweep
  BY DEF FirstPoll, Reported, UsbKey
<1> HIDE DEF swept
<1>4. PollMoves(s, t) /\ t.done = 0 /\ t.announced = {}
  <2>1. CASE t = Settled(swept)
    <3>1. /\ IsScan(t) /\ t.scope = s.scope /\ t.targets = s.targets
          /\ t.configured = s.configured /\ t.total = s.total
          /\ t.waiting = ProbesOf(s.targets) /\ t.probing = {} /\ t.answered = {}
          /\ t.done = 0 /\ t.announced = {}
          /\ t.at = IF 0 = s.total THEN "completed" ELSE "sweeping"
      BY <1>1, <1>2, <2>1, SettledFields DEF SameScan, NoProbes
    <3>2. ProbesInv(t)
      BY <1>1, <3>1 DEF ProbesInv, Answered
    <3>3. ScanInv(t)
      BY <1>1, <3>1, <3>2 DEF ScanInv
    <3> QED BY <1>1, <3>1, <3>3 DEF PollMoves, NoProbes
  <2>2. CASE t = [s EXCEPT !.at = "failed"]
    <3>1. /\ IsScan(t) /\ t.scope = s.scope /\ t.targets = s.targets
          /\ t.configured = s.configured /\ t.total = s.total
          /\ t.waiting = s.waiting /\ t.probing = s.probing /\ t.answered = s.answered
          /\ t.done = s.done /\ t.announced = s.announced /\ t.at = "failed"
      BY <1>1, <2>2 DEF IsScan, ScanFields
    <3>2. ScanInv(t)
      BY <1>1, <3>1 DEF ScanInv, ProbesInv, Answered, NoProbes
    <3> QED BY <1>1, <3>1, <3>2 DEF PollMoves, NoProbes
  <2> QED BY <1>3, <2>1, <2>2
<1> HIDE DEF t
<1>5. /\ Opening(s, t, opening) /\ Printerless(opening) /\ Prepares(opening)
      /\ Opening(s, t, devices)
      /\ Opening(s, t, failures) /\ Printerless(failures)
      /\ Opening(s, t, sweep) /\ Printerless(sweep)
  BY <1>1, OpeningEvents
<1> HIDE DEF opening, devices, failures, sweep
<1>6. Opening(s, t, r.events) /\ Prepares(r.events)
  <2>1. Opening(s, t, opening \o sweep) /\ Prepares(opening \o sweep)
    BY <1>5, OpeningConcat
  <2>2. Opening(s, t, opening \o devices) /\ Prepares(opening \o devices)
    BY <1>5, OpeningConcat
  <2>3. Opening(s, t, opening \o devices \o failures) /\ Prepares(opening \o devices \o failures)
    BY <1>5, <2>2, OpeningConcat
  <2>4. /\ Opening(s, t, opening \o devices \o failures \o sweep)
        /\ Prepares(opening \o devices \o failures \o sweep)
    BY <1>5, <2>3, OpeningConcat
  <2> QED BY <1>3, <1>5, <2>1, <2>4
<1>7. PollTells(s, t, r.events)
  <2>1. Stands(r.events, t.done)
    BY <1>4, <1>6 DEF Opening, Stands
  <2>2. t.done = s.done /\ t.announced = {}
    BY <1>1, <1>4 DEF NoProbes
  <2> QED BY <1>6, <2>1, <2>2 DEF PollTells, Opening, Prepares
<1> QED BY <1>4, <1>7 DEF t

LEMMA PollsMove ==
  ASSUME NEW s, ScanInv(s), NEW r \in Polls(s)
  PROVE  /\ s.at \in {"prepared", "sweeping"}
         /\ PollMoves(s, r.scan) /\ PollTells(s, r.scan, r.events)
<1>1. CASE s.at = "prepared"
  <2>1. PICK usb \in UsbOutcomes : r = FirstPoll(s, usb)
    BY <1>1 DEF Polls
  <2> QED BY <1>1, <2>1, FirstPollMoves
<1>2. CASE s.at = "sweeping"
  <2>1. PICK order \in SetToSeqs(s.answered) : r = LaterPoll(s, order)
    BY <1>2 DEF Polls
  <2> QED BY <1>2, <2>1, LaterPollMoves
<1>3. CASE s.at \notin {"prepared", "sweeping"}
  BY <1>3 DEF Polls
<1> QED BY <1>1, <1>2, <1>3

-----------------------------------------------------------------------------
(* The probes between two polls.                                           *)

\* A step of a probe leaves what a poll reports alone.
LEMMA BeginProbeKeeps ==
  ASSUME NEW s, ScanInv(s), NEW probe \in s.waiting, NEW t, t = BeginProbe(s, probe)
  PROVE  /\ ScanInv(t) /\ t.at = s.at /\ t.scope = s.scope /\ t.targets = s.targets
         /\ t.configured = s.configured /\ t.total = s.total /\ t.done = s.done
         /\ t.answered = s.answered /\ t.announced = s.announced
<1>1. /\ IsScan(t) /\ t.at = s.at /\ t.scope = s.scope /\ t.targets = s.targets
      /\ t.configured = s.configured /\ t.total = s.total /\ t.done = s.done
      /\ t.answered = s.answered /\ t.announced = s.announced
      /\ t.waiting = s.waiting \ {probe} /\ t.probing = s.probing \union {probe}
  BY DEF BeginProbe, ScanInv, IsScan, ScanFields
<1>2. probe \in ProbesOf(s.targets) /\ probe \notin s.probing /\ probe \notin Answered(s)
  BY DEF ScanInv, ProbesInv
<1>3. /\ IsFiniteSet(t.waiting) /\ Cardinality(t.waiting) = Cardinality(s.waiting) - 1
      /\ IsFiniteSet(t.probing) /\ Cardinality(t.probing) = Cardinality(s.probing) + 1
  <2>1. IsFiniteSet(s.waiting) /\ IsFiniteSet(s.probing)
    BY DEF ScanInv, ProbesInv
  <2>2. /\ IsFiniteSet(s.waiting \ {probe})
        /\ Cardinality(s.waiting \ {probe}) = Cardinality(s.waiting) - 1
    BY <2>1, FS_RemoveElement
  <2>3. /\ IsFiniteSet(s.probing \union {probe})
        /\ Cardinality(s.probing \union {probe}) = Cardinality(s.probing) + 1
    BY <1>2, <2>1, FS_AddElement
  <2> QED BY <1>1, <2>2, <2>3
<1>4. ProbesInv(t)
  BY <1>1, <1>2, <1>3 DEF ScanInv, ProbesInv, Answered
<1>5. s.at \notin {"prepared", "failed"}
  BY DEF ScanInv, NoProbes
<1>6. s.at \in {"sweeping", "completed"} =>
       t.done + Cardinality(t.waiting) + Cardinality(t.probing) + Cardinality(t.answered) = t.total
  BY <1>1, <1>3, ScanCounts DEF ScanInv
<1> QED BY <1>1, <1>4, <1>5, <1>6 DEF ScanInv

LEMMA AnswerProbeKeeps ==
  ASSUME NEW s, ScanInv(s), NEW probe \in s.probing, NEW connected \in BOOLEAN,
         NEW t, t = AnswerProbe(s, probe, connected)
  PROVE  /\ ScanInv(t) /\ t.at = s.at /\ t.scope = s.scope /\ t.targets = s.targets
         /\ t.configured = s.configured /\ t.total = s.total /\ t.done = s.done
         /\ t.announced = s.announced
         /\ ConnectedAddresses(t.answered) =
              ConnectedAddresses(s.answered) \union IF connected THEN {probe.address} ELSE {}
         /\ probe \in ProbesOf(s.targets)
<1> DEFINE answer == [probe |-> probe, connected |-> connected]
<1>1. /\ IsScan(t) /\ t.at = s.at /\ t.scope = s.scope /\ t.targets = s.targets
      /\ t.configured = s.configured /\ t.total = s.total /\ t.done = s.done
      /\ t.announced = s.announced /\ t.waiting = s.waiting
      /\ t.answered = s.answered \union {answer} /\ t.probing = s.probing \ {probe}
  BY DEF AnswerProbe, ScanInv, IsScan, ScanFields
<1>2. probe \in ProbesOf(s.targets) /\ probe \notin s.waiting /\ probe \notin Answered(s)
  BY DEF ScanInv, ProbesInv
<1>3. answer.probe = probe /\ answer.connected = connected
      /\ answer \in [probe : ProbesOf(s.targets), connected : BOOLEAN]
  BY <1>2
<1> HIDE DEF answer
<1>4. answer \notin s.answered
  BY <1>2, <1>3 DEF Answered
<1>5. /\ IsFiniteSet(t.answered) /\ Cardinality(t.answered) = Cardinality(s.answered) + 1
      /\ IsFiniteSet(t.probing) /\ Cardinality(t.probing) = Cardinality(s.probing) - 1
  <2>1. IsFiniteSet(s.answered) /\ IsFiniteSet(s.probing)
    BY DEF ScanInv, ProbesInv
  <2>2. /\ IsFiniteSet(s.probing \ {probe})
        /\ Cardinality(s.probing \ {probe}) = Cardinality(s.probing) - 1
    BY <2>1, FS_RemoveElement
  <2>3. /\ IsFiniteSet(s.answered \union {answer})
        /\ Cardinality(s.answered \union {answer}) = Cardinality(s.answered) + 1
    BY <1>4, <2>1, FS_AddElement
  <2> QED BY <1>1, <2>2, <2>3
<1>6. ProbesInv(t)
  BY <1>1, <1>2, <1>3, <1>5 DEF ScanInv, ProbesInv, Answered
<1>7. s.at \notin {"prepared", "failed"}
  BY DEF ScanInv, NoProbes
<1>8. s.at \in {"sweeping", "completed"} =>
       t.done + Cardinality(t.waiting) + Cardinality(t.probing) + Cardinality(t.answered) = t.total
  BY <1>1, <1>5, ScanCounts DEF ScanInv
<1>9. ScanInv(t)
  BY <1>1, <1>6, <1>7, <1>8 DEF ScanInv
<1>10. ConnectedAddresses(t.answered) =
         ConnectedAddresses(s.answered) \union IF connected THEN {probe.address} ELSE {}
  BY <1>1, <1>3 DEF ConnectedAddresses
<1> QED BY <1>1, <1>2, <1>9, <1>10

-----------------------------------------------------------------------------
(* Addresses and subnets.                                                  *)

\* Induction up to a number, for a property given as the set of numbers that have it.
LEMMA UpTo ==
  ASSUME NEW N \in Nat, NEW P, 0 \in P, \A n \in 1..N : n - 1 \in P => n \in P
  PROVE  \A n \in 0..N : n \in P
<1> DEFINE wrong == {n \in 0..N : n \notin P}
<1>1. CASE wrong = {}
  BY <1>1
<1>2. CASE wrong # {}
  <2>1. PICK n \in wrong : \A k \in wrong : n <= k
    <3>1. wrong \in SUBSET Nat
      OBVIOUS
    <3> HIDE DEF wrong
    <3> QED BY <1>2, <3>1, LeastNumber
  <2>2. n \in 1..N /\ n - 1 \in 0..N /\ n - 1 \notin wrong
    BY <2>1
  <2> QED BY <2>1, <2>2
<1> QED BY <1>1, <1>2

\* A function given by its first value and by a step exists.
Steps(N, V) == [(1..N) \X V -> V]
Stepwise(g, N, V, base, step) ==
  /\ g \in [0..N -> V] /\ g[0] = base
  /\ \A n \in 1..N : g[n] = step[<<n, g[n - 1]>>]

LEMMA StepByStep ==
  ASSUME NEW N \in Nat, NEW V, NEW base \in V, NEW step \in Steps(N, V)
  PROVE  \E g : Stepwise(g, N, V, base, step)
<1> DEFINE Good(g, n) == g \in [0..n -> V] /\ g[0] = base
                          /\ \A m \in 1..n : g[m] = step[<<m, g[m - 1]>>]
           P == {n \in 0..N : \E g : Good(g, n)}
<1>1. 0 \in P
  <2>1. PICK g : g = [m \in 0..0 |-> base]
    OBVIOUS
  <2>2. Good(g, 0)
    BY <2>1
  <2>3. 0 \in 0..N
    OBVIOUS
  <2> HIDE DEF Good
  <2> QED BY <2>2, <2>3
<1>2. ASSUME NEW n \in 1..N, n - 1 \in P PROVE n \in P
  <2>1. PICK g : Good(g, n - 1)
    BY <1>2
  <2> DEFINE h == [m \in 0..n |-> IF m = n THEN step[<<n, g[n - 1]>>] ELSE g[m]]
  <2>2. n - 1 \in 0..(n - 1) /\ g[n - 1] \in V
    BY <2>1
  <2>3. \A m \in 0..n : m # n => m \in 0..(n - 1)
    OBVIOUS
  <2>4. h \in [0..n -> V]
    BY <2>1, <2>2, <2>3 DEF Steps
  <2>5. h[0] = base
    BY <2>1
  <2>6. ASSUME NEW m \in 1..n PROVE h[m] = step[<<m, h[m - 1]>>]
    <3>1. m - 1 \in 0..n /\ m - 1 # n /\ h[m - 1] = g[m - 1]
      OBVIOUS
    <3>2. CASE m = n
      BY <3>1, <3>2
    <3>3. CASE m # n
      <4>1. m \in 1..(n - 1) /\ m \in 0..n /\ h[m] = g[m]
        BY <3>3
      <4> HIDE DEF h
      <4> QED BY <2>1, <3>1, <4>1
    <3> QED BY <3>2, <3>3
  <2> HIDE DEF h
  <2>7. Good(h, n)
    BY <2>4, <2>5, <2>6
  <2> QED BY <2>7
<1>3. N \in P
  <2> HIDE DEF P
  <2> QED BY <1>1, <1>2, UpTo
<1> QED BY <1>3 DEF Stepwise

LEMMA Powers ==
  /\ PowerOfTwo[0] = 1
  /\ \A n \in 1..AddressBits : PowerOfTwo[n] = 2 * PowerOfTwo[n - 1]
  /\ \A n \in 0..AddressBits : PowerOfTwo[n] \in Nat
<1> DEFINE Body(f) == [n \in 0..AddressBits |-> IF n = 0 THEN 1 ELSE 2 * f[n - 1]]
           step == [pair \in (1..AddressBits) \X Nat |-> 2 * pair[2]]
<1>1. AddressBits \in Nat
  BY AddressesHaveBits
<1>2. step \in Steps(AddressBits, Nat)
  BY DEF Steps
<1>3. PICK g : Stepwise(g, AddressBits, Nat, 1, step)
  <2> HIDE DEF step
  <2> QED BY <1>1, <1>2, StepByStep
<1>4. ASSUME NEW n \in 1..AddressBits
      PROVE  n - 1 \in 0..AddressBits /\ g[n] = 2 * g[n - 1]
  <2>1. n - 1 \in 0..AddressBits
    BY <1>1
  <2>2. <<n, g[n - 1]>> \in (1..AddressBits) \X Nat
    BY <1>3, <2>1 DEF Stepwise
  <2>3. step[<<n, g[n - 1]>>] = 2 * <<n, g[n - 1]>>[2]
    BY <2>2
  <2> HIDE DEF step
  <2> QED BY <1>3, <2>1, <2>3 DEF Stepwise
<1>5. g = Body(g)
  BY <1>1, <1>3, <1>4 DEF Stepwise
<1>6. PowerOfTwo = Body(PowerOfTwo)
  <2> DEFINE f == CHOOSE f : f = Body(f)
  <2>1. f = Body(f)
    BY <1>5
  <2>2. PowerOfTwo = f
    BY DEF PowerOfTwo
  <2> HIDE DEF f
  <2> QED BY <2>1, <2>2
<1>7. /\ PowerOfTwo[0] = 1
      /\ \A n \in 1..AddressBits : PowerOfTwo[n] = 2 * PowerOfTwo[n - 1]
  <2>1. PICK f : f = PowerOfTwo
    OBVIOUS
  <2>2. f = Body(f)
    BY <1>6, <2>1
  <2>3. f[0] = 1 /\ \A n \in 1..AddressBits : f[n] = 2 * f[n - 1]
    BY <1>1, <2>2
  <2> QED BY <2>1, <2>3
<1>8. \A n \in 0..AddressBits : PowerOfTwo[n] \in Nat
  <2> DEFINE P == {n \in 0..AddressBits : PowerOfTwo[n] \in Nat}
  <2>1. 0 \in P
    BY <1>1, <1>7
  <2>2. \A n \in 1..AddressBits : n - 1 \in P => n \in P
    BY <1>7
  <2>3. \A n \in 0..AddressBits : n \in P
    <3> HIDE DEF P
    <3> QED BY <1>1, <2>1, <2>2, UpTo
  <2> QED BY <2>3
<1> QED BY <1>7, <1>8

LEMMA PowerSizes ==
  ASSUME NEW n \in 0..AddressBits
  PROVE  /\ PowerOfTwo[n] \in Nat \ {0}
         /\ n = 1 => PowerOfTwo[n] = 2
         /\ n > 1 => PowerOfTwo[n] > 2
<1> DEFINE P == {m \in 0..AddressBits : /\ PowerOfTwo[m] \in Nat \ {0}
                                        /\ m = 1 => PowerOfTwo[m] = 2
                                        /\ m > 1 => PowerOfTwo[m] > 2}
<1>1. AddressBits \in Nat
  BY AddressesHaveBits
<1>2. 0 \in P
  BY <1>1, Powers
<1>3. ASSUME NEW m \in 1..AddressBits, m - 1 \in P PROVE m \in P
  <2>1. PowerOfTwo[m] = 2 * PowerOfTwo[m - 1] /\ PowerOfTwo[0] = 1
    BY Powers
  <2>2. PowerOfTwo[m - 1] \in Nat \ {0}
    BY <1>3
  <2>3. m = 1 \/ m - 1 = 1 \/ m - 1 > 1
    OBVIOUS
  <2> QED BY <1>3, <2>1, <2>2, <2>3
<1>4. \A m \in 0..AddressBits : m \in P
  <2> HIDE DEF P
  <2> QED BY <1>1, <1>2, <1>3, UpTo
<1> QED BY <1>4

LEMMA PowerDivides ==
  ASSUME NEW m \in 0..AddressBits
  PROVE  \E k \in Nat \ {0} : PowerOfTwo[AddressBits] = PowerOfTwo[m] * k
<1> DEFINE D == AddressBits - m
           P == {d \in 0..D : \E k \in Nat \ {0} : PowerOfTwo[m + d] = PowerOfTwo[m] * k}
<1>1. AddressBits \in Nat /\ D \in Nat /\ PowerOfTwo[m] \in Nat
  BY AddressesHaveBits, Powers
<1>2. 0 \in P
  <2>1. PowerOfTwo[m + 0] = PowerOfTwo[m] * 1
    BY <1>1
  <2> QED BY <1>1, <2>1
<1>3. ASSUME NEW d \in 1..D, d - 1 \in P PROVE d \in P
  <2>1. PICK k \in Nat \ {0} : PowerOfTwo[m + (d - 1)] = PowerOfTwo[m] * k
    BY <1>3
  <2>2. m + d \in 1..AddressBits /\ (m + d) - 1 = m + (d - 1)
    BY <1>1
  <2>3. PowerOfTwo[m + d] = 2 * (PowerOfTwo[m] * k)
    BY <2>1, <2>2, Powers
  <2>4. 2 * (PowerOfTwo[m] * k) = PowerOfTwo[m] * (2 * k)
    BY <1>1
  <2>5. 2 * k \in Nat \ {0}
    OBVIOUS
  <2> QED BY <2>3, <2>4, <2>5
<1>4. \A d \in 0..D : d \in P
  <2> HIDE DEF P, D
  <2> QED BY <1>1, <1>2, <1>3, UpTo
<1>5. D \in P /\ m + D = AddressBits
  BY <1>1, <1>4
<1> QED BY <1>5

LEMMA Remainder ==
  ASSUME NEW a \in Nat, NEW b \in Nat \ {0}
  PROVE  /\ a % b \in 0..(b - 1) /\ a - (a % b) \in Nat /\ (a - (a % b)) % b = 0
         /\ \E q \in Nat : a - (a % b) = q * b
<1>1. a % b \in 0..(b - 1)
  OBVIOUS
<1>2. PICK q \in Int : a = (q * b) + (a % b)
  <2>1. a = (b * (a \div b)) + (a % b) /\ a \div b \in Int
    OBVIOUS
  <2>2. PICK q \in Int : q = a \div b
    BY <2>1
  <2>3. b * q = q * b
    OBVIOUS
  <2> QED BY <2>1, <2>2, <2>3
<1>3. q \in Nat
  BY <1>1, <1>2
<1>4. a - (a % b) = q * b
  BY <1>1, <1>2
<1>5. q * b \in Nat /\ (q * b) % b = 0
  BY <1>3
<1> QED BY <1>1, <1>3, <1>4, <1>5

LEMMA WholeBlocks ==
  ASSUME NEW size \in Nat \ {0}, NEW q \in Nat, NEW k \in Nat, q * size < size * k
  PROVE  (q * size) + size <= size * k
<1>1. q < k
  <2> SUFFICES ASSUME k <= q PROVE FALSE
    OBVIOUS
  <2>1. PICK d \in Nat : q = k + d
    BY q - k \in Nat, q = k + (q - k)
  <2>2. (k + d) * size = (size * k) + (d * size)
    OBVIOUS
  <2>3. d * size \in Nat /\ size * k \in Nat
    OBVIOUS
  <2> QED BY <2>1, <2>2, <2>3
<1>2. PICK d \in Nat : k = (q + 1) + d
  BY <1>1, k - (q + 1) \in Nat, k = (q + 1) + (k - (q + 1))
<1>3. size * ((q + 1) + d) = ((q * size) + size) + (d * size)
  OBVIOUS
<1>4. d * size \in Nat /\ q * size \in Nat
  OBVIOUS
<1> QED BY <1>2, <1>3, <1>4

LEMMA SubnetShape ==
  ASSUME NEW subnet \in Subnets
  PROVE  LET size == BlockSize(subnet.prefix) IN
         /\ subnet.prefix \in 0..AddressBits /\ size \in Nat \ {0}
         /\ subnet.network \in Nat /\ subnet.network % size = 0
         /\ subnet.network + size <= PowerOfTwo[AddressBits]
<1>1. PICK address \in Addresses, prefix \in 0..AddressBits : subnet = Subnet(address, prefix)
  BY DEF Subnets
<1> DEFINE size == BlockSize(prefix)
<1>2. subnet.prefix = prefix /\ subnet.network = address - (address % size)
  BY <1>1 DEF Subnet, Masked
<1>3. /\ AddressBits \in Nat /\ AddressBits - prefix \in 0..AddressBits
      /\ size \in Nat \ {0} /\ PowerOfTwo[AddressBits] \in Nat
  BY AddressesHaveBits, PowerSizes, Powers DEF BlockSize
<1>4. address \in Nat /\ address < PowerOfTwo[AddressBits]
  BY <1>3 DEF Addresses
<1>5. PICK k \in Nat \ {0} : PowerOfTwo[AddressBits] = size * k
  BY <1>3, PowerDivides DEF BlockSize
<1> HIDE DEF size
<1>6. PICK q \in Nat : subnet.network = q * size /\ subnet.network % size = 0 /\ subnet.network <= address
  <2>1. /\ address % size \in 0..(size - 1) /\ (address - (address % size)) % size = 0
        /\ \E q \in Nat : address - (address % size) = q * size
    BY <1>3, <1>4, Remainder
  <2>2. PICK q \in Nat : address - (address % size) = q * size
    BY <2>1
  <2>3. address - (address % size) <= address
    BY <1>3, <1>4, <2>1
  <2> QED BY <1>2, <2>1, <2>2, <2>3
<1>7. (q * size) + size <= size * k
  <2>1. q * size < size * k /\ k \in Nat
    BY <1>3, <1>4, <1>5, <1>6
  <2> QED BY <1>3, <2>1, WholeBlocks
<1>8. subnet.network + size <= PowerOfTwo[AddressBits] /\ subnet.network \in Nat
  BY <1>3, <1>5, <1>6, <1>7
<1> QED BY <1>2, <1>3, <1>6, <1>8 DEF size

\* What a subnet covers is a block of addresses.
LEMMA SubnetBlock ==
  ASSUME NEW subnet \in Subnets
  PROVE  {a \in Addresses : Covers(subnet, a)} = HostsWithBroadcast(subnet)
<1> DEFINE size == BlockSize(subnet.prefix)
           first == subnet.network
<1>1. size \in Nat \ {0} /\ first \in Nat /\ first % size = 0 /\ first + size <= PowerOfTwo[AddressBits]
  BY SubnetShape
<1>2. Addresses = 0..(PowerOfTwo[AddressBits] - 1) /\ PowerOfTwo[AddressBits] \in Nat
  BY Powers, AddressesHaveBits DEF Addresses
<1>3. HostsWithBroadcast(subnet) = first..((first + size) - 1)
  BY <1>1 DEF HostsWithBroadcast
<1>4. \A a \in Addresses : Covers(subnet, a) <=> a - (a % size) = first
  BY DEF Covers, Masked
<1> HIDE DEF size, first
<1>5. ASSUME NEW a \in Addresses, Covers(subnet, a) PROVE a \in first..((first + size) - 1)
  <2>1. a \in Nat /\ a - (a % size) = first
    BY <1>2, <1>4, <1>5
  <2>2. a % size \in 0..(size - 1)
    BY <1>1, <2>1, Remainder
  <2> QED BY <1>1, <2>1, <2>2
<1>6. ASSUME NEW a \in first..((first + size) - 1) PROVE a \in Addresses /\ Covers(subnet, a)
  <2>1. PICK c \in 0..(size - 1) : a = first + c
    BY <1>1
  <2>2. (first + c) % size = c
    BY <1>1
  <2>3. a \in Addresses
    BY <1>1, <1>2
  <2>4. a - (a % size) = first
    BY <1>1, <2>1, <2>2
  <2> QED BY <1>4, <2>3, <2>4
<1> QED BY <1>3, <1>5, <1>6

\* The hosts of a subnet are what a reader means by sweeping it.
LEMMA HostsAreSwept ==
  ASSUME NEW subnet \in Subnets
  PROVE  /\ HostsOf(subnet) = SweptBy(subnet)
         /\ HostsOf(subnet) \subseteq Addresses
         /\ IsFiniteSet(HostsOf(subnet))
         /\ \A a \in HostsOf(subnet) : Covers(subnet, a)
<1> DEFINE size == BlockSize(subnet.prefix)
           first == subnet.network
           block == first..((first + size) - 1)
<1>1. /\ AddressBits \in Nat \ {0} /\ subnet.prefix \in 0..AddressBits
      /\ size \in Nat \ {0} /\ first \in Nat
  BY SubnetShape, AddressesHaveBits
<1>2. block = {a \in Addresses : Covers(subnet, a)}
  BY <1>1, SubnetBlock DEF HostsWithBroadcast
<1>3. subnet.prefix >= AddressBits - 1 => size <= 2
  <2> SUFFICES ASSUME subnet.prefix >= AddressBits - 1 PROVE size <= 2
    OBVIOUS
  <2>1. PICK n \in 0..AddressBits : n = AddressBits - subnet.prefix /\ n <= 1
    BY <1>1
  <2>2. size = PowerOfTwo[n]
    BY <2>1 DEF BlockSize
  <2> HIDE DEF size
  <2>3. n = 0 \/ n = 1
    BY <1>1, <2>1
  <2>4. PowerOfTwo[0] = 1
    BY Powers
  <2> QED BY <2>2, <2>3, <2>4, PowerSizes
<1>4. ~(subnet.prefix >= AddressBits - 1) => size > 2
  <2> SUFFICES ASSUME ~(subnet.prefix >= AddressBits - 1) PROVE size > 2
    OBVIOUS
  <2>1. PICK n \in 0..AddressBits : n = AddressBits - subnet.prefix /\ n > 1
    BY <1>1
  <2>2. size = PowerOfTwo[n]
    BY <2>1 DEF BlockSize
  <2> HIDE DEF size
  <2> QED BY <2>1, <2>2, PowerSizes
<1>5. HostsOf(subnet) = IF subnet.prefix >= AddressBits - 1 THEN block
                        ELSE (first + 1)..(((first + size) - 1) - 1)
  BY <1>1 DEF HostsOf
<1>6. IsFiniteSet(block) /\ Cardinality(block) = size
  <2> HIDE DEF size, first
  <2>1. first \in Int /\ (first + size) - 1 \in Int
    BY <1>1
  <2>2. IsFiniteSet(block) /\ Cardinality(block) =
          IF first > (first + size) - 1 THEN 0 ELSE (((first + size) - 1) - first) + 1
    BY <2>1, FS_Interval
  <2> QED BY <1>1, <2>2
<1>7. SweptBy(subnet) = IF Cardinality(block) <= 2 THEN block
        ELSE {a \in block : (\E low \in block : low < a) /\ (\E high \in block : a < high)}
  BY <1>2 DEF SweptBy
<1> HIDE DEF size, first
<1>8. HostsOf(subnet) = SweptBy(subnet)
  <2>1. CASE size <= 2
    BY <1>1, <1>4, <1>5, <1>6, <1>7, <2>1
  <2>2. CASE size > 2
    <3> DEFINE inner == {a \in block : (\E low \in block : low < a) /\ (\E high \in block : a < high)}
    <3>1. HostsOf(subnet) = (first + 1)..(((first + size) - 1) - 1)
      BY <1>1, <1>3, <1>5, <2>2
    <3>2. SweptBy(subnet) = inner
      BY <1>1, <1>6, <1>7, <2>2
    <3>3. ASSUME NEW a \in inner PROVE a \in (first + 1)..(((first + size) - 1) - 1)
      BY <1>1
    <3>4. ASSUME NEW a \in (first + 1)..(((first + size) - 1) - 1) PROVE a \in inner
      <4>1. first \in block /\ (first + size) - 1 \in block /\ a \in block
        BY <1>1, <2>2
      <4>2. first < a /\ a < (first + size) - 1
        BY <1>1
      <4> QED BY <4>1, <4>2
    <3> QED BY <3>1, <3>2, <3>3, <3>4
  <2> QED BY <1>1, <2>1, <2>2
<1>9. HostsOf(subnet) \subseteq block
  BY <1>7, <1>8
<1>10. IsFiniteSet(HostsOf(subnet))
  BY <1>6, <1>9, FS_Subset
<1> QED BY <1>2, <1>8, <1>9, <1>10

-----------------------------------------------------------------------------
(* Targets and their probes.                                               *)

TargetSet(machine) == {Target(subnet, machine) : subnet \in Subnets}
OwnOf(machine) == {adapter.address : adapter \in Adapters(machine)}

LEMMA DetectedTargets ==
  ASSUME NEW machine, IsMachine(machine)
  PROVE  DetectNetworks(machine) \in Seq(TargetSet(machine))
<1> DEFINE SubnetOf(i) == Subnet(machine[i].address, machine[i].prefix)
           Candidate(i) == machine[i].address \notin Loopback /\ ~Skipped(machine[i])
           More(n, targets) == Candidate(n) /\ \A t \in DOMAIN targets : targets[t].subnet # SubnetOf(n)
           Body(f) == [n \in 0..Len(machine) |->
                         IF n = 0 THEN <<>>
                         ELSE IF More(n, f[n - 1]) THEN Append(f[n - 1], Target(SubnetOf(n), machine))
                         ELSE f[n - 1]]
           V == Seq(TargetSet(machine))
           step == [pair \in (1..Len(machine)) \X V |->
                      IF More(pair[1], pair[2]) THEN Append(pair[2], Target(SubnetOf(pair[1]), machine))
                      ELSE pair[2]]
<1>1. /\ machine \in Seq(Adapters(machine))
      /\ \A adapter \in Adapters(machine) : adapter.address \in Addresses /\ adapter.prefix \in 0..NoPrefix
  BY DEF IsMachine
<1>2. Len(machine) \in Nat /\ \A n \in 1..Len(machine) : machine[n] \in Adapters(machine)
  BY <1>1
<1>3. ASSUME NEW n \in 1..Len(machine), NEW targets \in V, More(n, targets)
      PROVE  Append(targets, Target(SubnetOf(n), machine)) \in V
  <2>1. machine[n].address \in Addresses /\ machine[n].prefix \in 0..AddressBits
    <3>1. machine[n].prefix # NoPrefix /\ machine[n].prefix \in 0..(AddressBits + 1)
      BY <1>1, <1>2, <1>3 DEF Skipped, NoPrefix
    <3>2. machine[n].prefix # AddressBits + 1 /\ AddressBits \in Nat
      BY <3>1, AddressesHaveBits DEF NoPrefix
    <3> QED BY <1>1, <1>2, <3>1, <3>2
  <2>2. SubnetOf(n) \in Subnets
    BY <2>1 DEF Subnets
  <2>3. Target(SubnetOf(n), machine) \in TargetSet(machine)
    BY <2>2 DEF TargetSet
  <2> QED BY <2>3
<1>4. step \in Steps(Len(machine), V)
  <2>1. \A n \in 1..Len(machine), targets \in V :
          (IF More(n, targets) THEN Append(targets, Target(SubnetOf(n), machine)) ELSE targets) \in V
    BY <1>3
  <2> HIDE DEF More, V, SubnetOf
  <2> QED BY <2>1 DEF Steps
<1>5. <<>> \in V
  OBVIOUS
<1>6. PICK g : Stepwise(g, Len(machine), V, <<>>, step)
  <2> HIDE DEF step, V
  <2> QED BY <1>2, <1>4, <1>5, StepByStep
<1>7. \A n \in 1..Len(machine) : n - 1 \in 0..Len(machine)
  BY <1>2
<1>8. g = Body(g)
  <2> HIDE DEF More, V, SubnetOf
  <2>1. ASSUME NEW n \in 1..Len(machine)
        PROVE  g[n] = IF More(n, g[n - 1]) THEN Append(g[n - 1], Target(SubnetOf(n), machine))
                      ELSE g[n - 1]
    <3>1. <<n, g[n - 1]>> \in (1..Len(machine)) \X V
      BY <1>6, <1>7 DEF Stepwise
    <3>2. g[n] = step[<<n, g[n - 1]>>]
      BY <1>6 DEF Stepwise
    <3> QED BY <3>1, <3>2
  <2>2. \A n \in 0..Len(machine) : n # 0 => n \in 1..Len(machine)
    BY <1>2
  <2> HIDE DEF step
  <2> QED BY <1>2, <1>6, <2>1, <2>2 DEF Stepwise
<1> DEFINE f == CHOOSE f : f = Body(f)
<1>9. f = Body(f)
  BY <1>8
<1>10. DetectNetworks(machine) = f[Len(machine)]
  BY DEF DetectNetworks
<1> HIDE DEF f, step
<1>11. \A n \in 0..Len(machine) : f[n] \in V
  <2> DEFINE P == {n \in 0..Len(machine) : f[n] \in V}
  <2>1. 0 \in P
    BY <1>2, <1>5, <1>9
  <2>2. ASSUME NEW n \in 1..Len(machine), n - 1 \in P PROVE n \in P
    <3>1. n \in 0..Len(machine) /\ n # 0 /\ f[n - 1] \in V
      BY <1>2, <2>2
    <3> HIDE DEF V, More, SubnetOf
    <3>2. f[n] = IF More(n, f[n - 1]) THEN Append(f[n - 1], Target(SubnetOf(n), machine)) ELSE f[n - 1]
      BY <1>9, <3>1
    <3> QED BY <1>3, <3>1, <3>2
  <2>3. \A n \in 0..Len(machine) : n \in P
    <3> HIDE DEF P
    <3> QED BY <1>2, <2>1, <2>2, UpTo
  <2> QED BY <2>3
<1> QED BY <1>2, <1>10, <1>11

LEMMA ScopeTargets ==
  ASSUME NEW machine, IsMachine(machine), NEW scope, scope.subnets \in Seq(Subnets)
  PROVE  TargetsOf(scope, machine) \in Seq(TargetSet(machine))
<1>1. ExplicitScanTargets(scope.subnets, machine) \in Seq(TargetSet(machine))
  <2>1. \A i \in DOMAIN scope.subnets : Target(scope.subnets[i], machine) \in TargetSet(machine)
    BY DEF TargetSet
  <2>2. DOMAIN scope.subnets = 1..Len(scope.subnets) /\ Len(scope.subnets) \in Nat
    OBVIOUS
  <2> QED BY <2>1, <2>2 DEF ExplicitScanTargets
<1>2. <<>> \in Seq(TargetSet(machine))
  OBVIOUS
<1> QED BY <1>1, <1>2, DetectedTargets DEF TargetsOf, ResolveTargets

ProbesIn(targets, t) ==
  {[target |-> t, address |-> a] : a \in HostsOf(targets[t].subnet) \ targets[t].excluded}

\* One probe for each host of a target that is not the machine itself.
LEMMA ProbesInTarget ==
  ASSUME NEW machine, NEW targets \in Seq(TargetSet(machine)), NEW t \in DOMAIN targets
  PROVE  /\ IsFiniteSet(ProbesIn(targets, t)) /\ ProbesIn(targets, t) \subseteq ProbeSet
         /\ \A probe \in ProbesIn(targets, t) : probe.target = t /\ probe.address \notin OwnOf(machine)
         /\ targets[t].subnet \in Subnets
         /\ Cardinality(ProbesIn(targets, t)) = Cardinality(SweptBy(targets[t].subnet) \ OwnOf(machine))
<1>1. PICK subnet \in Subnets : targets[t] = Target(subnet, machine)
  BY DEF TargetSet
<1> DEFINE hosts == HostsOf(subnet) \ LocalAddressesWithin(subnet, machine)
           Probe1(a) == [target |-> t, address |-> a]
<1>2. targets[t].subnet = subnet /\ ProbesIn(targets, t) = {Probe1(a) : a \in hosts}
  BY <1>1 DEF ProbesIn, Target
<1>3. /\ HostsOf(subnet) = SweptBy(subnet) /\ HostsOf(subnet) \subseteq Addresses
      /\ IsFiniteSet(HostsOf(subnet)) /\ \A a \in HostsOf(subnet) : Covers(subnet, a)
  BY HostsAreSwept
<1>4. hosts = HostsOf(subnet) \ OwnOf(machine)
  BY <1>3 DEF LocalAddressesWithin, OwnOf
<1>5. IsFiniteSet(hosts)
  BY <1>3, FS_Subset
<1>6. t \in Nat
  OBVIOUS
<1> DEFINE numbered == [a \in hosts |-> Probe1(a)]
           probes == {Probe1(a) : a \in hosts}
<1>7. ExistsBijection(hosts, probes)
  <2>1. numbered \in [hosts -> probes]
    OBVIOUS
  <2>2. \A a, b \in hosts : numbered[a] = numbered[b] => a = b
    OBVIOUS
  <2>3. \A p \in probes : \E a \in hosts : numbered[a] = p
    OBVIOUS
  <2> HIDE DEF hosts, numbered, probes
  <2> QED BY <2>1, <2>2, <2>3 DEF ExistsBijection, Bijection, Injection, Surjection, IsInjective
<1>8. IsFiniteSet(probes) /\ Cardinality(probes) = Cardinality(hosts)
  <2> HIDE DEF hosts, probes
  <2> QED BY <1>5, <1>7, FS_Bijection
<1>9. \A a \in hosts : Probe1(a) \in ProbeSet /\ Probe1(a).target = t /\ Probe1(a).address \notin OwnOf(machine)
  BY <1>3, <1>4, <1>6 DEF ProbeSet
<1> HIDE DEF hosts, numbered, Probe1
<1> QED BY <1>2, <1>3, <1>4, <1>8, <1>9

LEMMA ProbesOfTargets ==
  ASSUME NEW machine, NEW targets \in Seq(TargetSet(machine))
  PROVE  /\ IsFiniteSet(ProbesOf(targets)) /\ ProbesOf(targets) \subseteq ProbeSet
         /\ \A probe \in ProbesOf(targets) : probe.address \notin OwnOf(machine)
<1> DEFINE parts == {ProbesIn(targets, t) : t \in DOMAIN targets}
<1>1. ProbesOf(targets) = UNION parts
  BY DEF ProbesOf, ProbesIn
<1> HIDE DEF parts
<1>4. ASSUME NEW t \in DOMAIN targets
      PROVE  /\ IsFiniteSet(ProbesIn(targets, t)) /\ ProbesIn(targets, t) \subseteq ProbeSet
             /\ \A probe \in ProbesIn(targets, t) : probe.address \notin OwnOf(machine)
  BY ProbesInTarget
<1>5. ASSUME NEW part \in parts
      PROVE  /\ IsFiniteSet(part) /\ part \subseteq ProbeSet
             /\ \A probe \in part : probe.address \notin OwnOf(machine)
  BY <1>4 DEF parts
<1> USE DEF parts
<1>2. IsFiniteSet(parts)
  <2>1. DOMAIN targets = 1..Len(targets) /\ Len(targets) \in Nat
    OBVIOUS
  <2>2. IsFiniteSet(DOMAIN targets)
    BY <2>1, FS_Interval
  <2> DEFINE numbered == [t \in DOMAIN targets |-> ProbesIn(targets, t)]
  <2>3. numbered \in [DOMAIN targets -> parts] /\ \A p \in parts : \E t \in DOMAIN targets : numbered[t] = p
    OBVIOUS
  <2>4. numbered \in Surjection(DOMAIN targets, parts)
    <3> HIDE DEF parts, numbered
    <3> QED BY <2>3 DEF Surjection
  <2> HIDE DEF parts, numbered
  <2> QED BY <2>2, <2>4, FS_Surjection
<1>3. IsFiniteSet(UNION parts)
  <2> HIDE DEF parts
  <2> QED BY <1>2, <1>5, FS_UNION
<1> HIDE DEF parts
<1> QED BY <1>1, <1>3, <1>5

\* AddressesSwept is the sum it names.
LEMMA SweptAddsUp ==
  ASSUME NEW subnets \in Seq(Subnets)
  PROVE  \E swept : /\ swept[0] = 0 /\ swept[Len(subnets)] = AddressesSwept(subnets)
                    /\ \A n \in 1..Len(subnets) :
                         swept[n] = swept[n - 1] + Cardinality(SweptBy(subnets[n]) \ OwnAddresses)
<1> DEFINE Part(n) == Cardinality(SweptBy(subnets[n]) \ OwnAddresses)
           Body(f) == [n \in 0..Len(subnets) |-> IF n = 0 THEN 0 ELSE f[n - 1] + Part(n)]
           step == [pair \in (1..Len(subnets)) \X Nat |-> pair[2] + Part(pair[1])]
<1>1. Len(subnets) \in Nat
  OBVIOUS
<1>2. ASSUME NEW n \in 1..Len(subnets) PROVE Part(n) \in Nat
  <2>1. subnets[n] \in Subnets
    OBVIOUS
  <2>2. IsFiniteSet(SweptBy(subnets[n]))
    BY <2>1, HostsAreSwept
  <2>3. IsFiniteSet(SweptBy(subnets[n]) \ OwnAddresses)
    BY <2>2, FS_Difference
  <2> QED BY <2>3, FS_CardinalityType
<1> HIDE DEF Part
<1>3. step \in Steps(Len(subnets), Nat)
  BY <1>2 DEF Steps
<1>4. PICK g : Stepwise(g, Len(subnets), Nat, 0, step)
  <2> HIDE DEF step
  <2> QED BY <1>1, <1>3, StepByStep
<1>5. ASSUME NEW n \in 1..Len(subnets) PROVE g[n] = g[n - 1] + Part(n)
  <2>1. n - 1 \in 0..Len(subnets)
    BY <1>1
  <2>2. <<n, g[n - 1]>> \in (1..Len(subnets)) \X Nat
    BY <1>4, <2>1 DEF Stepwise
  <2>3. step[<<n, g[n - 1]>>] = g[n - 1] + Part(n)
    BY <2>2
  <2> HIDE DEF step
  <2> QED BY <1>4, <2>3 DEF Stepwise
<1>6. g = Body(g)
  BY <1>1, <1>4, <1>5 DEF Stepwise
<1> DEFINE f == CHOOSE f : f = Body(f)
<1>7. f = Body(f)
  BY <1>6
<1>8. AddressesSwept(subnets) = f[Len(subnets)]
  BY DEF AddressesSwept, Part
<1> HIDE DEF f
<1>9. f[0] = 0 /\ \A n \in 1..Len(subnets) : f[n] = f[n - 1] + Part(n)
  BY <1>1, <1>7
<1> QED BY <1>8, <1>9 DEF Part

\* Every address of the named subnets but the machine's own is probed, once for each name.
LEMMA NamedAddressesAreProbed ==
  ASSUME IsMachine(interfaces), NEW subnets \in Seq(Subnets)
  PROVE  ProbeCount(ExplicitScanTargets(subnets, interfaces)) = AddressesSwept(subnets)
<1> DEFINE targets == ExplicitScanTargets(subnets, interfaces)
           Upto(n) == UNION {ProbesIn(targets, t) : t \in 1..n}
<1>1. /\ Len(subnets) \in Nat /\ DOMAIN subnets = 1..Len(subnets)
      /\ DOMAIN targets = 1..Len(subnets) /\ targets \in Seq(TargetSet(interfaces))
      /\ \A t \in 1..Len(subnets) : targets[t].subnet = subnets[t] /\ subnets[t] \in Subnets
  <2>1. \A i \in DOMAIN subnets : Target(subnets[i], interfaces) \in TargetSet(interfaces)
    BY DEF TargetSet
  <2>2. DOMAIN subnets = 1..Len(subnets) /\ Len(subnets) \in Nat
    OBVIOUS
  <2> QED BY <2>1, <2>2 DEF ExplicitScanTargets, Target
<1> HIDE DEF targets
<1>2. ASSUME NEW t \in 1..Len(subnets)
      PROVE  /\ IsFiniteSet(ProbesIn(targets, t))
             /\ \A probe \in ProbesIn(targets, t) : probe.target = t
             /\ Cardinality(ProbesIn(targets, t)) = Cardinality(SweptBy(subnets[t]) \ OwnAddresses)
             /\ Cardinality(ProbesIn(targets, t)) \in Nat
  <2>1. PICK machine : machine = interfaces
    OBVIOUS
  <2>2. PICK found : found = targets
    OBVIOUS
  <2>3. found \in Seq(TargetSet(machine)) /\ t \in DOMAIN found
    BY <1>1, <2>1, <2>2
  <2>4. /\ IsFiniteSet(ProbesIn(found, t))
        /\ \A probe \in ProbesIn(found, t) : probe.target = t
        /\ Cardinality(ProbesIn(found, t)) = Cardinality(SweptBy(found[t].subnet) \ OwnOf(machine))
    BY <2>3, ProbesInTarget
  <2>5. Cardinality(ProbesIn(found, t)) \in Nat
    BY <2>4, FS_CardinalityType
  <2>6. OwnOf(machine) = OwnAddresses
    BY <2>1 DEF OwnOf, OwnAddresses
  <2> QED BY <1>1, <2>2, <2>4, <2>5, <2>6
<1>3. PICK swept : /\ swept[0] = 0 /\ swept[Len(subnets)] = AddressesSwept(subnets)
                   /\ \A n \in 1..Len(subnets) :
                        swept[n] = swept[n - 1] + Cardinality(SweptBy(subnets[n]) \ OwnAddresses)
  BY SweptAddsUp
<1> DEFINE P == {n \in 0..Len(subnets) :
                   /\ IsFiniteSet(Upto(n)) /\ Cardinality(Upto(n)) = swept[n]
                   /\ \A probe \in Upto(n) : probe.target \in 1..n}
<1>4. 0 \in P
  <2>1. 1..0 = {} /\ Upto(0) = {}
    OBVIOUS
  <2>2. IsFiniteSet({}) /\ Cardinality({}) = 0
    BY FS_EmptySet
  <2>3. IsFiniteSet(Upto(0)) /\ Cardinality(Upto(0)) = swept[0]
    BY <1>3, <2>1, <2>2
  <2>4. \A probe \in Upto(0) : probe.target \in 1..0
    BY <2>1
  <2>5. 0 \in 0..Len(subnets)
    BY <1>1
  <2> HIDE DEF Upto
  <2> QED BY <2>3, <2>4, <2>5
<1>5. ASSUME NEW n \in 1..Len(subnets), n - 1 \in P PROVE n \in P
  <2>1. 1..n = (1..(n - 1)) \union {n} /\ n \notin 1..(n - 1)
    BY <1>1
  <2>2. Upto(n) = Upto(n - 1) \union ProbesIn(targets, n)
    BY <2>1
  <2>3. /\ IsFiniteSet(Upto(n - 1)) /\ Cardinality(Upto(n - 1)) = swept[n - 1]
        /\ \A probe \in Upto(n - 1) : probe.target \in 1..(n - 1)
    BY <1>5
  <2> HIDE DEF Upto
  <2>4. Upto(n - 1) \cap ProbesIn(targets, n) = {}
    BY <1>2, <2>1, <2>3
  <2>5. /\ IsFiniteSet(Upto(n))
        /\ Cardinality(Upto(n)) = Cardinality(Upto(n - 1)) + Cardinality(ProbesIn(targets, n))
                                    - Cardinality(Upto(n - 1) \cap ProbesIn(targets, n))
    <3>1. PICK S, T : S = Upto(n - 1) /\ T = ProbesIn(targets, n)
      OBVIOUS
    <3>2. IsFiniteSet(S) /\ IsFiniteSet(T)
      BY <1>2, <2>3, <3>1
    <3>3. /\ IsFiniteSet(S \union T)
          /\ Cardinality(S \union T) = Cardinality(S) + Cardinality(T) - Cardinality(S \cap T)
      BY <3>2, FS_Union
    <3> QED BY <2>2, <3>1, <3>3
  <2>6. Cardinality(Upto(n)) = swept[n]
    <3>1. Cardinality({}) = 0
      BY FS_EmptySet
    <3>2. Cardinality(Upto(n - 1)) \in Nat
      BY <2>3, FS_CardinalityType
    <3>3. PICK c \in Nat : /\ c = Cardinality(ProbesIn(targets, n))
                           /\ c = Cardinality(SweptBy(subnets[n]) \ OwnAddresses)
      BY <1>2
    <3>4. Cardinality(Upto(n)) = swept[n - 1] + c
      <4>1. PICK d \in Nat : d = Cardinality(Upto(n - 1)) /\ d = swept[n - 1]
        BY <2>3, <3>2
      <4>2. Cardinality(Upto(n)) = d + c - 0
        BY <2>4, <2>5, <3>1, <3>3, <4>1
      <4> QED BY <4>1, <4>2
    <3> QED BY <1>3, <3>3, <3>4
  <2>7. \A probe \in Upto(n) : probe.target \in 1..n
    BY <1>2, <2>1, <2>2, <2>3
  <2> QED BY <1>1, <2>5, <2>6, <2>7
<1>6. \A n \in 0..Len(subnets) : n \in P
  <2> HIDE DEF P
  <2> QED BY <1>1, <1>4, <1>5, UpTo
<1>7. Len(subnets) \in P
  <2> HIDE DEF P
  <2> QED BY <1>1, <1>6
<1>8. ProbesOf(targets) = Upto(Len(subnets))
  BY <1>1 DEF ProbesOf, ProbesIn
<1> QED BY <1>3, <1>7, <1>8 DEF ProbeCount, targets

-----------------------------------------------------------------------------
(* The page: the inductive invariant.                                      *)

PageRow == [key : PrinterKeys, configured : BOOLEAN]
PageRows == Seq(PageRow)
Phases == {"idle", "running", "stopped", "error", "done"}

ShownSet ==
  [phase : Phases, completed : Nat, total : Nat, printers : PageRows, failures : Nat]
PageSet ==
  [scan : ShownSet, query : Queries \union {DefaultQuery}, current : 0..MaxScans, closer : 0..MaxScans]

PageTypeOK ==
  /\ interfaces \in Machines
  /\ page \in PageSet
  /\ source \in [Scans -> {"unused", "open", "closed"}]
  /\ DOMAIN server = Scans
  /\ transit \in [Scans -> Seq(Event)]

\* The printers of a list of rows or of events still under way.
KeysOf(events) == {events[i].key : i \in {k \in DOMAIN events : IsPrinter(events[k])}}
OncePerKey(events) ==
  \A i, k \in DOMAIN events :
    IsPrinter(events[i]) /\ IsPrinter(events[k]) /\ events[i].key = events[k].key => i = k
RowsOnce ==
  \A i, k \in DOMAIN page.scan.printers :
    page.scan.printers[i].key = page.scan.printers[k].key => i = k

\* One connection is open, that of the scan that runs.
SourcesInv ==
  /\ \A id \in Scans :
       /\ source[id] = "open" => id = page.current /\ page.scan.phase = "running"
       /\ id > page.current => source[id] = "unused"
       /\ source[id] # "open" => transit[id] = <<>> /\ server[id].at \in {"none", "dropped"}
  /\ page.scan.phase = "running" =>
       page.current \in Scans /\ page.closer = page.current /\ source[page.current] = "open"

\* What the stream still has to say.
Pending(id) == transit[id] \o server[id].queue

\* Every printer announced is on the page or under way, once, and marked as the scan's
\* configuration has it.
PrintersUnderWay(s, pending) ==
  /\ OncePerKey(pending)
  /\ KeysOf(pending) \cap Keys = {}
  /\ \A i \in DOMAIN pending :
       IsPrinter(pending[i]) => pending[i].configured = (pending[i].key \in s.configured)
  /\ {<<"network", address>> : address \in s.announced} =
       {key \in Keys \union KeysOf(pending) : key[1] = "network"}
  /\ inventory \ (s.configured \union unseen) \subseteq Keys

\* The counts shown are the scan's, once what is under way has arrived.
CountsUnderWay(s, pending) ==
  /\ Stands(pending, s.done)
  /\ (\A i \in DOMAIN pending : pending[i].type # "progress") => page.scan.completed = s.done
  /\ \A i \in DOMAIN pending : pending[i].type \in {"prepared", "progress"} => pending[i].total = s.total
  /\ (\A i \in DOMAIN pending : pending[i].type # "prepared") => page.scan.total = s.total

\* The closing event comes last, and is the scan's own end.
EndUnderWay(s, pending) ==
  /\ \A i \in DOMAIN pending :
       pending[i].type \in {"completed", "failed"} => i = Len(pending) /\ pending[i].type = s.at
  /\ Finished(s) => pending # <<>> /\ pending[Len(pending)].type \in {"completed", "failed"}

FreshPage == page.scan = ScanState("running")

StreamingInv(id) ==
  LET s == server[id].scan
      pending == Pending(id)
  IN  /\ server[id].queue \in Seq(Event)
      /\ ScanInv(s)
      /\ s.scope = ScopeOf(QueryString(page.query)) /\ s.targets = TargetsOf(s.scope, interfaces)
      /\ s.announced \union ConnectedAddresses(s.answered) = heard
      /\ s.at = "prepared" => FreshPage /\ pending = <<>> /\ inventory \subseteq s.configured \union unseen
      /\ s.at # "prepared" =>
           PrintersUnderWay(s, pending) /\ CountsUnderWay(s, pending) /\ EndUnderWay(s, pending)

OpenInv ==
  page.scan.phase = "running" =>
    LET id == page.current IN
    \/ /\ server[id] = Requested(QueryString(page.query)) /\ transit[id] = <<>> 
       /\ FreshPage /\ heard = {} /\ page.query \in Queries
    \/ server[id] = [at |-> "refused"] /\ transit[id] = <<>> /\ FreshPage /\ heard = {}
    \/ server[id].at = "streaming" /\ DOMAIN server[id] = {"at", "scan", "queue", "woken"}
       /\ StreamingInv(id) /\ page.query \in Queries

PageInv ==
  /\ PageTypeOK
  /\ RowsOnce
  /\ SourcesInv
  /\ OpenInv
  /\ NetworkRows \subseteq heard /\ heard \cap OwnAddresses = {}
  /\ NewResultsAreUnregistered
  /\ page.scan.phase = "done" =>
       /\ NetworkRows = heard /\ page.scan.completed = page.scan.total
       /\ page.query \in Queries
       /\ page.scan.total = ProbeCount(TargetsOf(ScopeOf(QueryString(page.query)), interfaces))

-----------------------------------------------------------------------------
(* The scan a query asks for.                                              *)

LEMMA QueriedSubnets ==
  ASSUME NEW query \in Queries
  PROVE  ScopeOf(QueryString(query)).subnets \in Seq(Subnets)
<1>1. query.subnets \in Seq(Subnets) /\ <<>> \in Seq(Subnets)
  BY QueriesAssumption
<1> QED BY <1>1 DEF ScopeOf, QueryString

LEMMA PreparedScan ==
  ASSUME NEW machine, IsMachine(machine), NEW scope, scope.subnets \in Seq(Subnets), NEW configured,
         NEW s, s = Prepare(scope, machine, configured)
  PROVE  /\ ScanInv(s) /\ s.at = "prepared" /\ s.scope = scope
         /\ s.targets = TargetsOf(scope, machine) /\ s.configured = configured
         /\ s.announced = {} /\ s.answered = {}
         /\ \A probe \in ProbesOf(s.targets) : probe.address \notin OwnOf(machine)
<1> DEFINE targets == TargetsOf(scope, machine)
<1>1. targets \in Seq(TargetSet(machine))
  BY ScopeTargets
<1>2. /\ DOMAIN s = ScanFields
      /\ s.at = "prepared" /\ s.scope = scope /\ s.targets = targets /\ s.configured = configured
      /\ s.total = ProbeCount(targets) /\ s.waiting = {} /\ s.probing = {} /\ s.answered = {}
      /\ s.done = 0 /\ s.announced = {}
  BY DEF Prepare, ScanFields
<1> HIDE DEF targets
<1>3. /\ IsFiniteSet(ProbesOf(targets)) /\ ProbesOf(targets) \subseteq ProbeSet
      /\ \A probe \in ProbesOf(targets) : probe.address \notin OwnOf(machine)
  BY <1>1, ProbesOfTargets
<1>4. s.total = Cardinality(ProbesOf(targets)) /\ s.total \in Nat
  BY <1>2, <1>3, FS_CardinalityType DEF ProbeCount
<1>5. ProbesInv(s)
  BY <1>2, FS_EmptySet DEF ProbesInv, Answered
<1>6. ScanInv(s)
  BY <1>2, <1>3, <1>4, <1>5 DEF ScanInv, IsScan, NoProbes
<1> QED BY <1>2, <1>3, <1>6 DEF targets

-----------------------------------------------------------------------------
(* The page's own steps.                                                   *)

LEMMA PageInit == Init => PageInv
<1> SUFFICES ASSUME Init PROVE PageInv
  OBVIOUS
<1>1. MaxScans \in Nat
  BY MaxScansAssumption
<1>2. page = OpeningPage /\ interfaces \in Machines /\ heard = {} /\ inventory = {}
  BY DEF Init
<1>3. <<>> \in PageRows /\ <<>> \in Seq(Event)
  BY DEF PageRows
<1>4. page \in PageSet /\ page.scan.printers = <<>> /\ page.scan.phase = "idle"
  BY <1>1, <1>2, <1>3 DEF OpeningPage, ScanState, PageSet, ShownSet, Phases, NoScan
<1>5. PageTypeOK
  BY <1>2, <1>3, <1>4 DEF PageTypeOK, Init
<1>6. RowsOnce
  BY <1>4 DEF RowsOnce
<1>7. SourcesInv
  BY <1>4 DEF SourcesInv, Init, NoStream
<1>8. Rows = {} /\ Keys = {} /\ NetworkRows = {}
  BY <1>4 DEF Rows, Keys, NetworkRows
<1> QED BY <1>2, <1>4, <1>5, <1>6, <1>7, <1>8 DEF PageInv, OpenInv, NewResultsAreUnregistered

LEMMA PageKeeps ==
  ASSUME page \in PageSet, NEW phase \in Phases, MaxScans \in Nat,
         page' = [page EXCEPT !.scan.phase = phase, !.closer = NoScan]
  PROVE  /\ page' \in PageSet
         /\ page'.scan.phase = phase /\ page'.scan.printers = page.scan.printers
         /\ page'.scan.completed = page.scan.completed /\ page'.scan.total = page.scan.total
         /\ page'.query = page.query /\ page'.current = page.current
<1> DEFINE shown == [page.scan EXCEPT !.phase = phase]
<1>1. /\ shown \in ShownSet /\ shown.phase = phase /\ shown.printers = page.scan.printers
      /\ shown.completed = page.scan.completed /\ shown.total = page.scan.total
  BY DEF PageSet, ShownSet
<1>2. page' = [page EXCEPT !.scan = shown, !.closer = NoScan]
  BY DEF PageSet, ShownSet
<1>3. PICK d \in ShownSet : d = shown
  BY <1>1
<1>4. PICK c \in 0..MaxScans : c = NoScan
  BY DEF NoScan
<1> HIDE DEF shown
<1>5. page' = [page EXCEPT !.scan = d, !.closer = c]
  BY <1>2, <1>3, <1>4
<1>6. page' \in PageSet /\ page'.scan = d /\ page'.query = page.query /\ page'.current = page.current
  BY <1>5 DEF PageSet
<1> QED BY <1>1, <1>3, <1>6

LEMMA SamePrinters ==
  ASSUME page'.scan.printers = page.scan.printers
  PROVE  Rows' = Rows /\ Keys' = Keys /\ NetworkRows' = NetworkRows /\ RowsOnce' = RowsOnce
BY DEF Rows, Keys, NetworkRows, RowsOnce

LEMMA Closed ==
  ASSUME NEW closed, Close(closed)
  PROVE  \A id \in Scans :
           /\ id \in closed => source'[id] = "closed" /\ server'[id] = DroppedStream /\ transit'[id] = <<>>
           /\ id \notin closed => source'[id] = source[id] /\ server'[id] = server[id]
                                    /\ transit'[id] = transit[id]
BY DEF Close

\* The connection of the scan closes, and the page says why.
LEMMA ScanCloses ==
  ASSUME PageInv, page.scan.phase = "running", Close({page.current}),
         NEW phase \in {"stopped", "error", "done"},
         page' = [page EXCEPT !.scan.phase = phase, !.closer = NoScan],
         UNCHANGED <<interfaces, inventory, heard, unseen>>,
         phase = "done" =>
           /\ NetworkRows = heard /\ page.scan.completed = page.scan.total /\ page.query \in Queries
           /\ page.scan.total = ProbeCount(TargetsOf(ScopeOf(QueryString(page.query)), interfaces))
  PROVE  PageInv'
<1>1. page \in PageSet /\ MaxScans \in Nat /\ page.current \in Scans
  BY MaxScansAssumption DEF PageInv, PageTypeOK, SourcesInv
<1>2. /\ page' \in PageSet
      /\ page'.scan.phase = phase /\ page'.scan.printers = page.scan.printers
      /\ page'.scan.completed = page.scan.completed /\ page'.scan.total = page.scan.total
      /\ page'.query = page.query /\ page'.current = page.current
  BY <1>1, PageKeeps DEF Phases, NoScan
<1>3. /\ source' \in [Scans -> {"unused", "open", "closed"}]
      /\ DOMAIN server' = Scans /\ transit' \in [Scans -> Seq(Event)]
  BY DEF Close, PageInv, PageTypeOK
<1>4. PageTypeOK'
  BY <1>2, <1>3 DEF PageInv, PageTypeOK
<1>5. Rows' = Rows /\ Keys' = Keys /\ NetworkRows' = NetworkRows /\ RowsOnce' = RowsOnce
  BY <1>2, SamePrinters
<1>6. SourcesInv'
  <2>1. ASSUME NEW id \in Scans
        PROVE  /\ source'[id] # "open" /\ transit'[id] = <<>> /\ server'[id].at \in {"none", "dropped"}
               /\ id > page.current => source'[id] = "unused"
    <3>1. CASE id = page.current
      <4>1. source'[id] = "closed" /\ server'[id] = DroppedStream /\ transit'[id] = <<>>
        BY <3>1, Closed
      <4> QED BY <1>1, <3>1, <4>1 DEF DroppedStream, Scans
    <3>2. CASE id # page.current
      <4>1. source'[id] = source[id] /\ server'[id] = server[id] /\ transit'[id] = transit[id]
        BY <3>2, Closed
      <4> QED BY <3>2, <4>1 DEF PageInv, SourcesInv
    <3> QED BY <3>1, <3>2
  <2> QED BY <1>2, <2>1 DEF SourcesInv
<1>7. OpenInv'
  BY <1>2 DEF OpenInv
<1>8. NewResultsAreUnregistered'
  BY <1>5 DEF PageInv, NewResultsAreUnregistered
<1>9. (NetworkRows \subseteq heard /\ heard \cap OwnAddresses = {})'
  BY <1>5 DEF PageInv, OwnAddresses
<1> QED BY <1>2, <1>4, <1>5, <1>6, <1>7, <1>8, <1>9 DEF PageInv

LEMMA CancelKeeps == PageInv /\ CancelScan => PageInv'
<1> SUFFICES ASSUME PageInv, CancelScan PROVE PageInv'
  OBVIOUS
<1>1. page.scan.phase = "running" /\ page.closer = page.current
  BY DEF CancelScan, PageInv, SourcesInv
<1>2. Close({page.current})
  BY <1>1 DEF CancelScan, Held
<1>3. page' = [page EXCEPT !.scan.phase = "stopped", !.closer = NoScan]
  <2>1. page' = [page EXCEPT !.closer = NoScan, !.scan.phase = "stopped"] /\ page \in PageSet
    BY DEF CancelScan, PageInv, PageTypeOK
  <2> QED BY <2>1 DEF PageSet
<1> QED BY <1>1, <1>2, <1>3, ScanCloses DEF CancelScan

LEMMA ErrorKeeps ==
  ASSUME PageInv, NEW id \in Scans, ConnectionError(id)
  PROVE  PageInv'
<1>1. id = page.current /\ page.scan.phase = "running"
  BY DEF ConnectionError, PageInv, SourcesInv
<1>2. Close({page.current}) /\ page' = [page EXCEPT !.scan.phase = "error", !.closer = NoScan]
      /\ UNCHANGED <<interfaces, inventory, heard, unseen>>
  BY <1>1 DEF ConnectionError
<1> QED BY <1>1, <1>2, ScanCloses

LEMMA StartKeeps ==
  ASSUME PageInv, NEW query \in Queries, StartScan(query)
  PROVE  PageInv'
<1> DEFINE id == page.current + 1
<1>1. /\ page.scan.phase # "running" /\ id \in Scans /\ MaxScans \in Nat /\ page.current \in Nat
      /\ page \in PageSet
  BY MaxScansAssumption DEF StartScan, PageInv, PageTypeOK, PageSet
<1>2. /\ page' = [scan |-> ScanState("running"), query |-> query, current |-> id, closer |-> id]
      /\ source' = [source EXCEPT ![id] = "open"]
      /\ server' = [server EXCEPT ![id] = Requested(QueryString(query))]
      /\ heard' = {} /\ UNCHANGED <<interfaces, inventory, transit, unseen>>
  BY DEF StartScan
<1> HIDE DEF id
<1>3. id = page.current + 1
  BY DEF id
<1>4. /\ ScanState("running") \in ShownSet /\ ScanState("running").phase = "running"
      /\ ScanState("running").printers = <<>>
  BY DEF ShownSet, ScanState, Phases, PageRows
<1>5. /\ page' \in PageSet /\ page'.scan = ScanState("running") /\ page'.query = query
      /\ page'.current = id /\ page'.closer = id
  BY <1>1, <1>2, <1>3, <1>4 DEF PageSet, Scans
<1>6. PageTypeOK'
  BY <1>1, <1>2, <1>5 DEF PageInv, PageTypeOK
<1>7. Rows' = {} /\ Keys' = {} /\ NetworkRows' = {} /\ RowsOnce'
  BY <1>4, <1>5 DEF Rows, Keys, NetworkRows, RowsOnce
<1>8. \A other \in Scans :
        /\ source[other] # "open" /\ transit[other] = <<>>
        /\ server[other].at \in {"none", "dropped"}
        /\ other > page.current => source[other] = "unused"
  BY <1>1 DEF PageInv, SourcesInv
<1>9. /\ source'[id] = "open" /\ server'[id] = Requested(QueryString(query)) /\ transit'[id] = <<>>
      /\ \A other \in Scans : other # id =>
           source'[other] = source[other] /\ server'[other] = server[other]
           /\ transit'[other] = transit[other]
  BY <1>1, <1>2, <1>8 DEF PageInv, PageTypeOK
<1>10. SourcesInv'
  <2>1. \A other \in Scans : other > id => other > page.current /\ other # id
    BY <1>1, <1>3 DEF Scans
  <2> QED BY <1>1, <1>4, <1>5, <1>8, <1>9, <2>1 DEF SourcesInv
<1>11. OpenInv'
  BY <1>2, <1>5, <1>9 DEF OpenInv, FreshPage
<1>12. NewResultsAreUnregistered'
  BY <1>7 DEF NewResultsAreUnregistered
<1> QED BY <1>2, <1>4, <1>5, <1>6, <1>7, <1>10, <1>11, <1>12 DEF PageInv

\* What a stream says does not depend on a registration made elsewhere, which is
\* told apart.
LEMMA ElsewhereKeeps ==
  ASSUME PageInv, NEW key, AddElsewhere(key)
  PROVE  PageInv'
<1>1. /\ inventory' = inventory \union {key} /\ unseen' = unseen \union {key}
      /\ UNCHANGED <<interfaces, page, source, server, transit, heard>>
  BY DEF AddElsewhere, services
<1>2. PageTypeOK' /\ RowsOnce' /\ SourcesInv' /\ Rows' = Rows /\ Keys' = Keys
      /\ NetworkRows' = NetworkRows /\ OwnAddresses' = OwnAddresses
  BY <1>1 DEF PageInv, PageTypeOK, RowsOnce, SourcesInv, Rows, Keys, NetworkRows, OwnAddresses
<1>3. OpenInv'
  <2>1. ASSUME StreamingInv(page.current) PROVE StreamingInv(page.current)'
    BY <1>1, <1>2, <2>1 DEF StreamingInv, Pending, PrintersUnderWay, CountsUnderWay, FreshPage
  <2> QED BY <1>1, <2>1 DEF PageInv, OpenInv, FreshPage
<1>4. NewResultsAreUnregistered'
  BY <1>1, <1>2 DEF PageInv, NewResultsAreUnregistered
<1> QED BY <1>1, <1>2, <1>3, <1>4 DEF PageInv

\* Only the row of the printer itself is marked.
LEMMA MarkedRows ==
  ASSUME NEW printers \in PageRows, NEW i \in DOMAIN printers, ~printers[i].configured,
         \A j, k \in DOMAIN printers : printers[j].key = printers[k].key => j = k,
         NEW marked, marked = Marked(printers, printers[i].key)
  PROVE  /\ marked \in PageRows /\ DOMAIN marked = DOMAIN printers
         /\ \A k \in DOMAIN printers : marked[k].key = printers[k].key
         /\ marked[i].configured
         /\ \A k \in DOMAIN printers : k # i => marked[k] = printers[k]
<1> DEFINE matches == {k \in DOMAIN printers : printers[k].key = printers[i].key /\ ~printers[k].configured}
<1>1. /\ DOMAIN printers = 1..Len(printers) /\ Len(printers) \in Nat
      /\ \A k \in DOMAIN printers : printers[k] \in PageRow
  BY DEF PageRows
<1>2. matches = {i}
  OBVIOUS
<1>3. (CHOOSE k \in matches : \A j \in matches : k <= j) = i
  BY <1>1, <1>2
<1>4. marked = [printers EXCEPT ![i].configured = TRUE]
  <2>1. matches # {}
    BY <1>2
  <2> QED BY <1>3, <2>1 DEF Marked
<1> DEFINE row == [printers[i] EXCEPT !.configured = TRUE]
<1>5. row \in PageRow /\ row.key = printers[i].key /\ row.configured
  BY <1>1 DEF PageRow
<1>6. marked = [printers EXCEPT ![i] = row]
  BY <1>4
<1> HIDE DEF row
<1>7. /\ DOMAIN marked = DOMAIN printers /\ marked[i] = row
      /\ \A k \in DOMAIN printers : k # i => marked[k] = printers[k]
  BY <1>6
<1>8. marked \in PageRows
  BY <1>1, <1>5, <1>6 DEF PageRows
<1> QED BY <1>5, <1>7, <1>8

LEMMA RegisterKeeps ==
  ASSUME PageInv, NEW i \in DOMAIN page.scan.printers, AddResult(i)
  PROVE  PageInv'
<1> DEFINE printers == page.scan.printers
           key == printers[i].key
           marked == Marked(printers, key)
           shown == [page.scan EXCEPT !.printers = marked]
<1>1. /\ page \in PageSet /\ printers \in PageRows /\ ~printers[i].configured /\ RowsOnce
      /\ inventory' = inventory \union {key} /\ UNCHANGED <<interfaces, source, server, transit, heard, unseen>>
  BY DEF PageInv, PageTypeOK, PageSet, ShownSet, AddResult, services
<1>2. page' = [page EXCEPT !.scan = shown]
  BY <1>1 DEF AddResult, PageSet, ShownSet
<1>3. /\ marked \in PageRows /\ DOMAIN marked = DOMAIN printers
      /\ \A k \in DOMAIN printers : marked[k].key = printers[k].key
      /\ marked[i].configured
      /\ \A k \in DOMAIN printers : k # i => marked[k] = printers[k]
  <2>1. PICK rows \in PageRows : rows = printers
    BY <1>1
  <2>2. PICK new : new = Marked(rows, rows[i].key)
    OBVIOUS
  <2>3. i \in DOMAIN rows /\ ~rows[i].configured
        /\ \A j, k \in DOMAIN rows : rows[j].key = rows[k].key => j = k
    BY <1>1, <2>1 DEF RowsOnce
  <2>4. PICK n \in DOMAIN rows : n = i
    BY <2>3
  <2>5. /\ new \in PageRows /\ DOMAIN new = DOMAIN rows
        /\ \A k \in DOMAIN rows : new[k].key = rows[k].key
        /\ new[n].configured
        /\ \A k \in DOMAIN rows : k # n => new[k] = rows[k]
    BY <2>2, <2>3, <2>4, MarkedRows
  <2>6. new = marked
    BY <2>1, <2>2
  <2> HIDE DEF marked, printers
  <2> QED BY <2>1, <2>4, <2>5, <2>6
<1>4. PICK rows \in PageRows : rows = marked
  BY <1>3
<1> HIDE DEF marked
<1>5. shown \in ShownSet /\ shown.printers = rows /\ shown.phase = page.scan.phase
      /\ shown.completed = page.scan.completed /\ shown.total = page.scan.total
  BY <1>1, <1>4 DEF PageSet, ShownSet
<1> HIDE DEF shown
<1>6. /\ page' \in PageSet /\ page'.scan = shown /\ page'.query = page.query
      /\ page'.current = page.current /\ page'.closer = page.closer
  BY <1>1, <1>2, <1>5 DEF PageSet
<1>7. page'.scan.printers = rows
  BY <1>5, <1>6
<1>8. Keys' = Keys /\ RowsOnce'
  <2>1. Keys = {printers[k].key : k \in DOMAIN printers}
    BY DEF Keys, Rows
  <2>2. Keys' = {rows[k].key : k \in DOMAIN rows}
    BY <1>7 DEF Keys, Rows
  <2>3. DOMAIN rows = DOMAIN printers /\ \A k \in DOMAIN printers : rows[k].key = printers[k].key
    BY <1>3, <1>4
  <2>4. Keys' = Keys
    BY <2>1, <2>2, <2>3
  <2>5. \A j, k \in DOMAIN rows : rows[j].key = rows[k].key => j = k
    BY <1>1, <2>3 DEF RowsOnce
  <2> QED BY <1>7, <2>4, <2>5 DEF RowsOnce
<1>9. NetworkRows' = NetworkRows /\ OwnAddresses' = OwnAddresses
  BY <1>1, <1>8 DEF NetworkRows, OwnAddresses
<1>10. key \in Keys
  BY DEF Keys, Rows
<1>11. PageTypeOK'
  BY <1>1, <1>6 DEF PageInv, PageTypeOK
<1>12. SourcesInv'
  BY <1>1, <1>5, <1>6 DEF PageInv, SourcesInv
<1>13. OpenInv'
  <2>1. ~FreshPage
    BY DEF FreshPage, ScanState
  <2>2. ASSUME StreamingInv(page.current) PROVE StreamingInv(page.current)'
    <3> DEFINE s == server[page.current].scan
               pending == Pending(page.current)
    <3>1. s.at # "prepared"
      BY <2>1, <2>2 DEF StreamingInv
    <3>2. PrintersUnderWay(s, pending) /\ CountsUnderWay(s, pending)
      BY <2>2, <3>1 DEF StreamingInv
    <3>3. UNCHANGED <<s, pending>>
      BY <1>1, <1>6 DEF Pending
    <3>4. (PrintersUnderWay(s, pending) /\ CountsUnderWay(s, pending))'
      <4> HIDE DEF s, pending
      <4>1. PICK t, events : t = s /\ events = pending
        OBVIOUS
      <4>2. PrintersUnderWay(t, events) /\ CountsUnderWay(t, events)
        BY <3>2, <4>1
      <4>3. PrintersUnderWay(t, events)' /\ CountsUnderWay(t, events)'
        BY <1>1, <1>5, <1>6, <1>8, <1>10, <4>2 DEF PrintersUnderWay, CountsUnderWay
      <4> QED BY <3>3, <4>1, <4>3
    <3> QED BY <1>1, <1>6, <2>2, <3>1, <3>4 DEF StreamingInv, Pending
  <2> QED BY <1>1, <1>5, <1>6, <2>1, <2>2 DEF PageInv, OpenInv, FreshPage
<1>14. NewResultsAreUnregistered'
  <2> SUFFICES ASSUME NEW k \in DOMAIN rows, ~rows[k].configured, rows[k].key \in inventory'
               PROVE  rows[k].key \in unseen'
    BY <1>7 DEF NewResultsAreUnregistered, Rows
  <2>1. k # i /\ k \in DOMAIN printers /\ rows[k] = printers[k]
    BY <1>3, <1>4
  <2>2. printers[k].key # key
    BY <1>1, <2>1 DEF RowsOnce
  <2>3. printers[k] \in Rows
    BY <2>1 DEF Rows
  <2> QED BY <1>1, <2>1, <2>2, <2>3 DEF PageInv, NewResultsAreUnregistered
<1> QED BY <1>1, <1>5, <1>6, <1>8, <1>9, <1>11, <1>12, <1>13, <1>14 DEF PageInv

-----------------------------------------------------------------------------
(* The server's steps.                                                     *)

LEMMA DiscoverKeeps ==
  ASSUME PageInv, NEW id \in Scans, Discover(id)
  PROVE  PageInv'
<1> DEFINE scope == ScopeOf(QueryString(page.query))
           answer == IF Contradicts(QueryString(page.query)) \/ Unpreparable(scope, interfaces)
                     THEN [at |-> "refused"] ELSE Streaming(Prepare(scope, interfaces, inventory))
<1>1. server[id].at = "requested" /\ source[id] = "open" /\ id = page.current
      /\ page.scan.phase = "running"
  BY DEF Discover, PageInv, SourcesInv
<1>2. /\ server[id] = Requested(QueryString(page.query)) /\ transit[id] = <<>>
      /\ FreshPage /\ heard = {} /\ page.query \in Queries
  BY <1>1 DEF PageInv, OpenInv
<1>3. /\ server' = [server EXCEPT ![id] = answer] /\ unseen' = {}
      /\ UNCHANGED <<interfaces, inventory, page, source, transit, heard>>
  <2>1. server[id].query = QueryString(page.query)
    BY <1>2 DEF Requested
  <2> QED BY <1>1, <2>1 DEF Discover
<1>4. server'[id] = answer /\ DOMAIN server' = Scans /\ \A other \in Scans : other # id => server'[other] = server[other]
  BY <1>3 DEF PageInv, PageTypeOK
<1>5. Rows = {} /\ Keys = {}
  BY <1>2 DEF FreshPage, ScanState, Rows, Keys
<1>6. PageTypeOK' /\ RowsOnce' /\ Keys' = Keys /\ Rows' = Rows /\ NetworkRows' = NetworkRows
      /\ OwnAddresses' = OwnAddresses
  BY <1>3, <1>4 DEF PageInv, PageTypeOK, RowsOnce, Keys, Rows, NetworkRows, OwnAddresses
<1>7. SourcesInv'
  <2>1. \A other \in Scans : source[other] # "open" => other # id
    BY <1>1
  <2> QED BY <1>3, <1>4, <2>1 DEF PageInv, SourcesInv
<1>8. OpenInv'
  <2>1. CASE answer = [at |-> "refused"]
    BY <1>1, <1>2, <1>3, <1>4, <2>1 DEF OpenInv, FreshPage
  <2>2. CASE answer = Streaming(Prepare(scope, interfaces, inventory))
    <3>1. PICK s : s = Prepare(scope, interfaces, inventory)
      OBVIOUS
    <3>2. PICK asked, machine, known : asked = scope /\ machine = interfaces /\ known = inventory
      OBVIOUS
    <3>3. IsMachine(machine) /\ asked.subnets \in Seq(Subnets)
      BY <1>2, <3>2, QueriedSubnets, MachinesAssumption DEF PageInv, PageTypeOK
    <3>4. /\ ScanInv(s) /\ s.at = "prepared" /\ s.scope = asked
          /\ s.targets = TargetsOf(asked, machine) /\ s.configured = known
          /\ s.announced = {} /\ s.answered = {}
      <4>1. s = Prepare(asked, machine, known)
        BY <3>1, <3>2
      <4> QED BY <3>3, <4>1, PreparedScan
    <3>5. /\ server'[id].at = "streaming" /\ server'[id].scan = s /\ server'[id].queue = <<>>
          /\ DOMAIN server'[id] = {"at", "scan", "queue", "woken"}
      <4> HIDE DEF answer
      <4> QED BY <1>4, <2>2, <3>1 DEF Streaming
    <3>6. Pending(id)' = <<>>
      BY <1>2, <1>3, <3>5 DEF Pending
    <3>7. ConnectedAddresses(s.answered) = {}
      BY <3>4 DEF ConnectedAddresses
    <3>8. <<>> \in Seq(Event)
      OBVIOUS
    <3>9. StreamingInv(id)'
      BY <1>2, <1>3, <3>2, <3>4, <3>5, <3>6, <3>7, <3>8 DEF StreamingInv, FreshPage
    <3> QED BY <1>1, <1>2, <1>3, <3>5, <3>9 DEF OpenInv
  <2> QED BY <2>1, <2>2
<1> QED BY <1>1, <1>2, <1>3, <1>5, <1>6, <1>7, <1>8 DEF PageInv, NewResultsAreUnregistered

\* A step of the open stream that leaves the page alone.
LEMMA StreamStep ==
  ASSUME PageInv, NEW id \in Scans, source[id] = "open", server[id].at = "streaming",
         NEW stream, server' = [server EXCEPT ![id] = stream],
         stream.at = "streaming", DOMAIN stream = {"at", "scan", "queue", "woken"},
         NEW events \in Seq(Event), transit' = [transit EXCEPT ![id] = events],
         UNCHANGED <<interfaces, inventory, page, source, unseen>>,
         heard \subseteq heard', heard' \cap OwnAddresses = {},
         StreamingInv(id)'
  PROVE  PageInv'
<1>1. id = page.current /\ page.scan.phase = "running" /\ page.query \in Queries
  <2>1. id = page.current /\ page.scan.phase = "running"
    BY DEF PageInv, SourcesInv
  <2> QED BY <2>1 DEF PageInv, OpenInv, Requested
<1>2. /\ server'[id] = stream /\ transit'[id] = events /\ DOMAIN server' = Scans
      /\ transit' \in [Scans -> Seq(Event)]
      /\ \A other \in Scans : other # id => server'[other] = server[other] /\ transit'[other] = transit[other]
  BY DEF PageInv, PageTypeOK
<1>3. PageTypeOK' /\ RowsOnce' /\ Keys' = Keys /\ Rows' = Rows /\ NetworkRows' = NetworkRows
      /\ OwnAddresses' = OwnAddresses
  BY <1>2 DEF PageInv, PageTypeOK, RowsOnce, Keys, Rows, NetworkRows, OwnAddresses
<1>4. SourcesInv'
  BY <1>1, <1>2 DEF PageInv, SourcesInv
<1>5. OpenInv'
  BY <1>1, <1>2 DEF OpenInv
<1>6. NewResultsAreUnregistered'
  BY <1>3 DEF PageInv, NewResultsAreUnregistered
<1> QED BY <1>1, <1>3, <1>4, <1>5, <1>6 DEF PageInv

LEMMA ProbeKeeps ==
  ASSUME PageInv, NEW id \in Scans, Probe(id)
  PROVE  PageInv'
<1> DEFINE s == server[id].scan
<1>1. /\ server[id].at = "streaming" /\ source[id] = "open" /\ id = page.current
      /\ page.scan.phase = "running"
  BY DEF Probe, PageInv, SourcesInv
<1>2. StreamingInv(id) /\ DOMAIN server[id] = {"at", "scan", "queue", "woken"} /\ page.query \in Queries
  BY <1>1 DEF PageInv, OpenInv, Requested
<1>3. UNCHANGED <<interfaces, inventory, page, source, transit, unseen>>
  BY DEF Probe
<1>4. ScanInv(s) /\ s.targets = TargetsOf(ScopeOf(QueryString(page.query)), interfaces)
      /\ s.scope = ScopeOf(QueryString(page.query))
      /\ s.announced \union ConnectedAddresses(s.answered) = heard
  BY <1>2 DEF StreamingInv
<1>5. transit' = [transit EXCEPT ![id] = transit[id]] /\ transit[id] \in Seq(Event)
  BY <1>3 DEF PageInv, PageTypeOK
<1>6. \A probe \in ProbesOf(s.targets) : probe.address \notin OwnAddresses
  <2>1. PICK asked, machine : asked = ScopeOf(QueryString(page.query)) /\ machine = interfaces
    OBVIOUS
  <2>2. IsMachine(machine) /\ asked.subnets \in Seq(Subnets)
    BY <1>2, <2>1, QueriedSubnets, MachinesAssumption DEF PageInv, PageTypeOK
  <2>3. TargetsOf(asked, machine) \in Seq(TargetSet(machine))
    BY <2>2, ScopeTargets
  <2>4. PICK targets : targets = TargetsOf(asked, machine)
    OBVIOUS
  <2>5. \A probe \in ProbesOf(targets) : probe.address \notin OwnOf(machine)
    BY <2>3, <2>4, ProbesOfTargets
  <2>6. OwnOf(machine) = OwnAddresses /\ targets = s.targets
    BY <1>4, <2>1, <2>4 DEF OwnOf, OwnAddresses
  <2> QED BY <2>5, <2>6
<1>7. ASSUME NEW t, NEW stream, server' = [server EXCEPT ![id] = stream], stream.at = "streaming",
             DOMAIN stream = {"at", "scan", "queue", "woken"},
             stream.scan = t, stream.queue = server[id].queue,
             ScanInv(t), t.at = s.at, t.scope = s.scope, t.targets = s.targets,
             t.configured = s.configured, t.total = s.total, t.done = s.done,
             t.announced = s.announced,
             t.announced \union ConnectedAddresses(t.answered) = heard',
             heard \subseteq heard', heard' \cap OwnAddresses = {}
      PROVE  PageInv'
  <2>1. server'[id] = stream /\ transit'[id] = transit[id]
    BY <1>3, <1>7 DEF PageInv, PageTypeOK
  <2>2. Pending(id)' = Pending(id)
    BY <1>7, <2>1 DEF Pending
  <2>3. PICK pending : pending = Pending(id)
    OBVIOUS
  <2>4. s.at # "prepared" =>
          PrintersUnderWay(s, pending) /\ CountsUnderWay(s, pending) /\ EndUnderWay(s, pending)
    BY <1>2, <2>3 DEF StreamingInv
  <2>5. s.at # "prepared" =>
          (PrintersUnderWay(t, pending) /\ CountsUnderWay(t, pending) /\ EndUnderWay(t, pending))'
    BY <1>3, <1>7, <2>4
       DEF PrintersUnderWay, CountsUnderWay, EndUnderWay, Finished, Keys, Rows
  <2>6. s.at = "prepared" => FreshPage /\ pending = <<>> /\ inventory \subseteq s.configured \union unseen
    BY <1>2, <2>3 DEF StreamingInv
  <2>7. server[id].queue \in Seq(Event)
    BY <1>2 DEF StreamingInv
  <2>8. StreamingInv(id)'
    BY <1>3, <1>4, <1>7, <2>1, <2>2, <2>3, <2>5, <2>6, <2>7 DEF StreamingInv, FreshPage
  <2> QED BY <1>1, <1>3, <1>5, <1>7, <2>8, StreamStep
<1>8. CASE \E probe \in s.waiting : server' = [server EXCEPT ![id].scan = BeginProbe(@, probe)]
                                    /\ UNCHANGED heard
  <2>1. PICK probe \in s.waiting : server' = [server EXCEPT ![id].scan = BeginProbe(@, probe)]
    BY <1>8
  <2>2. PICK u : u = s
    OBVIOUS
  <2>3. PICK t : t = BeginProbe(u, probe)
    OBVIOUS
  <2>4. /\ ScanInv(t) /\ t.at = u.at /\ t.scope = u.scope /\ t.targets = u.targets
        /\ t.configured = u.configured /\ t.total = u.total /\ t.done = u.done
        /\ t.answered = u.answered /\ t.announced = u.announced
    BY <1>4, <2>2, <2>3, BeginProbeKeeps
  <2>5. PICK stream : stream = [server[id] EXCEPT !.scan = t]
    OBVIOUS
  <2>6. server' = [server EXCEPT ![id] = stream]
    BY <2>1, <2>2, <2>3, <2>5 DEF PageInv, PageTypeOK
  <2>7. /\ stream.at = "streaming" /\ DOMAIN stream = {"at", "scan", "queue", "woken"}
        /\ stream.scan = t /\ stream.queue = server[id].queue
    BY <1>1, <1>2, <2>5
  <2>8. heard' = heard /\ heard \cap OwnAddresses = {}
    BY <1>8 DEF PageInv
  <2>9. t.announced \union ConnectedAddresses(t.answered) = heard'
    BY <1>4, <2>2, <2>4, <2>8
  <2> HIDE DEF s
  <2> QED BY <1>7, <2>2, <2>4, <2>6, <2>7, <2>8, <2>9
<1>9. CASE \E probe \in s.probing, connected \in BOOLEAN :
             /\ server' = [server EXCEPT ![id].scan = AnswerProbe(@, probe, connected), ![id].woken = TRUE]
             /\ heard' = IF connected /\ id = page.current THEN heard \union {probe.address} ELSE heard
  <2>1. PICK probe \in s.probing, connected \in BOOLEAN :
             /\ server' = [server EXCEPT ![id].scan = AnswerProbe(@, probe, connected), ![id].woken = TRUE]
             /\ heard' = IF connected THEN heard \union {probe.address} ELSE heard
    BY <1>1, <1>9
  <2>2. PICK u : u = s
    OBVIOUS
  <2>3. PICK t : t = AnswerProbe(u, probe, connected)
    OBVIOUS
  <2>4. /\ ScanInv(t) /\ t.at = u.at /\ t.scope = u.scope /\ t.targets = u.targets
        /\ t.configured = u.configured /\ t.total = u.total /\ t.done = u.done
        /\ t.announced = u.announced
        /\ ConnectedAddresses(t.answered) =
             ConnectedAddresses(u.answered) \union IF connected THEN {probe.address} ELSE {}
        /\ probe \in ProbesOf(u.targets)
    <3>1. ScanInv(u) /\ probe \in u.probing
      BY <1>4, <2>2
    <3> QED BY <2>3, <3>1, AnswerProbeKeeps
  <2>5. PICK stream : stream = [server[id] EXCEPT !.scan = t, !.woken = TRUE]
    OBVIOUS
  <2>6. server' = [server EXCEPT ![id] = stream]
    BY <2>1, <2>2, <2>3, <2>5 DEF PageInv, PageTypeOK
  <2>7. /\ stream.at = "streaming" /\ DOMAIN stream = {"at", "scan", "queue", "woken"}
        /\ stream.scan = t /\ stream.queue = server[id].queue
    BY <1>1, <1>2, <2>5
  <2>8. heard \subseteq heard' /\ heard' \cap OwnAddresses = {}
    BY <1>6, <2>1, <2>2, <2>4 DEF PageInv
  <2>9. t.announced \union ConnectedAddresses(t.answered) = heard'
    BY <1>4, <2>1, <2>2, <2>4
  <2> HIDE DEF s
  <2> QED BY <1>7, <2>2, <2>4, <2>6, <2>7, <2>8, <2>9
<1> QED BY <1>8, <1>9 DEF Probe

-----------------------------------------------------------------------------
(* What a poll adds to what is under way.                                  *)

Closing == {"completed", "failed"}

PollSays(s, t, events) ==
  /\ events \in Seq(Event)
  /\ \A i \in DOMAIN events :
       \/ Announces(s, t, events[i])
       \/ i = Len(events) /\ events[i].type = t.at /\ events[i].type \in Closing
  /\ \A address \in t.announced \ s.announced :
       \E i \in DOMAIN events : events[i] = NetworkEvent(s, address)
  /\ OncePerKey(events)
  /\ Stands(events, t.done)
  /\ t.done # s.done => \E i \in DOMAIN events : events[i].type = "progress"
  /\ s.at = "prepared" => \E i \in DOMAIN events : events[i].type = "prepared"
  /\ Finished(t) => events # <<>> /\ events[Len(events)].type \in Closing

LEMMA PrinterEventFields ==
  ASSUME NEW s, NEW key
  PROVE  /\ PrinterEvent(s, key).type = "printer" /\ PrinterEvent(s, key).key = key
         /\ PrinterEvent(s, key).configured = (key \in s.configured)
<1>1. PICK configured \in BOOLEAN : configured = (key \in s.configured)
  <2>1. (key \in s.configured) \in BOOLEAN
    OBVIOUS
  <2> QED BY <2>1, Zenon
<1>2. PrinterEvent(s, key) = [type |-> "printer", key |-> key, configured |-> configured]
  BY <1>1, Zenon DEF PrinterEvent
<1>3. PrinterEvent(s, key).configured = configured
  BY <1>2
<1>4. PrinterEvent(s, key).type = "printer" /\ PrinterEvent(s, key).key = key
  BY <1>2
<1> QED BY <1>1, <1>3, <1>4, Zenon

LEMMA AnnouncedTypes ==
  ASSUME NEW s, NEW t, NEW event, Announces(s, t, event)
  PROVE  /\ event.type \in {"prepared", "progress", "usb_failure", "printer"}
         /\ event.type \notin Closing
         /\ IsPrinter(event) => event.configured = (event.key \in s.configured)
<1>1. CASE IsPrinter(event)
  <2>1. PICK key : event = PrinterEvent(s, key)
    BY <1>1 DEF Announces, NetworkEvent, IsPrinter
  <2> QED BY <2>1, PrinterEventFields DEF Closing
<1>2. CASE ~IsPrinter(event)
  <2>1. \A address : IsPrinter(NetworkEvent(s, address))
    BY PrinterEventFields DEF NetworkEvent, IsPrinter
  <2>2. \A device : IsPrinter(PrinterEvent(s, UsbKey(device)))
    BY PrinterEventFields DEF IsPrinter
  <2>3. event.type \in {"prepared", "progress", "usb_failure"}
    BY <1>2, <2>1, <2>2 DEF Announces
  <2> QED BY <1>2, <2>3 DEF Closing
<1> QED BY <1>1, <1>2

LEMMA PollCloses ==
  ASSUME NEW s, NEW t, NEW events, PollTells(s, t, events), ScanInv(t)
  PROVE  PollSays(s, t, events \o ClosingEvent(t))
<1>1. events \in Seq(Event)
  BY DEF PollTells
<1>2. CASE ~Finished(t)
  <2>1. events \o ClosingEvent(t) = events
    <3>1. ClosingEvent(t) = <<>>
      BY <1>2 DEF ClosingEvent, Finished
    <3> QED BY <1>1, <3>1
  <2> QED BY <1>1, <1>2, <2>1 DEF PollTells, PollSays, OncePerKey
<1>3. CASE Finished(t)
  <2>1. PICK event \in Event : ClosingEvent(t) = <<event>> /\ event.type = t.at /\ event.type \in Closing
    <3>1. t.at \in Closing
      BY <1>3 DEF Finished, Closing
    <3>2. PICK at \in Closing : at = t.at
      BY <3>1
    <3>3. [type |-> at] \in Event
      BY DEF Event, Closing
    <3>4. ClosingEvent(t) = <<[type |-> at]>>
      BY <3>2 DEF ClosingEvent, Closing
    <3> QED BY <3>2, <3>3, <3>4
  <2> DEFINE all == Append(events, event)
  <2>2. /\ events \o <<event>> = all /\ all \in Seq(Event)
        /\ DOMAIN events = 1..Len(events) /\ Len(events) \in Nat
        /\ Len(all) = Len(events) + 1 /\ DOMAIN all = 1..(Len(events) + 1)
        /\ \A i \in 1..Len(events) : all[i] = events[i]
        /\ all[Len(events) + 1] = event
    BY <1>1, Appended
  <2> HIDE DEF all
  <2>3. ~IsPrinter(event) /\ event.type # "progress"
    BY <2>1 DEF Closing, IsPrinter
  <2>4. ASSUME NEW i \in DOMAIN all
        PROVE  \/ i \in DOMAIN events /\ all[i] = events[i] /\ i # Len(events) + 1
               \/ i = Len(events) + 1 /\ all[i] = event
    BY <2>2
  <2>5. \A i \in DOMAIN events : i \in DOMAIN all /\ all[i] = events[i]
    BY <2>2
  <2>6. \A i \in DOMAIN all :
          \/ Announces(s, t, all[i])
          \/ i = Len(all) /\ all[i].type = t.at /\ all[i].type \in Closing
    BY <2>1, <2>2, <2>4 DEF PollTells
  <2>7. \A address \in t.announced \ s.announced :
          \E i \in DOMAIN all : all[i] = NetworkEvent(s, address)
    BY <2>5 DEF PollTells
  <2>8. OncePerKey(all)
    BY <2>3, <2>4 DEF PollTells, OncePerKey
  <2>9. Stands(all, t.done)
    <3> SUFFICES ASSUME NEW i \in DOMAIN all, all[i].type = "progress",
                        \A k \in DOMAIN all : i < k => all[k].type # "progress"
                 PROVE  all[i].completed = t.done
      BY DEF Stands
    <3>1. i \in DOMAIN events /\ all[i] = events[i]
      BY <2>3, <2>4
    <3>2. \A k \in DOMAIN events : i < k => events[k].type # "progress"
      BY <2>5
    <3> QED BY <3>1, <3>2 DEF PollTells, Stands
  <2>10. t.done # s.done => \E i \in DOMAIN all : all[i].type = "progress"
    BY <2>5 DEF PollTells
  <2>11. s.at = "prepared" => \E i \in DOMAIN all : all[i].type = "prepared"
    BY <2>5 DEF PollTells
  <2>12. all # <<>> /\ all[Len(all)].type \in Closing
    BY <2>1, <2>2
  <2>13. PollSays(s, t, all)
    BY <2>2, <2>6, <2>7, <2>8, <2>9, <2>10, <2>11, <2>12 DEF PollSays
  <2> QED BY <2>1, <2>2, <2>13
<1> QED BY <1>2, <1>3

LEMMA Joining ==
  ASSUME NEW a \in Seq(Event), NEW b \in Seq(Event), NEW c, c = a \o b
  PROVE  /\ c \in Seq(Event) /\ Len(a) \in Nat /\ Len(b) \in Nat /\ Len(c) = Len(a) + Len(b)
         /\ DOMAIN a = 1..Len(a) /\ DOMAIN b = 1..Len(b) /\ DOMAIN c = 1..(Len(a) + Len(b))
         /\ \A i \in DOMAIN c : \/ i \in DOMAIN a /\ c[i] = a[i]
                                \/ i - Len(a) \in DOMAIN b /\ c[i] = b[i - Len(a)] /\ i > Len(a)
         /\ \A i \in DOMAIN a : i \in DOMAIN c /\ c[i] = a[i]
         /\ \A i \in DOMAIN b : Len(a) + i \in DOMAIN c /\ c[Len(a) + i] = b[i]
         /\ KeysOf(c) = KeysOf(a) \union KeysOf(b)
<1>1. /\ c \in Seq(Event) /\ Len(a) \in Nat /\ Len(b) \in Nat /\ Len(c) = Len(a) + Len(b)
      /\ DOMAIN a = 1..Len(a) /\ DOMAIN b = 1..Len(b) /\ DOMAIN c = 1..(Len(a) + Len(b))
      /\ \A i \in 1..Len(a) : c[i] = a[i]
      /\ \A i \in 1..Len(b) : c[Len(a) + i] = b[i]
      /\ \A i \in (Len(a) + 1)..(Len(a) + Len(b)) : i - Len(a) \in 1..Len(b) /\ c[i] = b[i - Len(a)]
  BY Concatenated
<1>2. \A i \in DOMAIN c : \/ i \in DOMAIN a /\ c[i] = a[i]
                          \/ i - Len(a) \in DOMAIN b /\ c[i] = b[i - Len(a)] /\ i > Len(a)
  BY <1>1
<1>3. \A i \in DOMAIN a : i \in DOMAIN c /\ c[i] = a[i]
  BY <1>1
<1>4. \A i \in DOMAIN b : Len(a) + i \in DOMAIN c /\ c[Len(a) + i] = b[i]
  BY <1>1
<1>5. KeysOf(c) = KeysOf(a) \union KeysOf(b)
  <2>1. ASSUME NEW key \in KeysOf(c) PROVE key \in KeysOf(a) \union KeysOf(b)
    <3>1. PICK i \in DOMAIN c : IsPrinter(c[i]) /\ key = c[i].key
      BY DEF KeysOf
    <3> QED BY <1>2, <3>1 DEF KeysOf
  <2>2. ASSUME NEW key \in KeysOf(a) PROVE key \in KeysOf(c)
    <3>1. PICK i \in DOMAIN a : IsPrinter(a[i]) /\ key = a[i].key
      BY DEF KeysOf
    <3> QED BY <1>3, <3>1 DEF KeysOf
  <2>3. ASSUME NEW key \in KeysOf(b) PROVE key \in KeysOf(c)
    <3>1. PICK i \in DOMAIN b : IsPrinter(b[i]) /\ key = b[i].key
      BY DEF KeysOf
    <3>2. PICK j \in DOMAIN c : c[j] = b[i]
      BY <1>4
    <3> QED BY <3>1, <3>2 DEF KeysOf
  <2> QED BY <2>1, <2>2, <2>3
<1> QED BY <1>1, <1>2, <1>3, <1>4, <1>5

Sound(s, pending) ==
  PrintersUnderWay(s, pending) /\ CountsUnderWay(s, pending) /\ EndUnderWay(s, pending)

\* The printers of a poll are new, and announced by it.
LEMMA PollKeys ==
  ASSUME NEW s, NEW t, NEW says, PollSays(s, t, says)
  PROVE  /\ \A key \in KeysOf(says) :
              \/ \E address \in t.announced \ s.announced : key = <<"network", address>>
              \/ s.at = "prepared" /\ \E device \in Devices : key = UsbKey(device)
         /\ \A address \in t.announced \ s.announced : <<"network", address>> \in KeysOf(says)
         /\ \A i \in DOMAIN says : IsPrinter(says[i]) => says[i].configured = (says[i].key \in s.configured)
<1>1. ASSUME NEW i \in DOMAIN says, IsPrinter(says[i]) PROVE Announces(s, t, says[i])
  BY <1>1 DEF PollSays, Closing, IsPrinter
<1>2. ASSUME NEW key \in KeysOf(says)
      PROVE  \/ \E address \in t.announced \ s.announced : key = <<"network", address>>
             \/ s.at = "prepared" /\ \E device \in Devices : key = UsbKey(device)
  <2>1. PICK i \in DOMAIN says : IsPrinter(says[i]) /\ key = says[i].key
    BY DEF KeysOf
  <2>2. Announces(s, t, says[i])
    BY <1>1, <2>1
  <2>3. CASE \E address \in t.announced \ s.announced : says[i] = NetworkEvent(s, address)
    BY <2>1, <2>3, PrinterEventFields DEF NetworkEvent
  <2>4. CASE s.at = "prepared" /\ \E device \in Devices : says[i] = PrinterEvent(s, UsbKey(device))
    BY <2>1, <2>4, PrinterEventFields
  <2> QED BY <2>1, <2>2, <2>3, <2>4 DEF Announces, IsPrinter
<1>3. ASSUME NEW address \in t.announced \ s.announced PROVE <<"network", address>> \in KeysOf(says)
  <2>1. PICK i \in DOMAIN says : says[i] = NetworkEvent(s, address)
    BY DEF PollSays
  <2>2. IsPrinter(says[i]) /\ says[i].key = <<"network", address>>
    BY <2>1, PrinterEventFields DEF NetworkEvent, IsPrinter
  <2> QED BY <2>2 DEF KeysOf
<1>4. \A i \in DOMAIN says : IsPrinter(says[i]) => says[i].configured = (says[i].key \in s.configured)
  BY <1>1, AnnouncedTypes
<1> QED BY <1>2, <1>3, <1>4

LEMMA PollPrinters ==
  ASSUME NEW s, NEW t, NEW pending \in Seq(Event), NEW says, PollSays(s, t, says),
         NEW all, all = pending \o says,
         PrintersUnderWay(s, pending), t.configured = s.configured, s.announced \subseteq t.announced,
         s.at = "prepared" => Keys = {} /\ pending = <<>>
  PROVE  PrintersUnderWay(t, all)
<1>1. says \in Seq(Event)
  BY DEF PollSays
<1>2. /\ Len(pending) \in Nat /\ Len(says) \in Nat
      /\ DOMAIN pending = 1..Len(pending) /\ DOMAIN says = 1..Len(says)
      /\ \A i \in DOMAIN all : \/ i \in DOMAIN pending /\ all[i] = pending[i]
                               \/ /\ i - Len(pending) \in DOMAIN says
                                  /\ all[i] = says[i - Len(pending)] /\ i > Len(pending)
      /\ DOMAIN all = 1..(Len(pending) + Len(says))
      /\ KeysOf(all) = KeysOf(pending) \union KeysOf(says)
  <2>1. KeysOf(all) = KeysOf(pending) \union KeysOf(says)
    BY <1>1, Joining
  <2> QED BY <1>1, <2>1, Joining
<1>3. /\ OncePerKey(pending) /\ KeysOf(pending) \cap Keys = {}
      /\ \A i \in DOMAIN pending : IsPrinter(pending[i]) =>
           pending[i].configured = (pending[i].key \in s.configured)
      /\ {<<"network", address>> : address \in s.announced} =
           {key \in Keys \union KeysOf(pending) : key[1] = "network"}
      /\ inventory \ (s.configured \union unseen) \subseteq Keys
  BY DEF PrintersUnderWay
<1>4. s.at = "prepared" => KeysOf(pending) = {}
  BY DEF KeysOf
<1>5. /\ \A key \in KeysOf(says) :
           \/ \E address \in t.announced \ s.announced : key = <<"network", address>>
           \/ s.at = "prepared" /\ \E device \in Devices : key = UsbKey(device)
      /\ \A address \in t.announced \ s.announced : <<"network", address>> \in KeysOf(says)
      /\ \A i \in DOMAIN says : IsPrinter(says[i]) => says[i].configured = (says[i].key \in s.configured)
  BY PollKeys
<1>6. KeysOf(says) \cap (Keys \union KeysOf(pending)) = {}
  <2> SUFFICES ASSUME NEW key \in KeysOf(says), key \in Keys \union KeysOf(pending) PROVE FALSE
    OBVIOUS
  <2>1. CASE s.at = "prepared"
    BY <1>4, <2>1
  <2>2. CASE s.at # "prepared"
    <3>1. PICK address \in t.announced \ s.announced : key = <<"network", address>>
      BY <1>5, <2>2
    <3>2. key \in {<<"network", other>> : other \in s.announced}
      BY <1>3, <3>1
    <3> QED BY <3>1, <3>2
  <2> QED BY <2>1, <2>2
<1>7. OncePerKey(all)
  <2> SUFFICES ASSUME NEW i \in DOMAIN all, NEW k \in DOMAIN all, IsPrinter(all[i]), IsPrinter(all[k]),
                      all[i].key = all[k].key
               PROVE  i = k
    BY DEF OncePerKey
  <2>1. \A j \in DOMAIN pending : IsPrinter(pending[j]) => pending[j].key \in KeysOf(pending)
    BY DEF KeysOf
  <2>2. \A j \in DOMAIN says : IsPrinter(says[j]) => says[j].key \in KeysOf(says)
    BY DEF KeysOf
  <2>3. CASE i \in DOMAIN pending /\ all[i] = pending[i] /\ k \in DOMAIN pending /\ all[k] = pending[k]
    BY <1>3, <2>3 DEF OncePerKey
  <2>4. CASE /\ i - Len(pending) \in DOMAIN says /\ all[i] = says[i - Len(pending)]
             /\ k - Len(pending) \in DOMAIN says /\ all[k] = says[k - Len(pending)]
    <3>1. i - Len(pending) = k - Len(pending)
      BY <2>4 DEF PollSays, OncePerKey
    <3> QED BY <1>2, <3>1
  <2>5. CASE /\ i \in DOMAIN pending /\ all[i] = pending[i]
             /\ k - Len(pending) \in DOMAIN says /\ all[k] = says[k - Len(pending)]
    BY <1>6, <2>1, <2>2, <2>5
  <2>6. CASE /\ k \in DOMAIN pending /\ all[k] = pending[k]
             /\ i - Len(pending) \in DOMAIN says /\ all[i] = says[i - Len(pending)]
    BY <1>6, <2>1, <2>2, <2>6
  <2> QED BY <1>2, <2>3, <2>4, <2>5, <2>6
<1>8. KeysOf(all) \cap Keys = {}
  BY <1>2, <1>3, <1>6
<1>9. \A i \in DOMAIN all : IsPrinter(all[i]) => all[i].configured = (all[i].key \in t.configured)
  BY <1>2, <1>3, <1>5
<1>10. {<<"network", address>> : address \in t.announced} =
         {key \in Keys \union KeysOf(all) : key[1] = "network"}
  <2>1. ASSUME NEW address \in t.announced
        PROVE  <<"network", address>> \in Keys \union KeysOf(all)
    <3>1. CASE address \in s.announced
      BY <1>2, <1>3, <3>1
    <3>2. CASE address \notin s.announced
      BY <1>2, <1>5, <3>2
    <3> QED BY <3>1, <3>2
  <2>2. ASSUME NEW key \in Keys \union KeysOf(all), key[1] = "network"
        PROVE  \E address \in t.announced : key = <<"network", address>>
    <3>1. CASE key \in Keys \union KeysOf(pending)
      BY <1>3, <2>2, <3>1
    <3>2. CASE key \in KeysOf(says)
      BY <1>5, <2>2, <3>2 DEF UsbKey
    <3> QED BY <1>2, <3>1, <3>2
  <2> QED BY <2>1, <2>2
<1> QED BY <1>3, <1>7, <1>8, <1>9, <1>10 DEF PrintersUnderWay

LEMMA PollCounts ==
  ASSUME NEW s, NEW t, NEW pending \in Seq(Event), NEW says, PollSays(s, t, says),
         NEW all, all = pending \o says,
         \/ CountsUnderWay(s, pending)
         \/ s.at = "prepared" /\ pending = <<>> /\ page.scan.completed = s.done,
         t.total = s.total
  PROVE  CountsUnderWay(t, all)
<1>1. says \in Seq(Event)
  BY DEF PollSays
<1>2. /\ Len(pending) \in Nat /\ Len(says) \in Nat
      /\ DOMAIN pending = 1..Len(pending) /\ DOMAIN says = 1..Len(says)
      /\ \A i \in DOMAIN all : \/ i \in DOMAIN pending /\ all[i] = pending[i]
                               \/ /\ i - Len(pending) \in DOMAIN says
                                  /\ all[i] = says[i - Len(pending)] /\ i > Len(pending)
      /\ \A i \in DOMAIN pending : i \in DOMAIN all /\ all[i] = pending[i]
      /\ \A i \in DOMAIN says : Len(pending) + i \in DOMAIN all /\ all[Len(pending) + i] = says[i]
  BY <1>1, Joining
<1>3. /\ Stands(pending, s.done)
      /\ (\A i \in DOMAIN pending : pending[i].type # "progress") => page.scan.completed = s.done
      /\ \A i \in DOMAIN pending : pending[i].type \in {"prepared", "progress"} => pending[i].total = s.total
      /\ s.at # "prepared" =>
           ((\A i \in DOMAIN pending : pending[i].type # "prepared") => page.scan.total = s.total)
  BY DEF CountsUnderWay, Stands
<1>4. Stands(all, t.done)
  <2> SUFFICES ASSUME NEW i \in DOMAIN all, all[i].type = "progress",
                      \A k \in DOMAIN all : i < k => all[k].type # "progress"
               PROVE  all[i].completed = t.done
    BY DEF Stands
  <2>1. CASE i \in DOMAIN pending /\ all[i] = pending[i]
    <3>1. ASSUME NEW k \in DOMAIN says PROVE says[k].type # "progress"
      <4>1. i < Len(pending) + k
        BY <1>2, <2>1
      <4> QED BY <1>2, <4>1
    <3>2. t.done = s.done
      BY <3>1 DEF PollSays
    <3>3. \A k \in DOMAIN pending : i < k => pending[k].type # "progress"
      BY <1>2
    <3> QED BY <1>3, <2>1, <3>2, <3>3 DEF Stands
  <2>2. CASE i - Len(pending) \in DOMAIN says /\ all[i] = says[i - Len(pending)] /\ i > Len(pending)
    <3>1. PICK j \in DOMAIN says : j = i - Len(pending) /\ i = Len(pending) + j
      BY <1>2, <2>2
    <3>2. ASSUME NEW k \in DOMAIN says, j < k PROVE says[k].type # "progress"
      <4>1. i < Len(pending) + k
        BY <1>2, <3>1, <3>2
      <4> QED BY <1>2, <4>1
    <3> QED BY <2>2, <3>1, <3>2 DEF PollSays, Stands
  <2> QED BY <1>2, <2>1, <2>2
<1>5. (\A i \in DOMAIN all : all[i].type # "progress") => page.scan.completed = t.done
  <2> SUFFICES ASSUME \A i \in DOMAIN all : all[i].type # "progress"
               PROVE  page.scan.completed = t.done
    OBVIOUS
  <2>1. \A i \in DOMAIN pending : pending[i].type # "progress"
    BY <1>2
  <2>2. ASSUME NEW i \in DOMAIN says PROVE says[i].type # "progress"
    <3>1. PICK k \in DOMAIN all : all[k] = says[i]
      BY <1>2
    <3> QED BY <3>1
  <2>3. t.done = s.done
    BY <2>2 DEF PollSays
  <2> QED BY <1>3, <2>1, <2>3
<1>6. \A i \in DOMAIN says : says[i].type \in {"prepared", "progress"} => says[i].total = s.total
  <2> SUFFICES ASSUME NEW i \in DOMAIN says, says[i].type \in {"prepared", "progress"}
               PROVE  says[i].total = s.total
    OBVIOUS
  <2>1. Announces(s, t, says[i])
    BY DEF PollSays, Closing
  <2>2. \A key : PrinterEvent(s, key).type = "printer"
    BY PrinterEventFields
  <2> QED BY <2>1, <2>2 DEF Announces, NetworkEvent
<1>7. \A i \in DOMAIN all : all[i].type \in {"prepared", "progress"} => all[i].total = t.total
  BY <1>2, <1>3, <1>6
<1>8. (\A i \in DOMAIN all : all[i].type # "prepared") => page.scan.total = t.total
  <2> SUFFICES ASSUME \A i \in DOMAIN all : all[i].type # "prepared"
               PROVE  page.scan.total = t.total
    OBVIOUS
  <2>1. \A i \in DOMAIN pending : pending[i].type # "prepared"
    BY <1>2
  <2>2. ASSUME NEW i \in DOMAIN says PROVE says[i].type # "prepared"
    <3>1. PICK k \in DOMAIN all : all[k] = says[i]
      BY <1>2
    <3> QED BY <3>1
  <2>3. s.at # "prepared"
    BY <2>2 DEF PollSays
  <2> QED BY <1>3, <2>1, <2>3
<1> QED BY <1>4, <1>5, <1>7, <1>8 DEF CountsUnderWay

LEMMA PollEnd ==
  ASSUME NEW s, NEW t, NEW pending \in Seq(Event), NEW says, PollSays(s, t, says),
         NEW all, all = pending \o says,
         EndUnderWay(s, pending) \/ pending = <<>>, s.at \notin Closing
  PROVE  EndUnderWay(t, all)
<1>1. says \in Seq(Event)
  BY DEF PollSays
<1>2. /\ Len(pending) \in Nat /\ Len(says) \in Nat /\ Len(all) = Len(pending) + Len(says)
      /\ DOMAIN pending = 1..Len(pending) /\ DOMAIN says = 1..Len(says)
      /\ \A i \in DOMAIN all : \/ i \in DOMAIN pending /\ all[i] = pending[i]
                               \/ /\ i - Len(pending) \in DOMAIN says
                                  /\ all[i] = says[i - Len(pending)] /\ i > Len(pending)
      /\ \A i \in DOMAIN says : Len(pending) + i \in DOMAIN all /\ all[Len(pending) + i] = says[i]
      /\ DOMAIN all = 1..(Len(pending) + Len(says)) /\ all \in Seq(Event)
  BY <1>1, Joining
<1>3. \A i \in DOMAIN pending : pending[i].type \notin Closing
  BY DEF EndUnderWay, Closing
<1>4. \A i \in DOMAIN says : says[i].type \in Closing => i = Len(says) /\ says[i].type = t.at
  BY AnnouncedTypes DEF PollSays
<1>5. ASSUME NEW i \in DOMAIN all, all[i].type \in Closing
      PROVE  i = Len(all) /\ all[i].type = t.at
  <2>1. i - Len(pending) \in DOMAIN says /\ all[i] = says[i - Len(pending)] /\ i > Len(pending)
    BY <1>2, <1>3, <1>5
  <2>2. i - Len(pending) = Len(says) /\ all[i].type = t.at
    BY <1>4, <1>5, <2>1
  <2> QED BY <1>2, <2>2
<1>6. ASSUME Finished(t) PROVE all # <<>> /\ all[Len(all)].type \in Closing
  <2>1. says # <<>> /\ says[Len(says)].type \in Closing
    BY <1>6 DEF PollSays
  <2>2. Len(says) \in DOMAIN says
    BY <1>1, <2>1
  <2>3. Len(all) \in DOMAIN all /\ all[Len(all)] = says[Len(says)]
    BY <1>2, <2>2
  <2> QED BY <1>2, <2>1, <2>3
<1> QED BY <1>5, <1>6 DEF EndUnderWay, Closing

\* A poll of the open stream.
LEMMA PollStreams ==
  ASSUME PageInv, NEW id \in Scans, source[id] = "open", server[id].at = "streaming",
         transit[id] = <<>>, NEW reported \in Driven(server[id]),
         NEW t, t = reported.scan, NEW all, all = server[id].queue \o reported.events
  PROVE  /\ all \in Seq(Event) /\ reported.events \in Seq(Event) /\ ScanInv(t)
         /\ t.scope = server[id].scan.scope /\ t.targets = server[id].scan.targets
         /\ t.announced \union ConnectedAddresses(t.answered) = heard
         /\ t.at # "prepared" /\ Sound(t, all)
<1> DEFINE s == server[id].scan
           pending == server[id].queue
<1>1. id = page.current /\ page.scan.phase = "running"
  BY DEF PageInv, SourcesInv
<1>2. StreamingInv(id)
  BY <1>1 DEF PageInv, OpenInv, Requested
<1>3. Pending(id) = pending /\ pending \in Seq(Event)
  <2>1. pending \in Seq(Event)
    BY <1>2 DEF StreamingInv
  <2>2. \A events \in Seq(Event) : <<>> \o events = events
    OBVIOUS
  <2> QED BY <2>1, <2>2 DEF Pending
<1>4. /\ ScanInv(s) /\ s.announced \union ConnectedAddresses(s.answered) = heard
      /\ s.at = "prepared" => FreshPage /\ pending = <<>> /\ inventory \subseteq s.configured \union unseen
      /\ s.at # "prepared" => Sound(s, pending)
  BY <1>2, <1>3 DEF StreamingInv, Sound
<1>5. CASE Finished(s)
  <2>1. reported = Reported(s, <<>>)
    BY <1>5 DEF Driven
  <2>2. t = s /\ reported.events = <<>>
    BY <2>1 DEF Reported
  <2>3. all = pending
    <3>1. \A events \in Seq(Event) : events \o <<>> = events
      OBVIOUS
    <3> QED BY <1>3, <2>2, <3>1
  <2>4. s.at # "prepared" /\ <<>> \in Seq(Event)
    BY <1>5 DEF Finished
  <2> QED BY <1>3, <1>4, <2>2, <2>3, <2>4
<1>6. CASE ~Finished(s)
  <2>1. PICK r \in Polls(s) : reported = Reported(r.scan, r.events \o ClosingEvent(r.scan))
    BY <1>6 DEF Driven
  <2>2. PICK u, open : u = s /\ open = pending
    OBVIOUS
  <2>3. PICK says : says = r.events \o ClosingEvent(r.scan)
    OBVIOUS
  <2>4. t = r.scan /\ reported.events = says /\ all = open \o says
    BY <2>1, <2>2, <2>3 DEF Reported
  <2>5. u.at \in {"prepared", "sweeping"} /\ PollMoves(u, t) /\ PollTells(u, t, r.events)
    BY <1>4, <2>1, <2>2, <2>4, PollsMove
  <2>6. PollSays(u, t, says) /\ ScanInv(t)
    BY <2>3, <2>4, <2>5, PollCloses DEF PollMoves
  <2>7. /\ t.scope = u.scope /\ t.targets = u.targets /\ t.configured = u.configured
        /\ t.total = u.total /\ t.at # "prepared" /\ t.answered = {}
        /\ t.announced = u.announced \union ConnectedAddresses(u.answered)
    BY <2>5 DEF PollMoves
  <2>8. t.announced \union ConnectedAddresses(t.answered) = heard
    BY <1>4, <2>2, <2>7 DEF ConnectedAddresses
  <2>9. open \in Seq(Event) /\ says \in Seq(Event)
    BY <1>3, <2>2, <2>6 DEF PollSays
  <2>10. all \in Seq(Event)
    BY <2>4, <2>9, Joining
  <2>11. u.at = "prepared" =>
           /\ open = <<>> /\ Keys = {} /\ page.scan.completed = u.done
           /\ PrintersUnderWay(u, open)
    <3> SUFFICES ASSUME u.at = "prepared"
                 PROVE  /\ open = <<>> /\ Keys = {} /\ page.scan.completed = u.done
                        /\ PrintersUnderWay(u, open)
      OBVIOUS
    <3>1. FreshPage /\ open = <<>> /\ inventory \subseteq u.configured \union unseen
      BY <1>4, <2>2
    <3>2. NoProbes(u)
      BY <1>4, <2>2 DEF ScanInv
    <3>3. Keys = {} /\ page.scan.completed = 0
      BY <3>1 DEF FreshPage, ScanState, Keys, Rows
    <3>4. KeysOf(open) = {}
      BY <3>1 DEF KeysOf
    <3>5. PrintersUnderWay(u, open)
      BY <3>1, <3>2, <3>3, <3>4 DEF PrintersUnderWay, NoProbes, OncePerKey
    <3> QED BY <3>1, <3>2, <3>3, <3>5 DEF NoProbes
  <2>12. u.at # "prepared" =>
           PrintersUnderWay(u, open) /\ CountsUnderWay(u, open) /\ EndUnderWay(u, open)
    BY <1>4, <2>2 DEF Sound
  <2>13. PrintersUnderWay(t, all)
    <3>1. PrintersUnderWay(u, open) /\ u.announced \subseteq t.announced
      BY <2>7, <2>11, <2>12
    <3> QED BY <2>4, <2>6, <2>7, <2>9, <2>11, <3>1, PollPrinters
  <2>14. CountsUnderWay(t, all)
    <3>1. \/ CountsUnderWay(u, open)
          \/ u.at = "prepared" /\ open = <<>> /\ page.scan.completed = u.done
      BY <2>11, <2>12
    <3> QED BY <2>4, <2>6, <2>7, <2>9, <3>1, PollCounts
  <2>15. EndUnderWay(t, all)
    <3>1. u.at \notin Closing
      BY <2>5 DEF Closing
    <3> QED BY <2>4, <2>6, <2>9, <2>11, <2>12, <3>1, PollEnd
  <2> QED BY <2>2, <2>4, <2>6, <2>7, <2>8, <2>9, <2>10, <2>13, <2>14, <2>15 DEF Sound
<1> QED BY <1>5, <1>6

LEMMA PollKeeps ==
  ASSUME PageInv, NEW id \in Scans, PollNext(id)
  PROVE  PageInv'
<1>1. /\ server[id].at = "streaming" /\ source[id] = "open" /\ transit[id] = <<>>
      /\ UNCHANGED <<interfaces, inventory, page, source, heard, unseen>>
  BY DEF PollNext
<1>2. id = page.current /\ page.scan.phase = "running"
  BY <1>1 DEF PageInv, SourcesInv
<1>3. StreamingInv(id) /\ DOMAIN server[id] = {"at", "scan", "queue", "woken"}
  BY <1>1, <1>2 DEF PageInv, OpenInv, Requested
<1>4. PICK reported \in Driven(server[id]) :
        LET queue == server[id].queue \o reported.events IN
        IF queue = <<>>
        THEN /\ server' = [server EXCEPT ![id] =
                  IF Finished(reported.scan) THEN [at |-> "ended"]
                  ELSE [@ EXCEPT !.scan = reported.scan, !.woken = FALSE]]
             /\ UNCHANGED transit
        ELSE /\ server' = [server EXCEPT ![id].scan = reported.scan, ![id].queue = Tail(queue),
                                         ![id].woken = WokenByEvent(queue)]
             /\ transit' = [transit EXCEPT ![id] = <<Head(queue)>>]
  BY DEF PollNext
<1>5. PICK t, all : t = reported.scan /\ all = server[id].queue \o reported.events
  OBVIOUS
<1>6. /\ all \in Seq(Event) /\ reported.events \in Seq(Event) /\ ScanInv(t)
      /\ t.scope = server[id].scan.scope /\ t.targets = server[id].scan.targets
      /\ t.announced \union ConnectedAddresses(t.answered) = heard
      /\ t.at # "prepared" /\ Sound(t, all)
  BY <1>1, <1>5, PollStreams
<1>7. PICK queue, events, woken :
        /\ queue \in Seq(Event) /\ events \in Seq(Event) /\ events \o queue = all
        /\ server' = [server EXCEPT ![id] = [server[id] EXCEPT !.scan = t, !.queue = queue, !.woken = woken]]
        /\ transit' = [transit EXCEPT ![id] = events]
  <2>1. CASE all = <<>>
    <3>1. ~Finished(t)
      BY <1>6, <2>1 DEF Sound, EndUnderWay
    <3>2. server' = [server EXCEPT ![id] = [server[id] EXCEPT !.scan = t, !.woken = FALSE]]
          /\ UNCHANGED transit
      BY <1>4, <1>5, <2>1, <3>1
    <3>3. server[id].queue \in Seq(Event)
      BY <1>3 DEF StreamingInv
    <3>4. server[id].queue = <<>>
      <4>1. PICK a : a = server[id].queue
        OBVIOUS
      <4>2. PICK b : b = reported.events
        OBVIOUS
      <4>3. a \o b = <<>> /\ a \in Seq(Event)
        BY <1>5, <2>1, <3>3, <4>1, <4>2
      <4>4. b \in Seq(Event)
        BY <1>6, <4>2
      <4> QED BY <4>1, <4>3, <4>4
    <3>5. [server[id] EXCEPT !.scan = t, !.woken = FALSE]
            = [server[id] EXCEPT !.scan = t, !.queue = <<>>, !.woken = FALSE]
      BY <1>3, <3>4
    <3>6. transit' = [transit EXCEPT ![id] = <<>>]
      BY <1>1, <3>2 DEF PageInv, PageTypeOK
    <3>7. <<>> \o <<>> = <<>> /\ <<>> \in Seq(Event)
      OBVIOUS
    <3> QED BY <2>1, <3>2, <3>5, <3>6, <3>7
  <2>2. CASE all # <<>>
    <3>1. /\ Tail(all) \in Seq(Event) /\ <<Head(all)>> \in Seq(Event)
          /\ <<Head(all)>> \o Tail(all) = all
      BY <1>6, <2>2
    <3>2. server' = [server EXCEPT ![id].scan = t, ![id].queue = Tail(all), ![id].woken = WokenByEvent(all)]
          /\ transit' = [transit EXCEPT ![id] = <<Head(all)>>]
      BY <1>4, <1>5, <2>2
    <3>3. server' = [server EXCEPT ![id] =
            [server[id] EXCEPT !.scan = t, !.queue = Tail(all), !.woken = WokenByEvent(all)]]
      BY <3>2 DEF PageInv, PageTypeOK
    <3> QED BY <3>1, <3>2, <3>3
  <2> QED BY <2>1, <2>2
<1>8. PICK stream : stream = [server[id] EXCEPT !.scan = t, !.queue = queue, !.woken = woken]
  OBVIOUS
<1>9. /\ stream.at = "streaming" /\ DOMAIN stream = {"at", "scan", "queue", "woken"}
      /\ stream.scan = t /\ stream.queue = queue
  BY <1>1, <1>3, <1>8
<1>10. server'[id] = stream /\ transit'[id] = events
  BY <1>7, <1>8 DEF PageInv, PageTypeOK
<1>11. Pending(id)' = all
  BY <1>7, <1>9, <1>10 DEF Pending
<1>12. Sound(t, all)'
  BY <1>1, <1>6 DEF Sound, PrintersUnderWay, CountsUnderWay, EndUnderWay, Keys, Rows
<1>13. StreamingInv(id)'
  <2>1. /\ server[id].scan.scope = ScopeOf(QueryString(page.query))
        /\ server[id].scan.targets = TargetsOf(server[id].scan.scope, interfaces)
    BY <1>3 DEF StreamingInv
  <2> QED BY <1>1, <1>6, <1>7, <1>9, <1>10, <1>11, <1>12, <2>1 DEF StreamingInv, Sound
<1>14. heard' = heard /\ heard \cap OwnAddresses = {}
  BY <1>1 DEF PageInv
<1> QED BY <1>1, <1>7, <1>8, <1>9, <1>13, <1>14, StreamStep

-----------------------------------------------------------------------------
(* The page's listeners.                                                   *)

\* What is under way, its first event and the rest.
Delivers(pending, event, rest) ==
  /\ event \in Event /\ rest \in Seq(Event)
  /\ DOMAIN pending = 1..Len(pending) /\ Len(pending) \in Nat /\ Len(rest) \in Nat
  /\ Len(pending) = Len(rest) + 1 /\ DOMAIN rest = 1..Len(rest)
  /\ 1 \in DOMAIN pending /\ pending[1] = event
  /\ \A i \in DOMAIN rest : i + 1 \in DOMAIN pending /\ rest[i] = pending[i + 1]
  /\ \A i \in DOMAIN pending : i # 1 => i - 1 \in DOMAIN rest /\ rest[i - 1] = pending[i]
  /\ KeysOf(pending) = KeysOf(rest) \union IF IsPrinter(event) THEN {event.key} ELSE {}

LEMMA FirstOf ==
  ASSUME NEW pending \in Seq(Event), pending # <<>>,
         NEW event, event = Head(pending), NEW rest, rest = Tail(pending)
  PROVE  Delivers(pending, event, rest)
<1>1. /\ event \in Event /\ rest \in Seq(Event)
      /\ DOMAIN pending = 1..Len(pending) /\ Len(pending) \in Nat /\ Len(rest) \in Nat
      /\ Len(pending) = Len(rest) + 1 /\ DOMAIN rest = 1..Len(rest)
      /\ 1 \in DOMAIN pending /\ pending[1] = event
      /\ \A i \in 1..Len(rest) : rest[i] = pending[i + 1]
  OBVIOUS
<1>2. \A i \in DOMAIN rest : i + 1 \in DOMAIN pending /\ rest[i] = pending[i + 1]
  BY <1>1
<1>3. ASSUME NEW i \in DOMAIN pending, i # 1 PROVE i - 1 \in DOMAIN rest /\ rest[i - 1] = pending[i]
  <2>1. PICK k \in 1..Len(rest) : i = k + 1
    <3>1. i - 1 \in 1..Len(rest) /\ i = (i - 1) + 1
      BY <1>1, <1>3
    <3> QED BY <3>1
  <2> QED BY <1>1, <2>1
<1>4. ASSUME NEW key \in KeysOf(pending)
      PROVE  key \in KeysOf(rest) \union IF IsPrinter(event) THEN {event.key} ELSE {}
  <2>1. PICK i \in DOMAIN pending : IsPrinter(pending[i]) /\ key = pending[i].key
    BY DEF KeysOf
  <2>2. CASE i = 1
    BY <1>1, <2>1, <2>2
  <2>3. CASE i # 1
    <3>1. PICK k \in DOMAIN rest : rest[k] = pending[i]
      BY <1>3, <2>3
    <3> QED BY <2>1, <3>1 DEF KeysOf
  <2> QED BY <2>2, <2>3
<1>5. ASSUME NEW key \in KeysOf(rest) PROVE key \in KeysOf(pending)
  <2>1. PICK i \in DOMAIN rest : IsPrinter(rest[i]) /\ key = rest[i].key
    BY DEF KeysOf
  <2>2. PICK k \in DOMAIN pending : pending[k] = rest[i]
    BY <1>2
  <2> QED BY <2>1, <2>2 DEF KeysOf
<1>6. IsPrinter(event) => event.key \in KeysOf(pending)
  BY <1>1 DEF KeysOf
<1> QED BY <1>1, <1>2, <1>3, <1>4, <1>5, <1>6 DEF Delivers

\* What an event that closes nothing changes of the page.
ShowsEvent(event) ==
  /\ page'.scan.printers = IF IsPrinter(event) THEN Append(page.scan.printers, Row(event))
                           ELSE page.scan.printers
  /\ page'.scan.completed = IF event.type = "progress" THEN event.completed ELSE page.scan.completed
  /\ page'.scan.total = IF event.type \in {"prepared", "progress"} THEN event.total ELSE page.scan.total
  /\ page'.scan.phase = page.scan.phase
  /\ page'.query = page.query /\ page'.current = page.current /\ page'.closer = page.closer

LEMMA RowFields ==
  ASSUME NEW event \in Event, IsPrinter(event)
  PROVE  /\ event.key \in PrinterKeys /\ event.configured \in BOOLEAN
         /\ Row(event) \in PageRow /\ Row(event).key = event.key
         /\ Row(event).configured = event.configured
<1>1. event \in [type : {"printer"}, key : PrinterKeys, configured : BOOLEAN]
  BY DEF Event, IsPrinter
<1>2. PICK key \in PrinterKeys, configured \in BOOLEAN :
        event = [type |-> "printer", key |-> key, configured |-> configured]
  BY <1>1
<1>3. event.key = key /\ event.configured = configured
  BY <1>2
<1>4. Row(event) = [key |-> key, configured |-> configured]
  BY <1>3, Zenon DEF Row
<1>5. Row(event) \in PageRow /\ Row(event).key = key /\ Row(event).configured = configured
  BY <1>4 DEF PageRow
<1> QED BY <1>3, <1>5, Zenon

LEMMA ShownFields ==
  ASSUME page \in PageSet, NEW event \in Event, event.type \notin Closing,
         page' = [page EXCEPT !.scan = Shown(@, event),
                              !.closer = IF event.type \in {"completed", "failed"} THEN NoScan ELSE @]
  PROVE  page' \in PageSet /\ ShowsEvent(event)
<1> DEFINE shown == Shown(page.scan, event)
<1>1. page.scan \in ShownSet
  BY DEF PageSet
<1>2. /\ shown \in ShownSet /\ shown.phase = page.scan.phase
      /\ shown.printers = IF IsPrinter(event) THEN Append(page.scan.printers, Row(event))
                          ELSE page.scan.printers
      /\ shown.completed = IF event.type = "progress" THEN event.completed ELSE page.scan.completed
      /\ shown.total = IF event.type \in {"prepared", "progress"} THEN event.total ELSE page.scan.total
  <2>1. CASE event.type = "prepared"
    <3>1. event.total \in Nat
      BY <2>1 DEF Event
    <3> QED BY <1>1, <2>1, <3>1 DEF Shown, ShownSet, IsPrinter
  <2>2. CASE event.type = "progress"
    <3>1. event.total \in Nat /\ event.completed \in Nat
      BY <2>2 DEF Event
    <3> QED BY <1>1, <2>2, <3>1 DEF Shown, ShownSet, IsPrinter
  <2>3. CASE event.type = "usb_failure"
    BY <1>1, <2>3 DEF Shown, ShownSet, IsPrinter
  <2>4. CASE event.type = "printer"
    <3>1. PICK row \in PageRow : row = Row(event)
      BY <2>4, RowFields DEF IsPrinter
    <3>2. Append(page.scan.printers, row) \in PageRows
      BY <1>1 DEF ShownSet, PageRows
    <3>3. shown = [page.scan EXCEPT !.printers = Append(page.scan.printers, row)]
      BY <2>4, <3>1 DEF Shown
    <3> HIDE DEF shown
    <3> QED BY <1>1, <2>4, <3>1, <3>2, <3>3 DEF ShownSet, IsPrinter
  <2> QED BY <2>1, <2>2, <2>3, <2>4 DEF Event, Closing
<1>3. PICK d \in ShownSet : d = shown
  BY <1>2
<1> HIDE DEF shown
<1>4. page' = [page EXCEPT !.scan = d]
  <2>1. page' = [page EXCEPT !.scan = d, !.closer = page.closer]
    BY <1>3 DEF Closing, shown
  <2> QED BY <2>1 DEF PageSet
<1>5. /\ page' \in PageSet /\ page'.scan = d /\ page'.query = page.query
      /\ page'.current = page.current /\ page'.closer = page.closer
  BY <1>4 DEF PageSet
<1> QED BY <1>2, <1>3, <1>5 DEF ShowsEvent

LEMMA ShownPrinters ==
  ASSUME page \in PageSet, NEW event \in Event, ShowsEvent(event)
  PROVE  /\ Keys' = Keys \union IF IsPrinter(event) THEN {event.key} ELSE {}
         /\ Rows' = Rows \union IF IsPrinter(event) THEN {Row(event)} ELSE {}
         /\ RowsOnce /\ (IsPrinter(event) => event.key \notin Keys) => RowsOnce'
<1>1. PICK rows \in PageRows : rows = page.scan.printers
  BY DEF PageSet, ShownSet
<1>2. Keys = {rows[i].key : i \in DOMAIN rows} /\ Rows = {rows[i] : i \in DOMAIN rows}
  BY <1>1 DEF Keys, Rows
<1>3. CASE ~IsPrinter(event)
  <2>1. page'.scan.printers = page.scan.printers
    BY <1>3 DEF ShowsEvent
  <2> QED BY <1>3, <2>1, SamePrinters
<1>4. CASE IsPrinter(event)
  <2>1. PICK row \in PageRow : row = Row(event) /\ row.key = event.key
    BY <1>4, RowFields
  <2>2. PICK all : all = Append(rows, row)
    OBVIOUS
  <2>3. page'.scan.printers = all
    BY <1>1, <1>4, <2>1, <2>2 DEF ShowsEvent
  <2>4. /\ DOMAIN rows = 1..Len(rows) /\ Len(rows) \in Nat
        /\ DOMAIN all = 1..(Len(rows) + 1)
        /\ \A i \in 1..Len(rows) : all[i] = rows[i]
        /\ all[Len(rows) + 1] = row
    BY <2>2 DEF PageRows
  <2>5. Keys' = {all[i].key : i \in DOMAIN all} /\ Rows' = {all[i] : i \in DOMAIN all}
    BY <2>3 DEF Keys, Rows
  <2>6. DOMAIN all = DOMAIN rows \union {Len(rows) + 1} /\ Len(rows) + 1 \notin DOMAIN rows
    BY <2>4
  <2>7. Rows' = Rows \union {row}
    BY <1>2, <2>4, <2>5, <2>6
  <2>8. Keys' = Keys \union {row.key}
    BY <1>2, <2>4, <2>5, <2>6
  <2>9. ASSUME RowsOnce, event.key \notin Keys PROVE RowsOnce'
    <3>1. \A i, k \in DOMAIN rows : rows[i].key = rows[k].key => i = k
      BY <1>1, <2>9 DEF RowsOnce
    <3>2. \A i \in DOMAIN rows : rows[i].key # row.key
      BY <1>2, <2>1, <2>9
    <3>3. \A i, k \in DOMAIN all : all[i].key = all[k].key => i = k
      BY <2>4, <2>6, <3>1, <3>2
    <3> QED BY <2>3, <3>3 DEF RowsOnce
  <2> QED BY <1>4, <2>1, <2>7, <2>8, <2>9
<1> QED BY <1>3, <1>4

\* An event shown is no longer under way.
LEMMA SoundAfter ==
  ASSUME page \in PageSet, NEW s, NEW pending \in Seq(Event), pending # <<>>,
         NEW event, event = Head(pending), NEW rest, rest = Tail(pending),
         event.type \notin Closing, Sound(s, pending), ShowsEvent(event),
         UNCHANGED <<inventory, unseen>>
  PROVE  Sound(s, rest)'
<1>1. /\ event \in Event /\ rest \in Seq(Event)
      /\ DOMAIN pending = 1..Len(pending) /\ Len(pending) \in Nat /\ Len(rest) \in Nat
      /\ Len(pending) = Len(rest) + 1 /\ DOMAIN rest = 1..Len(rest)
      /\ 1 \in DOMAIN pending /\ pending[1] = event
      /\ \A i \in DOMAIN rest : i + 1 \in DOMAIN pending /\ rest[i] = pending[i + 1]
      /\ \A i \in DOMAIN pending : i # 1 => i - 1 \in DOMAIN rest /\ rest[i - 1] = pending[i]
      /\ KeysOf(pending) = KeysOf(rest) \union IF IsPrinter(event) THEN {event.key} ELSE {}
  <2>1. Delivers(pending, event, rest)
    BY FirstOf
  <2> QED BY ONLY <2>1 DEF Delivers
<1>2. PrintersUnderWay(s, pending) /\ CountsUnderWay(s, pending) /\ EndUnderWay(s, pending)
  BY DEF Sound
<1>3. Keys' = Keys \union IF IsPrinter(event) THEN {event.key} ELSE {}
  BY <1>1, ShownPrinters
<1>4. PrintersUnderWay(s, rest)'
  <2>1. OncePerKey(rest)
    <3> SUFFICES ASSUME NEW i \in DOMAIN rest, NEW k \in DOMAIN rest,
                        IsPrinter(rest[i]), IsPrinter(rest[k]), rest[i].key = rest[k].key
                 PROVE  i = k
      BY DEF OncePerKey
    <3>1. i + 1 = k + 1
      BY <1>1, <1>2 DEF PrintersUnderWay, OncePerKey
    <3> QED BY <1>1, <3>1
  <2>2. IsPrinter(event) => event.key \notin KeysOf(rest)
    <3> SUFFICES ASSUME IsPrinter(event), NEW i \in DOMAIN rest, IsPrinter(rest[i]),
                        rest[i].key = event.key
                 PROVE  FALSE
      BY DEF KeysOf
    <3>1. i + 1 = 1
      BY <1>1, <1>2 DEF PrintersUnderWay, OncePerKey
    <3> QED BY <1>1, <3>1
  <2>3. KeysOf(pending) \cap Keys = {}
    BY <1>2 DEF PrintersUnderWay
  <2>4. KeysOf(rest) \cap Keys' = {}
    BY <1>1, <1>3, <2>2, <2>3
  <2>5. Keys' \union KeysOf(rest) = Keys \union KeysOf(pending)
    BY <1>1, <1>3
  <2>6. \A i \in DOMAIN rest : IsPrinter(rest[i]) => rest[i].configured = (rest[i].key \in s.configured)
    BY <1>1, <1>2 DEF PrintersUnderWay
  <2>7. {<<"network", address>> : address \in s.announced} =
          {key \in Keys' \union KeysOf(rest) : key[1] = "network"}
    BY <1>2, <2>5 DEF PrintersUnderWay
  <2>8. inventory' \ (s.configured \union unseen') \subseteq Keys'
    BY <1>2, <1>3 DEF PrintersUnderWay
  <2> QED BY <2>1, <2>4, <2>6, <2>7, <2>8 DEF PrintersUnderWay
<1>5. CountsUnderWay(s, rest)'
  <2>1. Stands(rest, s.done)
    <3> SUFFICES ASSUME NEW i \in DOMAIN rest, rest[i].type = "progress",
                        \A k \in DOMAIN rest : i < k => rest[k].type # "progress"
                 PROVE  rest[i].completed = s.done
      BY DEF Stands
    <3>1. i + 1 \in DOMAIN pending /\ rest[i] = pending[i + 1] /\ i \in Nat /\ i # 0
      BY <1>1
    <3>2. ASSUME NEW k \in DOMAIN pending, i + 1 < k PROVE pending[k].type # "progress"
      <4>1. k # 1 /\ i < k - 1
        BY <1>1, <3>1, <3>2
      <4> QED BY <1>1, <4>1
    <3> QED BY <1>2, <3>1, <3>2 DEF CountsUnderWay, Stands
  <2>2. ASSUME \A i \in DOMAIN rest : rest[i].type # "progress" PROVE page'.scan.completed = s.done
    <3>1. \A i \in DOMAIN pending : i # 1 => pending[i].type # "progress"
      BY <1>1, <2>2
    <3>2. CASE event.type = "progress"
      <4>1. \A k \in DOMAIN pending : 1 < k => pending[k].type # "progress"
        BY <3>1
      <4>2. event.completed = s.done
        BY <1>1, <1>2, <3>2, <4>1 DEF CountsUnderWay, Stands
      <4> QED BY <3>2, <4>2 DEF ShowsEvent
    <3>3. CASE event.type # "progress"
      <4>1. \A i \in DOMAIN pending : pending[i].type # "progress"
        BY <1>1, <3>1, <3>3
      <4> QED BY <1>2, <3>3, <4>1 DEF CountsUnderWay, ShowsEvent
    <3> QED BY <3>2, <3>3
  <2>3. \A i \in DOMAIN rest : rest[i].type \in {"prepared", "progress"} => rest[i].total = s.total
    BY <1>1, <1>2 DEF CountsUnderWay
  <2>4. ASSUME \A i \in DOMAIN rest : rest[i].type # "prepared" PROVE page'.scan.total = s.total
    <3>1. CASE event.type \in {"prepared", "progress"}
      BY <1>1, <1>2, <3>1 DEF CountsUnderWay, ShowsEvent
    <3>2. CASE event.type \notin {"prepared", "progress"}
      <4>1. \A i \in DOMAIN pending : pending[i].type # "prepared"
        BY <1>1, <2>4, <3>2
      <4> QED BY <1>2, <3>2, <4>1 DEF CountsUnderWay, ShowsEvent
    <3> QED BY <3>1, <3>2
  <2> QED BY <2>1, <2>2, <2>3, <2>4 DEF CountsUnderWay
<1>6. EndUnderWay(s, rest)'
  <2>1. ASSUME NEW i \in DOMAIN rest, rest[i].type \in {"completed", "failed"}
        PROVE  i = Len(rest) /\ rest[i].type = s.at
    <3>1. i + 1 = Len(pending) /\ rest[i].type = s.at
      BY <1>1, <1>2, <2>1 DEF EndUnderWay
    <3> QED BY <1>1, <3>1
  <2>2. ASSUME Finished(s) PROVE rest # <<>> /\ rest[Len(rest)].type \in {"completed", "failed"}
    <3>1. pending[Len(pending)].type \in {"completed", "failed"}
      BY <1>2, <2>2 DEF EndUnderWay
    <3>2. Len(pending) # 1
      BY <1>1, <3>1 DEF Closing
    <3>3. Len(rest) \in DOMAIN rest /\ rest[Len(rest)] = pending[Len(pending)]
      BY <1>1, <3>2
    <3> QED BY <1>1, <3>1, <3>3
  <2> QED BY <2>1, <2>2 DEF EndUnderWay
<1> QED BY <1>4, <1>5, <1>6 DEF Sound

\* The closing event: the scan shown is over, and what it found is shown.
LEMMA LastEvent ==
  ASSUME PageInv, NEW id \in Scans, id = page.current, StreamingInv(id), page.query \in Queries,
         NEW pending \in Seq(Event), pending = Pending(id), pending # <<>>,
         Head(pending).type = "completed"
  PROVE  /\ NetworkRows = heard /\ page.scan.completed = page.scan.total
         /\ page.scan.total = ProbeCount(TargetsOf(ScopeOf(QueryString(page.query)), interfaces))
<1>1. PICK s : s = server[id].scan
  OBVIOUS
<1>2. /\ ScanInv(s) /\ s.announced \union ConnectedAddresses(s.answered) = heard
      /\ s.scope = ScopeOf(QueryString(page.query)) /\ s.targets = TargetsOf(s.scope, interfaces)
      /\ s.at # "prepared"
      /\ PrintersUnderWay(s, pending) /\ CountsUnderWay(s, pending) /\ EndUnderWay(s, pending)
  BY <1>1 DEF StreamingInv
<1>3. pending[1] = Head(pending) /\ 1 \in DOMAIN pending /\ DOMAIN pending = 1..Len(pending)
  OBVIOUS
<1>4. Len(pending) = 1 /\ s.at = "completed"
  BY <1>2, <1>3 DEF EndUnderWay
<1>5. \A i \in DOMAIN pending : pending[i].type = "completed"
  BY <1>3, <1>4
<1>6. s.answered = {} /\ s.done = s.total
  BY <1>2, <1>4, ScanCounts DEF ScanInv
<1>7. s.announced = heard
  <2>1. ConnectedAddresses(s.answered) = {}
    BY <1>6 DEF ConnectedAddresses
  <2> QED BY <1>2, <2>1
<1>8. KeysOf(pending) = {}
  BY <1>5 DEF KeysOf, IsPrinter
<1>9. {<<"network", address>> : address \in heard} = {key \in Keys : key[1] = "network"}
  BY <1>2, <1>7, <1>8 DEF PrintersUnderWay
<1>10. NetworkRows = heard
  <2>1. NetworkRows = {key[2] : key \in {<<"network", address>> : address \in heard}}
    BY <1>9 DEF NetworkRows
  <2>2. \A address : <<"network", address>>[2] = address
    OBVIOUS
  <2> QED BY <2>1, <2>2
<1>11. page.scan.completed = s.done /\ page.scan.total = s.total
  BY <1>2, <1>5 DEF CountsUnderWay
<1>12. s.total = ProbeCount(s.targets)
  BY <1>2 DEF ScanInv, ProbeCount
<1> QED BY <1>2, <1>6, <1>10, <1>11, <1>12

LEMMA DispatchKeeps ==
  ASSUME PageInv, NEW id \in Scans, Dispatch(id)
  PROVE  PageInv'
<1>1. /\ source[id] = "open" /\ transit[id] # <<>> /\ id = page.current
      /\ page.scan.phase = "running" /\ page \in PageSet /\ transit[id] \in Seq(Event)
      /\ UNCHANGED <<interfaces, inventory, heard, unseen>>
  BY DEF Dispatch, PageInv, PageTypeOK, SourcesInv
<1>2. /\ StreamingInv(id) /\ DOMAIN server[id] = {"at", "scan", "queue", "woken"}
      /\ server[id].at = "streaming" /\ page.query \in Queries
  BY <1>1 DEF PageInv, OpenInv
<1>3. PICK event : event = Head(transit[id])
  OBVIOUS
<1>4. /\ \/ Closes(event) /\ Close({id})
         \/ /\ ~Closes(event)
            /\ transit' = [transit EXCEPT ![id] = Tail(transit[id])]
            /\ UNCHANGED <<source, server>>
      /\ page' = [page EXCEPT !.scan = Shown(@, event),
                              !.closer = IF event.type \in {"completed", "failed"} THEN NoScan ELSE @]
  <2>1. /\ \/ Closes(event) /\ Close({id})
           \/ /\ ~Closes(event)
              /\ transit' = [transit EXCEPT ![id] = Tail(@)]
              /\ UNCHANGED <<source, server>>
        /\ page' = [page EXCEPT !.scan = Shown(@, event),
                                !.closer = IF event.type \in {"completed", "failed"} THEN NoScan ELSE @]
    BY <1>3 DEF Dispatch
  <2>2. [transit EXCEPT ![id] = Tail(@)] = [transit EXCEPT ![id] = Tail(transit[id])]
    BY DEF PageInv, PageTypeOK
  <2> QED BY <2>1, <2>2
<1>5. PICK pending, rest : /\ pending = Pending(id) /\ rest = Tail(transit[id]) \o server[id].queue
                           /\ pending \in Seq(Event) /\ pending # <<>>
                           /\ Head(pending) = event /\ Tail(pending) = rest
  <2>1. PICK a \in Seq(Event) : a = transit[id]
    BY <1>1
  <2>2. PICK b \in Seq(Event) : b = server[id].queue
    BY <1>2 DEF StreamingInv
  <2>3. a # <<>> /\ event = Head(a)
    BY <1>1, <1>3, <2>1
  <2>4. a \o b \in Seq(Event) /\ a \o b # <<>> /\ Head(a \o b) = event /\ Tail(a \o b) = Tail(a) \o b
    BY <2>3
  <2> QED BY <2>1, <2>2, <2>4 DEF Pending
<1>6. event \in Event
  BY <1>5
<1>7. PICK s : s = server[id].scan
  OBVIOUS
<1>8. s.at # "prepared" /\ Sound(s, pending)
  BY <1>2, <1>5, <1>7 DEF StreamingInv, Sound
<1>9. CASE Closes(event)
  <2>1. event.type \in {"completed", "failed"} /\ Close({page.current})
    BY <1>1, <1>4, <1>9 DEF Closes
  <2>2. PICK phase \in {"error", "done"} :
          /\ phase = "done" => event.type = "completed"
          /\ Shown(page.scan, event) = [page.scan EXCEPT !.phase = phase]
    BY <2>1 DEF Shown
  <2>3. page' = [page EXCEPT !.scan = [page.scan EXCEPT !.phase = phase], !.closer = NoScan]
    BY <1>4, <2>1, <2>2
  <2>4. page' = [page EXCEPT !.scan.phase = phase, !.closer = NoScan]
    BY <1>1, <2>3 DEF PageSet
  <2>5. phase = "done" =>
          /\ NetworkRows = heard /\ page.scan.completed = page.scan.total /\ page.query \in Queries
          /\ page.scan.total = ProbeCount(TargetsOf(ScopeOf(QueryString(page.query)), interfaces))
    BY <1>1, <1>2, <1>5, <2>2, LastEvent
  <2> QED BY <1>1, <2>1, <2>4, <2>5, ScanCloses
<1>10. CASE ~Closes(event)
  <2>1. event.type \notin Closing
    BY <1>10 DEF Closes, Closing
  <2>2. /\ transit' = [transit EXCEPT ![id] = Tail(transit[id])] /\ UNCHANGED <<source, server>>
    BY <1>4, <1>10
  <2>3. page' \in PageSet /\ ShowsEvent(event)
    BY <1>1, <1>4, <1>6, <2>1, ShownFields
  <2>4. Tail(transit[id]) \in Seq(Event)
    BY <1>1
  <2>5. PageTypeOK'
    BY <1>1, <2>2, <2>3, <2>4 DEF PageInv, PageTypeOK
  <2>6. /\ page'.scan.phase = "running" /\ page'.query = page.query
        /\ page'.current = page.current /\ page'.closer = page.closer
    BY <1>1, <2>3 DEF ShowsEvent
  <2>7. SourcesInv'
    <3>1. \A other \in Scans : source[other] # "open" => other # id
      BY <1>1
    <3>2. \A other \in Scans : other # id => transit'[other] = transit[other]
      BY <2>2 DEF PageInv, PageTypeOK
    <3> QED BY <1>1, <2>2, <2>6, <3>1, <3>2 DEF PageInv, SourcesInv
  <2>8. Pending(id)' = rest
    <3>1. transit'[id] = Tail(transit[id])
      BY <2>2 DEF PageInv, PageTypeOK
    <3> QED BY <1>5, <2>2, <3>1 DEF Pending
  <2>9. Sound(s, rest)'
    <3>1. UNCHANGED <<inventory, unseen>>
      BY <1>1
    <3> QED BY <1>1, <1>5, <1>8, <2>1, <2>3, <3>1, SoundAfter
  <2>10. StreamingInv(id)'
    BY <1>1, <1>2, <1>7, <1>8, <2>2, <2>6, <2>8, <2>9 DEF StreamingInv, Sound
  <2>11. OpenInv'
    BY <1>1, <1>2, <2>2, <2>6, <2>10 DEF OpenInv
  <2>12. /\ Keys' = Keys \union IF IsPrinter(event) THEN {event.key} ELSE {}
         /\ Rows' = Rows \union IF IsPrinter(event) THEN {Row(event)} ELSE {}
         /\ RowsOnce /\ (IsPrinter(event) => event.key \notin Keys) => RowsOnce'
    BY <1>1, <1>6, <2>3, ShownPrinters
  <2>13. 1 \in DOMAIN pending /\ pending[1] = event
    BY <1>5
  <2>14. ASSUME IsPrinter(event)
         PROVE  /\ event.key \in KeysOf(pending) /\ event.key \notin Keys
                /\ event.configured = (event.key \in s.configured)
    <3>1. event.key \in KeysOf(pending)
      BY <2>13, <2>14 DEF KeysOf
    <3> QED BY <1>8, <2>13, <2>14, <3>1 DEF Sound, PrintersUnderWay
  <2>15. RowsOnce'
    BY <2>12, <2>14 DEF PageInv
  <2>16. NetworkRows' \subseteq heard'
    <3> SUFFICES ASSUME NEW key \in Keys', key[1] = "network" PROVE key[2] \in heard
      BY <1>1 DEF NetworkRows
    <3>1. key \in Keys \union KeysOf(pending)
      BY <2>12, <2>14
    <3>2. PICK address \in s.announced : key = <<"network", address>>
      BY <1>8, <3>1 DEF Sound, PrintersUnderWay
    <3>3. s.announced \subseteq heard
      BY <1>2, <1>7 DEF StreamingInv
    <3> QED BY <3>2, <3>3
  <2>17. NewResultsAreUnregistered'
    <3> SUFFICES ASSUME NEW row \in Rows', ~row.configured, row.key \in inventory
                 PROVE  row.key \in unseen
      BY <1>1 DEF NewResultsAreUnregistered
    <3>1. CASE row \in Rows
      BY <3>1 DEF PageInv, NewResultsAreUnregistered
    <3>2. CASE row \notin Rows
      <4>1. IsPrinter(event) /\ row = Row(event)
        BY <2>12, <3>2
      <4>2. row.key = event.key /\ row.configured = event.configured
        BY <1>6, <4>1, RowFields
      <4>3. row.key \notin s.configured /\ row.key \notin Keys
        BY <2>14, <4>1, <4>2
      <4> QED BY <1>8, <4>3 DEF Sound, PrintersUnderWay
    <3> QED BY <3>1, <3>2
  <2>18. heard' \cap OwnAddresses' = {}
    BY <1>1 DEF PageInv, OwnAddresses
  <2> QED BY <2>5, <2>6, <2>7, <2>11, <2>15, <2>16, <2>17, <2>18 DEF PageInv
<1> QED BY <1>9, <1>10

-----------------------------------------------------------------------------
(* The page, whole.                                                        *)

LEMMA PageNext == PageInv /\ [Next]_vars => PageInv'
<1> SUFFICES ASSUME PageInv, [Next]_vars PROVE PageInv'
  OBVIOUS
<1>1. CASE \E query \in Queries : StartScan(query)
  BY <1>1, StartKeeps
<1>2. CASE CancelScan
  BY <1>2, CancelKeeps
<1>3. CASE \E id \in Scans : Dispatch(id)
  BY <1>3, DispatchKeeps
<1>4. CASE \E id \in Scans : ResponseEnds(id) \/ ConnectionBreaks(id)
  BY <1>4, ErrorKeeps DEF ResponseEnds, ConnectionBreaks
<1>5. CASE \E id \in Scans : ServerStep(id)
  BY <1>5, DiscoverKeeps, PollKeeps DEF ServerStep
<1>6. CASE \E id \in Scans : Probe(id)
  BY <1>6, ProbeKeeps
<1>7. CASE \E i \in DOMAIN page.scan.printers : AddResult(i)
  BY <1>7, RegisterKeeps
<1>8. CASE \E key \in Others : AddElsewhere(key)
  BY <1>8, ElsewhereKeeps
<1>9. CASE UNCHANGED vars
  <2>1. UNCHANGED <<interfaces, inventory, page, source, server, transit, heard, unseen>>
    BY <1>9 DEF vars
  <2>2. /\ PageTypeOK' = PageTypeOK /\ RowsOnce' = RowsOnce /\ SourcesInv' = SourcesInv
        /\ Keys' = Keys /\ Rows' = Rows /\ NetworkRows' = NetworkRows /\ OwnAddresses' = OwnAddresses
    BY <2>1 DEF PageTypeOK, RowsOnce, SourcesInv, Keys, Rows, NetworkRows, OwnAddresses
  <2>3. OpenInv'
    <3>1. ASSUME StreamingInv(page.current) PROVE StreamingInv(page.current)'
      BY <2>1, <2>2, <3>1
         DEF StreamingInv, Pending, PrintersUnderWay, CountsUnderWay, EndUnderWay, FreshPage
    <3> QED BY <2>1, <3>1 DEF PageInv, OpenInv, FreshPage
  <2> QED BY <2>1, <2>2, <2>3 DEF PageInv, NewResultsAreUnregistered
<1> QED BY <1>1, <1>2, <1>3, <1>4, <1>5, <1>6, <1>7, <1>8, <1>9 DEF Next

\* Every state of the page, its connections and its scans satisfies the invariant.
\* (discover/http.rs, discovery.rs, use-discovery.ts)
THEOREM PageInvariant == Spec => []PageInv
<1>1. Init => PageInv
  BY PageInit
<1>2. PageInv /\ [Next]_vars => PageInv'
  BY PageNext
<1> QED BY <1>1, <1>2, PTL DEF Spec

LEMMA QueriedTargets ==
  ASSUME NEW query \in Queries, NEW machine
  PROVE  TargetsOf(ScopeOf(QueryString(query)), machine) =
           IF query.network THEN ResolveTargets(query.subnets, machine) ELSE <<>>
<1>1. query.usb \in BOOLEAN /\ query.network \in BOOLEAN /\ (query.usb \/ query.network)
  BY QueriesAssumption
<1>2. PICK transport : transport = QueryString(query).transport
  OBVIOUS
<1>3. /\ QueryString(query).subnets = IF query.network THEN query.subnets ELSE <<>>
      /\ transport = IF query.usb = query.network THEN "all"
                     ELSE IF query.usb THEN "usb" ELSE "network"
  BY <1>2 DEF QueryString
<1>4. PICK usb \in BOOLEAN, network \in BOOLEAN :
        usb = (transport # "network") /\ network = (transport # "usb")
  <2>1. (transport # "network") \in BOOLEAN /\ (transport # "usb") \in BOOLEAN
    OBVIOUS
  <2> QED BY <2>1, Zenon
<1>5. ScopeOf(QueryString(query)) =
        [usb |-> usb, network |-> network, subnets |-> QueryString(query).subnets]
  BY <1>2, <1>4, Zenon DEF ScopeOf
<1>6. /\ ScopeOf(QueryString(query)).network = network
      /\ ScopeOf(QueryString(query)).subnets = QueryString(query).subnets
  BY <1>5
<1>7. CASE query.network
  <2>1. transport # "usb"
    BY <1>1, <1>3, <1>7
  <2>2. network
    BY <1>4, <2>1
  <2> QED BY <1>3, <1>6, <1>7, <2>2 DEF TargetsOf
<1>8. CASE ~query.network
  <2>1. transport = "usb"
    BY <1>1, <1>3, <1>8
  <2>2. ~network
    BY <1>4, <2>1, Zenon
  <2> QED BY <1>6, <1>8, <2>2 DEF TargetsOf
<1> QED BY <1>7, <1>8

\* The rows are as many as the printers they are of.
LEMMA RowsCount ==
  ASSUME page \in PageSet, RowsOnce
  PROVE  Cardinality(Keys) = Len(page.scan.printers)
<1>1. PICK rows \in PageRows : rows = page.scan.printers
  BY DEF PageSet, ShownSet
<1>2. Len(rows) \in Nat /\ DOMAIN rows = 1..Len(rows)
  BY DEF PageRows
<1>3. PICK keys : keys = {rows[i].key : i \in DOMAIN rows}
  OBVIOUS
<1>4. Keys = keys
  BY <1>1, <1>3 DEF Keys, Rows
<1> DEFINE f == [i \in 1..Len(rows) |-> rows[i].key]
<1>5. \A i, k \in 1..Len(rows) : rows[i].key = rows[k].key => i = k
  BY <1>1, <1>2 DEF RowsOnce
<1>6. f \in Bijection(1..Len(rows), keys)
  <2>1. f \in [1..Len(rows) -> keys]
    BY <1>2, <1>3
  <2>2. \A i, k \in 1..Len(rows) : f[i] = f[k] => i = k
    BY <1>5
  <2>3. \A key \in keys : \E i \in 1..Len(rows) : f[i] = key
    BY <1>2, <1>3
  <2> HIDE DEF f
  <2> QED BY <2>1, <2>2, <2>3 DEF Bijection, Injection, Surjection, IsInjective
<1>7. ExistsBijection(1..Len(rows), keys)
  <2> HIDE DEF f
  <2> QED BY <1>6 DEF ExistsBijection
<1>8. Cardinality(keys) = Len(rows)
  BY <1>2, <1>7, FS_CountingElements
<1> QED BY <1>1, <1>4, <1>8

LEMMA ShownFromInvariant == PageInv => ShownIsWhatAnswered
<1> SUFFICES ASSUME PageInv PROVE ShownIsWhatAnswered
  OBVIOUS
<1>1. Cardinality(Keys) = Len(page.scan.printers)
  BY RowsCount DEF PageInv, PageTypeOK
<1>2. NetworkRows \subseteq heard /\ NetworkRows \cap OwnAddresses = {}
  BY DEF PageInv
<1>3. ASSUME page.scan.phase = "done", page.query.subnets # <<>>
      PROVE  page.scan.total = IF page.query.network THEN AddressesSwept(page.query.subnets) ELSE 0
  <2>1. PICK query \in Queries : query = page.query
    BY <1>3 DEF PageInv
  <2>2. query.subnets \in Seq(Subnets) /\ query.network \in BOOLEAN
    BY QueriesAssumption
  <2>3. page.scan.total = ProbeCount(TargetsOf(ScopeOf(QueryString(query)), interfaces))
    BY <1>3, <2>1 DEF PageInv
  <2>4. PICK machine : machine = interfaces
    OBVIOUS
  <2>5. TargetsOf(ScopeOf(QueryString(query)), machine) =
          IF query.network THEN ResolveTargets(query.subnets, machine) ELSE <<>>
    BY QueriedTargets
  <2>6. CASE query.network
    <3>1. ResolveTargets(query.subnets, machine) = ExplicitScanTargets(query.subnets, machine)
      BY <1>3, <2>1 DEF ResolveTargets
    <3>2. PICK subnets \in Seq(Subnets) : subnets = query.subnets
      BY <2>2
    <3>3. ProbeCount(ExplicitScanTargets(subnets, interfaces)) = AddressesSwept(subnets)
      BY NamedAddressesAreProbed, MachinesAssumption DEF PageInv, PageTypeOK
    <3>4. page.scan.total = ProbeCount(ExplicitScanTargets(subnets, interfaces))
      BY <2>3, <2>4, <2>5, <2>6, <3>1, <3>2
    <3> QED BY <2>1, <2>6, <3>2, <3>3, <3>4
  <2>7. CASE ~query.network
    <3>1. page.scan.total = ProbeCount(<<>>)
      BY <2>3, <2>4, <2>5, <2>7
    <3>2. ProbesOf(<<>>) = {}
      BY DEF ProbesOf
    <3>3. ProbeCount(<<>>) = 0
      BY <3>2, FS_EmptySet DEF ProbeCount
    <3> QED BY <2>1, <2>7, <3>1, <3>3
  <2> QED BY <2>6, <2>7
<1>4. page.scan.phase = "done" => NetworkRows = heard /\ page.scan.completed = page.scan.total
  BY DEF PageInv
<1> QED BY <1>1, <1>2, <1>3, <1>4 DEF ShownIsWhatAnswered

\* What the page shows of a scan is what answered that scan, whatever the machine, the
\* networks and the order in which the probes answer.
THEOREM ShownAnswered == Spec => []ShownIsWhatAnswered
BY PageInvariant, ShownFromInvariant, PTL

\* A printer the page registered is no longer a new result.
THEOREM NewUnregistered == Spec => []NewResultsAreUnregistered
<1>1. PageInv => NewResultsAreUnregistered
  BY DEF PageInv
<1> QED BY <1>1, PageInvariant, PTL

-----------------------------------------------------------------------------
(* The command.                                                            *)

Transports == {"usb", "network"}
Listings ==
  [printed : Seq(Event), registration : SUBSET Transports, error : BOOLEAN, closed : BOOLEAN]
PrintedBy(lines) == {lines.printed[i] : i \in DOMAIN lines.printed}
TransportsOf(events) == {event.key[1] : event \in {e \in events : ~e.configured}}

\* The printers among the first n events.
PrintersTo(events, n) == {events[i] : i \in {k \in 1..n : IsPrinter(events[k])}}

\* What may be suggested is what was printed.
Whole(lines) ==
  /\ \A event \in PrintedBy(lines) : event \in Event /\ IsPrinter(event)
  /\ lines.registration = TransportsOf(PrintedBy(lines))

ListedSo(lines, events, n, l) ==
  /\ l \in Listings
  /\ \/ l.error \/ l.closed
     \/ /\ ~lines.error /\ ~lines.closed /\ Whole(l)
        /\ PrintedBy(l) = PrintedBy(lines) \union PrintersTo(events, n)

LEMMA EventKey ==
  ASSUME NEW event \in Event, IsPrinter(event)
  PROVE  event.key[1] \in Transports /\ event.configured \in BOOLEAN
<1>1. event.key \in PrinterKeys /\ event.configured \in BOOLEAN
  BY RowFields
<1> QED BY <1>1 DEF PrinterKeys, Transports

LEMMA ListOne ==
  ASSUME NEW l \in Listings, NEW event \in Event, IsPrinter(event), NEW write \in Writes,
         NEW m, m = List(l, event, write)
  PROVE  /\ m \in Listings
         /\ \/ m.error \/ m.closed
            \/ ~l.error /\ ~l.closed /\ (Whole(l) => Whole(m))
               /\ PrintedBy(m) = PrintedBy(l) \union {event}
<1>1. PICK configured \in BOOLEAN, transport \in Transports :
        configured = event.configured /\ transport = event.key[1]
  BY EventKey
<1> DEFINE tallied == IF configured THEN l
                      ELSE [l EXCEPT !.registration = l.registration \union {transport}]
<1>2. /\ tallied \in Listings /\ tallied.printed = l.printed /\ tallied.error = l.error
      /\ tallied.closed = l.closed
      /\ tallied.registration = l.registration \union IF configured THEN {} ELSE {transport}
  BY DEF Listings
<1>3. m = IF tallied.error \/ tallied.closed THEN tallied
          ELSE CASE write = "written" -> [tallied EXCEPT !.printed = Append(@, event)]
                 [] write = "closed"  -> [tallied EXCEPT !.closed = TRUE]
                 [] write = "error"   -> [tallied EXCEPT !.error = TRUE]
  BY <1>1 DEF List
<1>4. PICK t \in Listings : t = tallied
  BY <1>2
<1> HIDE DEF tallied
<1>5. CASE t.error \/ t.closed
  BY <1>3, <1>4, <1>5
<1>6. CASE ~(t.error \/ t.closed) /\ write # "written"
  <2>1. m = [t EXCEPT !.closed = TRUE] \/ m = [t EXCEPT !.error = TRUE]
    BY <1>3, <1>4, <1>6 DEF Writes
  <2>2. CASE m = [t EXCEPT !.closed = TRUE]
    BY <2>2 DEF Listings
  <2>3. CASE m = [t EXCEPT !.error = TRUE]
    BY <2>3 DEF Listings
  <2> QED BY <2>1, <2>2, <2>3
<1>7. CASE ~(t.error \/ t.closed) /\ write = "written"
  <2>1. PICK printed \in Seq(Event) : printed = Append(t.printed, event)
    <3>1. PICK old \in Seq(Event) : old = t.printed
      BY DEF Listings
    <3>2. Append(old, event) \in Seq(Event)
      OBVIOUS
    <3> QED BY <3>1, <3>2
  <2>2. m = [t EXCEPT !.printed = printed]
    BY <1>3, <1>4, <1>7, <2>1
  <2>3. m \in Listings /\ m.printed = printed /\ m.registration = t.registration
    BY <2>2 DEF Listings
  <2>4. PrintedBy(m) = PrintedBy(l) \union {event}
    <3>1. PICK old \in Seq(Event) : old = l.printed
      BY DEF Listings
    <3>2. printed = Append(old, event)
      BY <1>2, <1>4, <2>1, <3>1
    <3>3. /\ DOMAIN old = 1..Len(old) /\ Len(old) \in Nat
          /\ DOMAIN printed = (1..Len(old)) \union {Len(old) + 1}
          /\ \A i \in 1..Len(old) : printed[i] = old[i]
          /\ printed[Len(old) + 1] = event
      BY <3>2
    <3>4. {printed[i] : i \in DOMAIN printed} = {old[i] : i \in DOMAIN old} \union {event}
      BY <3>3
    <3>5. PrintedBy(l) = {old[i] : i \in DOMAIN old}
      BY <3>1 DEF PrintedBy
    <3>6. PrintedBy(m) = {printed[i] : i \in DOMAIN printed}
      BY <2>3 DEF PrintedBy
    <3> QED BY <3>4, <3>5, <3>6
  <2>5. ASSUME Whole(l) PROVE Whole(m)
    <3>1. m.registration = l.registration \union IF configured THEN {} ELSE {transport}
      BY <1>2, <1>4, <2>3
    <3>2. l.registration = TransportsOf(PrintedBy(l))
      BY <2>5 DEF Whole
    <3>3. TransportsOf(PrintedBy(l) \union {event}) =
            TransportsOf(PrintedBy(l)) \union IF event.configured THEN {} ELSE {event.key[1]}
      BY DEF TransportsOf
    <3>4. m.registration = TransportsOf(PrintedBy(m))
      BY <1>1, <2>4, <3>1, <3>2, <3>3
    <3> QED BY <2>4, <2>5, <3>4 DEF Whole
  <2>6. ~l.error /\ ~l.closed
    BY <1>2, <1>4, <1>7
  <2> QED BY <2>3, <2>4, <2>5, <2>6
<1> QED BY <1>5, <1>6, <1>7

\* What a poll's events make of the listing, whichever write of it fails.
LEMMA ListAll ==
  ASSUME NEW lines \in Listings, lines.error \/ lines.closed \/ Whole(lines),
         NEW events \in Seq(Event), NEW l \in Listed(lines, events)
  PROVE  ListedSo(lines, events, Len(events), l)
<1>1. PICK failing \in 0..Len(events), write \in Writes :
        l = LET listed[n \in 0..Len(events)] ==
                  IF n = 0 THEN lines
                  ELSE IF events[n].type = "printer"
                  THEN List(listed[n - 1], events[n], IF n = failing THEN write ELSE "written")
                  ELSE listed[n - 1]
            IN listed[Len(events)]
  BY DEF Listed
<1> DEFINE WriteOf(n) == IF n = failing THEN write ELSE "written"
           More(n, m) == IF IsPrinter(events[n]) THEN List(m, events[n], WriteOf(n)) ELSE m
           Body(f) == [n \in 0..Len(events) |-> IF n = 0 THEN lines ELSE More(n, f[n - 1])]
           step == [pair \in (1..Len(events)) \X Listings |-> More(pair[1], pair[2])]
<1>2. Len(events) \in Nat /\ \A n \in 1..Len(events) : events[n] \in Event
  OBVIOUS
<1>3. \A n \in 1..Len(events) : WriteOf(n) \in Writes
  BY DEF Writes
<1> HIDE DEF WriteOf
<1>4. ASSUME NEW n \in 1..Len(events), NEW m \in Listings
      PROVE  /\ More(n, m) \in Listings
             /\ \/ More(n, m).error \/ More(n, m).closed
                \/ /\ ~m.error /\ ~m.closed /\ (Whole(m) => Whole(More(n, m)))
                   /\ PrintedBy(More(n, m)) =
                        PrintedBy(m) \union IF IsPrinter(events[n]) THEN {events[n]} ELSE {}
  <2>1. CASE IsPrinter(events[n])
    <3>1. PICK event \in Event, w \in Writes : event = events[n] /\ w = WriteOf(n)
      BY <1>2, <1>3
    <3>2. PICK k : k = List(m, event, w)
      OBVIOUS
    <3>3. /\ k \in Listings
          /\ \/ k.error \/ k.closed
             \/ ~m.error /\ ~m.closed /\ (Whole(m) => Whole(k))
                /\ PrintedBy(k) = PrintedBy(m) \union {event}
      BY <2>1, <3>1, <3>2, ListOne
    <3>4. More(n, m) = k
      BY <2>1, <3>1, <3>2
    <3> HIDE DEF More
    <3> QED BY <2>1, <3>1, <3>3, <3>4
  <2>2. CASE ~IsPrinter(events[n])
    <3>1. More(n, m) = m
      BY <2>2
    <3> HIDE DEF More
    <3> QED BY <2>2, <3>1 DEF Listings
  <2> QED BY <2>1, <2>2
<1> HIDE DEF More
<1>5. step \in Steps(Len(events), Listings)
  BY <1>4 DEF Steps
<1>6. PICK g : Stepwise(g, Len(events), Listings, lines, step)
  <2> HIDE DEF step
  <2> QED BY <1>2, <1>5, StepByStep
<1>7. ASSUME NEW n \in 1..Len(events) PROVE g[n - 1] \in Listings /\ g[n] = More(n, g[n - 1])
  <2>1. n - 1 \in 0..Len(events)
    BY <1>2
  <2>2. <<n, g[n - 1]>> \in (1..Len(events)) \X Listings
    BY <1>6, <2>1 DEF Stepwise
  <2>3. step[<<n, g[n - 1]>>] = More(n, g[n - 1])
    BY <2>2
  <2> HIDE DEF step
  <2> QED BY <1>6, <2>2, <2>3 DEF Stepwise
<1>8. g = Body(g)
  BY <1>2, <1>6, <1>7 DEF Stepwise
<1> DEFINE f == CHOOSE f : f = Body(f)
<1>9. f = Body(f)
  BY <1>8
<1>10. l = f[Len(events)]
  BY <1>1 DEF More, WriteOf, IsPrinter
<1> HIDE DEF f
<1>11. f[0] = lines /\ \A n \in 1..Len(events) : f[n] = More(n, f[n - 1])
  BY <1>2, <1>9
<1> DEFINE P == {n \in 0..Len(events) : ListedSo(lines, events, n, f[n])}
<1>12. 0 \in P
  <2>1. PrintersTo(events, 0) = {}
    BY DEF PrintersTo
  <2>2. 0 \in 0..Len(events)
    BY <1>2
  <2> QED BY <1>11, <2>1, <2>2 DEF ListedSo
<1>13. ASSUME NEW n \in 1..Len(events), n - 1 \in P PROVE n \in P
  <2>1. PICK m : m = f[n - 1]
    OBVIOUS
  <2>2. ListedSo(lines, events, n - 1, m)
    BY <1>13, <2>1
  <2>3. f[n] = More(n, m)
    BY <1>11, <2>1
  <2>4. PrintersTo(events, n) =
          PrintersTo(events, n - 1) \union IF IsPrinter(events[n]) THEN {events[n]} ELSE {}
    <3>1. 1..n = (1..(n - 1)) \union {n}
      BY <1>2
    <3> QED BY <3>1 DEF PrintersTo
  <2>5. ListedSo(lines, events, n, f[n])
    BY <1>4, <2>2, <2>3, <2>4 DEF ListedSo
  <2>6. n \in 0..Len(events)
    BY <1>2
  <2> QED BY <2>5, <2>6
<1>14. Len(events) \in P
  <2>1. Len(events) \in 0..Len(events)
    BY <1>2
  <2> HIDE DEF P
  <2> QED BY <1>2, <1>12, <1>13, <2>1, UpTo
<1> QED BY <1>10, <1>14

AllListed(s, lines) ==
  \A address \in s.announced : \E event \in PrintedBy(lines) : event.key = <<"network", address>>

Listing(s, lines) ==
  /\ lines \in Listings
  /\ lines.error \/ lines.closed \/ (Whole(lines) /\ AllListed(s, lines))

\* Until a write fails or the reader leaves, every printer announced was printed, and the
\* suggestion is of what was printed.
CommandInv ==
  /\ ScanInv(scan)
  /\ Listing(scan, listing)
  /\ SuccessfulListingIsWhole

NewOf(l, transport) ==
  \E i \in DOMAIN l.printed : l.printed[i].key[1] = transport /\ ~l.printed[i].configured

LEMMA WholeListing ==
  ASSUME NEW s, NEW l, Listing(s, l), ~l.error, ~l.closed
  PROVE  /\ l.registration = {t \in {"usb", "network"} : NewOf(l, t)}
         /\ \A address \in s.announced :
              \E i \in DOMAIN l.printed : l.printed[i].key = <<"network", address>>
<1>1. Whole(l) /\ AllListed(s, l)
  BY DEF Listing
<1>2. \A event \in PrintedBy(l) : event.key[1] \in Transports
  BY <1>1, EventKey DEF Whole
<1>3. \A t : t \in TransportsOf(PrintedBy(l)) <=> t \in Transports /\ NewOf(l, t)
  BY <1>2 DEF TransportsOf, NewOf, PrintedBy
<1>4. l.registration = {t \in {"usb", "network"} : NewOf(l, t)}
  BY <1>1, <1>3 DEF Whole, Transports
<1>5. ASSUME NEW address \in s.announced
      PROVE  \E i \in DOMAIN l.printed : l.printed[i].key = <<"network", address>>
  BY <1>1 DEF AllListed, PrintedBy
<1> QED BY <1>4, <1>5

LEMMA CommandStarts == CommandInit => CommandInv
<1> SUFFICES ASSUME CommandInit PROVE CommandInv
  OBVIOUS
<1>1. PICK arguments \in CommandArguments, machine \in CommandMachines :
        /\ scan = Prepare(ScopeOf(arguments), machine, Configured)
        /\ exit = IF Contradicts(arguments) \/ Unpreparable(ScopeOf(arguments), machine)
                  THEN Exit("failed", NoHint) ELSE Running
  BY DEF CommandInit
<1>2. PICK scope : scope = ScopeOf(arguments)
  OBVIOUS
<1>3. scope.subnets \in Seq(Subnets) /\ IsMachine(machine)
  BY <1>2, CommandAssumption DEF ScopeOf
<1>4. PICK s : s = scan
  OBVIOUS
<1>5. ScanInv(s) /\ s.announced = {}
  <2>1. s = Prepare(scope, machine, Configured)
    BY <1>1, <1>2, <1>4
  <2> QED BY <1>3, <2>1, PreparedScan
<1>6. listing = NothingListed
  BY DEF CommandInit
<1>7. <<>> \in Seq(Event)
  OBVIOUS
<1>8. listing \in Listings /\ PrintedBy(listing) = {} /\ listing.registration = {}
  BY <1>6, <1>7 DEF NothingListed, Listings, PrintedBy
<1>9. Whole(listing) /\ AllListed(s, listing)
  BY <1>5, <1>8 DEF Whole, AllListed, TransportsOf
<1>10. exit.status # "success"
  BY <1>1 DEF Exit, Running
<1> QED BY <1>4, <1>5, <1>8, <1>9, <1>10 DEF CommandInv, Listing, SuccessfulListingIsWhole

LEMMA PollLists ==
  ASSUME NEW s, ScanInv(s), NEW r \in Polls(s), NEW lines, Listing(s, lines),
         NEW l \in Listed(lines, r.events)
  PROVE  ScanInv(r.scan) /\ Listing(r.scan, l)
<1>1. PICK t, events : t = r.scan /\ events = r.events
  OBVIOUS
<1>2. PollMoves(s, t) /\ PollTells(s, t, events)
  BY <1>1, PollsMove
<1>3. ScanInv(t) /\ events \in Seq(Event)
  BY <1>2 DEF PollMoves, PollTells
<1>4. ListedSo(lines, events, Len(events), l)
  <2>1. lines \in Listings /\ (lines.error \/ lines.closed \/ Whole(lines))
    BY DEF Listing
  <2>2. l \in Listed(lines, events)
    BY <1>1
  <2> QED BY <1>3, <2>1, <2>2, ListAll
<1>5. ASSUME ~l.error, ~l.closed PROVE Whole(l) /\ AllListed(t, l)
  <2>1. /\ ~lines.error /\ ~lines.closed /\ Whole(l)
        /\ PrintedBy(l) = PrintedBy(lines) \union PrintersTo(events, Len(events))
    BY <1>4, <1>5 DEF ListedSo
  <2>2. AllListed(s, lines)
    BY <2>1 DEF Listing
  <2>3. ASSUME NEW address \in t.announced
        PROVE  \E event \in PrintedBy(l) : event.key = <<"network", address>>
    <3>1. CASE address \in s.announced
      BY <2>1, <2>2, <3>1 DEF AllListed
    <3>2. CASE address \notin s.announced
      <4>1. PICK i \in DOMAIN events : events[i] = NetworkEvent(s, address)
        BY <1>2, <3>2 DEF PollTells
      <4>2. IsPrinter(events[i]) /\ events[i].key = <<"network", address>>
        BY <4>1, PrinterEventFields DEF NetworkEvent, IsPrinter
      <4>3. i \in 1..Len(events)
        BY <1>3
      <4>4. events[i] \in PrintersTo(events, Len(events))
        BY <4>2, <4>3 DEF PrintersTo
      <4> QED BY <2>1, <4>2, <4>4
    <3> QED BY <3>1, <3>2
  <2> QED BY <2>1, <2>3 DEF AllListed
<1>6. l \in Listings
  BY <1>4 DEF ListedSo
<1> QED BY <1>1, <1>3, <1>5, <1>6 DEF Listing, Listings

LEMMA CommandKeeps == CommandInv /\ [CommandNext]_commandVars => CommandInv'
<1> SUFFICES ASSUME CommandInv, [CommandNext]_commandVars PROVE CommandInv'
  OBVIOUS
<1>1. CASE PollScan
  <2>1. PICK r \in Polls(scan) :
          /\ scan' = r.scan /\ listing' \in Listed(listing, r.events)
          /\ exit' = IF r.scan.at \in {"completed", "failed"}
                     THEN Conclude(r.scan.at, listing') ELSE exit
          /\ exit = Running
    BY <1>1 DEF PollScan
  <2>2. PICK s, lines, l : s = scan /\ lines = listing /\ l = listing'
    OBVIOUS
  <2>3. ScanInv(r.scan) /\ Listing(r.scan, l)
    <3>1. ScanInv(s) /\ r \in Polls(s) /\ Listing(s, lines) /\ l \in Listed(lines, r.events)
      BY <2>1, <2>2 DEF CommandInv
    <3> QED BY <3>1, PollLists
  <2>4. ScanInv(scan)' /\ Listing(scan, listing)'
    BY <2>1, <2>2, <2>3
  <2>5. SuccessfulListingIsWhole'
    <3> SUFFICES ASSUME exit'.status = "success", ~listing'.closed
                 PROVE  /\ exit'.hint = {t \in {"usb", "network"} : Printed(t)'}
                        /\ \A address \in scan'.announced :
                             \E i \in DOMAIN listing'.printed :
                               listing'.printed[i].key = <<"network", address>>
      BY DEF SuccessfulListingIsWhole
    <3>1. r.scan.at = "completed" /\ ~l.error /\ ~l.closed /\ exit'.hint = l.registration
      BY <2>1, <2>2 DEF Conclude, Exit, Running, ResponseRegistration
    <3>2. /\ l.registration = {t \in {"usb", "network"} : NewOf(l, t)}
          /\ \A address \in r.scan.announced :
               \E i \in DOMAIN l.printed : l.printed[i].key = <<"network", address>>
      <4>1. PICK t : t = r.scan
        OBVIOUS
      <4>2. Listing(t, l) /\ ~l.error /\ ~l.closed
        BY <2>3, <3>1, <4>1
      <4>3. /\ l.registration = {transport \in {"usb", "network"} : NewOf(l, transport)}
            /\ \A address \in t.announced :
                 \E i \in DOMAIN l.printed : l.printed[i].key = <<"network", address>>
        BY ONLY <4>2, WholeListing
      <4> QED BY <4>1, <4>3
    <3>3. \A t : NewOf(l, t) = Printed(t)'
      BY <2>2 DEF NewOf, Printed
    <3> QED BY <2>1, <2>2, <3>1, <3>2, <3>3
  <2> QED BY <2>4, <2>5 DEF CommandInv
<1>2. CASE StopScan
  <2>1. exit' = Conclude("stopped", listing) /\ UNCHANGED <<scan, listing>>
    BY <1>2 DEF StopScan
  <2>2. exit'.status = "success" => listing.closed
    BY <2>1 DEF Conclude, Exit
  <2> QED BY <2>1, <2>2 DEF CommandInv, SuccessfulListingIsWhole
<1>3. CASE Interrupt
  BY <1>3 DEF Interrupt, CommandInv, SuccessfulListingIsWhole, Printed
<1>4. CASE ProbeStep
  <2>1. exit = Running /\ UNCHANGED <<listing, exit>>
    BY <1>4 DEF ProbeStep
  <2>2. PICK s, t : s = scan /\ t = scan'
    OBVIOUS
  <2>3. ScanInv(t) /\ t.announced = s.announced
    <3>1. ScanInv(s)
      BY <2>2 DEF CommandInv
    <3>2. CASE \E probe \in s.waiting : t = BeginProbe(s, probe)
      BY <3>1, <3>2, BeginProbeKeeps
    <3>3. CASE \E probe \in s.probing, connected \in BOOLEAN : t = AnswerProbe(s, probe, connected)
      <4>1. PICK probe \in s.probing, connected \in BOOLEAN : t = AnswerProbe(s, probe, connected)
        BY <3>3
      <4> QED BY <3>1, <4>1, AnswerProbeKeeps
    <3> QED BY <1>4, <2>2, <3>2, <3>3 DEF ProbeStep
  <2>4. Listing(scan, listing)'
    BY <2>1, <2>2, <2>3 DEF CommandInv, Listing, AllListed
  <2>5. exit.status # "success"
    BY <2>1 DEF Running
  <2> QED BY <2>1, <2>2, <2>3, <2>4, <2>5 DEF CommandInv, SuccessfulListingIsWhole
<1>5. CASE UNCHANGED commandVars
  BY <1>5 DEF commandVars, CommandInv, SuccessfulListingIsWhole, Printed
<1> QED BY <1>1, <1>2, <1>3, <1>4, <1>5 DEF CommandNext

\* A listing that ends well is whole, whatever the order of the answers, the writes that
\* fail and the moment the user interrupts it.
THEOREM SuccessIsWhole == CommandSpec => []SuccessfulListingIsWhole
<1>1. CommandInv => SuccessfulListingIsWhole
  BY DEF CommandInv
<1> QED BY <1>1, CommandStarts, CommandKeeps, PTL DEF CommandSpec
=============================================================================
