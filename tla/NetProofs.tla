----------------------------- MODULE NetProofs -----------------------------
(***************************************************************************)
(* Proofs about the ring of the card, the answers to pings and queries,    *)
(* and the ARP cache.                                                      *)
(*                                                                         *)
(* While every packet takes one page, the place of a page tells which      *)
(* packet it holds.  Ahead is how many packets the card is ahead of the    *)
(* driver: from -1, when the driver has taken an old packet for a new one, *)
(* to PSTOP - 2, when the card waits for room.  With packets of any size,  *)
(* the driver finds the headers one after the other until the card has     *)
(* been once round its ring.                                               *)
(***************************************************************************)
EXTENDS Net, FiniteSetTheorems, FunctionTheorems, SequenceTheorems, TLAPS

Ahead == accepted - given.n

\* The number of the packet that was written last to page p, when CURR is c and a
\* packets of one page were accepted; 0 or less: none.
Number(p, c, a) == IF p < c THEN a - (c - 1 - p) ELSE a - (c - 1 - p) - PSTOP
NumberAt(p) == Number(p, curr, accepted)

CardTypes ==
  /\ accepted \in Nat /\ given.n \in Nat /\ written \in Nat /\ accepted <= written
  /\ curr \in Pages /\ bndry \in Nat
  /\ page = [p \in Pages |-> page[p]]
  /\ \A p \in Pages : \/ page[p] \in {NoPacket, Body}
                      \/ page[p].no \in 1..accepted /\ page[p].next \in Nat

\* The ring while every packet has taken one page.
OnePage ==
  /\ bndry \in Pages /\ Ahead \in -1..(PSTOP - 2)
  /\ curr = bndry + Ahead + 1 \/ curr = bndry + Ahead + 1 - PSTOP
  /\ \A p \in Pages : page[p] # NoPacket =>
       /\ NumberAt(p) > 0 /\ page[p].no = NumberAt(p)
       /\ page[p].next = PageOn(p, 1)

\* Packet k ends at page b: the next one begins behind it, if it has come.
Ends(b, k) == IF b = written THEN k = accepted ELSE page[b + 1].no = k + 1

\* The ring while the card has not been round it.
FirstLap ==
  /\ curr = PageOn(written, 1)
  /\ bndry \in 0..written /\ Ends(bndry, given.n)
  /\ \A i \in Pages : i = 0 \/ i > written => page[i] = NoPacket
  /\ \A i \in 1..written : page[i].no # 0 =>
       \E e \in i..written : page[i].next = PageOn(e, 1) /\ Ends(e, page[i].no)

RingInv == /\ CardTypes /\ OneLapLate
           /\ written = accepted => OnePage
           /\ written < PSTOP => FirstLap

-----------------------------------------------------------------------------
\* What a step does to the card.
CardStep == \/ TakePacket
            \/ HasRoom /\ \E p : \E n \in 1..MaxPages : CardTakes(p, n)
            \/ UNCHANGED card

LEMMA SizeFacts == \A p : Sizes(p) \subseteq 1..MaxPages
  BY Ne2000Assumption DEF Sizes

LEMMA NextIsCardStep == [Next]_vars => CardStep
  <1> SUFFICES ASSUME [Next]_vars PROVE CardStep
    OBVIOUS
  <1>1. ASSUME NEW p, Arrives(p) PROVE CardStep
    BY <1>1, SizeFacts DEF Arrives, CardStep
  <1>2. ASSUME NEW op, NEW dst, Call(op, dst) PROVE CardStep
    BY <1>2 DEF Call, CardStep
  <1>3. CASE NetRx
    BY <1>3 DEF NetRx, CardStep
  <1>4. CASE PollStart \/ CardEmpty \/ PollEnd \/ ArpTimeout \/ PingReturns \/ DnsReturns
    BY <1>4 DEF PollStart, CardEmpty, PollEnd, ArpTimeout, PingReturns, DnsReturns, wire,
                CardStep
  <1>5. CASE Dispatch \/ DispatchNested \/ ArpResolved
    BY <1>5 DEF Dispatch, DispatchNested, ArpResolved, CardStep
  <1>6. ASSUME NEW h, HostAnswersArp(h) \/ HostSends(h) PROVE CardStep
    BY <1>1, <1>6 DEF HostAnswersArp, HostSends
  <1>7. ASSUME NEW f, HostTakes(f) PROVE CardStep
    <2>1. CASE f.mac = Route(f.dst)
      BY <1>1, <1>7, <2>1 DEF HostTakes
    <2>2. CASE f.mac # Route(f.dst)
      BY <1>7, <2>2 DEF HostTakes, CardStep
    <2> QED BY <2>1, <2>2
  <1>8. CASE UNCHANGED vars
    BY <1>8 DEF vars, wire, CardStep
  <1> QED BY <1>2, <1>3, <1>4, <1>5, <1>6, <1>7, <1>8 DEF Next, NetPing, DnsResolve

\* The driver's step.
LEMMA RingFacts ==
  /\ PSTOP \in Nat /\ PSTOP > 2 /\ Reserve \in Nat /\ Reserve >= 2 /\ MaxNext \in Nat
  /\ MaxPages \in 1..Reserve /\ Reserve < PSTOP
  /\ Body.no = 0 /\ Body.packet = NoPacket
  BY Ne2000Assumption DEF Body

LEMMA PollFacts ==
  ASSUME bndry \in Nat
  PROVE  /\ Following \in Pages
         /\ Following = IF bndry >= PSTOP - 1 THEN 0 ELSE bndry + 1
         /\ \A next \in Nat : NextBndry(next) \in Nat
         /\ \A i \in Pages : NextBndry(PageOn(i, 1)) = i
  BY RingFacts DEF Following, NextBndry, PageOn, Pages

\* What ne2000_poll takes, and where it goes on.
LEMMA TakeFacts ==
  ASSUME CardTypes, TakePacket
  PROVE  /\ curr # bndry /\ page[Following] # NoPacket /\ Following \in Pages
         /\ given'.n = given.n + 1 /\ given'.no = page[Following].no
         /\ page' = page /\ curr' = curr /\ accepted' = accepted /\ written' = written
         /\ bndry' \in Nat
         /\ page[Following].no # 0 => bndry' = NextBndry(page[Following].next)
<1>1. Following \in Pages /\ \A next \in Nat : NextBndry(next) \in Nat
  BY PollFacts DEF CardTypes
<1>2. /\ curr # bndry /\ page[Following] # NoPacket
      /\ given'.n = given.n + 1 /\ given'.no = page[Following].no
      /\ page' = page /\ curr' = curr /\ accepted' = accepted /\ written' = written
  BY DEF TakePacket, HasPacket
<1>3. PICK next \in Named : bndry' = NextBndry(next)
  BY DEF TakePacket
<1>4. CASE page[Following] = Body
  <2>1. next \in 0..MaxNext
    BY <1>4 DEF Named
  <2>2. next \in Nat
    BY <2>1, RingFacts
  <2> QED BY <1>1, <1>2, <1>3, <1>4, <2>2, RingFacts
<1>5. CASE page[Following] # Body
  <2>1. next = page[Following].next
    BY <1>5 DEF Named
  <2>2. next \in Nat
    BY <1>1, <1>2, <1>5, <2>1 DEF CardTypes
  <2> QED BY <1>1, <1>2, <1>3, <2>1, <2>2
<1> QED BY <1>4, <1>5

LEMMA TakeKeepsTypes == CardTypes /\ TakePacket => CardTypes'
<1> SUFFICES ASSUME CardTypes, TakePacket PROVE CardTypes'
  OBVIOUS
<1>1. /\ given'.n = given.n + 1 /\ page' = page /\ curr' = curr /\ accepted' = accepted
      /\ written' = written /\ bndry' \in Nat
  BY TakeFacts
<1> QED BY <1>1 DEF CardTypes

\* With packets of one page, BNDRY goes to the page that was read, which holds the
\* next packet or the one a whole ring before it.
LEMMA TakeOnePage ==
  ASSUME CardTypes, OnePage, written = accepted, TakePacket
  PROVE  OnePage' /\ OneLapLate'
  <1>0. /\ accepted \in Nat /\ given.n \in Nat /\ curr \in Pages /\ bndry \in Pages
        /\ PSTOP \in Nat /\ PSTOP > 2 /\ bndry \in Nat
        /\ Ahead = accepted - given.n /\ Ahead \in -1..(PSTOP - 2)
        /\ curr = bndry + Ahead + 1 \/ curr = bndry + Ahead + 1 - PSTOP
    BY RingFacts DEF CardTypes, OnePage, Ahead
  <1>2. Following \in Pages /\ Following = IF bndry = PSTOP - 1 THEN 0 ELSE bndry + 1
    BY <1>0, PollFacts, RingFacts DEF Pages
  <1>6. /\ NumberAt(Following) > 0 /\ page[Following].no = NumberAt(Following)
        /\ page[Following].next = PageOn(Following, 1)
    BY <1>2, TakeFacts DEF OnePage
  <1>1. /\ curr # bndry /\ page[Following] # NoPacket /\ bndry' = Following
        /\ given'.n = given.n + 1 /\ given'.no = page[Following].no
        /\ page' = page /\ curr' = curr /\ accepted' = accepted /\ written' = written
    <2>1. page[Following].no # 0
      BY <1>6
    <2>2. NextBndry(PageOn(Following, 1)) = Following
      BY <1>0, <1>2, PollFacts
    <2> QED BY <1>6, <2>1, <2>2, TakeFacts
  <1>3. /\ Ahead >= 0
        /\ curr = Following + Ahead \/ curr = Following + Ahead - PSTOP
        /\ NumberAt(Following) = IF Ahead = 0 THEN accepted + 1 - PSTOP
                                 ELSE accepted - Ahead + 1
    <2>1. /\ curr \in Int /\ 0 <= curr /\ curr < PSTOP /\ bndry \in Int /\ 0 <= bndry
          /\ bndry < PSTOP /\ Ahead \in Int /\ -1 <= Ahead /\ Ahead <= PSTOP - 2
          /\ Following \in Int /\ accepted \in Int
      BY <1>0, <1>2 DEF Pages
    <2>2. Ahead >= 0
      BY <1>0, <1>1, <2>1
    <2>3. curr = Following + Ahead \/ curr = Following + Ahead - PSTOP
      <3>1. CASE bndry = PSTOP - 1
        <4>1. Following = 0
          BY <1>2, <3>1
        <4> QED BY <1>0, <2>1, <2>2, <3>1, <4>1
      <3>2. CASE bndry # PSTOP - 1
        <4>1. Following = bndry + 1
          BY <1>2, <3>2
        <4> QED BY <1>0, <2>1, <4>1
      <3> QED BY <3>1, <3>2
    <2>4. Number(Following, curr, accepted) = IF Ahead = 0 THEN accepted + 1 - PSTOP
                                              ELSE accepted - Ahead + 1
      <3>1. Following < PSTOP /\ 0 <= Following
        BY <1>0, <1>2 DEF Pages
      <3>2. CASE Ahead = 0
        BY <1>0, <2>1, <2>3, <3>1, <3>2 DEF Number
      <3>3. CASE Ahead > 0 /\ curr = Following + Ahead
        BY <1>0, <2>1, <3>1, <3>3 DEF Number
      <3>4. CASE Ahead > 0 /\ curr = Following + Ahead - PSTOP
        BY <1>0, <2>1, <3>1, <3>4 DEF Number
      <3> QED BY <2>1, <2>2, <2>3, <3>2, <3>3, <3>4
    <2> QED BY <2>2, <2>3, <2>4 DEF NumberAt
  <1>4. Ahead' = Ahead - 1
    BY <1>0, <1>1 DEF Ahead
  <1>8. OneLapLate'
    BY <1>0, <1>1, <1>3, <1>6 DEF OneLapLate
  <1>9. \A p \in Pages : NumberAt(p)' = NumberAt(p)
    BY <1>1 DEF NumberAt
  <1>10. \A p \in Pages : page'[p] # NoPacket =>
           /\ NumberAt(p)' > 0 /\ page'[p].no = NumberAt(p)'
           /\ page'[p].next = PageOn(p, 1)
    BY <1>1, <1>9 DEF OnePage
  <1>11. Ahead' \in -1..(PSTOP - 2)
    BY <1>0, <1>1, <1>3, <1>4
  <1>12. curr' = bndry' + Ahead' + 1 \/ curr' = bndry' + Ahead' + 1 - PSTOP
    BY <1>0, <1>1, <1>2, <1>3, <1>4 DEF Pages
  <1> QED BY <1>1, <1>2, <1>8, <1>10, <1>11, <1>12 DEF OnePage, PageOn

\* In the first lap there is a header at the page after BNDRY or nothing at all.
LEMMA TakeFirstLap ==
  ASSUME CardTypes, FirstLap, written < PSTOP, TakePacket
  PROVE  FirstLap' /\ OneLapLate'
<1>1. /\ accepted \in Nat /\ given.n \in Nat /\ written \in Nat /\ bndry \in Nat
      /\ bndry <= written /\ PSTOP \in Nat /\ PSTOP > 2
      /\ curr = PageOn(written, 1) /\ Ends(bndry, given.n)
  BY RingFacts DEF CardTypes, FirstLap
<1>2. /\ page[Following] # NoPacket /\ Following \in Pages
      /\ given'.n = given.n + 1 /\ given'.no = page[Following].no
      /\ page' = page /\ curr' = curr /\ accepted' = accepted /\ written' = written
      /\ page[Following].no # 0 => bndry' = NextBndry(page[Following].next)
  BY TakeFacts
<1>3. Following = IF bndry >= PSTOP - 1 THEN 0 ELSE bndry + 1
  BY <1>1, PollFacts
<1>4. Following # 0 /\ Following <= written
  <2>1. ~(Following = 0 \/ Following > written)
    BY <1>2 DEF FirstLap
  <2> QED BY <1>1, <1>2, <1>3, <2>1
<1>5. Following = bndry + 1 /\ bndry # written /\ Following \in 1..written
  BY <1>1, <1>3, <1>4
<1>6. page[Following].no = given.n + 1
  BY <1>1, <1>5 DEF Ends
<1>7. PICK e \in Following..written :
        page[Following].next = PageOn(e, 1) /\ Ends(e, page[Following].no)
  BY <1>1, <1>5, <1>6 DEF FirstLap
<1>8. e \in Pages /\ e \in 0..written
  BY <1>1, <1>4, <1>5, <1>7 DEF Pages
<1>9. NextBndry(PageOn(e, 1)) = e
  BY <1>1, <1>8, PollFacts
<1>10. bndry' = e
  BY <1>1, <1>2, <1>6, <1>7, <1>9
<1>11. \A b, k : Ends(b, k)' <=> Ends(b, k)
  BY <1>2 DEF Ends
<1>12. Ends(bndry, given.n)'
  <2>1. Ends(e, given.n + 1)
    BY <1>6, <1>7
  <2> QED BY <1>2, <1>10, <2>1 DEF Ends
<1>13. OneLapLate'
  BY <1>2, <1>6 DEF OneLapLate
<1>14. FirstLap'
  <2>1. curr' = PageOn(written', 1) /\ bndry' \in 0..written'
    BY <1>1, <1>2, <1>8, <1>10
  <2>2. \A i \in Pages : i = 0 \/ i > written' => page'[i] = NoPacket
    BY <1>2 DEF FirstLap
  <2>3. \A i \in 1..written' : page'[i].no # 0 =>
          \E x \in i..written' : page'[i].next = PageOn(x, 1) /\ Ends(x, page[i].no)
    BY <1>2 DEF FirstLap
  <2>5. \A i \in 1..written' : page'[i].no # 0 =>
          \E x \in i..written' : page'[i].next = PageOn(x, 1) /\ Ends(x, page[i].no)'
    BY <1>2, <1>11, <2>3 DEF Ends
  <2> QED BY <1>12, <2>1, <2>2, <2>5 DEF FirstLap, PageOn
<1> QED BY <1>13, <1>14

LEMMA TakeKeepsRing == RingInv /\ TakePacket => RingInv'
<1> SUFFICES ASSUME RingInv, TakePacket PROVE RingInv'
  OBVIOUS
<1>1. CardTypes /\ CardTypes' /\ written' = written /\ accepted' = accepted
  BY TakeKeepsTypes, TakeFacts DEF RingInv
<1>2. written = accepted => OnePage' /\ OneLapLate'
  BY <1>1, TakeOnePage DEF RingInv
<1>3. written < PSTOP => FirstLap' /\ OneLapLate'
  BY <1>1, TakeFirstLap DEF RingInv
<1>4. OneLapLate'
  <2>1. CASE written # accepted /\ written >= PSTOP
    BY <1>1, <2>1 DEF OneLapLate
  <2>2. written < PSTOP \/ written >= PSTOP
    BY <1>1, RingFacts DEF CardTypes
  <2> QED BY <1>2, <1>3, <2>1, <2>2
<1> QED BY <1>1, <1>2, <1>3, <1>4 DEF RingInv

-----------------------------------------------------------------------------
\* The card's step: with Reserve pages kept free it never catches up.
LEMMA CardFacts ==
  ASSUME CardTypes, NEW x, NEW n \in 1..MaxPages, CardTakes(x, n)
  PROVE  /\ n \in Nat /\ n > 0 /\ n < PSTOP
         /\ curr' = PageOn(curr, n) /\ curr' \in Pages
         /\ accepted' = accepted + 1 /\ written' = written + n
         /\ bndry' = bndry /\ given' = given
         /\ page' = [p \in Pages |-> page'[p]]
         /\ page'[curr].no = accepted + 1 /\ page'[curr].packet = x
         /\ page'[curr].next = PageOn(curr, n)
         /\ \A p \in Pages : p # curr =>
              page'[p] = IF \E k \in 1..(n - 1) : p = PageOn(curr, k) THEN Body ELSE page[p]
<1>1. n \in Nat /\ n > 0 /\ n < PSTOP /\ curr \in Pages
  BY RingFacts DEF CardTypes
<1>2. PICK h : h = [no |-> accepted + 1, packet |-> x, next |-> PageOn(curr, n)]
  OBVIOUS
<1>3. h.no = accepted + 1 /\ h.packet = x /\ h.next = PageOn(curr, n)
  BY <1>2
<1>4. page' = [i \in Pages |-> IF i = curr THEN h
                ELSE IF \E k \in 1..(n - 1) : i = PageOn(curr, k) THEN Body ELSE page[i]]
  BY <1>2 DEF CardTakes
<1>5. PICK v : v = page'
  OBVIOUS
<1>6. v[curr] = h /\ v = [p \in Pages |-> v[p]]
      /\ \A p \in Pages : p # curr =>
              v[p] = IF \E k \in 1..(n - 1) : p = PageOn(curr, k) THEN Body ELSE page[p]
  BY <1>1, <1>4, <1>5
<1>7. /\ curr' = PageOn(curr, n) /\ accepted' = accepted + 1 /\ written' = written + n
      /\ bndry' = bndry /\ given' = given
  BY DEF CardTakes
<1>8. curr' \in Pages
  BY <1>1, <1>7, RingFacts DEF PageOn, Pages
<1> QED BY <1>1, <1>3, <1>5, <1>6, <1>7, <1>8

LEMMA CardKeepsTypes ==
  ASSUME CardTypes, NEW x, NEW n \in 1..MaxPages, CardTakes(x, n)
  PROVE  CardTypes' /\ (written' = accepted' => written = accepted /\ n = 1)
<1>1. /\ accepted \in Nat /\ given.n \in Nat /\ written \in Nat /\ accepted <= written
      /\ curr \in Pages /\ bndry \in Nat
  BY DEF CardTypes
<1>2. /\ n \in Nat /\ n > 0 /\ n < PSTOP
      /\ curr' \in Pages /\ accepted' = accepted + 1 /\ written' = written + n
      /\ bndry' = bndry /\ given' = given /\ page' = [p \in Pages |-> page'[p]]
      /\ page'[curr].no = accepted + 1 /\ page'[curr].next = PageOn(curr, n)
      /\ \A p \in Pages : p # curr => page'[p] = Body \/ page'[p] = page[p]
  BY CardFacts
<1>3. PageOn(curr, n) \in Nat
  BY <1>1, <1>2, RingFacts DEF PageOn, Pages
<1>4. \A p \in Pages : \/ page'[p] \in {NoPacket, Body}
                       \/ page'[p].no \in 1..accepted' /\ page'[p].next \in Nat
  <2> SUFFICES ASSUME NEW p \in Pages, page'[p] \notin {NoPacket, Body}
               PROVE  page'[p].no \in 1..accepted' /\ page'[p].next \in Nat
    OBVIOUS
  <2>1. CASE p = curr
    BY <1>1, <1>2, <1>3, <2>1
  <2>2. CASE p # curr
    <3>1. page'[p] = page[p]
      BY <1>2, <2>2
    <3>2. page[p].no \in 1..accepted /\ page[p].next \in Nat
      BY <3>1 DEF CardTypes
    <3> QED BY <1>1, <1>2, <3>1, <3>2
  <2> QED BY <2>1, <2>2
<1>5. /\ accepted' \in Nat /\ given'.n \in Nat /\ written' \in Nat /\ accepted' <= written'
      /\ bndry' \in Nat /\ (written' = accepted' => written = accepted /\ n = 1)
  BY <1>1, <1>2
<1> QED BY <1>2, <1>4, <1>5 DEF CardTypes

LEMMA CardOnePage ==
  ASSUME CardTypes, OnePage, NEW x, HasRoom, CardTakes(x, 1)
  PROVE  OnePage'
  <1>0. /\ accepted \in Nat /\ given.n \in Nat /\ curr \in Pages /\ bndry \in Pages
        /\ PSTOP \in Nat /\ PSTOP > 2 /\ Reserve \in Nat /\ Reserve >= 2
        /\ Ahead = accepted - given.n /\ Ahead \in -1..(PSTOP - 2)
        /\ curr = bndry + Ahead + 1 \/ curr = bndry + Ahead + 1 - PSTOP
        /\ 1 \in 1..MaxPages
    BY RingFacts DEF CardTypes, OnePage, Ahead
  <1>1. /\ curr' = PageOn(curr, 1) /\ accepted' = accepted + 1
        /\ bndry' = bndry /\ given' = given
        /\ page'[curr].no = accepted + 1 /\ page'[curr].next = PageOn(curr, 1)
        /\ \A p \in Pages : p # curr =>
              page'[p] = IF \E k \in 1..(1 - 1) : p = PageOn(curr, k) THEN Body ELSE page[p]
    BY <1>0, CardFacts
  <1>10. curr' = IF curr = PSTOP - 1 THEN 0 ELSE curr + 1
    BY <1>0, <1>1 DEF PageOn, Pages
  <1>11. \A p \in Pages : p # curr => page'[p] = page[p]
    <2>1. \A k \in 1..(1 - 1) : FALSE
      OBVIOUS
    <2> QED BY <1>1, <2>1
  <1>2. IF curr < bndry THEN bndry - curr >= 2 ELSE PSTOP - (curr - bndry) >= 2
    <2>1. curr \in Int /\ bndry \in Int
      BY <1>0 DEF Pages
    <2>2. CASE curr < bndry
      BY <1>0, <2>1, <2>2 DEF HasRoom, Avail
    <2>3. CASE ~(curr < bndry)
      BY <1>0, <2>1, <2>3 DEF HasRoom, Avail
    <2> QED BY <2>2, <2>3
  <1>3. Ahead' = Ahead + 1
    BY <1>0, <1>1 DEF Ahead
  <1>4. /\ curr \in Int /\ 0 <= curr /\ curr < PSTOP /\ bndry \in Int /\ 0 <= bndry
        /\ bndry < PSTOP /\ Ahead \in Int /\ -1 <= Ahead /\ Ahead <= PSTOP - 2
        /\ curr' \in Int /\ accepted \in Int
    BY <1>0, <1>10, SMTT(60) DEF Pages
  <1>5. /\ curr' \in Pages /\ Ahead' \in -1..(PSTOP - 2)
        /\ curr' = bndry' + Ahead' + 1 \/ curr' = bndry' + Ahead' + 1 - PSTOP
        /\ \A p \in Pages : NumberAt(p)' = IF p = curr THEN accepted + 1 ELSE NumberAt(p)
    <2>1. /\ Ahead < PSTOP - 2 /\ 0 <= curr' /\ curr' < PSTOP
          /\ curr' = bndry + Ahead + 2 \/ curr' = bndry + Ahead + 2 - PSTOP
          /\ \A p \in 0..(PSTOP - 1) : Number(p, curr', accepted + 1)
                = IF p = curr THEN accepted + 1 ELSE Number(p, curr, accepted)
      <3>1. PICK n \in Int, c \in Int, b \in Int, e \in Int, a \in Int :
              /\ n = curr' /\ c = curr /\ b = bndry /\ e = Ahead /\ a = accepted
              /\ n = IF c = PSTOP - 1 THEN 0 ELSE c + 1
        BY <1>4, <1>10
      <3>2. /\ PSTOP \in Nat /\ PSTOP > 2 /\ 0 <= c /\ c < PSTOP /\ 0 <= b /\ b < PSTOP
            /\ -1 <= e /\ e <= PSTOP - 2 /\ (c = b + e + 1 \/ c = b + e + 1 - PSTOP)
            /\ IF c < b THEN b - c >= 2 ELSE PSTOP - (c - b) >= 2
        BY <1>0, <1>2, <1>4, <3>1
      <3>3. /\ e < PSTOP - 2 /\ 0 <= n /\ n < PSTOP
            /\ n = b + e + 2 \/ n = b + e + 2 - PSTOP
            /\ \A p \in 0..(PSTOP - 1) :
                 Number(p, n, a + 1) = IF p = c THEN a + 1 ELSE Number(p, c, a)
        BY <3>1, <3>2, SMTT(60) DEF Number
      <3> QED BY <3>1, <3>3
    <2>2. \A p \in Pages : NumberAt(p)' = IF p = curr THEN accepted + 1 ELSE NumberAt(p)
      BY <1>1, <2>1 DEF NumberAt, Pages
    <2>3. curr' \in Pages /\ Ahead' \in -1..(PSTOP - 2)
      <3>1. curr' \in Pages
        BY <1>0, <1>4, <2>1 DEF Pages
      <3>2. Ahead' \in -1..(PSTOP - 2)
        BY <1>0, <1>3, <1>4, <2>1
      <3> QED BY <3>1, <3>2
    <2>4. curr' = bndry' + Ahead' + 1 \/ curr' = bndry' + Ahead' + 1 - PSTOP
      BY <1>0, <1>1, <1>3, <1>4, <2>1
    <2> QED BY <2>2, <2>3, <2>4
  <1>8. \A p \in Pages : page'[p] # NoPacket =>
          /\ NumberAt(p)' > 0 /\ page'[p].no = NumberAt(p)' /\ page'[p].next = PageOn(p, 1)
    <2> TAKE p \in Pages
    <2>1. CASE p = curr
      BY <1>0, <1>1, <1>5, <2>1
    <2>2. CASE p # curr
      BY <1>5, <1>11, <2>2 DEF OnePage
    <2> QED BY <2>1, <2>2
  <1> QED BY <1>0, <1>1, <1>5, <1>8 DEF OnePage, PageOn

LEMMA CardFirstLap ==
  ASSUME CardTypes, FirstLap, NEW x, NEW n \in 1..MaxPages, CardTakes(x, n),
         written + n < PSTOP
  PROVE  FirstLap'
<1>1. /\ accepted \in Nat /\ given.n \in Nat /\ written \in Nat /\ bndry \in 0..written
      /\ PSTOP \in Nat /\ Ends(bndry, given.n)
  BY RingFacts DEF CardTypes, FirstLap
<1>2. /\ n \in Nat /\ n > 0 /\ curr' = PageOn(curr, n) /\ accepted' = accepted + 1
      /\ written' = written + n /\ bndry' = bndry /\ given' = given
      /\ page'[curr].no = accepted + 1 /\ page'[curr].next = PageOn(curr, n)
      /\ \A p \in Pages : p # curr =>
           page'[p] = IF \E k \in 1..(n - 1) : p = PageOn(curr, k) THEN Body ELSE page[p]
  BY CardFacts
<1>3. curr = written + 1 /\ curr \in Pages /\ curr \in 1..written'
  <2>1. curr = PageOn(written, 1)
    BY DEF FirstLap
  <2>2. curr = written + 1
    BY <1>1, <1>2, <2>1 DEF PageOn
  <2> QED BY <1>1, <1>2, <2>2 DEF Pages
<1>4. \A k \in 1..(n - 1) : PageOn(curr, k) = written + 1 + k
  BY <1>1, <1>2, <1>3 DEF PageOn
<1>5. PageOn(curr, n) = PageOn(written', 1)
  BY <1>1, <1>2, <1>3 DEF PageOn
<1>6. \A p \in Pages : p <= written \/ p > written' => page'[p] = page[p] /\ p # curr
  <2> SUFFICES ASSUME NEW p \in Pages, p <= written \/ p > written'
               PROVE  page'[p] = page[p] /\ p # curr
    OBVIOUS
  <2>1. p \in Nat
    BY <1>1 DEF Pages
  <2>2. p # curr /\ \A k \in 1..(n - 1) : p # written + 1 + k
    BY <1>1, <1>2, <1>3, <2>1
  <2>3. ~\E k \in 1..(n - 1) : p = PageOn(curr, k)
    BY <1>4, <2>2
  <2> QED BY <1>2, <2>2, <2>3
<1>7. \A p \in Pages : p > written + 1 /\ p <= written' => page'[p] = Body
  <2> SUFFICES ASSUME NEW p \in Pages, p > written + 1, p <= written'
               PROVE  page'[p] = Body
    OBVIOUS
  <2>1. PICK k \in 1..(n - 1) : p = written + 1 + k
    <3>1. p - written - 1 \in 1..(n - 1) /\ p = written + 1 + (p - written - 1)
      BY <1>1, <1>2 DEF Pages
    <3> QED BY <3>1
  <2>2. p = PageOn(curr, k) /\ p # curr
    BY <1>1, <1>3, <1>4, <2>1
  <2> QED BY <1>2, <2>2
<1>8. ASSUME NEW b \in 0..written, NEW k, Ends(b, k) PROVE Ends(b, k)'
  <2>1. b # written'
    BY <1>1, <1>2
  <2>2. CASE b = written
    <3>1. k = accepted /\ b + 1 = curr
      BY <1>3, <1>8, <2>2 DEF Ends
    <3> QED BY <1>2, <2>1, <3>1 DEF Ends
  <2>3. CASE b # written
    <3>1. b + 1 \in Pages /\ b + 1 <= written
      BY <1>1, <1>2, <2>3 DEF Pages
    <3>2. page'[b + 1] = page[b + 1]
      BY <1>6, <3>1
    <3> QED BY <1>8, <2>1, <2>3, <3>2 DEF Ends
  <2> QED BY <2>2, <2>3
<1>9. curr' = PageOn(written', 1) /\ bndry' \in 0..written'
  BY <1>1, <1>2, <1>5
<1>10. Ends(bndry, given.n)'
  <2>2. PICK b, k : b = bndry /\ k = given.n
    OBVIOUS
  <2>3. Ends(b, k)'
    BY <1>1, <1>8, <2>2
  <2> QED BY <1>2, <2>2, <2>3 DEF Ends
<1>11. \A i \in Pages : i = 0 \/ i > written' => page'[i] = NoPacket
  <2> SUFFICES ASSUME NEW i \in Pages, i = 0 \/ i > written' PROVE page'[i] = NoPacket
    OBVIOUS
  <2>1. page'[i] = page[i]
    BY <1>1, <1>6
  <2>2. i = 0 \/ i > written
    BY <1>1, <1>2 DEF Pages
  <2> QED BY <2>1, <2>2 DEF FirstLap
<1>12. ASSUME NEW i \in 1..written', page'[i].no # 0
       PROVE  \E e \in i..written' : page'[i].next = PageOn(e, 1) /\ Ends(e, page[i].no)'
  <2>1. i \in Pages
    BY <1>1, <1>2 DEF Pages
  <2>2. CASE i <= written
    <3>1. page'[i] = page[i] /\ i \in 1..written
      BY <1>1, <1>2, <1>6, <2>1, <2>2
    <3>2. PICK e \in i..written : page[i].next = PageOn(e, 1) /\ Ends(e, page[i].no)
      BY <1>12, <3>1 DEF FirstLap
    <3>3. PICK k : k = page[i].no
      OBVIOUS
    <3>4. e \in 0..written /\ e \in i..written'
      BY <1>1, <1>2, <3>1
    <3>5. Ends(e, k)'
      BY <1>8, <3>2, <3>3, <3>4
    <3>6. Ends(e, page[i].no)'
      BY <3>1, <3>3, <3>5 DEF Ends
    <3> QED BY <3>1, <3>2, <3>4, <3>6
  <2>3. CASE i = written + 1
    <3>1. page'[i].no = accepted' /\ page'[i].next = PageOn(written', 1)
      BY <1>2, <1>3, <1>5, <2>3
    <3>2. Ends(written, page[i].no)'
      BY <3>1 DEF Ends
    <3>3. PICK e : e = written'
      OBVIOUS
    <3>4. e \in i..written'
      BY <1>1, <1>2, <3>3
    <3>5. Ends(e, page[i].no)'
      BY <3>2, <3>3 DEF Ends
    <3> QED BY <3>1, <3>3, <3>4, <3>5
  <2>4. CASE i > written + 1
    BY <1>1, <1>2, <1>7, <1>12, <2>1, <2>4, RingFacts
  <2> QED BY <1>1, <2>1, <2>2, <2>3, <2>4 DEF Pages
<1> QED BY <1>9, <1>10, <1>11, <1>12 DEF FirstLap, PageOn

LEMMA CardKeepsRing ==
  ASSUME NEW x, NEW n \in 1..MaxPages, RingInv, HasRoom, CardTakes(x, n)
  PROVE  RingInv'
<1>1. CardTypes /\ CardTypes' /\ (written' = accepted' => written = accepted /\ n = 1)
  BY CardKeepsTypes DEF RingInv
<1>2. /\ accepted' = accepted + 1 /\ written' = written + n /\ given' = given
      /\ n \in Nat /\ n > 0 /\ written \in Nat /\ accepted \in Nat /\ PSTOP \in Nat
  BY <1>1, CardFacts, RingFacts DEF CardTypes
<1>3. written' = accepted' => OnePage'
  BY <1>1, CardOnePage DEF RingInv
<1>4. written' < PSTOP => FirstLap'
  <2>1. written' < PSTOP => written < PSTOP /\ written + n < PSTOP
    BY <1>2
  <2> QED BY <1>1, <2>1, CardFirstLap DEF RingInv
<1>5. OneLapLate'
  <2>1. CASE given.n > 0 /\ given.no # given.n
    <3>1. written >= PSTOP /\ (written = accepted => given.no = given.n - PSTOP)
      BY <2>1 DEF RingInv, OneLapLate
    <3>2. written' >= PSTOP /\ (written' = accepted' => given'.no = given'.n - PSTOP)
      BY <1>1, <1>2, <3>1
    <3> QED BY <3>2 DEF OneLapLate
  <2>2. CASE given.n > 0 => given.no = given.n
    BY <1>2, <2>2 DEF OneLapLate
  <2> QED BY <2>1, <2>2
<1> QED BY <1>1, <1>3, <1>4, <1>5 DEF RingInv

LEMMA StillKeepsRing == RingInv /\ UNCHANGED card => RingInv'
<1> SUFFICES ASSUME RingInv, UNCHANGED card PROVE RingInv'
  OBVIOUS
<1>1. UNCHANGED <<page, curr, bndry, accepted, written, given>>
  BY DEF card
<1>2. CardTypes' /\ OneLapLate'
  BY <1>1 DEF RingInv, CardTypes, OneLapLate
<1>3. OnePage => OnePage'
  BY <1>1 DEF OnePage, Ahead, NumberAt, PageOn
<1>4. FirstLap => FirstLap'
  BY <1>1 DEF FirstLap, Ends, PageOn
<1> QED BY <1>1, <1>2, <1>3, <1>4 DEF RingInv

LEMMA InitRing == Init => RingInv
<1> SUFFICES ASSUME CardInit PROVE RingInv
  BY DEF Init
<1>1. /\ page = [i \in Pages |-> NoPacket] /\ curr = 1 /\ bndry = 0 /\ accepted = 0
      /\ written = 0 /\ given.n = 0 /\ PSTOP \in Nat /\ PSTOP > 2
  BY RingFacts DEF CardInit
<1>2. CardTypes /\ OneLapLate
  BY <1>1 DEF CardTypes, OneLapLate, Pages
<1>3. OnePage
  BY <1>1 DEF OnePage, Ahead, Pages
<1>4. FirstLap
  BY <1>1 DEF FirstLap, Ends, Pages, PageOn
<1> QED BY <1>2, <1>3, <1>4 DEF RingInv

(***************************************************************************)
(* For a ring of any size and any traffic, ne2000_poll hands out the       *)
(* packets in the order they came and each once until the card has gone    *)
(* round its ring; and after that, as long as every packet took one page,  *)
(* never anything but the next packet or the one a whole ring before it.   *)
(***************************************************************************)
THEOREM NeverWorseThanOneLap == Spec => []OneLapLate
  <1>1. RingInv /\ [Next]_vars => RingInv'
    BY NextIsCardStep, TakeKeepsRing, CardKeepsRing, StillKeepsRing DEF CardStep
  <1>2. RingInv => OneLapLate
    BY DEF RingInv
  <1> QED BY <1>1, <1>2, InitRing, PTL DEF Spec

-----------------------------------------------------------------------------
(***************************************************************************)
(* Answers.  A ping is known by its id and a query by its port, which only *)
(* go up: a packet or frame on its way has an id of an earlier call, and   *)
(* one with the id of the call in progress, the bottom of the stack,       *)
(* belongs to it.                                                          *)
(***************************************************************************)
Packets == [op : {"arpReq", "arpRep", "echoReq", "echoRep", "udp"}, src : Hosts,
            id : Nat, ask : Nat]
Calls == [op : {"ping", "dns", "echo"}, dst : Hosts, id : Nat, ask : Nat,
          st : {"arp", "wait"}, poll : {"no", "card", "ring"}]

InCall(op) == stack # << >> /\ stack[1].op = op
\* The port of the next query; the counter is back at 0 after the last one.
Query == IF port = 0 THEN Ports ELSE port

TruePing(id, ask) == /\ id \in 1..ping.id
                     /\ InCall("ping") /\ id = ping.id => ask = stack[1].ask
TrueQuery(id, ask) == /\ id \in 1..(Query - 1)
                      /\ InCall("dns") /\ id = stack[1].id => ask = stack[1].ask

TruePacket(p) ==
  /\ p \in Packets
  /\ p.op = "echoRep" => p.ask \in echoed /\ TruePing(p.id, p.ask)
  /\ p.op = "udp" => p.ask \in echoed /\ TrueQuery(p.id, p.ask)
TrueFrame(f) ==
  /\ f.op \in {"ping", "dns"} /\ f.dst \in Hosts /\ f.id \in Nat /\ f.ask \in Nat
  /\ f.op = "ping" => TruePing(f.id, f.ask)
  /\ f.op = "dns" => TrueQuery(f.id, f.ask)

Numbers == /\ ping \in [id : Nat, ok : BOOLEAN] /\ port \in 0..Ports
           /\ calls \in 0..MaxCalls /\ ping.id <= calls /\ Query <= calls + 1
           /\ udp \in [port : Nat, got : BOOLEAN, data : Nat]
\* The middle of a packet is no header.
TruePage(x) == x \notin {NoPacket, Body} => TruePacket(x.packet) /\ x.next \in Nat
InTransit == /\ curr \in Pages /\ bndry \in Nat /\ tail \in Slots /\ head \in Slots
             /\ page = [i \in Pages |-> page[i]]
             /\ \A i \in Pages : TruePage(page[i])
             /\ ring = [i \in Slots |-> ring[i]]
             /\ \A i \in Slots : ring[i] # NoPacket => TruePacket(ring[i])
             /\ \A f \in out : TrueFrame(f)
             /\ asked \subseteq Hosts
Waits ==
  /\ stack \in Seq(Calls)
  /\ \A i \in 1..Len(stack) : stack[i].op = "echo" <=> i # 1
  /\ InCall("ping") => /\ stack[1].id = ping.id /\ ping.id > 0
                       /\ ping.ok => stack[1].ask \in echoed
  /\ InCall("dns") =>
       /\ stack[1].id \in 1..(Query - 1)
       /\ stack[1].st = "wait" =>
            /\ udp.port = stack[1].id
            /\ udp.got => udp.data = stack[1].ask /\ udp.data \in echoed
AnswerInv == Numbers /\ InTransit /\ Waits /\ OwnAnswer

\* Fewer pings than a byte has values: their ids are the same in both byte orders
\* for none of them.
PingsFit == MaxCalls < Byte

\* What is true of a packet stays true while the call in progress is the same, or
\* has returned.
SameCall == /\ stack' # << >> => /\ stack # << >> /\ stack'[1].op = stack[1].op
                                 /\ stack'[1].id = stack[1].id
                                 /\ stack'[1].ask = stack[1].ask
            /\ ping'.id = ping.id /\ port' = port /\ echoed \subseteq echoed'

LEMMA StaysTrue ==
  ASSUME SameCall
  PROVE  /\ \A p : TruePacket(p) => TruePacket(p)'
         /\ \A f : TrueFrame(f) => TrueFrame(f)'
<1>1. Query' = Query
  BY DEF SameCall, Query
<1>2. ASSUME NEW id, NEW ask, TruePing(id, ask) PROVE TruePing(id, ask)'
  BY <1>2 DEF TruePing, SameCall, InCall
<1>3. ASSUME NEW id, NEW ask, TrueQuery(id, ask) PROVE TrueQuery(id, ask)'
  BY <1>1, <1>3 DEF TrueQuery, SameCall, InCall
<1>4. ASSUME NEW p, TruePacket(p) PROVE TruePacket(p)'
  <2>1. p.ask \in echoed => p.ask \in echoed'
    BY DEF SameCall
  <2> QED BY <1>2, <1>3, <1>4, <2>1 DEF TruePacket
<1>5. ASSUME NEW f, TrueFrame(f) PROVE TrueFrame(f)'
  BY <1>2, <1>3, <1>5 DEF TrueFrame
<1> QED BY <1>4, <1>5

LEMMA StackFacts ==
  ASSUME Waits, stack # << >>
  PROVE  /\ Len(stack) \in Nat /\ Len(stack) > 0 /\ Top \in Calls /\ Top = stack[Len(stack)]
         /\ stack[1] \in Calls /\ stack[1].op \in {"ping", "dns"}
         /\ Top.op # "echo" => Len(stack) = 1
         /\ Top.op = "echo" => Len(stack) > 1
<1>1. stack \in Seq(Calls) /\ Len(stack) \in Nat /\ Len(stack) > 0
  BY LenProperties, EmptySeq DEF Waits
<1>2. 1 \in 1..Len(stack) /\ Len(stack) \in 1..Len(stack)
  BY <1>1
<1>3. \A i \in 1..Len(stack) : stack[i] \in Calls /\ (stack[i].op = "echo" <=> i # 1)
  BY <1>1, ElementOfSeq DEF Waits
<1>4. Top = stack[Len(stack)]
  BY DEF Top, Last
<1>5. stack[1] \in Calls /\ stack[1].op # "echo"
  BY <1>2, <1>3
<1> QED BY <1>1, <1>2, <1>3, <1>4, <1>5, SMTT(60) DEF Calls

\* The call on top with another state, or the stack without it.
LEMMA TopFacts ==
  ASSUME Waits, stack # << >>, NEW g \in Calls
  PROVE  /\ WithTop(g) \in Seq(Calls) /\ Len(WithTop(g)) = Len(stack)
         /\ WithTop(g) # << >>
         /\ \A i \in 1..(Len(stack) - 1) : WithTop(g)[i] = stack[i]
         /\ WithTop(g)[Len(stack)] = g
         /\ Front(stack) \in Seq(Calls) /\ Len(Front(stack)) = Len(stack) - 1
         /\ \A i \in 1..(Len(stack) - 1) : Front(stack)[i] = stack[i]
<1>1. /\ stack \in Seq(Calls) /\ Len(stack) \in Nat /\ Len(stack) > 0
      /\ \A i \in 1..Len(stack) : stack[i] \in Calls
  BY StackFacts, ElementOfSeq DEF Waits
<1>2. PICK a : a = Front(stack) /\ a = SubSeq(stack, 1, Len(stack) - 1)
  BY DEF Front
<1>3. /\ a \in Seq(Calls) /\ Len(a) = Len(stack) - 1
      /\ \A i \in 1..(Len(stack) - 1) : a[i] = stack[i]
  <2>1. Len(stack) - 1 \in Nat /\ Len(stack) - 1 <= Len(stack)
    BY <1>1
  <2>2. a \in Seq(Calls)
    BY <1>1, <1>2, <2>1, SubSeqProperties
  <2>3. PICK n \in Nat : n = Len(stack) - 1 /\ a = SubSeq(stack, 1, n)
    BY <1>2, <2>1
  <2>4. Len(a) = n /\ \A i \in 1..n : a[i] = stack[i]
    BY <1>1, <2>3
  <2> QED BY <2>2, <2>3, <2>4
<1>4. PICK b : b = WithTop(g) /\ b = Append(a, g)
  BY <1>2 DEF WithTop
<1>5. /\ b \in Seq(Calls) /\ Len(b) = Len(stack) /\ b[Len(stack)] = g
      /\ \A i \in 1..(Len(stack) - 1) : b[i] = stack[i]
  BY <1>1, <1>3, <1>4, AppendProperties
<1>6. b # << >>
  BY <1>1, <1>5
<1> QED BY <1>2, <1>3, <1>4, <1>5, <1>6

\* A step that leaves the numbers and the answers alone, with the stack of calls that
\* wait as it was below its top.
Below ==
  \A i \in 1..Len(stack') :
    /\ stack'[i].op = "echo" <=> i # 1
    /\ i = 1 => /\ stack # << >> /\ stack'[1].op = stack[1].op
                /\ stack'[1].id = stack[1].id /\ stack'[1].ask = stack[1].ask

LEMMA BelowFacts ==
  ASSUME Waits, stack # << >>, stack' \in Seq(Calls), ping'.id = ping.id, port' = port,
         echoed' = echoed,
         \/ \E g \in Calls : stack' = WithTop(g) /\ g.op = Top.op /\ g.id = Top.id
                             /\ g.ask = Top.ask
         \/ stack' = Front(stack)
         \/ stack' = << >>
         \/ \E g \in Calls : stack' = Append(stack, g) /\ g.op = "echo"
  PROVE  Below /\ SameCall
<1>1. /\ Len(stack) \in Nat /\ Len(stack) > 0 /\ Top \in Calls /\ Top = stack[Len(stack)]
      /\ stack \in Seq(Calls)
      /\ \A i \in 1..Len(stack) : stack[i].op = "echo" <=> i # 1
  BY StackFacts DEF Waits
<1>2. Below
  <2>1. CASE \E g \in Calls : stack' = WithTop(g) /\ g.op = Top.op /\ g.id = Top.id
                              /\ g.ask = Top.ask
    <3>1. PICK g \in Calls : stack' = WithTop(g) /\ g.op = Top.op /\ g.id = Top.id
                             /\ g.ask = Top.ask
      BY <2>1
    <3>2. /\ Len(stack') = Len(stack) /\ stack'[Len(stack)] = g
          /\ \A i \in 1..(Len(stack) - 1) : stack'[i] = stack[i]
      BY <3>1, TopFacts
    <3>3. \A i \in 1..Len(stack') : i \in 1..Len(stack)
                                    /\ (i = Len(stack) \/ i \in 1..(Len(stack) - 1))
      BY <1>1, <3>2
    <3>4. \A i \in 1..Len(stack') : /\ stack'[i].op = stack[i].op
                                    /\ stack'[i].id = stack[i].id
                                    /\ stack'[i].ask = stack[i].ask
      BY <1>1, <3>1, <3>2, <3>3
    <3> QED BY <1>1, <3>3, <3>4 DEF Below
  <2>2. CASE stack' = Front(stack)
    <3>1. Len(stack') = Len(stack) - 1 /\ \A i \in 1..(Len(stack) - 1) : stack'[i] = stack[i]
      BY <1>1, <2>2, TopFacts
    <3>2. \A i \in 1..Len(stack') : i \in 1..Len(stack) /\ stack'[i] = stack[i]
      BY <1>1, <3>1
    <3> QED BY <1>1, <3>2 DEF Below
  <2>3. CASE stack' = << >>
    BY <2>3 DEF Below
  <2>4. CASE \E g \in Calls : stack' = Append(stack, g) /\ g.op = "echo"
    <3>1. PICK g \in Calls : stack' = Append(stack, g) /\ g.op = "echo"
      BY <2>4
    <3>2. /\ Len(stack') = Len(stack) + 1 /\ stack'[Len(stack) + 1] = g
          /\ \A i \in 1..Len(stack) : stack'[i] = stack[i]
      BY <1>1, <3>1, AppendProperties
    <3>3. \A i \in 1..Len(stack') : \/ i = Len(stack) + 1 /\ i # 1
                                    \/ i \in 1..Len(stack)
      BY <1>1, <3>2
    <3> QED BY <1>1, <3>1, <3>2, <3>3 DEF Below
  <2> QED BY <2>1, <2>2, <2>3, <2>4
<1>3. stack' # << >> => 1 \in 1..Len(stack')
  BY EmptySeq, LenProperties
<1> QED BY <1>2, <1>3 DEF Below, SameCall

\* A step that writes pages of the card, if any.
NewPages == \/ page' = page
            \/ \E v : /\ page' = v /\ v = [i \in Pages |-> v[i]]
                      /\ \A i \in Pages : v[i] = page[i] \/ TruePage(v[i])'

\* What is in transit, when pages or a slot are written and frames leave.
LEMMA TransitStep ==
  ASSUME InTransit, \A p : TruePacket(p) => TruePacket(p)',
         \A f : TrueFrame(f) => TrueFrame(f)',
         curr' \in Pages, bndry' \in Nat, tail' \in Slots,
         head' \in Slots, asked' \subseteq Hosts,
         NewPages,
         \/ ring' = ring
         \/ \E i \in Slots : \E p : /\ p = NoPacket \/ TruePacket(p)
                                    /\ ring' = [ring EXCEPT ![i] = p],
         \A f \in out' : f \in out \/ TrueFrame(f)'
  PROVE  InTransit'
<1>1. /\ \A p : TruePacket(p) => TruePacket(p)'
      /\ \A f : TrueFrame(f) => TrueFrame(f)'
  OBVIOUS
<1>2. PICK v : /\ v = page' /\ v = [i \in Pages |-> v[i]]
               /\ \A i \in Pages : TruePage(v[i])'
  <2>1. PICK w : w = page /\ w = [i \in Pages |-> w[i]] /\ \A i \in Pages : TruePage(w[i])
    BY DEF InTransit
  <2>2. \A i \in Pages : TruePage(w[i])'
    BY <1>1, <2>1 DEF TruePage
  <2> QED BY <2>1, <2>2 DEF NewPages
<1>3. PICK r : r = ring' /\ r = [i \in Slots |-> r[i]]
               /\ \A i \in Slots : r[i] # NoPacket => TruePacket(r[i])'
  <2>1. PICK w : w = ring /\ w = [i \in Slots |-> w[i]]
                 /\ \A i \in Slots : w[i] # NoPacket => TruePacket(w[i])
    BY DEF InTransit
  <2>2. CASE ring' = ring
    BY <1>1, <2>1, <2>2
  <2>3. CASE \E i \in Slots : \E p : /\ p = NoPacket \/ TruePacket(p)
                                     /\ ring' = [ring EXCEPT ![i] = p]
    <3>0. PICK i \in Slots : \E p : /\ p = NoPacket \/ TruePacket(p)
                                    /\ ring' = [ring EXCEPT ![i] = p]
      BY <2>3
    <3>1. PICK p : (p = NoPacket \/ TruePacket(p)) /\ ring' = [ring EXCEPT ![i] = p]
      BY <3>0
    <3>4. PICK u : u = ring' /\ u = [w EXCEPT ![i] = p]
      BY <2>1, <3>1
    <3>5. u = [j \in Slots |-> u[j]] /\ \A j \in Slots : u[j] = IF j = i THEN p ELSE w[j]
      BY <2>1, <3>4
    <3>6. \A j \in Slots : u[j] # NoPacket => TruePacket(u[j])'
      BY <1>1, <2>1, <3>1, <3>5
    <3> QED BY <3>4, <3>5, <3>6
  <2> QED BY <2>2, <2>3
<1>4. PICK o : o = out' /\ \A f \in o : TrueFrame(f)'
  BY <1>1 DEF InTransit
<1> QED BY <1>2, <1>3, <1>4 DEF InTransit

LEMMA TransitKeeps ==
  ASSUME InTransit, SameCall, curr' \in Pages, bndry' \in Nat, tail' \in Slots,
         head' \in Slots, asked' \subseteq Hosts,
         NewPages,
         \/ ring' = ring
         \/ \E i \in Slots : \E p : /\ p = NoPacket \/ TruePacket(p)
                                    /\ ring' = [ring EXCEPT ![i] = p],
         \A f \in out' : f \in out \/ TrueFrame(f)'
  PROVE  InTransit'
  BY StaysTrue, TransitStep

LEMMA SlotAfter == \A i \in Slots : NextSlot(i) \in Slots
  BY NetAssumption DEF NextSlot, Slots

\* net_poll around its two loops: only where the call on top is has changed.
LEMMA PollMoves ==
  ASSUME AnswerInv, PollStart \/ CardEmpty \/ PollEnd
  PROVE  AnswerInv'
<1>1. Numbers /\ InTransit /\ Waits /\ OwnAnswer
  BY DEF AnswerInv
<1>2. /\ stack # << >> /\ ping' = ping /\ udp' = udp /\ port' = port /\ calls' = calls
      /\ last' = last /\ echoed' = echoed /\ out' = out /\ asked' = asked
      /\ page' = page /\ curr' = curr /\ bndry' = bndry /\ ring' = ring /\ tail' = tail
      /\ head' = head
  BY DEF PollStart, CardEmpty, PollEnd, wire, rx, card
<1>3. PICK g \in Calls : /\ stack' = WithTop(g) /\ g.op = Top.op /\ g.id = Top.id
                         /\ g.ask = Top.ask /\ g.st = Top.st
  <2>1. PICK to \in {"no", "card", "ring"} : stack' = WithTop([Top EXCEPT !.poll = to])
    BY DEF PollStart, CardEmpty, PollEnd
  <2>2. PICK g : g = [Top EXCEPT !.poll = to]
    OBVIOUS
  <2>3. Top \in Calls
    BY <1>1, <1>2, StackFacts
  <2>4. g \in Calls /\ g.op = Top.op /\ g.id = Top.id /\ g.ask = Top.ask /\ g.st = Top.st
    BY <2>2, <2>3 DEF Calls
  <2> QED BY <2>1, <2>2, <2>4
<1>4. /\ stack' \in Seq(Calls) /\ Len(stack') = Len(stack) /\ stack'[Len(stack)] = g
      /\ \A i \in 1..(Len(stack) - 1) : stack'[i] = stack[i]
  BY <1>1, <1>2, <1>3, TopFacts
<1>5. Below /\ SameCall
  BY <1>1, <1>2, <1>3, <1>4, BelowFacts
<1>6. InTransit'
  BY <1>1, <1>2, <1>5, TransitKeeps DEF InTransit, NewPages
<1>7. stack'[1].st = stack[1].st
  <2>1. /\ Len(stack) \in Nat /\ Len(stack) > 0 /\ Top = stack[Len(stack)]
    BY <1>1, <1>2, StackFacts
  <2>2. CASE Len(stack) = 1
    BY <1>3, <1>4, <2>1, <2>2
  <2>3. CASE Len(stack) # 1
    <3>1. 1 \in 1..(Len(stack) - 1)
      BY <2>1, <2>3
    <3> QED BY <1>4, <3>1
  <2> QED BY <2>2, <2>3
<1>8. Numbers' /\ OwnAnswer'
  BY <1>1, <1>2 DEF Numbers, Query, OwnAnswer
<1>9. Waits'
  BY <1>1, <1>2, <1>4, <1>5, <1>7 DEF Waits, Below, SameCall, InCall, Query
<1> QED BY <1>6, <1>8, <1>9 DEF AnswerInv

\* A packet goes from the card to the ring.
LEMMA RxMoves ==
  ASSUME AnswerInv, NetRx
  PROVE  AnswerInv'
<1>1. Numbers /\ InTransit /\ Waits /\ OwnAnswer
  BY DEF AnswerInv
<1>2. /\ TakePacket /\ ping' = ping /\ udp' = udp /\ port' = port /\ calls' = calls
      /\ last' = last /\ echoed' = echoed /\ out' = out /\ asked' = asked
      /\ stack' = stack /\ head' = head
  BY DEF NetRx
<1>3. SameCall
  BY <1>2 DEF SameCall
<1>4. /\ curr \in Pages /\ bndry \in Nat /\ tail \in Slots
  BY <1>1 DEF InTransit
<1>5. Following \in Pages /\ \A next \in Nat : NextBndry(next) \in Nat
  BY <1>4, PollFacts
<1>6. page' = page /\ curr' \in Pages /\ page[Following] # NoPacket /\ NewPages
      /\ TruePage(page[Following])
  BY <1>1, <1>2, <1>4, <1>5 DEF TakePacket, HasPacket, NewPages, InTransit
<1>7. bndry' \in Nat /\ (Polled = NoPacket \/ TruePacket(Polled))
  <2>1. PICK next \in Named : bndry' = NextBndry(next)
    BY <1>2 DEF TakePacket
  <2>2. CASE page[Following] = Body
    <3>1. next \in Nat /\ Polled = NoPacket
      BY <2>1, <2>2, RingFacts DEF Named, Polled
    <3> QED BY <1>5, <2>1, <3>1
  <2>3. CASE page[Following] # Body
    <3>1. next \in Nat /\ TruePacket(Polled)
      BY <1>6, <2>1, <2>3 DEF Named, TruePage, Polled
    <3> QED BY <1>5, <2>1, <3>1
  <2> QED BY <2>2, <2>3
<1>8. tail' \in Slots /\ (ring' = ring \/ ring' = [ring EXCEPT ![tail] = Polled])
  <2>1. NextSlot(tail) \in Slots
    BY <1>4, SlotAfter
  <2> QED BY <1>4, <2>1 DEF NetRx
<1>9. InTransit'
  <2>1. asked' \subseteq Hosts /\ head' \in Slots
    BY <1>1, <1>2 DEF InTransit
  <2>2. \/ ring' = ring
        \/ \E i \in Slots : \E p : /\ p = NoPacket \/ TruePacket(p)
                                   /\ ring' = [ring EXCEPT ![i] = p]
    BY <1>4, <1>7, <1>8
  <2> QED BY <1>1, <1>2, <1>3, <1>6, <1>7, <1>8, <2>1, <2>2, TransitKeeps
<1>10. Numbers' /\ OwnAnswer' /\ Waits'
  BY <1>1, <1>2 DEF Numbers, Query, OwnAnswer, Waits, InCall
<1> QED BY <1>9, <1>10 DEF AnswerInv

\* Ids below Byte are never equal to one another with their bytes swapped.
LEMMA OwnPing ==
  ASSUME PingsFit, Numbers, NEW id \in 1..ping.id, MyPing(id)
  PROVE  id = ping.id
<1>1. PICK b \in Nat : b = Byte /\ id < b /\ ping.id < b /\ id \in Nat /\ ping.id \in Nat
                       /\ id >= 1
  BY NetAssumption DEF Numbers, PingsFit
<1>2. id % b = id /\ id \div b = 0
  BY <1>1
<1>3. Swapped(id) = id * b
  BY <1>1, <1>2 DEF Swapped
<1>4. id * b >= b
  BY <1>1
<1>5. Swapped(id) # ping.id
  <2>1. PICK m \in Nat : m = id * b
    BY <1>1
  <2> QED BY <1>1, <1>3, <1>4, <2>1
<1> QED BY <1>5 DEF MyPing

\* dispatch takes answers: those of the call in progress only, or in vain.
LEMMA DispatchMoves ==
  ASSUME PingsFit, AnswerInv, Dispatch
  PROVE  AnswerInv'
<1>1. Numbers /\ InTransit /\ Waits /\ OwnAnswer
  BY DEF AnswerInv
<1>2. /\ stack # << >> /\ stack' = stack /\ port' = port /\ calls' = calls /\ last' = last
      /\ echoed' = echoed /\ out' = out /\ asked' = asked /\ ring' = ring /\ tail' = tail
      /\ page' = page /\ curr' = curr /\ bndry' = bndry /\ head' = NextSlot(head)
  BY DEF Dispatch, card
<1>3. head \in Slots /\ head' \in Slots
  BY <1>1, <1>2, SlotAfter DEF InTransit
<1>4. PICK p : p = ring[head] /\ (p # NoPacket => TruePacket(p))
  BY <1>1, <1>3 DEF InTransit
<1>5. \/ ping' = ping /\ udp' = udp
      \/ Kind(p) = "echoRep" /\ ping' = [ping EXCEPT !.ok = @ \/ MyPing(p.id)] /\ udp' = udp
      \/ Kind(p) = "udp" /\ udp' = UdpTaken(p) /\ ping' = ping
  BY <1>4 DEF Dispatch
<1>6. /\ ping \in [id : Nat, ok : BOOLEAN] /\ udp \in [port : Nat, got : BOOLEAN, data : Nat]
      /\ ping.ok \in BOOLEAN
  BY <1>1 DEF Numbers
<1>7. CASE ping' = ping /\ udp' = udp
  <2>1. SameCall
    BY <1>2, <1>7 DEF SameCall
  <2>2. InTransit'
    BY <1>1, <1>2, <1>3, <2>1, TransitKeeps DEF InTransit, NewPages
  <2>3. Numbers' /\ OwnAnswer' /\ Waits'
    BY <1>1, <1>2, <1>7 DEF Numbers, Query, OwnAnswer, Waits, InCall
  <2> QED BY <2>2, <2>3 DEF AnswerInv
<1>8. CASE /\ Kind(p) = "echoRep" /\ ping' = [ping EXCEPT !.ok = @ \/ MyPing(p.id)]
           /\ udp' = udp
  <2>1. PICK b \in BOOLEAN : b = (ping.ok \/ MyPing(p.id))
    BY <1>6 DEF MyPing
  <2>2. ping' = [ping EXCEPT !.ok = b]
    BY <1>8, <2>1
  <2>3. ping' \in [id : Nat, ok : BOOLEAN] /\ ping'.id = ping.id /\ ping'.ok = b
    BY <1>6, <2>2
  <2>4. SameCall
    BY <1>2, <2>3 DEF SameCall
  <2>5. InTransit'
    BY <1>1, <1>2, <1>3, <2>4, TransitKeeps DEF InTransit, NewPages
  <2>6. Numbers' /\ OwnAnswer'
    BY <1>1, <1>2, <1>8, <2>3 DEF Numbers, Query, OwnAnswer
  <2>7. p.ask \in echoed /\ TruePing(p.id, p.ask)
    <3>1. p # NoPacket /\ p.op = "echoRep"
      BY <1>8 DEF Kind
    <3> QED BY <1>4, <3>1 DEF TruePacket
  <2>8. ASSUME InCall("ping"), b PROVE stack[1].ask \in echoed
    <3>1. CASE ping.ok
      BY <1>1, <2>8, <3>1 DEF Waits
    <3>2. CASE MyPing(p.id)
      <4>1. p.id = ping.id
        BY <1>1, <2>7, <3>2, OwnPing DEF TruePing
      <4> QED BY <2>7, <2>8, <4>1 DEF TruePing
    <3> QED BY <2>1, <2>8, <3>1, <3>2
  <2>9. Waits'
    BY <1>1, <1>2, <1>8, <2>3, <2>8 DEF Waits, InCall, Query
  <2> QED BY <2>5, <2>6, <2>9 DEF AnswerInv
<1>9. CASE Kind(p) = "udp" /\ udp' = UdpTaken(p) /\ ping' = ping
  <2>1. p.ask \in echoed /\ TrueQuery(p.id, p.ask) /\ p.ask \in Nat
    <3>1. p # NoPacket /\ p.op = "udp"
      BY <1>9 DEF Kind
    <3> QED BY <1>4, <3>1 DEF TruePacket, Packets
  <2>2. \/ udp' = udp
        \/ ~udp.got /\ p.id = udp.port /\ udp' = [udp EXCEPT !.got = TRUE, !.data = p.ask]
    BY <1>9 DEF UdpTaken
  <2>3. /\ udp' \in [port : Nat, got : BOOLEAN, data : Nat] /\ udp'.port = udp.port
        /\ udp' = udp \/ (p.id = udp.port /\ udp'.data = p.ask)
    BY <1>6, <2>1, <2>2
  <2>4. SameCall
    BY <1>2, <1>9 DEF SameCall
  <2>5. InTransit'
    BY <1>1, <1>2, <1>3, <2>4, TransitKeeps DEF InTransit, NewPages
  <2>6. Numbers' /\ OwnAnswer'
    BY <1>1, <1>2, <1>9, <2>3 DEF Numbers, Query, OwnAnswer
  <2>7. ASSUME InCall("dns"), stack[1].st = "wait", udp'.got
        PROVE  udp'.data = stack[1].ask /\ udp'.data \in echoed
    <3>1. udp.port = stack[1].id /\ (udp.got => udp.data = stack[1].ask /\ udp.data \in echoed)
      BY <1>1, <2>7 DEF Waits
    <3>2. CASE udp' = udp
      BY <2>7, <3>1, <3>2
    <3>3. CASE p.id = udp.port /\ udp'.data = p.ask
      <4>1. p.id = stack[1].id
        BY <3>1, <3>3
      <4>2. p.ask = stack[1].ask
        BY <2>1, <2>7, <4>1 DEF TrueQuery
      <4> QED BY <2>1, <3>3, <4>2
    <3> QED BY <2>3, <3>2, <3>3
  <2>8. Waits'
    BY <1>1, <1>2, <1>9, <2>3, <2>7 DEF Waits, InCall, Query
  <2> QED BY <2>5, <2>6, <2>8 DEF AnswerInv
<1> QED BY <1>5, <1>7, <1>8, <1>9

\* A handler that waits is above the call in progress.
LEMMA NestedMoves ==
  ASSUME AnswerInv, DispatchNested
  PROVE  AnswerInv'
<1>1. Numbers /\ InTransit /\ Waits /\ OwnAnswer
  BY DEF AnswerInv
<1>2. /\ stack # << >> /\ ping' = ping /\ udp' = udp /\ port' = port /\ calls' = calls
      /\ last' = last /\ echoed' = echoed /\ out' = out /\ ring' = ring /\ tail' = tail
      /\ page' = page /\ curr' = curr /\ bndry' = bndry /\ head' = head
  BY DEF DispatchNested, card, rx
<1>3. PICK p \in Packets : /\ p = ring[head] /\ asked' = asked \cup {Route(p.src)}
  <2>1. ring[head] # NoPacket
    BY DEF DispatchNested, Kind
  <2>2. TruePacket(ring[head])
    BY <1>1, <2>1 DEF InTransit
  <2> QED BY <2>2 DEF DispatchNested, AskArp, TruePacket
<1>4. PICK g \in Calls : stack' = Append(stack, g) /\ g.op = "echo"
  <2>1. PICK g : g = [op |-> "echo", dst |-> p.src, id |-> p.id, ask |-> 0, st |-> "arp",
                      poll |-> "no"]
    OBVIOUS
  <2>2. g \in Calls /\ g.op = "echo"
    BY <2>1 DEF Calls, Packets
  <2>3. stack' = Append(stack, g)
    BY <1>3, <2>1 DEF DispatchNested
  <2> QED BY <2>2, <2>3
<1>5. /\ stack \in Seq(Calls) /\ stack' \in Seq(Calls) /\ stack'[1] = stack[1]
  <2>1. stack \in Seq(Calls) /\ Len(stack) \in Nat /\ Len(stack) > 0
    BY <1>1, <1>2, StackFacts DEF Waits
  <2>2. 1 \in 1..Len(stack)
    BY <2>1
  <2> QED BY <1>4, <2>1, <2>2, AppendProperties
<1>6. Below /\ SameCall
  BY <1>1, <1>2, <1>4, <1>5, BelowFacts
<1>7. asked' \subseteq Hosts
  BY <1>1, <1>3, NetAssumption DEF InTransit, Route, Hosts, Packets
<1>8. InTransit'
  BY <1>1, <1>2, <1>6, <1>7, TransitKeeps DEF InTransit, NewPages
<1>9. Numbers' /\ OwnAnswer'
  BY <1>1, <1>2 DEF Numbers, Query, OwnAnswer
<1>10. Waits'
  BY <1>1, <1>2, <1>5, <1>6 DEF Waits, Below, SameCall, InCall, Query
<1> QED BY <1>8, <1>9, <1>10 DEF AnswerInv

\* The frame of a call, and udp_recv.
LEMMA LeaveFacts ==
  ASSUME NEW f \in Calls, f.op # "echo", NEW mac, Numbers
  PROVE  /\ \A x \in Leaves(f, mac) : x \in out \/ (/\ x.op = f.op /\ x.dst = f.dst
                                                    /\ x.id = f.id /\ x.ask = f.ask)
         /\ Receiving(f) \in [port : Nat, got : BOOLEAN, data : Nat]
         /\ f.op = "dns" => Receiving(f).port = f.id /\ ~Receiving(f).got
<1>1. \A x \in Leaves(f, mac) : x \in out \/ (/\ x.op = f.op /\ x.dst = f.dst
                                              /\ x.id = f.id /\ x.ask = f.ask)
  BY DEF Leaves, Ne2000Send
<1>2. f.id \in Nat /\ udp \in [port : Nat, got : BOOLEAN, data : Nat]
  BY DEF Calls, Numbers
<1>3. PICK u : u = Receiving(f)
  OBVIOUS
<1>4. CASE f.op = "dns"
  <2>1. u = [udp EXCEPT !.port = f.id, !.got = FALSE]
    BY <1>3, <1>4 DEF Receiving
  <2>2. u \in [port : Nat, got : BOOLEAN, data : Nat] /\ u.port = f.id /\ u.got = FALSE
    BY <1>2, <2>1
  <2> QED BY <1>1, <1>3, <2>2
<1>5. CASE f.op # "dns"
  BY <1>1, <1>2, <1>5 DEF Receiving
<1> QED BY <1>4, <1>5

\* A call that returns to the dispatch that made it, or to the shell without success.
LEMMA BackMoves ==
  ASSUME AnswerInv, stack # << >>, NEW r, Back(r), Len(stack) > 1 \/ r.ok = FALSE,
         ping' = ping, udp' = udp, port' = port, calls' = calls, echoed' = echoed,
         out' = out, asked' = asked, page' = page, curr' = curr, bndry' = bndry,
         ring' = ring, tail' = tail
  PROVE  AnswerInv'
<1>1. Numbers /\ InTransit /\ Waits /\ OwnAnswer
  BY DEF AnswerInv
<1>2. /\ Len(stack) \in Nat /\ Len(stack) > 0 /\ Top \in Calls
  BY <1>1, StackFacts
<1>3. stack' = Front(stack)
  BY DEF Back
<1>4. /\ stack' \in Seq(Calls) /\ Len(stack') = Len(stack) - 1
      /\ \A i \in 1..(Len(stack) - 1) : stack'[i] = stack[i]
  BY <1>1, <1>2, <1>3, TopFacts
<1>5. Below /\ SameCall
  BY <1>1, <1>3, <1>4, BelowFacts
<1>6. stack' # << >> => stack'[1] = stack[1]
  <2>1. ASSUME stack' # << >> PROVE 1 \in 1..(Len(stack) - 1)
    BY <1>2, <1>4, <2>1, EmptySeq
  <2> QED BY <1>4, <2>1
<1>7. head' \in Slots
  BY <1>1, SlotAfter DEF InTransit, Back
<1>8. InTransit'
  BY <1>1, <1>5, <1>7, TransitKeeps DEF InTransit, NewPages
<1>9. OwnAnswer'
  <2>1. last' = last \/ last'.ok = FALSE
    BY DEF Back
  <2> QED BY <1>1, <2>1 DEF OwnAnswer
<1>10. Numbers'
  BY <1>1 DEF Numbers, Query
<1>11. Waits'
  BY <1>1, <1>4, <1>5, <1>6 DEF Waits, Below, SameCall, InCall, Query
<1> QED BY <1>8, <1>9, <1>10, <1>11 DEF AnswerInv

LEMMA TimeoutMoves ==
  ASSUME AnswerInv, ArpTimeout
  PROVE  AnswerInv'
<1>1. /\ stack # << >> /\ ping' = ping /\ udp' = udp /\ port' = port /\ calls' = calls
      /\ echoed' = echoed /\ out' = out /\ asked' = asked /\ ring' = ring /\ tail' = tail
      /\ page' = page /\ curr' = curr /\ bndry' = bndry
  BY DEF ArpTimeout, wire, card
<1>2. PICK r : r = Result(FALSE) /\ Back(r)
  BY DEF ArpTimeout
<1>3. r.ok = FALSE
  BY <1>2 DEF Result
<1> QED BY <1>1, <1>2, <1>3, BackMoves

\* The frame leaves, and the call waits for the answer to it.
LEMMA ResolvedMoves ==
  ASSUME AnswerInv, ArpResolved
  PROVE  AnswerInv'
<1>1. Numbers /\ InTransit /\ Waits /\ OwnAnswer
  BY DEF AnswerInv
<1>2. /\ stack # << >> /\ ping' = ping /\ port' = port /\ calls' = calls
      /\ echoed' = echoed /\ asked' = asked /\ ring' = ring /\ tail' = tail
      /\ page' = page /\ curr' = curr /\ bndry' = bndry /\ out' = Leaves(Top, replyMac)
  BY DEF ArpResolved, card
<1>3. Top \in Calls /\ Top = stack[Len(stack)]
  BY <1>1, <1>2, StackFacts
<1>4. CASE Top.op = "echo"
  <2>1. Len(stack) > 1
    BY <1>1, <1>2, <1>4, StackFacts
  <2>2. udp' = udp /\ out' = out /\ Back(Result(TRUE))
    BY <1>2, <1>4 DEF ArpResolved, Leaves
  <2> QED BY <1>2, <2>1, <2>2, BackMoves
<1>5. CASE Top.op # "echo"
  <2>1. Len(stack) = 1 /\ stack[1] = Top
    BY <1>1, <1>2, <1>3, <1>5, StackFacts
  <2>2. PICK g : g = [Top EXCEPT !.st = "wait"] /\ stack' = WithTop(g)
    BY <1>5 DEF ArpResolved
  <2>3. g \in Calls /\ g.op = Top.op /\ g.id = Top.id /\ g.ask = Top.ask /\ g.st = "wait"
    BY <1>3, <2>2 DEF Calls
  <2>4. stack' \in Seq(Calls) /\ stack' # << >> /\ stack'[1] = g
    BY <1>1, <1>2, <2>1, <2>2, <2>3, TopFacts
  <2>5. Below /\ SameCall
    BY <1>1, <1>2, <2>2, <2>3, <2>4, BelowFacts
  <2>6. udp' = Receiving(Top) /\ last' = last /\ head' = head
    BY <1>5 DEF ArpResolved
  <2>7. /\ udp' \in [port : Nat, got : BOOLEAN, data : Nat]
        /\ Top.op = "dns" => udp'.port = Top.id /\ ~udp'.got
        /\ \A x \in out' : x \in out \/ (/\ x.op = Top.op /\ x.dst = Top.dst
                                         /\ x.id = Top.id /\ x.ask = Top.ask)
    BY <1>1, <1>2, <1>3, <1>5, <2>6, LeaveFacts
  <2>8. ASSUME NEW x \in out', x \notin out PROVE TrueFrame(x)'
    <3>1. /\ x.op = Top.op /\ x.dst = Top.dst /\ x.id = Top.id /\ x.ask = Top.ask
      BY <2>7, <2>8
    <3>2. Query' = Query
      BY <1>2 DEF Query
    <3>3. x.op \in {"ping", "dns"} /\ x.dst \in Hosts /\ x.id \in Nat /\ x.ask \in Nat
      BY <1>3, <1>5, <3>1 DEF Calls
    <3>4. x.op = "dns" => x.id \in 1..(Query - 1)
      BY <1>1, <1>2, <2>1, <3>1 DEF Waits, InCall
    <3>5. x.op = "ping" => x.id = ping.id /\ ping.id > 0
      BY <1>1, <1>2, <2>1, <3>1 DEF Waits, InCall
    <3>6. x.op = "ping" => TruePing(x.id, x.ask)'
      <4>1. SUFFICES ASSUME x.op = "ping" PROVE TruePing(x.id, x.ask)'
        OBVIOUS
      <4>2. x.id \in 1..ping.id
        BY <3>3, <3>5, <4>1 DEF Numbers
      <4> QED BY <1>2, <2>3, <2>4, <3>1, <4>2 DEF TruePing
    <3>7. x.op = "dns" => TrueQuery(x.id, x.ask)'
      BY <1>2, <2>3, <2>4, <3>1, <3>2, <3>4 DEF TrueQuery
    <3> QED BY <3>3, <3>6, <3>7 DEF TrueFrame
  <2>9. InTransit'
    BY <1>1, <1>2, <2>5, <2>6, <2>8, TransitKeeps DEF InTransit, NewPages
  <2>10. Numbers' /\ OwnAnswer'
    BY <1>1, <1>2, <2>6, <2>7 DEF Numbers, Query, OwnAnswer
  <2>11. Waits'
    BY <1>1, <1>2, <2>1, <2>3, <2>4, <2>5, <2>7 DEF Waits, Below, SameCall, InCall, Query
  <2> QED BY <2>9, <2>10, <2>11 DEF AnswerInv
<1> QED BY <1>4, <1>5

\* The loops of net_ping and udp_recv end.
LEMMA ReturnsMove ==
  ASSUME AnswerInv, PingReturns \/ DnsReturns
  PROVE  AnswerInv'
<1>1. Numbers /\ InTransit /\ Waits /\ OwnAnswer
  BY DEF AnswerInv
<1>2. /\ stack # << >> /\ stack' = << >> /\ ping' = ping /\ port' = port /\ calls' = calls
      /\ echoed' = echoed /\ out' = out /\ asked' = asked /\ ring' = ring /\ tail' = tail
      /\ page' = page /\ curr' = curr /\ bndry' = bndry /\ head' = head
      /\ Top.st = "wait" /\ Top.op \in {"ping", "dns"}
  BY DEF PingReturns, DnsReturns, wire, card, rx
<1>3. Len(stack) = 1 /\ Top = stack[1]
  BY <1>1, <1>2, StackFacts
<1>4. << >> \in Seq(Calls) /\ Len(<< >>) = 0
  OBVIOUS
<1>5. SameCall
  BY <1>2 DEF SameCall
<1>6. InTransit'
  BY <1>1, <1>2, <1>5, TransitKeeps DEF InTransit, NewPages
<1>7. Waits'
  BY <1>2, <1>4 DEF Waits, InCall
<1>8. udp' \in [port : Nat, got : BOOLEAN, data : Nat]
  <2>1. udp' = udp \/ udp' = [udp EXCEPT !.got = FALSE]
    BY DEF PingReturns, DnsReturns
  <2> QED BY <1>1, <2>1 DEF Numbers
<1>9. Numbers'
  BY <1>1, <1>2, <1>8 DEF Numbers, Query
<1>10. OwnAnswer'
  <2>1. CASE PingReturns
    <3>1. last'.ok = ping.ok /\ last'.op = "ping" /\ last'.ask = stack[1].ask
      BY <1>3, <2>1 DEF PingReturns, Result
    <3>2. ping.ok => stack[1].ask \in echoed
      BY <1>1, <1>2, <1>3, <2>1 DEF Waits, InCall, PingReturns
    <3> QED BY <1>2, <3>1, <3>2 DEF OwnAnswer
  <2>2. CASE DnsReturns
    <3>1. PICK found \in BOOLEAN : last' = Result(udp.got /\ found)
      BY <2>2 DEF DnsReturns
    <3>2. /\ last'.ok = (udp.got /\ found) /\ last'.op = "dns" /\ last'.ask = stack[1].ask
          /\ last'.data = udp.data
      BY <1>3, <2>2, <3>1 DEF DnsReturns, Result
    <3>3. udp.got => udp.data = stack[1].ask /\ udp.data \in echoed
      BY <1>1, <1>2, <1>3, <2>2 DEF Waits, InCall, DnsReturns
    <3> QED BY <1>2, <3>2, <3>3 DEF OwnAnswer
  <2> QED BY <2>1, <2>2
<1> QED BY <1>6, <1>7, <1>9, <1>10 DEF AnswerInv

\* The hosts.
LEMMA ArriveFacts ==
  ASSUME InTransit, NEW p, TruePacket(p)', Arrives(p)
  PROVE  curr' \in Pages /\ bndry' \in Nat /\ NewPages
<1>1. curr \in Pages /\ bndry \in Nat
  BY DEF InTransit
<1>2. CASE HasRoom
  <2>1. PICK n \in 1..MaxPages : CardTakes(p, n)
    BY <1>2, SizeFacts DEF Arrives
  <2>2. n \in Nat /\ n < PSTOP
    BY RingFacts
  <2>3. PICK h : h = [no |-> accepted + 1, packet |-> p, next |-> PageOn(curr, n)]
    OBVIOUS
  <2>4. h.packet = p /\ h.next = PageOn(curr, n)
    BY <2>3
  <2>5. PageOn(curr, n) \in Pages /\ PageOn(curr, n) \in Nat
    BY <1>1, <2>2, RingFacts DEF PageOn, Pages
  <2>6. TruePage(h)' /\ TruePage(Body)'
    BY <2>4, <2>5 DEF TruePage
  <2>7. PICK v : v = page'
    OBVIOUS
  <2>8. v = [i \in Pages |-> IF i = curr THEN h
              ELSE IF \E k \in 1..(n - 1) : i = PageOn(curr, k) THEN Body ELSE page[i]]
    BY <2>1, <2>3, <2>7 DEF CardTakes
  <2>9. v = [i \in Pages |-> v[i]] /\ \A i \in Pages : v[i] \in {h, Body, page[i]}
    BY <2>8
  <2>10. NewPages
    BY <2>6, <2>7, <2>9 DEF NewPages
  <2> QED BY <1>1, <2>1, <2>5, <2>10 DEF CardTakes
<1>3. CASE ~HasRoom
  BY <1>1, <1>3 DEF Arrives, card, NewPages
<1> QED BY <1>2, <1>3

LEMMA HostsMove ==
  ASSUME AnswerInv,
         \/ \E h \in Hosts : HostAnswersArp(h) \/ HostSends(h)
         \/ \E f \in out : HostTakes(f)
  PROVE  AnswerInv'
<1>1. Numbers /\ InTransit /\ Waits /\ OwnAnswer
  BY DEF AnswerInv
<1>2. /\ ping' = ping /\ udp' = udp /\ port' = port /\ calls' = calls /\ last' = last
      /\ ring' = ring /\ tail' = tail /\ head' = head /\ stack' = stack
      /\ echoed \subseteq echoed' /\ out' \subseteq out /\ asked' \subseteq asked
  BY DEF HostAnswersArp, HostSends, HostTakes, Own, rx
<1>3. SameCall
  BY <1>2 DEF SameCall
<1>4. /\ \A p : TruePacket(p) => TruePacket(p)'
      /\ \A f : TrueFrame(f) => TrueFrame(f)'
  BY <1>3, StaysTrue
<1>5. \/ UNCHANGED card
      \/ \E p \in Packets : TruePacket(p)' /\ Arrives(p)
  <2>1. ASSUME NEW op \in {"arpReq", "arpRep", "echoReq"}, NEW h \in Hosts,
               Arrives(Packet(op, h, 0, 0))
        PROVE  \E p \in Packets : TruePacket(p)' /\ Arrives(p)
    <3>1. PICK p : p = Packet(op, h, 0, 0)
      OBVIOUS
    <3>2. p \in Packets /\ p.op = op
      BY <3>1 DEF Packet, Packets
    <3>3. TruePacket(p)'
      BY <3>2 DEF TruePacket
    <3> QED BY <2>1, <3>1, <3>2, <3>3
  <2>2. ASSUME NEW h \in Hosts, HostAnswersArp(h) \/ HostSends(h)
        PROVE  \E p \in Packets : TruePacket(p)' /\ Arrives(p)
    BY <2>1, <2>2 DEF HostAnswersArp, HostSends
  <2>3. ASSUME NEW f \in out, HostTakes(f), f.mac = Route(f.dst)
        PROVE  \E p \in Packets : TruePacket(p)' /\ Arrives(p)
    <3>1. TrueFrame(f) /\ TrueFrame(f)'
      BY <1>1, <1>4 DEF InTransit
    <3>2. f.ask \in echoed'
      BY <2>3 DEF HostTakes
    <3>3. PICK p : p = (IF f.op = "ping" THEN Packet("echoRep", f.dst, f.id, f.ask)
                        ELSE Packet("udp", f.dst, f.id, f.ask))
      OBVIOUS
    <3>4. Arrives(p)
      BY <2>3, <3>3 DEF HostTakes
    <3>5. /\ p \in Packets /\ p.id = f.id /\ p.ask = f.ask
          /\ p.op = IF f.op = "ping" THEN "echoRep" ELSE "udp"
      BY <3>1, <3>3 DEF Packet, Packets, TrueFrame
    <3>6. f.op = "ping" => TruePing(f.id, f.ask)'
      BY <3>1 DEF TrueFrame
    <3>7. f.op # "ping" => TrueQuery(f.id, f.ask)'
      BY <3>1 DEF TrueFrame
    <3>8. TruePacket(p)'
      BY <3>2, <3>5, <3>6, <3>7 DEF TruePacket
    <3> QED BY <3>4, <3>5, <3>8
  <2>4. ASSUME NEW f \in out, HostTakes(f), f.mac # Route(f.dst)
        PROVE  UNCHANGED card
    BY <2>4 DEF HostTakes
  <2> QED BY <2>2, <2>3, <2>4
<1>6. curr' \in Pages /\ bndry' \in Nat /\ NewPages
  <2>1. CASE UNCHANGED card
    BY <1>1, <2>1 DEF card, InTransit, NewPages
  <2>2. CASE \E p \in Packets : TruePacket(p)' /\ Arrives(p)
    BY <1>1, <2>2, ArriveFacts
  <2> QED BY <1>5, <2>1, <2>2
<1>7. InTransit'
  <2>1. tail' \in Slots /\ head' \in Slots /\ asked' \subseteq Hosts
    BY <1>1, <1>2 DEF InTransit
  <2>2. \A f \in out' : f \in out
    BY <1>2
  <2> QED BY <1>1, <1>2, <1>3, <1>6, <2>1, <2>2, TransitKeeps
<1>8. Numbers' /\ Waits'
  BY <1>1, <1>2 DEF Numbers, Waits, InCall, Query
<1>9. OwnAnswer'
  BY <1>1, <1>2 DEF OwnAnswer
<1> QED BY <1>7, <1>8, <1>9 DEF AnswerInv

\* A new call has an id, or a port, that nothing in transit has.
LEMMA CallMoves ==
  ASSUME PingsFit, AnswerInv, NEW op \in {"ping", "dns"}, NEW dst \in Hosts, Call(op, dst)
  PROVE  AnswerInv'
<1>1. Numbers /\ InTransit /\ Waits /\ OwnAnswer
  BY DEF AnswerInv
<1>2. /\ stack = << >> /\ calls < MaxCalls /\ calls' = calls + 1 /\ last' = last
      /\ echoed' = echoed /\ ring' = ring /\ tail' = tail /\ head' = head
      /\ page' = page /\ curr' = curr /\ bndry' = bndry
  BY DEF Call, card, rx
<1>3. PICK n \in Nat : /\ n = (IF op = "dns" THEN port ELSE NextPing.id)
                       /\ op = "ping" => /\ n = ping.id + 1 /\ ping'.id = n /\ ping'.ok = FALSE
                                         /\ ping' \in [id : Nat, ok : BOOLEAN]
                                         /\ port' = port /\ Query' = Query
                       /\ op = "dns" => n = Query /\ Query' = n + 1 /\ n > 0
                                        /\ ping' = ping /\ port' \in 0..Ports
  <2>1. CASE op = "ping"
    <3>1. PICK i \in Nat : i = ping.id /\ i + 1 < Byte
      BY <1>1, <1>2, NetAssumption DEF Numbers, PingsFit
    <3>2. PICK b \in Nat : b = Byte * Byte /\ i + 1 < b
      <4>1. Byte * Byte \in Nat /\ Byte * Byte >= Byte
        BY NetAssumption
      <4> QED BY <3>1, <4>1, NetAssumption
    <3>3. (i + 1) % b = i + 1
      BY <3>2
    <3>4. NextPing = [id |-> i + 1, ok |-> FALSE]
      BY <3>1, <3>2, <3>3 DEF NextPing
    <3>5. ping' = NextPing /\ port' = port
      BY <2>1 DEF Call
    <3>6. NextPing.id = i + 1
      BY <3>4
    <3>7. /\ ping'.id = i + 1 /\ ping'.ok = FALSE /\ ping' \in [id : Nat, ok : BOOLEAN]
      BY <3>4, <3>5
    <3>8. Query' = Query
      BY <3>5 DEF Query
    <3> QED BY <2>1, <3>1, <3>5, <3>6, <3>7, <3>8
  <2>2. CASE op = "dns"
    <3>1. Query <= calls + 1 /\ calls + 1 <= Ports - 1 /\ port \in 0..Ports /\ Ports \in Nat
          /\ calls \in Nat
      BY <1>1, <1>2, NetAssumption DEF Numbers
    <3>2. port # 0 /\ Query = port /\ port <= Ports - 1
      BY <3>1 DEF Query
    <3>3. port' = (port + 1) % Ports /\ ping' = ping
      BY <2>2 DEF Call
    <3>4. port' = IF port = Ports - 1 THEN 0 ELSE port + 1
      BY <3>1, <3>2, <3>3
    <3>5. Query' = port + 1 /\ port' \in 0..Ports
      BY <3>1, <3>2, <3>4 DEF Query
    <3> QED BY <2>2, <3>1, <3>2, <3>3, <3>5
  <2> QED BY <2>1, <2>2
<1>4. PICK f \in Calls :
        /\ f.op = op /\ f.dst = dst /\ f.id = n /\ f.ask = calls + 1 /\ f.st = "wait"
        /\ \/ /\ \E i \in Entries(Route(dst)) : out' = Leaves(f, cache[i].mac)
              /\ stack' = <<f>> /\ udp' = Receiving(f) /\ asked' = asked
           \/ /\ stack' = <<[f EXCEPT !.st = "arp"]>> /\ out' = out /\ udp' = udp
              /\ asked' = asked \cup {Route(dst)}
  <2>1. PICK f : f = [op |-> op, dst |-> dst, id |-> n, ask |-> calls + 1, st |-> "wait",
                      poll |-> "no"]
    OBVIOUS
  <2>2. calls + 1 \in Nat
    BY <1>1, NetAssumption DEF Numbers
  <2>3. f \in Calls /\ f.op = op /\ f.dst = dst /\ f.id = n /\ f.ask = calls + 1
        /\ f.st = "wait"
    BY <1>3, <2>1, <2>2 DEF Calls
  <2>4. \/ /\ \E i \in Entries(Route(dst)) : out' = Leaves(f, cache[i].mac)
           /\ stack' = <<f>> /\ udp' = Receiving(f) /\ asked' = asked
        \/ /\ stack' = <<[f EXCEPT !.st = "arp"]>> /\ out' = out /\ udp' = udp
           /\ asked' = asked \cup {Route(dst)}
    BY <1>3, <2>1 DEF Call, AskArp
  <2> QED BY <2>3, <2>4
<1>5. PICK g \in Calls :
        /\ stack' = <<g>> /\ g.op = op /\ g.id = n /\ g.ask = calls + 1
        /\ g.st = "wait" => udp' = Receiving(f)
  <2>1. PICK h : h = [f EXCEPT !.st = "arp"]
    OBVIOUS
  <2>2. h \in Calls /\ h.op = op /\ h.id = n /\ h.ask = calls + 1 /\ h.st = "arp"
    BY <1>4, <2>1 DEF Calls
  <2> QED BY <1>4, <2>1, <2>2
<1>6. stack' \in Seq(Calls) /\ stack' # << >> /\ Len(stack') = 1 /\ stack'[1] = g
  BY <1>5
<1>7. Query \in Nat /\ Query > 0 /\ ping.id \in Nat /\ calls \in Nat /\ calls + 1 <= MaxCalls
  BY <1>1, <1>2, NetAssumption DEF Numbers, Query
<1>8. ASSUME NEW id, NEW ask, TruePing(id, ask) PROVE TruePing(id, ask)'
  <2>1. id \in 1..ping.id
    BY <1>8 DEF TruePing
  <2>2. CASE op = "ping"
    <3>1. id \in 1..ping'.id /\ id # ping'.id
      BY <1>3, <1>7, <2>1, <2>2
    <3> QED BY <3>1 DEF TruePing
  <2>3. CASE op = "dns"
    BY <1>3, <1>5, <1>6, <2>1, <2>3 DEF TruePing, InCall
  <2> QED BY <2>2, <2>3
<1>9. ASSUME NEW id, NEW ask, TrueQuery(id, ask) PROVE TrueQuery(id, ask)'
  <2>1. id \in 1..(Query - 1)
    BY <1>9 DEF TrueQuery
  <2>2. CASE op = "dns"
    <3>1. id \in 1..(Query' - 1) /\ id # stack'[1].id
      BY <1>3, <1>5, <1>6, <1>7, <2>1, <2>2
    <3> QED BY <3>1 DEF TrueQuery
  <2>3. CASE op = "ping"
    BY <1>3, <1>5, <1>6, <2>1, <2>3 DEF TrueQuery, InCall
  <2> QED BY <2>2, <2>3
<1>10. /\ \A p : TruePacket(p) => TruePacket(p)'
       /\ \A x : TrueFrame(x) => TrueFrame(x)'
  BY <1>2, <1>8, <1>9 DEF TruePacket, TrueFrame
<1>11. /\ \A mac : \A x \in Leaves(f, mac) :
            x \in out \/ (x.op = op /\ x.dst = dst /\ x.id = n /\ x.ask = calls + 1)
       /\ Receiving(f) \in [port : Nat, got : BOOLEAN, data : Nat]
       /\ op = "dns" => Receiving(f).port = n /\ ~Receiving(f).got
  BY <1>1, <1>4, LeaveFacts
<1>12. ASSUME NEW x \in out', x \notin out PROVE TrueFrame(x)'
  <2>1. x.op = op /\ x.dst = dst /\ x.id = n /\ x.ask = calls + 1
    BY <1>4, <1>11, <1>12
  <2>2. op = "ping" => TruePing(x.id, x.ask)'
    <3>1. op = "ping" => n \in 1..ping'.id
      BY <1>3, <1>7
    <3> QED BY <1>5, <1>6, <2>1, <3>1 DEF TruePing
  <2>3. op = "dns" => TrueQuery(x.id, x.ask)'
    <3>1. op = "dns" => n \in 1..(Query' - 1)
      BY <1>3, <1>7
    <3> QED BY <1>5, <1>6, <2>1, <3>1 DEF TrueQuery
  <2>4. calls + 1 \in Nat
    BY <1>7
  <2> QED BY <1>3, <2>1, <2>2, <2>3, <2>4 DEF TrueFrame
<1>13. InTransit'
  <2>1. asked' \subseteq Hosts
    BY <1>1, <1>4, NetAssumption DEF InTransit, Route, Hosts
  <2>2. /\ curr' \in Pages /\ bndry' \in Nat /\ tail' \in Slots /\ head' \in Slots
    BY <1>1, <1>2 DEF InTransit
  <2> QED BY <1>1, <1>2, <1>10, <1>12, <2>1, <2>2, TransitStep DEF NewPages
<1>14. Numbers'
  <2>1. udp' \in [port : Nat, got : BOOLEAN, data : Nat]
    BY <1>1, <1>4, <1>11 DEF Numbers
  <2>2. calls' \in 0..MaxCalls
    BY <1>2, <1>7, NetAssumption
  <2>3. ping' \in [id : Nat, ok : BOOLEAN] /\ ping'.id <= calls' /\ port' \in 0..Ports
        /\ Query' <= calls' + 1
    BY <1>1, <1>2, <1>3, <1>7 DEF Numbers
  <2> QED BY <2>1, <2>2, <2>3 DEF Numbers
<1>15. OwnAnswer'
  BY <1>1, <1>2 DEF OwnAnswer
<1>16. Waits'
  <2>1. \A i \in 1..Len(stack') : stack'[i].op = "echo" <=> i # 1
    BY <1>5, <1>6
  <2>2. op = "ping" => stack'[1].id = ping'.id /\ ping'.id > 0 /\ ping'.ok = FALSE
    BY <1>3, <1>5, <1>6, <1>7
  <2>3. op = "dns" => /\ stack'[1].id \in 1..(Query' - 1)
                      /\ stack'[1].st = "wait" => udp'.port = stack'[1].id /\ ~udp'.got
    <3>1. op = "dns" => n \in 1..(Query' - 1)
      BY <1>3, <1>7
    <3> QED BY <1>5, <1>6, <1>11, <3>1
  <2> QED BY <1>5, <1>6, <2>1, <2>2, <2>3 DEF Waits, InCall
<1> QED BY <1>13, <1>14, <1>15, <1>16 DEF AnswerInv

LEMMA InitAnswers == Init => AnswerInv
<1> SUFFICES ASSUME Init PROVE AnswerInv
  OBVIOUS
<1>1. Numbers
  BY NetAssumption DEF Init, Numbers, Query
<1>2. InTransit
  <2>1. 1 \in Pages /\ 0 \in Pages /\ 0 \in Slots
    BY Ne2000Assumption, NetAssumption DEF Pages, Slots
  <2> QED BY <2>1 DEF Init, CardInit, InTransit, TruePage
<1>3. Waits /\ OwnAnswer
  BY DEF Init, Waits, InCall, OwnAnswer
<1> QED BY <1>1, <1>2, <1>3 DEF AnswerInv

LEMMA AnswersStep ==
  ASSUME PingsFit, AnswerInv, [Next]_vars
  PROVE  AnswerInv'
<1>1. CASE NetPing
  BY <1>1, CallMoves DEF NetPing
<1>2. CASE DnsResolve
  <2>1. DnsServer \in Hosts
    BY NetAssumption DEF Hosts
  <2> QED BY <1>2, <2>1, CallMoves DEF DnsResolve
<1>3. CASE PollStart \/ CardEmpty \/ PollEnd
  BY <1>3, PollMoves
<1>4. CASE NetRx
  BY <1>4, RxMoves
<1>5. CASE Dispatch
  BY <1>5, DispatchMoves
<1>6. CASE DispatchNested
  BY <1>6, NestedMoves
<1>7. CASE ArpResolved
  BY <1>7, ResolvedMoves
<1>8. CASE ArpTimeout
  BY <1>8, TimeoutMoves
<1>9. CASE PingReturns \/ DnsReturns
  BY <1>9, ReturnsMove
<1>10. CASE \/ \E h \in Hosts : HostAnswersArp(h) \/ HostSends(h)
            \/ \E f \in out : HostTakes(f)
  BY <1>10, HostsMove
<1>11. CASE UNCHANGED vars
  <2>1. /\ ping' = ping /\ udp' = udp /\ port' = port /\ calls' = calls /\ last' = last
        /\ ring' = ring /\ tail' = tail /\ head' = head /\ stack' = stack
        /\ echoed' = echoed /\ out' = out /\ asked' = asked /\ page' = page
        /\ curr' = curr /\ bndry' = bndry
    BY <1>11 DEF vars, rx, wire, card
  <2>2. SameCall
    BY <2>1 DEF SameCall
  <2>3. InTransit'
    BY <2>1, <2>2, TransitKeeps DEF AnswerInv, InTransit, NewPages
  <2>4. Numbers' /\ Waits' /\ OwnAnswer'
    BY <2>1 DEF AnswerInv, Numbers, Query, Waits, InCall, OwnAnswer
  <2> QED BY <2>3, <2>4 DEF AnswerInv
<1> QED BY <1>1, <1>2, <1>3, <1>4, <1>5, <1>6, <1>7, <1>8, <1>9, <1>10, <1>11 DEF Next

(***************************************************************************)
(* net_ping reports an answer only if the host it went to answered this    *)
(* ping, and dns_resolve a name only from the answer to its own query,     *)
(* however late, often or badly routed answers are and however calls nest: *)
(* as long as there are fewer pings than a byte of ping_id has values, and *)
(* no port is used twice.                                                  *)
(***************************************************************************)
THEOREM AnswersAreOwn ==
  ASSUME PingsFit
  PROVE  Spec => []OwnAnswer
<1>1. AnswerInv /\ [Next]_vars => AnswerInv'
  BY AnswersStep
<1>2. AnswerInv => OwnAnswer
  BY DEF AnswerInv
<1> QED BY <1>1, <1>2, InitAnswers, PTL DEF Spec
-----------------------------------------------------------------------------
(***************************************************************************)
(* The cache, while it is quiet.  Then the receive ring and the card hold  *)
(* one queue: H[n] is the n-th packet that came, d packets were            *)
(* dispatched, those up to given.n are on the ring and those up to         *)
(* accepted on the card.                                                   *)
(***************************************************************************)
Place(h, n) == IF h + n < RX_RING THEN h + n ELSE h + n - RX_RING

Queue(H, d) ==
  /\ head \in Slots /\ ring = [i \in Slots |-> ring[i]]
  /\ d \in Nat /\ d <= given.n /\ given.n <= accepted /\ given.n - d < RX_RING
  /\ tail = Place(head, given.n - d)
  /\ \A n \in (d + 1)..given.n : ring[Place(head, n - d - 1)] = H[n]
  /\ \A p \in Pages : /\ page[p] # NoPacket
                      /\ page[p].no \in (given.n + 1)..accepted
                      => page[p].packet = H[page[p].no]

Known(h) == Entries(h) # {}
TrueCache == /\ cache \in Seq([ip : Neighbours, mac : Neighbours])
             /\ \A i \in 1..Len(cache) : cache[i].mac = cache[i].ip
             /\ \A i, j \in 1..Len(cache) : cache[i].ip = cache[j].ip => i = j

\* Packet n of H is the ARP answer of h.
IsReply(H, n, h) == H[n].op = "arpRep" /\ H[n].src = h

\* An ARP answer under way is the one that is waited for, and no other comes.
Asking(H, d) ==
  IF waiting
  THEN /\ stack # << >> /\ stack[1].st = "arp"
       /\ \/ /\ asked = {Route(stack[1].dst)}
             /\ \A n \in (d + 1)..accepted : H[n].op # "arpRep"
          \/ /\ asked = {}
             /\ \E r \in (d + 1)..accepted :
                  /\ IsReply(H, r, Route(stack[1].dst))
                  /\ \A n \in (d + 1)..accepted : H[n].op = "arpRep" => n = r
  ELSE /\ asked = {} /\ \A n \in (d + 1)..accepted : H[n].op # "arpRep"
       /\ stack # << >> /\ stack[1].st = "arp" => replyMac = Route(stack[1].dst)

\* A host that knows this machine, and so may send to it, is in the cache or will be
\* before what it sends is dispatched.
Heard(H, d) ==
  /\ \A h \in knows : /\ h \in Neighbours
                      /\ Known(h) \/ \E n \in (d + 1)..accepted : IsReply(H, n, h)
  /\ \A n \in (d + 1)..accepted :
       /\ H[n].op = "arpReq" => H[n] # NoPacket /\ H[n].src \in Neighbours
       /\ H[n].op = "arpRep" => H[n] # NoPacket /\ H[n].src \in Neighbours
       /\ H[n].op = "echoReq" =>
            \/ Known(Route(H[n].src))
            \/ \E m \in (d + 1)..(n - 1) : IsReply(H, m, Route(H[n].src))

OneCall == stack # << >> => \E f : stack = <<f>> /\ f.op # "echo"

Calm(H, d) == Queue(H, d) /\ TrueCache /\ Asking(H, d) /\ Heard(H, d) /\ OneCall
CalmInv == quiet /\ CacheFits => \E H, d : Calm(H, d)
CacheInv == RingInv /\ quiet \in BOOLEAN /\ CalmInv

LEMMA RouteFacts == \A h : Route(h) \in Neighbours
  BY NetAssumption DEF Route

LEMMA OneFrame ==
  ASSUME NEW f, stack = <<f>>
  PROVE  /\ Top = f /\ stack[1] = f /\ Len(stack) = 1 /\ stack # << >>
         /\ \A g : WithTop(g) = <<g>>
         /\ Front(stack) = << >>
<1>1. Len(stack) = 1 /\ stack[1] = f /\ stack # << >>
  OBVIOUS
<1>2. Top = f
  BY <1>1 DEF Top, Last
<1>3. Front(stack) = << >>
  BY <1>1 DEF Front
<1>4. \A g : WithTop(g) = <<g>>
  BY <1>3 DEF WithTop
<1> QED BY <1>1, <1>2, <1>3, <1>4

LEMMA PlaceFacts ==
  ASSUME NEW h \in Slots
  PROVE  /\ RX_RING \in Nat /\ RX_RING > 1
         /\ NextSlot(h) = IF h + 1 < RX_RING THEN h + 1 ELSE 0
         /\ NextSlot(h) = Place(h, 1)
         /\ Place(h, 0) = h
<1>1. RX_RING \in Nat /\ RX_RING > 1 /\ h \in Nat /\ h < RX_RING
  BY NetAssumption DEF Slots
<1>2. CASE h + 1 < RX_RING
  BY <1>1, <1>2 DEF NextSlot, Place
<1>3. CASE h + 1 = RX_RING
  BY <1>1, <1>3 DEF NextSlot, Place
<1> QED BY <1>1, <1>2, <1>3 DEF Place

\* A new host finds room in the cache, and a known one changes nothing.
LEMMA CacheGrows ==
  ASSUME CacheFits, TrueCache, NEW h \in Neighbours, cache' = CacheAdd(h, h)
  PROVE  TrueCache' /\ Known(h)' /\ \A x : Known(x) => Known(x)'
<1> DEFINE E == [ip : Neighbours, mac : Neighbours]
           e == [ip |-> h, mac |-> h]
<1>1. /\ cache \in Seq(E) /\ Len(cache) \in Nat /\ DOMAIN cache = 1..Len(cache)
      /\ \A i \in 1..Len(cache) : cache[i] \in E /\ cache[i].mac = cache[i].ip
      /\ \A i, j \in 1..Len(cache) : cache[i].ip = cache[j].ip => i = j
      /\ e \in E
  BY ElementOfSeq, LenProperties DEF TrueCache
<1>2. CASE Entries(h) # {}
  <2>1. \A i \in DOMAIN cache : i \in Entries(h) => cache[i] = e
    <3> SUFFICES ASSUME NEW i \in DOMAIN cache, i \in Entries(h) PROVE cache[i] = e
      OBVIOUS
    <3>1. cache[i] \in E /\ cache[i].mac = cache[i].ip /\ cache[i].ip = h
      BY <1>1 DEF Entries
    <3> QED BY <3>1
  <2>2. cache' = [i \in DOMAIN cache |-> cache[i]]
    BY <1>2, <2>1 DEF CacheAdd
  <2>3. cache' = cache
    BY <1>1, <2>2
  <2> QED BY <1>2, <2>3 DEF TrueCache, Known, Entries
<1>3. CASE Entries(h) = {}
  <2>1. Len(cache) < ARP_CACHE_N
    <3> DEFINE N == Len(cache)
               F == [i \in 1..N |-> cache[i].ip]
               R == Neighbours \ {h}
    <3>1. F \in Injection(1..N, R)
      <4>1. \A i \in 1..N : F[i] \in R
        BY <1>1, <1>3 DEF Entries
      <4>2. \A i, j \in 1..N : F[i] = F[j] => i = j
        BY <1>1
      <4> QED BY <4>1, <4>2 DEF Injection, IsInjective
    <3>2. IsFiniteSet(Neighbours)
      BY NetAssumption
    <3>3. IsFiniteSet(R) /\ Cardinality(R) = Cardinality(Neighbours) - 1
      BY <3>2, FS_RemoveElement
    <3>4. IsFiniteSet(1..N) /\ Cardinality(1..N) = N
      BY <1>1, FS_Interval, SMTT(60)
    <3>5. Cardinality(1..N) <= Cardinality(R)
      BY <3>1, <3>3, FS_Injection DEF ExistsInjection
    <3>6. Cardinality(Neighbours) \in Nat
      BY <3>2, FS_CardinalityType
    <3> QED BY <1>1, <3>3, <3>4, <3>5, <3>6, NetAssumption DEF CacheFits
  <2>2. cache' = Append(cache, e)
    BY <1>3, <2>1 DEF CacheAdd
  <2>3. PICK N \in Nat : N = Len(cache)
    BY <1>1
  <2>4. /\ cache' \in Seq(E) /\ Len(cache') = N + 1 /\ cache'[N + 1] = e
        /\ \A i \in 1..N : cache'[i] = cache[i]
        /\ DOMAIN cache' = 1..(N + 1)
    BY <1>1, <2>2, <2>3, AppendProperties
  <2>5. \A i \in 1..N : cache[i].ip # h
    BY <1>1, <1>3, <2>3 DEF Entries
  <2>6. \A i \in 1..(N + 1) : i \in 1..N \/ i = N + 1
    BY <2>3
  <2>7. \A i \in 1..(N + 1) : cache'[i].mac = cache'[i].ip
    BY <1>1, <2>3, <2>4, <2>6
  <2>8. \A i, j \in 1..(N + 1) : cache'[i].ip = cache'[j].ip => i = j
    BY <1>1, <2>3, <2>4, <2>5, <2>6
  <2>9. Known(h)'
    BY <2>4 DEF Known, Entries
  <2>10. \A x : Known(x) => Known(x)'
    <3> SUFFICES ASSUME NEW x, Known(x) PROVE Known(x)'
      OBVIOUS
    <3>1. PICK i \in 1..N : cache[i].ip = x
      BY <1>1, <2>3 DEF Known, Entries
    <3>2. i \in 1..(N + 1) /\ cache'[i].ip = x
      BY <2>4, <3>1
    <3> QED BY <2>4, <3>2 DEF Known, Entries
  <2> QED BY <2>4, <2>7, <2>8, <2>9, <2>10 DEF TrueCache
<1> QED BY <1>2, <1>3

-----------------------------------------------------------------------------
\* How each step moves the queue.

LEMMA PlaceSteps ==
  ASSUME NEW h \in Slots, NEW k \in Nat, k < RX_RING
  PROVE  /\ Place(h, k) \in Slots
         /\ NextSlot(Place(h, k)) = IF k + 1 < RX_RING THEN Place(h, k + 1) ELSE h
         /\ k > 0 => Place(NextSlot(h), k - 1) = Place(h, k)
         /\ \A j \in Nat : j < RX_RING /\ Place(h, j) = Place(h, k) => j = k
<1>1. RX_RING \in Nat /\ RX_RING > 1 /\ h \in Nat /\ h < RX_RING
  BY NetAssumption DEF Slots
<1>2. Place(h, k) \in Slots
  BY <1>1 DEF Place, Slots
<1>3. /\ NextSlot(h) = IF h + 1 < RX_RING THEN h + 1 ELSE 0
      /\ NextSlot(Place(h, k)) = IF Place(h, k) + 1 < RX_RING THEN Place(h, k) + 1 ELSE 0
  BY <1>2, PlaceFacts
<1>4. NextSlot(Place(h, k)) = IF k + 1 < RX_RING THEN Place(h, k + 1) ELSE h
  <2>1. CASE h + k + 1 < RX_RING
    BY <1>1, <1>3, <2>1 DEF Place
  <2>2. CASE h + k + 1 = RX_RING
    BY <1>1, <1>3, <2>2 DEF Place
  <2>3. CASE h + k + 1 > RX_RING
    BY <1>1, <1>3, <2>3 DEF Place
  <2> QED BY <1>1, <2>1, <2>2, <2>3
<1>5. k > 0 => Place(NextSlot(h), k - 1) = Place(h, k)
  BY <1>1, <1>3 DEF Place
<1>6. \A j \in Nat : j < RX_RING /\ Place(h, j) = Place(h, k) => j = k
  BY <1>1 DEF Place
<1> QED BY <1>2, <1>4, <1>5, <1>6

LEMMA NumberBound ==
  ASSUME RingInv, NEW p \in Pages
  PROVE  page[p] # NoPacket => page[p].no \in Nat /\ page[p].no <= accepted
<1>1. accepted \in Nat
  BY DEF RingInv, CardTypes
<1>2. CASE page[p] = Body
  BY <1>1, <1>2, RingFacts
<1>3. CASE page[p] # Body
  BY <1>1, <1>3 DEF RingInv, CardTypes
<1> QED BY <1>2, <1>3

LEMMA QueueStays ==
  ASSUME NEW H, NEW d, Queue(H, d), UNCHANGED <<rx, card>>
  PROVE  Queue(H, d)'
  BY DEF Queue, rx, card

LEMMA QueueTakes ==
  ASSUME NEW H, NEW d, RingInv, Queue(H, d), TakePacket, ~IsReplay,
         NextSlot(tail) # head, ring' = [ring EXCEPT ![tail] = Polled],
         tail' = NextSlot(tail), head' = head
  PROVE  Queue(H, d)'
<1>1. /\ d \in Nat /\ given.n \in Nat /\ accepted \in Nat /\ head \in Slots
      /\ d <= given.n /\ given.n - d < RX_RING /\ bndry \in Nat
  BY DEF Queue, RingInv, CardTypes
<1>2. PICK k \in Nat : k = given.n - d /\ k < RX_RING /\ tail = Place(head, k)
  BY <1>1 DEF Queue
<1>3. Following \in Pages
  BY <1>1, PollFacts
<1>4. /\ given'.n = given.n + 1 /\ page' = page /\ accepted' = accepted
      /\ page[Following] # NoPacket /\ page[Following].no = given.n + 1
  BY DEF TakePacket, HasPacket, IsReplay
<1>5. given.n + 1 <= accepted
  BY <1>3, <1>4, NumberBound
<1>6. Polled = H[given.n + 1]
  <2>1. page[Following].no \in (given.n + 1)..accepted
    BY <1>1, <1>4, <1>5
  <2> QED BY <1>3, <1>4, <2>1 DEF Queue, Polled
<1>7. k + 1 < RX_RING /\ tail \in Slots /\ tail' = Place(head, k + 1)
  BY <1>1, <1>2, PlaceSteps
<1>8. /\ ring' = [i \in Slots |-> ring'[i]]
      /\ \A i \in Slots : ring'[i] = IF i = tail THEN Polled ELSE ring[i]
  BY <1>7 DEF Queue
<1>9. \A n \in (d + 1)..(given.n + 1) : ring'[Place(head, n - d - 1)] = H[n]
  <2> SUFFICES ASSUME NEW n \in (d + 1)..(given.n + 1)
               PROVE  ring'[Place(head, n - d - 1)] = H[n]
    OBVIOUS
  <2>1. PICK j \in Nat : j = n - d - 1 /\ j <= k
    BY <1>1, <1>2
  <2>2. Place(head, j) \in Slots /\ (Place(head, j) = tail => j = k)
    <3>1. \A i \in Nat : i < RX_RING /\ Place(head, i) = Place(head, k) => i = k
      BY <1>1, <1>2, PlaceSteps
    <3>2. RX_RING \in Nat
      BY <1>1, PlaceFacts
    <3>3. j < RX_RING
      BY <1>2, <2>1, <3>2
    <3>4. Place(head, j) \in Slots
      BY <1>1, <3>3, PlaceSteps
    <3> QED BY <1>2, <3>1, <3>3, <3>4
  <2>3. CASE j = k
    <3>1. n = given.n + 1
      BY <1>1, <1>2, <2>1, <2>3
    <3> QED BY <1>2, <1>6, <1>8, <2>1, <2>2, <2>3, <3>1
  <2>4. CASE j # k
    <3>1. n \in (d + 1)..given.n
      BY <1>1, <1>2, <2>1, <2>4
    <3>2. ring[Place(head, n - d - 1)] = H[n]
      BY <3>1 DEF Queue
    <3> QED BY <1>8, <2>1, <2>2, <2>4, <3>2
  <2> QED BY <2>3, <2>4
<1>10. \A p \in Pages : /\ page'[p] # NoPacket
                        /\ page'[p].no \in (given'.n + 1)..accepted'
                        => page'[p].packet = H[page'[p].no]
  <2>1. \A x : x \in (given'.n + 1)..accepted' => x \in (given.n + 1)..accepted
    BY <1>1, <1>4
  <2> QED BY <1>4, <2>1 DEF Queue
<1>11. given'.n - d < RX_RING /\ d <= given'.n /\ given'.n - d = k + 1
  BY <1>1, <1>2, <1>4, <1>7
<1> QED BY <1>1, <1>4, <1>5, <1>7, <1>8, <1>9, <1>10, <1>11 DEF Queue

LEMMA QueueGrows ==
  ASSUME NEW H, NEW d, NEW x, NEW k \in 1..MaxPages, RingInv, Queue(H, d),
         CardTakes(x, k), UNCHANGED rx
  PROVE  /\ accepted' = accepted + 1 /\ accepted \in Nat /\ d \in Nat /\ d <= accepted
         /\ \E G : /\ Queue(G, d)' /\ G[accepted + 1] = x
                  /\ \A n \in (d + 1)..accepted : G[n] = H[n]
<1>1. /\ d \in Nat /\ given.n \in Nat /\ accepted \in Nat /\ head \in Slots
      /\ d <= given.n /\ given.n <= accepted /\ curr \in Pages
  BY DEF Queue, RingInv, CardTypes
<1>2. /\ page'[curr].no = accepted + 1 /\ page'[curr].packet = x
      /\ \A p \in Pages : p # curr => page'[p] = Body \/ page'[p] = page[p]
      /\ accepted' = accepted + 1 /\ given' = given /\ ring' = ring /\ head' = head
      /\ tail' = tail
  BY CardFacts DEF RingInv, rx
<1>3. PICK G : G = [n \in 1..(accepted + 1) |-> IF n = accepted + 1 THEN x ELSE H[n]]
  OBVIOUS
<1>4. G[accepted + 1] = x /\ \A n \in (d + 1)..accepted : G[n] = H[n] /\ n # accepted + 1
  <2>1. \A n \in (d + 1)..accepted : n \in 1..(accepted + 1) /\ n # accepted + 1
    BY <1>1
  <2>2. accepted + 1 \in 1..(accepted + 1)
    BY <1>1
  <2> QED BY <1>3, <2>1, <2>2
<1>5. \A n \in (d + 1)..given.n : ring[Place(head, n - d - 1)] = G[n]
  <2>1. \A n \in (d + 1)..given.n : n \in (d + 1)..accepted
    BY <1>1
  <2> QED BY <1>4, <2>1 DEF Queue
<1>6. \A p \in Pages : /\ page'[p] # NoPacket
                       /\ page'[p].no \in (given.n + 1)..(accepted + 1)
                       => page'[p].packet = G[page'[p].no]
  <2> SUFFICES ASSUME NEW p \in Pages, page'[p] # NoPacket,
                      page'[p].no \in (given.n + 1)..(accepted + 1)
               PROVE  page'[p].packet = G[page'[p].no]
    OBVIOUS
  <2>1. CASE p = curr
    <3>1. page'[p].no = accepted + 1 /\ page'[p].packet = x
      BY <1>1, <1>2, <2>1
    <3> QED BY <1>4, <3>1
  <2>2. CASE p # curr
    <3>1. page'[p] = page[p]
      <4>1. page'[p] # Body
        BY <1>1, RingFacts
      <4> QED BY <1>2, <2>2, <4>1
    <3>2. page[p].no \in (given.n + 1)..accepted /\ page[p].no \in (d + 1)..accepted
      BY <1>1, <3>1, NumberBound
    <3> QED BY <1>4, <3>1, <3>2 DEF Queue
  <2> QED BY <2>1, <2>2
<1>7. Queue(G, d)'
  <2>1. /\ head' \in Slots /\ ring' = [i \in Slots |-> ring'[i]]
        /\ d <= given'.n /\ given'.n <= accepted' /\ given'.n - d < RX_RING
        /\ tail' = Place(head', given'.n - d)
    BY <1>1, <1>2 DEF Queue
  <2>2. \A n \in (d + 1)..given'.n : ring'[Place(head', n - d - 1)] = G[n]
    BY <1>2, <1>5
  <2>3. \A p \in Pages : /\ page'[p] # NoPacket
                         /\ page'[p].no \in (given'.n + 1)..accepted'
                         => page'[p].packet = G[page'[p].no]
    BY <1>2, <1>6
  <2> QED BY <1>1, <2>1, <2>2, <2>3 DEF Queue
<1> QED BY <1>1, <1>2, <1>4, <1>7

LEMMA QueueShrinks ==
  ASSUME NEW H, NEW d, RingInv, Queue(H, d), head # tail, head' = NextSlot(head),
         UNCHANGED <<ring, tail, card>>
  PROVE  /\ Queue(H, d + 1)' /\ d \in Nat /\ d + 1 \in (d + 1)..accepted
         /\ ring[head] = H[d + 1]
<1>1. /\ d \in Nat /\ given.n \in Nat /\ accepted \in Nat /\ head \in Slots
      /\ d <= given.n /\ given.n <= accepted
      /\ UNCHANGED <<page, given, accepted>>
  BY DEF Queue, RingInv, CardTypes, card
<1>2. PICK k \in Nat : k = given.n - d /\ k < RX_RING /\ tail = Place(head, k)
  BY <1>1 DEF Queue
<1>3. Place(head, 0) = head /\ head' = Place(head, 1) /\ RX_RING > 1 /\ RX_RING \in Nat
  BY <1>1, PlaceFacts
<1>4. k > 0
  BY <1>2, <1>3
<1>5. ring[head] = H[d + 1] /\ d + 1 \in (d + 1)..accepted /\ d + 1 <= given.n
  <2>1. d + 1 \in (d + 1)..given.n /\ (d + 1) - d - 1 = 0 /\ d + 1 \in (d + 1)..accepted
    BY <1>1, <1>2, <1>4
  <2> QED BY <1>3, <2>1 DEF Queue
<1>6. head' \in Slots
  BY <1>1, <1>3, PlaceSteps
<1>7. tail = Place(head', k - 1)
  BY <1>1, <1>2, <1>4, PlaceSteps
<1>8. \A n \in (d + 2)..given.n : ring[Place(head', n - d - 2)] = H[n]
  <2> SUFFICES ASSUME NEW n \in (d + 2)..given.n
               PROVE  ring[Place(head', n - d - 2)] = H[n]
    OBVIOUS
  <2>1. PICK j \in Nat : j = n - d - 1 /\ j > 0 /\ j < RX_RING /\ n \in (d + 1)..given.n
    BY <1>1, <1>2, <1>3
  <2>2. Place(head', j - 1) = Place(head, j)
    BY <1>1, <2>1, PlaceSteps
  <2>3. ring[Place(head, n - d - 1)] = H[n]
    BY <2>1 DEF Queue
  <2>4. n - d - 2 = j - 1
    BY <1>1, <2>1
  <2> QED BY <2>1, <2>2, <2>3, <2>4
<1>9. given'.n - (d + 1) = k - 1 /\ k - 1 < RX_RING
  BY <1>1, <1>2, <1>3
<1>10. \A n \in ((d + 1) + 1)..given'.n : ring'[Place(head', n - (d + 1) - 1)] = H[n]
  <2>1. \A n \in ((d + 1) + 1)..given'.n : n \in (d + 2)..given.n
                                           /\ n - (d + 1) - 1 = n - d - 2
    BY <1>1
  <2> QED BY <1>1, <1>8, <2>1
<1>11. Queue(H, d + 1)'
  <2>1. /\ ring' = [i \in Slots |-> ring'[i]] /\ d + 1 <= given'.n /\ given'.n <= accepted'
        /\ given'.n - (d + 1) < RX_RING /\ tail' = Place(head', given'.n - (d + 1))
        /\ d + 1 \in Nat
    BY <1>1, <1>5, <1>7, <1>9 DEF Queue
  <2>2. \A p \in Pages : /\ page'[p] # NoPacket
                         /\ page'[p].no \in (given'.n + 1)..accepted'
                         => page'[p].packet = H[page'[p].no]
    BY <1>1 DEF Queue
  <2> QED BY <1>6, <1>10, <2>1, <2>2 DEF Queue
<1> QED BY <1>1, <1>5, <1>11

-----------------------------------------------------------------------------
\* How each step keeps Calm.

LEMMA CalmStays ==
  ASSUME NEW H, NEW d, Calm(H, d), Queue(H, d)',
         UNCHANGED <<arp, asked, knows, accepted, stack>>
  PROVE  Calm(H, d)'
  BY DEF Calm, TrueCache, Asking, Heard, OneCall, Known, Entries, IsReply, arp

\* The call in progress polls or goes on waiting.
LEMMA CalmPolls ==
  ASSUME NEW H, NEW d, Calm(H, d), UNCHANGED <<rx, arp, wire>>, stack # << >>,
         NEW w, stack' = WithTop([Top EXCEPT !.poll = w])
  PROVE  Calm(H, d)'
<1>1. PICK f : stack = <<f>> /\ f.op # "echo"
  BY DEF Calm, OneCall
<1>2. PICK g : g = [f EXCEPT !.poll = w]
  OBVIOUS
<1>3. stack' = <<g>> /\ stack[1] = f
  BY <1>1, <1>2, OneFrame
<1>4. stack'[1] = g /\ stack' # << >>
  BY <1>3
<1>5. g.op = f.op /\ g.st = f.st /\ g.dst = f.dst
  BY <1>2
<1>6. UNCHANGED <<cache, waiting, replyMac, asked, knows, accepted, card>>
  BY DEF arp, wire, card
<1>7. Queue(H, d)'
  BY <1>6, QueueStays DEF Calm
<1>8. TrueCache' /\ Heard(H, d)'
  BY <1>6 DEF Calm, TrueCache, Heard, Known, Entries, IsReply
<1>9. Asking(H, d)'
  BY <1>3, <1>4, <1>5, <1>6 DEF Calm, Asking, IsReply
<1>10. OneCall'
  BY <1>1, <1>3, <1>5 DEF OneCall
<1> QED BY <1>7, <1>8, <1>9, <1>10 DEF Calm

LEMMA CalmRx ==
  ASSUME NEW H, NEW d, RingInv, Calm(H, d), NetRx, quiet'
  PROVE  Calm(H, d)'
<1>1. /\ TakePacket /\ ~IsReplay /\ NextSlot(tail) # head
      /\ ring' = [ring EXCEPT ![tail] = Polled] /\ tail' = NextSlot(tail) /\ head' = head
      /\ UNCHANGED <<arp, asked, knows, stack>>
  BY DEF NetRx
<1>2. Queue(H, d)'
  BY <1>1, QueueTakes DEF Calm
<1>3. accepted' = accepted
  BY <1>1 DEF TakePacket
<1> QED BY <1>1, <1>2, <1>3, CalmStays

\* A packet comes that is no ARP answer.
LEMMA CalmGrows ==
  ASSUME NEW H, NEW d, RingInv, Calm(H, d), NEW x, NEW k \in 1..MaxPages, CardTakes(x, k),
         UNCHANGED <<rx, arp, asked, knows, stack>>,
         x.op # "arpRep",
         x.op = "arpReq" => x # NoPacket /\ x.src \in Neighbours,
         x.op = "echoReq" => Route(x.src) \in knows
  PROVE  \E G : Calm(G, d)'
<1>1. PICK G : /\ Queue(G, d)' /\ G[accepted + 1] = x
               /\ \A n \in (d + 1)..accepted : G[n] = H[n]
  BY QueueGrows DEF Calm
<1>2. accepted' = accepted + 1 /\ accepted \in Nat /\ d \in Nat /\ d <= accepted
  BY QueueGrows DEF Calm
<1>3. \A n \in (d + 1)..accepted' : n \in (d + 1)..accepted \/ n = accepted + 1
  BY <1>2
<1>4. \A n \in (d + 1)..accepted : n \in (d + 1)..accepted'
  BY <1>2
<1>5. TrueCache' /\ OneCall' /\ (\A h : Known(h)' = Known(h))
  BY DEF Calm, TrueCache, OneCall, Known, Entries, arp
<1>6. Asking(G, d)'
  <2>1. \A n \in (d + 1)..accepted' : G[n].op = "arpRep" => n \in (d + 1)..accepted
                                                            /\ G[n] = H[n]
    BY <1>1, <1>3
  <2>2. CASE ~waiting
    BY <2>1, <2>2 DEF Calm, Asking, arp
  <2>3. CASE waiting /\ \A n \in (d + 1)..accepted : H[n].op # "arpRep"
    BY <2>1, <2>3 DEF Calm, Asking, arp, IsReply
  <2>4. CASE waiting /\ asked = {} /\ stack # << >> /\ stack[1].st = "arp"
             /\ \E r \in (d + 1)..accepted :
                  /\ IsReply(H, r, Route(stack[1].dst))
                  /\ \A n \in (d + 1)..accepted : H[n].op = "arpRep" => n = r
    <3>1. PICK r \in (d + 1)..accepted :
                  /\ IsReply(H, r, Route(stack[1].dst))
                  /\ \A n \in (d + 1)..accepted : H[n].op = "arpRep" => n = r
      BY <2>4
    <3>2. r \in (d + 1)..accepted' /\ IsReply(G, r, Route(stack'[1].dst))
      BY <1>1, <1>4, <3>1 DEF IsReply
    <3>3. \A n \in (d + 1)..accepted' : G[n].op = "arpRep" => n = r
      BY <2>1, <3>1
    <3>4. waiting' /\ asked' = {} /\ stack' # << >> /\ stack'[1].st = "arp"
      BY <2>4 DEF arp
    <3>5. Route(stack'[1].dst) = Route(stack[1].dst)
      OBVIOUS
    <3> QED BY <3>2, <3>3, <3>4 DEF Asking, IsReply
  <2> QED BY <2>2, <2>3, <2>4 DEF Calm, Asking
<1>7. Heard(G, d)'
  <2>1. \A h \in knows : /\ h \in Neighbours
                         /\ Known(h) \/ \E n \in (d + 1)..accepted : IsReply(G, n, h)
    BY <1>1 DEF Calm, Heard, IsReply
  <2>2. \A h \in knows' : /\ h \in Neighbours
                          /\ Known(h)' \/ \E n \in (d + 1)..accepted' : IsReply(G, n, h)
    BY <1>4, <1>5, <2>1
  <2>3. ASSUME NEW n \in (d + 1)..accepted
        PROVE  /\ G[n].op = "arpReq" => G[n] # NoPacket /\ G[n].src \in Neighbours
               /\ G[n].op = "arpRep" => G[n] # NoPacket /\ G[n].src \in Neighbours
               /\ G[n].op = "echoReq" =>
                    \/ Known(Route(G[n].src))'
                    \/ \E m \in (d + 1)..(n - 1) : IsReply(G, m, Route(G[n].src))
    <3>1. \A m \in (d + 1)..(n - 1) : m \in (d + 1)..accepted
      BY <1>2
    <3> QED BY <1>1, <1>5, <3>1 DEF Calm, Heard, IsReply
  <2>4. x.op = "echoReq" =>
          \/ Known(Route(x.src))'
          \/ \E m \in (d + 1)..((accepted + 1) - 1) : IsReply(G, m, Route(x.src))
    <3>1. (accepted + 1) - 1 = accepted
      BY <1>2
    <3> QED BY <1>5, <2>1, <3>1
  <2>5. ASSUME NEW n \in (d + 1)..accepted'
        PROVE  /\ G[n].op = "arpReq" => G[n] # NoPacket /\ G[n].src \in Neighbours
               /\ G[n].op = "arpRep" => G[n] # NoPacket /\ G[n].src \in Neighbours
               /\ G[n].op = "echoReq" =>
                    \/ Known(Route(G[n].src))'
                    \/ \E m \in (d + 1)..(n - 1) : IsReply(G, m, Route(G[n].src))
    BY <1>1, <1>3, <2>3, <2>4
  <2> QED BY <2>2, <2>5 DEF Heard, IsReply, Route
<1> QED BY <1>1, <1>5, <1>6, <1>7 DEF Calm

LEMMA CalmHosts ==
  ASSUME NEW H, NEW d, RingInv, Calm(H, d), quiet',
         \/ \E h \in Hosts : HostAnswersArp(h) \/ HostSends(h)
         \/ \E f \in out : HostTakes(f)
  PROVE  \E G : Calm(G, d)'
<1>1. ASSUME NEW h \in Hosts, HostSends(h) PROVE \E G : Calm(G, d)'
  <2>1. UNCHANGED <<rx, arp, asked, knows, stack>>
    BY <1>1 DEF HostSends, Own
  <2>2. CASE /\ h \in Neighbours \ knows /\ Arrives(Packet("arpReq", h, 0, 0))
             /\ HasRoom
    <3>1. PICK x : x = Packet("arpReq", h, 0, 0)
      OBVIOUS
    <3>2. x.op = "arpReq" /\ x.src = h /\ x # NoPacket
      BY <3>1, SlotAssumption DEF Packet
    <3>3. PICK k \in 1..MaxPages : CardTakes(x, k)
      BY <2>2, <3>1, SizeFacts DEF Arrives
    <3> QED BY <2>1, <2>2, <3>2, <3>3, CalmGrows
  <2>3. CASE Route(h) \in knows /\ Arrives(Packet("echoReq", h, 0, 0)) /\ HasRoom
    <3>1. PICK x : x = Packet("echoReq", h, 0, 0)
      OBVIOUS
    <3>2. x.op = "echoReq" /\ x.src = h
      BY <3>1 DEF Packet
    <3>3. PICK k \in 1..MaxPages : CardTakes(x, k)
      BY <2>3, <3>1, SizeFacts DEF Arrives
    <3> QED BY <2>1, <2>3, <3>2, <3>3, CalmGrows
  <2> QED BY <1>1, <2>2, <2>3 DEF HostSends
<1>2. ASSUME NEW f \in out, HostTakes(f) PROVE \E G : Calm(G, d)'
  <2>1. UNCHANGED <<rx, arp, asked, knows, stack>>
    BY <1>2 DEF HostTakes, Own
  <2>2. CASE f.mac = Route(f.dst)
    <3>1. PICK x : x = IF f.op = "ping" THEN Packet("echoRep", f.dst, f.id, f.ask)
                       ELSE Packet("udp", f.dst, f.id, f.ask)
      OBVIOUS
    <3>2. x.op \in {"echoRep", "udp"}
      BY <3>1 DEF Packet
    <3>3. PICK k \in 1..MaxPages : CardTakes(x, k)
      BY <1>2, <2>2, <3>1, SizeFacts DEF HostTakes, Arrives
    <3> QED BY <2>1, <3>2, <3>3, CalmGrows
  <2>3. CASE f.mac # Route(f.dst)
    <3>1. UNCHANGED card
      BY <1>2, <2>3 DEF HostTakes
    <3>2. Queue(H, d)' /\ accepted' = accepted
      BY <2>1, <3>1, QueueStays DEF Calm, card
    <3> QED BY <2>1, <3>2, CalmStays
  <2> QED BY <2>2, <2>3
<1>3. ASSUME NEW h \in Hosts, HostAnswersArp(h) PROVE \E G : Calm(G, d)'
  <2>1. /\ UNCHANGED <<rx, arp, stack>> /\ h \in asked /\ asked' = asked \ {h}
        /\ knows' = knows \cup {h}
    BY <1>3 DEF HostAnswersArp, Own
  <2>2. PICK x : x = Packet("arpRep", h, 0, 0)
    OBVIOUS
  <2>3. x.op = "arpRep" /\ x.src = h /\ x # NoPacket
    BY <2>2, SlotAssumption DEF Packet
  <2>4. PICK k \in 1..MaxPages : CardTakes(x, k)
    BY <1>3, <2>2, SizeFacts DEF HostAnswersArp, Arrives
  <2>5. PICK G : /\ Queue(G, d)' /\ G[accepted + 1] = x
                 /\ \A n \in (d + 1)..accepted : G[n] = H[n]
    BY <2>1, <2>4, QueueGrows DEF Calm
  <2>6. accepted' = accepted + 1 /\ accepted \in Nat /\ d \in Nat /\ d <= accepted
    BY <2>1, <2>4, QueueGrows DEF Calm
  <2>7. /\ \A n \in (d + 1)..accepted' : n \in (d + 1)..accepted \/ n = accepted + 1
        /\ \A n \in (d + 1)..accepted : n \in (d + 1)..accepted'
        /\ accepted + 1 \in (d + 1)..accepted'
    BY <2>6
  <2>8. TrueCache' /\ OneCall' /\ (\A y : Known(y)' = Known(y))
    BY <2>1 DEF Calm, TrueCache, OneCall, Known, Entries, arp
  <2>9. /\ waiting /\ stack # << >> /\ stack[1].st = "arp" /\ asked = {h}
        /\ h = Route(stack[1].dst) /\ \A n \in (d + 1)..accepted : H[n].op # "arpRep"
    BY <2>1 DEF Calm, Asking
  <2>10. h \in Neighbours
    BY <2>9, RouteFacts
  <2>11. Asking(G, d)'
    <3>1. waiting' /\ stack' # << >> /\ stack'[1].st = "arp" /\ asked' = {}
      BY <2>1, <2>9 DEF arp
    <3>2. G[accepted + 1].op = "arpRep" /\ G[accepted + 1].src = Route(stack'[1].dst)
      BY <2>1, <2>3, <2>5, <2>9
    <3>3. \A n \in (d + 1)..accepted' : G[n].op = "arpRep" => n = accepted + 1
      BY <2>5, <2>7, <2>9
    <3> QED BY <2>7, <3>1, <3>2, <3>3 DEF Asking, IsReply
  <2>12. Heard(G, d)'
    <3>1. ASSUME NEW y \in knows'
          PROVE  /\ y \in Neighbours
                 /\ Known(y)' \/ \E n \in (d + 1)..accepted' : IsReply(G, n, y)
      <4>1. CASE y = h
        BY <2>3, <2>5, <2>7, <2>10, <4>1 DEF IsReply
      <4>2. CASE y \in knows
        BY <2>5, <2>7, <2>8, <4>2 DEF Calm, Heard, IsReply
      <4> QED BY <2>1, <4>1, <4>2
    <3>2. ASSUME NEW n \in (d + 1)..accepted'
          PROVE  /\ G[n].op = "arpReq" => G[n] # NoPacket /\ G[n].src \in Neighbours
                 /\ G[n].op = "arpRep" => G[n] # NoPacket /\ G[n].src \in Neighbours
                 /\ G[n].op = "echoReq" =>
                      \/ Known(Route(G[n].src))'
                      \/ \E m \in (d + 1)..(n - 1) : IsReply(G, m, Route(G[n].src))
      <4>1. CASE n = accepted + 1
        BY <2>3, <2>5, <2>10, <4>1
      <4>2. CASE n \in (d + 1)..accepted
        <5>1. \A m \in (d + 1)..(n - 1) : m \in (d + 1)..accepted
          BY <2>6, <4>2
        <5> QED BY <2>5, <2>8, <4>2, <5>1 DEF Calm, Heard, IsReply
      <4> QED BY <2>7, <4>1, <4>2
    <3> QED BY <3>1, <3>2 DEF Heard, IsReply, Route
  <2> QED BY <2>5, <2>8, <2>11, <2>12 DEF Calm
<1> QED BY <1>1, <1>2, <1>3

\* The packet at rx_head is dispatched: a request or the answer that is waited for
\* brings its sender into the cache, other packets change neither.
LEMMA CalmDispatch ==
  ASSUME NEW H, NEW d, RingInv, CacheFits, Calm(H, d), Dispatch
  PROVE  Calm(H, d + 1)'
<1>1. /\ head # tail /\ head' = NextSlot(head) /\ UNCHANGED <<ring, tail, card, stack, asked>>
      /\ accepted' = accepted
  BY DEF Dispatch, card
<1>2. Queue(H, d + 1)' /\ d \in Nat /\ d + 1 \in (d + 1)..accepted /\ ring[head] = H[d + 1]
  BY <1>1, QueueShrinks DEF Calm
<1>3. PICK p : p = H[d + 1] /\ p = ring[head]
  BY <1>2
<1>4. /\ accepted \in Nat
      /\ \A n \in ((d + 1) + 1)..accepted : n \in (d + 1)..accepted /\ n # d + 1
      /\ \A n \in (d + 1)..accepted : n = d + 1 \/ n \in ((d + 1) + 1)..accepted
  BY <1>2 DEF RingInv, CardTypes
<1>5. /\ p.op = "arpReq" => Kind(p) = "arpReq" /\ p.src \in Neighbours
      /\ p.op = "arpRep" => Kind(p) = "arpRep" /\ p.src \in Neighbours
      /\ Kind(p) = "arpReq" => p.op = "arpReq"
      /\ Kind(p) = "arpRep" => p.op = "arpRep"
  BY <1>2, <1>3 DEF Calm, Heard, Kind
<1>6. OneCall'
  BY <1>1 DEF Calm, OneCall
<1>7. CASE p.op = "arpReq"
  <2>1. knows' = knows \cup {p.src} /\ cache' = CacheAdd(p.src, p.src)
        /\ UNCHANGED <<waiting, replyMac>>
    BY <1>3, <1>5, <1>7 DEF Dispatch, ArpAsked
  <2>2. TrueCache' /\ Known(p.src)' /\ \A x : Known(x) => Known(x)'
    BY <1>5, <1>7, <2>1, CacheGrows DEF Calm
  <2>3. Asking(H, d + 1)'
    <3>1. CASE ~waiting
      BY <1>1, <1>4, <2>1, <3>1 DEF Calm, Asking
    <3>2. CASE waiting /\ asked # {}
      BY <1>1, <1>4, <2>1, <3>2 DEF Calm, Asking
    <3>3. CASE waiting /\ asked = {}
      <4>1. PICK r \in (d + 1)..accepted :
                 /\ IsReply(H, r, Route(stack[1].dst))
                 /\ \A n \in (d + 1)..accepted : H[n].op = "arpRep" => n = r
        BY <3>3 DEF Calm, Asking
      <4>2. r \in ((d + 1) + 1)..accepted
        BY <1>3, <1>4, <1>7, <4>1 DEF IsReply
      <4>3. waiting' /\ asked' = {} /\ stack' # << >> /\ stack'[1].st = "arp"
            /\ stack' = stack
        BY <1>1, <2>1, <3>3 DEF Calm, Asking
      <4> QED BY <1>1, <1>4, <4>1, <4>2, <4>3 DEF Asking, IsReply
    <3> QED BY <3>1, <3>2, <3>3
  <2>4. Heard(H, d + 1)'
    <3>1. ASSUME NEW h \in knows'
          PROVE  /\ h \in Neighbours
                 /\ Known(h)' \/ \E n \in ((d + 1) + 1)..accepted : IsReply(H, n, h)
      <4>1. CASE h = p.src
        BY <1>5, <1>7, <2>2, <4>1
      <4>2. CASE h \in knows
        <5>1. h \in Neighbours /\ (Known(h) \/ \E n \in (d + 1)..accepted : IsReply(H, n, h))
          BY <4>2 DEF Calm, Heard
        <5>2. \A n \in (d + 1)..accepted : IsReply(H, n, h) => n \in ((d + 1) + 1)..accepted
          BY <1>3, <1>4, <1>7 DEF IsReply
        <5> QED BY <2>2, <5>1, <5>2
      <4> QED BY <2>1, <4>1, <4>2
    <3>2. ASSUME NEW n \in ((d + 1) + 1)..accepted
          PROVE  /\ H[n].op = "arpReq" => H[n] # NoPacket /\ H[n].src \in Neighbours
                 /\ H[n].op = "arpRep" => H[n] # NoPacket /\ H[n].src \in Neighbours
                 /\ H[n].op = "echoReq" =>
                      \/ Known(Route(H[n].src))'
                      \/ \E m \in ((d + 1) + 1)..(n - 1) : IsReply(H, m, Route(H[n].src))
      <4>1. \A m \in (d + 1)..(n - 1) : m = d + 1 \/ m \in ((d + 1) + 1)..(n - 1)
        BY <1>2, <1>4
      <4>2. /\ H[n].op = "arpReq" => H[n] # NoPacket /\ H[n].src \in Neighbours
            /\ H[n].op = "arpRep" => H[n] # NoPacket /\ H[n].src \in Neighbours
            /\ H[n].op = "echoReq" =>
                 \/ Known(Route(H[n].src))
                 \/ \E m \in (d + 1)..(n - 1) : IsReply(H, m, Route(H[n].src))
        BY <1>4 DEF Calm, Heard
      <4>3. IsReply(H, d + 1, Route(H[n].src)) => Known(Route(H[n].src))'
        BY <1>3, <1>7, <2>2 DEF IsReply
      <4>4. Known(Route(H[n].src)) => Known(Route(H[n].src))'
        BY <2>2
      <4> QED BY <4>1, <4>2, <4>3, <4>4
    <3> QED BY <1>1, <3>1, <3>2 DEF Heard, IsReply, Route
  <2> QED BY <1>2, <1>6, <2>2, <2>3, <2>4 DEF Calm
<1>8. CASE p.op = "arpRep"
  <2>1. /\ waiting /\ stack # << >> /\ stack[1].st = "arp" /\ asked = {}
        /\ p.src = Route(stack[1].dst)
        /\ \A n \in (d + 1)..accepted : H[n].op = "arpRep" => n = d + 1
    BY <1>2, <1>3, <1>8 DEF Calm, Asking, IsReply
  <2>2. /\ replyMac' = p.src /\ waiting' = FALSE /\ cache' = CacheAdd(p.src, p.src)
        /\ knows' = knows
    BY <1>3, <1>5, <1>8, <2>1 DEF Dispatch, ArpAnswered
  <2>3. TrueCache' /\ Known(p.src)' /\ \A x : Known(x) => Known(x)'
    BY <1>5, <1>8, <2>2, CacheGrows DEF Calm
  <2>4. Asking(H, d + 1)'
    BY <1>1, <1>4, <2>1, <2>2 DEF Asking
  <2>5. Heard(H, d + 1)'
    <3>1. ASSUME NEW h \in knows'
          PROVE  /\ h \in Neighbours
                 /\ Known(h)' \/ \E n \in ((d + 1) + 1)..accepted : IsReply(H, n, h)
      <4>1. h \in Neighbours /\ (Known(h) \/ \E n \in (d + 1)..accepted : IsReply(H, n, h))
        BY <2>2 DEF Calm, Heard
      <4>2. \A n \in (d + 1)..accepted : IsReply(H, n, h) => h = p.src
        BY <1>3, <2>1 DEF IsReply
      <4> QED BY <2>3, <4>1, <4>2
    <3>2. ASSUME NEW n \in ((d + 1) + 1)..accepted
          PROVE  /\ H[n].op = "arpReq" => H[n] # NoPacket /\ H[n].src \in Neighbours
                 /\ H[n].op = "arpRep" => H[n] # NoPacket /\ H[n].src \in Neighbours
                 /\ H[n].op = "echoReq" =>
                      \/ Known(Route(H[n].src))'
                      \/ \E m \in ((d + 1) + 1)..(n - 1) : IsReply(H, m, Route(H[n].src))
      <4>1. \A m \in (d + 1)..(n - 1) : m = d + 1 \/ m \in ((d + 1) + 1)..(n - 1)
        BY <1>2, <1>4
      <4>2. /\ H[n].op = "arpReq" => H[n] # NoPacket /\ H[n].src \in Neighbours
            /\ H[n].op = "arpRep" => H[n] # NoPacket /\ H[n].src \in Neighbours
            /\ H[n].op = "echoReq" =>
                 \/ Known(Route(H[n].src))
                 \/ \E m \in (d + 1)..(n - 1) : IsReply(H, m, Route(H[n].src))
        BY <1>4 DEF Calm, Heard
      <4>3. IsReply(H, d + 1, Route(H[n].src)) => Known(Route(H[n].src))'
        BY <1>3, <2>3 DEF IsReply
      <4>4. Known(Route(H[n].src)) => Known(Route(H[n].src))'
        BY <2>3
      <4> QED BY <4>1, <4>2, <4>3, <4>4
    <3> QED BY <1>1, <3>1, <3>2 DEF Heard, IsReply, Route
  <2> QED BY <1>2, <1>6, <2>3, <2>4, <2>5 DEF Calm
<1>9. CASE p.op \notin {"arpReq", "arpRep"}
  <2>1. UNCHANGED <<arp, knows>>
    BY <1>3, <1>5, <1>9 DEF Dispatch
  <2>2. TrueCache' /\ \A x : Known(x)' = Known(x)
    BY <2>1 DEF Calm, TrueCache, Known, Entries, arp
  <2>3. \A n \in (d + 1)..accepted : H[n].op = "arpRep" => n \in ((d + 1) + 1)..accepted
    BY <1>3, <1>4, <1>9
  <2>4. Asking(H, d + 1)'
    <3>1. CASE ~waiting
      BY <1>1, <1>4, <2>1, <3>1 DEF Calm, Asking, arp
    <3>2. CASE waiting /\ asked # {}
      BY <1>1, <1>4, <2>1, <3>2 DEF Calm, Asking, arp
    <3>3. CASE waiting /\ asked = {}
      <4>1. PICK r \in (d + 1)..accepted :
                 /\ IsReply(H, r, Route(stack[1].dst))
                 /\ \A n \in (d + 1)..accepted : H[n].op = "arpRep" => n = r
        BY <3>3 DEF Calm, Asking
      <4>2. r \in ((d + 1) + 1)..accepted
        BY <2>3, <4>1 DEF IsReply
      <4>3. waiting' /\ asked' = {} /\ stack' # << >> /\ stack'[1].st = "arp"
            /\ stack' = stack
        BY <1>1, <2>1, <3>3 DEF Calm, Asking, arp
      <4> QED BY <1>1, <1>4, <4>1, <4>2, <4>3 DEF Asking, IsReply
    <3> QED BY <3>1, <3>2, <3>3
  <2>5. Heard(H, d + 1)'
    <3>1. ASSUME NEW h \in knows'
          PROVE  /\ h \in Neighbours
                 /\ Known(h)' \/ \E n \in ((d + 1) + 1)..accepted : IsReply(H, n, h)
      BY <2>1, <2>2, <2>3 DEF Calm, Heard, IsReply
    <3>2. ASSUME NEW n \in ((d + 1) + 1)..accepted
          PROVE  /\ H[n].op = "arpReq" => H[n] # NoPacket /\ H[n].src \in Neighbours
                 /\ H[n].op = "arpRep" => H[n] # NoPacket /\ H[n].src \in Neighbours
                 /\ H[n].op = "echoReq" =>
                      \/ Known(Route(H[n].src))'
                      \/ \E m \in ((d + 1) + 1)..(n - 1) : IsReply(H, m, Route(H[n].src))
      <4>1. \A m \in (d + 1)..(n - 1) : m = d + 1 \/ m \in ((d + 1) + 1)..(n - 1)
        BY <1>2, <1>4
      <4>2. /\ H[n].op = "arpReq" => H[n] # NoPacket /\ H[n].src \in Neighbours
            /\ H[n].op = "arpRep" => H[n] # NoPacket /\ H[n].src \in Neighbours
            /\ H[n].op = "echoReq" =>
                 \/ Known(Route(H[n].src))
                 \/ \E m \in (d + 1)..(n - 1) : IsReply(H, m, Route(H[n].src))
        BY <1>4 DEF Calm, Heard
      <4>3. IsReply(H, d + 1, Route(H[n].src)) => Known(Route(H[n].src))'
        BY <1>3, <1>9, <2>2 DEF IsReply
      <4>4. Known(Route(H[n].src)) => Known(Route(H[n].src))'
        BY <2>2
      <4> QED BY <4>1, <4>2, <4>3, <4>4
    <3> QED BY <1>1, <3>1, <3>2 DEF Heard, IsReply, Route
  <2> QED BY <1>2, <1>6, <2>2, <2>4, <2>5 DEF Calm
<1> QED BY <1>7, <1>8, <1>9

\* An echo request is dispatched when its sender is in the cache: no call nests.
LEMMA CalmNeverNests ==
  ASSUME NEW H, NEW d, RingInv, Calm(H, d)
  PROVE  ~DispatchNested
<1> SUFFICES ASSUME DispatchNested PROVE FALSE
  OBVIOUS
<1>1. PICK p : p = ring[head] /\ Kind(p) = "echoReq" /\ Entries(Route(p.src)) = {}
  BY DEF DispatchNested
<1>2. head # tail
  BY DEF DispatchNested
<1>3. /\ d \in Nat /\ given.n \in Nat /\ accepted \in Nat /\ head \in Slots
      /\ d <= given.n /\ given.n <= accepted
  BY DEF Calm, Queue, RingInv, CardTypes
<1>4. PICK k \in Nat : k = given.n - d /\ k < RX_RING /\ tail = Place(head, k)
  BY <1>3 DEF Calm, Queue
<1>5. Place(head, 0) = head
  BY <1>3, PlaceFacts
<1>6. d + 1 \in (d + 1)..given.n /\ d + 1 \in (d + 1)..accepted /\ (d + 1) - d - 1 = 0
  BY <1>2, <1>3, <1>4, <1>5
<1>7. p = H[d + 1]
  BY <1>1, <1>5, <1>6 DEF Calm, Queue
<1>8. p.op = "echoReq"
  BY <1>1 DEF Kind
<1>9. Known(Route(p.src)) \/ \E m \in (d + 1)..((d + 1) - 1) : IsReply(H, m, Route(p.src))
  BY <1>6, <1>7, <1>8 DEF Calm, Heard
<1> QED BY <1>1, <1>3, <1>9 DEF Known

LEMMA CalmResolved ==
  ASSUME NEW H, NEW d, CacheFits, Calm(H, d), ArpResolved
  PROVE  Calm(H, d)'
<1>1. PICK f : stack = <<f>> /\ f.op # "echo"
  BY DEF ArpResolved, Calm, OneCall
<1>2. Top = f /\ stack[1] = f /\ stack # << >> /\ \A g : WithTop(g) = <<g>>
  BY <1>1, OneFrame
<1>3. PICK g : g = [f EXCEPT !.st = "wait"]
  OBVIOUS
<1>4. /\ f.st = "arp" /\ ~waiting /\ stack' = <<g>> /\ UNCHANGED <<rx, card>>
      /\ cache' = CacheAdd(Route(f.dst), replyMac)
      /\ UNCHANGED <<waiting, replyMac, asked, knows>>
  BY <1>1, <1>2, <1>3 DEF ArpResolved, rx
<1>5. replyMac = Route(f.dst) /\ asked = {} /\ \A n \in (d + 1)..accepted : H[n].op # "arpRep"
  BY <1>2, <1>4 DEF Calm, Asking
<1>6. TrueCache' /\ \A x : Known(x) => Known(x)'
  BY <1>4, <1>5, RouteFacts, CacheGrows DEF Calm
<1>7. Queue(H, d)' /\ accepted' = accepted
  BY <1>4, QueueStays DEF Calm, card
<1>8. g.op = f.op /\ g.st \in {"wait", f.st} /\ (g.st = "arp" => f.st = "arp" /\ g.dst = f.dst)
      /\ stack'[1] = g
  BY <1>3, <1>4
<1>9. Asking(H, d)' /\ OneCall'
  <2>1. g.st = "arp" => replyMac = Route(g.dst)
    BY <1>5, <1>8
  <2>2. OneCall'
    BY <1>1, <1>4, <1>8 DEF OneCall
  <2> QED BY <1>4, <1>5, <1>7, <1>8, <2>1, <2>2 DEF Asking
<1>10. Heard(H, d)'
  <2>1. ASSUME NEW n \in (d + 1)..accepted
        PROVE  /\ H[n].op = "arpReq" => H[n] # NoPacket /\ H[n].src \in Neighbours
               /\ H[n].op = "arpRep" => H[n] # NoPacket /\ H[n].src \in Neighbours
               /\ H[n].op = "echoReq" =>
                    \/ Known(Route(H[n].src))'
                    \/ \E m \in (d + 1)..(n - 1) : IsReply(H, m, Route(H[n].src))
    BY <1>6 DEF Calm, Heard
  <2>2. \A h \in knows' : /\ h \in Neighbours
                          /\ Known(h)' \/ \E n \in (d + 1)..accepted : IsReply(H, n, h)
    BY <1>4, <1>6 DEF Calm, Heard
  <2> QED BY <1>7, <2>1, <2>2 DEF Heard, IsReply, Route
<1> QED BY <1>6, <1>7, <1>9, <1>10 DEF Calm

LEMMA CalmReturns ==
  ASSUME NEW H, NEW d, Calm(H, d), PingReturns \/ DnsReturns
  PROVE  Calm(H, d)'
<1>1. /\ stack # << >> /\ Top.st = "wait" /\ stack' = << >>
      /\ UNCHANGED <<rx, arp, card, asked, knows>>
  BY DEF PingReturns, DnsReturns, wire
<1>2. PICK f : stack = <<f>> /\ f.op # "echo"
  BY <1>1 DEF Calm, OneCall
<1>3. stack[1].st = "wait"
  BY <1>1, <1>2, OneFrame
<1>4. ~waiting
  BY <1>3 DEF Calm, Asking
<1>5. Queue(H, d)' /\ accepted' = accepted
  BY <1>1, QueueStays DEF Calm, card
<1>6. TrueCache' /\ Heard(H, d)' /\ OneCall'
  BY <1>1, <1>5 DEF Calm, TrueCache, Heard, Known, Entries, IsReply, OneCall, arp
<1>7. Asking(H, d)'
  BY <1>1, <1>4, <1>5 DEF Calm, Asking, arp
<1> QED BY <1>5, <1>6, <1>7 DEF Calm

LEMMA CalmCalls ==
  ASSUME NEW H, NEW d, Calm(H, d), NEW op \in {"ping", "dns"}, NEW dst, Call(op, dst)
  PROVE  Calm(H, d)'
<1>1. /\ stack = << >> /\ UNCHANGED <<rx, cache, replyMac, card, knows>>
  BY DEF Call
<1>2. ~waiting /\ asked = {} /\ \A n \in (d + 1)..accepted : H[n].op # "arpRep"
  BY <1>1 DEF Calm, Asking
<1>3. Queue(H, d)' /\ accepted' = accepted
  BY <1>1, QueueStays DEF Calm, card
<1>4. TrueCache' /\ Heard(H, d)'
  BY <1>1, <1>3 DEF Calm, TrueCache, Heard, Known, Entries, IsReply
<1>5. PICK f : f = [op |-> op, dst |-> dst, id |-> IF op = "dns" THEN port ELSE NextPing.id,
                    ask |-> calls + 1, st |-> "wait", poll |-> "no"]
  OBVIOUS
<1>6. CASE Entries(Route(dst)) # {}
  <2>1. stack' = <<f>> /\ asked' = asked /\ waiting' = waiting
    BY <1>5, <1>6 DEF Call
  <2>2. stack'[1].st = "wait" /\ f.op # "echo"
    BY <1>5, <2>1
  <2>3. Asking(H, d)' /\ OneCall'
    BY <1>2, <1>3, <2>1, <2>2 DEF Asking, OneCall
  <2> QED BY <1>3, <1>4, <2>3 DEF Calm
<1>7. CASE Entries(Route(dst)) = {}
  <2>1. PICK g : g = [f EXCEPT !.st = "arp"]
    OBVIOUS
  <2>2. stack' = <<g>> /\ asked' = asked \cup {Route(dst)} /\ waiting' = TRUE
    BY <1>5, <1>7, <2>1 DEF Call, AskArp
  <2>3. stack'[1].st = "arp" /\ stack'[1].dst = dst /\ g.op # "echo" /\ stack' # << >>
    BY <1>5, <2>1, <2>2
  <2>4. asked' = {Route(dst)}
    BY <1>2, <2>2
  <2>5. Asking(H, d)' /\ OneCall'
    BY <1>2, <1>3, <2>2, <2>3, <2>4 DEF Asking, OneCall
  <2> QED BY <1>3, <1>4, <2>5 DEF Calm
<1> QED BY <1>6, <1>7

LEMMA CalmSteps ==
  ASSUME NEW H, NEW d, RingInv, CacheFits, Calm(H, d), quiet', [Next]_vars
  PROVE  \E G, e : Calm(G, e)'
<1>1. CASE NetPing \/ DnsResolve
  BY <1>1, CalmCalls DEF NetPing, DnsResolve
<1>2. CASE PollStart \/ CardEmpty \/ PollEnd
  BY <1>2, CalmPolls DEF PollStart, CardEmpty, PollEnd
<1>3. CASE NetRx
  BY <1>3, CalmRx
<1>4. CASE Dispatch
  BY <1>4, CalmDispatch
<1>5. CASE DispatchNested
  BY <1>5, CalmNeverNests
<1>6. CASE ArpResolved
  BY <1>6, CalmResolved
<1>7. CASE ArpTimeout
  BY <1>7 DEF ArpTimeout
<1>8. CASE PingReturns \/ DnsReturns
  BY <1>8, CalmReturns
<1>9. CASE \/ \E h \in Hosts : HostAnswersArp(h) \/ HostSends(h)
           \/ \E f \in out : HostTakes(f)
  BY <1>9, CalmHosts
<1>10. CASE UNCHANGED vars
  <2>1. UNCHANGED <<rx, arp, card, asked, knows, accepted, stack>>
    BY <1>10 DEF vars, wire, card
  <2> QED BY <2>1, QueueStays, CalmStays DEF Calm
<1> QED BY <1>1, <1>2, <1>3, <1>4, <1>5, <1>6, <1>7, <1>8, <1>9, <1>10 DEF Next

\* What was lost or given up stays so.
LEMMA QuietEnds ==
  ASSUME quiet \in BOOLEAN, [Next]_vars
  PROVE  quiet' \in BOOLEAN /\ (quiet' => quiet)
<1>2. ASSUME NEW f, HostTakes(f) PROVE quiet' \in BOOLEAN /\ (quiet' => quiet)
  BY <1>2 DEF HostTakes
<1>3. ASSUME NEW h, HostAnswersArp(h) \/ HostSends(h)
      PROVE  quiet' \in BOOLEAN /\ (quiet' => quiet)
  BY <1>3 DEF HostAnswersArp, HostSends
<1>4. CASE NetRx
  BY <1>4 DEF NetRx
<1>5. CASE NetPing \/ DnsResolve
  <2>1. quiet' = quiet
    BY <1>5 DEF NetPing, DnsResolve, Call
  <2> QED BY <2>1
<1>6. CASE PollStart \/ CardEmpty \/ PollEnd \/ Dispatch \/ DispatchNested
  BY <1>6 DEF PollStart, CardEmpty, PollEnd, Dispatch, DispatchNested
<1>7. CASE ArpResolved \/ ArpTimeout \/ PingReturns \/ DnsReturns
  <2>1. CASE ArpTimeout
    <3>1. quiet' = FALSE
      BY <2>1 DEF ArpTimeout
    <3> QED BY <3>1
  <2>2. CASE ArpResolved \/ PingReturns \/ DnsReturns
    <3>1. quiet' = quiet
      BY <2>2 DEF ArpResolved, PingReturns, DnsReturns
    <3> QED BY <3>1
  <2> QED BY <1>7, <2>1, <2>2
<1>8. CASE UNCHANGED vars
  BY <1>8 DEF vars
<1> QED BY <1>2, <1>3, <1>4, <1>5, <1>6, <1>7, <1>8 DEF Next

LEMMA InitCache == Init => CacheInv
<1> SUFFICES ASSUME Init PROVE CacheInv
  OBVIOUS
<1>1. RingInv /\ quiet \in BOOLEAN
  BY InitRing DEF Init
<1>2. PICK H : H = << >>
  OBVIOUS
<1>3. /\ accepted = 0 /\ given.n = 0 /\ head = 0 /\ tail = 0 /\ ring = [i \in Slots |-> NoPacket]
      /\ page = [i \in Pages |-> NoPacket] /\ 0 \in Slots
  BY NetAssumption DEF Init, CardInit, Slots
<1>4. Queue(H, 0)
  <2>1. tail = Place(head, given.n - 0)
    BY <1>3, PlaceFacts
  <2>2. given.n - 0 < RX_RING
    BY <1>3, NetAssumption
  <2>3. \A n \in (0 + 1)..given.n : FALSE
    BY <1>3
  <2> QED BY <1>3, <2>1, <2>2, <2>3 DEF Queue
<1>5. \A n \in (0 + 1)..accepted : FALSE
  BY <1>3
<1>6. TrueCache /\ OneCall
  BY DEF Init, TrueCache, OneCall
<1>7. Asking(H, 0) /\ Heard(H, 0)
  BY <1>5 DEF Init, Asking, Heard
<1> QED BY <1>1, <1>4, <1>6, <1>7 DEF CacheInv, CalmInv, Calm

LEMMA CacheStep == CacheInv /\ [Next]_vars => CacheInv'
<1> SUFFICES ASSUME CacheInv, [Next]_vars PROVE CacheInv'
  OBVIOUS
<1>1. RingInv'
  BY NextIsCardStep, TakeKeepsRing, CardKeepsRing, StillKeepsRing DEF CardStep, CacheInv
<1>2. quiet' \in BOOLEAN /\ (quiet' => quiet)
  BY QuietEnds DEF CacheInv
<1>3. CacheFits' <=> CacheFits
  BY DEF CacheFits
<1>4. ASSUME quiet', CacheFits PROVE \E G, e : Calm(G, e)'
  <2>1. PICK H, d : Calm(H, d)
    BY <1>2, <1>4 DEF CacheInv, CalmInv
  <2> QED BY <1>4, <2>1, CalmSteps DEF CacheInv
<1>5. CalmInv'
  BY <1>3, <1>4 DEF CalmInv
<1> QED BY <1>1, <1>2, <1>5 DEF CacheInv

(***************************************************************************)
(* As long as no packet was dropped or replayed, no resolution given up    *)
(* and no echo request came from a host before ARP packets were exchanged  *)
(* with it, and the neighbours fit the cache, every entry of the ARP cache *)
(* has the address of its host, although arp_process takes any answer for  *)
(* the one waited for.                                                     *)
(***************************************************************************)
THEOREM CacheStaysTrue == Spec => []CacheTrue
<1>1. CacheInv => CacheTrue
  <2> SUFFICES ASSUME CacheInv, quiet, CacheFits, NEW i \in DOMAIN cache
               PROVE  cache[i].mac = cache[i].ip
    BY DEF CacheTrue
  <2>1. TrueCache
    BY DEF CacheInv, CalmInv, Calm
  <2>2. i \in 1..Len(cache)
    BY <2>1 DEF TrueCache
  <2> QED BY <2>1, <2>2 DEF TrueCache
<1> QED BY <1>1, InitCache, CacheStep, PTL DEF Spec

(***************************************************************************)
(* Under the same conditions no handler polls inside of net_poll: whoever  *)
(* sends an echo request to this machine is in the cache when the request  *)
(* is dispatched.                                                          *)
(***************************************************************************)
THEOREM HandlersNeverPoll == Spec => []NoReentry
<1>1. CacheInv => NoReentry
  <2> SUFFICES ASSUME CacheInv, quiet, CacheFits PROVE Len(stack) <= 1
    BY DEF NoReentry
  <2>1. OneCall
    BY DEF CacheInv, CalmInv, Calm
  <2>2. CASE stack = << >>
    BY <2>2
  <2>3. CASE stack # << >>
    <3>1. PICK f : stack = <<f>>
      BY <2>1, <2>3 DEF OneCall
    <3>2. Len(stack) = 1
      BY <3>1
    <3> QED BY <3>2
  <2> QED BY <2>2, <2>3
<1> QED BY <1>1, InitCache, CacheStep, PTL DEF Spec
=============================================================================
