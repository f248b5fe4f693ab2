--------------------------------- MODULE Net ---------------------------------
(***************************************************************************)
(* Receiving and address resolution in src/net/net.c: the receive ring,    *)
(* net_poll and its dispatch, ARP with its cache, ICMP echo, UDP and the   *)
(* blocking calls net_ping and dns_resolve, over the card's own ring of    *)
(* the module Ne2000.  TCP is in the module Tcp.                           *)
(*                                                                         *)
(* Nothing runs but the call in progress, and it polls.  A handler that    *)
(* sends may have to resolve an address, and arp_resolve polls again: so   *)
(* calls nest, and stack is the stack of calls that wait.  net_poll takes  *)
(* a packet off the ring after its handler has returned.                   *)
(*                                                                         *)
(* The hosts are external, and honest: they answer what they are asked,    *)
(* late or never, and send to this machine once they know its address,     *)
(* which some of them remember from before it was booted.                  *)
(* The address of a neighbour's card is written as the neighbour itself.   *)
(* What becomes of echo answers is not followed.                           *)
(***************************************************************************)
EXTENDS Ne2000, Sequences, SequencesExt, FiniteSets

CONSTANTS Neighbours,    \* hosts on the subnet
          Remember,      \* those that know this machine from before it was booted
          Far,           \* hosts behind the gateway
          Gateway, DnsServer, NoHost,
          RX_RING, ARP_CACHE_N,
          Byte,          \* values of a byte of ping_id, 256 in the code
          Ports,         \* size of the port counter, 2^16 in the code
          MaxCalls, MaxSent,
          MaxDepth       \* calls nested in one another, at most

ASSUME NetAssumption == /\ {Gateway, DnsServer} \cup Remember \subseteq Neighbours
                        /\ NoHost \notin Neighbours \cup Far
                        /\ RX_RING \in Nat \ {0, 1} /\ ARP_CACHE_N \in Nat
                        /\ Byte \in Nat \ {0, 1} /\ Ports \in Nat /\ MaxCalls \in 0..(Ports - 1)
                        /\ MaxDepth \in Nat \ {0} /\ IsFiniteSet(Neighbours)

VARIABLES ring, head, tail,  \* rx_buf, rx_head, rx_tail
          cache,             \* the valid entries of arp_cache, which are the first ones
          waiting, replyMac, \* arp_waiting, arp_reply_mac
          ping, udp,         \* ping_id and ping_ok; udp_port, udp_got and udp_buf
          port,              \* tcp_eph_port
          stack, last, calls,
          knows,             \* hosts that have exchanged ARP packets with it
          asked, out, sent,
          echoed,            \* pings a host has answered
          quiet              \* nothing was dropped, replayed or given up so far, and
                             \* no host sent before ARP packets were exchanged with it

rx == <<ring, head, tail>>
arp == <<cache, waiting, replyMac>>
wire == <<card, knows, asked, out, sent, echoed>>
vars == <<rx, arp, ping, udp, port, stack, last, calls, wire, quiet>>

Hosts == Neighbours \cup Far
Slots == 0..(RX_RING - 1)

\* A packet: id is the echo id or the port, ask the call it answers (0: none).
Packet(op, src, id, ask) == [op |-> op, src |-> src, id |-> id, ask |-> ask]
ASSUME SlotAssumption ==   \* a packet has a length, an unwritten slot has none
  \A op \in {"arpReq", "arpRep", "echoReq"}, h \in Hosts : Packet(op, h, 0, 0) # NoPacket

Init == /\ ring = [i \in Slots |-> NoPacket] /\ head = 0 /\ tail = 0
        /\ cache = << >> /\ waiting = FALSE /\ replyMac = NoHost
        /\ ping = [id |-> 0, ok |-> FALSE]
        /\ udp = [port |-> 0, got |-> FALSE, data |-> 0]
        /\ port = 1 /\ stack = << >> /\ calls = 0
        /\ last = [op |-> "none", ask |-> 0, ok |-> FALSE, data |-> 0]
        /\ CardInit /\ knows = {} /\ asked = {} /\ out = {} /\ sent = 0
        /\ echoed = {} /\ quiet = TRUE

-----------------------------------------------------------------------------
\* The host a packet for dst is sent to, and its entry in the cache.
Route(dst) == IF dst \in Neighbours THEN dst ELSE Gateway
Entries(ip) == {i \in DOMAIN cache : cache[i].ip = ip}

\* arp_cache_add: an entry is replaced; a new one is lost if there is no room
CacheAdd(ip, mac) ==
  IF Entries(ip) # {} THEN [i \in DOMAIN cache |->
                             IF i \in Entries(ip) THEN [ip |-> ip, mac |-> mac]
                             ELSE cache[i]]
  ELSE IF Len(cache) < ARP_CACHE_N THEN Append(cache, [ip |-> ip, mac |-> mac])
  ELSE cache

\* arp_resolve sends a request for ip and waits.
AskArp_NotWaiting(ip) == asked' = asked \cup {ip} /\ UNCHANGED waiting
AskArp(ip) == asked' = asked \cup {ip} /\ waiting' = TRUE

\* The call on top of the stack, and the stack with it changed.
Top == Last(stack)
WithTop(f) == Append(Front(stack), f)

\* The frame of call f leaves for the card mac; echo answers are not followed.
Leaves(f, mac) ==
  IF f.op = "echo" THEN out
  ELSE Ne2000Send(out, [op |-> f.op, mac |-> mac, dst |-> f.dst, id |-> f.id,
                        ask |-> f.ask])

\* udp_recv sets the port it waits for and forgets what came before.
Receiving(f) == IF f.op = "dns" THEN [udp EXCEPT !.port = f.id, !.got = FALSE]
                ELSE udp

NextPing == [id |-> (ping.id + 1) % (Byte * Byte), ok |-> FALSE]

(***************************************************************************)
(* net_ping and dns_resolve up to their loops.  The frame leaves at once   *)
(* if the address is in the cache; otherwise arp_resolve waits for it.     *)
(***************************************************************************)
Call(op, dst) ==
  LET f == [op |-> op, dst |-> dst, id |-> IF op = "dns" THEN port ELSE NextPing.id,
            ask |-> calls + 1, st |-> "wait", poll |-> "no"]
      hit == Entries(Route(dst))
  IN  /\ stack = << >> /\ calls < MaxCalls /\ calls' = calls + 1
      /\ IF op = "dns" THEN port' = (port + 1) % Ports /\ UNCHANGED ping
         ELSE ping' = NextPing /\ UNCHANGED port
      /\ IF hit # {}
         THEN /\ \E i \in hit : out' = Leaves(f, cache[i].mac)
              /\ stack' = <<f>> /\ udp' = Receiving(f)
              /\ UNCHANGED <<asked, waiting>>
         ELSE /\ AskArp(Route(dst)) /\ stack' = <<[f EXCEPT !.st = "arp"]>>
              /\ UNCHANGED <<out, udp>>
      /\ UNCHANGED <<rx, cache, replyMac, last, card, knows, sent, echoed, quiet>>
NetPing == \E dst \in Hosts : Call("ping", dst)
DnsResolve == Call("dns", DnsServer)

-----------------------------------------------------------------------------
NextSlot(i) == (i + 1) % RX_RING

\* What the loop of the call on top waits for has not come.
Unanswered == CASE Top.st = "arp" -> waiting
                [] Top.st = "wait" /\ Top.op = "ping" -> ~ping.ok
                [] OTHER -> ~udp.got

(***************************************************************************)
(* net_poll first empties the card: each packet goes to the ring (net_rx), *)
(* and is dropped when the ring is full.  Packets arrive meanwhile.        *)
(***************************************************************************)
PollStart == /\ stack # << >> /\ Top.poll = "no" /\ Unanswered
             /\ stack' = WithTop([Top EXCEPT !.poll = "card"])
             /\ UNCHANGED <<rx, arp, ping, udp, port, last, calls, wire, quiet>>
NetRx ==
  LET full == NextSlot(tail) = head
  IN  /\ stack # << >> /\ Top.poll = "card" /\ TakePacket
      /\ IF full THEN UNCHANGED <<ring, tail>>
         ELSE ring' = [ring EXCEPT ![tail] = Polled] /\ tail' = NextSlot(tail)
      /\ quiet' = (quiet /\ ~full /\ ~IsReplay)
      /\ UNCHANGED <<head, arp, ping, udp, port, stack, last, calls, knows, asked, out,
                     sent, echoed>>
CardEmpty == /\ stack # << >> /\ Top.poll = "card" /\ LooksEmpty
             /\ stack' = WithTop([Top EXCEPT !.poll = "ring"])
             /\ UNCHANGED <<rx, arp, ping, udp, port, last, calls, wire, quiet>>

\* arp_process for a request to this machine: answered, and noted in the cache
ArpAsked_NotNoted(p) == knows' = knows \cup {p.src} /\ UNCHANGED cache
ArpAsked(p) == knows' = knows \cup {p.src} /\ cache' = CacheAdd(p.src, p.src)

\* ... and for an answer, of whatever host, while an answer is waited for
ArpAnswered(p) ==
  IF waiting THEN replyMac' = p.src /\ waiting' = FALSE /\ cache' = CacheAdd(p.src, p.src)
  ELSE UNCHANGED arp

\* icmp->id == htons(ping_id) || icmp->id == ping_id
Swapped(id) == (id % Byte) * Byte + id \div Byte
MyPing_Any(id) == TRUE
MyPing(id) == id = ping.id \/ Swapped(id) = ping.id

\* udp_process
UdpTaken(p) == IF ~udp.got /\ p.id = udp.port
               THEN [udp EXCEPT !.got = TRUE, !.data = p.ask] ELSE udp

\* A slot of the ring that was never written has length 0, too short for dispatch.
Kind(p) == IF p = NoPacket THEN "short" ELSE p.op

(***************************************************************************)
(* dispatch for the packet at rx_head, which is taken off afterwards.  An  *)
(* echo request from a host whose address is not known starts arp_resolve  *)
(* inside of it, with the packet still on the ring.  Any other is answered *)
(* or, without memory, ignored.                                            *)
(***************************************************************************)
Dispatch ==
  LET p == ring[head]
  IN  /\ stack # << >> /\ Top.poll = "ring" /\ head # tail
      /\ head' = NextSlot(head)
      /\ CASE Kind(p) = "arpReq" -> ArpAsked(p) /\ UNCHANGED <<waiting, replyMac, ping, udp>>
           [] Kind(p) = "arpRep" -> ArpAnswered(p) /\ UNCHANGED <<knows, ping, udp>>
           [] Kind(p) = "echoRep" ->
                /\ ping' = [ping EXCEPT !.ok = @ \/ MyPing(p.id)]
                /\ UNCHANGED <<arp, knows, udp>>
           [] Kind(p) = "udp" -> udp' = UdpTaken(p) /\ UNCHANGED <<arp, knows, ping>>
           [] OTHER -> UNCHANGED <<arp, knows, ping, udp>>
      /\ UNCHANGED <<ring, tail, port, stack, last, calls, card, asked, out, sent,
                     echoed, quiet>>
DispatchNested ==
  LET p == ring[head]
  IN  /\ stack # << >> /\ Top.poll = "ring" /\ head # tail
      /\ Kind(p) = "echoReq" /\ Entries(Route(p.src)) = {}
      /\ Len(stack) < MaxDepth
      /\ AskArp(Route(p.src))
      /\ stack' = Append(stack, [op |-> "echo", dst |-> p.src, id |-> p.id,
                                 ask |-> 0, st |-> "arp", poll |-> "no"])
      /\ UNCHANGED <<rx, cache, replyMac, ping, udp, port, last, calls, card, knows, out,
                     sent, echoed, quiet>>

\* The ring is empty: net_poll returns to the loop.
PollEnd == /\ stack # << >> /\ Top.poll = "ring" /\ head = tail
           /\ stack' = WithTop([Top EXCEPT !.poll = "no"])
           /\ UNCHANGED <<rx, arp, ping, udp, port, last, calls, wire, quiet>>

\* A nested call returns to the dispatch that made it, which takes its packet
\* off the ring; the call at the bottom returns r to the shell.
Back(r) == /\ stack' = Front(stack)
           /\ IF Len(stack) > 1 THEN head' = NextSlot(head) /\ UNCHANGED last
              ELSE last' = r /\ UNCHANGED head

Result(ok) == [op |-> Top.op, ask |-> Top.ask, ok |-> ok, data |-> udp.data]

\* The loop of arp_resolve ends: an answer has come, of whatever host ...
ArpResolved ==
  /\ stack # << >> /\ Top.poll = "no" /\ Top.st = "arp" /\ ~waiting
  /\ cache' = CacheAdd(Route(Top.dst), replyMac)
  /\ out' = Leaves(Top, replyMac)
  /\ IF Top.op = "echo" THEN Back(Result(TRUE)) /\ UNCHANGED udp
     ELSE /\ stack' = WithTop([Top EXCEPT !.st = "wait"])
          /\ udp' = Receiving(Top) /\ UNCHANGED <<head, last>>
  /\ UNCHANGED <<ring, tail, waiting, replyMac, ping, port, calls, card, knows, asked,
                 sent, echoed, quiet>>

\* ... or the deadline has passed; arp_waiting stays set.
ArpTimeout ==
  /\ stack # << >> /\ Top.poll = "no" /\ Top.st = "arp" /\ waiting
  /\ Back(Result(FALSE)) /\ quiet' = FALSE
  /\ UNCHANGED <<ring, tail, arp, ping, udp, port, calls, wire>>

\* The loop of net_ping ends, by the answer or the deadline.
PingReturns ==
  /\ stack # << >> /\ Top.poll = "no" /\ Top.st = "wait" /\ Top.op = "ping"
  /\ stack' = << >> /\ last' = Result(ping.ok)
  /\ UNCHANGED <<rx, arp, ping, udp, port, calls, wire, quiet>>

\* The loops of udp_recv and dns_resolve end; an answer may be an error.
DnsReturns ==
  /\ stack # << >> /\ Top.poll = "no" /\ Top.st = "wait" /\ Top.op = "dns"
  /\ stack' = << >>
  /\ \E found \in BOOLEAN : last' = Result(udp.got /\ found)
  /\ udp' = [udp EXCEPT !.got = FALSE]
  /\ UNCHANGED <<rx, arp, ping, port, calls, wire, quiet>>

-----------------------------------------------------------------------------
\* The hosts (external).  A packet of theirs reaches the card, or is lost there.
\* Requests may be long; ARP packets and the answers to this machine take a page.
Sizes(p) == IF p.op = "echoReq" THEN 1..MaxPages ELSE {1}
Arrives(p) == IF HasRoom THEN \E n \in Sizes(p) : CardTakes(p, n)
              ELSE UNCHANGED card
Own == <<rx, arp, ping, udp, port, stack, last, calls>>

\* A host answers an ARP request, and knows this machine from then on.
HostAnswersArp(h) ==
  /\ h \in asked /\ asked' = asked \ {h} /\ knows' = knows \cup {h}
  /\ Arrives(Packet("arpRep", h, 0, 0)) /\ quiet' = (quiet /\ HasRoom)
  /\ UNCHANGED <<Own, out, sent, echoed>>

\* A host sends of its own: an ARP request until it knows this machine, then echo
\* requests; those of far hosts come through the gateway.  A host that knows it
\* from before it was booted may send echo requests at once.
HostSends(h) ==
  /\ sent < MaxSent /\ sent' = sent + 1
  /\ \/ /\ h \in Neighbours \ knows /\ Arrives(Packet("arpReq", h, 0, 0))
        /\ quiet' = (quiet /\ HasRoom)
     \/ /\ Route(h) \in knows \cup Remember /\ Arrives(Packet("echoReq", h, 0, 0))
        /\ quiet' = (quiet /\ HasRoom /\ Route(h) \in knows)
  /\ UNCHANGED <<Own, knows, asked, out, echoed>>

\* A frame reaches the card it was sent to; a host answers what is for it, and
\* the gateway forwards; other hosts drop it.
HostTakes(f) ==
  LET mine == f.mac = Route(f.dst)
  IN  /\ f \in out /\ out' = out \ {f}
      /\ IF mine THEN Arrives(IF f.op = "ping" THEN Packet("echoRep", f.dst, f.id, f.ask)
                              ELSE Packet("udp", f.dst, f.id, f.ask))
         ELSE UNCHANGED card
      /\ quiet' = (quiet /\ (mine => HasRoom))
      /\ echoed' = IF mine THEN echoed \cup {f.ask} ELSE echoed
      /\ UNCHANGED <<Own, knows, asked, sent>>

Next == \/ NetPing \/ DnsResolve
        \/ PollStart \/ NetRx \/ CardEmpty \/ Dispatch \/ DispatchNested \/ PollEnd
        \/ ArpResolved \/ ArpTimeout \/ PingReturns \/ DnsReturns
        \/ \E h \in Hosts : HostAnswersArp(h) \/ HostSends(h)
        \/ \E f \in out : HostTakes(f)

Spec == Init /\ [][Next]_vars

-----------------------------------------------------------------------------
(***************************************************************************)
(* Until the card has gone once round its ring, ne2000_poll hands out the  *)
(* packets in the order they came, each once, however long they are. From  *)
(* then on, if every packet took one page, the i-th one it hands out is    *)
(* the i-th that came or the one a whole ring before it, which it had      *)
(* handed out or passed over: the page after BNDRY holds an old packet     *)
(* when it holds no new one, and the next new one comes to lie behind      *)
(* BNDRY. With longer packets the old page may be the middle of one, and   *)
(* nothing is said of what is handed out.                                  *)
(***************************************************************************)
OneLapLate ==
  given.n > 0 => \/ given.no = given.n
                 \/ /\ written >= PSTOP
                    /\ written = accepted => given.no = given.n - PSTOP

(***************************************************************************)
(* A ping that is reported as answered was answered by the host it went    *)
(* to, and a name that is resolved was resolved by the answer to its own   *)
(* query: not by a late answer to an earlier one, a packet the ring or the *)
(* card replays, or a host that got the frame by a wrong cache entry.      *)
(***************************************************************************)
OwnAnswer ==
  last.ok => IF last.op = "ping" THEN last.ask \in echoed
             ELSE last.data = last.ask /\ last.ask \in echoed

\* All neighbours fit the ARP cache.
CacheFits == Cardinality(Neighbours) <= ARP_CACHE_N

(***************************************************************************)
(* As long as no resolution was given up, no packet dropped or replayed    *)
(* and no echo request came from a neighbour, or through one, that this    *)
(* machine has not exchanged ARP packets with since it was booted, and all *)
(* neighbours fit the cache, every entry of the cache has the address of   *)
(* its host. (arp_process takes any answer for the one waited for: after a *)
(* timeout, or in a resolution nested in another, the answer of one host   *)
(* is entered for another, and entries never expire.)                      *)
(***************************************************************************)
CacheTrue ==
  (quiet /\ CacheFits) => \A i \in DOMAIN cache : cache[i].mac = cache[i].ip

(***************************************************************************)
(* Under the same conditions no handler polls inside of net_poll: a host   *)
(* that sends an echo request has its address in the cache by the time it  *)
(* is dispatched. Otherwise the echo request, still at rx_head, is         *)
(* dispatched again by every nested net_poll, without end.                 *)
(***************************************************************************)
NoReentry == (quiet /\ CacheFits) => Len(stack) <= 1
=============================================================================
