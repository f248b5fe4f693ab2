------------------------------- MODULE Ne2000 -------------------------------
(***************************************************************************)
(* The receive ring of the NE2000 card and its driver,                     *)
(* src/drivers/ne2000.c.  The card writes packets at CURR; the driver      *)
(* reads at the page after BNDRY, and moves BNDRY to the last page it has  *)
(* read.  BNDRY and CURR being equal means an empty ring to both.          *)
(*                                                                         *)
(* Pages count from PSTART.  A packet takes one page or several; its first *)
(* page begins with a header, which names the page after the packet.  The  *)
(* driver does not know where a packet begins: it takes what lies at the   *)
(* page after BNDRY for a header, and that may be the middle of a packet.  *)
(* The card is external: a packet it has no room for is lost, and its      *)
(* memory is zero at the start.                                            *)
(***************************************************************************)
EXTENDS Integers

CONSTANTS PSTOP,         \* pages of the ring, 52 in the code
          Reserve,       \* pages the card keeps free for the packet it receives
          MaxPages,      \* pages of the longest packet, 6 on Ethernet
          MaxNext,       \* the largest page a byte can name, 255 - PSTART
          MaxArrivals,   \* packets that arrive, at most
          MaxTaken,      \* packets the driver takes, at most
          NoPacket       \* an unwritten page: its header has length 0

ASSUME Ne2000Assumption == /\ Reserve \in Nat \ {0, 1} /\ PSTOP \in Nat /\ PSTOP > Reserve
                           /\ MaxPages \in 1..Reserve /\ MaxNext \in Nat /\ MaxNext >= PSTOP

VARIABLES page, curr, bndry, \* the card's memory, CURR and BNDRY
          accepted, written, \* packets and pages the card has written so far
          given              \* ne2000_poll's packets: how many, the last one's number

card == <<page, curr, bndry, accepted, written, given>>

Pages == 0..(PSTOP - 1)

\* ne2000_init
CardInit == /\ page = [i \in Pages |-> NoPacket] /\ curr = 1 /\ bndry = 0
            /\ accepted = 0 /\ written = 0 /\ given = [n |-> 0, no |-> 0]

\* ne2000_send: the frame is copied to the card and transmitted; the driver
\* waits for the card to say so, but not for ever.
Ne2000Send(frames, f) == frames \cup {f}

\* The page n pages after i.
PageOn(i, n) == IF i + n >= PSTOP THEN i + n - PSTOP ELSE i + n

\* A page in the middle of a packet: as a header it may say anything.
Body == [no |-> 0, packet |-> NoPacket, next |-> 0]

\* The card (external): a packet of n pages arrives, and is written if there is room.
Avail == IF curr < bndry THEN bndry - curr ELSE PSTOP - (curr - bndry)
HasRoom == Avail >= Reserve
CardTakes(p, n) ==
  /\ accepted < MaxArrivals
  /\ page' = [i \in Pages |->
                IF i = curr
                THEN [no |-> accepted + 1, packet |-> p, next |-> PageOn(curr, n)]
                ELSE IF \E k \in 1..(n - 1) : i = PageOn(curr, k) THEN Body ELSE page[i]]
  /\ curr' = PageOn(curr, n) /\ accepted' = accepted + 1 /\ written' = written + n
  /\ UNCHANGED <<bndry, given>>

\* ne2000_poll returns 1: what the page after BNDRY holds is taken for a packet,
\* and BNDRY moves to the page before the one its header names, whatever that is.
Following == IF bndry + 1 >= PSTOP THEN 0 ELSE bndry + 1
HasPacket == curr # bndry /\ page[Following] # NoPacket
Polled == page[Following].packet
Named == IF page[Following] = Body THEN 0..MaxNext ELSE {page[Following].next}
NextBndry_Header(next) == next
NextBndry(next) == IF next > 0 THEN next - 1 ELSE PSTOP - 1
TakePacket == /\ HasPacket /\ given.n < MaxTaken
              /\ \E next \in Named : bndry' = NextBndry(next)
              /\ given' = [n |-> given.n + 1, no |-> page[Following].no]
              /\ UNCHANGED <<page, curr, accepted, written>>

\* ne2000_poll may return 0: the ring is empty to it, or the length it reads is
\* below 4.
LooksEmpty == ~HasPacket \/ page[Following] = Body

\* What it is about to take is not the next packet, but one the driver has passed
\* before or the middle of one.
IsReplay == page[Following].no # given.n + 1
=============================================================================
