------------------------------ MODULE CurlProofs ------------------------------
(***************************************************************************)
(* Proofs about the TCP client and the command curl: for every number of   *)
(* ports, every size of rx_buf, of reads, of the stream and of paddings,   *)
(* any number of segments on the wire and of losses and repetitions, and   *)
(* as many connections as there are ports.                                 *)
(***************************************************************************)
EXTENDS Curl, FiniteSetTheorems, SequenceTheorems, WellFoundedInduction, TLAPS

-----------------------------------------------------------------------------
(* Segments, the connection block and the peers as values. *)
States == {"CLOSED", "SYN_SENT", "ESTABLISHED", "CLOSING"}
Flags == {"SYN", "ACK", "PSH", "FIN", "RST"}
Segs == [port : Ports, conn : Nat, flags : SUBSET Flags, seq : Nat,
         dlen : Nat]
Blocks == [state : States, sport : Ports, seq : Nat, ack : Nat,
           rx : Seq(Nat \X Nat), read : Nat, conn : Nat]
Peers == [st : {"listen", "syn", "est", "fin", "gone"}, next : Nat,
          conn : Nat]

(***************************************************************************)
(* The inductive invariant.  Connection k has port k - 1.  Good says it of *)
(* a block t and the segments out sent to the server, when the first i     *)
(* segments of toClient have been processed: the state between two calls   *)
(* of tcp_process in one net_poll, and with ts, toServer and 0 the state   *)
(* between two steps.                                                      *)
(***************************************************************************)
OwnPort(s) == s.conn \in 1..connects /\ s.port = s.conn - 1

BlockFine(t) ==
  /\ t \in Blocks /\ Len(t.rx) < RxBuf /\ t.read <= Len(t.rx)
  /\ t.conn = connects
  /\ connects > 0 => t.sport = connects - 1
  /\ t.state # "CLOSED" => connects > 0
  /\ t.state = "ESTABLISHED" => server[t.sport].st # "listen"
  /\ handed = SubSeq(t.rx, 1, t.read)
  /\ \A j \in 1..Len(t.rx) : t.rx[j][1] = connects

OutFine(out) == /\ out \in Seq(Segs)
                /\ \A j \in 1..Len(out) : OwnPort(out[j])

Arrives(s) == /\ OwnPort(s) /\ server[s.port].st # "listen"
              /\ "SYN" \in s.flags => s.seq = 0 /\ s.dlen = 0
              /\ s.dlen <= MaxSeg
InFine == /\ toClient \in Seq(Segs)
          /\ \A j \in 1..Len(toClient) : Arrives(toClient[j])

PeersFine ==
  /\ server \in [Ports -> Peers]
  /\ \A p \in Ports : /\ server[p].st = "listen" => server[p].next = 1
                      /\ server[p].st # "listen" =>
                           p + 1 <= connects /\ server[p].conn = p + 1

CountFine == /\ eph \in Ports /\ connects \in 0..MaxConnects
             /\ connects < NPorts => eph = connects
             /\ pc \in Waiting \cup {"idle"} /\ pad \in Nat /\ faults \in Nat

(* On a faithful wire: the SYN of this connection is sent once; while the  *)
(* server has not taken it there is nothing from it; and the data on the   *)
(* wire are the units d + 1, d + 2, ... in order, up to the last sent,     *)
(* however they are cut into segments.                                     *)
IsSyn(s, p) == "SYN" \in s.flags /\ s.port = p
IsData(s, p) == s.port = p /\ s.dlen > 0

SynOnce(t, out) ==
  \A j \in 1..Len(out) : IsSyn(out[j], t.sport) =>
    /\ server[t.sport].st = "listen"
    /\ \A k \in 1..Len(out) : IsSyn(out[k], t.sport) => k = j

Opening(t, out) ==
  t.state = "SYN_SENT" =>
    /\ server[t.sport].st # "est" /\ server[t.sport].next = 1 /\ t.rx = << >>
    /\ \A j \in 1..Len(out) : out[j].port = t.sport => "SYN" \in out[j].flags

Window(w, i, p, next, d) ==
  /\ d < next
  /\ \A j \in (i + 1)..Len(w) : IsData(w[j], p) =>
       w[j].seq \in (d + 1)..(next - 1) /\ w[j].seq + w[j].dlen <= next
  /\ \A m \in (d + 1)..(next - 1) :
       \E j \in (i + 1)..Len(w) :
         IsData(w[j], p) /\ w[j].seq <= m /\ m < w[j].seq + w[j].dlen
  /\ \A j, k \in (i + 1)..Len(w) :
       (j < k /\ IsData(w[j], p) /\ IsData(w[k], p)) => w[j].seq + w[j].dlen <= w[k].seq

(* Of the first d units all are stored, until the longest segment may not  *)
(* fit; none behind them is.                                               *)
NoneBehind(rx, d) == \A i \in Units(rx) : rx[i][2] <= d
Stored(rx, d) ==
  /\ NoneBehind(rx, d) /\ Cardinality(Units(rx)) <= d
  /\ Cardinality(Units(rx)) = d \/ Len(rx) + MaxSeg >= RxBuf
Got(t, d) ==
  /\ Stored(t.rx, d)
  /\ (t.state = "ESTABLISHED" /\ pad = 0) => t.ack = d + 1

Streaming(t, i) ==
  t.state \in {"SYN_SENT", "ESTABLISHED"} =>
    \E d \in Nat : Window(toClient, i, t.sport, server[t.sport].next, d) /\ Got(t, d)

UpTo(rx, i) == {j \in Units(rx) : j <= i}
InOrder(rx) ==
  /\ \A i, j \in Units(rx) : i < j => rx[i][2] < rx[j][2]
  /\ \A i \in Units(rx) : i + MaxSeg <= RxBuf => rx[i][2] = Cardinality(UpTo(rx, i))
  /\ pad = 0 => Units(rx) = DOMAIN rx

Good(t, out, i) ==
  /\ BlockFine(t) /\ OutFine(out)
  /\ Faithful => /\ SynOnce(t, out) /\ Opening(t, out)
                 /\ Streaming(t, i) /\ InOrder(t.rx)

Around == InFine /\ PeersFine /\ CountFine
Inv == Good(ts, toServer, 0) /\ Around

-----------------------------------------------------------------------------
(* The window of data on the wire. *)
LEMMA WindowSkips ==
  ASSUME NEW w \in Seq(Segs), NEW i \in 0..(Len(w) - 1), NEW p, NEW next \in Nat,
         NEW d \in Nat, Window(w, i, p, next, d), ~IsData(w[i + 1], p)
  PROVE  Window(w, i + 1, p, next, d)
<1>1. Len(w) \in Nat
  BY LenProperties
<1>2. \A j : j \in ((i + 1) + 1)..Len(w) => j \in (i + 1)..Len(w)
  BY <1>1
<1>3. \A j \in (i + 1)..Len(w) : j = i + 1 \/ j \in ((i + 1) + 1)..Len(w)
  BY <1>1
<1> QED BY <1>2, <1>3 DEF Window

(* The first data in it begin with the next unit. *)
LEMMA WindowTakes ==
  ASSUME NEW w \in Seq(Segs), NEW i \in 0..(Len(w) - 1), NEW p, NEW next \in Nat,
         NEW d \in Nat, Window(w, i, p, next, d), IsData(w[i + 1], p)
  PROVE  w[i + 1].seq = d + 1 /\ Window(w, i + 1, p, next, d + w[i + 1].dlen)
<1>1. Len(w) \in Nat /\ i + 1 \in (i + 1)..Len(w)
  BY LenProperties
<1>2. \A j \in (i + 1)..Len(w) : w[j].seq \in Nat /\ w[j].dlen \in Nat
  <2>1. \A j \in 1..Len(w) : w[j] \in Segs
    BY ElementOfSeq
  <2> QED BY <1>1, <2>1, SMTT(60) DEF Segs
<1>3. \A j : j \in ((i + 1) + 1)..Len(w) => j \in (i + 1)..Len(w) /\ i + 1 < j
  BY <1>1
<1>4. \A j \in (i + 1)..Len(w) : j = i + 1 \/ j \in ((i + 1) + 1)..Len(w)
  BY <1>1
<1>a. PICK n \in Nat : n = w[i + 1].dlen /\ n > 0
  BY <1>1, <1>2 DEF IsData
<1>5. w[i + 1].seq \in (d + 1)..(next - 1) /\ w[i + 1].seq + n <= next
  BY <1>1, <1>a DEF Window
<1>6. w[i + 1].seq = d + 1
  <2>1. d + 1 \in (d + 1)..(next - 1)
    BY <1>5
  <2>2. PICK j \in (i + 1)..Len(w) : IsData(w[j], p) /\ w[j].seq <= d + 1
    BY <2>1 DEF Window
  <2>3. CASE j = i + 1
    BY <1>5, <2>2, <2>3
  <2>4. CASE j # i + 1
    <3>1. i + 1 < j
      BY <1>3, <1>4, <2>4
    <3>2. w[i + 1].seq + n <= w[j].seq
      BY <1>1, <1>a, <2>2, <3>1 DEF Window
    <3> QED BY <1>1, <1>2, <1>5, <1>a, <2>2, <3>2
  <2> QED BY <2>3, <2>4
<1>7. (d + n) < next
  BY <1>5, <1>6
<1>8. ASSUME NEW j \in ((i + 1) + 1)..Len(w), IsData(w[j], p)
      PROVE  w[j].seq \in ((d + n) + 1)..(next - 1) /\ w[j].seq + w[j].dlen <= next
  <2>1. /\ w[j].seq \in (d + 1)..(next - 1) /\ w[i + 1].seq + n <= w[j].seq
        /\ w[j].seq + w[j].dlen <= next
    BY <1>1, <1>3, <1>8, <1>a DEF Window
  <2> QED BY <1>6, <2>1
<1>9. ASSUME NEW m \in ((d + n) + 1)..(next - 1)
      PROVE  \E j \in ((i + 1) + 1)..Len(w) :
               IsData(w[j], p) /\ w[j].seq <= m /\ m < w[j].seq + w[j].dlen
  <2>1. m \in (d + 1)..(next - 1) /\ m >= (d + 1) + n
    OBVIOUS
  <2>2. PICK j \in (i + 1)..Len(w) :
          IsData(w[j], p) /\ w[j].seq <= m /\ m < w[j].seq + w[j].dlen
    BY <2>1 DEF Window
  <2>3. j # i + 1
    BY <1>6, <1>a, <2>1, <2>2
  <2> QED BY <1>4, <2>2, <2>3
<1>10. \A j, k \in ((i + 1) + 1)..Len(w) :
         (j < k /\ IsData(w[j], p) /\ IsData(w[k], p)) =>
           w[j].seq + w[j].dlen <= w[k].seq
  BY <1>3 DEF Window
<1>11. Window(w, i + 1, p, next, d + n)
  BY <1>7, <1>8, <1>9, <1>10 DEF Window
<1> QED BY <1>6, <1>11, <1>a

(* Processed segments leave the wire. *)
LEMMA WindowShifts ==
  ASSUME NEW w \in Seq(Segs), NEW n \in 0..Len(w), NEW p, NEW next \in Nat,
         NEW d \in Nat, Window(w, n, p, next, d)
  PROVE  Window(SubSeq(w, n + 1, Len(w)), 0, p, next, d)
<1> DEFINE v == SubSeq(w, n + 1, Len(w))
<1>1. Len(w) \in Nat
  BY LenProperties
<1>2. Len(v) = Len(w) - n /\ \A j \in 1..Len(v) : v[j] = w[n + j]
  BY <1>1
<1> HIDE DEF v
<1>3. \A j : j \in (0 + 1)..Len(v) => n + j \in (n + 1)..Len(w) /\ v[j] = w[n + j]
  BY <1>1, <1>2
<1>4. \A m \in (n + 1)..Len(w) : m - n \in (0 + 1)..Len(v) /\ v[m - n] = w[m]
  BY <1>1, <1>2
<1>5. ASSUME NEW m \in (d + 1)..(next - 1)
      PROVE  \E j \in (0 + 1)..Len(v) :
               IsData(v[j], p) /\ v[j].seq <= m /\ m < v[j].seq + v[j].dlen
  <2>1. PICK j \in (n + 1)..Len(w) :
          IsData(w[j], p) /\ w[j].seq <= m /\ m < w[j].seq + w[j].dlen
    BY DEF Window
  <2>2. j - n \in (0 + 1)..Len(v) /\ v[j - n] = w[j]
    BY <1>4
  <2> QED BY <2>1, <2>2
<1>6. ASSUME NEW j \in (0 + 1)..Len(v), NEW k \in (0 + 1)..Len(v), j < k,
             IsData(v[j], p), IsData(v[k], p)
      PROVE  v[j].seq + v[j].dlen <= v[k].seq
  <2>1. PICK jj, kk : jj = n + j /\ kk = n + k
    OBVIOUS
  <2>2. jj \in (n + 1)..Len(w) /\ v[j] = w[jj]
    BY <1>3, <2>1
  <2>3. kk \in (n + 1)..Len(w) /\ v[k] = w[kk]
    BY <1>3, <2>1
  <2>4. j \in Nat /\ k \in Nat
    BY <1>1, <1>2
  <2>5. jj < kk
    BY <1>6, <2>1, <2>4
  <2> QED BY <1>6, <2>2, <2>3, <2>5 DEF Window
<1>7. \A j \in (0 + 1)..Len(v) : IsData(v[j], p) =>
        v[j].seq \in (d + 1)..(next - 1) /\ v[j].seq + v[j].dlen <= next
  BY <1>3 DEF Window
<1>8. d < next
  BY DEF Window
<1> QED BY <1>5, <1>6, <1>7, <1>8 DEF Window, v

(* A segment more on the wire: no data of this connection, or the next. *)
LEMMA WindowGrows ==
  ASSUME NEW w \in Seq(Segs), NEW g \in Segs, NEW p, NEW next \in Nat, NEW d \in Nat,
         Window(w, 0, p, next, d)
  PROVE  /\ ~IsData(g, p) => Window(Append(w, g), 0, p, next, d)
         /\ IsData(g, p) /\ g.seq = next => Window(Append(w, g), 0, p, next + g.dlen, d)
<1> DEFINE v == Append(w, g)
<1>1. Len(w) \in Nat /\ d < next
  BY LenProperties DEF Window
<1>2. Len(v) = Len(w) + 1 /\ v[Len(v)] = g /\ \A j \in 1..Len(w) : v[j] = w[j]
  BY AppendProperties
<1> HIDE DEF v
<1>3. \A j \in (0 + 1)..Len(v) :
        \/ j = Len(v) /\ v[j] = g
        \/ j \in (0 + 1)..Len(w) /\ v[j] = w[j] /\ j < Len(v)
  BY <1>1, <1>2
<1>4. \A j \in (0 + 1)..Len(w) : j \in (0 + 1)..Len(v) /\ v[j] = w[j]
  BY <1>1, <1>2
<1>5. Len(v) \in (0 + 1)..Len(v)
  BY <1>1, <1>2
<1>6. ASSUME ~IsData(g, p) PROVE Window(v, 0, p, next, d)
  BY <1>1, <1>3, <1>4, <1>6 DEF Window
<1>7. ASSUME IsData(g, p), g.seq = next PROVE Window(v, 0, p, next + g.dlen, d)
  <2>a. PICK n \in Nat : n = g.dlen /\ n > 0
    BY <1>7 DEF IsData, Segs
  <2>b. \A j \in (0 + 1)..Len(w) : w[j].seq \in Nat /\ w[j].dlen \in Nat
    <3>1. \A j \in 1..Len(w) : w[j] \in Segs
      BY ElementOfSeq
    <3> QED BY <1>1, <3>1, SMTT(60) DEF Segs
  <2>1. d < next + n
    BY <1>1
  <2>2. ASSUME NEW j \in (0 + 1)..Len(v), IsData(v[j], p)
        PROVE  v[j].seq \in (d + 1)..((next + n) - 1) /\ v[j].seq + v[j].dlen <= next + n
    <3>1. CASE j = Len(v) /\ v[j] = g
      BY <1>1, <1>7, <2>a, <3>1
    <3>2. CASE j \in (0 + 1)..Len(w) /\ v[j] = w[j]
      <4>1. w[j].seq \in (d + 1)..(next - 1) /\ w[j].seq + w[j].dlen <= next
        BY <2>2, <3>2 DEF Window
      <4> QED BY <2>b, <3>2, <4>1
    <3> QED BY <1>3, <3>1, <3>2
  <2>3. ASSUME NEW m \in (d + 1)..((next + n) - 1)
        PROVE  \E j \in (0 + 1)..Len(v) :
                 IsData(v[j], p) /\ v[j].seq <= m /\ m < v[j].seq + v[j].dlen
    <3>1. CASE m >= next
      <4>1. g.seq <= m /\ m < g.seq + g.dlen
        BY <1>1, <1>7, <2>a, <3>1
      <4> QED BY <1>2, <1>5, <1>7, <4>1
    <3>2. CASE ~(m >= next)
      <4>1. m \in (d + 1)..(next - 1)
        BY <3>2
      <4>2. PICK j \in (0 + 1)..Len(w) :
              IsData(w[j], p) /\ w[j].seq <= m /\ m < w[j].seq + w[j].dlen
        BY <4>1 DEF Window
      <4> QED BY <1>4, <4>2
    <3> QED BY <3>1, <3>2
  <2>4. ASSUME NEW j \in (0 + 1)..Len(v), NEW k \in (0 + 1)..Len(v), j < k,
               IsData(v[j], p), IsData(v[k], p)
        PROVE  v[j].seq + v[j].dlen <= v[k].seq
    <3>1. j \in (0 + 1)..Len(w) /\ v[j] = w[j]
      BY <1>1, <1>2, <1>3, <2>4
    <3>2. CASE k = Len(v) /\ v[k] = g
      <4>1. w[j].seq + w[j].dlen <= next
        BY <2>4, <3>1 DEF Window
      <4> QED BY <1>7, <3>1, <3>2, <4>1
    <3>3. CASE k \in (0 + 1)..Len(w) /\ v[k] = w[k]
      BY <2>4, <3>1, <3>3 DEF Window
    <3> QED BY <1>3, <3>2, <3>3
  <2>5. Window(v, 0, p, next + n, d)
    BY <2>1, <2>2, <2>3, <2>4 DEF Window
  <2> QED BY <2>a, <2>5
<1> QED BY <1>6, <1>7 DEF v

(* At the beginning it is empty. *)
LEMMA WindowOpens ==
  ASSUME NEW w \in Seq(Segs), NEW p, \A j \in 1..Len(w) : ~IsData(w[j], p)
  PROVE  Window(w, 0, p, 1, 0)
<1>1. \A j \in (0 + 1)..Len(w) : ~IsData(w[j], p)
  OBVIOUS
<1> QED BY <1>1 DEF Window

-----------------------------------------------------------------------------
(* What is received. *)
Bytes == Nat \X Nat

LEMMA UnitsFinite ==
  ASSUME NEW rx \in Seq(Bytes)
  PROVE  /\ Len(rx) \in Nat /\ DOMAIN rx = 1..Len(rx)
         /\ IsFiniteSet(Units(rx)) /\ Cardinality(Units(rx)) \in Nat
         /\ Units(rx) \subseteq 1..Len(rx)
<1>1. Len(rx) \in Nat /\ DOMAIN rx = 1..Len(rx)
  BY LenProperties
<1>2. Units(rx) \subseteq 1..Len(rx)
  BY <1>1 DEF Units
<1>3. IsFiniteSet(1..Len(rx))
  BY <1>1, FS_Interval
<1> QED BY <1>1, <1>2, <1>3, FS_Subset, FS_CardinalityType

(* The units of a concatenation, up to the end of its first part. *)
LEMMA UnitsOfPart ==
  ASSUME NEW rx \in Seq(Bytes), NEW data \in Seq(Bytes)
  PROVE  LET r == rx \o data
         IN  /\ r \in Seq(Bytes) /\ Len(r) = Len(rx) + Len(data)
             /\ DOMAIN r = 1..(Len(rx) + Len(data))
             /\ \A i \in 1..Len(rx) : r[i] = rx[i]
             /\ \A i \in 1..Len(data) : r[Len(rx) + i] = data[i]
             /\ \A i \in 1..Len(rx) : /\ i \in Units(r) <=> i \in Units(rx)
                                      /\ UpTo(r, i) = UpTo(rx, i)
<1> DEFINE r == rx \o data
<1>1. Len(rx) \in Nat /\ DOMAIN rx = 1..Len(rx) /\ Len(data) \in Nat
  BY LenProperties
<1>2. /\ r \in Seq(Bytes) /\ Len(r) = Len(rx) + Len(data)
      /\ \A i \in 1..(Len(rx) + Len(data)) :
           r[i] = IF i <= Len(rx) THEN rx[i] ELSE data[i - Len(rx)]
  BY ConcatProperties
<1>3. DOMAIN r = 1..(Len(rx) + Len(data))
  BY <1>2, LenProperties
<1> HIDE DEF r
<1>4. \A i \in 1..Len(rx) : i \in 1..(Len(rx) + Len(data)) /\ r[i] = rx[i]
  BY <1>1, <1>2
<1>5. ASSUME NEW i \in 1..Len(data) PROVE r[Len(rx) + i] = data[i]
  <2>1. PICK k : k = Len(rx) + i
    OBVIOUS
  <2>2. k \in 1..(Len(rx) + Len(data)) /\ ~(k <= Len(rx)) /\ k - Len(rx) = i
    BY <1>1, <2>1
  <2> QED BY <1>2, <2>1, <2>2
<1>6. \A i \in 1..Len(rx) : i \in Units(r) <=> i \in Units(rx)
  BY <1>1, <1>3, <1>4 DEF Units
<1>7. ASSUME NEW i \in 1..Len(rx) PROVE UpTo(r, i) = UpTo(rx, i)
  <2>1. \A j \in Units(r) : j <= i => j \in 1..Len(rx)
    BY <1>1, <1>3 DEF Units
  <2>2. \A j \in Units(rx) : j \in 1..Len(rx)
    BY <1>1 DEF Units
  <2> QED BY <1>6, <2>1, <2>2 DEF UpTo
<1> QED BY <1>2, <1>3, <1>4, <1>5, <1>6, <1>7 DEF r

(* The next units of data keep the order. *)
LEMMA OrderWithData ==
  ASSUME NEW rx \in Seq(Bytes), InOrder(rx), NEW d \in Nat, Stored(rx, d),
         NEW data \in Seq(Bytes), \A i \in 1..Len(data) : data[i][2] = d + i
  PROVE  /\ InOrder(rx \o data) /\ NoneBehind(rx \o data, d + Len(data))
         /\ Cardinality(Units(rx \o data)) = Cardinality(Units(rx)) + Len(data)
<1>1. PICK r : r = rx \o data
  OBVIOUS
<1>2. PICK n \in Nat, m \in Nat : n = Len(rx) /\ m = Len(data)
  BY LenProperties
<1>b. \A i \in 1..Len(rx) : rx[i][2] \in Nat
  <2>1. \A i \in 1..Len(rx) : rx[i] \in Bytes
    BY ElementOfSeq
  <2> QED BY <2>1 DEF Bytes
<1>3. PICK k \in Nat : k = Cardinality(Units(rx)) /\ k <= d /\ (k = d \/ n + MaxSeg >= RxBuf)
  BY <1>2, UnitsFinite DEF Stored
<1>4. /\ r \in Seq(Bytes) /\ DOMAIN r = 1..(n + m)
      /\ \A i \in 1..m : r[n + i] = data[i]
      /\ \A i \in 1..n : /\ r[i] = rx[i] /\ (i \in Units(r) <=> i \in Units(rx))
                         /\ UpTo(r, i) = UpTo(rx, i)
  BY <1>1, <1>2, UnitsOfPart
<1>5. Units(rx) \subseteq 1..n /\ IsFiniteSet(Units(rx))
  BY <1>2, UnitsFinite
<1>6. ASSUME NEW a \in 1..m
      PROVE  n + a \in Units(r) /\ r[n + a][2] = d + a
  <2>1. r[n + a][2] = d + a /\ d + a # 0 /\ n + a \in 1..(n + m)
    BY <1>2, <1>4
  <2> QED BY <1>4, <2>1 DEF Units
<1>7. ASSUME NEW i \in Units(r)
      PROVE  \/ i \in 1..n /\ i \in Units(rx) /\ r[i] = rx[i]
             \/ \E a \in 1..m : i = n + a
  <2>1. i \in 1..(n + m)
    BY <1>4 DEF Units
  <2>2. CASE i <= n
    BY <1>4, <2>1, <2>2
  <2>3. CASE ~(i <= n)
    <3>1. i - n \in 1..m /\ i = n + (i - n)
      BY <2>1, <2>3
    <3> QED BY <3>1
  <2> QED BY <2>2, <2>3
(* Up to the a-th of the new units. *)
<1>8. ASSUME NEW a \in 0..m
      PROVE  /\ UpTo(r, n + a) = Units(rx) \cup ((n + 1)..(n + a))
             /\ Cardinality(UpTo(r, n + a)) = k + a
  <2>1. ASSUME NEW j \in UpTo(r, n + a) PROVE j \in Units(rx) \/ j \in (n + 1)..(n + a)
    <3>1. j \in Units(r) /\ j <= n + a
      BY DEF UpTo
    <3> QED BY <1>7, <3>1
  <2>2. ASSUME NEW j \in Units(rx) PROVE j \in UpTo(r, n + a)
    <3>1. j \in 1..n
      BY <1>5
    <3> QED BY <1>4, <3>1 DEF UpTo
  <2>3. ASSUME NEW j \in (n + 1)..(n + a) PROVE j \in UpTo(r, n + a)
    <3>1. j - n \in 1..m /\ j = n + (j - n) /\ j <= n + a
      OBVIOUS
    <3>2. j \in Units(r)
      BY <1>6, <3>1
    <3> QED BY <3>1, <3>2 DEF UpTo
  <2>4. UpTo(r, n + a) = Units(rx) \cup ((n + 1)..(n + a))
    BY <2>1, <2>2, <2>3
  <2>5. /\ IsFiniteSet((n + 1)..(n + a))
        /\ Cardinality((n + 1)..(n + a)) = a
    <3>1. /\ IsFiniteSet((n + 1)..(n + a))
          /\ Cardinality((n + 1)..(n + a)) =
               IF n + 1 > n + a THEN 0 ELSE (n + a) - (n + 1) + 1
      BY FS_Interval
    <3> QED BY <3>1
  <2>6. Units(rx) \cap ((n + 1)..(n + a)) = {}
    BY <1>5
  <2>7. Cardinality(Units(rx) \cup ((n + 1)..(n + a))) = k + a
    <3>1. PICK A, B : A = Units(rx) /\ B = (n + 1)..(n + a)
      OBVIOUS
    <3>2. /\ IsFiniteSet(A) /\ IsFiniteSet(B) /\ A \cap B = {}
          /\ Cardinality(A) = k /\ Cardinality(B) = a
      BY <1>3, <1>5, <2>5, <2>6, <3>1
    <3>3. Cardinality(A \cup B) = Cardinality(A) + Cardinality(B) - Cardinality(A \cap B)
      BY <3>2, FS_Union
    <3>a. Cardinality(A \cap B) = 0
      BY <3>2, FS_EmptySet
    <3>4. Cardinality(A \cup B) = k + a
      BY <3>2, <3>3, <3>a
    <3> QED BY <3>1, <3>4
  <2> QED BY <2>4, <2>7
<1>9. Cardinality(Units(r)) = k + m
  <2>1. Units(r) = UpTo(r, n + m)
    BY <1>4 DEF UpTo, Units
  <2> QED BY <1>8, <2>1
<1>10. NoneBehind(r, d + m)
  <2>1. ASSUME NEW i \in Units(r) PROVE r[i][2] <= d + m
    <3>1. CASE i \in 1..n /\ i \in Units(rx) /\ r[i] = rx[i]
      <4>1. rx[i][2] <= d /\ rx[i][2] \in Nat
        BY <1>2, <1>b, <3>1 DEF Stored, NoneBehind
      <4> QED BY <3>1, <4>1
    <3>2. CASE \E a \in 1..m : i = n + a
      <4>1. PICK a \in 1..m : i = n + a
        BY <3>2
      <4>2. r[i][2] = d + a
        BY <1>6, <4>1
      <4> QED BY <4>1, <4>2
    <3> QED BY <1>7, <3>1, <3>2
  <2> QED BY <2>1 DEF NoneBehind
<1>11. ASSUME NEW i \in Units(r), NEW j \in Units(r), i < j
       PROVE  r[i][2] < r[j][2]
  <2>1. CASE j \in 1..n /\ j \in Units(rx) /\ r[j] = rx[j]
    <3>1. i \in Units(rx) /\ r[i] = rx[i]
      BY <1>7, <1>11, <2>1
    <3> QED BY <1>11, <2>1, <3>1 DEF InOrder
  <2>2. CASE \E a \in 1..m : j = n + a
    <3>1. PICK a \in 1..m : j = n + a
      BY <2>2
    <3>2. r[j][2] = d + a
      BY <1>6, <3>1
    <3>3. CASE i \in 1..n /\ i \in Units(rx) /\ r[i] = rx[i]
      <4>1. rx[i][2] <= d /\ rx[i][2] \in Nat
        BY <1>2, <1>b, <3>3 DEF Stored, NoneBehind
      <4> QED BY <3>2, <3>3, <4>1
    <3>4. CASE \E b \in 1..m : i = n + b
      <4>1. PICK b \in 1..m : i = n + b
        BY <3>4
      <4>2. r[i][2] = d + b /\ b < a
        BY <1>6, <1>11, <3>1, <4>1
      <4> QED BY <3>2, <4>2
    <3> QED BY <1>7, <3>3, <3>4
  <2> QED BY <1>7, <2>1, <2>2
<1>12. ASSUME NEW i \in Units(r), i + MaxSeg <= RxBuf
       PROVE  r[i][2] = Cardinality(UpTo(r, i))
  <2>1. CASE i \in 1..n /\ i \in Units(rx) /\ r[i] = rx[i]
    BY <1>4, <1>12, <2>1 DEF InOrder
  <2>2. CASE \E a \in 1..m : i = n + a
    <3>1. PICK a \in 1..m : i = n + a
      BY <2>2
    <3>2. k = d
      BY <1>3, <1>12, <3>1, TcpAssumption
    <3>3. a \in 0..m
      OBVIOUS
    <3> QED BY <1>6, <1>8, <3>1, <3>2, <3>3
  <2> QED BY <1>7, <2>1, <2>2
<1>13. pad = 0 => Units(r) = DOMAIN r
  <2>1. pad = 0 => Units(rx) = 1..n
    BY <1>2, LenProperties DEF InOrder
  <2>2. Units(r) = Units(rx) \cup ((n + 1)..(n + m))
    <3>1. Units(r) = UpTo(r, n + m) /\ m \in 0..m
      BY <1>4 DEF UpTo, Units
    <3> QED BY <1>8, <3>1
  <2> QED BY <1>4, <2>1, <2>2
<1>14. InOrder(r)
  BY <1>11, <1>12, <1>13 DEF InOrder
<1> QED BY <1>1, <1>2, <1>3, <1>9, <1>10, <1>14

(* Padding keeps it. *)
LEMMA OrderWithPadding ==
  ASSUME NEW rx \in Seq(Bytes), InOrder(rx), NEW data \in Seq(Bytes),
         \A i \in 1..Len(data) : data[i][2] = 0, pad = 0 => Len(data) = 0
  PROVE  /\ InOrder(rx \o data) /\ Units(rx \o data) = Units(rx)
         /\ \A d : NoneBehind(rx, d) => NoneBehind(rx \o data, d)
<1>1. PICK r : r = rx \o data
  OBVIOUS
<1>2. PICK n \in Nat, m \in Nat : n = Len(rx) /\ m = Len(data)
  BY LenProperties
<1>3. /\ r \in Seq(Bytes) /\ DOMAIN r = 1..(n + m)
      /\ \A i \in 1..m : r[n + i] = data[i]
      /\ \A i \in 1..n : /\ r[i] = rx[i] /\ (i \in Units(r) <=> i \in Units(rx))
                         /\ UpTo(r, i) = UpTo(rx, i)
  BY <1>1, <1>2, UnitsOfPart
<1>4. Units(rx) \subseteq 1..n
  BY <1>2, UnitsFinite
<1>5. ASSUME NEW i \in Units(r) PROVE i \in 1..n
  <2>1. i \in 1..(n + m) /\ r[i][2] # 0
    BY <1>3 DEF Units
  <2>2. CASE i > n
    <3>1. PICK k \in 1..m : i = n + k
      <4>1. i - n \in 1..m /\ i = n + (i - n)
        BY <2>1, <2>2
      <4> QED BY <4>1
    <3>2. r[i] = data[k] /\ data[k][2] = 0
      BY <1>2, <1>3, <3>1
    <3> QED BY <2>1, <3>2
  <2> QED BY <2>1, <2>2
<1>6. Units(r) = Units(rx)
  BY <1>3, <1>4, <1>5
<1>7. /\ \A i \in Units(r) : i + MaxSeg <= RxBuf => r[i][2] = Cardinality(UpTo(r, i))
      /\ \A i, j \in Units(r) : i < j => r[i][2] < r[j][2]
  BY <1>3, <1>5, <1>6 DEF InOrder
<1>8. pad = 0 => Units(r) = DOMAIN r
  <2>1. pad = 0 => n + m = n /\ Units(rx) = 1..n
    BY <1>2, LenProperties DEF InOrder
  <2> QED BY <1>3, <1>6, <2>1
<1>9. \A d : NoneBehind(rx, d) => NoneBehind(r, d)
  BY <1>3, <1>5, <1>6 DEF NoneBehind
<1> QED BY <1>1, <1>6, <1>7, <1>8, <1>9 DEF InOrder

-----------------------------------------------------------------------------
(* Sending changes nothing of the block but its sequence number. *)
Same(t, u) == u \in Blocks /\ u.sport = t.sport /\ u.read = t.read /\ u.conn = t.conn

LEMMA SendFacts ==
  ASSUME NEW t \in Blocks, NEW flags \in SUBSET Flags, NEW dlen \in Nat
  PROVE  /\ Same(t, AfterSend(t, flags, dlen))
         /\ AfterSend(t, flags, dlen).state = t.state
         /\ AfterSend(t, flags, dlen).ack = t.ack /\ AfterSend(t, flags, dlen).rx = t.rx
         /\ Segment(t, flags, dlen) \in Segs
         /\ Segment(t, flags, dlen).port = t.sport
         /\ Segment(t, flags, dlen).conn = t.conn
         /\ Segment(t, flags, dlen).flags = flags
<1>1. IsFiniteSet({"SYN", "FIN"})
  <2>1. IsFiniteSet({"SYN"})
    BY FS_Singleton
  <2>2. {"SYN", "FIN"} = {"SYN"} \cup {"FIN"}
    OBVIOUS
  <2> QED BY <2>1, <2>2, FS_AddElement
<1>2. Cardinality(flags \cap {"SYN", "FIN"}) \in Nat
  <2>1. flags \cap {"SYN", "FIN"} \in SUBSET {"SYN", "FIN"}
    OBVIOUS
  <2> QED BY <1>1, <2>1, FS_Subset, FS_CardinalityType
<1>3. PICK n \in Nat : n = t.seq + Cardinality(flags \cap {"SYN", "FIN"}) + dlen
  BY <1>2 DEF Blocks
<1>4. AfterSend(t, flags, dlen) = [t EXCEPT !.seq = n]
  BY <1>3 DEF AfterSend, Blocks
<1>5. Segment(t, flags, dlen) \in Segs
  BY DEF Segment, Segs, Blocks
<1> QED BY <1>4, <1>5 DEF Same, Segment, Blocks

(* The bytes of a segment: its units of data, or padding. *)
LEMMA PayloadFacts ==
  ASSUME NEW s \in Segs, pad \in Nat
  PROVE  /\ Payload(s) \in Seq(Bytes)
         /\ s.dlen > 0 => /\ Len(Payload(s)) = s.dlen
                          /\ \A i \in 1..s.dlen : Payload(s)[i] = <<s.conn, s.seq + i - 1>>
         /\ ~(s.dlen > 0) => /\ Len(Payload(s)) = pad
                             /\ \A i \in 1..pad : Payload(s)[i] = <<s.conn, 0>>
<1>1. s.conn \in Nat /\ s.seq \in Nat /\ s.dlen \in Nat
  BY DEF Segs
<1>2. CASE s.dlen > 0
  <2>1. PICK n \in Nat : n = s.dlen
    BY <1>1
  <2>2. Payload(s) = [i \in 1..n |-> <<s.conn, s.seq + i - 1>>]
    BY <1>2, <2>1 DEF Payload
  <2>3. \A i \in 1..n : <<s.conn, s.seq + i - 1>> \in Bytes
    BY <1>1 DEF Bytes
  <2>4. Payload(s) \in Seq(Bytes) /\ Len(Payload(s)) = n
    BY <2>2, <2>3
  <2> QED BY <1>2, <2>1, <2>2, <2>4
<1>3. CASE ~(s.dlen > 0)
  <2>1. Payload(s) = [i \in 1..pad |-> <<s.conn, 0>>]
    BY <1>3 DEF Payload
  <2>2. <<s.conn, 0>> \in Bytes
    BY <1>1 DEF Bytes
  <2> QED BY <1>3, <2>1, <2>2
<1> QED BY <1>2, <1>3

(* What tcp_process does with a segment s: nothing, the connection opens,  *)
(* it is reset, or the bytes are taken and acknowledged.                   *)
Acks(t, out, new) == \E g \in Segs : /\ new = Append(out, g) /\ g.port = t.sport
                                     /\ g.conn = t.conn /\ "SYN" \notin g.flags
Ignored(t, out, s, u, new) ==
  u = t /\ new = out /\ ~(t.state = "ESTABLISHED" /\ IsData(s, t.sport))
Opened(t, out, s, u, new) ==
  /\ t.state = "SYN_SENT" /\ s.port = t.sport /\ "SYN" \in s.flags
  /\ Same(t, u) /\ u.state = "ESTABLISHED" /\ u.ack = s.seq + 1 /\ u.rx = t.rx
  /\ Acks(t, out, new)
Reset(t, out, s, u, new) ==
  /\ t.state = "ESTABLISHED" /\ Same(t, u) /\ u.state = "CLOSED" /\ u.rx = t.rx
  /\ new = out
Took(t, out, s, u, new) ==
  /\ t.state = "ESTABLISHED" /\ s.port = t.sport
  /\ Same(t, u) /\ u.state \in {"ESTABLISHED", "CLOSED"}
  /\ u.rx = IF Fits(t, Payload(s)) THEN t.rx \o Payload(s) ELSE t.rx
  /\ u.state = "ESTABLISHED" => /\ u.ack = s.seq + Len(Payload(s))
                                /\ Len(Payload(s)) > 0
  /\ Acks(t, out, new)
Outcome(t, out, s, u, new) ==
  \/ Ignored(t, out, s, u, new) \/ Opened(t, out, s, u, new)
  \/ Reset(t, out, s, u, new) \/ Took(t, out, s, u, new)

LEMMA AcknowledgeFacts ==
  ASSUME NEW c, NEW t \in Blocks
  PROVE  LET a == Acknowledge(c, t)
         IN  /\ Same(t, a.ts) /\ a.ts.state = t.state /\ a.ts.ack = t.ack
             /\ a.ts.rx = t.rx /\ Acks(t, c.out, a.out)
<1>1. {"ACK"} \in SUBSET Flags /\ 0 \in Nat /\ "SYN" \notin {"ACK"}
  BY DEF Flags
<1>2. PICK fl : fl = {"ACK"}
  OBVIOUS
<1>3. /\ Acknowledge(c, t).ts = AfterSend(t, fl, 0)
      /\ Acknowledge(c, t).out = Append(c.out, Segment(t, fl, 0))
  BY <1>2 DEF Acknowledge
<1> QED BY <1>1, <1>2, <1>3, SendFacts DEF Acks

LEMMA ProcessedFacts ==
  ASSUME NEW c, c.ts \in Blocks, NEW s \in Segs, pad \in Nat
  PROVE  Outcome(c.ts, c.out, s, Processed(c, s).ts, Processed(c, s).out)
<1>1. PICK t \in Blocks : t = c.ts
  OBVIOUS
<1>2. CASE Mine(t, s) /\ t.state = "SYN_SENT"
  <2>1. Processed(c, s) = InSynSent(c, s)
    BY <1>1, <1>2 DEF Processed
  <2>2. CASE {"SYN", "ACK"} \subseteq s.flags
    <3>1. PICK m \in Nat : m = s.seq + 1
      BY DEF Segs
    <3>2. PICK v : v = [t EXCEPT !.ack = m, !.state = "ESTABLISHED"]
      OBVIOUS
    <3>3. /\ v \in Blocks /\ v.state = "ESTABLISHED" /\ v.ack = m /\ v.rx = t.rx
          /\ v.sport = t.sport /\ v.read = t.read /\ v.conn = t.conn
      BY <3>2 DEF Blocks, States
    <3>4. Processed(c, s) = Acknowledge(c, v)
      BY <1>1, <2>1, <2>2, <3>1, <3>2 DEF InSynSent
    <3>5. Opened(t, c.out, s, Processed(c, s).ts, Processed(c, s).out)
      BY <1>2, <2>2, <3>1, <3>3, <3>4, AcknowledgeFacts DEF Opened, Mine, Same, Acks
    <3> QED BY <1>1, <3>5 DEF Outcome
  <2>3. CASE ~({"SYN", "ACK"} \subseteq s.flags)
    BY <1>1, <1>2, <2>1, <2>3 DEF InSynSent, Outcome, Ignored
  <2> QED BY <2>2, <2>3
<1>3. CASE Mine(t, s) /\ t.state = "ESTABLISHED"
  <2>1. Processed(c, s) = InEstablished(c, s)
    BY <1>1, <1>3 DEF Processed
  <2>2. PICK data : data = Payload(s)
    OBVIOUS
  <2>3. PICK inc \in Nat : /\ inc = Len(data) + (IF "FIN" \in s.flags THEN 1 ELSE 0)
                           /\ "FIN" \notin s.flags => inc = Len(data)
                           /\ Len(data) \in Nat /\ (s.dlen > 0 => inc > 0)
                           /\ data \in Seq(Bytes)
    <3>1. data \in Seq(Bytes) /\ Len(data) \in Nat
      BY <2>2, PayloadFacts, LenProperties
    <3>2. s.dlen > 0 => Len(data) = s.dlen
      BY <2>2, PayloadFacts
    <3>3. PICK inc : inc = Len(data) + (IF "FIN" \in s.flags THEN 1 ELSE 0)
      OBVIOUS
    <3>4. inc \in Nat /\ ("FIN" \notin s.flags => inc = Len(data)) /\ inc >= Len(data)
      BY <3>1, <3>3
    <3>5. ASSUME s.dlen > 0 PROVE inc > 0
      <4>1. Len(data) > 0
        BY <3>2, <3>5
      <4> QED BY <3>1, <3>4, <4>1
    <3> QED BY <3>1, <3>3, <3>4, <3>5, Zenon
  <2>4. CASE "RST" \in s.flags
    <3>1. Processed(c, s) = [c EXCEPT !.ts.state = "CLOSED"]
      BY <2>1, <2>4 DEF InEstablished
    <3>2. /\ Processed(c, s).out = c.out
          /\ Processed(c, s).ts = [t EXCEPT !.state = "CLOSED"]
      BY <1>1, <3>1
    <3>3. Reset(t, c.out, s, Processed(c, s).ts, Processed(c, s).out)
      BY <1>3, <3>2 DEF Reset, Same, Blocks, States
    <3> QED BY <1>1, <3>3 DEF Outcome
  <2>5. CASE "RST" \notin s.flags /\ inc > 0
    <3>1. PICK rx \in Seq(Bytes) : rx = IF Fits(t, data) THEN t.rx \o data ELSE t.rx
      <4>1. t.rx \in Seq(Bytes)
        BY DEF Blocks, Bytes
      <4>2. t.rx \o data \in Seq(Bytes)
        BY <2>3, <4>1, ConcatProperties
      <4> QED BY <4>1, <4>2
    <3>2. Store(t, data) = [t EXCEPT !.rx = rx]
      BY <3>1 DEF Store, Blocks
    <3>3. PICK m \in Nat : m = Acked(s, inc) /\ m = s.seq + inc
      BY DEF Acked, Segs
    <3>4. PICK st \in {"CLOSED", "ESTABLISHED"} :
            /\ st = IF "FIN" \in s.flags THEN "CLOSED" ELSE t.state
            /\ st = "ESTABLISHED" => inc = Len(data)
      BY <1>3, <2>3
    <3>5. PICK v : v = [t EXCEPT !.rx = rx, !.ack = m, !.state = st]
      OBVIOUS
    <3>6. /\ v \in Blocks /\ v.state = st /\ v.ack = m /\ v.rx = rx
          /\ v.sport = t.sport /\ v.read = t.read /\ v.conn = t.conn
      BY <3>5 DEF Blocks, States, Bytes
    <3>7. Processed(c, s) = Acknowledge(c, v)
      <4>1. v = [Store(t, data) EXCEPT !.ack = Acked(s, inc),
                   !.state = IF "FIN" \in s.flags THEN "CLOSED" ELSE @]
        BY <3>2, <3>3, <3>4, <3>5 DEF Blocks
      <4> QED BY <1>1, <2>1, <2>2, <2>3, <2>5, <4>1 DEF InEstablished
    <3>8. Took(t, c.out, s, Processed(c, s).ts, Processed(c, s).out)
      BY <1>3, <2>2, <2>5, <3>1, <3>3, <3>4, <3>6, <3>7, AcknowledgeFacts
         DEF Took, Mine, Same, Acks
    <3> QED BY <1>1, <3>8 DEF Outcome
  <2>6. CASE "RST" \notin s.flags /\ ~(inc > 0)
    <3>1. Processed(c, s) = c
      BY <2>1, <2>2, <2>3, <2>6 DEF InEstablished
    <3>2. ~(s.dlen > 0)
      BY <2>3, <2>6
    <3> QED BY <1>1, <3>1, <3>2 DEF Outcome, Ignored, IsData
  <2> QED BY <2>4, <2>5, <2>6
<1>4. CASE ~Mine(t, s) \/ t.state \notin {"SYN_SENT", "ESTABLISHED"}
  <2>1. Processed(c, s) = c
    BY <1>1, <1>4 DEF Processed
  <2> QED BY <1>1, <1>4, <2>1 DEF Outcome, Ignored, IsData, Mine
<1> QED BY <1>2, <1>3, <1>4

-----------------------------------------------------------------------------
(* One call of tcp_process keeps what is known of the block.               *)
LEMMA AcksFine ==
  ASSUME NEW t, BlockFine(t), t.state # "CLOSED", NEW out, OutFine(out), NEW new,
         Acks(t, out, new)
  PROVE  OutFine(new) /\ (SynOnce(t, out) => SynOnce(t, new))
<1>1. PICK g \in Segs : /\ new = Append(out, g) /\ g.port = t.sport
                        /\ g.conn = t.conn /\ "SYN" \notin g.flags
  BY DEF Acks
<1>2. OwnPort(g)
  <2>1. connects > 0 /\ t.conn = connects /\ t.sport = connects - 1 /\ connects \in Nat
    BY DEF BlockFine, Blocks
  <2> QED BY <1>1, <2>1 DEF OwnPort
<1>3. /\ new \in Seq(Segs) /\ Len(new) = Len(out) + 1 /\ Len(out) \in Nat
      /\ new[Len(new)] = g /\ \A j \in 1..Len(out) : new[j] = out[j]
  BY <1>1, AppendProperties, LenProperties DEF OutFine
<1>4. \A j \in 1..Len(new) : j = Len(new) \/ j \in 1..Len(out)
  BY <1>3
<1>5. OutFine(new)
  BY <1>2, <1>3, <1>4 DEF OutFine
<1>6. \A j \in 1..Len(new) :
        IsSyn(new[j], t.sport) => j \in 1..Len(out) /\ IsSyn(out[j], t.sport)
  BY <1>1, <1>3, <1>4 DEF IsSyn
<1> QED BY <1>5, <1>6 DEF SynOnce

LEMMA BlockStep ==
  ASSUME Around, NEW t, BlockFine(t), NEW out, NEW s \in Segs, Arrives(s),
         NEW u, NEW new, Outcome(t, out, s, u, new)
  PROVE  BlockFine(u)
<1>1. /\ t \in Blocks /\ pad \in Nat /\ connects \in Nat
      /\ t.rx \in Seq(Bytes) /\ Len(t.rx) \in Nat /\ Len(t.rx) < RxBuf
      /\ t.read \in Nat /\ t.read <= Len(t.rx)
      /\ t.conn = connects /\ handed = SubSeq(t.rx, 1, t.read)
      /\ \A j \in 1..Len(t.rx) : t.rx[j][1] = connects
      /\ (connects > 0 => t.sport = connects - 1)
      /\ (t.state # "CLOSED" => connects > 0)
      /\ (t.state = "ESTABLISHED" => server[t.sport].st # "listen")
  BY LenProperties DEF BlockFine, Blocks, Bytes, Around, CountFine
<1>2. CASE Ignored(t, out, s, u, new)
  BY <1>2 DEF Ignored
<1>3. CASE Opened(t, out, s, u, new) \/ Reset(t, out, s, u, new)
  BY <1>1, <1>3 DEF Opened, Reset, BlockFine, Same, Arrives
<1>4. CASE Took(t, out, s, u, new)
  <2>1. PICK data \in Seq(Bytes) : data = Payload(s)
    BY <1>1, PayloadFacts
  <2>2. /\ t.state = "ESTABLISHED" /\ s.port = t.sport /\ Same(t, u)
        /\ u.rx = IF Fits(t, data) THEN t.rx \o data ELSE t.rx
    BY <1>4, <2>1 DEF Took
  <2>3. CASE ~Fits(t, data)
    BY <1>1, <2>2, <2>3 DEF BlockFine, Same
  <2>4. CASE Fits(t, data)
    <3>1. PICK n \in Nat, m \in Nat, k \in Nat :
            n = Len(t.rx) /\ m = Len(data) /\ k = t.read
      BY <1>1, <2>1, LenProperties
    <3>a. PICK rx \in Seq(Bytes) : rx = t.rx
      BY <1>1
    <3>2. PICK r \in Seq(Bytes) : r = t.rx \o data /\ r = u.rx
      BY <1>1, <2>1, <2>2, <2>4, ConcatProperties
    <3>3. /\ Len(r) = n + m /\ n + m < RxBuf /\ k <= n
          /\ \A i \in 1..n : r[i] = t.rx[i]
          /\ \A i \in 1..m : r[n + i] = data[i]
      <4>1. r = rx \o data
        BY <3>2, <3>a
      <4>2. /\ Len(r) = Len(rx) + Len(data)
            /\ \A i \in 1..Len(rx) : r[i] = rx[i]
            /\ \A i \in 1..Len(data) : r[Len(rx) + i] = data[i]
        BY <4>1, UnitsOfPart
      <4>3. n + m < RxBuf /\ k <= n
        BY <1>1, <2>4, <3>1 DEF Fits
      <4> QED BY <3>1, <3>a, <4>2, <4>3
    <3>4. s.conn = connects
      BY <1>1, <2>2 DEF Arrives, OwnPort, Segs
    <3>5. \A i \in 1..m : data[i][1] = connects
      <4>1. CASE s.dlen > 0
        <5>1. m = s.dlen /\ \A i \in 1..s.dlen : data[i] = <<s.conn, s.seq + i - 1>>
          BY <1>1, <2>1, <3>1, <4>1, PayloadFacts
        <5> QED BY <3>4, <5>1
      <4>2. CASE ~(s.dlen > 0)
        <5>1. m = pad /\ \A i \in 1..pad : data[i] = <<s.conn, 0>>
          BY <1>1, <2>1, <3>1, <4>2, PayloadFacts
        <5> QED BY <3>4, <5>1
      <4> QED BY <4>1, <4>2
    <3>6. ASSUME NEW j \in 1..(n + m) PROVE r[j][1] = connects
      <4>1. CASE j <= n
        <5>1. j \in 1..n /\ j \in 1..Len(t.rx)
          BY <3>1, <4>1
        <5>2. r[j] = t.rx[j] /\ t.rx[j][1] = connects
          BY <1>1, <3>3, <5>1
        <5> QED BY <5>2
      <4>2. CASE j > n
        <5>1. PICK i \in 1..m : j = n + i
          <6>1. j - n \in 1..m /\ j = n + (j - n)
            BY <4>2
          <6> QED BY <6>1
        <5> QED BY <3>3, <3>5, <5>1
      <4> QED BY <4>1, <4>2
    <3>7. SubSeq(r, 1, k) = SubSeq(t.rx, 1, k)
      <4>1. SubSeq(r, 1, k) = [i \in 1..k |-> r[i]]
        BY <3>1, <3>2, <3>3
      <4>2. SubSeq(t.rx, 1, k) = [i \in 1..k |-> t.rx[i]]
        BY <1>1, <3>1
      <4>3. \A i \in 1..k : r[i] = t.rx[i]
        BY <3>1, <3>3
      <4> QED BY <4>1, <4>2, <4>3
    <3>8. /\ u \in Blocks /\ Len(u.rx) < RxBuf /\ u.read <= Len(u.rx)
          /\ \A j \in 1..Len(u.rx) : u.rx[j][1] = connects
          /\ handed = SubSeq(u.rx, 1, u.read)
      <4>1. u \in Blocks /\ u.rx = r /\ u.read = k
        BY <2>2, <3>1, <3>2 DEF Same
      <4>2. Len(r) < RxBuf /\ k <= Len(r)
        BY <3>3, TcpAssumption
      <4>3. \A j \in 1..Len(r) : r[j][1] = connects
        BY <3>3, <3>6
      <4>4. handed = SubSeq(r, 1, k)
        BY <1>1, <3>1, <3>7
      <4> QED BY <4>1, <4>2, <4>3, <4>4
    <3> QED BY <1>1, <2>2, <3>8 DEF BlockFine, Same
  <2> QED BY <2>3, <2>4
<1> QED BY <1>2, <1>3, <1>4 DEF Outcome

(* On a faithful wire it keeps the received bytes in order, and what is    *)
(* still on the wire follows them.                                         *)
LEMMA StreamStep ==
  ASSUME Around, NEW t, BlockFine(t), NEW out, NEW i \in 0..(Len(toClient) - 1),
         Opening(t, out), Streaming(t, i), InOrder(t.rx),
         NEW s \in Segs, s = toClient[i + 1], Arrives(s),
         NEW u, NEW new, Outcome(t, out, s, u, new)
  PROVE  Streaming(u, i + 1) /\ InOrder(u.rx)
<1>1. PICK w \in Seq(Segs) : w = toClient
  BY DEF Around, InFine
<1>2. PICK p \in Ports, next \in Nat : p = t.sport /\ next = server[p].next
  BY DEF BlockFine, Blocks, Around, PeersFine, Peers
<1>3. PICK rx \in Seq(Bytes) : rx = t.rx /\ Len(rx) \in Nat /\ Len(rx) < RxBuf
  BY LenProperties DEF BlockFine, Blocks, Bytes
<1>4. /\ i \in 0..(Len(w) - 1) /\ s = w[i + 1] /\ InOrder(rx) /\ pad \in Nat
      /\ s.seq \in Nat /\ s.dlen \in Nat /\ s.conn \in Nat /\ s.dlen <= MaxSeg
  BY <1>1, <1>3 DEF Around, CountFine, Segs, Arrives
<1>5. PICK k \in Nat : k = Cardinality(Units(rx))
  BY UnitsFinite
<1>6. t.state \in {"SYN_SENT", "ESTABLISHED"} =>
        \E d \in Nat : /\ Window(w, i, p, next, d) /\ Stored(rx, d)
                       /\ (t.state = "ESTABLISHED" /\ pad = 0) => t.ack = d + 1
  BY <1>1, <1>2, <1>3, <1>5 DEF Streaming, Got
<1>7. ASSUME u.sport = t.sport, NEW e \in Nat, Window(w, i + 1, p, next, e), Got(u, e)
      PROVE  Streaming(u, i + 1)
  BY <1>1, <1>2, <1>7 DEF Streaming
<1>8. t.state = "SYN_SENT" => next = 1
  BY <1>2 DEF Opening
<1>9. CASE Ignored(t, out, s, u, new)
  <2>1. u = t /\ ~(t.state = "ESTABLISHED" /\ IsData(s, p))
    BY <1>2, <1>9 DEF Ignored
  <2>2. CASE t.state \in {"SYN_SENT", "ESTABLISHED"}
    <3>1. PICK d \in Nat : /\ Window(w, i, p, next, d) /\ Stored(rx, d)
                           /\ (t.state = "ESTABLISHED" /\ pad = 0) => t.ack = d + 1
      BY <1>6, <2>2
    <3>2. ~IsData(s, p)
      <4>1. ASSUME IsData(s, p) PROVE FALSE
        <5>1. next = 1
          BY <1>8, <2>1, <2>2, <4>1
        <5>2. s.seq = d + 1 /\ Window(w, i + 1, p, next, d + s.dlen) /\ s.dlen > 0
          BY <1>4, <3>1, <4>1, WindowTakes DEF IsData
        <5> QED BY <1>4, <5>1, <5>2 DEF Window
      <4> QED BY <4>1
    <3>3. Window(w, i + 1, p, next, d)
      BY <1>4, <3>1, <3>2, WindowSkips
    <3>4. Got(u, d)
      BY <1>3, <1>5, <2>1, <3>1 DEF Got
    <3> QED BY <1>3, <1>4, <1>7, <2>1, <3>3, <3>4
  <2>3. CASE t.state \notin {"SYN_SENT", "ESTABLISHED"}
    BY <1>3, <1>4, <2>1, <2>3 DEF Streaming
  <2> QED BY <2>2, <2>3
<1>10. CASE Opened(t, out, s, u, new)
  <2>1. /\ t.state = "SYN_SENT" /\ "SYN" \in s.flags /\ u.sport = t.sport
        /\ u.ack = s.seq + 1 /\ u.rx = rx
    BY <1>3, <1>10 DEF Opened, Same
  <2>2. PICK d \in Nat : Window(w, i, p, next, d) /\ Stored(rx, d)
    BY <1>6, <2>1
  <2>3. d = 0
    BY <1>8, <2>1, <2>2 DEF Window
  <2>4. s.seq = 0 /\ ~IsData(s, p)
    BY <2>1 DEF Arrives, IsData
  <2>5. Window(w, i + 1, p, next, d)
    BY <1>4, <2>2, <2>4, WindowSkips
  <2>6. Got(u, d)
    BY <1>5, <2>1, <2>2, <2>3, <2>4 DEF Got
  <2> QED BY <1>4, <1>7, <2>1, <2>5, <2>6
<1>11. CASE Reset(t, out, s, u, new)
  BY <1>3, <1>4, <1>11 DEF Reset, Streaming
<1>12. CASE Took(t, out, s, u, new)
  <2>1. PICK data \in Seq(Bytes) : data = Payload(s)
    BY <1>4, PayloadFacts
  <2>2. /\ t.state = "ESTABLISHED" /\ s.port = p /\ u.sport = t.sport
        /\ u.rx = IF Fits(t, data) THEN rx \o data ELSE rx
        /\ u.state = "ESTABLISHED" => u.ack = s.seq + Len(data) /\ Len(data) > 0
    BY <1>2, <1>3, <1>12, <2>1 DEF Took, Same
  <2>3. Fits(t, data) <=> Len(rx) + Len(data) < RxBuf
    BY <1>3 DEF Fits
  <2>4. PICK d \in Nat : Window(w, i, p, next, d) /\ Stored(rx, d)
    BY <1>6, <2>2
  <2>5. CASE s.dlen > 0
    <3>1. IsData(s, p)
      BY <2>2, <2>5 DEF IsData
    <3>2. PICK n \in Nat : n = s.dlen /\ n > 0 /\ n <= MaxSeg
      BY <1>4, <2>5
    <3>3. s.seq = d + 1 /\ Window(w, i + 1, p, next, d + n)
      <4>0. Window(w, i, p, next, d) /\ IsData(w[i + 1], p) /\ i \in 0..(Len(w) - 1)
        BY <1>4, <2>4, <3>1
      <4>1. w[i + 1].seq = d + 1 /\ Window(w, i + 1, p, next, d + w[i + 1].dlen)
        BY <4>0, WindowTakes, ZenonT(60)
      <4> QED BY <1>4, <3>2, <4>1
    <3>4. Len(data) = n /\ \A j \in 1..Len(data) : data[j][2] = d + j
      <4>1. Len(data) = n /\ \A j \in 1..n : data[j] = <<s.conn, s.seq + j - 1>>
        BY <1>4, <2>1, <2>5, <3>2, PayloadFacts
      <4> QED BY <3>3, <4>1
    <3>5. u.state = "ESTABLISHED" => u.ack = (d + n) + 1
      <4>1. s.seq + Len(data) = (d + n) + 1
        <5>1. s.seq = d + 1 /\ Len(data) = n
          BY <3>3, <3>4
        <5> QED BY <5>1
      <4> QED BY <2>2, <4>1
    <3>6. d + n \in Nat
      OBVIOUS
    <3>a. k <= d /\ (k = d \/ Len(rx) + MaxSeg >= RxBuf) /\ NoneBehind(rx, d)
      BY <1>5, <2>4 DEF Stored
    <3>7. CASE Fits(t, data)
      <4>1. u.rx = rx \o data
        BY <2>2, <3>7
      <4>2. /\ InOrder(u.rx) /\ NoneBehind(u.rx, d + n)
            /\ Cardinality(Units(u.rx)) = k + n
        BY <1>4, <1>5, <2>4, <3>4, <4>1, OrderWithData
      <4>3. Len(u.rx) = Len(rx) + n
        BY <3>4, <4>1, ConcatProperties
      <4>4. k + n <= d + n /\ (k + n = d + n \/ Len(u.rx) + MaxSeg >= RxBuf)
        BY <1>3, <3>a, <4>3, TcpAssumption
      <4>5. Got(u, d + n)
        BY <3>5, <4>2, <4>4 DEF Got, Stored
      <4> QED BY <1>7, <2>2, <3>3, <3>6, <4>2, <4>5
    <3>8. CASE ~Fits(t, data)
      <4>1. u.rx = rx /\ Len(rx) + MaxSeg >= RxBuf
        BY <1>3, <2>2, <2>3, <3>2, <3>4, <3>8, TcpAssumption
      <4>2. NoneBehind(rx, d + n)
        <5>1. ASSUME NEW j \in Units(rx) PROVE rx[j][2] <= d + n
          <6>1. j \in 1..Len(rx)
            BY UnitsFinite
          <6>2. rx[j][2] \in Nat
            BY <6>1, ElementOfSeq DEF Bytes
          <6> QED BY <3>a, <6>2 DEF NoneBehind
        <5> QED BY <5>1 DEF NoneBehind
      <4>3. k <= d + n
        BY <3>a
      <4>4. Got(u, d + n)
        BY <1>5, <3>5, <4>1, <4>2, <4>3 DEF Got, Stored
      <4> QED BY <1>4, <1>7, <2>2, <3>3, <3>6, <4>1, <4>4
    <3> QED BY <3>7, <3>8
  <2>6. CASE ~(s.dlen > 0)
    <3>1. Window(w, i + 1, p, next, d)
      <4>1. ~IsData(s, p)
        BY <2>6 DEF IsData
      <4> QED BY <1>4, <2>4, <4>1, WindowSkips
    <3>2. Len(data) = pad /\ \A j \in 1..Len(data) : data[j] = <<s.conn, 0>>
      BY <1>4, <2>1, <2>6, PayloadFacts
    <3>3. /\ InOrder(rx \o data) /\ Units(rx \o data) = Units(rx)
          /\ NoneBehind(rx, d) => NoneBehind(rx \o data, d)
      <4>1. \A j \in 1..Len(data) : data[j][2] = 0
        BY <3>2
      <4> QED BY <1>4, <3>2, <4>1, OrderWithPadding
    <3>a. k <= d /\ (k = d \/ Len(rx) + MaxSeg >= RxBuf) /\ NoneBehind(rx, d)
      BY <1>5, <2>4 DEF Stored
    <3>4. InOrder(u.rx) /\ Units(u.rx) = Units(rx) /\ NoneBehind(u.rx, d)
      BY <1>4, <2>2, <3>3, <3>a
    <3>5. Len(u.rx) \in Nat /\ Len(u.rx) >= Len(rx)
      <4>1. CASE ~Fits(t, data)
        BY <1>3, <2>2, <4>1
      <4>2. CASE Fits(t, data)
        <5>1. Len(rx \o data) = Len(rx) + Len(data)
          BY ConcatProperties
        <5> QED BY <1>3, <1>4, <2>2, <3>2, <4>2, <5>1
      <4> QED BY <4>1, <4>2
    <3>b. Stored(u.rx, d)
      <4>1. k = d \/ Len(u.rx) + MaxSeg >= RxBuf
        BY <1>3, <3>5, <3>a, TcpAssumption
      <4> QED BY <1>5, <3>4, <3>a, <4>1 DEF Stored
    <3>6. Got(u, d)
      BY <2>2, <3>2, <3>b DEF Got
    <3> QED BY <1>7, <2>2, <3>1, <3>4, <3>6
  <2> QED BY <2>5, <2>6
<1> QED BY <1>9, <1>10, <1>11, <1>12 DEF Outcome

LEMMA GoodStep ==
  ASSUME Around, NEW t, NEW out, NEW i \in 0..(Len(toClient) - 1), Good(t, out, i),
         NEW u, NEW new, Outcome(t, out, toClient[i + 1], u, new)
  PROVE  Good(u, new, i + 1)
<1>1. PICK s \in Segs : s = toClient[i + 1] /\ Arrives(s)
  <2>1. i + 1 \in 1..Len(toClient) /\ toClient \in Seq(Segs)
    BY LenProperties DEF Around, InFine
  <2> QED BY <2>1, ElementOfSeq DEF Around, InFine
<1>2. BlockFine(t) /\ OutFine(out) /\ Outcome(t, out, s, u, new)
  BY <1>1 DEF Good
<1>3. BlockFine(u)
  BY <1>1, <1>2, BlockStep
<1>4. \/ u = t /\ new = out
      \/ u.sport = t.sport /\ u.state # "SYN_SENT" /\ t.state # "CLOSED"
         /\ (new = out \/ Acks(t, out, new))
  BY <1>2 DEF Outcome, Ignored, Opened, Reset, Took, Same
<1>5. OutFine(new)
  BY <1>2, <1>4, AcksFine
<1>6. ASSUME Faithful
      PROVE  SynOnce(u, new) /\ Opening(u, new) /\ Streaming(u, i + 1) /\ InOrder(u.rx)
  <2>1. SynOnce(t, out) /\ Opening(t, out) /\ Streaming(t, i) /\ InOrder(t.rx)
    BY <1>6 DEF Good
  <2>2. SynOnce(t, new)
    BY <1>2, <1>4, <2>1, AcksFine
  <2>3. SynOnce(u, new)
    BY <1>4, <2>2 DEF SynOnce
  <2>4. Opening(u, new)
    BY <1>4, <2>1 DEF Opening
  <2>5. Streaming(u, i + 1) /\ InOrder(u.rx)
    BY <1>1, <1>2, <2>1, StreamStep
  <2> QED BY <2>3, <2>4, <2>5
<1> QED BY <1>3, <1>5, <1>6 DEF Good

-----------------------------------------------------------------------------
(* Induction and recursion along the segments, with sets and functions in  *)
(* the place of predicates and operators.                                  *)

(* The order of the natural numbers as a relation. *)
Less == {ss \in Nat \X Nat : ss[1] < ss[2]}

(* A set that holds 0 and with every number the next holds all numbers. *)
LEMMA SetInduction ==
  ASSUME NEW L \in Nat, NEW P, 0 \in P,
         \A n \in 0..(L - 1) : n \in P => n + 1 \in P
  PROVE  0..L \subseteq P
<1> SUFFICES ASSUME ~(0..L \subseteq P) PROVE FALSE
  OBVIOUS
<1> DEFINE S == {n \in 0..L : n \notin P}
<1>1. S \in SUBSET Nat /\ S # {}
  OBVIOUS
<1>2. OpToRel(<, Nat) = Less
  BY Zenon DEF OpToRel, Less
<1>3. IsWellFoundedOn(Less, Nat)
  BY <1>2, NatLessThanWellFounded
<1>4. PICK x \in S : \A y \in S : ~(<<y, x>> \in Less)
  BY <1>1, <1>3, WFMin
<1>5. \A y \in S : ~(<<y, x>> \in Less) => x <= y
  BY DEF Less
<1>6. x \in 0..L /\ x \notin P /\ x # 0
  OBVIOUS
<1>7. x - 1 \in 0..(L - 1) /\ x - 1 < x
  BY <1>6
<1>8. x - 1 \in P
  <2>1. PICK w \in 0..(L - 1) : w = x - 1
    BY <1>7
  <2>2. \A y \in S : x <= y
    BY <1>4, <1>5
  <2>3. w \notin S
    <3> HIDE DEF S
    <3> QED BY <1>6, <2>1, <2>2
  <2> QED BY <2>1, <2>3
<1> QED BY <1>6, <1>7, <1>8

(* The values that a step function G gives one after the other exist. *)
Steps(g, m, X, x0, G) == /\ g \in [0..m -> X] /\ g[0] = x0
                         /\ \A n \in 1..m : g[n] = G[<<g[n - 1], n>>]
LEMMA Iteration ==
  ASSUME NEW L \in Nat, NEW X, NEW x0 \in X, NEW G \in [X \X (1..L) -> X]
  PROVE  \E g : Steps(g, L, X, x0, G)
<1> DEFINE P == {m \in 0..L : \E g : Steps(g, m, X, x0, G)}
<1>1. 0 \in P
  <2>1. Steps([i \in 0..0 |-> x0], 0, X, x0, G)
    BY DEF Steps
  <2>2. \E g : Steps(g, 0, X, x0, G)
    BY <2>1
  <2> QED BY <2>2
<1>2. ASSUME NEW m \in 0..(L - 1), m \in P PROVE m + 1 \in P
  <2>1. PICK g : Steps(g, m, X, x0, G)
    BY <1>2
  <2> DEFINE v == G[<<g[m], m + 1>>]
             h == [i \in 0..(m + 1) |-> IF i = m + 1 THEN v ELSE g[i]]
  <2>2. g[m] \in X /\ m + 1 \in 1..L
    BY <2>1 DEF Steps
  <2>3. v \in X
    BY <2>2
  <2>4. h \in [0..(m + 1) -> X] /\ h[0] = x0
    BY <2>1, <2>3 DEF Steps
  <2>5. ASSUME NEW n \in 1..(m + 1) PROVE h[n] = G[<<h[n - 1], n>>]
    <3>1. n - 1 \in 0..m /\ h[n - 1] = g[n - 1]
      OBVIOUS
    <3>2. CASE n = m + 1
      <4>1. n - 1 = m /\ h[n] = v
        BY <3>2
      <4> HIDE DEF h
      <4> QED BY <3>1, <3>2, <4>1
    <3>3. CASE n # m + 1
      <4>1. n \in 1..m /\ h[n] = g[n]
        BY <3>3
      <4> QED BY <2>1, <3>1, <4>1 DEF Steps
    <3> QED BY <3>2, <3>3
  <2>6. Steps(h, m + 1, X, x0, G)
    BY <2>4, <2>5 DEF Steps
  <2>7. \E f : Steps(f, m + 1, X, x0, G)
    BY <2>6
  <2> QED BY <2>2, <2>7
<1>3. 0..L \subseteq P
  <2> HIDE DEF P
  <2> QED BY <1>1, <1>2, SetInduction
<1>4. L \in P
  BY <1>3
<1> QED BY <1>4

-----------------------------------------------------------------------------
(* net_poll: the blocks and outputs between its calls of tcp_process. *)
Pairs == [ts : Blocks, out : Seq(Segs)]

LEMMA ProcessedIsPair ==
  ASSUME NEW c \in Pairs, NEW s \in Segs, pad \in Nat
  PROVE  Processed(c, s) \in Pairs
<1>1. c.ts \in Blocks /\ c.out \in Seq(Segs)
  BY DEF Pairs
<1>2. PICK d : d = Processed(c, s)
  OBVIOUS
<1>3. Outcome(c.ts, c.out, s, d.ts, d.out)
  BY <1>1, <1>2, ProcessedFacts
<1>4. d.ts \in Blocks /\ d.out \in Seq(Segs)
  <2>1. /\ d.ts = c.ts \/ Same(c.ts, d.ts)
        /\ d.out = c.out \/ Acks(c.ts, c.out, d.out)
    BY <1>3 DEF Outcome, Ignored, Opened, Reset, Took
  <2>2. Acks(c.ts, c.out, d.out) => d.out \in Seq(Segs)
    BY <1>1, AppendProperties DEF Acks
  <2> QED BY <1>1, <2>1, <2>2 DEF Same
<1>5. \A t : Acknowledge(c, t) = [ts |-> Acknowledge(c, t).ts, out |-> Acknowledge(c, t).out]
  BY DEF Acknowledge
<1>6. [c EXCEPT !.ts.state = "CLOSED"] = [ts |-> [c.ts EXCEPT !.state = "CLOSED"], out |-> c.out]
  BY DEF Pairs
<1>7. \/ d = c \/ d = [c EXCEPT !.ts.state = "CLOSED"] \/ \E t : d = Acknowledge(c, t)
  BY <1>2 DEF Processed, InSynSent, InEstablished
<1>8. d = [ts |-> d.ts, out |-> d.out]
  BY <1>5, <1>6, <1>7 DEF Pairs
<1> QED BY <1>2, <1>4, <1>8 DEF Pairs

Polling0 == [ts |-> ts, out |-> toServer]
PollSteps(n) == CHOOSE f : f = [k \in 0..n |-> IF k = 0 THEN Polling0
                                              ELSE Processed(f[k - 1], toClient[k])]

LEMMA PolledFacts ==
  ASSUME Inv, NEW n \in DOMAIN toClient
  PROVE  n \in 0..Len(toClient) /\ Good(Polled(n).ts, Polled(n).out, n)
<1> DEFINE f == PollSteps(n)
           G == [x \in Pairs \X (1..n) |-> Processed(x[1], toClient[x[2]])]
<1>1. /\ Around /\ Good(ts, toServer, 0) /\ pad \in Nat
      /\ toClient \in Seq(Segs) /\ Len(toClient) \in Nat
  BY LenProperties DEF Inv, Around, CountFine, InFine
<1>2. n \in 1..Len(toClient) /\ n \in Nat
  BY <1>1, LenProperties
<1>3. Polled(n) = f[n]
  BY DEF Polled, PollSteps, Polling0
<1>4. \A k \in 1..n : k \in 1..Len(toClient) /\ toClient[k] \in Segs
  BY <1>1, <1>2, ElementOfSeq
<1>5. Polling0 \in Pairs /\ Polling0.ts = ts /\ Polling0.out = toServer
  BY <1>1 DEF Polling0, Pairs, Good, BlockFine, OutFine
<1>6. G \in [Pairs \X (1..n) -> Pairs]
  BY <1>1, <1>4, ProcessedIsPair
<1>7. \A c \in Pairs, k \in 1..n : G[<<c, k>>] = Processed(c, toClient[k])
  OBVIOUS
<1> HIDE DEF G
<1>8. PICK g : Steps(g, n, Pairs, Polling0, G)
  BY <1>2, <1>5, <1>6, Iteration
<1> DEFINE Is(h) == h = [k \in 0..n |-> IF k = 0 THEN Polling0
                                        ELSE Processed(h[k - 1], toClient[k])]
<1>9. Is(g)
  <2>1. ASSUME NEW k \in 0..n
        PROVE  g[k] = IF k = 0 THEN Polling0 ELSE Processed(g[k - 1], toClient[k])
    <3>1. CASE k = 0
      BY <1>8, <3>1 DEF Steps
    <3>2. CASE k # 0
      <4>1. k \in 1..n /\ k - 1 \in 0..n
        BY <1>2, <3>2
      <4>2. g[k] = G[<<g[k - 1], k>>] /\ g[k - 1] \in Pairs
        BY <1>8, <4>1 DEF Steps
      <4> QED BY <1>7, <3>2, <4>1, <4>2
    <3> QED BY <3>1, <3>2
  <2>2. g = [k \in 0..n |-> g[k]]
    BY <1>8 DEF Steps
  <2> QED BY <2>1, <2>2
<1>10. Is(f)
  <2>1. \E h : Is(h)
    BY <1>9
  <2> QED BY <2>1 DEF PollSteps
<1>11. \A k \in 0..n : f[k] = IF k = 0 THEN Polling0 ELSE Processed(f[k - 1], toClient[k])
  BY <1>10
<1> HIDE DEF f
<1> DEFINE P == {k \in 0..n : f[k] \in Pairs /\ Good(f[k].ts, f[k].out, k)}
<1>12. 0 \in P
  <2>1. 0 \in 0..n /\ f[0] = Polling0
    BY <1>2, <1>11
  <2> QED BY <1>1, <1>5, <2>1
<1>13. ASSUME NEW k \in 0..(n - 1), k \in P PROVE k + 1 \in P
  <2>1. /\ k + 1 \in 0..n /\ k + 1 # 0 /\ (k + 1) - 1 = k /\ k + 1 \in 1..n
        /\ k \in 0..(Len(toClient) - 1)
    BY <1>2
  <2>2. f[k + 1] = Processed(f[k], toClient[k + 1])
    BY <1>11, <2>1
  <2>3. f[k] \in Pairs /\ Good(f[k].ts, f[k].out, k) /\ toClient[k + 1] \in Segs
    BY <1>4, <1>13, <2>1
  <2>4. f[k + 1] \in Pairs
    BY <1>1, <2>2, <2>3, ProcessedIsPair
  <2>5. Outcome(f[k].ts, f[k].out, toClient[k + 1], f[k + 1].ts, f[k + 1].out)
    BY <1>1, <2>2, <2>3, ProcessedFacts DEF Pairs
  <2>6. Good(f[k + 1].ts, f[k + 1].out, k + 1)
    BY <1>1, <2>1, <2>3, <2>5, GoodStep
  <2> QED BY <2>1, <2>4, <2>6
<1>14. 0..n \subseteq P
  <2> HIDE DEF P
  <2> QED BY <1>2, <1>12, <1>13, SetInduction
<1>15. n \in 0..n /\ n \in 0..Len(toClient)
  BY <1>1, <1>2
<1> QED BY <1>3, <1>14, <1>15

-----------------------------------------------------------------------------
(* The steps of the client keep the invariant. *)
LEMMA PollKeeps ==
  ASSUME Inv, TcpPoll
  PROVE  Inv'
<1>1. PICK n \in DOMAIN toClient :
        /\ ts' = Polled(n).ts /\ toServer' = Polled(n).out
        /\ toClient' = SubSeq(toClient, n + 1, Len(toClient))
  BY DEF TcpPoll
<1>2. /\ eph' = eph /\ pc' = pc /\ handed' = handed /\ connects' = connects
      /\ pad' = pad /\ server' = server /\ faults' = faults
  BY DEF TcpPoll
<1>3. n \in 0..Len(toClient) /\ Good(ts', toServer', n)
  BY <1>1, PolledFacts
<1>4. PICK w \in Seq(Segs) : w = toClient /\ \A j \in 1..Len(w) : Arrives(w[j])
  BY DEF Inv, Around, InFine
<1>5. PICK v \in Seq(Segs) : /\ v = toClient' /\ v = SubSeq(w, n + 1, Len(w))
                             /\ \A j \in 1..Len(v) : n + j \in 1..Len(w) /\ v[j] = w[n + j]
  <2>1. Len(w) \in Nat /\ n \in 0..Len(w) /\ \A j \in 1..Len(w) : w[j] \in Segs
    BY <1>3, <1>4, LenProperties, ElementOfSeq
  <2>2. PICK v : v = SubSeq(w, n + 1, Len(w)) /\ v = toClient'
    BY <1>1, <1>4
  <2>3. v \in Seq(Segs)
    BY <2>1, <2>2, SubSeqProperties
  <2>4. Len(v) = Len(w) - n /\ \A j \in 1..(Len(w) - n) : v[j] = w[n + j]
    BY <1>4, <2>1, <2>2
  <2>5. \A j \in 1..Len(v) : n + j \in 1..Len(w)
    BY <2>1, <2>4
  <2> QED BY <2>2, <2>3, <2>4, <2>5
<1>6. InFine'
  <2>1. \A j \in 1..Len(v) : Arrives(v[j])
    BY <1>4, <1>5
  <2> QED BY <1>2, <1>5, <2>1 DEF InFine, Arrives, OwnPort
<1>7. PeersFine' /\ CountFine'
  BY <1>2 DEF Inv, Around, PeersFine, CountFine
<1>8. BlockFine(ts)' /\ OutFine(toServer)'
  BY <1>2, <1>3 DEF Good, BlockFine, OutFine, OwnPort
<1>9. ASSUME Faithful'
      PROVE  /\ SynOnce(ts, toServer)' /\ Opening(ts, toServer)'
             /\ Streaming(ts, 0)' /\ InOrder(ts.rx)'
  <2>1. Faithful
    BY <1>2, <1>9 DEF Faithful
  <2>2. /\ SynOnce(ts', toServer') /\ Opening(ts', toServer')
        /\ Streaming(ts', n) /\ InOrder(ts'.rx)
    BY <1>3, <2>1 DEF Good
  <2>3. SynOnce(ts, toServer)' /\ Opening(ts, toServer)' /\ InOrder(ts.rx)'
    BY <1>2, <2>2 DEF SynOnce, Opening, InOrder
  <2>4. Streaming(ts, 0)'
    <3>1. ASSUME ts'.state \in {"SYN_SENT", "ESTABLISHED"}
          PROVE  \E d \in Nat : /\ Window(v, 0, ts'.sport, server[ts'.sport].next, d)
                                /\ Got(ts', d)
      <4>1. PICK d \in Nat : /\ Window(w, n, ts'.sport, server[ts'.sport].next, d)
                             /\ Got(ts', d)
        BY <1>4, <2>2, <3>1 DEF Streaming
      <4>2. server[ts'.sport].next \in Nat
        BY <1>3 DEF Good, BlockFine, Blocks, Inv, Around, PeersFine, Peers
      <4>3. Window(v, 0, ts'.sport, server[ts'.sport].next, d)
        BY <1>3, <1>4, <1>5, <4>1, <4>2, WindowShifts
      <4> QED BY <4>1, <4>3
    <3> QED BY <1>2, <1>5, <3>1 DEF Streaming, Got
  <2> QED BY <2>3, <2>4
<1> QED BY <1>6, <1>7, <1>8, <1>9 DEF Inv, Good, Around

(* A call or return that leaves received bytes and port alone, and opens   *)
(* nothing.                                                                *)
LEMMA CallKeeps ==
  ASSUME Inv, connects' = connects, pad' = pad, toClient' = toClient,
         server' = server, faults' = faults, CountFine', BlockFine(ts)',
         ts'.rx = ts.rx, ts'.sport = ts.sport,
         toServer' = toServer \/ (ts.state # "CLOSED" /\ Acks(ts, toServer, toServer')),
         ts'.state = "SYN_SENT" => ts.state = "SYN_SENT" /\ toServer' = toServer,
         ts'.state = "ESTABLISHED" => ts.state = "ESTABLISHED" /\ ts'.ack = ts.ack
  PROVE  Inv'
<1>1. BlockFine(ts) /\ OutFine(toServer) /\ Around
  BY DEF Inv, Good
<1>2. OutFine(toServer') /\ (SynOnce(ts, toServer) => SynOnce(ts, toServer'))
  BY <1>1, AcksFine
<1>3. InFine' /\ PeersFine'
  BY <1>1 DEF Around, InFine, Arrives, OwnPort, PeersFine
<1>4. OutFine(toServer)'
  BY <1>2 DEF OutFine, OwnPort
<1>5. ASSUME Faithful'
      PROVE  /\ SynOnce(ts, toServer)' /\ Opening(ts, toServer)'
             /\ Streaming(ts, 0)' /\ InOrder(ts.rx)'
  <2>1. /\ SynOnce(ts, toServer) /\ Opening(ts, toServer)
        /\ Streaming(ts, 0) /\ InOrder(ts.rx)
    BY <1>5 DEF Faithful, Inv, Good
  <2>2. SynOnce(ts, toServer)'
    BY <1>2, <2>1 DEF SynOnce
  <2>3. Opening(ts, toServer)' /\ InOrder(ts.rx)'
    BY <2>1 DEF Opening, InOrder
  <2>4. Streaming(ts, 0)'
    BY <2>1 DEF Streaming, Got
  <2> QED BY <2>2, <2>3, <2>4
<1> QED BY <1>3, <1>4, <1>5 DEF Inv, Good, Around

(* A block with another state that is not open. *)
LEMMA ShutFacts ==
  ASSUME NEW t, BlockFine(t), NEW st \in {"CLOSED", "CLOSING"},
         st = "CLOSING" => t.state # "CLOSED"
  PROVE  LET u == [t EXCEPT !.state = st]
         IN  BlockFine(u) /\ u.state = st /\ u.rx = t.rx /\ u.sport = t.sport
             /\ u.conn = t.conn
<1>1. PICK u : u = [t EXCEPT !.state = st]
  OBVIOUS
<1>2. /\ u \in Blocks /\ u.state = st /\ u.rx = t.rx /\ u.sport = t.sport
      /\ u.conn = t.conn /\ u.read = t.read
  BY <1>1 DEF BlockFine, Blocks, States
<1>3. BlockFine(u)
  BY <1>2 DEF BlockFine
<1> QED BY <1>1, <1>2, <1>3

(* A segment without SYN, sent on block t that is as ts but for its state. *)
LEMMA SentFacts ==
  ASSUME Inv, UNCHANGED <<connects, server, handed>>, ts.state # "CLOSED",
         NEW t, BlockFine(t), t.sport = ts.sport, t.conn = ts.conn,
         NEW flags \in SUBSET Flags, "SYN" \notin flags, NEW dlen \in Nat,
         Sent(t, flags, dlen)
  PROVE  /\ BlockFine(ts)' /\ ts'.rx = t.rx /\ ts'.sport = ts.sport
         /\ ts'.state = t.state /\ ts'.ack = t.ack /\ Acks(ts, toServer, toServer')
<1>1. t \in Blocks
  BY DEF BlockFine
<1>2. /\ toServer' = Append(toServer, Segment(t, flags, dlen))
      /\ ts' = AfterSend(t, flags, dlen)
  BY DEF Sent
<1>3. /\ Same(t, ts') /\ ts'.state = t.state /\ ts'.ack = t.ack /\ ts'.rx = t.rx
  BY <1>1, <1>2, SendFacts
<1>4. PICK g \in Segs : /\ g = Segment(t, flags, dlen) /\ g.port = t.sport
                        /\ g.conn = t.conn /\ g.flags = flags
  BY <1>1, SendFacts
<1>5. Acks(ts, toServer, toServer')
  BY <1>2, <1>4 DEF Acks
<1>6. BlockFine(ts)'
  BY <1>3 DEF BlockFine, Same
<1> QED BY <1>3, <1>5, <1>6 DEF Same

LEMMA CallsKeep ==
  ASSUME Inv, \/ ConnectReturn \/ SendData \/ RecvCall \/ RecvData \/ Leaves
              \/ CloseCall \/ CloseReturn
  PROVE  Inv'
<1>1. BlockFine(ts) /\ CountFine
  BY DEF Inv, Good, Around
<1>2. /\ eph' = eph /\ connects' = connects /\ pad' = pad /\ toClient' = toClient
      /\ server' = server /\ faults' = faults
  BY DEF ConnectReturn, SendData, RecvCall, RecvData, Leaves, CloseCall, CloseReturn, Wire
<1>3. CountFine'
  <2>1. pc' \in Waiting \cup {"idle"}
    BY <1>1 DEF ConnectReturn, SendData, RecvCall, RecvData, Leaves, CloseCall,
                CloseReturn, Return, Waiting, CountFine
  <2> QED BY <1>1, <1>2, <2>1 DEF CountFine
<1>4. ASSUME ts' = ts, toServer' = toServer, handed' = handed PROVE Inv'
  <2>1. BlockFine(ts)'
    BY <1>1, <1>2, <1>4 DEF BlockFine
  <2> QED BY <1>2, <1>3, <1>4, <2>1, CallKeeps
<1>5. ASSUME ts' = [ts EXCEPT !.state = "CLOSED"], toServer' = toServer, handed' = handed
      PROVE  Inv'
  <2>1. PICK u : u = [ts EXCEPT !.state = "CLOSED"]
    OBVIOUS
  <2>2. BlockFine(u) /\ u.state = "CLOSED" /\ u.rx = ts.rx /\ u.sport = ts.sport
    BY <1>1, <2>1, ShutFacts
  <2>3. ts' = u
    BY <1>5, <2>1
  <2>4. BlockFine(ts)'
    BY <1>2, <1>5, <2>2, <2>3 DEF BlockFine
  <2> QED BY <1>2, <1>3, <1>5, <2>2, <2>3, <2>4, CallKeeps
<1>6. CASE ConnectReturn
  BY <1>4, <1>5, <1>6 DEF ConnectReturn
<1>7. CASE SendData
  <2>1. CASE ts.state = "ESTABLISHED"
    <3>1. PICK fl \in SUBSET Flags : fl = {"ACK", "PSH"} /\ "SYN" \notin fl
      BY DEF Flags
    <3>2. Sent(ts, fl, 1) /\ handed' = handed
      BY <1>7, <2>1, <3>1 DEF SendData
    <3>3. /\ BlockFine(ts)' /\ ts'.rx = ts.rx /\ ts'.sport = ts.sport
          /\ ts'.state = ts.state /\ ts'.ack = ts.ack /\ Acks(ts, toServer, toServer')
      BY <1>1, <1>2, <2>1, <3>1, <3>2, SentFacts
    <3> QED BY <1>2, <1>3, <2>1, <3>3, CallKeeps
  <2>2. CASE ts.state # "ESTABLISHED"
    BY <1>4, <1>7, <2>2 DEF SendData
  <2> QED BY <2>1, <2>2
<1>8. CASE RecvCall \/ Leaves
  BY <1>4, <1>8 DEF RecvCall, Leaves
<1>9. CASE RecvData
  <2>1. PICK rx \in Seq(Bytes), k \in Nat, N \in Nat :
          /\ rx = ts.rx /\ k = ts.read /\ N = Len(rx) /\ k <= N /\ N < RxBuf
          /\ handed = SubSeq(rx, 1, k)
    <3>1. ts.rx \in Seq(Bytes) /\ ts.read \in Nat
      BY <1>1 DEF BlockFine, Blocks, Bytes
    <3> QED BY <1>1, <3>1, LenProperties DEF BlockFine
  <2>2. PICK n \in Nat : n = (IF Unread > MaxRead THEN MaxRead ELSE Unread) /\ k + n <= N
    BY <2>1, TcpAssumption DEF Unread
  <2>3. handed' = handed \o SubSeq(rx, k + 1, k + n) /\ ts' = [ts EXCEPT !.read = k + n]
        /\ toServer' = toServer
    BY <1>9, <2>1, <2>2 DEF RecvData
  <2>4. /\ ts' \in Blocks /\ ts'.read = k + n /\ ts'.rx = rx /\ ts'.state = ts.state
        /\ ts'.sport = ts.sport /\ ts'.conn = ts.conn /\ ts'.ack = ts.ack
    <3>1. k + n \in Nat
      OBVIOUS
    <3> QED BY <1>1, <2>1, <2>3, <3>1 DEF BlockFine, Blocks
  <2>5. handed' = SubSeq(rx, 1, k + n)
    <3>1. 1 \in 1..(N + 1) /\ k \in (1 - 1)..N /\ k + n \in k..N
      BY <2>1, <2>2
    <3>2. SubSeq(rx, 1, k) \o SubSeq(rx, k + 1, k + n) = SubSeq(rx, 1, k + n)
      BY <2>1, <3>1, ConcatAdjacentSubSeq
    <3> QED BY <2>1, <2>3, <3>2
  <2>6. BlockFine(ts)'
    BY <1>1, <1>2, <2>1, <2>2, <2>4, <2>5 DEF BlockFine
  <2> QED BY <1>2, <1>3, <2>1, <2>3, <2>4, <2>6, CallKeeps
<1>10. CASE CloseCall
  <2>1. CASE ts.state = "ESTABLISHED"
    <3>1. PICK fl \in SUBSET Flags : fl = {"ACK", "FIN"} /\ "SYN" \notin fl
      BY DEF Flags
    <3>2. PICK u : u = [ts EXCEPT !.state = "CLOSING"]
      OBVIOUS
    <3>3. /\ BlockFine(u) /\ u.state = "CLOSING" /\ u.rx = ts.rx /\ u.sport = ts.sport
          /\ u.conn = ts.conn
      BY <1>1, <2>1, <3>2, ShutFacts
    <3>4. Sent(u, fl, 0) /\ handed' = handed
      BY <1>10, <2>1, <3>1, <3>2 DEF CloseCall
    <3>5. /\ BlockFine(ts)' /\ ts'.rx = ts.rx /\ ts'.sport = ts.sport
          /\ ts'.state = "CLOSING" /\ Acks(ts, toServer, toServer')
      BY <1>2, <2>1, <3>1, <3>3, <3>4, SentFacts
    <3> QED BY <1>2, <1>3, <2>1, <3>5, CallKeeps
  <2>2. CASE ts.state # "ESTABLISHED"
    BY <1>5, <1>10, <2>2 DEF CloseCall
  <2> QED BY <2>1, <2>2
<1>11. CASE CloseReturn
  BY <1>5, <1>11 DEF CloseReturn
<1> QED BY <1>6, <1>7, <1>8, <1>9, <1>10, <1>11

(* A new connection has a port of its own. *)
LEMMA ConnectKeeps ==
  ASSUME Inv, ConnectCall
  PROVE  Inv'
<1>1. /\ BlockFine(ts) /\ OutFine(toServer) /\ InFine /\ PeersFine /\ CountFine
  BY DEF Inv, Good, Around
<1>2. PICK k \in Nat : /\ k = connects /\ k < MaxConnects /\ k < NPorts /\ eph = k
                       /\ k \in Ports
  BY <1>1, TcpAssumption DEF ConnectCall, CountFine, Ports
<1>3. /\ connects' = k + 1 /\ handed' = << >> /\ pc' = "connect" /\ pad' = pad
      /\ toClient' = toClient /\ server' = server /\ faults' = faults
      /\ eph' = (k + 1) % NPorts
  BY <1>2 DEF ConnectCall, Wire, NextPort
<1>4. PICK fl \in SUBSET Flags : fl = {"SYN"}
  BY DEF Flags
<1>5. PICK t \in Blocks :
        /\ t.state = "SYN_SENT" /\ t.sport = k /\ t.rx = << >> /\ t.read = 0
        /\ t.conn = k + 1 /\ Sent(t, fl, 0)
  <2>1. PICK t : t = [state |-> "SYN_SENT", sport |-> k, seq |-> 0, ack |-> 0,
                      rx |-> << >>, read |-> 0, conn |-> k + 1]
    OBVIOUS
  <2>2. t \in Blocks
    BY <1>2, <2>1 DEF Blocks, States
  <2>3. Sent(t, fl, 0)
    BY <1>2, <1>4, <2>1 DEF ConnectCall
  <2> QED BY <2>1, <2>2, <2>3
<1>6. /\ ts' \in Blocks /\ ts'.state = "SYN_SENT" /\ ts'.sport = k /\ ts'.rx = << >>
      /\ ts'.read = 0 /\ ts'.conn = k + 1
  BY <1>5, SendFacts DEF Sent, Same
<1>7. PICK g \in Segs : /\ toServer' = Append(toServer, g) /\ g.port = k
                        /\ g.conn = k + 1 /\ "SYN" \in g.flags
  BY <1>4, <1>5, SendFacts DEF Sent
<1>8. CountFine'
  <2>1. (k + 1) % NPorts \in Ports /\ (k + 1 < NPorts => (k + 1) % NPorts = k + 1)
    BY <1>2, TcpAssumption DEF Ports
  <2> QED BY <1>1, <1>2, <1>3, <2>1, TcpAssumption DEF CountFine, Waiting
<1>9. \A x : OwnPort(x) => OwnPort(x)' /\ x.port # k
  BY <1>2, <1>3 DEF OwnPort
<1>10. InFine' /\ PeersFine'
  <2>1. InFine'
    BY <1>1, <1>3, <1>9 DEF InFine, Arrives
  <2>2. PeersFine'
    BY <1>1, <1>2, <1>3 DEF PeersFine, Ports
  <2> QED BY <2>1, <2>2
<1>11. server[k].st = "listen" /\ server[k].next = 1
  BY <1>1, <1>2 DEF PeersFine
<1>12. BlockFine(ts)'
  <2>1. Len(<< >>) = 0 /\ SubSeq(<< >>, 1, 0) = << >>
    OBVIOUS
  <2> QED BY <1>2, <1>3, <1>6, <2>1, TcpAssumption DEF BlockFine
<1>13. PICK out \in Seq(Segs), n \in Nat :
         /\ out = toServer' /\ Len(out) = n + 1 /\ out[n + 1] = g /\ n = Len(toServer)
         /\ \A j \in 1..n : out[j] = toServer[j] /\ OwnPort(toServer[j])
  BY <1>1, <1>7, AppendProperties, LenProperties DEF OutFine
<1>14. \A j \in 1..(n + 1) : /\ j = n + 1 \/ (j \in 1..n /\ out[j].port # k)
                             /\ OwnPort(out[j])'
  <2>1. OwnPort(g)'
    BY <1>2, <1>3, <1>7 DEF OwnPort
  <2>2. \A j \in 1..(n + 1) : j = n + 1 \/ j \in 1..n
    OBVIOUS
  <2> QED BY <1>9, <1>13, <2>1, <2>2
<1>15. OutFine(toServer)'
  BY <1>13, <1>14 DEF OutFine
<1>16. SynOnce(ts, toServer)' /\ Opening(ts, toServer)'
  <2>1. SynOnce(ts, toServer)'
    BY <1>3, <1>6, <1>11, <1>13, <1>14 DEF SynOnce, IsSyn
  <2>2. Opening(ts, toServer)'
    BY <1>3, <1>6, <1>7, <1>11, <1>13, <1>14 DEF Opening
  <2> QED BY <2>1, <2>2
<1>17. Units(<< >>) = {} /\ Cardinality({}) = 0
  BY FS_EmptySet DEF Units
<1>18. Streaming(ts, 0)' /\ InOrder(ts.rx)'
  <2>1. PICK w \in Seq(Segs) : w = toClient /\ \A j \in 1..Len(w) : ~IsData(w[j], k)
    BY <1>1, <1>9 DEF InFine, Arrives, IsData
  <2>2. Window(w, 0, k, 1, 0)
    BY <2>1, WindowOpens
  <2>3. Got(ts, 0)'
    <3>1. Cardinality(Units(ts'.rx)) = 0
      BY <1>6, <1>17
    <3>2. ts'.state # "ESTABLISHED" /\ NoneBehind(ts'.rx, 0)
      BY <1>6, <1>17 DEF NoneBehind
    <3> QED BY <3>1, <3>2 DEF Got, Stored
  <2>4. Streaming(ts, 0)'
    BY <1>3, <1>6, <1>11, <2>1, <2>2, <2>3 DEF Streaming
  <2>5. InOrder(ts.rx)'
    BY <1>6, <1>17 DEF InOrder
  <2> QED BY <2>4, <2>5
<1> QED BY <1>8, <1>10, <1>12, <1>15, <1>16, <1>18 DEF Inv, Good, Around

-----------------------------------------------------------------------------
(* The steps of the server and the wire keep it. *)
LEMMA EnvKeeps ==
  ASSUME Inv, UNCHANGED <<client, pad>>, faults' \in Nat, PeersFine', InFine',
         OutFine(toServer'),
         \A p \in Ports : server[p].st # "listen" => server'[p].st # "listen",
         Faithful' => /\ Faithful /\ SynOnce(ts, toServer)' /\ Opening(ts, toServer)'
                      /\ Streaming(ts, 0)'
  PROVE  Inv'
<1>1. BlockFine(ts) /\ CountFine
  BY DEF Inv, Good, Around
<1>2. /\ ts' = ts /\ eph' = eph /\ pc' = pc /\ handed' = handed /\ connects' = connects
      /\ pad' = pad
  BY DEF client
<1>3. CountFine'
  BY <1>1, <1>2 DEF CountFine
<1>4. BlockFine(ts)'
  BY <1>1, <1>2 DEF BlockFine, Blocks
<1>5. OutFine(toServer)'
  BY <1>2 DEF OutFine, OwnPort
<1>6. Faithful' => InOrder(ts.rx)'
  <2>1. Faithful => InOrder(ts.rx)
    BY DEF Inv, Good
  <2> QED BY <1>2, <2>1 DEF InOrder
<1> QED BY <1>3, <1>4, <1>5, <1>6 DEF Inv, Good, Around

(* A segment more on the wire to the client, or none. *)
LEMMA WireKeeps ==
  ASSUME InFine, connects' = connects, NEW g \in Segs,
         \A p \in Ports : server[p].st # "listen" => server'[p].st # "listen",
         \/ toClient' = toClient
         \/ toClient' = Append(toClient, g) /\ Arrives(g)'
  PROVE  InFine'
<1>1. \A j \in 1..Len(toClient) : toClient[j] \in Segs /\ Arrives(toClient[j])
  BY ElementOfSeq DEF InFine
<1>2. \A s \in Segs : Arrives(s) => Arrives(s)'
  BY DEF Arrives, OwnPort, Segs
<1>3. CASE toClient' = toClient
  BY <1>1, <1>2, <1>3 DEF InFine
<1>4. CASE toClient' = Append(toClient, g) /\ Arrives(g)'
  <2>1. PICK v \in Seq(Segs), n \in Nat :
          /\ v = toClient' /\ n = Len(toClient) /\ Len(v) = n + 1 /\ v[n + 1] = g
          /\ \A j \in 1..n : v[j] = toClient[j]
    BY <1>4, AppendProperties, LenProperties DEF InFine
  <2>2. \A j \in 1..(n + 1) : j = n + 1 \/ j \in 1..n
    OBVIOUS
  <2>3. \A j \in 1..Len(v) : Arrives(v[j])'
    BY <1>1, <1>2, <1>4, <2>1, <2>2
  <2> QED BY <2>1, <2>3 DEF InFine
<1> QED BY <1>3, <1>4

(* The peer of port p moves on, and may send segment g. *)
Moves(p, q, g) ==
  /\ server' = [server EXCEPT ![p] = q]
  /\ q.st # "listen" /\ q.conn = p + 1 /\ p + 1 <= connects
  /\ g.port = p /\ OwnPort(g) /\ g.dlen <= MaxSeg
  /\ \/ toClient' = toClient
     \/ toClient' = Append(toClient, g) /\ ("SYN" \in g.flags => g.seq = 0 /\ g.dlen = 0)

(* In a way that keeps the window: no data, or the next units. *)
InTurn(p, q, g) ==
  \/ q.next = server[p].next /\ (toClient' = toClient \/ g.dlen = 0)
  \/ /\ q.next = server[p].next + g.dlen /\ toClient' = Append(toClient, g)
     /\ g.dlen > 0 /\ g.seq = server[p].next

LEMMA PeerKeeps ==
  ASSUME Inv, UNCHANGED <<client, pad, faults>>, OutFine(toServer'),
         NEW p \in Ports, NEW q \in Peers, NEW g \in Segs, Moves(p, q, g),
         Faithful => /\ SynOnce(ts, toServer)' /\ Opening(ts, toServer)'
                     /\ p = ts.sport => InTurn(p, q, g)
  PROVE  Inv'
<1>1. /\ InFine /\ PeersFine /\ CountFine /\ BlockFine(ts)
      /\ toClient \in Seq(Segs) /\ ts.sport \in Ports
  BY DEF Inv, Good, Around, InFine, BlockFine, Blocks
<1>2. /\ ts' = ts /\ connects' = connects /\ pad' = pad /\ faults' = faults
  BY DEF client
<1>3. /\ server' \in [Ports -> Peers] /\ server'[p] = q
      /\ \A r \in Ports : r # p => server'[r] = server[r]
  BY <1>1 DEF Moves, PeersFine
<1>4. PeersFine'
  <2>1. \A r \in Ports : /\ server'[r].st = "listen" => server'[r].next = 1
                         /\ server'[r].st # "listen" =>
                              r + 1 <= connects /\ server'[r].conn = r + 1
    <3>1. ASSUME NEW r \in Ports, r = p
          PROVE  server'[r].st # "listen" /\ r + 1 <= connects /\ server'[r].conn = r + 1
      BY <1>3, <3>1 DEF Moves
    <3> QED BY <1>1, <1>3, <3>1 DEF PeersFine
  <2> QED BY <1>2, <1>3, <2>1 DEF PeersFine
<1>5. \A r \in Ports : server[r].st # "listen" => server'[r].st # "listen"
  BY <1>3 DEF Moves
<1>6. InFine'
  <2>1. toClient' # toClient => toClient' = Append(toClient, g) /\ Arrives(g)'
    BY <1>2, <1>3 DEF Moves, Arrives, OwnPort
  <2> QED BY <1>1, <1>2, <1>5, <2>1, WireKeeps
<1>7. ASSUME Faithful PROVE Streaming(ts, 0)'
  <2>1. SUFFICES ASSUME ts.state \in {"SYN_SENT", "ESTABLISHED"}
                 PROVE  \E d \in Nat : Window(toClient', 0, ts.sport, server'[ts.sport].next, d)
                                       /\ Got(ts, d)
    BY <1>2 DEF Streaming, Got
  <2>2. PICK d \in Nat : Window(toClient, 0, ts.sport, server[ts.sport].next, d) /\ Got(ts, d)
    BY <1>7, <2>1 DEF Inv, Good, Streaming
  <2>3. PICK n \in Nat : n = server[ts.sport].next
    BY <1>1 DEF PeersFine, Peers
  <2>4. PICK v : v = toClient'
    OBVIOUS
  <2>5. /\ ~IsData(g, ts.sport) => Window(Append(toClient, g), 0, ts.sport, n, d)
        /\ IsData(g, ts.sport) /\ g.seq = n =>
             Window(Append(toClient, g), 0, ts.sport, n + g.dlen, d)
    BY <1>1, <2>2, <2>3, WindowGrows
  <2>6. CASE p # ts.sport
    <3>1. server'[ts.sport].next = n /\ ~IsData(g, ts.sport)
      BY <1>1, <1>3, <2>3, <2>6 DEF Moves, IsData
    <3>2. v = toClient \/ v = Append(toClient, g)
      BY <2>4 DEF Moves
    <3>3. Window(v, 0, ts.sport, n, d)
      BY <2>2, <2>3, <2>5, <3>1, <3>2
    <3> QED BY <2>2, <2>4, <3>1, <3>3
  <2>7. CASE p = ts.sport
    <3>1. server'[ts.sport].next = q.next /\ g.port = ts.sport
      BY <1>3, <2>7 DEF Moves
    <3>2. InTurn(p, q, g)
      BY <1>7, <2>7
    <3>3. CASE q.next = n /\ v = toClient
      BY <2>2, <2>3, <2>4, <3>1, <3>3
    <3>4. CASE q.next = n /\ v = Append(toClient, g) /\ g.dlen = 0
      <4>1. ~IsData(g, ts.sport)
        BY <3>4 DEF IsData
      <4> QED BY <2>2, <2>4, <2>5, <3>1, <3>4, <4>1
    <3>5. CASE q.next = n + g.dlen /\ v = Append(toClient, g) /\ g.dlen > 0 /\ g.seq = n
      <4>1. IsData(g, ts.sport)
        BY <3>1, <3>5 DEF IsData
      <4> QED BY <2>2, <2>4, <2>5, <3>1, <3>5, <4>1
    <3> QED BY <2>3, <2>4, <2>7, <3>2, <3>3, <3>4, <3>5 DEF InTurn, Moves
  <2> QED BY <2>6, <2>7
<1>8. faults' \in Nat /\ (Faithful' => Faithful)
  BY <1>1, <1>2 DEF CountFine, Faithful
<1> QED BY <1>2, <1>4, <1>5, <1>6, <1>7, <1>8, EnvKeeps

(* The segment of a Reply. *)
Replied(p, conn, flags, seq, dlen) ==
  [port |-> p, conn |-> conn, flags |-> flags, seq |-> seq, dlen |-> dlen]

LEMMA ReplyFacts ==
  ASSUME CountFine, NEW p \in Ports, NEW conn \in Nat, conn = p + 1, conn <= connects,
         NEW flags \in SUBSET Flags, NEW seq \in Nat, NEW dlen \in Nat
  PROVE  LET g == Replied(p, conn, flags, seq, dlen)
         IN  /\ g \in Segs /\ g.port = p /\ OwnPort(g) /\ g.flags = flags /\ g.seq = seq
             /\ g.dlen = dlen
<1>1. PICK g : g = Replied(p, conn, flags, seq, dlen)
  OBVIOUS
<1>2. g \in Segs /\ g.conn = conn /\ g.port = p
  BY <1>1 DEF Segs, Replied
<1>3. conn \in 1..connects /\ conn - 1 = p
  BY TcpAssumption DEF Ports, CountFine
<1>4. OwnPort(g)
  BY <1>2, <1>3 DEF OwnPort
<1> QED BY <1>1, <1>2, <1>4 DEF Replied

LEMMA SendsKeep ==
  ASSUME Inv, NEW p \in Ports, ServerSends(p)
  PROVE  Inv'
<1>1. /\ PeersFine /\ CountFine /\ BlockFine(ts) /\ OutFine(toServer)
  BY DEF Inv, Good, Around
<1>2. UNCHANGED <<client, pad, faults>> /\ toServer' = toServer
  BY DEF ServerSends
<1>3. PICK k \in Nat : k = server[p].next
  BY <1>1 DEF PeersFine, Peers
<1>4. server[p] \in Peers /\ server[p].st \in {"syn", "est"}
  BY <1>1 DEF PeersFine, ServerSends
<1>5. server[p].conn = p + 1 /\ server[p].conn \in Nat /\ p + 1 <= connects
  BY <1>1, <1>4 DEF PeersFine, Peers
<1>6. PICK q \in Peers, g \in Segs :
        /\ Moves(p, q, g) /\ InTurn(p, q, g)
        /\ server[p].st = "est" \/ (q.st # "est" /\ q.next = k)
  <2>1. ASSUME NEW fl \in SUBSET Flags, "SYN" \notin fl, NEW n \in Nat, n <= MaxSeg,
               NEW st \in {"est", "fin", "gone"},
               Reply(p, server[p].conn, fl, k, n),
               server' = [server EXCEPT ![p] = [server[p] EXCEPT !.st = st, !.next = k + n]],
               server[p].st = "est" \/ (st # "est" /\ n = 0)
        PROVE  \E q \in Peers, g \in Segs :
                 /\ Moves(p, q, g) /\ InTurn(p, q, g)
                 /\ server[p].st = "est" \/ (q.st # "est" /\ q.next = k)
    <3>2. PICK g : /\ g = Replied(p, server[p].conn, fl, k, n)
                   /\ toClient' = Append(toClient, g)
      BY <2>1 DEF Reply, Replied
    <3>3. /\ g \in Segs /\ toClient' = Append(toClient, g)
          /\ g.port = p /\ OwnPort(g) /\ g.flags = fl /\ g.seq = k /\ g.dlen = n
      BY <1>1, <1>5, <3>2, ReplyFacts
    <3>4. PICK q : q = [server[p] EXCEPT !.st = st, !.next = k + n]
      OBVIOUS
    <3>5. q \in Peers /\ q.next = k + n /\ q.st = st /\ q.conn = p + 1
      <4>1. k + n \in Nat /\ st \in {"listen", "syn", "est", "fin", "gone"}
        OBVIOUS
      <4> QED BY <1>4, <1>5, <3>4, <4>1 DEF Peers
    <3>6. server' = [server EXCEPT ![p] = q]
      BY <2>1, <3>4
    <3>7. Moves(p, q, g)
      BY <1>5, <2>1, <3>3, <3>5, <3>6 DEF Moves
    <3>8. InTurn(p, q, g)
      BY <1>3, <3>3, <3>5 DEF InTurn
    <3> QED BY <2>1, <3>3, <3>5, <3>7, <3>8
  <2>2. {"ACK"} \in SUBSET Flags /\ {"ACK", "FIN"} \in SUBSET Flags /\ {"RST"} \in SUBSET Flags
    BY DEF Flags
  <2>3. ASSUME NEW n \in 1..MaxSeg, server[p].st = "est",
               Reply(p, server[p].conn, {"ACK"}, server[p].next, n),
               server' = [server EXCEPT ![p].next = @ + n]
        PROVE  \E q \in Peers, g \in Segs :
                 /\ Moves(p, q, g) /\ InTurn(p, q, g)
                 /\ server[p].st = "est" \/ (q.st # "est" /\ q.next = k)
    <3>1. n \in Nat /\ n <= MaxSeg
      BY TcpAssumption
    <3>2. [server[p] EXCEPT !.next = k + n] = [server[p] EXCEPT !.st = "est", !.next = k + n]
      BY <1>4, <2>3 DEF Peers
    <3>3. server' = [server EXCEPT ![p] = [server[p] EXCEPT !.st = "est", !.next = k + n]]
      BY <1>3, <2>3, <3>2
    <3> QED BY <1>3, <2>1, <2>2, <2>3, <3>1, <3>3
  <2>4. ASSUME NEW n \in 0..MaxSeg, server[p].st = "est" \/ n = 0,
               Reply(p, server[p].conn, {"ACK", "FIN"}, server[p].next, n),
               server' = [server EXCEPT ![p].st = "fin", ![p].next = @ + n]
        PROVE  \E q \in Peers, g \in Segs :
                 /\ Moves(p, q, g) /\ InTurn(p, q, g)
                 /\ server[p].st = "est" \/ (q.st # "est" /\ q.next = k)
    <3>1. n \in Nat /\ n <= MaxSeg
      BY TcpAssumption
    <3>2. server' = [server EXCEPT ![p] = [server[p] EXCEPT !.st = "fin", !.next = k + n]]
      BY <1>1, <1>3, <2>4 DEF PeersFine, Peers
    <3> QED BY <1>3, <2>1, <2>2, <2>4, <3>1, <3>2
  <2>5. ASSUME Reply(p, server[p].conn, {"RST"}, server[p].next, 0),
               server' = [server EXCEPT ![p].st = "gone"]
        PROVE  \E q \in Peers, g \in Segs :
                 /\ Moves(p, q, g) /\ InTurn(p, q, g)
                 /\ server[p].st = "est" \/ (q.st # "est" /\ q.next = k)
    <3>1. 0 \in Nat /\ 0 <= MaxSeg /\ k + 0 = k
      BY TcpAssumption
    <3>2. [server[p] EXCEPT !.st = "gone"] = [server[p] EXCEPT !.st = "gone", !.next = k + 0]
      BY <1>3, <1>4, <3>1 DEF Peers
    <3>3. server' = [server EXCEPT ![p] = [server[p] EXCEPT !.st = "gone", !.next = k + 0]]
      BY <2>5, <3>2
    <3> QED BY <1>3, <2>1, <2>2, <2>5, <3>1, <3>3
  <2> QED BY <2>3, <2>4, <2>5 DEF ServerSends
<1>7. ASSUME Faithful
      PROVE  SynOnce(ts, toServer)' /\ Opening(ts, toServer)'
  <2>1. ts' = ts /\ toServer' = toServer
    BY <1>2 DEF client
  <2>2. SynOnce(ts, toServer) /\ Opening(ts, toServer) /\ ts.sport \in Ports
    BY <1>1, <1>7 DEF Inv, Good, BlockFine, Blocks
  <2>3. p # ts.sport => server'[ts.sport] = server[ts.sport]
    BY <1>1, <1>6, <2>2 DEF Moves, PeersFine
  <2>4. server'[p] = q
    BY <1>1, <1>6 DEF Moves, PeersFine
  <2>5. SynOnce(ts, toServer)'
    BY <1>4, <2>1, <2>2, <2>3 DEF SynOnce
  <2>6. Opening(ts, toServer)'
    BY <1>3, <1>6, <2>1, <2>2, <2>3, <2>4 DEF Opening
  <2> QED BY <2>5, <2>6
<1> QED BY <1>1, <1>2, <1>6, <1>7, PeerKeeps

(* Units sent again: the wire is no longer faithful. *)
LEMMA RepeatsKeep ==
  ASSUME Inv, NEW p \in Ports, ServerRepeats(p)
  PROVE  Inv'
<1>1. /\ InFine /\ PeersFine /\ CountFine /\ BlockFine(ts) /\ OutFine(toServer)
  BY DEF Inv, Good, Around
<1>2. UNCHANGED <<client, pad>> /\ toServer' = toServer /\ server' = server
  BY DEF ServerRepeats
<1>3. connects' = connects
  BY <1>2 DEF client
<1>4. faults' \in Nat /\ ~Faithful'
  BY <1>1 DEF CountFine, ServerRepeats, Faithful
<1>5. server[p].st # "listen"
  BY DEF ServerRepeats
<1>6. server[p].conn = p + 1 /\ server[p].conn \in Nat /\ p + 1 <= connects
  BY <1>1, <1>5 DEF PeersFine, Peers
<1>7. PICK fl \in SUBSET Flags : fl = {"ACK"} /\ "SYN" \notin fl
  BY DEF Flags
<1>8. PICK n \in 1..MaxSeg, k \in 1..StreamLen :
        toClient' = Append(toClient, Replied(p, server[p].conn, fl, k, n))
  BY <1>7 DEF ServerRepeats, Reply, Replied
<1>9. PICK g : g = Replied(p, server[p].conn, fl, k, n) /\ toClient' = Append(toClient, g)
  BY <1>8
<1>10. g \in Segs /\ g.port = p /\ OwnPort(g) /\ g.flags = fl /\ g.dlen <= MaxSeg
  <2>1. n \in Nat /\ k \in Nat /\ n <= MaxSeg
    BY TcpAssumption
  <2> QED BY <1>1, <1>6, <1>9, <2>1, ReplyFacts, SMTT(60)
<1>11. Arrives(g)'
  BY <1>2, <1>3, <1>5, <1>7, <1>9, <1>10 DEF Arrives, OwnPort
<1>12. InFine'
  BY <1>1, <1>2, <1>3, <1>9, <1>10, <1>11, WireKeeps
<1>13. PeersFine'
  BY <1>1, <1>2, <1>3 DEF PeersFine
<1> QED BY <1>1, <1>2, <1>4, <1>12, <1>13, EnvKeeps

(* What a loss leaves was on the wire before. *)
LEMMA RemoveFacts ==
  ASSUME NEW w \in Seq(Segs), NEW i \in DOMAIN w
  PROVE  /\ RemoveAt(w, i) \in Seq(Segs)
         /\ \A j \in 1..Len(RemoveAt(w, i)) : \E k \in 1..Len(w) : RemoveAt(w, i)[j] = w[k]
<1>1. PICK n \in Nat : n = Len(w) /\ i \in 1..n /\ \A j \in 1..n : w[j] \in Segs
  BY LenProperties, ElementOfSeq
<1>2. PICK a : a = SubSeq(w, 1, i - 1)
  OBVIOUS
<1>3. PICK b : b = SubSeq(w, i + 1, n)
  OBVIOUS
<1>4. /\ a \in Seq(Segs) /\ Len(a) = i - 1 /\ \A j \in 1..(i - 1) : a[j] = w[j]
  BY <1>1, <1>2, SubSeqProperties
<1>5. /\ b \in Seq(Segs) /\ Len(b) = n - i /\ \A j \in 1..(n - i) : b[j] = w[i + j]
  <2>1. b \in Seq(Segs)
    BY <1>1, <1>3, SubSeqProperties
  <2> QED BY <1>1, <1>3, <2>1
<1>6. PICK v : v = RemoveAt(w, i) /\ v = a \o b
  BY <1>1, <1>2, <1>3 DEF RemoveAt
<1>7. /\ v \in Seq(Segs) /\ Len(v) = n - 1
      /\ \A j \in 1..(n - 1) : v[j] = IF j <= i - 1 THEN a[j] ELSE b[j - (i - 1)]
  BY <1>1, <1>4, <1>5, <1>6, ConcatProperties, SMTT(60)
<1>8. ASSUME NEW j \in 1..(n - 1) PROVE \E k \in 1..n : v[j] = w[k]
  <2>1. CASE j <= i - 1
    <3>1. j \in 1..(i - 1) /\ j \in 1..n
      BY <1>1, <2>1
    <3> QED BY <1>4, <1>7, <2>1, <3>1
  <2>2. CASE ~(j <= i - 1)
    <3>1. PICK m : m = j - (i - 1)
      OBVIOUS
    <3>2. m \in 1..(n - i) /\ i + m \in 1..n
      BY <1>1, <2>2, <3>1
    <3>3. v[j] = b[m] /\ b[m] = w[i + m]
      BY <1>5, <1>7, <2>2, <3>1, <3>2
    <3> QED BY <3>2, <3>3
  <2> QED BY <2>1, <2>2
<1> QED BY <1>1, <1>6, <1>7, <1>8

LEMMA LoseKeeps ==
  ASSUME Inv, Lose
  PROVE  Inv'
<1>1. /\ InFine /\ PeersFine /\ CountFine /\ BlockFine(ts) /\ OutFine(toServer)
  BY DEF Inv, Good, Around
<1>2. UNCHANGED <<client, pad>> /\ server' = server
  BY DEF Lose
<1>3. connects' = connects
  BY <1>2 DEF client
<1>4. faults' \in Nat /\ ~Faithful'
  BY <1>1 DEF CountFine, Lose, Faithful
<1>5. PeersFine'
  BY <1>1, <1>2, <1>3 DEF PeersFine
<1>6. CASE \E i \in DOMAIN toClient :
             toClient' = RemoveAt(toClient, i) /\ UNCHANGED toServer
  <2>1. PICK i \in DOMAIN toClient :
          toClient' = RemoveAt(toClient, i) /\ UNCHANGED toServer
    BY <1>6
  <2>2. /\ toClient' \in Seq(Segs)
        /\ \A j \in 1..Len(toClient') : \E k \in 1..Len(toClient) : toClient'[j] = toClient[k]
    BY <1>1, <2>1, RemoveFacts DEF InFine
  <2>3. \A j \in 1..Len(toClient') : Arrives(toClient'[j])
    BY <1>1, <2>2 DEF InFine
  <2>4. InFine'
    BY <1>2, <1>3, <2>2, <2>3 DEF InFine, Arrives, OwnPort
  <2> QED BY <1>1, <1>2, <1>4, <1>5, <2>1, <2>4, EnvKeeps
<1>7. CASE \E i \in DOMAIN toServer :
             toServer' = RemoveAt(toServer, i) /\ UNCHANGED toClient
  <2>1. PICK i \in DOMAIN toServer :
          toServer' = RemoveAt(toServer, i) /\ UNCHANGED toClient
    BY <1>7
  <2>2. /\ toServer' \in Seq(Segs)
        /\ \A j \in 1..Len(toServer') : \E k \in 1..Len(toServer) : toServer'[j] = toServer[k]
    BY <1>1, <2>1, RemoveFacts DEF OutFine
  <2>3. OutFine(toServer')
    BY <1>1, <2>2 DEF OutFine
  <2>4. InFine'
    BY <1>1, <1>2, <1>3, <2>1 DEF InFine, Arrives, OwnPort
  <2> QED BY <1>1, <1>2, <1>4, <1>5, <2>3, <2>4, EnvKeeps
<1> QED BY <1>6, <1>7 DEF Lose

LEMMA TakesKeep ==
  ASSUME Inv, ServerTakes
  PROVE  Inv'
<1>1. /\ InFine /\ PeersFine /\ CountFine /\ BlockFine(ts) /\ ts.sport \in Ports
      /\ OutFine(toServer)
  BY DEF Inv, Good, Around, BlockFine, Blocks
<1>2. /\ UNCHANGED <<client, pad, faults>> /\ ts' = ts /\ connects' = connects
      /\ toServer # << >> /\ toServer' = Tail(toServer)
  BY DEF ServerTakes, client
<1>3. PICK out \in Seq(Segs), n \in Nat :
        /\ out = toServer /\ n = Len(out) /\ n > 0
        /\ \A j \in 1..n : out[j] \in Segs /\ OwnPort(out[j])
  BY <1>1, <1>2, LenProperties, EmptySeq, ElementOfSeq DEF OutFine
<1>4. PICK s \in Segs : s = Head(toServer) /\ s = out[1] /\ OwnPort(s)
  <2>1. Head(out) = out[1] /\ 1 \in 1..n
    BY <1>3
  <2> QED BY <1>3, <2>1
<1>5. PICK p \in Ports : p = s.port /\ s.conn = p + 1 /\ p + 1 <= connects
  BY <1>1, <1>4, TcpAssumption DEF Segs, OwnPort, CountFine
<1>6. PICK v \in Seq(Segs) :
        /\ v = toServer' /\ Len(v) = n - 1
        /\ \A j \in 1..(n - 1) : j + 1 \in 1..n /\ j + 1 # 1 /\ v[j] = out[j + 1]
  BY <1>2, <1>3, HeadTailProperties
<1>7. OutFine(toServer')
  BY <1>3, <1>6 DEF OutFine
<1>8. server[p] \in Peers /\ server[p].next \in Nat
  BY <1>1 DEF PeersFine, Peers
<1>9. ASSUME NEW q, server' = [server EXCEPT ![p] = q]
      PROVE  server'[p] = q /\ \A r \in Ports : r # p => server'[r] = server[r]
  BY <1>1, <1>9 DEF PeersFine
<1>10. Faithful => SynOnce(ts, out) /\ Opening(ts, out)
  BY <1>3 DEF Inv, Good
(* What is left for the server keeps its two properties, unless it changed. *)
<1>11. ASSUME Faithful, server'[ts.sport] = server[ts.sport]
       PROVE  SynOnce(ts, toServer)' /\ Opening(ts, toServer)'
  <2>1. SynOnce(ts, v)'
    <3>1. SUFFICES ASSUME NEW j \in 1..(n - 1), IsSyn(v[j], ts.sport)
                   PROVE  /\ server[ts.sport].st = "listen"
                          /\ \A k \in 1..(n - 1) : IsSyn(v[k], ts.sport) => k = j
      BY <1>2, <1>6, <1>11 DEF SynOnce
    <3>2. /\ server[ts.sport].st = "listen"
          /\ \A k \in 1..n : IsSyn(out[k], ts.sport) => k = j + 1
      BY <1>3, <1>6, <1>10, <1>11, <3>1 DEF SynOnce
    <3>3. ASSUME NEW k \in 1..(n - 1), IsSyn(v[k], ts.sport) PROVE k = j
      <4>1. k + 1 = j + 1
        BY <1>6, <3>2, <3>3
      <4> QED BY <4>1
    <3> QED BY <3>2, <3>3
  <2>2. Opening(ts, v)'
    BY <1>2, <1>3, <1>6, <1>10, <1>11 DEF Opening
  <2> QED BY <1>6, <2>1, <2>2
<1>12. CASE "SYN" \in s.flags
  <2>1. PICK q : q = [st |-> "syn", next |-> 1, conn |-> s.conn]
    OBVIOUS
  <2>2. /\ q \in Peers /\ q.st = "syn" /\ q.next = 1 /\ q.conn = p + 1
        /\ server' = [server EXCEPT ![p] = q]
    BY <1>4, <1>5, <1>12, <2>1 DEF ServerTakes, Peers, Segs
  <2>3. PICK fl \in SUBSET Flags : fl = {"SYN", "ACK"}
    BY DEF Flags
  <2>4. PICK g : g = Replied(p, s.conn, fl, 0, 0) /\ toClient' = Append(toClient, g)
    BY <1>4, <1>5, <1>12, <2>3 DEF ServerTakes, Reply, Replied
  <2>5. g \in Segs /\ g.port = p /\ OwnPort(g) /\ g.seq = 0 /\ g.dlen = 0
    <3>1. s.conn \in Nat /\ s.conn <= connects
      BY <1>5 DEF Segs
    <3> QED BY <1>1, <1>5, <2>4, <3>1, ReplyFacts
  <2>6. Moves(p, q, g)
    BY <1>5, <2>2, <2>4, <2>5, TcpAssumption DEF Moves
  <2>7. ASSUME Faithful, p = ts.sport
        PROVE  InTurn(p, q, g) /\ SynOnce(ts, toServer)' /\ Opening(ts, toServer)'
    <3>1. IsSyn(out[1], ts.sport) /\ 1 \in 1..n
      BY <1>3, <1>4, <1>5, <1>12, <2>7 DEF IsSyn
    <3>2. /\ server[p].st = "listen"
          /\ \A k \in 1..n : IsSyn(out[k], ts.sport) => k = 1
      BY <1>3, <1>10, <2>7, <3>1 DEF SynOnce
    <3>3. server[p].next = 1
      BY <1>1, <3>2 DEF PeersFine
    <3>4. InTurn(p, q, g)
      BY <2>2, <2>5, <3>3 DEF InTurn
    <3>5. \A j \in 1..(n - 1) : ~IsSyn(v[j], ts.sport)
      BY <1>6, <3>2
    <3>6. SynOnce(ts, v)'
      BY <1>2, <1>6, <3>5 DEF SynOnce
    <3>7. server'[ts.sport] = q
      BY <1>9, <2>2, <2>7
    <3>8. Opening(ts, v)'
      BY <1>2, <1>3, <1>6, <1>10, <2>2, <2>7, <3>7 DEF Opening
    <3> QED BY <1>6, <3>4, <3>6, <3>8
  <2>8. p # ts.sport => server'[ts.sport] = server[ts.sport]
    BY <1>1, <1>9, <2>2
  <2> QED BY <1>2, <1>7, <1>11, <2>2, <2>5, <2>6, <2>7, <2>8, PeerKeeps
<1>13. CASE "SYN" \notin s.flags /\ server[p].st \in {"listen", "gone"}
  <2>1. server' = server /\ toClient' = toClient
    BY <1>4, <1>5, <1>13 DEF ServerTakes
  <2>2. InFine' /\ PeersFine'
    BY <1>1, <1>2, <2>1 DEF InFine, Arrives, OwnPort, PeersFine
  <2>3. Faithful' = Faithful /\ faults' \in Nat
    BY <1>1, <1>2 DEF Faithful, CountFine
  <2>4. Faithful => Streaming(ts, 0)'
    BY <1>2, <2>1 DEF Inv, Good, Streaming, Got
  <2> QED BY <1>2, <1>7, <1>11, <2>1, <2>2, <2>3, <2>4, EnvKeeps
<1>14. CASE "SYN" \notin s.flags /\ server[p].st \notin {"listen", "gone"}
  <2>1. PICK st : st = IF "FIN" \in s.flags THEN "gone"
                       ELSE IF server[p].st = "syn" THEN "est" ELSE server[p].st
    OBVIOUS
  <2>3. PICK q : q = [server[p] EXCEPT !.st = st]
    OBVIOUS
  <2>4. st \in {"est", "fin", "gone"}
    BY <1>8, <1>14, <2>1 DEF Peers
  <2>5. server[p].conn = p + 1 /\ server[p].conn \in Nat
    BY <1>1, <1>8, <1>14 DEF PeersFine, Peers
  <2>6. q \in Peers /\ q.st # "listen" /\ q.next = server[p].next /\ q.conn = p + 1
    BY <1>8, <2>3, <2>4, <2>5 DEF Peers
  <2>7. /\ server' = [server EXCEPT
             ![p].st = IF "FIN" \in s.flags THEN "gone"
                       ELSE IF @ = "syn" THEN "est" ELSE @]
        /\ \/ Reply(p, server[p].conn, {"ACK"}, server[p].next, 0)
           \/ UNCHANGED toClient
    BY <1>4, <1>5, <1>14 DEF ServerTakes
  <2>8. server' = [server EXCEPT ![p] = q]
    BY <1>1, <1>8, <2>1, <2>3, <2>7 DEF PeersFine, Peers
  <2>9. PICK fl \in SUBSET Flags : fl = {"ACK"} /\ "SYN" \notin fl
    BY DEF Flags
  <2>10. PICK g : g = Replied(p, server[p].conn, fl, server[p].next, 0)
    OBVIOUS
  <2>11. g \in Segs /\ g.port = p /\ OwnPort(g) /\ g.flags = fl /\ g.dlen = 0
    BY <1>1, <1>5, <1>8, <2>5, <2>10, ReplyFacts
  <2>12. toClient' = toClient \/ toClient' = Append(toClient, g)
    BY <2>7, <2>9, <2>10 DEF Reply, Replied
  <2>13. Moves(p, q, g)
    BY <1>5, <2>6, <2>8, <2>9, <2>11, <2>12, TcpAssumption DEF Moves
  <2>14. InTurn(p, q, g)
    BY <2>6, <2>11 DEF InTurn
  <2>15. ASSUME Faithful, p = ts.sport
         PROVE  SynOnce(ts, toServer)' /\ Opening(ts, toServer)'
    <3>1. \A j \in 1..n : ~IsSyn(out[j], ts.sport)
      BY <1>3, <1>10, <1>14, <2>15 DEF SynOnce
    <3>2. SynOnce(ts, v)'
      BY <1>2, <1>6, <3>1 DEF SynOnce
    <3>3. 1 \in 1..n /\ out[1].port = ts.sport /\ "SYN" \notin out[1].flags
      BY <1>3, <1>4, <1>5, <1>14, <2>15
    <3>4. ts.state # "SYN_SENT"
      BY <1>3, <1>10, <2>15, <3>3 DEF Opening
    <3>5. Opening(ts, v)'
      BY <1>2, <3>4 DEF Opening
    <3> QED BY <1>6, <3>2, <3>5
  <2>16. p # ts.sport => server'[ts.sport] = server[ts.sport]
    BY <1>1, <1>9, <2>8
  <2> QED BY <1>2, <1>7, <1>11, <2>6, <2>11, <2>13, <2>14, <2>15, <2>16, PeerKeeps
<1> QED BY <1>12, <1>13, <1>14

-----------------------------------------------------------------------------
(* The invariant of the whole. *)
LEMMA InvInit ==
  ASSUME CurlInit
  PROVE  Inv
<1>1. /\ ts = [state |-> "CLOSED", sport |-> 0, seq |-> 0, ack |-> 0,
               rx |-> << >>, read |-> 0, conn |-> 0]
      /\ eph = 0 /\ pc = "idle" /\ handed = << >> /\ connects = 0 /\ pad \in Paddings
      /\ toClient = << >> /\ toServer = << >> /\ faults = 0
      /\ server = [p \in Ports |-> [st |-> "listen", next |-> 1, conn |-> 0]]
  BY DEF CurlInit, Init
<1>2. 0 \in Ports /\ << >> \in Seq(Segs) /\ Len(<< >>) = 0 /\ SubSeq(<< >>, 1, 0) = << >>
  BY TcpAssumption DEF Ports
<1>3. /\ ts \in Blocks /\ ts.state = "CLOSED" /\ ts.sport = 0 /\ ts.rx = << >>
      /\ ts.read = 0 /\ ts.conn = 0
  BY <1>1, <1>2 DEF Blocks, States
<1>4. BlockFine(ts)
  BY <1>1, <1>2, <1>3, TcpAssumption DEF BlockFine
<1>5. OutFine(toServer) /\ InFine
  BY <1>1, <1>2 DEF OutFine, InFine
<1>6. PeersFine
  BY <1>1 DEF PeersFine, Peers
<1>7. CountFine
  BY <1>1, <1>2, TcpAssumption DEF CountFine
<1>8. SynOnce(ts, toServer) /\ Opening(ts, toServer) /\ Streaming(ts, 0)
  BY <1>1, <1>2, <1>3 DEF SynOnce, Opening, Streaming
<1>9. InOrder(ts.rx)
  <2>1. Units(<< >>) = {} /\ DOMAIN << >> = {}
    BY DEF Units
  <2> QED BY <1>3, <2>1 DEF InOrder
<1> QED BY <1>4, <1>5, <1>6, <1>7, <1>8, <1>9 DEF Inv, Good, Around

LEMMA Unmoved ==
  ASSUME Inv, UNCHANGED vars
  PROVE  Inv'
<1>1. /\ ts' = ts /\ eph' = eph /\ pc' = pc /\ handed' = handed /\ connects' = connects
      /\ pad' = pad /\ toClient' = toClient /\ toServer' = toServer /\ server' = server
      /\ faults' = faults
  BY DEF vars, client
<1>2. BlockFine(ts)' /\ OutFine(toServer)' /\ Around'
  BY <1>1 DEF Inv, Good, Around, BlockFine, OutFine, InFine, PeersFine, CountFine,
              Arrives, OwnPort
<1>3. Faithful' => /\ SynOnce(ts, toServer)' /\ Opening(ts, toServer)'
                   /\ Streaming(ts, 0)' /\ InOrder(ts.rx)'
  BY <1>1 DEF Inv, Good, Faithful, SynOnce, Opening, Streaming, Got, InOrder
<1> QED BY <1>2, <1>3 DEF Inv, Good

LEMMA InvStep ==
  ASSUME Inv, [CurlNext]_allvars
  PROVE  Inv'
<1>1. CASE Prompt
  BY <1>1, Unmoved, ConnectKeeps DEF Prompt
<1>2. CASE Connected
  BY <1>2, CallsKeep DEF Connected
<1>3. CASE SendRequest
  BY <1>3, CallsKeep DEF SendRequest
<1>4. CASE StopKey
  BY <1>4, Unmoved DEF StopKey
<1>5. CASE Receive
  BY <1>5, Unmoved, CallsKeep DEF Receive
<1>6. CASE Received
  BY <1>6, CallsKeep DEF Received, RecvTimeout, RecvEnds
<1>7. CASE Close
  BY <1>7, CallsKeep DEF Close
<1>8. CASE Closed
  BY <1>8, CallsKeep DEF Closed
<1>9. CASE TcpPoll
  BY <1>9, PollKeeps
<1>10. CASE KeyPress
  BY <1>10, Unmoved DEF KeyPress
<1>11. CASE Environment
  BY <1>11, TakesKeep, LoseKeeps, SendsKeep, RepeatsKeep DEF Environment
<1>12. CASE UNCHANGED allvars
  BY <1>12, Unmoved DEF allvars
<1> QED BY <1>1, <1>2, <1>3, <1>4, <1>5, <1>6, <1>7, <1>8, <1>9, <1>10, <1>11, <1>12
        DEF CurlNext, Main

(* CurlInit, and every step of curl, the server and the wire, keep Inv. *)
LEMMA AlwaysInv == CurlSpec => []Inv
<1>1. CurlInit => Inv
  BY InvInit
<1>2. Inv /\ [CurlNext]_allvars => Inv'
  BY InvStep
<1> QED BY <1>1, <1>2, PTL DEF CurlSpec

-----------------------------------------------------------------------------
(***************************************************************************)
(* What a connection received was sent on it, and it is open only if the   *)
(* server took its SYN, as long as tcp_connect has not used every port;    *)
(* rx_buf is never overrun and never read past its end (tcp_process,       *)
(* tcp_recv).                                                              *)
(***************************************************************************)
THEOREM NothingFromOthers == CurlSpec => []OnlyThisConnection
<1>1. ASSUME Inv PROVE OnlyThisConnection
  <2>1. BlockFine(ts) /\ PeersFine /\ CountFine
    BY <1>1 DEF Inv, Good, Around
  <2>2. /\ ts \in Blocks /\ Len(ts.rx) \in Nat /\ DOMAIN ts.rx = 1..Len(ts.rx)
        /\ ts.sport \in Ports /\ ts.read \in Nat
    BY <2>1, LenProperties DEF BlockFine, Blocks
  <2>3. BlockOK
    BY <2>1, <2>2 DEF BlockOK, BlockFine, CountFine, Blocks, States
  <2>4. ts.state = "ESTABLISHED" => server[ts.sport].conn = ts.conn
    BY <2>1, <2>2 DEF BlockFine, PeersFine, CountFine
  <2> QED BY <2>1, <2>2, <2>3, <2>4 DEF OnlyThisConnection, BlockFine
<1> QED BY <1>1, AlwaysInv, PTL

(***************************************************************************)
(* On a wire that loses and repeats nothing, rx_buf holds data of the      *)
(* server's stream in order and each once, besides padding, for every mix  *)
(* of segment lengths; and up to the longest segment before its end it     *)
(* holds the beginning of the stream without a gap.  The data between the  *)
(* unit last taken and the last sent are on their way, in order            *)
(* (tcp_process stores in the order of arrival).                           *)
(***************************************************************************)
THEOREM ReceivesPrefix == CurlSpec => []StreamPrefix
<1>1. ASSUME Inv PROVE StreamPrefix
  <2>1. SUFFICES ASSUME Faithful
                 PROVE  /\ \A i, j \in Units(ts.rx) : i < j => ts.rx[i][2] < ts.rx[j][2]
                        /\ \A i \in Units(ts.rx) : i + MaxSeg <= RxBuf =>
                             ts.rx[i] = <<ts.conn, Cardinality({j \in Units(ts.rx) : j <= i})>>
                        /\ pad = 0 => Units(ts.rx) = DOMAIN ts.rx
    BY DEF StreamPrefix
  <2>2. InOrder(ts.rx) /\ BlockFine(ts) /\ ts.rx \in Seq(Bytes)
    BY <1>1, <2>1 DEF Inv, Good, BlockFine, Blocks, Bytes
  <2>3. ASSUME NEW i \in Units(ts.rx), i + MaxSeg <= RxBuf
        PROVE  ts.rx[i] = <<ts.conn, Cardinality({j \in Units(ts.rx) : j <= i})>>
    <3>1. i \in 1..Len(ts.rx)
      BY <2>2, UnitsFinite
    <3>2. ts.rx[i] \in Bytes
      BY <2>2, <3>1, ElementOfSeq
    <3>3. ts.rx[i][1] = ts.conn
      BY <2>2, <3>1 DEF BlockFine
    <3>4. ts.rx[i][2] = Cardinality({j \in Units(ts.rx) : j <= i})
      BY <2>2, <2>3 DEF InOrder, UpTo
    <3> QED BY <3>2, <3>3, <3>4 DEF Bytes
  <2> QED BY <2>2, <2>3 DEF InOrder
<1> QED BY <1>1, AlwaysInv, PTL

(***************************************************************************)
(* There, and without padding, an open connection has acknowledged exactly *)
(* the units it stored, until rx_buf has no room for the longest segment,  *)
(* from when on tcp_process may have acknowledged what it dropped.         *)
(***************************************************************************)
THEOREM AcksWhatItStores == CurlSpec => []AckedIsStored
<1>1. ASSUME Inv PROVE AckedIsStored
  <2>1. SUFFICES ASSUME Faithful, pad = 0, ts.state = "ESTABLISHED"
                 PROVE  \/ ts.ack = Len(ts.rx) + 1
                        \/ ts.ack > Len(ts.rx) + 1 /\ Len(ts.rx) + MaxSeg >= RxBuf
    BY DEF AckedIsStored
  <2>2. InOrder(ts.rx) /\ Streaming(ts, 0) /\ ts.rx \in Seq(Bytes)
    BY <1>1, <2>1 DEF Inv, Good, BlockFine, Blocks, Bytes
  <2>3. PICK d \in Nat : Got(ts, d)
    BY <2>1, <2>2 DEF Streaming
  <2>4. Len(ts.rx) \in Nat /\ Units(ts.rx) = 1..Len(ts.rx)
    BY <2>1, <2>2, LenProperties DEF InOrder
  <2>5. Cardinality(Units(ts.rx)) = Len(ts.rx)
    <3>1. Cardinality(1..Len(ts.rx)) = Len(ts.rx) - 1 + 1
      BY <2>4, FS_Interval
    <3> QED BY <2>4, <3>1
  <2>6. /\ Len(ts.rx) <= d /\ (Len(ts.rx) = d \/ Len(ts.rx) + MaxSeg >= RxBuf)
        /\ ts.ack = d + 1
    BY <2>1, <2>3, <2>5 DEF Got, Stored
  <2> QED BY <2>4, <2>6
<1> QED BY <1>1, AlwaysInv, PTL

(***************************************************************************)
(* curl leaves its loop for the end of the connection only when tcp_recv   *)
(* has handed it every byte received: what was handed over is at all times *)
(* what was received up to the place read (tcp_recv looks at the data      *)
(* before it looks at the state).                                          *)
(***************************************************************************)
THEOREM DataBeforeEnd == CurlSpec => EndAfterData
<1>1. ASSUME Inv, Unread = 0 PROVE handed = ts.rx
  <2>1. PICK rx \in Seq(Bytes), n \in Nat :
          rx = ts.rx /\ n = Len(rx) /\ ts.read \in Nat /\ handed = SubSeq(rx, 1, ts.read)
    <3>1. ts.rx \in Seq(Bytes) /\ ts.read \in Nat /\ handed = SubSeq(ts.rx, 1, ts.read)
      BY <1>1 DEF Inv, Good, BlockFine, Blocks, Bytes
    <3> QED BY <3>1, LenProperties
  <2>2. ts.read = n
    BY <1>1, <2>1 DEF Unread
  <2>3. SubSeq(rx, 1, n) = rx
    BY <2>1, SubSeqFull
  <2> QED BY <2>1, <2>2, <2>3
<1>2. ASSUME Inv, [CurlNext]_allvars, at \in {"loop", "call"}, at' = "close", key' = key
      PROVE  handed = ts.rx
  <2>1. at' # at
    BY <1>2
  <2>2. ~StopKey
    BY <1>2 DEF StopKey, Stops
  <2>3. CASE Receive
    BY <1>1, <1>2, <2>3 DEF Receive, Refused
  <2>4. CASE Received
    BY <1>1, <1>2, <2>4 DEF Received, RecvEnds, Leaves, Drained
  <2>5. \/ Prompt \/ Connected \/ SendRequest \/ StopKey \/ Receive \/ Received
        \/ Close \/ Closed \/ UNCHANGED curlvars \/ KeyPress
    BY <1>2 DEF CurlNext, Main, allvars
  <2>6. ~Prompt /\ ~Connected /\ ~SendRequest /\ ~Close /\ ~Closed /\ ~KeyPress
    BY <1>2 DEF Prompt, Connected, SendRequest, Close, Closed, KeyPress
  <2>7. ~UNCHANGED curlvars
    BY <2>1 DEF curlvars
  <2> QED BY <2>2, <2>3, <2>4, <2>5, <2>6, <2>7
<1>3. Inv /\ [CurlNext]_allvars =>
        [(at \in {"loop", "call"} /\ at' = "close" /\ key' = key) => handed = ts.rx]_allvars
  BY <1>2
<1> QED BY <1>3, AlwaysInv, PTL DEF CurlSpec, EndAfterData
=============================================================================
