--------------------------------- MODULE Tcp ---------------------------------
(***************************************************************************)
(* The TCP client of src/net/net.c: one connection block ts, tcp_process   *)
(* for arriving segments and the blocking calls tcp_connect,               *)
(* tcp_send_data, tcp_recv and tcp_close, which poll the network until a   *)
(* deadline.  Segments are processed only inside such a call, by net_poll, *)
(* which takes all that have arrived before it returns to the loop.        *)
(*                                                                         *)
(* The server and the wire are external: a server that opens, sends a      *)
(* stream, resets or finishes, and sends again some of what it sent before *)
(* (an acknowledgement may be late or lost, so the model leaves open which *)
(* and carries none to the server); and a wire that keeps order and may    *)
(* lose.  A segment carries dlen units of data, at most MaxSeg; pad is how *)
(* many units of padding an empty segment gets when frames arrive padded   *)
(* to the shortest Ethernet frame (not every card and peer does so).       *)
(* tcp_process takes the length of the frame, not the length field of the  *)
(* IP header, so it counts them.                                           *)
(* Sequence numbers start at 0 on both sides.  A deadline may pass         *)
(* at any turn of a loop.                                                  *)
(***************************************************************************)
EXTENDS Integers, Sequences, SequencesExt, FiniteSets

CONSTANTS NPorts,       \* size of the ephemeral port counter, 2^16 in the code
          RxBuf,        \* sizeof(ts.rx_buf)
          MaxRead,      \* the buffer length of the callers of tcp_recv
          Paddings, StreamLen,
          MaxSeg,       \* the longest segment
          MaxConnects,
          WireLen,      \* segments on their way to the client at once
          MaxFaults     \* segments the wire loses or the server repeats

ASSUME TcpAssumption == /\ NPorts \in Nat \ {0} /\ MaxConnects \in 1..NPorts
                        /\ RxBuf \in Nat \ {0} /\ MaxRead \in Nat \ {0}
                        /\ Paddings \subseteq Nat /\ StreamLen \in Nat
                        /\ MaxSeg \in Nat \ {0}

VARIABLES ts,         \* state, sport, seq, ack, rx (rx_buf up to rx_len), read,
                      \* and conn: which connection it is, for the properties
          eph,        \* tcp_eph_port
          pc,         \* the blocking call in progress
          handed,     \* bytes given to callers on this connection
          connects,
          pad, toClient, toServer, server,
          faults

client == <<ts, eph, pc, handed, connects>>
vars == <<client, pad, toClient, toServer, server, faults>>

Ports == 0..(NPorts - 1)
Waiting == {"connect", "recv", "close"}

Init ==
  /\ ts = [state |-> "CLOSED", sport |-> 0, seq |-> 0, ack |-> 0,
           rx |-> << >>, read |-> 0, conn |-> 0]
  /\ eph = 0 /\ pc = "idle" /\ handed = << >> /\ connects = 0
  /\ pad \in Paddings
  /\ toClient = << >> /\ toServer = << >> /\ faults = 0
  /\ server = [p \in Ports |-> [st |-> "listen", next |-> 1, conn |-> 0]]

-----------------------------------------------------------------------------
\* tcp_send_seg on block t: the segment, and the block after it.
Segment(t, flags, dlen) ==
  [port |-> t.sport, conn |-> t.conn, flags |-> flags, seq |-> t.seq, dlen |-> dlen]
AfterSend(t, flags, dlen) ==
  [t EXCEPT !.seq = @ + Cardinality(flags \cap {"SYN", "FIN"}) + dlen]
Sent(t, flags, dlen) == /\ toServer' = Append(toServer, Segment(t, flags, dlen))
                        /\ ts' = AfterSend(t, flags, dlen)

\* The same inside of net_poll, where c is the block with the segments to send.
Acknowledge(c, t) == [ts |-> AfterSend(t, {"ACK"}, 0),
                      out |-> Append(c.out, Segment(t, {"ACK"}, 0))]

\* The bytes of a segment as tcp_process sees them, padding included.
Payload(s) == IF s.dlen > 0 THEN [i \in 1..s.dlen |-> <<s.conn, s.seq + i - 1>>]
              ELSE [i \in 1..pad |-> <<s.conn, 0>>]

\* if (ts.rx_len + dlen < sizeof(ts.rx_buf)): data that does not fit is dropped
Fits(t, data) == Len(t.rx) + Len(data) < RxBuf
Store_AtStart(t, data) ==
  [t EXCEPT !.rx = [i \in 1..(Len(@) + Len(data)) |->
                      IF i <= Len(data) THEN data[i]
                      ELSE IF i <= Len(@) THEN @[i] ELSE <<t.conn, 0>>]]
Store(t, data) == IF Fits(t, data) THEN [t EXCEPT !.rx = @ \o data] ELSE t

\* case TCP_SYN_SENT
InSynSent(c, s) ==
  IF {"SYN", "ACK"} \subseteq s.flags
  THEN Acknowledge(c, [c.ts EXCEPT !.ack = s.seq + 1, !.state = "ESTABLISHED"])
  ELSE c

\* ntohl(h->seq_num) + inc
Acked_Early(s, inc) == s.seq
Acked(s, inc) == s.seq + inc

\* case TCP_ESTABLISHED
InEstablished(c, s) ==
  LET data == Payload(s)
      inc == Len(data) + (IF "FIN" \in s.flags THEN 1 ELSE 0)
      stored == Store(c.ts, data)
      acked == [stored EXCEPT !.ack = Acked(s, inc),
                  !.state = IF "FIN" \in s.flags THEN "CLOSED" ELSE @]
  IN  IF "RST" \in s.flags THEN [c EXCEPT !.ts.state = "CLOSED"]
      ELSE IF inc > 0 THEN Acknowledge(c, acked) ELSE c

\* tcp_process; ntohs(h->dst_port) != ts.sport
Mine(t, s) == s.port = t.sport
Processed(c, s) ==
  CASE Mine(c.ts, s) /\ c.ts.state = "SYN_SENT" -> InSynSent(c, s)
    [] Mine(c.ts, s) /\ c.ts.state = "ESTABLISHED" -> InEstablished(c, s)
    [] OTHER -> c

\* net_poll hands tcp_process the first n segments one after the other.
Polled(n) ==
  LET upTo[k \in 0..n] == IF k = 0 THEN [ts |-> ts, out |-> toServer]
                          ELSE Processed(upTo[k - 1], toClient[k])
  IN  upTo[n]

\* net_poll in the loop of a blocking call: n segments have arrived
Polling == pc = "connect" => ts.state = "SYN_SENT"
TcpPoll ==
  /\ pc \in Waiting /\ Polling
  /\ \E n \in DOMAIN toClient :
       /\ ts' = Polled(n).ts /\ toServer' = Polled(n).out
       /\ toClient' = SubSeq(toClient, n + 1, Len(toClient))
  /\ UNCHANGED <<eph, pc, handed, connects, pad, server, faults>>

Return == pc' = "idle"
Wire == <<pad, toClient, server, faults>>

\* tcp_connect: the block is set up and the SYN sent, then the loop
NextPort_Same == eph
NextPort == (eph + 1) % NPorts
ConnectCall ==
  /\ pc = "idle" /\ connects < MaxConnects
  /\ connects' = connects + 1
  /\ eph' = NextPort
  /\ Sent([state |-> "SYN_SENT", sport |-> eph, seq |-> 0, ack |-> 0,
           rx |-> << >>, read |-> 0, conn |-> connects + 1], {"SYN"}, 0)
  /\ handed' = << >> /\ pc' = "connect"
  /\ UNCHANGED Wire

\* The loop ends when the state changed or the deadline passed.
Succeeded == ts.state = "ESTABLISHED"
ConnectReturn ==
  /\ pc = "connect" /\ Return
  /\ ts' = IF Succeeded THEN ts ELSE [ts EXCEPT !.state = "CLOSED"]
  /\ UNCHANGED <<eph, handed, connects, toServer, Wire>>

\* tcp_send_data of one unit, refused unless the connection is open
SendData ==
  /\ pc = "idle"
  /\ IF ts.state = "ESTABLISHED" THEN Sent(ts, {"ACK", "PSH"}, 1)
     ELSE UNCHANGED <<ts, toServer>>
  /\ UNCHANGED <<pc, eph, handed, connects, Wire>>

\* tcp_recv: refused at once (-1), or the loop
Unread == Len(ts.rx) - ts.read
Refused == ts.state = "CLOSED" /\ Unread = 0
RecvCall ==
  /\ pc = "idle" /\ ~Refused /\ pc' = "recv"
  /\ UNCHANGED <<ts, eph, handed, connects, toServer, Wire>>

\* In the loop data goes first, then the end of the connection (-1); the
\* deadline may pass (0).
RecvData ==
  LET n == IF Unread > MaxRead THEN MaxRead ELSE Unread
  IN  /\ pc = "recv" /\ Unread > 0
      /\ handed' = handed \o SubSeq(ts.rx, ts.read + 1, ts.read + n)
      /\ ts' = [ts EXCEPT !.read = @ + n]
      /\ Return /\ UNCHANGED <<eph, connects, toServer, Wire>>
Drained_ClosedFirst == TRUE
Drained == Unread = 0
Leaves == /\ pc = "recv" /\ Drained /\ Return
          /\ UNCHANGED <<ts, eph, handed, connects, toServer, Wire>>
RecvEnds == ts.state = "CLOSED" /\ Leaves
RecvTimeout == ts.state # "CLOSED" /\ Leaves

\* tcp_close: FIN, then the loop, which nothing but the deadline ends: no
\* segment changes CLOSING.  (TCP_FIN_WAIT is tested for but never entered.)
CloseCall ==
  /\ pc = "idle"
  /\ IF ts.state = "ESTABLISHED"
     THEN Sent([ts EXCEPT !.state = "CLOSING"], {"ACK", "FIN"}, 0) /\ pc' = "close"
     ELSE ts' = [ts EXCEPT !.state = "CLOSED"] /\ UNCHANGED <<pc, toServer>>
  /\ UNCHANGED <<eph, handed, connects, Wire>>

CloseReturn ==
  /\ pc = "close" /\ Return
  /\ ts' = [ts EXCEPT !.state = "CLOSED"]
  /\ UNCHANGED <<eph, handed, connects, toServer, Wire>>

-----------------------------------------------------------------------------
\* The server (external).  Reply: a segment of the server on port p.
Reply(p, conn, flags, seq, dlen) ==
  /\ Len(toClient) < WireLen
  /\ toClient' = Append(toClient, [port |-> p, conn |-> conn, flags |-> flags,
                                   seq |-> seq, dlen |-> dlen])

\* It takes the next segment of the client: answers a SYN, acknowledges data
\* and FIN.
ServerTakes ==
  LET s == Head(toServer)
      p == s.port
  IN  /\ toServer # << >> /\ toServer' = Tail(toServer)
      /\ CASE "SYN" \in s.flags ->
                /\ server' = [server EXCEPT ![p] = [st |-> "syn", next |-> 1,
                                                    conn |-> s.conn]]
                /\ Reply(p, s.conn, {"SYN", "ACK"}, 0, 0)
           [] "SYN" \notin s.flags /\ server[p].st \in {"listen", "gone"} ->
                UNCHANGED <<server, toClient>>
           [] "SYN" \notin s.flags /\ server[p].st \notin {"listen", "gone"} ->
                /\ server' = [server EXCEPT
                     ![p].st = IF "FIN" \in s.flags THEN "gone"
                               ELSE IF @ = "syn" THEN "est" ELSE @]
                /\ IF s.dlen > 0 \/ "FIN" \in s.flags
                   THEN Reply(p, server[p].conn, {"ACK"}, server[p].next, 0)
                   ELSE UNCHANGED toClient
      /\ UNCHANGED <<client, pad, faults>>

\* It sends n units of its stream, finishes, with the last units or after
\* them, or resets; the latter two also before the client has acknowledged
\* the opening.
ServerSends(p) ==
  /\ \/ \E n \in 1..MaxSeg :
          /\ server[p].st = "est" /\ server[p].next + n <= StreamLen + 1
          /\ Reply(p, server[p].conn, {"ACK"}, server[p].next, n)
          /\ server' = [server EXCEPT ![p].next = @ + n]
     \/ \E n \in 0..MaxSeg :
          /\ \/ server[p].st = "est" /\ server[p].next + n = StreamLen + 1
             \/ server[p].st = "syn" /\ n = 0
          /\ Reply(p, server[p].conn, {"ACK", "FIN"}, server[p].next, n)
          /\ server' = [server EXCEPT ![p].st = "fin", ![p].next = @ + n]
     \/ /\ server[p].st \in {"syn", "est"}
        /\ Reply(p, server[p].conn, {"RST"}, server[p].next, 0)
        /\ server' = [server EXCEPT ![p].st = "gone"]
  /\ UNCHANGED <<client, pad, toServer, faults>>

\* Units are sent again: their acknowledgement may be lost or on its way.
ServerRepeats(p) ==
  /\ server[p].st \in {"est", "fin"}
  /\ faults < MaxFaults /\ faults' = faults + 1
  /\ \E n \in 1..MaxSeg, m \in 1..StreamLen :
       /\ m + n <= server[p].next
       /\ Reply(p, server[p].conn, {"ACK"}, m, n)
  /\ UNCHANGED <<client, pad, toServer, server>>

\* The wire loses a segment of either direction.
Lose ==
  /\ faults < MaxFaults /\ faults' = faults + 1
  /\ \/ \E i \in DOMAIN toClient :
          toClient' = RemoveAt(toClient, i) /\ UNCHANGED toServer
     \/ \E i \in DOMAIN toServer :
          toServer' = RemoveAt(toServer, i) /\ UNCHANGED toClient
  /\ UNCHANGED <<client, pad, server>>

Environment == ServerTakes \/ Lose \/ \E p \in Ports : ServerSends(p) \/ ServerRepeats(p)

-----------------------------------------------------------------------------
(***************************************************************************)
(* Types; the received bytes stay below the size of rx_buf, one byte short *)
(* of filling it, and are never read past their end.                       *)
(***************************************************************************)
BlockOK ==
  /\ ts.state \in {"CLOSED", "SYN_SENT", "ESTABLISHED", "CLOSING"}
  /\ ts.sport \in Ports /\ ts.seq \in Nat /\ ts.ack \in Nat
  /\ Len(ts.rx) < RxBuf /\ ts.read \in 0..Len(ts.rx)
  /\ eph \in Ports /\ pc \in Waiting \cup {"idle"}

(***************************************************************************)
(* Late segments of an earlier connection never reach a new one: what a    *)
(* connection received was sent on it, and it is open only if the server   *)
(* took its SYN.  tcp_process compares nothing but the port, which         *)
(* tcp_connect takes from a counter.                                       *)
(***************************************************************************)
OnlyThisConnection ==
  /\ BlockOK
  /\ \A i \in DOMAIN ts.rx : ts.rx[i][1] = ts.conn
  /\ ts.state = "ESTABLISHED" => server[ts.sport].conn = ts.conn

\* The wire has lost and repeated nothing.
Faithful == faults = 0

\* Where received bytes are data of the server, not padding.
Units(rx) == {i \in DOMAIN rx : rx[i][2] # 0}

(***************************************************************************)
(* On such a wire the client receives what the server sent in order and    *)
(* nothing twice; what else it receives is padding.  Up to the length of   *)
(* the longest segment before the end of rx_buf it is the beginning of the *)
(* stream, nothing missing; only behind that a segment that did not fit    *)
(* may be missing before a shorter one that did.  (tcp_process compares no *)
(* sequence numbers: a repeated segment is stored again, and one after a   *)
(* lost one as if nothing were missing.)                                   *)
(***************************************************************************)
StreamPrefix ==
  LET got == Units(ts.rx)
  IN  Faithful =>
        /\ \A i, j \in got : i < j => ts.rx[i][2] < ts.rx[j][2]
        /\ \A i \in got : i + MaxSeg <= RxBuf =>
             ts.rx[i] = <<ts.conn, Cardinality({j \in got : j <= i})>>
        /\ pad = 0 => got = DOMAIN ts.rx

(***************************************************************************)
(* Without padding an open connection has acknowledged exactly what it     *)
(* stored, until rx_buf has no room for the longest segment: from then on  *)
(* it may have acknowledged what it dropped.                               *)
(***************************************************************************)
AckedIsStored ==
  (Faithful /\ pad = 0 /\ ts.state = "ESTABLISHED") =>
    \/ ts.ack = Len(ts.rx) + 1
    \/ ts.ack > Len(ts.rx) + 1 /\ Len(ts.rx) + MaxSeg >= RxBuf
=============================================================================
