------------------------------ MODULE IpcFifo ------------------------------
(***************************************************************************)
(* What the kernel's message queue promises to its callers: a bounded      *)
(* first-in first-out queue of messages.  A message is the sender, the     *)
(* receiver and exactly the bytes that were accepted.  There are no slots, *)
(* indices, lengths or "used" flags here: IpcQueue has those, and is shown *)
(* to implement this module.                                               *)
(***************************************************************************)
EXTENDS Integers, Sequences

CONSTANTS Capacity,     \* messages the queue can hold
          MsgSize,      \* bytes kept of one message
          MaxPid,       \* pids are 1..MaxPid
          Payloads,     \* the byte strings callers send
          Senders,      \* values of the "from" argument of a send
          Receivers,    \* values of the "to" argument of a send
          Filters,      \* values of the "from" argument of a receive
          BufLens       \* values of the "max_len" argument of a receive

VARIABLES fifo,         \* the queued messages, oldest first
          reply         \* what the last call returned and wrote to its buffer

avars == <<fifo, reply>>

Least(a, b) == IF a <= b THEN a ELSE b

\* The first n bytes of a buffer (all of it when it is shorter).
Prefix(bytes, n) == [i \in 1..Least(Len(bytes), n) |-> bytes[i]]

AInit == /\ fifo = << >>
         /\ reply = [ret |-> 0, buf |-> << >>]

\* A message is accepted while there is room; it is cut to MsgSize bytes.
ASend(from, to, data) ==
  IF Len(fifo) < Capacity /\ to \in 1..MaxPid
  THEN /\ fifo' = Append(fifo, [sender |-> from, receiver |-> to,
                                body |-> Prefix(data, MsgSize)])
       /\ reply' = [ret |-> Least(Len(data), MsgSize), buf |-> << >>]
  ELSE /\ reply' = [ret |-> -1, buf |-> << >>]
       /\ UNCHANGED fifo

\* Only the oldest message can be received, and only by a call whose filter
\* admits its sender; the caller gets at most max_len bytes, the rest is lost.
AReceive(from, max_len) ==
  IF Len(fifo) > 0 /\ (from = 0 \/ fifo[1].sender = from)
  THEN /\ fifo' = Tail(fifo)
       /\ reply' = [ret |-> Least(Len(fifo[1].body), max_len),
                    buf |-> Prefix(fifo[1].body, max_len)]
  ELSE /\ reply' = [ret |-> 0, buf |-> << >>]
       /\ UNCHANGED fifo

ANext == \/ \E from \in Senders, to \in Receivers, data \in Payloads :
              ASend(from, to, data)
         \/ \E from \in Filters, max_len \in BufLens : AReceive(from, max_len)

ASpec == AInit /\ [][ANext]_avars
=============================================================================
