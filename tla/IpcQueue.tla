------------------------------ MODULE IpcQueue ------------------------------
(***************************************************************************)
(* The kernel's message queue, rust/src/ipc.rs: a ring of IPC_MAX_MSGS     *)
(* slots with a head and a tail index.  Both calls run from their first to *)
(* their last access of the queue with interrupts off, so each is one      *)
(* action.  A slot keeps the bytes of the message it held before: a send   *)
(* overwrites only the first len bytes of msg.data.                        *)
(***************************************************************************)
EXTENDS Integers, Sequences

CONSTANTS IPC_MAX_MSGS, \* slots of the ring (64)
          IPC_MSG_SIZE, \* bytes of a slot's data array (256)
          MaxPid,       \* largest receiver accepted (32)
          Byte,         \* the values of a byte
          Payloads,     \* the byte strings callers send (data and length)
          Senders,      \* values of send's "from"
          Receivers,    \* values of send's "to"
          Filters,      \* values of receive's "from"; 0 admits any sender
          BufLens       \* values of receive's "max_len"

ASSUME SizeAssumption == /\ IPC_MAX_MSGS \in Nat \ {0}
                         /\ IPC_MSG_SIZE \in Nat
ASSUME CallAssumption == /\ 0 \in Byte
                         /\ Payloads \subseteq Seq(Byte)
                         /\ Senders \subseteq Int
                         /\ Receivers \subseteq Int
                         /\ Filters \subseteq Int
                         /\ BufLens \subseteq Nat
                         /\ MaxPid \in Nat

VARIABLES queue,  \* MESSAGE_QUEUE
          head,   \* QUEUE_HEAD
          tail,   \* QUEUE_TAIL
          reply   \* return value and the caller's buffer after the last call

vars == <<queue, head, tail, reply>>

Slots == 0..(IPC_MAX_MSGS - 1)

\* struct IpcMessage; data is an array of fixed size.
Message == [sender : Int, receiver : Int, data : [1..IPC_MSG_SIZE -> Byte],
            length : Nat, used : BOOLEAN]

Lesser(a, b) == IF a <= b THEN a ELSE b

\* (i + 1) % IPC_MAX_MSGS
NextIndex(i) == (i + 1) % IPC_MAX_MSGS

\* copy_from_slice into msg.data: bytes past the new message stay as they were.
Copy(old, data, len) ==
  [i \in 1..IPC_MSG_SIZE |-> IF i <= len THEN data[i] ELSE old[i]]

Init == /\ queue = [s \in Slots |->
                      [sender |-> 0, receiver |-> 0,
                       data |-> [i \in 1..IPC_MSG_SIZE |-> 0],
                       length |-> 0, used |-> FALSE]]
        /\ head = 0
        /\ tail = 0
        /\ reply = [ret |-> 0, buf |-> << >>]

\* One slot is always left empty: a full ring must not look like an empty one.
Full == NextIndex(tail) = head

Refuse(ret) == /\ reply' = [ret |-> ret, buf |-> << >>]
               /\ UNCHANGED <<queue, head, tail>>

\* rust_ipc_send
Send(from, to, data) ==
  LET len == Lesser(Len(data), IPC_MSG_SIZE) IN
  IF Full \/ to < 1 \/ to > MaxPid
  THEN Refuse(-1)
  ELSE /\ queue' = [queue EXCEPT ![tail] =
                      [sender |-> from, receiver |-> to,
                       data |-> Copy(queue[tail].data, data, len),
                       length |-> len, used |-> TRUE]]
       /\ tail' = NextIndex(tail)
       /\ reply' = [ret |-> len, buf |-> << >>]
       /\ UNCHANGED head

\* copy_len: the shorter of the message and the caller's buffer.
CopyLen_Caller(msg, max_len) == Lesser(IPC_MSG_SIZE, max_len)
CopyLen(msg, max_len) == Lesser(msg.length, max_len)

\* The slot is given back: used = false, then the head moves on.
Release_KeepUsed == head' = NextIndex(head) /\ UNCHANGED queue
Release == /\ queue' = [queue EXCEPT ![head].used = FALSE]
           /\ head' = NextIndex(head)

\* rust_ipc_receive
Receive(from, max_len) ==
  LET msg == queue[head] IN
  IF head = tail THEN Refuse(0)
  ELSE IF ~msg.used
       THEN /\ head' = NextIndex(head)
            /\ reply' = [ret |-> 0, buf |-> << >>]
            /\ UNCHANGED <<queue, tail>>
  ELSE IF from # 0 /\ msg.sender # from THEN Refuse(0)
  ELSE /\ Release
       /\ reply' = [ret |-> CopyLen(msg, max_len),
                    buf |-> [i \in 1..CopyLen(msg, max_len) |-> msg.data[i]]]
       /\ UNCHANGED tail

Next == \/ \E from \in Senders, to \in Receivers, data \in Payloads :
             Send(from, to, data)
        \/ \E from \in Filters, max_len \in BufLens : Receive(from, max_len)

Spec == Init /\ [][Next]_vars

-----------------------------------------------------------------------------

TypeOK == /\ queue \in [Slots -> Message]
          /\ head \in Slots
          /\ tail \in Slots
          /\ \A s \in Slots : queue[s].length <= IPC_MSG_SIZE

\* Messages between head and tail, and the slot of the k-th of them.
Count == IF tail >= head THEN tail - head ELSE tail - head + IPC_MAX_MSGS
SlotOf(k) == IF head + k - 1 < IPC_MAX_MSGS THEN head + k - 1
             ELSE head + k - 1 - IPC_MAX_MSGS
InWindow(s) == IF head <= tail THEN head <= s /\ s < tail
               ELSE head <= s \/ s < tail

(***************************************************************************)
(* A slot carries used = true exactly while it lies between head and tail, *)
(* through every wrap of the two indices: the flag set by rust_ipc_send    *)
(* and cleared by rust_ipc_receive never disagrees with the indices, so    *)
(* the "!msg.used" branch of rust_ipc_receive, which would drop a queued   *)
(* slot and report that no message is there, is never taken.               *)
(***************************************************************************)
UsedIsWindow == \A s \in Slots : queue[s].used <=> InWindow(s)

\* The queue as its callers see it.
Body(msg) == [i \in 1..msg.length |-> msg.data[i]]
Queued == [k \in 1..Count |->
             LET msg == queue[SlotOf(k)]
             IN  [sender |-> msg.sender, receiver |-> msg.receiver,
                  body |-> Body(msg)]]

Abstract == INSTANCE IpcFifo WITH Capacity <- IPC_MAX_MSGS - 1,
                                  MsgSize <- IPC_MSG_SIZE, fifo <- Queued

(***************************************************************************)
(* The ring implements the bounded first-in first-out queue of capacity    *)
(* IPC_MAX_MSGS - 1: a send is refused only when that many messages are    *)
(* queued or the pid is out of range, messages leave in the order they     *)
(* were sent, and a receiver sees a prefix of what was sent, never bytes   *)
(* an earlier message left in the slot.                                    *)
(***************************************************************************)
ImplementsFifo == Abstract!ASpec
=============================================================================
