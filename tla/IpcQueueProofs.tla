-------------------------- MODULE IpcQueueProofs --------------------------
(***************************************************************************)
(* Proofs about the message queue for every ring size, message size and    *)
(* set of callers: the type invariant, the agreement of the used flags     *)
(* with the indices, and the refinement of the bounded FIFO.               *)
(***************************************************************************)
EXTENDS IpcQueue, SequenceTheorems, TLAPS

(* (i + 1) % IPC_MAX_MSGS steps to the next slot and wraps at the last one. *)
LEMMA NextIndexWraps ==
  ASSUME NEW i \in Slots
  PROVE  NextIndex(i) = IF i = IPC_MAX_MSGS - 1 THEN 0 ELSE i + 1
  BY SizeAssumption DEF Slots, NextIndex

(* The successor of a slot index is a slot index. *)
LEMMA NextIndexInSlots ==
  ASSUME NEW i \in Slots
  PROVE  NextIndex(i) \in Slots
  BY NextIndexWraps, SizeAssumption DEF Slots
(* The smaller of two lengths is a length and exceeds neither. *)
LEMMA LesserBounds ==
  ASSUME NEW a \in Nat, NEW b \in Nat
  PROVE  Lesser(a, b) \in Nat /\ Lesser(a, b) <= a /\ Lesser(a, b) <= b
  BY DEF Lesser

(* Filling a slot from a caller's buffer leaves an array of bytes. *)
LEMMA CopyIsArray ==
  ASSUME NEW old \in [1..IPC_MSG_SIZE -> Byte], NEW data \in Seq(Byte)
  PROVE  Copy(old, data, Lesser(Len(data), IPC_MSG_SIZE))
            \in [1..IPC_MSG_SIZE -> Byte]
<1> DEFINE len == Lesser(Len(data), IPC_MSG_SIZE)
<1>1. len \in Nat /\ len <= Len(data)
  BY LesserBounds, SizeAssumption
<1>2. \A i \in 1..IPC_MSG_SIZE : i <= len => data[i] \in Byte
  BY <1>1, SizeAssumption
<1> QED
  BY <1>2 DEF Copy

(* The slot a send writes is a well-formed message. *)
LEMMA SentMessageType ==
  ASSUME TypeOK, NEW from \in Senders, NEW to \in Receivers,
         NEW data \in Payloads
  PROVE  LET len == Lesser(Len(data), IPC_MSG_SIZE)
         IN  /\ [sender |-> from, receiver |-> to,
                 data |-> Copy(queue[tail].data, data, len),
                 length |-> len, used |-> TRUE] \in Message
             /\ len <= IPC_MSG_SIZE
<1>1. data \in Seq(Byte) /\ from \in Int /\ to \in Int
  BY CallAssumption
<1>2. queue[tail].data \in [1..IPC_MSG_SIZE -> Byte]
  BY DEF TypeOK, Message
<1>3. Copy(queue[tail].data, data, Lesser(Len(data), IPC_MSG_SIZE))
         \in [1..IPC_MSG_SIZE -> Byte]
  BY <1>1, <1>2, CopyIsArray
<1>4. Len(data) \in Nat /\ IPC_MSG_SIZE \in Nat
  BY <1>1, SizeAssumption
<1>5. Lesser(Len(data), IPC_MSG_SIZE) \in Nat
        /\ Lesser(Len(data), IPC_MSG_SIZE) <= IPC_MSG_SIZE
  BY <1>4, LesserBounds
<1> QED
  BY <1>1, <1>3, <1>5 DEF Message

(* The slots and the indices keep their types, and no slot ever claims to  *)
(* hold more bytes than its data array: the type invariant of the queue    *)
(* that rust_ipc_send and rust_ipc_receive share.                          *)
THEOREM TypeCorrect == Spec => []TypeOK
<1>1. Init => TypeOK
  BY SizeAssumption, CallAssumption DEF Init, TypeOK, Message, Slots
<1>2. TypeOK /\ [Next]_vars => TypeOK'
  <2> SUFFICES ASSUME TypeOK, [Next]_vars PROVE TypeOK'
    OBVIOUS
  <2>1. ASSUME NEW from \in Senders, NEW to \in Receivers,
               NEW data \in Payloads, Send(from, to, data)
        PROVE  TypeOK'
    <3> DEFINE len == Lesser(Len(data), IPC_MSG_SIZE)
               m == [sender |-> from, receiver |-> to,
                     data |-> Copy(queue[tail].data, data, len),
                     length |-> len, used |-> TRUE]
    <3>1. m \in Message /\ m.length <= IPC_MSG_SIZE
      BY SentMessageType
    <3>2. CASE Refuse(-1)
      BY <3>2 DEF Refuse, TypeOK
    <3>3. CASE /\ queue' = [queue EXCEPT ![tail] = m]
               /\ tail' = NextIndex(tail) /\ UNCHANGED head
      <4> HIDE DEF m
      <4> QED BY <3>1, <3>3, NextIndexInSlots DEF TypeOK
    <3> QED BY <2>1, <3>2, <3>3 DEF Send
  <2>2. ASSUME NEW from \in Filters, NEW max_len \in BufLens,
               Receive(from, max_len)
        PROVE  TypeOK'
    <3>1. CASE UNCHANGED <<queue, head, tail>>
      BY <3>1 DEF TypeOK
    <3>2. CASE head' = NextIndex(head) /\ UNCHANGED <<queue, tail>>
      BY <3>2, NextIndexInSlots DEF TypeOK
    <3>3. CASE Release /\ UNCHANGED tail
      BY <3>3, NextIndexInSlots DEF TypeOK, Release, Message
    <3> QED BY <2>2, <3>1, <3>2, <3>3 DEF Receive, Refuse
  <2>3. CASE UNCHANGED vars
    BY <2>3 DEF vars, TypeOK
  <2> QED BY <2>1, <2>2, <2>3 DEF Next
<1> QED BY <1>1, <1>2, PTL DEF Spec

(* A send fills the slot at the tail, which then joins the window. *)
LEMMA SendKeepsWindow ==
  ASSUME TypeOK, UsedIsWindow, ~Full, NEW m \in Message, m.used,
         queue' = [queue EXCEPT ![tail] = m],
         tail' = NextIndex(tail), head' = head
  PROVE  UsedIsWindow'
<1>1. tail' = IF tail = IPC_MAX_MSGS - 1 THEN 0 ELSE tail + 1
  BY NextIndexWraps DEF TypeOK
<1>2. tail' # head
  BY DEF Full
<1>3. \A s \in Slots : InWindow(s)' <=> (InWindow(s) \/ s = tail)
  BY <1>1, <1>2, SizeAssumption DEF TypeOK, Slots, InWindow
<1> QED
  BY <1>3 DEF UsedIsWindow, TypeOK

(* A receive releases the slot at the head, which then leaves the window. *)
LEMMA ReleaseKeepsWindow ==
  ASSUME TypeOK, UsedIsWindow, head # tail, Release, UNCHANGED tail
  PROVE  UsedIsWindow'
<1>1. head' = IF head = IPC_MAX_MSGS - 1 THEN 0 ELSE head + 1
  BY NextIndexWraps DEF TypeOK, Release
<1>2. \A s \in Slots : InWindow(s)' <=> (InWindow(s) /\ s # head)
  BY <1>1, SizeAssumption DEF TypeOK, Slots, InWindow
<1>3. \A s \in Slots : queue'[s].used <=> (queue[s].used /\ s # head)
  BY DEF Release, TypeOK, Message
<1> QED
  BY <1>2, <1>3 DEF UsedIsWindow

(* The slot at the head of a ring that is not empty is in use. *)
LEMMA HeadIsUsed ==
  ASSUME TypeOK, UsedIsWindow, head # tail
  PROVE  queue[head].used
  BY DEF TypeOK, UsedIsWindow, InWindow, Slots

(* The used flags agree with the indices after every sequence of sends and *)
(* receives, so rust_ipc_receive never takes its "!msg.used" branch.       *)
THEOREM UsedFlagsAgree == Spec => []UsedIsWindow
<1>1. Init => UsedIsWindow
  BY DEF Init, UsedIsWindow, InWindow, Slots
<1>2. TypeOK /\ UsedIsWindow /\ [Next]_vars => UsedIsWindow'
  <2> SUFFICES ASSUME TypeOK, UsedIsWindow, [Next]_vars PROVE UsedIsWindow'
    OBVIOUS
  <2>1. ASSUME NEW from \in Senders, NEW to \in Receivers,
               NEW data \in Payloads, Send(from, to, data)
        PROVE  UsedIsWindow'
    <3> DEFINE len == Lesser(Len(data), IPC_MSG_SIZE)
               m == [sender |-> from, receiver |-> to,
                     data |-> Copy(queue[tail].data, data, len),
                     length |-> len, used |-> TRUE]
    <3>1. m \in Message /\ m.used
      BY SentMessageType
    <3>2. CASE Refuse(-1)
      BY <3>2 DEF Refuse, UsedIsWindow, InWindow
    <3>3. CASE /\ ~Full
               /\ queue' = [queue EXCEPT ![tail] = m]
               /\ tail' = NextIndex(tail) /\ head' = head
      <4> HIDE DEF m
      <4> QED BY <3>1, <3>3, SendKeepsWindow
    <3> QED BY <2>1, <3>2, <3>3 DEF Send
  <2>2. ASSUME NEW from \in Filters, NEW max_len \in BufLens,
               Receive(from, max_len)
        PROVE  UsedIsWindow'
    <3>1. CASE UNCHANGED <<queue, head, tail>>
      BY <3>1 DEF UsedIsWindow, InWindow
    <3>2. CASE head # tail /\ Release /\ UNCHANGED tail
      BY <3>2, ReleaseKeepsWindow
    <3> QED BY <2>2, <3>1, <3>2, HeadIsUsed DEF Receive, Refuse
  <2>3. CASE UNCHANGED vars
    BY <2>3 DEF vars, UsedIsWindow, InWindow
  <2> QED BY <2>1, <2>2, <2>3 DEF Next
<1> QED BY <1>1, <1>2, TypeCorrect, PTL DEF Spec
-----------------------------------------------------------------------------

(* The number of messages in the window, and how the indices give it. *)
LEMMA CountFacts ==
  ASSUME TypeOK
  PROVE  /\ Count \in Nat
         /\ Count <= IPC_MAX_MSGS - 1
         /\ Count = 0 <=> head = tail
         /\ Full <=> Count = IPC_MAX_MSGS - 1
         /\ \A k \in 1..Count : SlotOf(k) \in Slots /\ SlotOf(k) # tail
<1>1. NextIndex(tail) = IF tail = IPC_MAX_MSGS - 1 THEN 0 ELSE tail + 1
  BY NextIndexWraps DEF TypeOK
<1> QED
  BY <1>1, SizeAssumption DEF TypeOK, Slots, Count, Full, SlotOf

AMessage == [sender : Int, receiver : Int, body : Seq(Byte)]
AMsg(msg) == [sender |-> msg.sender, receiver |-> msg.receiver,
              body |-> Body(msg)]

(* What a slot in use stands for: the bytes up to its length. *)
LEMMA BodyFacts ==
  ASSUME NEW msg \in Message, msg.length <= IPC_MSG_SIZE
  PROVE  /\ Body(msg) \in Seq(Byte)
         /\ Len(Body(msg)) = msg.length
         /\ \A i \in 1..msg.length : Body(msg)[i] = msg.data[i]
<1>1. msg.length \in Nat
  BY DEF Message
<1>2. \A i \in 1..msg.length : msg.data[i] \in Byte
  BY <1>1, SizeAssumption DEF Message
<1> QED
  BY <1>1, <1>2 DEF Body

(* The window read from head to tail is a sequence of messages. *)
LEMMA QueuedFacts ==
  ASSUME TypeOK
  PROVE  /\ Queued \in Seq(AMessage)
         /\ Len(Queued) = Count
         /\ \A k \in 1..Count : Queued[k] = AMsg(queue[SlotOf(k)])
<1>1. Count \in Nat /\ \A k \in 1..Count : SlotOf(k) \in Slots
  BY CountFacts
<1>2. \A k \in 1..Count : AMsg(queue[SlotOf(k)]) \in AMessage
  <2> SUFFICES ASSUME NEW k \in 1..Count
               PROVE  AMsg(queue[SlotOf(k)]) \in AMessage
    OBVIOUS
  <2>1. /\ queue[SlotOf(k)] \in Message
        /\ queue[SlotOf(k)].length <= IPC_MSG_SIZE
    BY <1>1 DEF TypeOK
  <2>2. Body(queue[SlotOf(k)]) \in Seq(Byte)
    BY <2>1, BodyFacts
  <2> QED BY <2>1, <2>2 DEF AMsg, AMessage, Message
<1>3. Queued = [k \in 1..Count |-> AMsg(queue[SlotOf(k)])]
  BY DEF Queued, AMsg
<1> QED
  BY <1>1, <1>2, <1>3

(* Append and Tail, element by element. *)
LEMMA AppendAsFunction ==
  ASSUME NEW S, NEW seq \in Seq(S), NEW elt \in S
  PROVE  Append(seq, elt) = [k \in 1..(Len(seq) + 1) |->
                               IF k <= Len(seq) THEN seq[k] ELSE elt]
<1> DEFINE f == [k \in 1..(Len(seq) + 1) |->
                   IF k <= Len(seq) THEN seq[k] ELSE elt]
<1>1. /\ Append(seq, elt) \in Seq(S)
      /\ Len(Append(seq, elt)) = Len(seq) + 1
      /\ \A i \in 1..Len(seq) : Append(seq, elt)[i] = seq[i]
      /\ Append(seq, elt)[Len(seq) + 1] = elt
  BY AppendProperties
<1>2. Len(seq) \in Nat
  BY LenProperties
<1>3. \A i \in 1..(Len(seq) + 1) : Append(seq, elt)[i] = f[i]
  BY <1>1, <1>2
<1>4. Append(seq, elt) \in [1..(Len(seq) + 1) -> S]
  BY <1>1, LenProperties
<1> QED
  BY <1>3, <1>4

LEMMA TailAsFunction ==
  ASSUME NEW S, NEW seq \in Seq(S), Len(seq) > 0
  PROVE  Tail(seq) = [k \in 1..(Len(seq) - 1) |-> seq[k + 1]]
<1> DEFINE f == [k \in 1..(Len(seq) - 1) |-> seq[k + 1]]
<1>1. seq # << >>
  BY EmptySeq
<1>2. /\ Tail(seq) \in Seq(S)
      /\ Len(Tail(seq)) = Len(seq) - 1
      /\ \A i \in 1..Len(Tail(seq)) : Tail(seq)[i] = seq[i + 1]
  BY <1>1, HeadTailProperties
<1>3. Tail(seq) \in [1..(Len(seq) - 1) -> S]
  BY <1>2, LenProperties
<1>4. \A i \in 1..(Len(seq) - 1) : Tail(seq)[i] = f[i]
  BY <1>2
<1> QED
  BY <1>3, <1>4

(* A successful send appends to the abstract queue. *)
LEMMA SendAppends ==
  ASSUME TypeOK, ~Full, NEW m \in Message, m.length <= IPC_MSG_SIZE,
         queue' = [queue EXCEPT ![tail] = m],
         tail' = NextIndex(tail), head' = head
  PROVE  Queued' = Append(Queued, AMsg(m))
<1>1. tail' = IF tail = IPC_MAX_MSGS - 1 THEN 0 ELSE tail + 1
  BY NextIndexWraps DEF TypeOK
<1>2. Count' = Count + 1
  BY <1>1, SizeAssumption DEF TypeOK, Slots, Count, Full
<1>3. Count \in Nat /\ \A k \in 1..Count : SlotOf(k) \in Slots /\ SlotOf(k) # tail
  BY CountFacts
<1>4. \A k \in 1..Count : SlotOf(k)' = SlotOf(k)
  BY DEF SlotOf
<1>5. \A k \in 1..(Count + 1) : k > Count => SlotOf(k)' = tail
  BY SizeAssumption DEF TypeOK, Slots, SlotOf, Count
<1>6. \A k \in 1..Count : queue'[SlotOf(k)] = queue[SlotOf(k)]
  BY <1>3 DEF TypeOK
<1>7. queue'[tail] = m
  BY DEF TypeOK
<1>8. /\ Queued \in Seq(AMessage) /\ Len(Queued) = Count
      /\ \A k \in 1..Count : Queued[k] = AMsg(queue[SlotOf(k)])
  BY QueuedFacts
<1>9. Queued' = [k \in 1..(Count + 1) |-> AMsg(queue'[SlotOf(k)'])]
  BY <1>2 DEF Queued, AMsg, Body, SlotOf
<1>10. \A k \in 1..(Count + 1) :
         AMsg(queue'[SlotOf(k)']) = IF k <= Count THEN Queued[k] ELSE AMsg(m)
  BY <1>3, <1>4, <1>5, <1>6, <1>7, <1>8
<1>11. AMsg(m) \in AMessage
  <2>1. Body(m) \in Seq(Byte)
    BY BodyFacts
  <2> QED BY <2>1 DEF AMsg, AMessage, Message
<1>12. Append(Queued, AMsg(m)) =
         [k \in 1..(Count + 1) |-> IF k <= Count THEN Queued[k] ELSE AMsg(m)]
  BY <1>3, <1>8, <1>11, AppendAsFunction
<1> QED
  BY <1>9, <1>10, <1>12

(* A successful receive removes the oldest message. *)
LEMMA ReleaseIsTail ==
  ASSUME TypeOK, head # tail, Release, UNCHANGED tail
  PROVE  /\ Queued' = Tail(Queued)
         /\ Len(Queued) > 0
         /\ Queued[1] = AMsg(queue[head])
<1>1. head' = IF head = IPC_MAX_MSGS - 1 THEN 0 ELSE head + 1
  BY NextIndexWraps DEF TypeOK, Release
<1>2. Count' = Count - 1
  BY <1>1, SizeAssumption DEF TypeOK, Slots, Count
<1>3. /\ Count \in Nat /\ Count > 0
      /\ \A k \in 1..Count : SlotOf(k) \in Slots
  BY CountFacts
<1>4. \A k \in 1..(Count - 1) : SlotOf(k)' = SlotOf(k + 1)
  BY <1>1, <1>3, SizeAssumption DEF TypeOK, Slots, SlotOf, Count
<1>5. SlotOf(1) = head
  BY SizeAssumption DEF TypeOK, Slots, SlotOf
<1>6. \A s \in Slots : AMsg(queue'[s]) = AMsg(queue[s])
  BY DEF Release, TypeOK, Message, AMsg, Body
<1>7. /\ Queued \in Seq(AMessage) /\ Len(Queued) = Count
      /\ \A k \in 1..Count : Queued[k] = AMsg(queue[SlotOf(k)])
  BY QueuedFacts
<1>8. Queued' = [k \in 1..(Count - 1) |-> AMsg(queue'[SlotOf(k)'])]
  BY <1>2 DEF Queued, AMsg, Body, SlotOf
<1>9. \A k \in 1..(Count - 1) : AMsg(queue'[SlotOf(k)']) = Queued[k + 1]
  BY <1>3, <1>4, <1>6, <1>7
<1>10. Tail(Queued) = [k \in 1..(Count - 1) |-> Queued[k + 1]]
  BY <1>3, <1>7, TailAsFunction
<1> QED
  BY <1>3, <1>5, <1>7, <1>8, <1>9, <1>10
(* The bytes a send keeps are the first IPC_MSG_SIZE of the caller's, and  *)
(* none of those the slot held before.                                     *)
LEMMA SentBody ==
  ASSUME TypeOK, NEW from \in Senders, NEW to \in Receivers,
         NEW data \in Payloads
  PROVE  LET len == Lesser(Len(data), IPC_MSG_SIZE)
             m == [sender |-> from, receiver |-> to,
                   data |-> Copy(queue[tail].data, data, len),
                   length |-> len, used |-> TRUE]
         IN  Body(m) = Abstract!Prefix(data, IPC_MSG_SIZE)
<1> DEFINE len == Lesser(Len(data), IPC_MSG_SIZE)
<1>1. Len(data) \in Nat /\ IPC_MSG_SIZE \in Nat
  BY CallAssumption, SizeAssumption
<1>2. len \in Nat /\ len <= IPC_MSG_SIZE
  BY <1>1, LesserBounds
<1>3. len = Abstract!Least(Len(data), IPC_MSG_SIZE)
  BY DEF Lesser, Abstract!Least
<1>4. \A i \in 1..len : Copy(queue[tail].data, data, len)[i] = data[i]
  BY <1>1, <1>2 DEF Copy
<1>5. Abstract!Prefix(data, IPC_MSG_SIZE) = [i \in 1..len |-> data[i]]
  BY <1>3 DEF Abstract!Prefix
<1> DEFINE m == [sender |-> from, receiver |-> to,
                 data |-> Copy(queue[tail].data, data, len),
                 length |-> len, used |-> TRUE]
<1>6. Body(m) = [i \in 1..len |-> Copy(queue[tail].data, data, len)[i]]
  BY DEF Body
<1> QED
  BY <1>4, <1>5, <1>6

(* The bytes a receive hands out are a prefix of the message's body. *)
LEMMA ReceivedBytes ==
  ASSUME NEW msg \in Message, msg.length <= IPC_MSG_SIZE,
         NEW max_len \in BufLens
  PROVE  /\ CopyLen(msg, max_len) = Abstract!Least(Len(Body(msg)), max_len)
         /\ [i \in 1..CopyLen(msg, max_len) |-> msg.data[i]]
              = Abstract!Prefix(Body(msg), max_len)
<1>1. /\ Len(Body(msg)) = msg.length
      /\ \A i \in 1..msg.length : Body(msg)[i] = msg.data[i]
  BY BodyFacts
<1>2. msg.length \in Nat /\ max_len \in Nat
  BY CallAssumption DEF Message
<1>3. CopyLen(msg, max_len) \in Nat /\ CopyLen(msg, max_len) <= msg.length
  BY <1>2, LesserBounds DEF CopyLen
<1>4. CopyLen(msg, max_len) = Abstract!Least(Len(Body(msg)), max_len)
  BY <1>1 DEF CopyLen, Lesser, Abstract!Least
<1>5. \A i \in 1..CopyLen(msg, max_len) : Body(msg)[i] = msg.data[i]
  BY <1>1, <1>2, <1>3
<1> QED
  BY <1>4, <1>5 DEF Abstract!Prefix

(* A call that touches neither the slots nor the indices leaves the        *)
(* abstract queue alone.                                                   *)
LEMMA QueuedStutters ==
  ASSUME UNCHANGED <<queue, head, tail>>
  PROVE  Queued' = Queued
  BY DEF Queued, Count, SlotOf, Body

(* rust_ipc_send and rust_ipc_receive implement, call by call, a bounded   *)
(* first-in first-out queue of capacity IPC_MAX_MSGS - 1, for every ring   *)
(* size, message size and set of callers.                                  *)
THEOREM RingRefinesFifo == Spec => ImplementsFifo
<1>1. Init => Abstract!AInit
  <2> SUFFICES ASSUME Init PROVE Queued = << >>
    BY DEF Init, Abstract!AInit
  <2>1. Count = 0
    BY DEF Init, Count
  <2> QED BY <2>1 DEF Queued
<1>2. TypeOK /\ UsedIsWindow /\ [Next]_vars => [Abstract!ANext]_Abstract!avars
  <2> SUFFICES ASSUME TypeOK, UsedIsWindow, [Next]_vars
               PROVE  [Abstract!ANext]_Abstract!avars
    OBVIOUS
  <2>1. /\ Queued \in Seq(AMessage)
        /\ Len(Queued) = Count
        /\ \A k \in 1..Count : Queued[k] = AMsg(queue[SlotOf(k)])
    BY QueuedFacts
  <2>2. /\ Count \in Nat /\ Count <= IPC_MAX_MSGS - 1
        /\ Count = 0 <=> head = tail
        /\ Full <=> Count = IPC_MAX_MSGS - 1
    BY CountFacts
  <2>3. ASSUME NEW from \in Senders, NEW to \in Receivers,
               NEW data \in Payloads, Send(from, to, data)
        PROVE  Abstract!ASend(from, to, data)
    <3> DEFINE len == Lesser(Len(data), IPC_MSG_SIZE)
               m == [sender |-> from, receiver |-> to,
                     data |-> Copy(queue[tail].data, data, len),
                     length |-> len, used |-> TRUE]
    <3>1. /\ m \in Message /\ m.length <= IPC_MSG_SIZE
          /\ AMsg(m) = [sender |-> from, receiver |-> to,
                        body |-> Abstract!Prefix(data, IPC_MSG_SIZE)]
      BY SentMessageType, SentBody DEF AMsg
    <3>2. to \in Int /\ MaxPid \in Nat
      BY CallAssumption
    <3>3. (Full \/ to < 1 \/ to > MaxPid)
            <=> ~(Len(Queued) < IPC_MAX_MSGS - 1 /\ to \in 1..MaxPid)
      BY <2>1, <2>2, <3>2, SizeAssumption
    <3>4. CASE Full \/ to < 1 \/ to > MaxPid
      BY <2>3, <3>3, <3>4, QueuedStutters
         DEF Send, Refuse, Abstract!ASend
    <3>5. CASE ~(Full \/ to < 1 \/ to > MaxPid)
      <4>1. /\ queue' = [queue EXCEPT ![tail] = m]
            /\ tail' = NextIndex(tail)
            /\ reply' = [ret |-> len, buf |-> << >>]
            /\ head' = head
        BY <2>3, <3>5 DEF Send
      <4>2. len = Abstract!Least(Len(data), IPC_MSG_SIZE)
        BY DEF Lesser, Abstract!Least
      <4> HIDE DEF m, len
      <4>3. Queued' = Append(Queued, AMsg(m))
        BY <3>1, <3>5, <4>1, SendAppends
      <4> QED BY <3>1, <3>3, <3>5, <4>1, <4>2, <4>3 DEF Abstract!ASend
    <3> QED BY <3>4, <3>5
  <2>4. ASSUME NEW from \in Filters, NEW max_len \in BufLens,
               Receive(from, max_len)
        PROVE  Abstract!AReceive(from, max_len)
    <3> DEFINE msg == queue[head]
    <3>1. msg \in Message /\ msg.length <= IPC_MSG_SIZE
      BY DEF TypeOK
    <3>2. head # tail => /\ msg.used
                         /\ Queued[1] = AMsg(msg)
                         /\ Queued[1].sender = msg.sender
                         /\ Queued[1].body = Body(msg)
      <4>1. SlotOf(1) = head
        BY SizeAssumption DEF TypeOK, Slots, SlotOf
      <4> QED BY <2>1, <2>2, <4>1, HeadIsUsed DEF AMsg
    <3>3. Len(Queued) > 0 <=> head # tail
      BY <2>1, <2>2
    <3>4. CASE head = tail \/ (from # 0 /\ msg.sender # from)
      <4>1. Refuse(0)
        BY <2>4, <3>2, <3>4 DEF Receive
      <4> QED BY <3>2, <3>3, <3>4, <4>1, QueuedStutters
              DEF Refuse, Abstract!AReceive
    <3>5. CASE head # tail /\ (from = 0 \/ msg.sender = from)
      <4>1. /\ Release
            /\ reply' = [ret |-> CopyLen(msg, max_len),
                         buf |-> [i \in 1..CopyLen(msg, max_len) |-> msg.data[i]]]
            /\ UNCHANGED tail
        BY <2>4, <3>2, <3>5 DEF Receive
      <4>2. Queued' = Tail(Queued)
        BY <3>5, <4>1, ReleaseIsTail
      <4>3. reply' = [ret |-> Abstract!Least(Len(Body(msg)), max_len),
                      buf |-> Abstract!Prefix(Body(msg), max_len)]
        BY <3>1, <4>1, ReceivedBytes
      <4> QED BY <3>2, <3>3, <3>5, <4>2, <4>3 DEF Abstract!AReceive
    <3> QED BY <3>4, <3>5
  <2>5. CASE UNCHANGED vars
    BY <2>5, QueuedStutters DEF vars, Abstract!avars
  <2> QED BY <2>3, <2>4, <2>5 DEF Next, Abstract!ANext
<1> QED BY <1>1, <1>2, TypeCorrect, UsedFlagsAgree, PTL
        DEF Spec, ImplementsFifo, Abstract!ASpec
=============================================================================
