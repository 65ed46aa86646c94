-------------------------- MODULE UsbNetworkProofs --------------------------
(***************************************************************************)
(* Theorems about UsbNetwork, for every delay of the two works and every   *)
(* number of messages the USB stack holds.                                 *)
(***************************************************************************)
EXTENDS UsbNetwork, SequenceTheorems, TLAPS

-----------------------------------------------------------------------------
(* The work queue: what submitting, cancelling and running an item do to   *)
(* what is queued and to its order.                                        *)

\* A queue holds each work at most once.
IsQueue(q) == q \in Seq(Works) /\ IsInjective(q)

\* Every x in the queue has a w before it.
Ahead(q, w, x) ==
  \A j \in 1..Len(q) : q[j] = x => \E i \in 1..(j-1) : q[i] = w

\* k_work_submit of one that is not there.
LEMMA AppendQueue ==
  ASSUME NEW q, IsQueue(q), NEW w \in Works, ~Contains(q, w)
  PROVE  /\ IsQueue(Append(q, w))
         /\ \A x : Contains(Append(q, w), x) <=> Contains(q, x) \/ x = w
         /\ \A v, x : Ahead(q, v, x) /\ x # w => Ahead(Append(q, w), v, x)
         /\ \A v : Contains(q, v) => Ahead(Append(q, w), v, w)
<1> DEFINE a == Append(q, w)
<1> USE DEF IsQueue
<1>1. /\ a \in Seq(Works) /\ Len(a) = Len(q) + 1 /\ Len(q) \in Nat
      /\ \A i \in 1..Len(q) : a[i] = q[i]
      /\ a[Len(q) + 1] = w
      /\ DOMAIN a = 1..Len(a) /\ DOMAIN q = 1..Len(q)
  BY AppendProperties, LenProperties
<1> HIDE DEF a
<1>2. \A i \in 1..Len(a) : i \in 1..Len(q) \/ i = Len(q) + 1
  BY <1>1
<1>3. IsInjective(a)
  BY <1>1, <1>2 DEF IsInjective, Contains
<1>4. \A x : Contains(a, x) <=> Contains(q, x) \/ x = w
  BY <1>1, <1>2 DEF Contains
<1>5. \A v, x : Ahead(q, v, x) /\ x # w => Ahead(a, v, x)
  BY <1>1, <1>2 DEF Ahead
<1>6. \A v : Contains(q, v) => Ahead(a, v, w)
  BY <1>1, <1>2 DEF Ahead, Contains
<1> QED BY <1>1, <1>3, <1>4, <1>5, <1>6 DEF a

\* k_work_submit: an item keeps its place when it is submitted again, and
\* a new one is behind all others.
LEMMA SubmitQueue ==
  ASSUME NEW q, IsQueue(q), NEW w \in Works
  PROVE  /\ IsQueue(Submit(q, w))
         /\ \A x : Contains(Submit(q, w), x) <=> Contains(q, x) \/ x = w
         /\ \A v, x : Ahead(q, v, x) /\ (x # w \/ Contains(q, x))
                        => Ahead(Submit(q, w), v, x)
         /\ \A v : Contains(q, v) /\ ~Contains(q, w)
                     => Ahead(Submit(q, w), v, w)
<1>1. CASE Contains(q, w)
  BY <1>1 DEF Submit
<1>2. CASE ~Contains(q, w)
  BY <1>2, AppendQueue DEF Submit
<1> QED BY <1>1, <1>2

\* The next item leaves the queue.
LEMMA TailQueue ==
  ASSUME NEW q, IsQueue(q), q # <<>>
  PROVE  /\ IsQueue(Tail(q))
         /\ \A x : Contains(Tail(q), x) <=> Contains(q, x) /\ x # Head(q)
         /\ Contains(q, Head(q))
         /\ \A v, x : Ahead(q, v, x) /\ v # Head(q) => Ahead(Tail(q), v, x)
         /\ \A v : ~Ahead(q, v, Head(q))
<1> DEFINE t == Tail(q)
<1> USE DEF IsQueue
<1>1. /\ t \in Seq(Works) /\ Len(t) = Len(q) - 1 /\ Len(q) \in Nat \ {0}
      /\ \A i \in 1..Len(t) : t[i] = q[i+1]
      /\ DOMAIN t = 1..Len(t) /\ DOMAIN q = 1..Len(q)
      /\ Head(q) = q[1]
  BY HeadTailProperties, LenProperties, EmptySeq
<1> HIDE DEF t
<1>2. \A i \in 1..Len(q) : i = 1 \/ (i-1 \in 1..Len(t) /\ t[i-1] = q[i])
  BY <1>1
<1>3. \A i \in 1..Len(t) : i+1 \in 1..Len(q) /\ i+1 # 1 /\ t[i] = q[i+1]
  BY <1>1
<1>4. 1 \in 1..Len(q)
  BY <1>1
<1>5. IsInjective(t)
  BY <1>1, <1>3 DEF IsInjective
<1>6. \A x : Contains(t, x) <=> Contains(q, x) /\ x # Head(q)
  BY <1>1, <1>2, <1>3, <1>4 DEF IsInjective, Contains
<1>7. Contains(q, Head(q))
  BY <1>1, <1>4 DEF Contains
<1>8. ASSUME NEW v, NEW x, Ahead(q, v, x), v # Head(q)
      PROVE  Ahead(t, v, x)
  <2> SUFFICES ASSUME NEW j \in 1..Len(t), t[j] = x
               PROVE  \E i \in 1..(j-1) : t[i] = v
    BY DEF Ahead
  <2>1. PICK i \in 1..((j+1)-1) : q[i] = v
    BY <1>3, <1>8 DEF Ahead
  <2>2. i # 1
    BY <2>1, <1>1, <1>8
  <2>3. i-1 \in 1..(j-1) /\ t[i-1] = v
    BY <2>1, <2>2, <1>1
  <2> QED BY <2>3
<1>9. \A v : ~Ahead(q, v, Head(q))
  BY <1>1, <1>4 DEF Ahead
<1> QED BY <1>1, <1>5, <1>6, <1>7, <1>8, <1>9 DEF t

\* k_work_cancel: the item is gone, the others keep their order.
LEMMA CancelQueue ==
  ASSUME NEW q, IsQueue(q), NEW w
  PROVE  /\ IsQueue(Cancel(q, w))
         /\ \A x : Contains(Cancel(q, w), x) <=> Contains(q, x) /\ x # w
         /\ \A v, x : Ahead(q, v, x) /\ v # w => Ahead(Cancel(q, w), v, x)
<1> USE DEF IsQueue
<1>1. CASE ~Contains(q, w)
  <2>1. Cancel(q, w) = q
    BY <1>1 DEF Cancel
  <2> QED BY <2>1, <1>1
<1>2. CASE Contains(q, w)
  <2>1. /\ Len(q) \in Nat /\ DOMAIN q = 1..Len(q)
        /\ \A i \in 1..Len(q) : q[i] \in Works
    BY LenProperties, ElementOfSeq
  <2>2. PICK k \in 1..Len(q) : q[k] = w
    BY <1>2 DEF Contains
  <2>3. k = CHOOSE i \in 1..Len(q) : q[i] = w
    BY <2>1, <2>2 DEF IsInjective
  <2> DEFINE left  == SubSeq(q, 1, k-1)
             right == SubSeq(q, k+1, Len(q))
             c     == left \o right
  <2>4. Cancel(q, w) = c
    BY <1>2, <2>3 DEF Cancel, RemoveAt
  <2>5. /\ left \in Seq(Works) /\ Len(left) = k-1
        /\ \A i \in 1..(k-1) : left[i] = q[i]
    <3>1. /\ k-1 \in Int
          /\ \A i \in 1..(k-1) : q[i] \in Works
      BY <2>1
    <3>2. /\ left \in Seq(Works)
          /\ Len(left) = IF 1 <= k-1 THEN (k-1) - 1 + 1 ELSE 0
          /\ \A i \in 1..((k-1) - 1 + 1) : left[i] = q[1 + i - 1]
      BY <3>1, SubSeqProperties
    <3> QED BY <3>2, <2>1
  <2>6. /\ right \in Seq(Works) /\ Len(right) = Len(q) - k
        /\ \A i \in 1..(Len(q) - k) : right[i] = q[k+i]
    <3>1. /\ k+1 \in Int /\ Len(q) \in Int
          /\ \A i \in (k+1)..Len(q) : q[i] \in Works
      BY <2>1
    <3>2. /\ right \in Seq(Works)
          /\ Len(right) = IF k+1 <= Len(q) THEN Len(q) - (k+1) + 1 ELSE 0
          /\ \A i \in 1..(Len(q) - (k+1) + 1) : right[i] = q[(k+1) + i - 1]
      BY <3>1, SubSeqProperties
    <3> HIDE DEF right
    <3>3. ASSUME NEW i \in 1..(Len(q) - k)
          PROVE  right[i] = q[k+i]
      <4>1. i \in 1..(Len(q) - (k+1) + 1) /\ (k+1) + i - 1 = k+i
        BY <2>1
      <4> QED BY <4>1, <3>2
    <3>4. Len(right) = Len(q) - k
      <4>1. k \in Int /\ Len(q) \in Int /\ k <= Len(q)
        BY <2>1
      <4>2. Len(right) = IF k+1 <= Len(q) THEN Len(q) - (k+1) + 1 ELSE 0
        BY <3>2
      <4> HIDE DEF right
      <4> QED BY <4>1, <4>2
    <3> QED BY <3>2, <3>3, <3>4
  <2>7. /\ c \in Seq(Works)
        /\ Len(c) = Len(left) + Len(right)
        /\ \A i \in 1..(Len(left) + Len(right)) :
             c[i] = IF i <= Len(left) THEN left[i] ELSE right[i - Len(left)]
    <3> HIDE DEF left, right
    <3> QED BY <2>5, <2>6, ConcatProperties
  <2> HIDE DEF left, right, c
  <2>8. /\ c \in Seq(Works) /\ Len(c) = Len(q) - 1
        /\ \A i \in 1..Len(c) : c[i] = IF i < k THEN q[i] ELSE q[i+1]
        /\ DOMAIN c = 1..Len(c)
    BY <2>1, <2>5, <2>6, <2>7, LenProperties
  <2>9. \A i \in 1..Len(q) :
          \/ i = k
          \/ i < k /\ i \in 1..Len(c) /\ c[i] = q[i]
          \/ i > k /\ i-1 \in 1..Len(c) /\ c[i-1] = q[i]
    BY <2>1, <2>8
  <2>10. \A i \in 1..Len(c) :
          \/ i < k /\ i \in 1..Len(q) /\ c[i] = q[i]
          \/ i >= k /\ i+1 \in 1..Len(q) /\ i+1 # k /\ c[i] = q[i+1]
    BY <2>1, <2>8
  <2>11. IsInjective(c)
    BY <2>1, <2>8, <2>10 DEF IsInjective
  <2>12. \A x : Contains(c, x) <=> Contains(q, x) /\ x # w
    BY <2>1, <2>2, <2>9, <2>10 DEF Contains, IsInjective
  <2>13. ASSUME NEW v, NEW x, Ahead(q, v, x), v # w
         PROVE  Ahead(c, v, x)
    <3> SUFFICES ASSUME NEW j \in 1..Len(c), c[j] = x
                 PROVE  \E i \in 1..(j-1) : c[i] = v
      BY DEF Ahead
    <3>1. CASE j < k
      <4>1. PICK i \in 1..(j-1) : q[i] = v
        BY <3>1, <2>10, <2>13 DEF Ahead
      <4>2. c[i] = v
        BY <4>1, <3>1, <2>8
      <4> QED BY <4>1, <4>2
    <3>2. CASE j >= k
      <4>1. PICK i \in 1..((j+1)-1) : q[i] = v
        BY <3>2, <2>10, <2>13 DEF Ahead
      <4>2. i # k
        BY <4>1, <2>2, <2>13
      <4>3. CASE i < k
        <5>1. i \in 1..(j-1) /\ c[i] = v
          BY <4>1, <4>3, <3>2, <2>1, <2>8
        <5> QED BY <5>1
      <4>4. CASE i > k
        <5>1. i-1 \in 1..(j-1) /\ c[i-1] = v
          BY <4>1, <4>4, <3>2, <2>1, <2>8
        <5> QED BY <5>1
      <4> QED BY <4>1, <4>2, <4>3, <4>4, <2>1
    <3> QED BY <3>1, <3>2, <2>1, <2>8
  <2> QED BY <2>4, <2>8, <2>11, <2>12, <2>13
<1> QED BY <1>1, <1>2
-----------------------------------------------------------------------------
(* The inductive invariant.                                                *)

\* The message work is queued only while there are messages.
MessageInv == Contains(queue, "message") => messages # <<>>

\* The two delayable works.  The interface differs from what the last
\* handled message wants only while the network work is on its way.  Both
\* works' timeouts run only in a start; the watchdog's ends after the other,
\* and the watchdog then stands behind the network work in the queue.
StartInv ==
  /\ (Contains(queue, "watchdog") \/ dog_timer > 0 \/ net_timer > 0)
       => network_should_run
  /\ network_is_up # network_should_run =>
       net_timer > 0 \/ Contains(queue, "network")
  /\ net_timer > 0 /\ dog_timer > 0 => net_timer < dog_timer
  /\ Contains(queue, "watchdog") =>
       network_is_up \/ Ahead(queue, "network", "watchdog")

\* An interface that is down has no address, and is not ready.
UpInv == (address \/ network_is_ready) => network_is_up

DownTypes == {"RESET", "SUSPEND", "VBUS_REMOVED", "STACK_ERROR"}
WakeTypes == {"RESUME", "VBUS_READY"}

\* What a host that left the link or suspended it has sent last takes the
\* interface down, or has been handled.
DownLast ==
  IF messages = <<>> THEN ~network_should_run
                     ELSE messages[Len(messages)] \in DownTypes

\* A message that wakes the link up follows one that took the interface down;
\* the work that does so stands before the message work.
WakeFollowsDown ==
  /\ \A i \in 2..Len(messages) :
       messages[i] \in WakeTypes => messages[i-1] \in DownTypes
  /\ messages # <<>> /\ messages[1] \in WakeTypes =>
       /\ ~network_should_run
       /\ network_is_up => Ahead(queue, "network", "message")

LinkInv ==
  /\ suspended => vbus
  /\ suspended \/ ~vbus => DownLast
  /\ WakeFollowsDown

IInv == /\ MessageInv /\ StartInv /\ UpInv /\ LinkInv
        /\ LedFollowsReady /\ RebootsOnlyStarted

-----------------------------------------------------------------------------
(* It holds at power-on.                                                   *)

\* Nothing is in an empty queue.
LEMMA EmptyQueue ==
  IsQueue(<<>>) /\ \A w : ~Contains(<<>>, w)
<1>1. Len(<<>>) = 0 /\ DOMAIN <<>> = {} /\ <<>> \in Seq(Works)
  OBVIOUS
<1> QED BY <1>1 DEF IsQueue, IsInjective, Contains

\* A board with nothing queued, everything off.
LEMMA OffInv ==
  ASSUME Init
  PROVE  TypeOK /\ IInv
<1> USE DEF Init
<1>1. IsQueue(queue) /\ \A w : ~Contains(queue, w)
  BY EmptyQueue
<1>2. TypeOK
  <2>1. messages \in Seq(MessageTypes) /\ Len(messages) <= MaxMessages
    BY UsbNetworkAssumption
  <2>2. net_timer \in 0..UpDelay /\ dog_timer \in 0..WatchdogDelay
    BY UsbNetworkAssumption
  <2> QED BY <2>1, <2>2, <1>1 DEF TypeOK, IsQueue
<1>3. MessageInv /\ UpInv
  BY <1>1 DEF MessageInv, UpInv
<1>4. StartInv
  <2>1. ~(net_timer > 0) /\ ~(dog_timer > 0)
    OBVIOUS
  <2>2. ~Contains(queue, "watchdog") /\ network_is_up = network_should_run
    BY <1>1
  <2> HIDE DEF Init
  <2> QED BY <2>1, <2>2 DEF StartInv
<1>5. LinkInv
  BY DEF LinkInv, DownLast, WakeFollowsDown
<1> QED BY <1>2, <1>3, <1>4, <1>5 DEF IInv, LedFollowsReady, RebootsOnlyStarted

\* The queue and the messages, as TypeOK has them.
LEMMA TypedQueue ==
  ASSUME TypeOK
  PROVE  IsQueue(queue) /\ messages \in Seq(MessageTypes)
BY DEF TypeOK, IsQueue

-----------------------------------------------------------------------------
(* The host and the network stack.                                         *)

\* A message arrives: the works keep their places and the message work is
\* last, unless it waits already.
LEMMA MessageArrives ==
  ASSUME TypeOK, IInv, NEW m \in MessageTypes, Message(m),
         m \in WakeTypes => DownLast
  PROVE  /\ messages' \in Seq(MessageTypes) /\ Len(messages') <= MaxMessages
         /\ queue' \in Seq(Works) /\ IsInjective(queue)'
         /\ messages' # <<>> /\ messages'[Len(messages')] = m
         /\ MessageInv' /\ StartInv' /\ WakeFollowsDown'
<1> DEFINE n == Len(messages)
<1>1. /\ messages' \in Seq(MessageTypes) /\ messages' # <<>>
      /\ n \in Nat /\ Len(messages') = n + 1 /\ n < MaxMessages
      /\ \A i \in 1..n : messages'[i] = messages[i]
      /\ messages'[n + 1] = m
      /\ messages = <<>> <=> n = 0
  BY TypedQueue, AppendProperties, LenProperties, EmptySeq DEF Message
<1>2. /\ IsQueue(queue')
      /\ \A x : Contains(queue', x) <=> Contains(queue, x) \/ x = "message"
      /\ \A v, x : Ahead(queue, v, x) /\ x # "message"
                     => Ahead(queue', v, x)
      /\ \A v : Ahead(queue, v, "message") /\ Contains(queue, "message")
                  => Ahead(queue', v, "message")
      /\ \A v : Contains(queue, v) /\ ~Contains(queue, "message")
                  => Ahead(queue', v, "message")
  BY TypedQueue, SubmitQueue DEF Message, Works
<1> HIDE DEF n
<1>3. MessageInv' /\ StartInv'
  BY <1>1, <1>2 DEF Message, IInv, MessageInv, StartInv, network, timers
<1>4. \A i \in 2..(n + 1) :
        messages'[i] \in WakeTypes => messages'[i-1] \in DownTypes
  <2> SUFFICES ASSUME NEW i \in 2..(n + 1), messages'[i] \in WakeTypes
               PROVE  messages'[i-1] \in DownTypes
    OBVIOUS
  <2>1. i-1 \in 1..n /\ messages'[i-1] = messages[i-1]
    BY <1>1
  <2>2. CASE i = n + 1
    BY <1>1, <2>1, <2>2 DEF DownLast, n
  <2>3. CASE i # n + 1
    BY <1>1, <2>1, <2>3 DEF IInv, LinkInv, WakeFollowsDown, n
  <2> QED BY <2>2, <2>3
<1>5. ASSUME messages'[1] \in WakeTypes
      PROVE  /\ ~network_should_run'
             /\ network_is_up' => Ahead(queue', "network", "message")
  <2>1. CASE messages = <<>>
    <3>1. DownLast /\ ~Contains(queue, "message")
      BY <1>1, <1>5, <2>1 DEF IInv, MessageInv
    <3>2. network_is_up => Contains(queue, "network")
      BY <3>1, <2>1 DEF DownLast, IInv, StartInv, TypeOK
    <3> QED BY <3>1, <2>1, <3>2, <1>2 DEF DownLast, Message, network
  <2>2. CASE messages # <<>>
    <3>1. /\ ~network_should_run
          /\ network_is_up => Ahead(queue, "network", "message")
      BY <1>1, <1>5, <2>2 DEF IInv, LinkInv, WakeFollowsDown
    <3>2. network_is_up => Contains(queue, "network")
      BY <3>1 DEF IInv, StartInv, TypeOK
    <3> QED BY <3>1, <3>2, <1>2 DEF Message, network
  <2> QED BY <2>1, <2>2
<1>6. WakeFollowsDown'
  BY <1>1, <1>4, <1>5 DEF WakeFollowsDown
<1>7. Len(messages') <= MaxMessages
  BY <1>1, UsbNetworkAssumption
<1> QED BY <1>1, <1>2, <1>3, <1>6, <1>7 DEF IsQueue

\* The host changes the link and sends the message of that change.
LEMMA LinkMessage ==
  ASSUME TypeOK, IInv, NEW m \in MessageTypes, Message(m),
         m \in WakeTypes => DownLast,
         vbus' \in BOOLEAN, configured' \in BOOLEAN, suspended' \in BOOLEAN,
         data_active' \in BOOLEAN, address' \in {address, FALSE},
         suspended' => vbus',
         suspended' \/ ~vbus' => m \in DownTypes
  PROVE  TypeOK' /\ IInv'
<1>1. /\ messages' \in Seq(MessageTypes) /\ Len(messages') <= MaxMessages
      /\ queue' \in Seq(Works) /\ IsInjective(queue)'
      /\ messages' # <<>> /\ messages'[Len(messages')] = m
      /\ MessageInv' /\ StartInv' /\ WakeFollowsDown'
  BY MessageArrives
<1>2. UNCHANGED <<net_timer, dog_timer, network_should_run, network_is_up,
                  network_is_ready, status_led_mode, http_server_is_started,
                  rebooting, addr_event>>
  BY DEF Message, timers, network
<1>3. TypeOK'
  BY <1>1, <1>2 DEF TypeOK
<1>4. UpInv' /\ LedFollowsReady' /\ RebootsOnlyStarted'
  <2>1. address' => address
    BY DEF TypeOK
  <2> QED BY <1>2, <2>1 DEF IInv, UpInv, LedFollowsReady, RebootsOnlyStarted
<1>5. LinkInv'
  BY <1>1 DEF LinkInv, DownLast
<1> QED BY <1>1, <1>3, <1>4, <1>5 DEF IInv

\* Whatever the host does.
LEMMA HostInv == ASSUME TypeOK, IInv, Host PROVE TypeOK' /\ IInv'
<1> USE DEF TypeOK, IInv, LinkInv, MessageTypes, WakeTypes, DownTypes, Inactive,
            usb
<1>1. CASE Plug
  BY <1>1, LinkMessage DEF Plug
<1>2. CASE Unplug
  BY <1>2, LinkMessage DEF Unplug
<1>3. CASE BusReset
  BY <1>3, LinkMessage DEF BusReset
<1>4. CASE Configure
  BY <1>4, LinkMessage DEF Configure
<1>5. CASE Suspend
  BY <1>5, LinkMessage DEF Suspend
<1>6. CASE Resume
  BY <1>6, LinkMessage DEF Resume
<1>7. CASE StackError
  BY <1>7, LinkMessage DEF StackError
<1>8. CASE SetInterface
  <2>1. /\ UNCHANGED <<vbus, configured, suspended, addr_event, messages, queue,
                       net_timer, dog_timer, network_should_run, network_is_up,
                       network_is_ready, status_led_mode,
                       http_server_is_started, rebooting>>
        /\ address' = FALSE /\ data_active' \in BOOLEAN
    BY <1>8 DEF SetInterface, timers, network
  <2>2. TypeOK'
    BY <2>1
  <2>3. UpInv' /\ LedFollowsReady' /\ RebootsOnlyStarted'
    BY <2>1 DEF UpInv, LedFollowsReady, RebootsOnlyStarted
  <2>4. MessageInv' /\ StartInv' /\ LinkInv'
    BY <2>1 DEF MessageInv, StartInv, DownLast, WakeFollowsDown
  <2> QED BY <2>2, <2>3, <2>4
<1> HIDE DEF TypeOK, IInv, LinkInv
<1> QED BY <1>1, <1>2, <1>3, <1>4, <1>5, <1>6, <1>7, <1>8 DEF Host

\* Only an interface that is up gets an address.
LEMMA AssignAddressInv ==
  ASSUME TypeOK, IInv, AssignAddress PROVE TypeOK' /\ IInv'
BY DEF AssignAddress, TypeOK, IInv, LinkInv, usb, timers, network, MessageInv,
       StartInv, UpInv, DownLast, WakeFollowsDown, LedFollowsReady,
       RebootsOnlyStarted

-----------------------------------------------------------------------------
(* Time.                                                                   *)

\* A work whose timeout ends is submitted; the watchdog's cannot end before
\* the network work's, and stands behind it.
LEMMA TickInv == ASSUME TypeOK, IInv, Tick PROVE TypeOK' /\ IInv'
<1> DEFINE q == IF net_timer = 1 THEN Submit(queue, "network") ELSE queue
<1>1. /\ UNCHANGED <<vbus, configured, suspended, data_active, address,
                     addr_event, messages, network_should_run, network_is_up,
                     network_is_ready, status_led_mode,
                     http_server_is_started, rebooting>>
      /\ net_timer' = Down(net_timer) /\ dog_timer' = Down(dog_timer)
      /\ queue' = IF dog_timer = 1 THEN Submit(q, "watchdog") ELSE q
  BY DEF Tick, usb, network
<1>2. /\ net_timer \in Nat /\ net_timer <= UpDelay
      /\ dog_timer \in Nat /\ dog_timer <= WatchdogDelay
      /\ net_timer' \in Nat /\ net_timer' <= net_timer
      /\ dog_timer' \in Nat /\ dog_timer' <= dog_timer
      /\ net_timer > 0 /\ net_timer' = 0 <=> net_timer = 1
      /\ dog_timer > 0 /\ dog_timer' = 0 <=> dog_timer = 1
      /\ net_timer' > 0 => net_timer' = net_timer - 1
      /\ dog_timer' > 0 => dog_timer' = dog_timer - 1
  BY <1>1, UsbNetworkAssumption DEF TypeOK, Down
<1>3. /\ IsQueue(q)
      /\ \A x : Contains(q, x) <=>
                  Contains(queue, x) \/ (x = "network" /\ net_timer = 1)
      /\ \A v, x : Ahead(queue, v, x) /\ x # "network" => Ahead(q, v, x)
  BY TypedQueue, SubmitQueue DEF Works
<1> HIDE DEF q
<1>4. /\ IsQueue(queue')
      /\ \A x : Contains(queue', x) <=>
                  Contains(q, x) \/ (x = "watchdog" /\ dog_timer = 1)
      /\ \A v, x : Ahead(q, v, x) /\ x # "watchdog" => Ahead(queue', v, x)
      /\ \A v : Ahead(q, v, "watchdog") /\ Contains(q, "watchdog")
                  => Ahead(queue', v, "watchdog")
      /\ \A v : Contains(q, v) /\ ~Contains(q, "watchdog") /\ dog_timer = 1
                  => Ahead(queue', v, "watchdog")
  BY <1>1, <1>3, SubmitQueue DEF Works
<1>5. TypeOK'
  BY <1>1, <1>2, <1>4, UsbNetworkAssumption DEF TypeOK, IsQueue
<1>6. MessageInv' /\ UpInv' /\ LedFollowsReady' /\ RebootsOnlyStarted'
  BY <1>1, <1>3, <1>4
     DEF IInv, MessageInv, UpInv, LedFollowsReady, RebootsOnlyStarted
<1>7. LinkInv'
  BY <1>1, <1>3, <1>4 DEF IInv, LinkInv, DownLast, WakeFollowsDown
<1>8. StartInv'
  <2> USE DEF IInv, StartInv
  <2>1. (Contains(queue', "watchdog") \/ dog_timer' > 0 \/ net_timer' > 0)
          => network_should_run'
    BY <1>1, <1>2, <1>3, <1>4
  <2>2. network_is_up' # network_should_run' =>
          net_timer' > 0 \/ Contains(queue', "network")
    BY <1>1, <1>2, <1>3, <1>4
  <2>3. net_timer' > 0 /\ dog_timer' > 0 => net_timer' < dog_timer'
    BY <1>2
  <2>4. ASSUME Contains(queue', "watchdog"), ~network_is_up'
        PROVE  Ahead(queue', "network", "watchdog")
    <3>1. CASE Contains(queue, "watchdog")
      BY <3>1, <2>4, <1>1, <1>3, <1>4
    <3>2. CASE ~Contains(queue, "watchdog")
      <4>1. dog_timer = 1 /\ ~Contains(q, "watchdog")
        BY <3>2, <2>4, <1>3, <1>4
      <4>2. net_timer = 0
        BY <4>1, <1>2
      <4>3. network_should_run /\ ~network_is_up
        BY <4>1, <2>4, <1>1
      <4>4. network_is_up # network_should_run
        BY <4>3
      <4>5. Contains(q, "network")
        BY <4>2, <4>4, <1>3
      <4> QED BY <4>1, <4>5, <1>4
    <3> QED BY <3>1, <3>2
  <2> QED BY <2>1, <2>2, <2>3, <2>4
<1> QED BY <1>5, <1>6, <1>7, <1>8 DEF IInv

-----------------------------------------------------------------------------
(* The work items.                                                         *)

\* The item that runs has left the queue, the others have kept their order.
LEMMA RunQueue ==
  ASSUME TypeOK, NEW w, Running(w)
  PROVE  /\ IsQueue(Rest)
         /\ \A x : Contains(Rest, x) <=> Contains(queue, x) /\ x # w
         /\ \A v, x : Ahead(queue, v, x) /\ v # w => Ahead(Rest, v, x)
         /\ Contains(queue, w) /\ \A v : ~Ahead(queue, v, w)
BY TypedQueue, TailQueue DEF Running, Rest

\* The message work is last in the queue if it submits itself again.
LEMMA AgainQueue ==
  ASSUME NEW q, IsQueue(q), ~Contains(q, "message")
  PROVE  /\ IsQueue(Again(q))
         /\ \A x : Contains(Again(q), x) <=>
                     Contains(q, x) \/ (x = "message" /\ Len(messages) > 1)
         /\ \A v, x : Ahead(q, v, x) /\ x # "message" => Ahead(Again(q), v, x)
         /\ \A v : Contains(q, v) /\ Len(messages) > 1
                     => Ahead(Again(q), v, "message")
<1>1. CASE Len(messages) > 1
  BY <1>1, SubmitQueue DEF Again, Works
<1>2. CASE ~(Len(messages) > 1)
  BY <1>2 DEF Again
<1> QED BY <1>1, <1>2

\* The queue with both works cancelled and the network work submitted.
LEMMA DownQueueWorks ==
  ASSUME TypeOK, Running("message")
  PROVE  /\ IsQueue(DownQueue)
         /\ \A x : Contains(DownQueue, x) <=>
                     \/ Contains(queue, x) /\ x \notin {"message", "watchdog"}
                     \/ x = "network"
<1> DEFINE q1 == Cancel(Rest, "network")
           q2 == Cancel(q1, "watchdog")
<1>1. /\ IsQueue(Rest)
      /\ \A x : Contains(Rest, x) <=> Contains(queue, x) /\ x # "message"
  BY RunQueue
<1>2. /\ IsQueue(q1)
      /\ \A x : Contains(q1, x) <=> Contains(Rest, x) /\ x # "network"
  BY <1>1, CancelQueue
<1> HIDE DEF q1
<1>3. /\ IsQueue(q2)
      /\ \A x : Contains(q2, x) <=> Contains(q1, x) /\ x # "watchdog"
  BY <1>2, CancelQueue
<1>4. DownQueue = Append(q2, "network")
  BY DEF DownQueue, q1
<1> HIDE DEF q2
<1> QED BY <1>1, <1>2, <1>3, <1>4, AppendQueue DEF Works

\* The message that is handled is the first; a message that wakes the link up
\* comes next only after one that takes it down.
LEMMA FirstMessage ==
  ASSUME TypeOK, IInv, NEW types, Handling(types)
  PROVE  /\ messages # <<>> /\ Len(messages) \in Nat /\ Head(messages) \in types
         /\ Head(messages) = messages[1]
         /\ messages' \in Seq(MessageTypes) /\ Len(messages') <= MaxMessages
         /\ messages' # <<>> <=> Len(messages) > 1
         /\ DownLast' <=> IF messages' = <<>> THEN ~network_should_run' ELSE DownLast
         /\ messages' = <<>> /\ DownLast => Head(messages) \in DownTypes
         /\ \A i \in 2..Len(messages') :
              messages'[i] \in WakeTypes => messages'[i-1] \in DownTypes
         /\ messages' # <<>> /\ messages'[1] \in WakeTypes
              => Head(messages) \in DownTypes
<1> DEFINE n == Len(messages)
<1>1. messages # <<>>
  BY RunQueue DEF Handling, IInv, MessageInv
<1>2. /\ n \in Nat \ {0} /\ messages \in Seq(MessageTypes)
      /\ Head(messages) \in types /\ Head(messages) = messages[1]
      /\ messages' \in Seq(MessageTypes) /\ Len(messages') = n-1
      /\ \A i \in 1..(n-1) : messages'[i] = messages[i+1]
      /\ messages' = <<>> <=> n-1 = 0
      /\ n <= MaxMessages
  <2>1. /\ Head(messages) \in types /\ messages' = Tail(messages)
        /\ n <= MaxMessages /\ messages \in Seq(MessageTypes)
    BY DEF Handling, TypeOK
  <2>2. n \in Nat /\ n # 0 /\ Head(messages) = messages[1]
    BY <1>1, <2>1, LenProperties, EmptySeq
  <2>3. /\ messages' \in Seq(MessageTypes) /\ Len(messages') = n-1
        /\ \A i \in 1..(n-1) : messages'[i] = messages[i+1]
    BY <1>1, <2>1, HeadTailProperties
  <2>4. messages' = <<>> <=> n-1 = 0
    BY <2>3, EmptySeq
  <2> QED BY <2>1, <2>2, <2>3, <2>4
<1> HIDE DEF n
<1>3. \A i \in 2..n : messages[i] \in WakeTypes => messages[i-1] \in DownTypes
  BY DEF IInv, LinkInv, WakeFollowsDown, n
<1>4. messages' # <<>> => messages'[n-1] = messages[n]
  BY <1>2
<1>5. DownLast <=> messages[n] \in DownTypes
  BY <1>1 DEF DownLast, n
<1>6. DownLast' <=> IF messages' = <<>> THEN ~network_should_run' ELSE DownLast
  BY <1>2, <1>4, <1>5 DEF DownLast
<1>7. messages' = <<>> /\ DownLast => Head(messages) \in DownTypes
  BY <1>2, <1>5
<1>8. ASSUME NEW i \in 2..(n-1), messages'[i] \in WakeTypes
      PROVE  messages'[i-1] \in DownTypes
  <2>1. /\ messages'[i] = messages[i+1] /\ i+1 \in 2..n
        /\ messages'[i-1] = messages[(i+1)-1]
    BY <1>2
  <2> QED BY <2>1, <1>3, <1>8
<1>9. ASSUME messages' # <<>>, messages'[1] \in WakeTypes
      PROVE  Head(messages) \in DownTypes
  <2>1. messages'[1] = messages[2] /\ 2 \in 2..n /\ 2-1 = 1
    BY <1>2, <1>9
  <2> QED BY <2>1, <1>2, <1>3, <1>9
<1>10. n > 1 <=> messages' # <<>>
  BY <1>2
<1>11. Len(messages') <= MaxMessages
  BY <1>2, UsbNetworkAssumption
<1> QED BY <1>1, <1>2, <1>6, <1>7, <1>8, <1>9, <1>10, <1>11 DEF n

\* A message that brings the network up.  One that wakes the link up finds
\* the interface down already: the LED it resets was not a ready one's.
LEMMA StateUpInv ==
  ASSUME TypeOK, IInv, NEW types, Handling(types), StateUp,
         types \subseteq WakeTypes \cup {"CONFIGURATION"},
         \/ UNCHANGED status_led_mode
         \/ types \subseteq WakeTypes /\ status_led_mode' = "blink"
  PROVE  TypeOK' /\ IInv'
<1>1. /\ UNCHANGED <<vbus, configured, suspended, data_active, address,
                     addr_event, network_is_up, network_is_ready,
                     http_server_is_started, rebooting>>
      /\ network_should_run' = TRUE
      /\ net_timer' = IF net_timer = 0 /\ ~Contains(Rest, "network")
                        THEN UpDelay ELSE net_timer
      /\ dog_timer' = WatchdogDelay
      /\ queue' = Again(Rest)
      /\ Running("message")
  BY DEF Handling, StateUp, StartWatchdog, usb
<1>2. /\ messages # <<>> /\ Head(messages) \in types
      /\ Head(messages) = messages[1] /\ Head(messages) \notin DownTypes
      /\ messages' \in Seq(MessageTypes) /\ Len(messages') <= MaxMessages
      /\ messages' # <<>> <=> Len(messages) > 1
      /\ DownLast => DownLast'
      /\ WakeFollowsDown'
  BY FirstMessage DEF DownTypes, WakeTypes, WakeFollowsDown
<1>3. /\ IsQueue(queue')
      /\ \A x : Contains(queue', x) <=>
                  \/ Contains(queue, x) /\ x # "message"
                  \/ x = "message" /\ Len(messages) > 1
      /\ \A v, x : Ahead(queue, v, x) /\ v # "message" /\ x # "message"
                     => Ahead(queue', v, x)
      /\ \A v : ~Ahead(queue, v, "message")
      /\ Contains(Rest, "network") <=> Contains(queue, "network")
  BY <1>1, RunQueue, AgainQueue
<1>4. net_timer \in Nat /\ net_timer <= UpDelay /\ dog_timer \in Nat
  BY DEF TypeOK
<1>5. /\ net_timer' \in 0..UpDelay /\ dog_timer' \in 0..WatchdogDelay
      /\ net_timer' < dog_timer'
      /\ net_timer' > 0 \/ Contains(queue', "network")
  BY <1>1, <1>3, <1>4, UsbNetworkAssumption
<1>6. TypeOK'
  BY <1>1, <1>2, <1>3, <1>5 DEF TypeOK, IsQueue
<1>7. MessageInv'
  BY <1>2, <1>3 DEF MessageInv
<1>8. StartInv'
  <2>1. Contains(queue', "watchdog") =>
          network_is_up' \/ Ahead(queue', "network", "watchdog")
    BY <1>1, <1>3 DEF IInv, StartInv
  <2> QED BY <1>1, <1>5, <2>1 DEF StartInv
<1>9. UpInv' /\ RebootsOnlyStarted'
  BY <1>1 DEF IInv, UpInv, RebootsOnlyStarted
<1>10. LinkInv'
  BY <1>1, <1>2 DEF IInv, LinkInv
<1>11. LedFollowsReady'
  <2>1. CASE UNCHANGED status_led_mode
    BY <2>1, <1>1 DEF IInv, LedFollowsReady
  <2>2. CASE types \subseteq WakeTypes /\ status_led_mode' = "blink"
    <3>1. ~network_is_up
      BY <2>2, <1>2, <1>3 DEF IInv, LinkInv, WakeFollowsDown
    <3> QED BY <3>1, <2>2, <1>1 DEF IInv, UpInv, LedFollowsReady
  <2> QED BY <2>1, <2>2
<1> QED BY <1>6, <1>7, <1>8, <1>9, <1>10, <1>11 DEF IInv

\* A message that takes the network down: both works are cancelled, and the
\* network work is queued before the message work.
LEMMA StateDownInv ==
  ASSUME TypeOK, IInv, usbd_msg_down
  PROVE  TypeOK' /\ IInv'
<1>1. /\ UNCHANGED <<vbus, configured, suspended, data_active, address,
                     addr_event, network_is_up, http_server_is_started,
                     rebooting>>
      /\ network_should_run' = FALSE /\ network_is_ready' = FALSE
      /\ net_timer' = 0 /\ dog_timer' = 0
      /\ queue' = Again(DownQueue)
      /\ status_led_mode' = "blink"
      /\ Handling(DownTypes) /\ Running("message")
  BY DEF usbd_msg_down, Handling, StateDown, StopWatchdog, DownTypes, usb
<1>2. /\ messages # <<>> /\ Head(messages) = messages[1]
      /\ messages' \in Seq(MessageTypes) /\ Len(messages') <= MaxMessages
      /\ messages' # <<>> <=> Len(messages) > 1
      /\ DownLast => DownLast'
      /\ \A i \in 2..Len(messages') :
           messages'[i] \in WakeTypes => messages'[i-1] \in DownTypes
  BY <1>1, FirstMessage
<1>3. /\ IsQueue(DownQueue)
      /\ \A x : Contains(DownQueue, x) <=>
                  \/ Contains(queue, x) /\ x \notin {"message", "watchdog"}
                  \/ x = "network"
  BY <1>1, DownQueueWorks
<1>4. /\ IsQueue(queue')
      /\ \A x : Contains(queue', x) <=>
                  \/ Contains(DownQueue, x)
                  \/ x = "message" /\ Len(messages) > 1
      /\ Len(messages) > 1 => Ahead(queue', "network", "message")
  BY <1>1, <1>3, AgainQueue
<1>5. TypeOK'
  <2>1. net_timer' \in 0..UpDelay /\ dog_timer' \in 0..WatchdogDelay
    BY <1>1, UsbNetworkAssumption
  <2> QED BY <1>1, <1>2, <1>4, <2>1 DEF TypeOK, IsQueue
<1>6. MessageInv'
  BY <1>2, <1>3, <1>4 DEF MessageInv
<1>7. StartInv'
  BY <1>1, <1>3, <1>4 DEF StartInv
<1>8. UpInv' /\ LedFollowsReady' /\ RebootsOnlyStarted'
  BY <1>1 DEF IInv, UpInv, LedFollowsReady, RebootsOnlyStarted
<1>9. LinkInv'
  BY <1>1, <1>2, <1>4 DEF IInv, LinkInv, WakeFollowsDown
<1> QED BY <1>5, <1>6, <1>7, <1>8, <1>9 DEF IInv

\* The message work.
LEMMA MessageWorkInv ==
  ASSUME TypeOK, IInv, usbd_msg_cb PROVE TypeOK' /\ IInv'
<1>1. CASE usbd_msg_configuration
  BY <1>1, StateUpInv DEF usbd_msg_configuration
<1>2. CASE usbd_msg_resume
  BY <1>2, StateUpInv DEF usbd_msg_resume, WakeTypes
<1> QED BY <1>1, <1>2, StateDownInv DEF usbd_msg_cb

\* The network work: the interface is where the last handled message wants it.
LEMMA NetworkWorkInv ==
  ASSUME TypeOK, IInv, usb_ncm_network_work_handler
  PROVE  TypeOK' /\ IInv'
<1>1. /\ UNCHANGED <<vbus, configured, suspended, data_active, addr_event,
                     messages, net_timer, dog_timer, network_should_run,
                     http_server_is_started, rebooting>>
      /\ queue' = Rest /\ Running("network") /\ ~rebooting
  BY DEF usb_ncm_network_work_handler, usb, timers, Running
<1>2. /\ IsQueue(queue')
      /\ \A x : Contains(queue', x) <=> Contains(queue, x) /\ x # "network"
      /\ \A v, x : Ahead(queue, v, x) /\ v # "network" => Ahead(queue', v, x)
      /\ Contains(queue, "network")
  BY <1>1, RunQueue
<1>3. network_is_up' = network_should_run
  <2>1. network_is_up' <=> network_should_run
    BY DEF usb_ncm_network_work_handler
  <2>2. network_is_up' \in BOOLEAN /\ network_should_run \in BOOLEAN
    BY DEF usb_ncm_network_work_handler, TypeOK
  <2> QED BY <2>1, <2>2
<1>4. TypeOK'
  BY <1>1, <1>2, <1>3 DEF TypeOK, IsQueue, usb_ncm_network_work_handler
<1>5. MessageInv'
  BY <1>1, <1>2 DEF IInv, MessageInv
<1>6. StartInv'
  <2>1. Contains(queue', "watchdog") => network_is_up'
    BY <1>2, <1>3 DEF IInv, StartInv
  <2> QED BY <1>1, <1>2, <1>3, <2>1 DEF IInv, StartInv
<1>7. UpInv' /\ LedFollowsReady' /\ RebootsOnlyStarted'
  BY <1>1 DEF IInv, UpInv, LedFollowsReady, RebootsOnlyStarted,
              usb_ncm_network_work_handler
<1>8. LinkInv'
  BY <1>1, <1>3 DEF IInv, LinkInv, DownLast, WakeFollowsDown
<1> QED BY <1>4, <1>5, <1>6, <1>7, <1>8 DEF IInv

\* The watchdog runs only after the interface has been brought up.
LEMMA WatchdogInv ==
  ASSUME TypeOK, IInv, usb_ncm_startup_watchdog_work_handler
  PROVE  TypeOK' /\ IInv'
<1>1. /\ UNCHANGED <<vbus, configured, suspended, data_active, address,
                     addr_event, messages, net_timer, dog_timer,
                     network_should_run, network_is_up, network_is_ready,
                     http_server_is_started>>
      /\ queue' = Rest /\ Running("watchdog") /\ ~rebooting
  BY DEF usb_ncm_startup_watchdog_work_handler, usb, timers, network, Running
<1>2. /\ IsQueue(queue')
      /\ \A x : Contains(queue', x) <=> Contains(queue, x) /\ x # "watchdog"
      /\ \A v, x : Ahead(queue, v, x) /\ v # "watchdog" => Ahead(queue', v, x)
      /\ Contains(queue, "watchdog") /\ ~Ahead(queue, "network", "watchdog")
  BY <1>1, RunQueue
<1>3. network_is_up
  BY <1>2 DEF IInv, StartInv
<1>4. \/ rebooting' = rebooting /\ status_led_mode' = status_led_mode
      \/ /\ rebooting' = TRUE /\ status_led_mode' = "error"
         /\ ~network_is_ready
  BY DEF usb_ncm_startup_watchdog_work_handler
<1>5. TypeOK'
  BY <1>1, <1>2, <1>4 DEF TypeOK, IsQueue
<1>6. MessageInv' /\ StartInv'
  BY <1>1, <1>2 DEF IInv, MessageInv, StartInv
<1>7. UpInv' /\ RebootsOnlyStarted'
  BY <1>1, <1>3 DEF IInv, UpInv, RebootsOnlyStarted
<1>8. LedFollowsReady'
  BY <1>1, <1>4 DEF IInv, LedFollowsReady
<1>9. LinkInv'
  BY <1>1, <1>2 DEF IInv, LinkInv, DownLast, WakeFollowsDown
<1> QED BY <1>5, <1>6, <1>7, <1>8, <1>9 DEF IInv

\* The work that starts the server touches nothing of the network.
LEMMA StartWorkInv ==
  ASSUME TypeOK, IInv, http_server_start_work_handler
  PROVE  TypeOK' /\ IInv'
<1>1. /\ UNCHANGED <<vbus, configured, suspended, data_active, address,
                     addr_event, messages, net_timer, dog_timer,
                     network_should_run, network_is_up, network_is_ready,
                     status_led_mode, rebooting>>
      /\ http_server_is_started' = TRUE
      /\ queue' = Rest /\ Running("http")
  BY DEF http_server_start_work_handler, usb, timers, network
<1>2. /\ IsQueue(queue')
      /\ \A x : Contains(queue', x) <=> Contains(queue, x) /\ x # "http"
      /\ \A v, x : Ahead(queue, v, x) /\ v # "http" => Ahead(queue', v, x)
  BY <1>1, RunQueue
<1>3. TypeOK'
  BY <1>1, <1>2 DEF TypeOK, IsQueue
<1>4. MessageInv' /\ StartInv'
  BY <1>1, <1>2 DEF IInv, MessageInv, StartInv
<1>5. UpInv' /\ LedFollowsReady' /\ RebootsOnlyStarted'
  BY <1>1 DEF IInv, UpInv, LedFollowsReady, RebootsOnlyStarted
<1>6. LinkInv'
  BY <1>1, <1>2 DEF IInv, LinkInv, DownLast, WakeFollowsDown
<1> QED BY <1>3, <1>4, <1>5, <1>6 DEF IInv

\* An address event: the address that is looked up is one of an interface
\* that is up.
LEMMA AddressEventInv ==
  ASSUME TypeOK, IInv, ipv4_addr_handler
  PROVE  TypeOK' /\ IInv'
<1>1. /\ UNCHANGED <<vbus, configured, suspended, data_active, address,
                     messages, net_timer, network_should_run, network_is_up,
                     http_server_is_started, rebooting>>
      /\ addr_event' = FALSE
  BY DEF ipv4_addr_handler, usb
<1>2. CASE ~address
  <2>1. UNCHANGED <<network_is_ready, dog_timer, status_led_mode, queue>>
    BY <1>2 DEF ipv4_addr_handler, HasLinkLocal
  <2>2. TypeOK'
    BY <1>1, <2>1 DEF TypeOK
  <2>3. MessageInv' /\ StartInv'
    BY <1>1, <2>1 DEF IInv, MessageInv, StartInv
  <2>4. UpInv' /\ LedFollowsReady' /\ RebootsOnlyStarted'
    BY <1>1, <2>1 DEF IInv, UpInv, LedFollowsReady, RebootsOnlyStarted
  <2>5. LinkInv'
    BY <1>1, <2>1 DEF IInv, LinkInv, DownLast, WakeFollowsDown
  <2> QED BY <2>2, <2>3, <2>4, <2>5 DEF IInv
<1>3. CASE address
  <2>1. /\ network_is_ready' = TRUE /\ dog_timer' = 0
        /\ status_led_mode' = "solid"
        /\ queue' = Submit(Cancel(queue, "watchdog"), "http")
    BY <1>3 DEF ipv4_addr_handler, HasLinkLocal
  <2> DEFINE q == Cancel(queue, "watchdog")
  <2>2. /\ IsQueue(q)
        /\ \A x : Contains(q, x) <=> Contains(queue, x) /\ x # "watchdog"
        /\ \A v, x : Ahead(queue, v, x) /\ v # "watchdog" => Ahead(q, v, x)
    BY TypedQueue, CancelQueue
  <2>3. queue' = Submit(q, "http")
    BY <2>1
  <2> HIDE DEF q
  <2>4. /\ IsQueue(queue')
        /\ \A x : Contains(queue', x) <=>
                    \/ Contains(queue, x) /\ x # "watchdog"
                    \/ x = "http"
        /\ \A v, x : Ahead(queue, v, x) /\ v # "watchdog" /\ x # "http"
                       => Ahead(queue', v, x)
    BY <2>2, <2>3, SubmitQueue DEF Works
  <2>5. TypeOK'
    <3>1. dog_timer' \in 0..WatchdogDelay
      BY <2>1, UsbNetworkAssumption
    <3> QED BY <1>1, <2>1, <2>4, <3>1 DEF TypeOK, IsQueue
  <2>6. MessageInv'
    BY <1>1, <2>4 DEF IInv, MessageInv
  <2>7. StartInv'
    BY <1>1, <2>1, <2>4 DEF IInv, StartInv
  <2>8. UpInv' /\ LedFollowsReady' /\ RebootsOnlyStarted'
    BY <1>1, <1>3, <2>1 DEF IInv, UpInv, LedFollowsReady, RebootsOnlyStarted
  <2>9. LinkInv'
    BY <1>1, <2>4 DEF IInv, LinkInv, DownLast, WakeFollowsDown
  <2> QED BY <2>5, <2>6, <2>7, <2>8, <2>9 DEF IInv
<1> QED BY <1>2, <1>3

\* A reboot ends in the initial state.
LEMMA RebootInv == ASSUME sys_reboot PROVE TypeOK' /\ IInv'
<1>1. Init'
  BY DEF sys_reboot, Inactive, Init
<1> QED BY <1>1, OffInv, PTL

-----------------------------------------------------------------------------
(* The theorems.                                                           *)

\* The invariant is inductive.
LEMMA Inductive == ASSUME TypeOK, IInv, [Next]_vars PROVE TypeOK' /\ IInv'
<1>1. CASE UNCHANGED vars
  <2>1. UNCHANGED <<vbus, configured, suspended, data_active, address,
                    addr_event, messages, queue, net_timer, dog_timer,
                    network_should_run, network_is_up, network_is_ready,
                    status_led_mode, http_server_is_started, rebooting>>
    BY <1>1 DEF vars, usb, timers, network
  <2>2. TypeOK'
    BY <2>1 DEF TypeOK
  <2>3. MessageInv' /\ StartInv'
    BY <2>1 DEF IInv, MessageInv, StartInv
  <2>4. UpInv' /\ LedFollowsReady' /\ RebootsOnlyStarted'
    BY <2>1 DEF IInv, UpInv, LedFollowsReady, RebootsOnlyStarted
  <2>5. LinkInv'
    BY <2>1 DEF IInv, LinkInv, DownLast, WakeFollowsDown
  <2> QED BY <2>2, <2>3, <2>4, <2>5 DEF IInv
<1>2. CASE WorkQueue
  BY <1>2, MessageWorkInv, NetworkWorkInv, WatchdogInv, StartWorkInv
     DEF WorkQueue
<1> QED BY <1>1, <1>2, HostInv, AssignAddressInv, TickInv, AddressEventInv,
           RebootInv DEF Next

\* TypeOK and the inductive invariant hold of every reachable state.
THEOREM Invariant == Spec => [](TypeOK /\ IInv)
<1>1. Init => TypeOK /\ IInv
  BY OffInv
<1>2. TypeOK /\ IInv /\ [Next]_vars => TypeOK' /\ IInv'
  BY Inductive
<1> QED BY <1>1, <1>2, PTL DEF Spec

\* Every variable keeps its type, and k_work_submit, k_work_cancel and
\* k_work_reschedule leave each work queued at most once.
THEOREM TypeCorrect == Spec => []TypeOK
BY Invariant, PTL

\* LedFollowsReady: the LED is solid exactly while the network is ready, and
\* only an interface that is up is ready; no wake-up message and no late
\* address event separates them.
THEOREM LedFollowsReadyHolds == Spec => []LedFollowsReady
<1>1. IInv => LedFollowsReady
  BY DEF IInv
<1> QED BY <1>1, Invariant, PTL

\* FollowsLastMessage: with nothing left to run the interface is where the
\* last message wanted it.
THEOREM FollowsLastMessageHolds == Spec => []FollowsLastMessage
<1>1. TypeOK /\ IInv => FollowsLastMessage
  BY EmptyQueue DEF IInv, StartInv, FollowsLastMessage, TypeOK
<1> QED BY <1>1, Invariant, PTL

\* RebootsOnlyStarted: the startup watchdog reboots no board whose interface
\* was not brought up since the message that wanted it.
THEOREM RebootsOnlyStartedHolds == Spec => []RebootsOnlyStarted
<1>1. IInv => RebootsOnlyStarted
  BY DEF IInv
<1> QED BY <1>1, Invariant, PTL
=============================================================================
