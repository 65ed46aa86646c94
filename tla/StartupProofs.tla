---------------------------- MODULE StartupProofs ----------------------------
(***************************************************************************)
(* Theorems about Startup: what UsbNetworkProofs shows of the interface    *)
(* holds of the whole board, and the listening socket is what the mDNS     *)
(* thread takes it for.                                                    *)
(***************************************************************************)
EXTENDS Startup, UsbNetworkProofs

-----------------------------------------------------------------------------
(* The inductive invariant.                                                *)

\* Before USB is enabled, and after main has failed, nothing happens.
Off ==
  /\ ~vbus /\ ~suspended /\ ~address /\ ~addr_event
  /\ messages = <<>> /\ queue = <<>>
  /\ net_timer = 0 /\ dog_timer = 0
  /\ ~network_should_run /\ ~network_is_up /\ ~network_is_ready
  /\ ~rebooting

\* main sets the LED before any delay has passed: messages may have been
\* handled, but a network work that is queued is one that takes the network
\* down, and it runs before the next message is handled.
Quiet ==
  /\ ~network_is_up
  /\ Contains(queue, "network") =>
       ~network_should_run /\ Ahead(queue, "network", "message")

MainInv ==
  /\ mainPc \in {"device", "register", "enable", "failed"} => Off
  /\ mainPc = "set_led" => Quiet

\* The threads of the server run from the first start on; server_fd is the
\* socket http_thread has open; the mDNS thread is past its wait only when the
\* socket was there.
ServerInv ==
  /\ started <=> httpPc # "new"
  /\ ~started => mdnsPc = "new"
  /\ server_fd \in {NoFd, Fd}
  /\ server_fd # NoFd <=> httpPc \in {"bind", "listen", "accept"}
  /\ mdnsPc \notin {"new", "wait"} => httpPc \notin {"new", "socket"}
  /\ announced => mdnsPc \notin {"new", "wait"}

BoardInv == TypeOK /\ IInv /\ MainInv /\ ServerInv

-----------------------------------------------------------------------------
(* The interface.  A step of the board is one of UsbNetwork or of main.    *)

\* The actions of the board that are UsbNetwork's.
NetworkNext == \/ Enabled /\ (Host \/ AssignAddress)
               \/ mainPc # "set_led" /\ Tick
               \/ usbd_msg_cb
               \/ usb_ncm_network_work_handler
               \/ usb_ncm_startup_watchdog_work_handler
               \/ http_server_start_work_handler
               \/ ipv4_addr_handler

\* A step of the threads, or of none.
ThreadNext == UNCHANGED <<vars, mainPc>>

\* Every step is one of the network with main standing still, one of main,
\* one of the two threads, or a reboot.
LEMMA BoardSteps ==
  ASSUME [BoardNext]_boardVars
  PROVE  \/ NetworkNext /\ UNCHANGED mainPc
         \/ main
         \/ ThreadNext
         \/ Reboot
<1>1. CASE UNCHANGED boardVars
  BY <1>1 DEF boardVars, ThreadNext
<1>2. CASE Enabled /\ (Host \/ AssignAddress) /\ Untouched
  BY <1>2 DEF NetworkNext, Untouched
<1>3. CASE TimePasses \/ UsbWork \/ AddressEvent
  BY <1>3 DEF NetworkNext, TimePasses, UsbWork, AddressEvent, Untouched
<1>4. CASE StartServer
  BY <1>4 DEF NetworkNext, StartServer
<1>5. CASE http_thread
  BY <1>5 DEF http_thread, OpenServer, BindOrListen, HttpStep, ThreadNext
<1>6. CASE mdns_announce_thread
  BY <1>6 DEF mdns_announce_thread, MdnsWait, MdnsSocket, MdnsLookup, MdnsSend,
              MdnsSendFails, MdnsStep, ThreadNext
<1> QED BY <1>1, <1>2, <1>3, <1>4, <1>5, <1>6 DEF BoardNext

\* The board starts with everything off.
LEMMA BoardInitInv == ASSUME BoardInit PROVE BoardInv
<1>1. Init /\ mainPc = "device"
  BY DEF BoardInit
<1>2. TypeOK /\ IInv
  BY <1>1, OffInv
<1>3. MainInv
  BY <1>1 DEF MainInv, Off, Init
<1>4. ServerInv
  BY DEF BoardInit, ServerInv, NoFd, Fd
<1> QED BY <1>2, <1>3, <1>4 DEF BoardInv

\* While main sets the LED no step of the network brings the interface up.
LEMMA QuietInv ==
  ASSUME TypeOK, IInv, Quiet, mainPc = "set_led", NetworkNext
  PROVE  Quiet'
<1> USE DEF Quiet
<1>1. CASE Host
  <2>1. UNCHANGED <<network_should_run, network_is_up>>
    BY <1>1 DEF Host, Plug, Unplug, BusReset, Configure, Suspend, Resume,
                StackError, SetInterface, Message, network
  <2>2. CASE UNCHANGED queue
    BY <2>1, <2>2
  <2>3. CASE queue' = Submit(queue, "message")
    <3>1. /\ \A x : Contains(queue', x) <=> Contains(queue, x) \/ x = "message"
          /\ \A v : Ahead(queue, v, "message") /\ Contains(queue, "message")
                      => Ahead(queue', v, "message")
          /\ \A v : Contains(queue, v) /\ ~Contains(queue, "message")
                      => Ahead(queue', v, "message")
      BY <2>3, TypedQueue, SubmitQueue DEF Works
    <3> QED BY <2>1, <3>1
  <2> QED BY <1>1, <2>2, <2>3
          DEF Host, Plug, Unplug, BusReset, Configure, Suspend, Resume,
              StackError, SetInterface, Message
<1>2. CASE AssignAddress \/ ipv4_addr_handler
  <2>1. ~address
    BY DEF IInv, UpInv
  <2>2. UNCHANGED <<network_should_run, network_is_up, queue>>
    BY <1>2, <2>1 DEF AssignAddress, ipv4_addr_handler, HasLinkLocal, network
  <2> QED BY <2>2
<1>3. CASE usbd_msg_configuration \/ usbd_msg_resume
  <2>1. /\ Running("message") /\ queue' = Again(Rest)
        /\ UNCHANGED network_is_up
    BY <1>3 DEF usbd_msg_configuration, usbd_msg_resume, Handling, StateUp
  <2>2. ~Contains(queue, "network")
    BY <2>1, RunQueue
  <2>3. ~Contains(queue', "network")
    BY <2>1, <2>2, RunQueue, AgainQueue
  <2> QED BY <2>1, <2>3
<1>4. CASE usbd_msg_down
  <2>1. /\ queue' = Again(DownQueue) /\ network_should_run' = FALSE
        /\ UNCHANGED network_is_up /\ Running("message")
    BY <1>4 DEF usbd_msg_down, StateDown, Handling
  <2>2. /\ IsQueue(DownQueue) /\ ~Contains(DownQueue, "message")
        /\ Contains(DownQueue, "network")
    BY <2>1, DownQueueWorks
  <2>3. Ahead(queue', "network", "message")
    <3>1. CASE Len(messages) > 1
      BY <3>1, <2>1, <2>2, AgainQueue
    <3>2. CASE ~(Len(messages) > 1)
      <4>1. IsQueue(queue') /\ ~Contains(queue', "message")
        BY <3>2, <2>1, <2>2, AgainQueue
      <4> QED BY <4>1 DEF Ahead, Contains
    <3> QED BY <3>1, <3>2
  <2> QED BY <2>1, <2>3
<1>5. CASE usb_ncm_network_work_handler
  <2>1. Running("network") /\ queue' = Rest /\ UNCHANGED network_should_run
    BY <1>5 DEF usb_ncm_network_work_handler
  <2>2. ~network_should_run /\ ~Contains(queue', "network")
    BY <2>1, RunQueue
  <2>3. ~network_is_up'
    BY <1>5, <2>2 DEF usb_ncm_network_work_handler
  <2> QED BY <2>2, <2>3
<1>6. ASSUME NEW w \in {"watchdog", "http"}, Running(w), queue' = Rest,
             UNCHANGED <<network_should_run, network_is_up>>
      PROVE  Quiet'
  BY <1>6, RunQueue
<1>7. CASE usb_ncm_startup_watchdog_work_handler
  BY <1>6, <1>7 DEF usb_ncm_startup_watchdog_work_handler, network
<1>8. CASE http_server_start_work_handler
  BY <1>6, <1>8 DEF http_server_start_work_handler, network
<1> HIDE DEF Quiet
<1> QED BY <1>1, <1>2, <1>3, <1>4, <1>5, <1>7, <1>8
        DEF NetworkNext, usbd_msg_cb

\* What a step of the network does to a board where main has not failed and
\* not finished.
LEMMA NetworkMainInv ==
  ASSUME TypeOK, IInv, MainInv, NetworkNext, UNCHANGED mainPc
  PROVE  MainInv'
<1>1. CASE Off /\ ~Enabled
  <2>1. ~Running("message") /\ ~Running("network") /\ ~Running("watchdog")
        /\ ~Running("http")
    BY <1>1 DEF Off, Running
  <2>2. ~Tick /\ ~ipv4_addr_handler
    BY <1>1 DEF Off, Tick, ipv4_addr_handler
  <2> QED BY <1>1, <2>1, <2>2
          DEF NetworkNext, usbd_msg_cb, usbd_msg_configuration,
              usbd_msg_resume, usbd_msg_down, Handling,
              usb_ncm_network_work_handler,
              usb_ncm_startup_watchdog_work_handler,
              http_server_start_work_handler
<1>2. CASE mainPc = "set_led"
  <2>1. Quiet
    BY <1>2 DEF MainInv
  <2>2. Quiet'
    BY <1>2, <2>1, QuietInv
  <2> QED BY <1>2, <2>2 DEF MainInv
<1>3. CASE Enabled /\ mainPc # "set_led"
  BY <1>3 DEF Enabled, MainInv
<1> QED BY <1>1, <1>2, <1>3 DEF Enabled, MainInv

\* The network's steps keep UsbNetwork's invariant.
LEMMA NetworkKeepsInv ==
  ASSUME TypeOK, IInv, NetworkNext PROVE TypeOK' /\ IInv'
<1>1. Next
  BY DEF NetworkNext, Next, WorkQueue
<1> QED BY <1>1, Inductive

\* A step that changes no variable of UsbNetwork keeps it too.
LEMMA ThreadKeepsInv ==
  ASSUME TypeOK, IInv, UNCHANGED vars PROVE TypeOK' /\ IInv'
BY Inductive

\* main changes the LED only, and not the LED of a ready interface.
LEMMA MainKeepsInv ==
  ASSUME TypeOK, IInv, MainInv, main PROVE TypeOK' /\ IInv' /\ MainInv'
<1>1. /\ UNCHANGED <<vbus, configured, suspended, data_active, address,
                     addr_event, messages, queue, net_timer, dog_timer,
                     network_should_run, network_is_up, network_is_ready,
                     http_server_is_started, rebooting>>
      /\ status_led_mode' \in {status_led_mode, "blink", "error"}
      /\ \/ mainPc \in {"device", "register", "enable"}
         \/ mainPc = "set_led" /\ mainPc' = "idle"
      /\ mainPc' \in {"register", "enable", "set_led", "idle", "failed"}
  BY DEF main, usb_device_init, usbd_msg_register_cb, usbd_enable, SetLed,
         MainStep, usb, timers, network
<1>2. TypeOK'
  BY <1>1 DEF TypeOK
<1>3. MessageInv' /\ StartInv'
  BY <1>1 DEF IInv, MessageInv, StartInv
<1>4. UpInv' /\ RebootsOnlyStarted'
  BY <1>1 DEF IInv, UpInv, RebootsOnlyStarted
<1>5. LinkInv'
  BY <1>1 DEF IInv, LinkInv, DownLast, WakeFollowsDown
<1>6. ~network_is_ready
  BY <1>1 DEF MainInv, Off, Quiet, IInv, UpInv
<1>7. LedFollowsReady'
  BY <1>1, <1>6 DEF IInv, LedFollowsReady
<1>8. mainPc' # "idle" => Off'
  BY <1>1 DEF MainInv, Off
<1>9. Off' => Quiet'
  BY EmptyQueue DEF Off, Quiet
<1>10. MainInv'
  BY <1>1, <1>8, <1>9 DEF MainInv
<1> QED BY <1>2, <1>3, <1>4, <1>5, <1>7, <1>10 DEF IInv

\* Every step but those of the threads leaves the threads alone, or starts
\* them, or ends them.
LEMMA ServerKeepsInv ==
  ASSUME ServerInv, [BoardNext]_boardVars PROVE ServerInv'
<1> USE DEF ServerInv, NoFd, Fd
<1>1. CASE UNCHANGED <<started, server_fd, httpPc, mdnsPc>> /\ (announced' => announced)
  BY <1>1
<1>2. CASE StartServer
  <2>1. CASE UNCHANGED <<started, httpPc, mdnsPc>>
    BY <1>2, <2>1, <1>1 DEF StartServer
  <2>2. CASE ~started /\ started' = TRUE /\ StartThreads
    BY <1>2, <2>2 DEF StartServer, StartThreads
  <2> QED BY <1>2, <2>1, <2>2 DEF StartServer, http_server_start
<1>3. CASE OpenServer
  BY <1>3 DEF OpenServer, HttpStep, mdns
<1>4. CASE BindOrListen("bind", "listen")
  BY <1>4 DEF BindOrListen, HttpStep, GivenUp, mdns
<1>5. CASE BindOrListen("listen", "accept")
  BY <1>5 DEF BindOrListen, HttpStep, GivenUp, mdns
<1>6. CASE MdnsWait
  BY <1>6 DEF MdnsWait, MdnsStep, server
<1>7. CASE MdnsSocket
  BY <1>7 DEF MdnsSocket, MdnsStep, server
<1>8. CASE MdnsLookup \/ MdnsSend \/ MdnsSendFails
  BY <1>8 DEF MdnsLookup, MdnsSend, MdnsSendFails, MdnsStep, server
<1>9. CASE Reboot
  BY <1>9 DEF Reboot
<1>10. CASE Untouched
  BY <1>1, <1>10 DEF Untouched, server
<1>11. CASE main
  BY <1>1, <1>11 DEF main, usb_device_init, usbd_msg_register_cb, usbd_enable,
                     SetLed, MainStep, server, mdns
<1>12. CASE UNCHANGED boardVars
  BY <1>1, <1>12 DEF boardVars, server, mdns
<1> HIDE DEF ServerInv
<1> QED BY <1>2, <1>3, <1>4, <1>5, <1>6, <1>7, <1>8, <1>9, <1>10, <1>11, <1>12
        DEF BoardNext, TimePasses, UsbWork, AddressEvent, http_thread,
            mdns_announce_thread

-----------------------------------------------------------------------------
(* The theorems.                                                           *)

\* The invariant of the board is inductive.
LEMMA BoardInductive ==
  ASSUME BoardInv, [BoardNext]_boardVars PROVE BoardInv'
<1> USE DEF BoardInv
<1>1. ServerInv'
  BY ServerKeepsInv
<1>2. CASE NetworkNext /\ UNCHANGED mainPc
  BY <1>1, <1>2, NetworkKeepsInv, NetworkMainInv
<1>3. CASE main
  BY <1>1, <1>3, MainKeepsInv
<1>4. CASE ThreadNext
  <2>1. UNCHANGED vars /\ UNCHANGED mainPc
    BY <1>4 DEF ThreadNext
  <2>2. MainInv'
    BY <2>1 DEF MainInv, Off, Quiet, vars, usb, timers, network
  <2> QED BY <1>1, <2>1, <2>2, ThreadKeepsInv
<1>5. CASE Reboot
  <2>1. TypeOK' /\ IInv'
    BY <1>5, RebootInv DEF Reboot
  <2>2. MainInv'
    BY <1>5 DEF Reboot, sys_reboot, Inactive, MainInv, Off
  <2> QED BY <1>1, <2>1, <2>2
<1> HIDE DEF BoardInv
<1> QED BY <1>2, <1>3, <1>4, <1>5, BoardSteps

\* It holds of every state the board reaches.
THEOREM BoardInvariant == BoardSpec => []BoardInv
<1>1. BoardInit => BoardInv
  BY BoardInitInv
<1>2. BoardInv /\ [BoardNext]_boardVars => BoardInv'
  BY BoardInductive
<1> QED BY <1>1, <1>2, PTL DEF BoardSpec

\* What UsbNetworkProofs shows of the interface on its own holds with main's
\* writes of the LED among its steps: TypeOK, LedFollowsReady,
\* FollowsLastMessage and RebootsOnlyStarted.
THEOREM NetworkOnTheBoard ==
  BoardSpec => [](TypeOK /\ LedFollowsReady /\ FollowsLastMessage
                  /\ RebootsOnlyStarted)
<1>1. BoardInv => TypeOK /\ LedFollowsReady /\ FollowsLastMessage
                  /\ RebootsOnlyStarted
  BY EmptyQueue
     DEF BoardInv, IInv, StartInv, FollowsLastMessage, TypeOK
<1> QED BY <1>1, BoardInvariant, PTL

\* ServerFdOpen: the descriptor the mDNS thread reads without a lock is one
\* http_thread has open, and nothing is announced before there is a socket.
THEOREM ServerFdOpenHolds == BoardSpec => []ServerFdOpen
<1>1. BoardInv => ServerFdOpen
  BY DEF BoardInv, ServerInv, ServerFdOpen
<1> QED BY <1>1, BoardInvariant, PTL
=============================================================================
