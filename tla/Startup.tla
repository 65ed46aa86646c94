------------------------------ MODULE Startup ------------------------------
(***************************************************************************)
(* From power-on to a service the host can find: main() of src/main.c and  *)
(* the two threads that http_server_start of src/http_server.c lets run,   *)
(* around the USB and network events of module UsbNetwork.                 *)
(*                                                                         *)
(*   main   enables USB and sets the LED, then idles                       *)
(*   http   opens the listening socket; what it does with a client is      *)
(*          module HttpServer                                              *)
(*   mdns   waits for server_fd, then announces the service whenever the   *)
(*          interface has its address                                      *)
(*                                                                         *)
(* A sleep ends at any time; a reboot ends everything.                     *)
(***************************************************************************)
EXTENDS UsbNetwork

VARIABLES
  mainPc,       \* main
  started,      \* the threads of the server have been let run
  server_fd,    \* the listening socket
  httpPc,       \* http_thread
  mdnsPc,       \* mdns_announce_thread
  announced     \* history: the host has heard of the present address

server == <<started, server_fd, httpPc>>
mdns   == <<mdnsPc, announced>>
boardVars == <<vars, mainPc, server, mdns>>

NoFd == -1
Fd   == 0

BoardInit ==
  /\ Init
  /\ mainPc = "device"
  /\ started = FALSE
  /\ server_fd = NoFd
  /\ httpPc = "new"
  /\ mdnsPc = "new"
  /\ announced = FALSE

\* What UsbNetwork's actions leave alone; a new address is a new announcement.
Untouched == /\ announced' = (announced /\ address')
             /\ UNCHANGED <<mainPc, server, mdnsPc>>

-----------------------------------------------------------------------------
(* main: each call may fail, and then it returns with the error LED.       *)

MainStep(pc, next) ==
  /\ mainPc = pc
  /\ \/ mainPc' = next     /\ UNCHANGED status_led_mode
     \/ mainPc' = "failed" /\ status_led_mode' = "error"
  /\ UNCHANGED <<usb, data_active, address, addr_event, messages, queue,
                 timers, network, http_server_is_started, rebooting, server,
                 mdns>>

usb_device_init      == MainStep("device", "register")
usbd_msg_register_cb == MainStep("register", "enable")
usbd_enable          == MainStep("enable", "set_led")

\* USB messages may already be handled when main sets the LED.
SetLed ==
  /\ mainPc = "set_led"
  /\ mainPc' = "idle"
  /\ status_led_mode' = "blink"
  /\ UNCHANGED <<usb, data_active, address, addr_event, messages, queue,
                 timers, network, http_server_is_started, rebooting, server,
                 mdns>>

main == usb_device_init \/ usbd_msg_register_cb \/ usbd_enable \/ SetLed

Enabled == mainPc \in {"set_led", "idle"}

-----------------------------------------------------------------------------
(* http_server_start, in the work item of main.c, and http_thread.         *)

\* fault: lets one thread run
StartMdnsOnly == httpPc' = httpPc /\ mdnsPc' = "wait"
\* fault: lets the other run
StartHttpOnly == httpPc' = "socket" /\ mdnsPc' = mdnsPc
StartThreads == httpPc' = "socket" /\ mdnsPc' = "wait"

http_server_start ==
  IF started
    THEN UNCHANGED <<started, httpPc, mdnsPc>>
    ELSE started' = TRUE /\ StartThreads

\* The handler's own compare-and-swap comes first.
StartServer ==
  /\ IF http_server_is_started
       THEN UNCHANGED <<started, httpPc, mdnsPc>>
       ELSE http_server_start
  /\ http_server_start_work_handler
  /\ UNCHANGED <<mainPc, server_fd, announced>>

HttpStep(pc) ==
  /\ httpPc = pc
  /\ UNCHANGED <<vars, mainPc, started, mdns>>

\* server_fd is set before the socket is bound.
OpenServer ==
  /\ HttpStep("socket")
  /\ \/ server_fd' = Fd   /\ httpPc' = "bind"
     \/ server_fd' = NoFd /\ httpPc' = "ended"

\* fault: the socket is closed, its descriptor stays
GivenUpKept == UNCHANGED server_fd
GivenUp == server_fd' = NoFd

\* The thread ends, and nothing lets it run again before a reboot.
BindOrListen(pc, next) ==
  /\ HttpStep(pc)
  /\ \/ httpPc' = next    /\ UNCHANGED server_fd
     \/ httpPc' = "ended" /\ GivenUp

http_thread == \/ OpenServer
               \/ BindOrListen("bind", "listen")
               \/ BindOrListen("listen", "accept")

-----------------------------------------------------------------------------
(* mdns_announce_thread.                                                   *)

MdnsStep(pc, next) ==
  /\ mdnsPc = pc
  /\ mdnsPc' = next
  /\ UNCHANGED <<vars, mainPc, server>>

MdnsWait ==
  /\ server_fd >= 0
  /\ MdnsStep("wait", "socket")
  /\ UNCHANGED announced

MdnsSocket ==
  /\ \E next \in {"lookup", "ended"} : MdnsStep("socket", next)
  /\ UNCHANGED announced

\* get_link_local_addr; without an address the thread looks again.
MdnsLookup ==
  /\ address
  /\ MdnsStep("lookup", "send")
  /\ UNCHANGED announced

\* The address may have gone since, and then the interface sends nothing.
MdnsSend ==
  /\ address
  /\ MdnsStep("send", "lookup")
  /\ announced' = TRUE

MdnsSendFails ==
  /\ MdnsStep("send", "lookup")
  /\ UNCHANGED announced

mdns_announce_thread == \/ MdnsWait \/ MdnsSocket \/ MdnsLookup
                        \/ MdnsSend \/ MdnsSendFails

-----------------------------------------------------------------------------
Reboot ==
  /\ sys_reboot
  /\ mainPc' = "device"
  /\ started' = FALSE
  /\ server_fd' = NoFd
  /\ httpPc' = "new"
  /\ mdnsPc' = "new"
  /\ announced' = FALSE

\* main runs to its idle loop before any delay of a second has passed.
TimePasses == mainPc # "set_led" /\ Tick /\ Untouched

UsbWork == /\ \/ usbd_msg_cb
              \/ usb_ncm_network_work_handler
              \/ usb_ncm_startup_watchdog_work_handler
           /\ Untouched

AddressEvent == ipv4_addr_handler /\ Untouched

BoardNext ==
  \/ Enabled /\ (Host \/ AssignAddress) /\ Untouched
  \/ TimePasses \/ UsbWork \/ StartServer \/ AddressEvent \/ Reboot
  \/ main \/ http_thread \/ mdns_announce_thread

\* The threads run, and an announcement that is tried again and again gets
\* out; what the host does is its own.
BoardFairness ==
  /\ WF_boardVars(TimePasses)
  /\ WF_boardVars(UsbWork \/ StartServer)
  /\ WF_boardVars(AddressEvent)
  /\ WF_boardVars(Reboot)
  /\ WF_boardVars(main)
  /\ WF_boardVars(http_thread)
  /\ WF_boardVars(mdns_announce_thread)
  /\ SF_boardVars(MdnsSend)

BoardSpec == BoardInit /\ [][BoardNext]_boardVars /\ BoardFairness

-----------------------------------------------------------------------------
(* Properties.                                                             *)

\* A descriptor in server_fd is one http_thread has open: the mDNS thread,
\* which reads it without a lock, is never set off by one that a failed bind
\* or listen has closed (http_server.c:1357 to 1369), and nothing is
\* announced before there is a socket.
ServerFdOpen ==
  /\ server_fd # NoFd <=> httpPc \in {"bind", "listen", "accept"}
  /\ announced => httpPc \notin {"new", "socket"}

\* docs/sdd.md: with an address "the firmware ... starts the HTTP server".
\* Whatever the host does meanwhile, an interface that became ready leads to
\* a listening server, unless a socket call fails or the board reboots.
ServerComesUp ==
  network_is_ready ~> (httpPc \in {"accept", "ended"} \/ rebooting)

\* An address the interface gets and keeps is announced, the first one and
\* every later one, as long as the two threads got their sockets.
ServiceAnnounced ==
  address ~> \/ announced \/ ~address \/ rebooting
             \/ "ended" \in {httpPc, mdnsPc}
=============================================================================
