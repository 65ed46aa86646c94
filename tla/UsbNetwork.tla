----------------------------- MODULE UsbNetwork -----------------------------
(***************************************************************************)
(* src/main.c: USB messages, the CDC-NCM interface, the startup watchdog   *)
(* and the status LED.                                                     *)
(*                                                                         *)
(* Everything but the address event runs on the system work queue, one     *)
(* item after another and none preempted: the USB stack's message work     *)
(* (one message per run), the two delayable works of main.c and the work   *)
(* that starts the HTTP server.  The network management thread runs        *)
(* ipv4_addr_handler, also without being preempted, between any two items  *)
(* and while the watchdog sleeps before it reboots.                        *)
(*                                                                         *)
(* The host is an environment that plugs, resets, configures, suspends,    *)
(* resumes and switches the alternate setting of the data interface as USB *)
(* allows; the network stack assigns a link-local address to an interface  *)
(* that is up and whose data interface is active.                          *)
(***************************************************************************)
EXTENDS Integers, Sequences, SequencesExt

CONSTANTS UpDelay,        \* ticks from a message to net_if_up (1 s)
          WatchdogDelay,  \* ticks of the startup watchdog (6 s)
          MaxMessages     \* bound: messages the USB stack holds

ASSUME UsbNetworkAssumption ==
  /\ UpDelay \in Nat \ {0}
  /\ WatchdogDelay \in Nat /\ UpDelay < WatchdogDelay
  /\ MaxMessages \in Nat \ {0}

VARIABLES
  vbus, configured, suspended,  \* the USB link
  data_active,            \* the data interface is in alternate setting 1
  address,                \* the interface has its link-local address
  addr_event,             \* an address event waits for its handler
  messages,               \* USB messages not handled yet
  queue,                  \* the system work queue
  net_timer, dog_timer,   \* the delayable works' timeouts; 0: not scheduled
  network_should_run, network_is_up, network_is_ready,
  status_led_mode,
  http_server_is_started,
  rebooting               \* the watchdog sleeps, then reboots

usb     == <<vbus, configured, suspended>>
timers  == <<net_timer, dog_timer>>
network == <<network_should_run, network_is_up, network_is_ready>>
vars == <<usb, data_active, address, addr_event, messages, queue, timers,
          network, status_led_mode, http_server_is_started, rebooting>>

Init ==
  /\ vbus = FALSE /\ configured = FALSE /\ suspended = FALSE
  /\ data_active = FALSE
  /\ address = FALSE
  /\ addr_event = FALSE
  /\ messages = <<>>
  /\ queue = <<>>
  /\ net_timer = 0 /\ dog_timer = 0
  /\ network_should_run = FALSE
  /\ network_is_up = FALSE
  /\ network_is_ready = FALSE
  /\ status_led_mode = "blink"
  /\ http_server_is_started = FALSE
  /\ rebooting = FALSE

\* k_work_submit and k_work_cancel on a queue: an item is in it once.
Submit(q, work) == IF Contains(q, work) THEN q ELSE Append(q, work)
Cancel(q, work) ==
  IF Contains(q, work) THEN RemoveAt(q, CHOOSE i \in 1..Len(q) : q[i] = work)
  ELSE q

-----------------------------------------------------------------------------
(* The host and the network stack.                                         *)

Message(m) ==
  /\ Len(messages) < MaxMessages
  /\ messages' = Append(messages, m)
  /\ queue' = Submit(queue, "message")
  /\ UNCHANGED <<timers, network, status_led_mode, http_server_is_started,
                 rebooting, addr_event>>

\* Without its carrier the interface loses its address.
Inactive == data_active' = FALSE /\ address' = FALSE

Plug ==
  /\ ~vbus /\ vbus' = TRUE
  /\ Message("VBUS_READY")
  /\ UNCHANGED <<configured, suspended, data_active, address>>

Unplug ==
  /\ vbus /\ vbus' = FALSE
  /\ configured' = FALSE /\ suspended' = FALSE
  /\ Inactive
  /\ Message("VBUS_REMOVED")

BusReset ==
  /\ vbus
  /\ configured' = FALSE /\ suspended' = FALSE
  /\ Inactive
  /\ Message("RESET")
  /\ UNCHANGED vbus

Configure ==
  /\ vbus /\ ~suspended
  /\ configured' = TRUE
  /\ Message("CONFIGURATION")
  /\ UNCHANGED <<vbus, suspended, data_active, address>>

Suspend ==
  /\ vbus /\ ~suspended /\ suspended' = TRUE
  /\ Message("SUSPEND")
  /\ UNCHANGED <<vbus, configured, data_active, address>>

Resume ==
  /\ suspended /\ suspended' = FALSE
  /\ Message("RESUME")
  /\ UNCHANGED <<vbus, configured, data_active, address>>

StackError ==
  /\ Message("STACK_ERROR")
  /\ UNCHANGED <<usb, data_active, address>>

\* SET_INTERFACE is no message to the application.  Either setting takes the
\* carrier off (patches/zephyr-cdc-ncm-macos-altsetting.patch); with the
\* active one it is back after the notifications, for AssignAddress.
SetInterface ==
  /\ configured /\ ~suspended
  /\ data_active' \in BOOLEAN
  /\ address' = FALSE
  /\ UNCHANGED <<usb, addr_event, messages, queue, timers, network,
                 status_led_mode, http_server_is_started, rebooting>>

AssignAddress ==
  /\ network_is_up /\ data_active /\ ~suspended /\ ~address
  /\ address' = TRUE
  /\ addr_event' = TRUE
  /\ UNCHANGED <<usb, data_active, messages, queue, timers, network,
                 status_led_mode, http_server_is_started, rebooting>>

Host == \/ Plug \/ Unplug \/ BusReset \/ Configure \/ Suspend \/ Resume
        \/ StackError \/ SetInterface

-----------------------------------------------------------------------------
(* Time: a timeout that ends submits its work.                             *)

Down(t) == IF t = 0 THEN 0 ELSE t - 1

Tick ==
  /\ ~rebooting
  /\ net_timer + dog_timer > 0
  /\ net_timer' = Down(net_timer)
  /\ dog_timer' = Down(dog_timer)
  /\ LET q == IF net_timer = 1 THEN Submit(queue, "network") ELSE queue
     IN  queue' = IF dog_timer = 1 THEN Submit(q, "watchdog") ELSE q
  /\ UNCHANGED <<usb, data_active, address, addr_event, messages, network,
                 status_led_mode, http_server_is_started, rebooting>>

-----------------------------------------------------------------------------
(* The work items.  An item is out of the queue when its handler runs.     *)

Running(work) == ~rebooting /\ queue # <<>> /\ Head(queue) = work
Rest == Tail(queue)

\* The message work submits itself again when more messages wait.
Again(q) == IF Len(messages) > 1 THEN Submit(q, "message") ELSE q

Handling(types) ==
  /\ Running("message")
  /\ Head(messages) \in types
  /\ messages' = Tail(messages)
  /\ UNCHANGED <<usb, data_active, address, addr_event, network_is_up,
                 http_server_is_started, rebooting>>

\* fault: counts the watchdog's time from the start of the interface
StartWatchdogLate == dog_timer' = UpDelay + WatchdogDelay
\* fault: nothing watches the start
LeaveWatchdog == UNCHANGED dog_timer
StartWatchdog == dog_timer' = WatchdogDelay

\* set_usb_ncm_network_state(true), then k_work_reschedule of the watchdog.
\* k_work_schedule leaves a work alone that is scheduled or queued already;
\* k_work_reschedule starts its timeout anew.
StateUp ==
  /\ network_should_run' = TRUE
  /\ net_timer' = IF net_timer = 0 /\ ~Contains(Rest, "network")
                    THEN UpDelay ELSE net_timer
  /\ StartWatchdog
  /\ queue' = Again(Rest)
  /\ UNCHANGED network_is_ready

\* fault: the watchdog of the last start runs on
KeepWatchdog == UNCHANGED dog_timer
StopWatchdog == dog_timer' = 0

\* fault: cancels the work that would take the interface down
DownQueueEmptied == Cancel(Cancel(Rest, "network"), "watchdog")
DownQueue == Append(Cancel(Cancel(Rest, "network"), "watchdog"), "network")

\* set_usb_ncm_network_state(false): both works are cancelled, wherever they
\* are, and the interface is taken down by the item after this one.
StateDown ==
  /\ network_should_run' = FALSE
  /\ net_timer' = 0
  /\ StopWatchdog
  /\ queue' = Again(DownQueue)

usbd_msg_configuration ==
  /\ Handling({"CONFIGURATION"})
  /\ StateUp
  /\ UNCHANGED status_led_mode

usbd_msg_resume ==
  /\ Handling({"RESUME", "VBUS_READY"})
  /\ StateUp
  /\ status_led_mode' = "blink"

usbd_msg_down ==
  /\ Handling({"RESET", "SUSPEND", "VBUS_REMOVED", "STACK_ERROR"})
  /\ StateDown
  /\ network_is_ready' = FALSE
  /\ status_led_mode' = "blink"

usbd_msg_cb == usbd_msg_configuration \/ usbd_msg_resume \/ usbd_msg_down

\* net_if_up, net_if_down, or nothing to do.
usb_ncm_network_work_handler ==
  /\ Running("network")
  /\ queue' = Rest
  /\ \/ /\ network_should_run /\ ~network_is_up
        /\ network_is_up' = TRUE
        /\ UNCHANGED <<address, network_is_ready, status_led_mode>>
     \/ /\ ~network_should_run /\ network_is_up
        /\ network_is_up' = FALSE
        /\ network_is_ready' = FALSE
        /\ address' = FALSE
        /\ status_led_mode' = "blink"
     \/ /\ network_should_run <=> network_is_up
        /\ UNCHANGED <<network_is_up, address, network_is_ready,
                       status_led_mode>>
  /\ UNCHANGED <<usb, data_active, addr_event, messages, timers,
                 network_should_run, http_server_is_started, rebooting>>

\* An interface still without its address is taken for stuck.
usb_ncm_startup_watchdog_work_handler ==
  /\ Running("watchdog")
  /\ queue' = Rest
  /\ IF network_should_run /\ ~network_is_ready
       THEN rebooting' = TRUE /\ status_led_mode' = "error"
       ELSE UNCHANGED <<rebooting, status_led_mode>>
  /\ UNCHANGED <<usb, data_active, address, addr_event, messages, timers,
                 network, http_server_is_started>>

http_server_start_work_handler ==
  /\ Running("http")
  /\ queue' = Rest
  /\ http_server_is_started' = TRUE
  /\ UNCHANGED <<usb, data_active, address, addr_event, messages, timers,
                 network, status_led_mode, rebooting>>

WorkQueue == \/ usbd_msg_cb
             \/ usb_ncm_network_work_handler
             \/ usb_ncm_startup_watchdog_work_handler
             \/ http_server_start_work_handler

\* fault: believes the event
TrustEvent == TRUE
HasLinkLocal == address

\* The address is looked up again: it may be gone since the event.
ipv4_addr_handler ==
  /\ addr_event
  /\ addr_event' = FALSE
  /\ IF HasLinkLocal
       THEN /\ network_is_ready' = TRUE
            /\ dog_timer' = 0
            /\ status_led_mode' = "solid"
            /\ queue' = Submit(Cancel(queue, "watchdog"), "http")
       ELSE UNCHANGED <<network_is_ready, dog_timer, status_led_mode, queue>>
  /\ UNCHANGED <<usb, data_active, address, messages, net_timer,
                 network_should_run, network_is_up, http_server_is_started,
                 rebooting>>

\* sys_reboot after 250 ms, whatever has happened meanwhile; the host sees
\* the device leave.
sys_reboot ==
  /\ rebooting
  /\ vbus' = FALSE /\ configured' = FALSE /\ suspended' = FALSE
  /\ Inactive
  /\ addr_event' = FALSE
  /\ messages' = <<>> /\ queue' = <<>>
  /\ net_timer' = 0 /\ dog_timer' = 0
  /\ network_should_run' = FALSE
  /\ network_is_up' = FALSE
  /\ network_is_ready' = FALSE
  /\ status_led_mode' = "blink"
  /\ http_server_is_started' = FALSE
  /\ rebooting' = FALSE

-----------------------------------------------------------------------------
Next == \/ Host \/ AssignAddress \/ Tick
        \/ WorkQueue \/ ipv4_addr_handler \/ sys_reboot

\* The fairness of the board is in Startup.
Spec == Init /\ [][Next]_vars

-----------------------------------------------------------------------------
(* Properties.                                                             *)

MessageTypes == {"CONFIGURATION", "RESUME", "VBUS_READY", "RESET", "SUSPEND",
                 "VBUS_REMOVED", "STACK_ERROR"}
Works == {"message", "network", "watchdog", "http"}

\* The type of every variable; a work is in the queue at most once.
TypeOK ==
  /\ vbus \in BOOLEAN /\ configured \in BOOLEAN /\ suspended \in BOOLEAN
  /\ data_active \in BOOLEAN /\ address \in BOOLEAN /\ addr_event \in BOOLEAN
  /\ messages \in Seq(MessageTypes) /\ Len(messages) <= MaxMessages
  /\ queue \in Seq(Works) /\ IsInjective(queue)
  /\ net_timer \in 0..UpDelay
  /\ dog_timer \in 0..WatchdogDelay
  /\ network_should_run \in BOOLEAN
  /\ network_is_up \in BOOLEAN
  /\ network_is_ready \in BOOLEAN
  /\ status_led_mode \in {"blink", "solid", "error"}
  /\ http_server_is_started \in BOOLEAN
  /\ rebooting \in BOOLEAN

\* The LED is solid exactly while the network counts as ready, and ready is
\* never left set by a late address event on an interface that was taken
\* down: a stale one would make the watchdog pass over the next start.
LedFollowsReady ==
  /\ status_led_mode = "solid" => network_is_ready
  /\ network_is_ready => network_is_up
  /\ network_is_ready /\ ~rebooting => status_led_mode = "solid"

\* When no message and no work is left the interface is where the last
\* message wanted it: no message was lost to a work that was scheduled,
\* queued or cancelled at the wrong moment.
FollowsLastMessage ==
  (messages = <<>> /\ queue = <<>> /\ net_timer = 0) =>
    network_is_up = network_should_run

\* The watchdog gives every start its time: it reboots no board whose
\* interface was not even brought up since the message that wanted it.
RebootsOnlyStarted == rebooting => network_is_up

\* docs/sdd.md: the watchdog "prevents the board from remaining indefinitely
\* in a blinking, unreachable state".  Every start ends in a link-local
\* address, a stop or a reboot, or the host sends another message.
Recovers ==
  (network_should_run /\ ~network_is_ready) ~>
    (network_is_ready \/ ~network_should_run \/ messages # <<>>)

\* docs/known-issues.md: "If USB is configured but no link-local address
\* appears within the timeout, the firmware performs a cold reboot".
\* Violated: RESUME and VBUS_READY start the watchdog too (main.c:158), so a
\* board on a charger reboots again and again.
RebootsOnlyConfigured ==
  [][(~rebooting /\ rebooting') => configured]_vars

\* docs/sdd.md: the LED is "solid on: link-local IPv4 is ready".  Violated:
\* main.c:244 asks for NET_EVENT_IPV4_ADDR_ADD only, and the host can take
\* the data interface to alternate setting 0, and with it the carrier and the
\* address, without a USB message: the LED stays solid, no work left would
\* change it, and no notification is under way that would bring the address
\* back.
LedTellsAddress ==
  status_led_mode = "solid" => address \/ data_active \/ queue # <<>>
=============================================================================
