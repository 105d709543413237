-------------------------------- MODULE Wifi --------------------------------
(***************************************************************************)
(* The WiFi manager (src/network/wifi_network_manager.cpp): the station    *)
(* that connects to the router, and the access point that is open whenever *)
(* the station is not connected.  Everything happens in the handler of the *)
(* events of the WiFi driver, on the task of the event loop.               *)
(***************************************************************************)
VARIABLES
  sta,           \* the station: "trying" or "up"; nobody tries when it was
                 \* "deferred" for the sake of the access point's clients,
                 \* "unset": the mode could not be set, or "refused": the
                 \* driver did not begin the attempt
  mode,          \* "apsta", or "sta" without the access point
  guests,        \* clients are connected to the access point
  led,           \* status_led_mode_
  address,       \* ip_address_ is known
  router         \* the router is there

wifiVars == <<sta, mode, guests, led, address, router>>

(* esp_wifi_connect, whose result nobody looks at.                         *)
Attempt == {"trying", "refused"}

(* begin: both modes, and the first attempt.  There is always a network to *)
(* connect to: a name that is missing is replaced by the default.          *)
WifiBegin ==
  [sta |-> Attempt, mode |-> "apsta", guests |-> FALSE, led |-> "blink",
   address |-> FALSE]

WifiInit ==
  /\ sta \in WifiBegin.sta /\ mode = WifiBegin.mode /\ guests = WifiBegin.guests
  /\ led = WifiBegin.led /\ address = WifiBegin.address
  /\ router \in BOOLEAN

BootWifi ==
  /\ sta' \in WifiBegin.sta /\ mode' = WifiBegin.mode /\ guests' = WifiBegin.guests
  /\ led' = WifiBegin.led /\ address' = WifiBegin.address /\ UNCHANGED router

(* IP_EVENT_STA_GOT_IP.                                                    *)
GotIp ==
  /\ sta = "trying" /\ router
  /\ sta' = "up" /\ address' = TRUE
  /\ led' = "solid"
  /\ mode' \in {mode, "sta"}
  /\ guests' = (guests /\ mode' = "apsta")
  /\ UNCHANGED router

(* Mutant: no attempt is made after one that failed.                       *)
DisconnectedGivesUp ==
  /\ sta \in {"up", "trying"}
  /\ led' = "blink" /\ mode' = "apsta"
  /\ sta' = IF guests THEN "deferred" ELSE IF sta = "trying" THEN "ended" ELSE "trying"
  /\ UNCHANGED <<guests, address, router>>

(* WIFI_EVENT_STA_DISCONNECTED, after a connection or a failed attempt,    *)
(* which may fail with the router there: the access point is opened and    *)
(* the next attempt is made, unless the mode cannot be set or the access   *)
(* point has clients.                                                      *)
Disconnected ==
  /\ sta \in {"up", "trying"}
  /\ led' = "blink"
  /\ \/ mode' = mode /\ sta' = "unset"
     \/ mode' = "apsta" /\ sta' \in IF guests THEN {"deferred"} ELSE Attempt
  /\ UNCHANGED <<guests, address, router>>

Guests ==
  /\ mode = "apsta"
  /\ guests' = ~guests
  /\ UNCHANGED <<sta, mode, led, address, router>>

Router ==
  /\ router' = ~router
  /\ UNCHANGED <<sta, mode, guests, led, address>>
=============================================================================
