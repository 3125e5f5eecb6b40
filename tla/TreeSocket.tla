------------------------------ MODULE TreeSocket ------------------------------
(***************************************************************************)
(* The page's connection: frontend/src/api/ws.ts, as TreeView mounts and   *)
(* unmounts it.  Each call of connectTreeSocket (a mount, numbered) has a  *)
(* socket and a timer of its own; the flag connected, which the header     *)
(* shows as "live", is in the store and shared by all of them.  How long   *)
(* the timer runs (from the backoff) is left out.                          *)
(*                                                                         *)
(* A socket on which close() was called, or whose connection broke, is     *)
(* closing: it delivers nothing any more, and its onclose comes some time  *)
(* later.  TreeFeed models what goes over an open socket.                  *)
(***************************************************************************)
EXTENDS Naturals

CONSTANT MaxMounts  \* bound: how often the page is shown

ASSUME SocketAssumption == MaxMounts \in Nat

Mounts == 1..MaxMounts

VARIABLES
  mount,           \* the last call
  mounted,         \* whether the page is shown
  socket,          \* per call: "none", "connecting", "open" or "closing"
  reconnectTimer,  \* per call, whether it is running
  closedByCaller,  \* per call
  connected,       \* the store's flag
  late             \* history: another call's socket closed since the last opened

socketVars == <<mount, mounted, socket, reconnectTimer, closedByCaller, connected, late>>

SocketInit ==
  /\ mount = 0 /\ mounted = FALSE
  /\ socket = [m \in Mounts |-> "none"]
  /\ reconnectTimer = [m \in Mounts |-> FALSE]
  /\ closedByCaller = [m \in Mounts |-> FALSE]
  /\ connected = FALSE /\ late = FALSE

(* connectTreeSocket *)
Connect ==
  /\ ~mounted /\ mount < MaxMounts
  /\ mount' = mount + 1 /\ mounted' = TRUE
  /\ socket' = [socket EXCEPT ![mount + 1] = "connecting"]
  /\ UNCHANGED <<reconnectTimer, closedByCaller, connected, late>>

(* onopen *)
Open(m) ==
  /\ socket[m] = "connecting"
  /\ socket' = [socket EXCEPT ![m] = "open"]
  /\ connected' = TRUE /\ late' = FALSE
  /\ UNCHANGED <<mount, mounted, reconnectTimer, closedByCaller>>

(* The connection fails or breaks, or the server ends it.  onerror calls    *)
(* close(), which changes nothing then.                                     *)
Break(m) ==
  /\ socket[m] \in {"connecting", "open"}
  /\ socket' = [socket EXCEPT ![m] = "closing"]
  /\ UNCHANGED <<mount, mounted, reconnectTimer, closedByCaller, connected, late>>

(* Mutants of Closed: the flag stays; a first attempt that fails is the last. *)
ClosedQuietly(m) ==
  /\ socket[m] = "closing"
  /\ socket' = [socket EXCEPT ![m] = "none"]
  /\ late' = (late \/ m # mount)
  /\ reconnectTimer' = [reconnectTimer EXCEPT ![m] = ~closedByCaller[m]]
  /\ UNCHANGED <<mount, mounted, closedByCaller, connected>>
ClosedUnopened(m) ==
  /\ socket[m] = "closing"
  /\ socket' = [socket EXCEPT ![m] = "none"]
  /\ connected' = FALSE /\ late' = (late \/ m # mount)
  /\ reconnectTimer' = [reconnectTimer EXCEPT ![m] = ~closedByCaller[m] /\ connected]
  /\ UNCHANGED <<mount, mounted, closedByCaller>>

(* onclose: the flag goes down, whichever call's socket it was. *)
Closed(m) ==
  /\ socket[m] = "closing"
  /\ socket' = [socket EXCEPT ![m] = "none"]
  /\ connected' = FALSE /\ late' = (late \/ m # mount)
  /\ reconnectTimer' = [reconnectTimer EXCEPT ![m] = ~closedByCaller[m]]
  /\ UNCHANGED <<mount, mounted, closedByCaller>>

(* The timer ends: connect(), which does nothing for a caller that is gone. *)
Reconnect(m) ==
  /\ reconnectTimer[m]
  /\ reconnectTimer' = [reconnectTimer EXCEPT ![m] = FALSE]
  /\ socket' = IF closedByCaller[m] THEN socket ELSE [socket EXCEPT ![m] = "connecting"]
  /\ UNCHANGED <<mount, mounted, closedByCaller, connected, late>>

CloseSocket(s) == IF s = "none" THEN "none" ELSE "closing"

(* Mutant of Disconnect: the socket's onclose takes it for a failure. *)
DisconnectSocket ==
  /\ mounted
  /\ mounted' = FALSE
  /\ reconnectTimer' = [reconnectTimer EXCEPT ![mount] = FALSE]
  /\ socket' = [socket EXCEPT ![mount] = CloseSocket(@)]
  /\ UNCHANGED <<mount, closedByCaller, connected, late>>

(* What connectTreeSocket returns, called when the page is left.            *)
Disconnect ==
  /\ mounted
  /\ mounted' = FALSE
  /\ closedByCaller' = [closedByCaller EXCEPT ![mount] = TRUE]
  /\ reconnectTimer' = [reconnectTimer EXCEPT ![mount] = FALSE]
  /\ socket' = [socket EXCEPT ![mount] = CloseSocket(@)]
  /\ UNCHANGED <<mount, connected, late>>

SocketNext ==
  \/ Connect
  \/ \E m \in Mounts : Open(m) \/ Break(m) \/ Closed(m) \/ Reconnect(m)
  \/ Disconnect

SocketSpec == SocketInit /\ [][SocketNext]_socketVars

-----------------------------------------------------------------------------
SocketTypeOK ==
  /\ mount \in 0..MaxMounts /\ mounted \in BOOLEAN
  /\ socket \in [Mounts -> {"none", "connecting", "open", "closing"}]
  /\ reconnectTimer \in [Mounts -> BOOLEAN]
  /\ closedByCaller \in [Mounts -> BOOLEAN]
  /\ connected \in BOOLEAN /\ late \in BOOLEAN

(* The page that is shown has one socket, or waits to open one, at any time *)
(* and however often it was shown before; one that was left has none that   *)
(* it would open or leave open.                                             *)
OneSocket ==
  \A m \in Mounts :
    IF mounted /\ m = mount
    THEN socket[m] = "none" <=> reconnectTimer[m]
    ELSE socket[m] \in {"none", "closing"} /\ ~reconnectTimer[m]

(* The header says "live" only while a socket is open, or until its onclose *)
(* comes, and it does say so while the page's socket is open, unless the    *)
(* onclose of a socket it had before has come after that was opened.        *)
FlagHonest ==
  /\ connected => \E m \in Mounts : socket[m] \in {"open", "closing"}
  /\ \A m \in Mounts : socket[m] = "open" /\ ~late => connected
=============================================================================
