---------------------------- MODULE DeviceAccess ----------------------------
(***************************************************************************)
(* How the tasks of the printer application reach one printer              *)
(* (supvan-app/src/device.rs, printer_device.rs).  A task opens the        *)
(* printer's supvan:// URI: the hidraw node when it can be opened, which   *)
(* gives a connection of its own, else the cached RFCOMM socket, which all *)
(* the tasks share behind an async mutex.  It then calls the printer a few *)
(* times and drops the device.                                             *)
(*                                                                         *)
(* The tasks are the framework's: the status poller, the print worker, the *)
(* media change and Identify-Printer handlers; they run on a multi-thread  *)
(* runtime, so that a step of one may fall between any two of another.     *)
(* The BLE cache (open_ble_addr) is the same code and not repeated here.   *)
(***************************************************************************)
EXTENDS Naturals, Sequences, FiniteSets, FiniteSetsExt

CONSTANTS
  Pollers, Jobs, MediaChanges, Identifies,  \* the tasks, by what they do
  Transports                                \* registered by discovery

Users == Pollers \union Jobs \union MediaChanges \union Identifies


\* A task holds at most an old socket and a new one, and the cache one more.
Sockets == 1..(2 * Cardinality(Users) + 1)

None == 0
Usb == 2 * Cardinality(Users) + 2     \* stands for a hidraw file of the task's own
NoOne == "no one"

ASSUME TasksAssumption ==
  /\ IsFiniteSet(Users) /\ NoOne \notin Users
  /\ Transports \subseteq {"usb", "bt"}

VARIABLES
  pc,        \* where each task stands
  conn,      \* what its open call or its device has in hand: None, Usb, a socket
  fresh,     \* a socket it dialled and did not yet put in the cache
  step,      \* the call of its script it is at
  printing,  \* the flag of its KsDevice
  cached,    \* bt_cache: the printer's entry
  owner,     \* the task holding the mutex of each socket
  alive,     \* sockets open at both ends
  usbUp,     \* the hidraw node can be opened
  btUp       \* the printer can be dialled

deviceVars == <<step, printing>>
linkVars == <<usbUp, btUp>>
vars == <<pc, conn, fresh, cached, owner, alive, deviceVars, linkVars>>

Opening == {"lookup", "wait", "check", "evict", "dial", "insert"}
Using == {"op", "lock", "call"}

\* What a task calls on the device it opened.  The last status of a job stands for
\* the polls of KsJob::end, or for the query after a failed page.
Script(u) ==
  CASE u \in Pollers -> <<"status", "material">>
    [] u \in Jobs -> <<"print", "status">>
    [] u \in MediaChanges -> <<"material", "provision">>
    [] u \in Identifies -> <<"check">>

Call(u) == Script(u)[step[u]]

\* Sockets somebody still refers to; the last drop closes one.
Open == ({cached} \union {conn[u] : u \in Users} \union {fresh[u] : u \in Users})
          \intersect Sockets

TypeOK ==
  /\ pc \in [Users -> {"idle"} \union Opening \union Using]
  /\ conn \in [Users -> Sockets \union {None, Usb}]
  /\ fresh \in [Users -> Sockets \union {None}]
  /\ step \in [Users -> 1..2]
  /\ \A u \in Users : step[u] <= Len(Script(u))
  /\ printing \in [Users -> BOOLEAN]
  /\ cached \in Sockets \union {None}
  /\ owner \in [Sockets -> Users \union {NoOne}]
  /\ alive \subseteq Open
  /\ usbUp \in BOOLEAN /\ btUp \in BOOLEAN

Init ==
  /\ pc = [u \in Users |-> "idle"]
  /\ conn = [u \in Users |-> None]
  /\ fresh = [u \in Users |-> None]
  /\ step = [u \in Users |-> 1]
  /\ printing = [u \in Users |-> FALSE]
  /\ cached = None
  /\ owner = [s \in Sockets |-> NoOne]
  /\ alive = {}
  /\ usbUp \in BOOLEAN /\ btUp \in BOOLEAN

Goto(u, there) == pc' = [pc EXCEPT ![u] = there]
Hold(u, c) == conn' = [conn EXCEPT ![u] = c]

-----------------------------------------------------------------------------
(* Opening the device *)

\* open_supvan: USB when it opens, else Bluetooth if the printer has it.
OpenUri(u) ==
  /\ pc[u] = "idle"
  /\ \/ /\ "usb" \in Transports /\ usbUp
        /\ Goto(u, "op") /\ Hold(u, Usb)
     \/ /\ ~("usb" \in Transports /\ usbUp)
        /\ "bt" \in Transports
        /\ Goto(u, "lookup") /\ UNCHANGED conn
  /\ UNCHANGED <<fresh, cached, owner, alive, deviceVars, linkVars>>

LookUp(u) ==
  /\ pc[u] = "lookup"
  /\ IF cached = None
     THEN Goto(u, "dial") /\ UNCHANGED conn
     ELSE Goto(u, "wait") /\ Hold(u, cached)
  /\ UNCHANGED <<fresh, cached, owner, alive, deviceVars, linkVars>>

\* The check waits for whoever is using the socket: for a whole page, if it prints.
LockForCheck(u) ==
  /\ pc[u] = "wait"
  /\ owner[conn[u]] = NoOne
  /\ owner' = [owner EXCEPT ![conn[u]] = u]
  /\ Goto(u, "check")
  /\ UNCHANGED <<conn, fresh, cached, alive, deviceVars, linkVars>>

\* (faulty variant: an error counts as presence)
CheckDeviceUnwrapTrue(u) ==
  /\ pc[u] = "check"
  /\ owner' = [owner EXCEPT ![conn[u]] = NoOne]
  /\ Goto(u, "op")
  /\ UNCHANGED <<conn, fresh, cached, alive, deviceVars, linkVars>>

\* (faulty variant: the lock guard outlives a failed check)
CheckDeviceGuardKept(u) ==
  /\ pc[u] = "check"
  /\ \/ /\ conn[u] \in alive /\ Goto(u, "op")
        /\ owner' = [owner EXCEPT ![conn[u]] = NoOne]
     \/ Goto(u, "evict") /\ UNCHANGED owner
  /\ UNCHANGED <<conn, fresh, cached, alive, deviceVars, linkVars>>

\* A dead socket fails the CHECK_DEVICE round-trip; on a live one the reply may
\* still be lost, which counts the same.
CheckDevice(u) ==
  /\ pc[u] = "check"
  /\ \/ conn[u] \in alive /\ Goto(u, "op")
     \/ Goto(u, "evict")
  /\ owner' = [owner EXCEPT ![conn[u]] = NoOne]
  /\ UNCHANGED <<conn, fresh, cached, alive, deviceVars, linkVars>>

\* The entry is removed by its address, whichever socket it holds by now; the
\* failed one stays in hand until the call has dialled another.
Evict(u) ==
  /\ pc[u] = "evict"
  /\ cached' = None
  /\ Goto(u, "dial")
  /\ UNCHANGED <<conn, fresh, owner, deviceVars, linkVars>>
  /\ alive' = alive \intersect Open'

\* dial_bt: the printer may refuse a second connection while it has one.
Dial(u) ==
  /\ pc[u] = "dial"
  /\ UNCHANGED <<cached, owner, deviceVars, linkVars>>
  /\ \/ /\ btUp
        /\ LET s == Min(Sockets \ Open)
           IN  fresh' = [fresh EXCEPT ![u] = s] /\ alive' = alive \union {s}
        /\ Goto(u, "insert") /\ UNCHANGED conn
     \/ /\ ~btUp \/ alive # {}
        /\ Goto(u, "idle") /\ Hold(u, None) /\ UNCHANGED fresh
        /\ alive' = alive \intersect Open'

\* dial_and_cache: the new socket takes the entry over.
Insert(u) ==
  /\ pc[u] = "insert"
  /\ cached' = fresh[u]
  /\ Hold(u, fresh[u])
  /\ fresh' = [fresh EXCEPT ![u] = None]
  /\ Goto(u, "op")
  /\ alive' = alive \intersect Open'
  /\ UNCHANGED <<owner, deviceVars, linkVars>>

-----------------------------------------------------------------------------
(* Using it *)

\* (faulty variant: a task lost in its script)
NextCallUnbounded(u) ==
  /\ step' = [step EXCEPT ![u] = @ + 1]
  /\ Goto(u, "op")
  /\ UNCHANGED <<conn, alive>>

\* The next call of the script; after the last one the device is dropped.
NextCall(u) ==
  IF step[u] < Len(Script(u))
  THEN /\ step' = [step EXCEPT ![u] = @ + 1]
       /\ Goto(u, "op")
       /\ UNCHANGED <<conn, alive>>
  ELSE /\ step' = [step EXCEPT ![u] = 1]
       /\ Goto(u, "idle") /\ Hold(u, None)
       /\ alive' = alive \intersect Open'

\* KsDevice::status and material do nothing while their own device prints; a print
\* raises the flag before it waits for the mutex.
BeginCall(u) ==
  /\ pc[u] = "op"
  /\ UNCHANGED <<fresh, cached, owner, linkVars>>
  /\ IF Call(u) \in {"status", "material"} /\ u \in Pollers /\ printing[u]
     THEN NextCall(u) /\ UNCHANGED printing
     ELSE /\ Goto(u, "lock")
          /\ printing' = [printing EXCEPT ![u] = Call(u) = "print"]
          /\ UNCHANGED <<step, conn, alive>>

\* (faulty variant: a shared printer used without its mutex)
LockIgnored(u) ==
  /\ pc[u] = "lock"
  /\ Goto(u, "call")
  /\ UNCHANGED <<conn, fresh, cached, owner, alive, deviceVars, linkVars>>

\* PrinterHandle: a shared printer is locked for the whole call, an owned one is
\* used as it is.
Lock(u) ==
  /\ pc[u] = "lock"
  /\ \/ conn[u] = Usb /\ UNCHANGED owner
     \/ /\ conn[u] # Usb /\ owner[conn[u]] = NoOne
        /\ owner' = [owner EXCEPT ![conn[u]] = u]
  /\ Goto(u, "call")
  /\ UNCHANGED <<conn, fresh, cached, alive, deviceVars, linkVars>>

\* The poller goes on after a call that failed, the other tasks give up.
EndCall(u) ==
  /\ pc[u] = "call"
  /\ UNCHANGED <<fresh, cached, linkVars>>
  /\ \/ NextCall(u)
     \/ /\ u \notin Pollers
        /\ step' = [step EXCEPT ![u] = 1]
        /\ Goto(u, "idle") /\ Hold(u, None)
        /\ alive' = alive \intersect Open'
  /\ printing' = [printing EXCEPT ![u] = FALSE]
  /\ owner' = [s \in Sockets |-> IF s = conn[u] THEN NoOne ELSE owner[s]]

Step(u) ==
  \/ LookUp(u) \/ LockForCheck(u) \/ CheckDevice(u) \/ Evict(u) \/ Dial(u)
  \/ Insert(u) \/ BeginCall(u) \/ Lock(u) \/ EndCall(u)

-----------------------------------------------------------------------------
(* The connections *)

UsbChange ==
  /\ usbUp' = ~usbUp
  /\ UNCHANGED <<pc, conn, fresh, cached, owner, alive, deviceVars, btUp>>

\* The printer is switched off or out of range: every socket dies with it.
BtLost ==
  /\ btUp
  /\ btUp' = FALSE /\ alive' = {}
  /\ UNCHANGED <<pc, conn, fresh, cached, owner, deviceVars, usbUp>>

BtBack ==
  /\ ~btUp
  /\ btUp' = TRUE
  /\ UNCHANGED <<pc, conn, fresh, cached, owner, alive, deviceVars, usbUp>>

\* The firmware drops the link on an error and accepts the next one.
LinkDrop ==
  /\ \E s \in alive : alive' = alive \ {s}
  /\ UNCHANGED <<pc, conn, fresh, cached, owner, deviceVars, linkVars>>

Next ==
  \/ \E u \in Users : OpenUri(u) \/ Step(u)
  \/ UsbChange \/ BtLost \/ BtBack \/ LinkDrop

\* Tasks are kept running; every call on the printer ends (CallReturns of
\* PrintFlow, and a reply timeout for the others); the async mutex serves its
\* waiters in turn, which only strong fairness says; the poller polls for ever.
Fairness ==
  /\ \A u \in Users : WF_vars(Step(u)) /\ SF_vars(LockForCheck(u)) /\ SF_vars(Lock(u))
  /\ \A u \in Pollers : WF_vars(OpenUri(u))

Spec == Init /\ [][Next]_vars /\ Fairness

-----------------------------------------------------------------------------
(* Properties *)

\* Commands of two tasks are never under way on one socket: the mutex of the cached
\* printer is held for whole calls, the CHECK_DEVICE of an open call included.
SocketExclusive ==
  \A u, v \in Users :
    u # v /\ pc[u] \in {"check", "call"} /\ pc[v] \in {"check", "call"}
      => conn[u] \notin Sockets \/ conn[u] # conn[v]

\* An open call always comes to an end, although it waits for the mutex of a
\* socket that prints, and may wait for it behind other tasks.
OpenReturns == \A u \in Users : pc[u] \in Opening ~> pc[u] \notin Opening

\* "If that fails the entry is evicted and a fresh socket is dialed": once a printer
\* stays in reach and drops no more links, it is again and again reachable over the
\* cached socket, whichever sockets died before, replies are lost now, and tasks
\* race for the entry.
Reconnects ==
  <>[](btUp /\ ~usbUp) /\ <>[][~LinkDrop]_vars => []<>(cached \in alive)

\* The comments of KsDevice: the printing flag "guards status queries during active
\* raster transfer", "so we don't query a printer mid-transfer": a poller with a
\* connection of its own does not set about a query while a page is transferred.
NoQueryMidTransfer ==
  [][\A u, v \in Users :
       pc[u] = "call" /\ Call(u) = "print" /\ v \in Pollers /\ conn[v] = Usb
         => ~(pc[v] = "op" /\ pc'[v] = "lock")]_vars

=============================================================================
