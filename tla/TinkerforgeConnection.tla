----------------------- MODULE TinkerforgeConnection ------------------------
(***************************************************************************)
(* The connection to the Brick Daemon and the callbacks of IO Bricklets:   *)
(* tinkerforge::reconnect(), the enumeration, registerCallback() of        *)
(* sensors and callback objects, and the handlers callback_io*().          *)
(*                                                                         *)
(* reconnect() is called by every measure() on the main thread, and, by    *)
(* way of poll(), by registerCallback() on the callback thread of the      *)
(* bindings.  A connection that its peer has closed is destroyed without   *)
(* ending its callback thread, which then goes on beside the new one.      *)
(* From the bindings (ip_connection.cpp) the model has the table that      *)
(* finds the device of an UID, the queue of a callback thread, and what a  *)
(* device that is created, replaced or released does to the table.         *)
(*                                                                         *)
(* Freed memory that is used again has the effect the call would have on   *)
(* the memory's present owner, or none, or it ends the program: behaviours *)
(* that end so are not followed any further.                               *)
(***************************************************************************)
EXTENDS Naturals, Sequences, FiniteSets

CONSTANTS
    N,             \* number of Tinkerforge sensors
    UID,           \* UID[i]: the Bricklet of sensor i
    TriggerEvent,  \* TriggerEvent[i]: "periodic", "low", "high" or "high_or_low"
    Channel,       \* Channel[i]: the pin of sensor i
    DeviceType,    \* DeviceType[u]: "IO4", "IO_V2" (IO-4 2.0, IO-16) or "other"
    Masks,         \* the sets of pins that change at once
    Threads,       \* bound: callback threads that have something to do
    MaxQueue       \* bound: packets waiting for a callback thread

(* "main" is the thread of the main loop; callback threads have other names.*)
ASSUME ConnectionAssumption == N \in Nat /\ MaxQueue \in Nat /\ "main" \notin Threads

Sensors == 1..N
UIDs    == {UID[i] : i \in Sensors}
Procs   == Threads \cup {"main"}
None    == 0

Event(i)   == TriggerEvent[i] # "periodic"
EventOf(u) == {i \in Sensors : UID[i] = u /\ Event(i)}

\* What the other Bricklets answer only names their type.
EventUIDs == {UID[i] : i \in {j \in Sensors : Event(j)}}
IOUIDs    == {u \in EventUIDs : DeviceType[u] # "other"}

VARIABLES
    daemon,    \* the Brick Daemon runs and can be reached
    open,      \* the connection has a socket
    current,   \* the callback thread of the connection, "main" before the first
    recon,     \* recon[p]: where thread p is in reconnect()
    expected,  \* Bricklets that have not answered the enumeration yet
    queue,     \* queue[t]: packets waiting for callback thread t
    worker,    \* worker[t]: what callback thread t is doing
    table,     \* table[u]: the sensor whose device gets the packets of u
    callback,  \* callback[i]: state of _tinkerforgeCallback and its device
    replaced,  \* sensors whose device another one has replaced in the table
    handler,   \* sensors whose device has its handler registered
    armed,     \* Bricklets that report interrupts
    failed,    \* history: Bricklets whose last registration failed
    missed     \* history: sensors that did not count an edge they should have

connVars  == <<open, current, expected>>
devVars   == <<table, callback, replaced, handler>>
otherVars == <<armed, failed, missed>>
vars      == <<daemon, connVars, recon, queue, worker, devVars, otherVars>>

Idle    == [step |-> "idle", uid |-> "none", at |-> 0]
Steps   == {"idle", "delete", "poll", "polling", "register", "retry"}
Packets == [kind : {"enumerate", "edge"}, uid : UIDs, pins : Masks \cup {{}},
            high : BOOLEAN]

TypeOK ==
    /\ daemon \in BOOLEAN /\ open \in BOOLEAN
    /\ current \in Procs
    /\ recon \in [Procs -> {"no", "connecting", "sleeping"}]
    /\ expected \subseteq UIDs
    /\ queue \in [Threads -> Seq(Packets)]
    /\ \A t \in Threads : Len(queue[t]) <= MaxQueue
    /\ worker \in [Threads -> [step : Steps, uid : UIDs \cup {"none"}, at : 0..N]]
    /\ table \in [UIDs -> Sensors \cup {None}]
    /\ callback \in [Sensors -> {"null", "object", "live", "stale", "deleted"}]
    /\ replaced \subseteq Sensors /\ handler \subseteq Sensors
    /\ armed \subseteq UIDs /\ failed \subseteq UIDs /\ missed \subseteq Sensors

Init ==
    /\ daemon \in BOOLEAN
    /\ open = FALSE
    /\ current = "main"
    /\ recon = [p \in Procs |-> "no"]
    /\ expected = {}
    /\ queue = [t \in Threads |-> <<>>]
    /\ worker = [t \in Threads |-> Idle]
    /\ table = [u \in UIDs |-> None]
    /\ callback = [i \in Sensors |-> "null"]
    /\ replaced = {} /\ handler = {} /\ armed = {} /\ failed = {} /\ missed = {}

-----------------------------------------------------------------------------
(***************************************************************************)
(* The connection.                                                         *)
(***************************************************************************)

(* disconnect_and_prepare(): a new IPConnection.  The devices of the old   *)
(* one are forgotten, not released.                                        *)
Prepare ==
    /\ table' = [u \in UIDs |-> None]
    /\ callback' = [i \in Sensors |-> IF callback[i] = "live" THEN "stale" ELSE callback[i]]
    /\ expected' = {}
    /\ current' = "main"
    /\ handler' = {} /\ replaced' = {}

(* reconnect() finds the connection closed and starts to connect.  Another *)
(* thread may be doing the same, with an IPConnection that this one        *)
(* deletes under its hands.                                                *)
StartReconnect(p) ==
    /\ recon[p] = "no"
    /\ ~open
    /\ Prepare
    /\ recon' = [recon EXCEPT ![p] = "connecting"]
    /\ UNCHANGED <<daemon, open, queue, worker, otherVars>>

(* Callback threads that are done stand for those that do not exist yet.   *)
Unused == {t \in Threads : worker[t] = Idle /\ queue[t] = <<>>}

(* Mutant: an enumeration is asked for only before anything is registered. *)
ConnectSilently(p) ==
    /\ recon[p] = "connecting"
    /\ daemon /\ ~open
    /\ open' = TRUE
    /\ Unused # {}
    /\ current' = CHOOSE t \in Unused : TRUE
    /\ expected' = IF \E i \in Sensors : callback[i] # "null" THEN {} ELSE EventUIDs
    /\ recon' = [recon EXCEPT ![p] = "sleeping"]
    /\ UNCHANGED <<daemon, queue, worker, devVars, otherVars>>

(* The connection gets a callback thread, the daemon is asked to enumerate *)
(* its Bricklets, and the caller sleeps for ten seconds.                   *)
Connect(p) ==
    /\ recon[p] = "connecting"
    /\ daemon /\ ~open
    /\ open' = TRUE
    /\ Unused # {}
    /\ current' = CHOOSE t \in Unused : TRUE
    /\ expected' = EventUIDs
    /\ recon' = [recon EXCEPT ![p] = "sleeping"]
    /\ UNCHANGED <<daemon, queue, worker, devVars, otherVars>>

(* No daemon, no thread, or the other caller was faster, whose connection  *)
(* this one now disconnects: prepared again, FALSE.  The callback thread   *)
(* of that connection drops its packets.                                   *)
ConnectFails(p) ==
    /\ recon[p] = "connecting"
    /\ ~daemon \/ open \/ Unused = {}
    /\ recon' = [recon EXCEPT ![p] = "no"]
    /\ Prepare
    /\ open' = FALSE
    /\ worker' = IF p = "main" THEN worker ELSE [worker EXCEPT ![p].step = "register"]
    /\ queue' = IF open THEN [queue EXCEPT ![current] = <<>>] ELSE queue
    /\ UNCHANGED <<daemon, otherVars>>

WakeUp(p) ==
    /\ recon[p] = "sleeping"
    /\ recon' = [recon EXCEPT ![p] = "no"]
    /\ worker' = IF p = "main" THEN worker ELSE [worker EXCEPT ![p].step = "polling"]
    /\ UNCHANGED <<daemon, connVars, queue, devVars, otherVars>>

(* The daemon ends or is cut off: its peer notices the closed socket.      *)
DaemonStops ==
    /\ daemon
    /\ daemon' = FALSE
    /\ open' = FALSE
    /\ expected' = {}
    /\ UNCHANGED <<current, recon, queue, worker, devVars, otherVars>>

DaemonStarts ==
    /\ ~daemon
    /\ daemon' = TRUE
    /\ UNCHANGED <<connVars, recon, queue, worker, devVars, otherVars>>

-----------------------------------------------------------------------------
(***************************************************************************)
(* Packets.                                                                *)
(***************************************************************************)

Enumerate(u) == [kind |-> "enumerate", uid |-> u, pins |-> {}, high |-> FALSE]

Receive(packet) ==
    /\ Len(queue[current]) < MaxQueue
    /\ queue' = [queue EXCEPT ![current] = Append(@, packet)]

(* A Bricklet answers the enumeration.                                     *)
EnumerateAnswer(u) ==
    /\ open
    /\ u \in expected
    /\ Receive(Enumerate(u))
    /\ expected' = expected \ {u}
    /\ UNCHANGED <<daemon, open, current, recon, worker, devVars, otherVars>>

(* A Bricklet is plugged in or reset: it forgets its configuration and     *)
(* tells so.                                                               *)
HotPlug(u) ==
    /\ open /\ daemon
    /\ u \notin expected
    /\ Receive(Enumerate(u))
    /\ armed' = armed \ {u}
    /\ UNCHANGED <<daemon, connVars, recon, worker, devVars, failed, missed>>

(* The callbacks of u work: packets find a device of this connection with  *)
(* its handler, and the Bricklet sends them.                               *)
Registered(u) ==
    /\ open
    /\ table[u] # None
    /\ callback[table[u]] = "live"
    /\ table[u] \in handler
    /\ u \in armed

(* Nothing is under way that could register or disturb callbacks of u, and *)
(* no periodic sensor polls the same Bricklet.                             *)
Quiet(u) ==
    /\ open
    /\ expected = {}
    /\ \A p \in Procs : recon[p] # "connecting"
    /\ \A t \in Threads : /\ worker[t] = Idle
                          /\ \A k \in DOMAIN queue[t] : queue[t][k].kind = "edge"
    /\ u \notin failed
    /\ \A i \in Sensors : UID[i] = u => Event(i)

(* Sensors that the documentation says count this change.                  *)
Level(i, high) == TriggerEvent[i] \in (IF high THEN {"high", "high_or_low"} ELSE {"low", "high_or_low"})
ShouldCount(u, pins, high) == {i \in EventOf(u) : Channel[i] \in pins /\ Level(i, high)}

(* Pins change.  The receiving thread of the bindings drops the packet     *)
(* when its UID has no device with a handler.  Changes that nobody is      *)
(* promised to count, since a registration is under way, are left out.     *)
Edge(u, pins, high) ==
    /\ open
    /\ u \in armed
    /\ Quiet(u)
    /\ IF table[u] # None /\ table[u] \in handler
       THEN /\ Receive([kind |-> "edge", uid |-> u, pins |-> pins, high |-> high])
            /\ UNCHANGED missed
       ELSE /\ missed' = missed \cup ShouldCount(u, pins, high)
            /\ UNCHANGED queue
    /\ UNCHANGED <<daemon, connVars, recon, worker, devVars, armed, failed>>

(* Mutant: the handler serves the sensor that registered it and no other.  *)
CountedByOwner(u, pins, high) ==
    {i \in EventOf(u) : i = table[u] /\ pins = {Channel[i]} /\ Level(i, high)}

(* callback_io4(): every sensor of the UID whose bit is the whole mask.    *)
Counted(u, pins, high) == {i \in EventOf(u) : pins = {Channel[i]} /\ Level(i, high)}

(* The IPConnection of the callback thread has been freed.                 *)
Orphan(t) == t # current

(* The callback thread dispatches an edge.  callback_io_v2() is given the  *)
(* callback object for a sensor: it finds nothing there, or ends.          *)
DispatchEdge(t) ==
    /\ worker[t] = Idle
    /\ queue[t] # <<>>
    /\ LET packet  == Head(queue[t])
           u       == packet.uid
           counted == IF DeviceType[u] = "IO4" /\ table[u] # None /\ table[u] \in handler
                      THEN Counted(u, packet.pins, packet.high) ELSE {}
       IN  /\ packet.kind = "edge"
           /\ missed' = IF Orphan(t) THEN missed
                        ELSE missed \cup (ShouldCount(u, packet.pins, packet.high) \ counted)
    /\ queue' = [queue EXCEPT ![t] = Tail(@)]
    /\ UNCHANGED <<daemon, connVars, recon, worker, devVars, armed, failed>>

(* Mutant: the loop goes one past the last sensor.                         *)
TaskBeyond(u, i) ==
    IF i > N THEN Idle ELSE [step |-> "delete", uid |-> u, at |-> i + 1]

(* enumerateTFSensors() looks for the sensors of the Bricklet.             *)
Task(u, i) ==
    LET rest == {j \in EventOf(u) : j > i}
    IN  IF rest = {} THEN Idle
        ELSE [step |-> "delete", uid |-> u, at |-> CHOOSE j \in rest : \A k \in rest : j <= k]

DispatchEnumerate(t) ==
    /\ worker[t] = Idle
    /\ queue[t] # <<>>
    /\ Head(queue[t]).kind = "enumerate"
    /\ \/ worker' = [worker EXCEPT ![t] = Task(Head(queue[t]).uid, 0)]
       \/ Orphan(t) /\ UNCHANGED worker
    /\ queue' = [queue EXCEPT ![t] = Tail(@)]
    /\ UNCHANGED <<daemon, connVars, recon, devVars, otherVars>>

-----------------------------------------------------------------------------
(***************************************************************************)
(* sensorTinkerforge::registerCallback(), on a callback thread.            *)
(***************************************************************************)

NextSensor(t) == worker' = [worker EXCEPT ![t] = Task(@.uid, @.at)]
Goto(t, step) == worker' = [worker EXCEPT ![t].step = step]

(* device_release() of the device of sensor i: the table forgets the UID,  *)
(* whoever is there, unless another device has replaced this one.          *)
Released(i) == IF i \in replaced THEN table ELSE [table EXCEPT ![UID[i]] = None]

(* A device of a connection that is gone releases itself in freed memory.  *)
Release(i) ==
    CASE callback[i] = "live"  -> table' = Released(i)
      [] callback[i] = "stale" -> table' \in {table, [table EXCEPT ![UID[i]] = None]}
      [] OTHER                 -> UNCHANGED table

(* The old callback object is deleted, before it is known whether there    *)
(* will be a new one: there is none without a connection, and none for a   *)
(* Bricklet of a type without callbacks.                                   *)
DeleteCallback(t) ==
    /\ worker[t].step = "delete"
    /\ LET i == worker[t].at
       IN  /\ Release(i)
           /\ IF open /\ DeviceType[UID[i]] # "other"
              THEN /\ callback' = [callback EXCEPT ![i] = "object"]
                   /\ Goto(t, "poll")
              ELSE /\ callback' = [callback EXCEPT ![i] = IF @ = "null" THEN @ ELSE "deleted"]
                   /\ NextSensor(t)
           /\ handler' = handler \ {i}
    /\ UNCHANGED <<daemon, connVars, recon, queue, replaced, otherVars>>

(* poll() creates a device of its own for the UID, which replaces the one  *)
(* in the table, and destroys it.                                          *)
PollDevice(u) ==
    /\ replaced' = replaced \cup ({table[u]} \ {None})
    /\ table' = [table EXCEPT ![u] = None]

(* The poll before the registration; it connects if it must.  What it      *)
(* returns is ignored.  Then the counters are reset (module Logbook).      *)
PollFirst(t) ==
    /\ recon[t] = "no"
    /\ \/ worker[t].step = "poll" /\ open
       \/ worker[t].step = "polling"
    /\ PollDevice(worker[t].uid)
    /\ Goto(t, "register")
    /\ UNCHANGED <<daemon, connVars, recon, queue, callback, handler, otherVars>>

PollReconnects(t) ==
    /\ worker[t].step = "poll"
    /\ StartReconnect(t)

(* A new device for sensor i replaces the one in the table.                *)
Create(i) ==
    /\ table' = [table EXCEPT ![UID[i]] = i]
    /\ replaced' = ((replaced \ {i}) \cup ({table[UID[i]]} \ {None, i}))
    /\ callback' = [callback EXCEPT ![i] = "live"]

(* A first attempt that times out is repeated after five seconds; another  *)
(* error, and the second attempt's, is only logged.                        *)
FailedAttempt(t) ==
    \/ worker[t].step = "register" /\ Goto(t, "retry") /\ UNCHANGED failed
    \/ NextSensor(t) /\ failed' = failed \cup {worker[t].uid}

(* registerCallback() of the callback object, in one step.  A request may  *)
(* get no answer; a handler that is there by then promises nothing.        *)
RegisterCallback(t) ==
    /\ open
    /\ worker[t].step \in {"register", "retry"}
    /\ LET i == worker[t].at
           u == worker[t].uid
       IN  /\ callback[i] # "deleted"
           /\ Create(i)
           /\ \/ /\ handler' = handler \cup {i}
                 /\ armed' = armed \cup {u}
                 /\ failed' = failed \ {u}
                 /\ NextSensor(t)
              \/ /\ handler' = handler \ {i}
                 /\ FailedAttempt(t)
                 /\ UNCHANGED armed
    /\ UNCHANGED <<daemon, connVars, recon, queue, missed>>

(* Without a connection registerCallback() of the object does nothing and  *)
(* says so to nobody.  A deleted object, if it does not end the program,   *)
(* does nothing either.                                                    *)
RegisterNothing(t) ==
    /\ worker[t].step \in {"register", "retry"}
    /\ ~open \/ callback[worker[t].at] = "deleted"
    /\ NextSensor(t)
    /\ UNCHANGED <<daemon, connVars, recon, queue, devVars, otherVars>>

-----------------------------------------------------------------------------
(***************************************************************************)
(* The main thread: measure() of every sensor, pass after pass.            *)
(***************************************************************************)

MeasureReconnects ==
    /\ StartReconnect("main")

(* A periodic sensor is due and polls, whether its Bricklet answers or not.*)
MeasurePolls(i) ==
    /\ open
    /\ recon["main"] = "no"
    /\ ~Event(i)
    /\ PollDevice(UID[i])
    /\ UNCHANGED <<daemon, connVars, recon, queue, worker, callback, handler, otherVars>>

ReconnectStep(p) == Connect(p) \/ ConnectFails(p) \/ WakeUp(p)

MainReconnects == MeasureReconnects \/ ReconnectStep("main")

WorkerStep(t) ==
    \/ DispatchEdge(t) \/ DispatchEnumerate(t)
    \/ DeleteCallback(t) \/ PollFirst(t) \/ PollReconnects(t)
    \/ RegisterCallback(t) \/ RegisterNothing(t)
    \/ ReconnectStep(t)

Next ==
    \/ MainReconnects
    \/ \E i \in Sensors : MeasurePolls(i)
    \/ \E t \in Threads : WorkerStep(t)
    \/ DaemonStops \/ DaemonStarts
    \/ \E u \in EventUIDs : \/ EnumerateAnswer(u) \/ HotPlug(u)
                            \/ \E pins \in Masks, high \in BOOLEAN : Edge(u, pins, high)

(* The main loop and the callback threads go on, Bricklets answer.         *)
Fairness ==
    /\ WF_vars(MainReconnects)
    /\ \A t \in Threads : WF_vars(WorkerStep(t))
    /\ \A u \in EventUIDs : WF_vars(EnumerateAnswer(u))

Spec == Init /\ [][Next]_vars /\ Fairness
-----------------------------------------------------------------------------
(***************************************************************************)
(* Properties.                                                             *)
(***************************************************************************)

(* When an enumeration has been answered and worked off, an IO Bricklet    *)
(* with event sensors has a device of this connection in the table, with   *)
(* its handler, and reports interrupts, unless its last registration has   *)
(* failed: several sensors of one Bricklet, the releases of older devices  *)
(* and a second callback thread do not take the callback away.             *)
RegistrationStands ==
    \A u \in IOUIDs : Quiet(u) => Registered(u)

(* Events are always counted: a change of pins of a Bricklet whose         *)
(* callbacks stand is counted by every sensor of these pins and levels.    *)
EdgesAreCounted == missed = {}

(* Once the Brick Daemon stays reachable and threads no longer meet in     *)
(* reconnect(), callbacks get registered again and again, after whatever   *)
(* reconnections and resets, unless the registration has failed.           *)
Collision == \E p, q \in Procs : p # q /\ recon[p] = "connecting" /\ recon[q] = "connecting"
Registers ==
    \A u \in IOUIDs :
        (<>[](daemon /\ ~Collision)) => []<>(Registered(u) \/ u \in failed)
=============================================================================
