-------------------- MODULE TinkerforgeConnection_proofs --------------------
(***************************************************************************)
(* Theorems of TinkerforgeConnection, for any number of sensors, Bricklets *)
(* and callback threads.                                                   *)
(***************************************************************************)
EXTENDS TinkerforgeConnection, SequenceTheorems, WellFoundedInduction, TLAPS

(***************************************************************************)
(* The inductive invariant.                                                *)
(***************************************************************************)
Busy(t) == worker[t].step # "idle"

(* A busy thread works on an event sensor of its Bricklet, beyond "delete" *)
(* only for one with callbacks, and reconnects only while it polls.        *)
WorkersOK ==
    \A t \in Threads :
        /\ Busy(t) \/ worker[t] = Idle
        /\ Busy(t) => worker[t].at \in EventOf(worker[t].uid)
        /\ worker[t].step \notin {"idle", "delete"} => DeviceType[worker[t].uid] # "other"
        /\ recon[t] # "no" => worker[t].step = "poll"

(* The table finds devices of the right Bricklet, and only Bricklets with  *)
(* callbacks report interrupts.                                            *)
TableOK ==
    /\ \A u \in UIDs : table[u] # None => UID[table[u]] = u
    /\ expected \subseteq EventUIDs
    /\ \A t \in Threads : \A k \in DOMAIN queue[t] : queue[t][k].uid \in EventUIDs
    /\ armed \subseteq IOUIDs
    /\ open => current \in Threads

(* The present connection has still to work off an enumeration of u.       *)
Asked(u) ==
    \E k \in DOMAIN queue[current] :
        queue[current][k].kind = "enumerate" /\ queue[current][k].uid = u
Pending(u) == u \in expected \/ Asked(u)

(* A callback object that was deleted without a connection will be         *)
(* replaced: the thread of the present connection has not passed it yet.   *)
Reaches(t, i) ==
    /\ Busy(t)
    /\ worker[t].uid = UID[i]
    /\ worker[t].at < i \/ (worker[t].at = i /\ worker[t].step = "delete")
DeletedComesBack ==
    open => \A i \in Sensors :
        Event(i) /\ UID[i] \in IOUIDs /\ callback[i] = "deleted"
            => Pending(UID[i]) \/ Reaches(current, i)

(* Whenever there is a connection, the callbacks of a Bricklet without     *)
(* polled sensors are registered, or somebody is about to do it, or it has *)
(* failed.                                                                 *)
OnlyEvents(u) == \A i \in Sensors : UID[i] = u => Event(i)
InWork(u) == \E t \in Threads : Busy(t) /\ worker[t].uid = u
RegisteredOrDue ==
    open => \A u \in IOUIDs :
        OnlyEvents(u) => Registered(u) \/ u \in failed \/ Pending(u) \/ InWork(u)

(* An edge that waits was received when nothing was under way, and nothing *)
(* gets under way before it is dispatched.                                 *)
EdgesComeFirst ==
    current \in Threads =>
        \A k \in DOMAIN queue[current] : queue[current][k].kind = "edge" =>
            /\ \A t \in Threads :
                  /\ ~Busy(t)
                  /\ t # current => \A j \in DOMAIN queue[t] : queue[t][j].kind = "edge"
            /\ \A j \in 1..k : queue[current][j].kind = "edge"
            /\ queue[current][k].uid \in IOUIDs
            /\ OnlyEvents(queue[current][k].uid)
            /\ table[queue[current][k].uid] # None
            /\ table[queue[current][k].uid] \in handler
            /\ queue[current][k].pins \in Masks

IInv == TypeOK /\ WorkersOK /\ TableOK /\ DeletedComesBack /\ RegisteredOrDue /\ EdgesComeFirst

-----------------------------------------------------------------------------
(***************************************************************************)
(* Queues, and the choice of the next sensor.                              *)
(***************************************************************************)

LEMMA AppendElements ==
    ASSUME NEW S, NEW s \in Seq(S), NEW e \in S
    PROVE  /\ Append(s, e) \in Seq(S)
           /\ Len(Append(s, e)) = Len(s) + 1
           /\ \A k \in DOMAIN s : k \in DOMAIN Append(s, e) /\ Append(s, e)[k] = s[k]
           /\ \A k \in DOMAIN Append(s, e) :
                 (k \in DOMAIN s /\ Append(s, e)[k] = s[k])
                 \/ (k = Len(s) + 1 /\ Append(s, e)[k] = e)
           /\ Len(s) + 1 \in DOMAIN Append(s, e) /\ Append(s, e)[Len(s) + 1] = e
OBVIOUS

LEMMA TailElements ==
    ASSUME NEW S, NEW s \in Seq(S), s # << >>
    PROVE  /\ Tail(s) \in Seq(S)
           /\ Len(Tail(s)) = Len(s) - 1
           /\ 1 \in DOMAIN s /\ Head(s) = s[1] /\ Head(s) \in S
           /\ \A k \in DOMAIN Tail(s) : k + 1 \in DOMAIN s /\ Tail(s)[k] = s[k + 1]
           /\ \A k \in DOMAIN s :
                 k = 1 \/ (k - 1 \in DOMAIN Tail(s) /\ Tail(s)[k - 1] = s[k])
OBVIOUS

(* The worker goes on with the least sensor beyond i, if there is one.     *)
LEMMA TaskIsNext ==
    ASSUME NEW u, NEW i \in 0..N
    PROVE  \/ /\ Task(u, i) = Idle
              /\ \A k \in EventOf(u) : k <= i
           \/ \E j \in EventOf(u) :
                 /\ Task(u, i) = [step |-> "delete", uid |-> u, at |-> j]
                 /\ j > i
                 /\ \A k \in EventOf(u) : k > i => j <= k
<1> USE ConnectionAssumption
<1> DEFINE rest == {j \in EventOf(u) : j > i}
<1>1. rest \subseteq Nat
  BY DEF EventOf, Sensors
<1>2. CASE rest = {}
  <2>1. \A k \in EventOf(u) : k \in Nat /\ ~(k > i)
    BY <1>2 DEF EventOf, Sensors
  <2> QED
    BY <1>2, <2>1 DEF Task
<1>3. CASE rest # {}
  <2>1. PICK m \in rest : \A y \in rest : ~(<<y, m>> \in OpToRel(<, Nat))
    BY <1>1, <1>3, NatLessThanWellFounded, WFMin
  <2>2. \A y \in rest : m <= y
    <3> SUFFICES ASSUME NEW y \in rest PROVE m <= y
      OBVIOUS
    <3>1. m \in Nat /\ y \in Nat
      BY <1>1
    <3>2. ~(y < m)
      BY <2>1, <3>1 DEF OpToRel
    <3> QED
      BY <3>1, <3>2
  <2> DEFINE c == CHOOSE j \in rest : \A k \in rest : j <= k
  <2>3. c \in rest /\ \A k \in rest : c <= k
    BY <2>2
  <2>4. Task(u, i) = [step |-> "delete", uid |-> u, at |-> c]
    BY <1>3 DEF Task
  <2> QED
    BY <2>3, <2>4
<1> QED
  BY <1>2, <1>3
-----------------------------------------------------------------------------
(***************************************************************************)
(* The connection comes and goes.                                          *)
(***************************************************************************)

LEMMA InitInvariant == Init => IInv
<1> SUFFICES ASSUME Init PROVE IInv
  OBVIOUS
<1> USE DEF Init
<1>q. queue \in [Threads -> Seq(Packets)] /\ \A t \in Threads : Len(queue[t]) <= MaxQueue
  <2>1. << >> \in Seq(Packets) /\ Len(<< >>) = 0
    OBVIOUS
  <2> QED
    BY <2>1, ConnectionAssumption
<1>w. worker \in [Threads -> [step : Steps, uid : UIDs \cup {"none"}, at : 0..N]]
  BY ConnectionAssumption DEF Idle, Steps
<1>1. TypeOK
  BY <1>q, <1>w DEF TypeOK, Procs, None
<1>2. WorkersOK
  BY DEF WorkersOK, Busy, Idle, Procs
<1>3. TableOK
  BY DEF TableOK, None
<1>4. DeletedComesBack /\ RegisteredOrDue /\ EdgesComeFirst
  BY ConnectionAssumption DEF DeletedComesBack, RegisteredOrDue, EdgesComeFirst
<1> QED
  BY <1>1, <1>2, <1>3, <1>4 DEF IInv

LEMMA PrepareStep ==
    ASSUME IInv, Prepare, open' = FALSE, WorkersOK',
           UNCHANGED <<daemon, armed, failed, missed>>,
           recon' \in [Procs -> {"no", "connecting", "sleeping"}],
           worker' \in [Threads -> [step : Steps, uid : UIDs \cup {"none"}, at : 0..N]],
           \/ queue' = queue
           \/ current \in Threads /\ queue' = [queue EXCEPT ![current] = << >>]
    PROVE  IInv'
<1> USE ConnectionAssumption DEF IInv
<1>1. current' = "main" /\ expected' = {} /\ replaced' = {} /\ handler' = {}
  BY DEF Prepare
<1>2. table' \in [UIDs -> Sensors \cup {None}] /\ \A u \in UIDs : table'[u] = None
  BY DEF Prepare
<1>3. callback' \in [Sensors -> {"null", "object", "live", "stale", "deleted"}]
  BY DEF Prepare, TypeOK
<1>4. /\ queue' \in [Threads -> Seq(Packets)]
      /\ \A t \in Threads : Len(queue'[t]) <= MaxQueue
      /\ \A t \in Threads : \A k \in DOMAIN queue'[t] : queue'[t][k].uid \in EventUIDs
  <2>1. CASE queue' = queue
    BY <2>1 DEF TypeOK, TableOK
  <2>2. CASE current \in Threads /\ queue' = [queue EXCEPT ![current] = << >>]
    BY <2>2 DEF TypeOK, TableOK
  <2> QED
    BY <2>1, <2>2
<1>5. TypeOK'
  BY <1>1, <1>2, <1>3, <1>4 DEF TypeOK, Procs
<1>6. TableOK'
  BY <1>1, <1>2, <1>4 DEF TableOK
<1>7. DeletedComesBack' /\ RegisteredOrDue' /\ EdgesComeFirst'
  BY <1>1 DEF DeletedComesBack, RegisteredOrDue, EdgesComeFirst
<1> QED
  BY <1>5, <1>6, <1>7

LEMMA StartReconnectStep ==
    ASSUME IInv, NEW p \in Procs, StartReconnect(p), p = "main" \/ worker[p].step = "poll"
    PROVE  IInv'
<1> USE ConnectionAssumption DEF IInv
<1>1. /\ Prepare /\ open' = FALSE
      /\ UNCHANGED <<daemon, armed, failed, missed, worker, queue>>
      /\ recon' = [recon EXCEPT ![p] = "connecting"]
  BY DEF StartReconnect, otherVars, TypeOK
<1>2. recon' \in [Procs -> {"no", "connecting", "sleeping"}]
  BY <1>1 DEF TypeOK
<1>3. WorkersOK'
  BY <1>1 DEF WorkersOK, Busy, TypeOK, Procs
<1>4. worker' \in [Threads -> [step : Steps, uid : UIDs \cup {"none"}, at : 0..N]]
  BY <1>1 DEF TypeOK
<1> QED
  BY <1>1, <1>2, <1>3, <1>4, PrepareStep

LEMMA ConnectFailsStep ==
    ASSUME IInv, NEW p \in Procs, ConnectFails(p)
    PROVE  IInv'
<1> USE ConnectionAssumption DEF IInv
<1>1. /\ Prepare /\ open' = FALSE
      /\ UNCHANGED <<daemon, armed, failed, missed>>
      /\ recon[p] = "connecting"
      /\ recon' = [recon EXCEPT ![p] = "no"]
      /\ worker' = IF p = "main" THEN worker ELSE [worker EXCEPT ![p].step = "register"]
      /\ queue' = IF open THEN [queue EXCEPT ![current] = <<>>] ELSE queue
  BY DEF ConnectFails, otherVars
<1>2. recon' \in [Procs -> {"no", "connecting", "sleeping"}]
  BY <1>1 DEF TypeOK
<1>3. worker' \in [Threads -> [step : Steps, uid : UIDs \cup {"none"}, at : 0..N]]
  BY <1>1 DEF TypeOK, Procs, Steps
<1>4. WorkersOK'
  <2> SUFFICES ASSUME NEW t \in Threads
      PROVE /\ Busy(t)' \/ worker'[t] = Idle
            /\ Busy(t)' => worker'[t].at \in EventOf(worker'[t].uid)
            /\ worker'[t].step \notin {"idle", "delete"} => DeviceType[worker'[t].uid] # "other"
            /\ recon'[t] # "no" => worker'[t].step = "poll"
    BY DEF WorkersOK
  <2>1. CASE t = p
    <3>1. worker[t].step = "poll"
      BY <1>1, <2>1 DEF WorkersOK
    <3>2. /\ worker'[t].step = "register" /\ worker'[t].uid = worker[t].uid
          /\ worker'[t].at = worker[t].at /\ recon'[t] = "no"
      BY <1>1, <2>1 DEF TypeOK, Procs
    <3> QED
      BY <3>1, <3>2 DEF WorkersOK, Busy
  <2>2. CASE t # p
    <3>1. worker'[t] = worker[t] /\ recon'[t] = recon[t]
      BY <1>1, <2>2 DEF TypeOK, Procs
    <3> QED
      BY <3>1 DEF WorkersOK, Busy
  <2> QED
    BY <2>1, <2>2
<1>5. \/ queue' = queue
      \/ current \in Threads /\ queue' = [queue EXCEPT ![current] = << >>]
  BY <1>1 DEF TableOK
<1> QED
  BY <1>1, <1>2, <1>3, <1>4, <1>5, PrepareStep

LEMMA ConnectStep ==
    ASSUME IInv, NEW p \in Procs, Connect(p)
    PROVE  IInv'
<1> USE ConnectionAssumption DEF IInv
<1>1. /\ open' = TRUE /\ expected' = EventUIDs
      /\ recon[p] = "connecting"
      /\ recon' = [recon EXCEPT ![p] = "sleeping"]
      /\ UNCHANGED <<daemon, queue, worker, table, callback, replaced, handler,
                     armed, failed, missed>>
  BY DEF Connect, devVars, otherVars
<1>2. current' \in Threads /\ worker[current'] = Idle /\ queue[current'] = << >>
  BY DEF Connect, Unused
<1>3. EventUIDs \subseteq UIDs
  BY DEF EventUIDs, UIDs
<1>4. TypeOK'
  BY <1>1, <1>2, <1>3 DEF TypeOK, Procs
<1>5. WorkersOK'
  BY <1>1 DEF WorkersOK, Busy, TypeOK, Procs
<1>6. TableOK'
  BY <1>1, <1>2 DEF TableOK
<1>7. DeletedComesBack' /\ RegisteredOrDue'
  BY <1>1 DEF DeletedComesBack, RegisteredOrDue, Pending, IOUIDs
<1>8. EdgesComeFirst'
  BY <1>1, <1>2 DEF EdgesComeFirst
<1> QED
  BY <1>4, <1>5, <1>6, <1>7, <1>8

LEMMA WakeUpStep ==
    ASSUME IInv, NEW p \in Procs, WakeUp(p)
    PROVE  IInv'
<1> USE ConnectionAssumption DEF IInv
<1>1. /\ recon[p] = "sleeping"
      /\ recon' = [recon EXCEPT ![p] = "no"]
      /\ worker' = IF p = "main" THEN worker ELSE [worker EXCEPT ![p].step = "polling"]
      /\ UNCHANGED <<daemon, open, current, expected, queue, table, callback, replaced,
                     handler, armed, failed, missed>>
  BY DEF WakeUp, connVars, devVars, otherVars
<1>2. TypeOK'
  BY <1>1 DEF TypeOK, Procs, Steps
<1>3. ASSUME NEW t \in Threads
      PROVE  \/ worker'[t] = worker[t] /\ recon'[t] = "no" /\ p = t
             \/ worker'[t] = worker[t] /\ recon'[t] = recon[t]
             \/ /\ worker[t].step = "poll" /\ worker'[t].step = "polling"
                /\ worker'[t].uid = worker[t].uid /\ worker'[t].at = worker[t].at
                /\ recon'[t] = "no"
  <2>1. CASE t = p
    BY <1>1, <2>1 DEF WorkersOK, TypeOK, Procs
  <2>2. CASE t # p
    BY <1>1, <2>2 DEF WorkersOK, TypeOK, Procs
  <2> QED
    BY <2>1, <2>2
<1>4. WorkersOK'
  BY <1>3 DEF WorkersOK, Busy
<1>5. \A t \in Threads : /\ Busy(t)' <=> Busy(t)
                         /\ worker'[t].uid = worker[t].uid /\ worker'[t].at = worker[t].at
                         /\ worker'[t].step = "delete" <=> worker[t].step = "delete"
  BY <1>3 DEF Busy
<1>6. TableOK'
  BY <1>1 DEF TableOK
<1>7. DeletedComesBack'
  BY <1>1, <1>5 DEF DeletedComesBack, Pending, Asked, Reaches, TableOK
<1>8. RegisteredOrDue'
  BY <1>1, <1>5 DEF RegisteredOrDue, Pending, Asked, InWork, Registered
<1>9. EdgesComeFirst'
  BY <1>1, <1>5 DEF EdgesComeFirst
<1> QED
  BY <1>2, <1>4, <1>6, <1>7, <1>8, <1>9

LEMMA DaemonStep ==
    ASSUME IInv, DaemonStops \/ DaemonStarts
    PROVE  IInv'
<1> USE DEF IInv
<1>1. /\ daemon' \in BOOLEAN
      /\ (open' = FALSE /\ expected' = {}) \/ (open' = open /\ expected' = expected)
      /\ UNCHANGED <<current, recon, queue, worker, table, callback, replaced, handler,
                     armed, failed, missed>>
  BY DEF DaemonStops, DaemonStarts, connVars, devVars, otherVars
<1>2. TypeOK'
  BY <1>1 DEF TypeOK
<1>3. WorkersOK' /\ TableOK'
  BY <1>1 DEF WorkersOK, TableOK, Busy
<1>4. DeletedComesBack' /\ RegisteredOrDue'
  BY <1>1 DEF DeletedComesBack, RegisteredOrDue, Pending, Asked, Reaches, InWork, Registered, Busy
<1>5. EdgesComeFirst'
  BY <1>1 DEF EdgesComeFirst, Busy
<1> QED
  BY <1>2, <1>3, <1>4, <1>5

-----------------------------------------------------------------------------
(***************************************************************************)
(* Packets.                                                                *)
(***************************************************************************)

LEMMA QuietIsRegistered == IInv => RegistrationStands
<1> SUFFICES ASSUME IInv, NEW u \in IOUIDs, Quiet(u) PROVE Registered(u)
  BY DEF RegistrationStands
<1>1. current \in Threads /\ open /\ u \notin failed /\ u \notin expected /\ OnlyEvents(u)
  BY DEF IInv, TableOK, Quiet, OnlyEvents
<1>2. ~Asked(u)
  BY <1>1 DEF Quiet, Asked
<1>3. ~InWork(u)
  BY DEF Quiet, InWork, Busy, Idle
<1> QED
  BY <1>1, <1>2, <1>3 DEF IInv, RegisteredOrDue, Pending

LEMMA Received ==
    ASSUME TypeOK, current \in Threads, NEW packet \in Packets, Receive(packet)
    PROVE  /\ queue' \in [Threads -> Seq(Packets)]
           /\ \A t \in Threads : Len(queue'[t]) <= MaxQueue
           /\ \A t \in Threads : t # current => queue'[t] = queue[t]
           /\ \A k \in DOMAIN queue[current] :
                 k \in DOMAIN queue'[current] /\ queue'[current][k] = queue[current][k]
           /\ \A k \in DOMAIN queue'[current] :
                 \/ k \in DOMAIN queue[current] /\ queue'[current][k] = queue[current][k]
                 \/ k = Len(queue[current]) + 1 /\ queue'[current][k] = packet
           /\ \E k \in DOMAIN queue'[current] : queue'[current][k] = packet
<1> USE ConnectionAssumption
<1> DEFINE old == queue[current]
<1>1. /\ old \in Seq(Packets) /\ Len(old) < MaxQueue
      /\ queue' = [queue EXCEPT ![current] = Append(old, packet)]
  BY DEF Receive, TypeOK
<1>2. queue'[current] = Append(old, packet) /\ \A t \in Threads : t # current => queue'[t] = queue[t]
  BY <1>1 DEF TypeOK
<1>3. Append(old, packet) \in Seq(Packets) /\ Len(Append(old, packet)) = Len(old) + 1
  BY <1>1, AppendElements
<1>4. queue' \in [Threads -> Seq(Packets)]
  BY <1>1, <1>3 DEF TypeOK
<1>5. \A t \in Threads : Len(queue'[t]) <= MaxQueue
  <2>1. Len(old) \in Nat
    BY <1>1
  <2> QED
    BY <1>1, <1>2, <1>3, <2>1 DEF TypeOK
<1>6. /\ \A k \in DOMAIN old : k \in DOMAIN Append(old, packet) /\ Append(old, packet)[k] = old[k]
      /\ \A k \in DOMAIN Append(old, packet) :
            (k \in DOMAIN old /\ Append(old, packet)[k] = old[k])
            \/ (k = Len(old) + 1 /\ Append(old, packet)[k] = packet)
      /\ Len(old) + 1 \in DOMAIN Append(old, packet) /\ Append(old, packet)[Len(old) + 1] = packet
  BY <1>1, AppendElements
<1> QED
  BY <1>2, <1>4, <1>5, <1>6

(* A packet of an enumeration arrives.                                     *)
LEMMA EnumerationArrives ==
    ASSUME IInv, NEW u \in EventUIDs, open, Receive(Enumerate(u)),
           expected' \subseteq expected, expected \ {u} \subseteq expected',
           armed' \subseteq armed, armed \ {u} \subseteq armed',
           armed' = armed \/ u \notin expected,
           UNCHANGED <<daemon, open, current, recon, worker, table, callback, replaced,
                       handler, failed, missed>>
    PROVE  IInv'
<1> USE DEF IInv
<1>1. current \in Threads /\ EventUIDs \subseteq UIDs
  BY DEF TableOK, EventUIDs, UIDs
<1>2. Enumerate(u) \in Packets /\ Enumerate(u).kind = "enumerate" /\ Enumerate(u).uid = u
  BY <1>1 DEF Enumerate, Packets
<1>3. /\ queue' \in [Threads -> Seq(Packets)]
      /\ \A t \in Threads : Len(queue'[t]) <= MaxQueue
      /\ \A t \in Threads : t # current => queue'[t] = queue[t]
      /\ \A k \in DOMAIN queue[current] :
            k \in DOMAIN queue'[current] /\ queue'[current][k] = queue[current][k]
      /\ \A k \in DOMAIN queue'[current] :
            \/ k \in DOMAIN queue[current] /\ queue'[current][k] = queue[current][k]
            \/ k = Len(queue[current]) + 1 /\ queue'[current][k] = Enumerate(u)
      /\ \E k \in DOMAIN queue'[current] : queue'[current][k] = Enumerate(u)
  BY <1>1, <1>2, Received
<1> HIDE DEF Enumerate
<1>4. TypeOK'
  BY <1>3 DEF TypeOK
<1>5. WorkersOK'
  BY DEF WorkersOK, Busy
<1>6. TableOK'
  BY <1>2, <1>3 DEF TableOK
<1>7. \A v : Pending(v) => Pending(v)'
  BY <1>2, <1>3 DEF Pending, Asked
<1>8. Pending(u)'
  BY <1>2, <1>3 DEF Pending, Asked
<1>9. DeletedComesBack'
  BY <1>7 DEF DeletedComesBack, Reaches, Busy
<1>10. RegisteredOrDue'
  <2> SUFFICES ASSUME NEW v \in IOUIDs, OnlyEvents(v), v # u
      PROVE  Registered(v)' \/ v \in failed' \/ Pending(v)' \/ InWork(v)'
    BY <1>8 DEF RegisteredOrDue
  <2>1. Registered(v) => Registered(v)'
    BY DEF Registered
  <2>2. InWork(v) => InWork(v)'
    BY DEF InWork, Busy
  <2> QED
    BY <2>1, <2>2, <1>7 DEF RegisteredOrDue
<1>11. EdgesComeFirst'
  <2> SUFFICES ASSUME NEW k \in DOMAIN queue'[current], queue'[current][k].kind = "edge"
      PROVE  /\ \A t \in Threads :
                  /\ ~Busy(t)'
                  /\ t # current => \A j \in DOMAIN queue'[t] : queue'[t][j].kind = "edge"
             /\ \A j \in 1..k : queue'[current][j].kind = "edge"
             /\ queue'[current][k].uid \in IOUIDs
             /\ OnlyEvents(queue'[current][k].uid)
             /\ table[queue'[current][k].uid] # None
             /\ table[queue'[current][k].uid] \in handler
             /\ queue'[current][k].pins \in Masks
    BY DEF EdgesComeFirst, OnlyEvents
  <2>1. k \in DOMAIN queue[current] /\ queue'[current][k] = queue[current][k]
    BY <1>2, <1>3
  <2>2. \A j \in 1..k : j \in DOMAIN queue[current] /\ queue'[current][j] = queue[current][j]
    <3>1. DOMAIN queue[current] = 1..Len(queue[current]) /\ Len(queue[current]) \in Nat
      BY <1>1 DEF TypeOK
    <3> QED
      BY <1>3, <2>1, <3>1
  <2> QED
    BY <1>1, <1>3, <2>1, <2>2 DEF EdgesComeFirst, Busy
<1> QED
  BY <1>4, <1>5, <1>6, <1>9, <1>10, <1>11

LEMMA EnumerationStep ==
    ASSUME IInv, NEW u \in EventUIDs, EnumerateAnswer(u) \/ HotPlug(u)
    PROVE  IInv'
<1>1. CASE EnumerateAnswer(u)
  BY <1>1, EnumerationArrives DEF EnumerateAnswer, devVars, otherVars
<1>2. CASE HotPlug(u)
  BY <1>2, EnumerationArrives DEF HotPlug, connVars, devVars
<1> QED
  BY <1>1, <1>2

(* An edge of a Bricklet that reports interrupts finds its handler.        *)
LEMMA EdgeIsReceived ==
    ASSUME IInv, NEW u \in EventUIDs, NEW pins \in Masks, NEW high \in BOOLEAN,
           Edge(u, pins, high)
    PROVE  /\ current \in Threads /\ u \in IOUIDs /\ OnlyEvents(u)
           /\ table[u] # None /\ table[u] \in handler
           /\ Receive([kind |-> "edge", uid |-> u, pins |-> pins, high |-> high])
           /\ UNCHANGED missed
<1>1. open /\ u \in armed /\ Quiet(u)
  BY DEF Edge
<1>2. current \in Threads /\ u \in IOUIDs
  BY <1>1 DEF IInv, TableOK
<1>3. Registered(u)
  BY <1>1, <1>2, QuietIsRegistered DEF RegistrationStands
<1>4. OnlyEvents(u)
  BY <1>1 DEF Quiet, OnlyEvents
<1> QED
  BY <1>2, <1>3, <1>4 DEF Registered, Edge

LEMMA EdgeStep ==
    ASSUME IInv, NEW u \in EventUIDs, NEW pins \in Masks, NEW high \in BOOLEAN,
           Edge(u, pins, high)
    PROVE  IInv'
<1> USE DEF IInv
<1> DEFINE packet == [kind |-> "edge", uid |-> u, pins |-> pins, high |-> high]
<1>1. /\ current \in Threads /\ u \in IOUIDs /\ OnlyEvents(u)
      /\ table[u] # None /\ table[u] \in handler
      /\ Receive(packet) /\ UNCHANGED missed
  BY EdgeIsReceived
<1>2. /\ UNCHANGED <<daemon, open, current, expected, recon, worker, table, callback,
                     replaced, handler, armed, failed>>
      /\ Quiet(u)
  BY DEF Edge, connVars, devVars
<1>3. packet \in Packets /\ packet.kind = "edge" /\ packet.uid = u /\ packet.pins = pins
  BY DEF Packets, EventUIDs, UIDs
<1> HIDE DEF packet
<1>4. /\ queue' \in [Threads -> Seq(Packets)]
      /\ \A t \in Threads : Len(queue'[t]) <= MaxQueue
      /\ \A t \in Threads : t # current => queue'[t] = queue[t]
      /\ \A k \in DOMAIN queue[current] :
            k \in DOMAIN queue'[current] /\ queue'[current][k] = queue[current][k]
      /\ \A k \in DOMAIN queue'[current] :
            \/ k \in DOMAIN queue[current] /\ queue'[current][k] = queue[current][k]
            \/ k = Len(queue[current]) + 1 /\ queue'[current][k] = packet
  BY <1>1, <1>3, Received
<1>5. TypeOK'
  BY <1>1, <1>2, <1>4 DEF TypeOK
<1>6. WorkersOK'
  BY <1>2 DEF WorkersOK, Busy
<1>7. TableOK'
  BY <1>2, <1>3, <1>4 DEF TableOK
<1>8. \A v : Pending(v) => Pending(v)'
  BY <1>2, <1>4 DEF Pending, Asked
<1>9. DeletedComesBack'
  BY <1>2, <1>8 DEF DeletedComesBack, Reaches, Busy
<1>10. RegisteredOrDue'
  BY <1>2, <1>8 DEF RegisteredOrDue, InWork, Busy, Registered
<1>11. /\ \A t \in Threads : ~Busy(t)
       /\ \A t \in Threads : \A k \in DOMAIN queue[t] : queue[t][k].kind = "edge"
  BY <1>2 DEF Quiet, Busy, Idle
<1>12. \A t \in Threads : \A k \in DOMAIN queue'[t] : queue'[t][k].kind = "edge"
  BY <1>1, <1>3, <1>4, <1>11
<1>13. EdgesComeFirst'
  <2> SUFFICES ASSUME NEW k \in DOMAIN queue'[current], queue'[current][k].kind = "edge"
      PROVE  /\ \A t \in Threads :
                  /\ ~Busy(t)'
                  /\ t # current => \A j \in DOMAIN queue'[t] : queue'[t][j].kind = "edge"
             /\ \A j \in 1..k : queue'[current][j].kind = "edge"
             /\ queue'[current][k].uid \in IOUIDs
             /\ OnlyEvents(queue'[current][k].uid)
             /\ table[queue'[current][k].uid] # None
             /\ table[queue'[current][k].uid] \in handler
             /\ queue'[current][k].pins \in Masks
    BY <1>2 DEF EdgesComeFirst, OnlyEvents
  <2>1. \A t \in Threads : ~Busy(t)'
    BY <1>2, <1>11 DEF Busy
  <2>2. \A j \in 1..k : queue'[current][j].kind = "edge"
    <3>1. DOMAIN queue'[current] = 1..Len(queue'[current]) /\ Len(queue'[current]) \in Nat
      BY <1>1, <1>4
    <3> QED
      BY <1>1, <1>12, <3>1
  <2>3. CASE k \in DOMAIN queue[current] /\ queue'[current][k] = queue[current][k]
    BY <1>1, <1>12, <2>1, <2>2, <2>3 DEF EdgesComeFirst
  <2>4. CASE queue'[current][k] = packet
    BY <1>1, <1>3, <1>12, <2>1, <2>2, <2>4
  <2> QED
    BY <1>4, <2>3, <2>4
<1> QED
  BY <1>5, <1>6, <1>7, <1>9, <1>10, <1>13

(* A packet leaves the queue of t; what the thread makes of it follows.    *)
LEMMA Dispatched ==
    ASSUME TypeOK, TableOK, NEW t \in Threads, queue[t] # << >>,
           queue' = [queue EXCEPT ![t] = Tail(@)]
    PROVE  /\ queue' \in [Threads -> Seq(Packets)]
           /\ \A s \in Threads : Len(queue'[s]) <= MaxQueue
           /\ \A s \in Threads : s # t => queue'[s] = queue[s]
           /\ 1 \in DOMAIN queue[t] /\ Head(queue[t]) = queue[t][1] /\ Head(queue[t]) \in Packets
           /\ Head(queue[t]).uid \in EventUIDs
           /\ \A k \in DOMAIN queue'[t] : k + 1 \in DOMAIN queue[t] /\ queue'[t][k] = queue[t][k + 1]
           /\ \A k \in DOMAIN queue[t] :
                 k = 1 \/ (k - 1 \in DOMAIN queue'[t] /\ queue'[t][k - 1] = queue[t][k])
           /\ \A s \in Threads : \A k \in DOMAIN queue'[s] :
                 \E j \in DOMAIN queue[s] : queue'[s][k] = queue[s][j]
<1> USE ConnectionAssumption
<1> DEFINE old == queue[t]
<1>1. old \in Seq(Packets) /\ old # << >> /\ queue'[t] = Tail(old)
  BY DEF TypeOK
<1>2. /\ Tail(old) \in Seq(Packets)
      /\ Len(Tail(old)) = Len(old) - 1
      /\ 1 \in DOMAIN old /\ Head(old) = old[1] /\ Head(old) \in Packets
      /\ \A k \in DOMAIN Tail(old) : k + 1 \in DOMAIN old /\ Tail(old)[k] = old[k + 1]
      /\ \A k \in DOMAIN old :
            k = 1 \/ (k - 1 \in DOMAIN Tail(old) /\ Tail(old)[k - 1] = old[k])
  BY <1>1, TailElements
<1>3. queue' \in [Threads -> Seq(Packets)] /\ \A s \in Threads : s # t => queue'[s] = queue[s]
  BY <1>2 DEF TypeOK
<1>4. \A s \in Threads : Len(queue'[s]) <= MaxQueue
  <2>1. Len(old) \in Nat /\ Len(old) <= MaxQueue
    BY <1>1 DEF TypeOK
  <2> QED
    BY <1>1, <1>2, <1>3, <2>1 DEF TypeOK
<1>5. Head(old).uid \in EventUIDs
  BY <1>2 DEF TableOK
<1>6. \A s \in Threads : \A k \in DOMAIN queue'[s] :
          \E j \in DOMAIN queue[s] : queue'[s][k] = queue[s][j]
  BY <1>1, <1>2, <1>3
<1> QED
  BY <1>1, <1>2, <1>3, <1>4, <1>5, <1>6

LEMMA EdgesStayFirst ==
    ASSUME IInv, NEW t \in Threads, queue[t] # << >>,
           queue' = [queue EXCEPT ![t] = Tail(@)],
           Head(queue[t]).kind = "edge" => worker' = worker,
           UNCHANGED <<current, table, handler>>
    PROVE  EdgesComeFirst'
<1> USE DEF IInv
<1> SUFFICES ASSUME current \in Threads,
                    NEW k \in DOMAIN queue'[current], queue'[current][k].kind = "edge"
    PROVE  /\ \A s \in Threads :
                /\ ~Busy(s)'
                /\ s # current => \A j \in DOMAIN queue'[s] : queue'[s][j].kind = "edge"
           /\ \A j \in 1..k : queue'[current][j].kind = "edge"
           /\ queue'[current][k].uid \in IOUIDs
           /\ OnlyEvents(queue'[current][k].uid)
           /\ table[queue'[current][k].uid] # None
           /\ table[queue'[current][k].uid] \in handler
           /\ queue'[current][k].pins \in Masks
  BY DEF EdgesComeFirst, OnlyEvents
<1>1. /\ queue' \in [Threads -> Seq(Packets)]
      /\ \A s \in Threads : s # t => queue'[s] = queue[s]
      /\ 1 \in DOMAIN queue[t] /\ Head(queue[t]) = queue[t][1]
      /\ \A j \in DOMAIN queue'[t] : j + 1 \in DOMAIN queue[t] /\ queue'[t][j] = queue[t][j + 1]
      /\ \A s \in Threads : \A j \in DOMAIN queue'[s] :
            \E i \in DOMAIN queue[s] : queue'[s][j] = queue[s][i]
  BY Dispatched
<1>d. /\ DOMAIN queue'[current] = 1..Len(queue'[current]) /\ Len(queue'[current]) \in Nat
      /\ DOMAIN queue[current] = 1..Len(queue[current]) /\ Len(queue[current]) \in Nat
  BY <1>1 DEF TypeOK
<1>2. PICK i \in DOMAIN queue[current] :
          /\ queue[current][i] = queue'[current][k]
          /\ t = current => i = k + 1
          /\ t # current => i = k
  <2>1. CASE t = current
    BY <1>1, <2>1
  <2>2. CASE t # current
    BY <1>1, <2>2
  <2> QED
    BY <2>1, <2>2
<1>3. /\ \A s \in Threads :
            /\ ~Busy(s)
            /\ s # current => \A j \in DOMAIN queue[s] : queue[s][j].kind = "edge"
      /\ \A j \in 1..i : queue[current][j].kind = "edge"
      /\ queue[current][i].uid \in IOUIDs
      /\ OnlyEvents(queue[current][i].uid)
      /\ table[queue[current][i].uid] # None
      /\ table[queue[current][i].uid] \in handler
      /\ queue[current][i].pins \in Masks
  BY <1>2 DEF EdgesComeFirst
<1>4. Head(queue[t]).kind = "edge"
  <2>1. CASE t = current
    <3>1. 1 \in 1..i
      BY <1>d, <1>2
    <3> QED
      BY <1>1, <1>3, <2>1, <3>1
  <2>2. CASE t # current
    BY <1>1, <1>3, <2>2
  <2> QED
    BY <2>1, <2>2
<1>5. \A s \in Threads : ~Busy(s)'
  BY <1>3, <1>4 DEF Busy
<1>6. \A s \in Threads :
          s # current => \A j \in DOMAIN queue'[s] : queue'[s][j].kind = "edge"
  BY <1>1, <1>3
<1>7. \A j \in 1..k : queue'[current][j].kind = "edge"
  <2> SUFFICES ASSUME NEW j \in 1..k PROVE queue'[current][j].kind = "edge"
    OBVIOUS
  <2>1. j \in DOMAIN queue'[current]
    BY <1>d
  <2>2. CASE t = current
    <3>1. j + 1 \in 1..i
      BY <1>d, <1>2, <2>2
    <3> QED
      BY <1>1, <1>3, <2>1, <2>2, <3>1
  <2>3. CASE t # current
    <3>1. j \in 1..i
      BY <1>d, <1>2, <2>3
    <3> QED
      BY <1>1, <1>3, <2>3, <3>1
  <2> QED
    BY <2>2, <2>3
<1> QED
  BY <1>2, <1>3, <1>5, <1>6, <1>7

LEMMA DispatchEdgeStep ==
    ASSUME IInv, NEW t \in Threads, DispatchEdge(t)
    PROVE  IInv'
<1> USE DEF IInv
<1>1. /\ queue[t] # << >> /\ Head(queue[t]).kind = "edge"
      /\ queue' = [queue EXCEPT ![t] = Tail(@)]
      /\ UNCHANGED <<daemon, open, current, expected, recon, worker, table, callback,
                     replaced, handler, armed, failed>>
      /\ missed' \subseteq missed \cup Sensors
  BY DEF DispatchEdge, connVars, devVars, ShouldCount, EventOf
<1>2. /\ queue' \in [Threads -> Seq(Packets)]
      /\ \A s \in Threads : Len(queue'[s]) <= MaxQueue
      /\ \A s \in Threads : s # t => queue'[s] = queue[s]
      /\ Head(queue[t]) = queue[t][1]
      /\ \A k \in DOMAIN queue[t] :
            k = 1 \/ (k - 1 \in DOMAIN queue'[t] /\ queue'[t][k - 1] = queue[t][k])
      /\ \A s \in Threads : \A k \in DOMAIN queue'[s] :
            \E j \in DOMAIN queue[s] : queue'[s][k] = queue[s][j]
  BY <1>1, Dispatched
<1>3. TypeOK'
  BY <1>1, <1>2 DEF TypeOK
<1>4. WorkersOK'
  BY <1>1 DEF WorkersOK, Busy
<1>5. TableOK'
  BY <1>1, <1>2 DEF TableOK
<1>6. open => \A v : Pending(v) => Pending(v)'
  <2> SUFFICES ASSUME open, NEW v, NEW k \in DOMAIN queue[current],
                      queue[current][k].kind = "enumerate", queue[current][k].uid = v
      PROVE  \E j \in DOMAIN queue'[current] :
                queue'[current][j].kind = "enumerate" /\ queue'[current][j].uid = v
    BY <1>1 DEF Pending, Asked
  <2>1. CASE t # current
    BY <1>2, <2>1 DEF TableOK
  <2>2. CASE t = current
    <3>1. k # 1
      BY <1>1, <1>2, <2>2
    <3> QED
      BY <1>2, <2>2, <3>1
  <2> QED
    BY <2>1, <2>2
<1>7. DeletedComesBack'
  BY <1>1, <1>6 DEF DeletedComesBack, Reaches, Busy
<1>8. RegisteredOrDue'
  BY <1>1, <1>6 DEF RegisteredOrDue, InWork, Busy, Registered
<1>9. EdgesComeFirst'
  BY <1>1, EdgesStayFirst
<1> QED
  BY <1>3, <1>4, <1>5, <1>7, <1>8, <1>9

(* A thread turns to the next sensor of a Bricklet, or is done with it.    *)
LEMMA TurnsToTask ==
    ASSUME TypeOK, WorkersOK, NEW t \in Threads, NEW u \in UIDs, NEW i \in 0..N,
           worker[t].step # "poll", UNCHANGED recon,
           worker' = [worker EXCEPT ![t] = Task(u, i)]
    PROVE  /\ worker' \in [Threads -> [step : Steps, uid : UIDs \cup {"none"}, at : 0..N]]
           /\ WorkersOK'
           /\ \A s \in Threads : s # t => worker'[s] = worker[s]
           /\ \/ worker'[t] = Idle /\ \A k \in EventOf(u) : k <= i
              \/ /\ worker'[t].step = "delete" /\ worker'[t].uid = u
                 /\ \A k \in EventOf(u) : k > i => worker'[t].at <= k
<1> USE ConnectionAssumption
<1>1. \/ Task(u, i) = Idle /\ \A k \in EventOf(u) : k <= i
      \/ \E j \in EventOf(u) :
            /\ Task(u, i) = [step |-> "delete", uid |-> u, at |-> j]
            /\ j > i
            /\ \A k \in EventOf(u) : k > i => j <= k
  BY TaskIsNext
<1> HIDE DEF Task
<1>2. worker'[t] = Task(u, i) /\ \A s \in Threads : s # t => worker'[s] = worker[s]
  BY DEF TypeOK
<1>3. CASE Task(u, i) = Idle /\ \A k \in EventOf(u) : k <= i
  <2>1. Idle \in [step : Steps, uid : UIDs \cup {"none"}, at : 0..N] /\ Idle.step = "idle"
    BY DEF Idle, Steps
  <2>2. recon[t] = "no"
    BY DEF WorkersOK
  <2>3. WorkersOK'
    BY <1>2, <1>3, <2>1, <2>2 DEF WorkersOK, Busy
  <2>4. worker' \in [Threads -> [step : Steps, uid : UIDs \cup {"none"}, at : 0..N]]
    BY <1>3, <2>1 DEF TypeOK
  <2> QED
    BY <1>2, <1>3, <2>3, <2>4
<1>4. CASE \E j \in EventOf(u) :
              /\ Task(u, i) = [step |-> "delete", uid |-> u, at |-> j]
              /\ j > i
              /\ \A k \in EventOf(u) : k > i => j <= k
  <2>1. PICK j \in EventOf(u) :
              /\ Task(u, i) = [step |-> "delete", uid |-> u, at |-> j]
              /\ j > i
              /\ \A k \in EventOf(u) : k > i => j <= k
    BY <1>4
  <2> DEFINE work == [step |-> "delete", uid |-> u, at |-> j]
  <2>2. /\ work.step = "delete" /\ work.uid = u /\ work.at = j
        /\ work \in [step : Steps, uid : UIDs \cup {"none"}, at : 0..N]
    BY DEF Steps, EventOf, Sensors
  <2>3. worker'[t] = work
    BY <1>2, <2>1
  <2> HIDE DEF work
  <2>4. recon[t] = "no"
    BY DEF WorkersOK
  <2>5. WorkersOK'
    BY <1>2, <2>2, <2>3, <2>4 DEF WorkersOK, Busy
  <2>6. worker' \in [Threads -> [step : Steps, uid : UIDs \cup {"none"}, at : 0..N]]
    BY <1>2, <2>2, <2>3 DEF TypeOK
  <2> QED
    BY <1>2, <2>1, <2>2, <2>3, <2>5, <2>6
<1> QED
  BY <1>1, <1>3, <1>4

LEMMA DispatchEnumerateStep ==
    ASSUME IInv, NEW t \in Threads, DispatchEnumerate(t)
    PROVE  IInv'
<1> USE ConnectionAssumption DEF IInv
<1> DEFINE u == Head(queue[t]).uid
<1>1. /\ worker[t] = Idle /\ queue[t] # << >> /\ Head(queue[t]).kind = "enumerate"
      /\ \/ worker' = [worker EXCEPT ![t] = Task(u, 0)]
         \/ t # current /\ worker' = worker
      /\ queue' = [queue EXCEPT ![t] = Tail(@)]
      /\ UNCHANGED <<daemon, open, current, expected, recon, table, callback, replaced,
                     handler, armed, failed, missed>>
  BY DEF DispatchEnumerate, connVars, devVars, otherVars, Orphan
<1>2. /\ queue' \in [Threads -> Seq(Packets)]
      /\ \A s \in Threads : Len(queue'[s]) <= MaxQueue
      /\ \A s \in Threads : s # t => queue'[s] = queue[s]
      /\ Head(queue[t]) = queue[t][1]
      /\ u \in EventUIDs
      /\ \A k \in DOMAIN queue[t] :
            k = 1 \/ (k - 1 \in DOMAIN queue'[t] /\ queue'[t][k - 1] = queue[t][k])
      /\ \A s \in Threads : \A k \in DOMAIN queue'[s] :
            \E j \in DOMAIN queue[s] : queue'[s][k] = queue[s][j]
  BY <1>1, Dispatched
<1>3. u \in UIDs /\ 0 \in 0..N
  BY <1>2 DEF EventUIDs, UIDs
<1>4. ~Busy(t) /\ worker[t].step # "poll"
  BY <1>1 DEF Busy, Idle
<1> HIDE DEF u
<1>5. /\ worker' \in [Threads -> [step : Steps, uid : UIDs \cup {"none"}, at : 0..N]]
      /\ WorkersOK'
      /\ \A s \in Threads : s # t => worker'[s] = worker[s]
      /\ \/ worker'[t] = Idle /\ \A k \in EventOf(u) : k <= 0
         \/ /\ worker'[t].step = "delete" /\ worker'[t].uid = u
            /\ \A k \in EventOf(u) : k > 0 => worker'[t].at <= k
         \/ t # current
  <2>1. CASE worker' = [worker EXCEPT ![t] = Task(u, 0)]
    BY <1>1, <1>3, <1>4, <2>1, TurnsToTask
  <2>2. CASE t # current /\ worker' = worker
    BY <1>1, <2>2 DEF TypeOK, WorkersOK, Busy
  <2> QED
    BY <1>1, <2>1, <2>2
<1>6. t = current => \A i \in EventOf(u) : Reaches(t, i)'
  <2> SUFFICES ASSUME t = current, NEW i \in EventOf(u) PROVE Reaches(t, i)'
    OBVIOUS
  <2>1. i \in 1..N /\ UID[i] = u
    BY DEF EventOf, Sensors
  <2>2. worker'[t].step = "delete" /\ worker'[t].uid = u /\ worker'[t].at <= i
    BY <1>5, <2>1
  <2>3. worker'[t].at \in 0..N
    BY <1>5
  <2> QED
    BY <2>1, <2>2, <2>3 DEF Reaches, Busy
<1>7. TypeOK'
  BY <1>1, <1>2, <1>5 DEF TypeOK
<1>8. TableOK'
  BY <1>1, <1>2 DEF TableOK
<1>9. open => \A v : Pending(v) => Pending(v)' \/ (t = current /\ v = u)
  <2> SUFFICES ASSUME open, NEW v, Asked(v), ~(t = current /\ v = u) PROVE Asked(v)'
    BY <1>1 DEF Pending
  <2>0. PICK k \in DOMAIN queue[current] :
            queue[current][k].kind = "enumerate" /\ queue[current][k].uid = v
    BY DEF Asked
  <2>1. CASE t # current
    BY <1>1, <1>2, <2>0, <2>1 DEF TableOK, Asked
  <2>2. CASE t = current
    <3>1. k # 1
      BY <1>2, <2>0, <2>2 DEF u
    <3>2. /\ k - 1 \in DOMAIN queue'[current]
          /\ queue'[current][k - 1].kind = "enumerate" /\ queue'[current][k - 1].uid = v
      BY <1>2, <2>0, <2>2, <3>1
    <3> QED
      BY <1>1, <3>2 DEF Asked
  <2> QED
    BY <2>1, <2>2
<1>10. DeletedComesBack'
  <2> SUFFICES ASSUME open, NEW i \in Sensors, Event(i), UID[i] \in IOUIDs, callback[i] = "deleted"
      PROVE  Pending(UID[i])' \/ Reaches(current, i)'
    BY <1>1 DEF DeletedComesBack, Reaches
  <2>1. CASE Pending(UID[i])
    <3>1. i \in EventOf(UID[i])
      BY DEF EventOf
    <3> QED
      BY <1>6, <1>9, <2>1, <3>1, <1>1
  <2>2. CASE Reaches(current, i)
    <3>1. current # t /\ current \in Threads
      BY <1>4, <2>2 DEF Reaches, TableOK
    <3>2. worker'[current] = worker[current]
      BY <1>5, <3>1
    <3> QED
      BY <1>1, <2>2, <3>2 DEF Reaches, Busy
  <2> QED
    BY <2>1, <2>2 DEF DeletedComesBack
<1>11. RegisteredOrDue'
  <2> SUFFICES ASSUME open, NEW v \in IOUIDs, OnlyEvents(v)
      PROVE  Registered(v)' \/ v \in failed' \/ Pending(v)' \/ InWork(v)'
    BY <1>1 DEF RegisteredOrDue
  <2>1. CASE Pending(v)
    <3>1. PICK i \in EventOf(v) : TRUE
      BY DEF IOUIDs, EventUIDs, EventOf
    <3>2. UID[i] = v
      BY DEF EventOf
    <3>3. v = u /\ t = current => InWork(v)'
      <4> SUFFICES ASSUME v = u, t = current PROVE InWork(v)'
        OBVIOUS
      <4>1. Reaches(t, i)'
        BY <1>6
      <4> QED
        BY <3>2, <4>1 DEF InWork, Reaches
    <3> QED
      BY <1>9, <2>1, <3>3
  <2>2. CASE InWork(v)
    BY <1>4, <1>5, <2>2 DEF InWork, Busy
  <2>3. CASE Registered(v) \/ v \in failed
    BY <1>1, <2>3 DEF Registered
  <2> QED
    BY <2>1, <2>2, <2>3 DEF RegisteredOrDue
<1>12. EdgesComeFirst'
  BY <1>1, EdgesStayFirst
<1> QED
  BY <1>5, <1>7, <1>8, <1>10, <1>11, <1>12

-----------------------------------------------------------------------------
(***************************************************************************)
(* registerCallback().                                                     *)
(***************************************************************************)

(* What all steps have in common of a thread that works on sensor i of     *)
(* Bricklet u: they touch the device of i and the entry of u.              *)
LEMMA RegistrationGoesOn ==
    ASSUME IInv, NEW t \in Threads, NEW i \in Sensors, NEW u, u = UID[i],
           Busy(t), worker[t].uid = u, worker[t].at = i,
           UNCHANGED <<daemon, open, current, expected, recon, queue, missed>>,
           worker' \in [Threads -> [step : Steps, uid : UIDs \cup {"none"}, at : 0..N]],
           WorkersOK',
           \A s \in Threads : s # t => worker'[s] = worker[s],
           \/ Busy(t)' /\ worker'[t].uid = u /\ worker'[t].at = i
           \/ worker'[t] = Idle /\ \A k \in EventOf(u) : k <= i
           \/ /\ worker'[t].step = "delete" /\ worker'[t].uid = u
              /\ \A k \in EventOf(u) : k > i => worker'[t].at <= k,
           table' \in [UIDs -> Sensors \cup {None}],
           \A v \in UIDs : v # u => table'[v] = table[v],
           table'[u] # None => UID[table'[u]] = u,
           callback' \in [Sensors -> {"null", "object", "live", "stale", "deleted"}],
           \A j \in Sensors : j # i => callback'[j] = callback[j],
           replaced' \subseteq Sensors, handler' \subseteq Sensors,
           handler \ {i} \subseteq handler',
           armed' \subseteq IOUIDs, armed \ {u} \subseteq armed',
           failed' \subseteq UIDs, failed \ {u} \subseteq failed',
           open /\ u \in IOUIDs /\ callback'[i] = "deleted"
              => callback[i] = "deleted" /\ worker[t].step # "delete",
           open /\ u \in IOUIDs /\ OnlyEvents(u)
              => InWork(u)' \/ Registered(u)' \/ u \in failed' \/ Pending(u)
    PROVE  IInv'
<1> USE ConnectionAssumption DEF IInv
<1>1. IOUIDs \subseteq UIDs /\ u \in UIDs
  BY DEF IOUIDs, EventUIDs, UIDs
<1>2. TypeOK'
  BY <1>1 DEF TypeOK
<1>3. TableOK'
  <2>1. \A v \in UIDs : table'[v] # None => UID[table'[v]] = v
    BY DEF TableOK
  <2> QED
    BY <2>1 DEF TableOK
<1>4. \A v : Pending(v)' <=> Pending(v)
  BY DEF Pending, Asked
<1>5. DeletedComesBack'
  <2> SUFFICES ASSUME open, NEW j \in Sensors, Event(j), UID[j] \in IOUIDs,
                      callback'[j] = "deleted", ~Pending(UID[j])
      PROVE  Reaches(current, j)'
    BY <1>4 DEF DeletedComesBack, Reaches
  <2>1. callback[j] = "deleted"
    OBVIOUS
  <2>2. Reaches(current, j) /\ current \in Threads
    BY <2>1 DEF DeletedComesBack, TableOK
  <2>3. CASE current # t
    BY <2>2, <2>3 DEF Reaches, Busy
  <2>4. CASE current = t
    <3>1. UID[j] = u /\ j \in EventOf(u) /\ i < j
      BY <2>2, <2>4 DEF Reaches, EventOf
    <3>2. ~(worker'[t] = Idle /\ \A k \in EventOf(u) : k <= i)
      BY <3>1 DEF Sensors
    <3>3. CASE Busy(t)' /\ worker'[t].uid = u /\ worker'[t].at = i
      BY <2>4, <3>1, <3>3 DEF Reaches
    <3>4. CASE /\ worker'[t].step = "delete" /\ worker'[t].uid = u
               /\ \A k \in EventOf(u) : k > i => worker'[t].at <= k
      <4>1. worker'[t].at \in 0..N /\ worker'[t].at <= j
        BY <3>1, <3>4 DEF Sensors
      <4>2. worker'[t].at < j \/ worker'[t].at = j
        BY <4>1 DEF Sensors
      <4> QED
        BY <2>4, <3>1, <3>4, <4>2 DEF Reaches, Busy
    <3> QED
      BY <3>2, <3>3, <3>4
  <2> QED
    BY <2>3, <2>4
<1>6. RegisteredOrDue'
  <2> SUFFICES ASSUME open, NEW v \in IOUIDs, OnlyEvents(v), v # u
      PROVE  Registered(v)' \/ v \in failed' \/ Pending(v)' \/ InWork(v)'
    BY <1>4 DEF RegisteredOrDue
  <2>1. InWork(v) => InWork(v)'
    BY DEF InWork, Busy
  <2>2. Registered(v) => Registered(v)'
    <3> SUFFICES ASSUME Registered(v) PROVE Registered(v)'
      OBVIOUS
    <3>1. table[v] # None /\ UID[table[v]] = v /\ table[v] \in Sensors
      BY <1>1 DEF Registered, TypeOK, TableOK
    <3>2. table'[v] = table[v] /\ table[v] # i
      BY <1>1, <3>1
    <3> QED
      BY <3>1, <3>2 DEF Registered
  <2> QED
    BY <1>4, <2>1, <2>2 DEF RegisteredOrDue
<1>7. EdgesComeFirst'
  BY DEF EdgesComeFirst
<1> QED
  BY <1>2, <1>3, <1>5, <1>6, <1>7

(* The sensor a busy thread works on.                                      *)
LEMMA WorksOn ==
    ASSUME IInv, NEW t \in Threads, worker[t].step # "idle"
    PROVE  /\ Busy(t)
           /\ worker[t].at \in Sensors /\ UID[worker[t].at] = worker[t].uid
           /\ Event(worker[t].at) /\ worker[t].at \in 0..N
           /\ worker[t].uid \in UIDs /\ worker[t].uid \in EventUIDs
           /\ worker[t].step # "delete" => worker[t].uid \in IOUIDs
BY ConnectionAssumption DEF IInv, WorkersOK, Busy, EventOf, Sensors, UIDs, EventUIDs, IOUIDs

(* The thread goes on to another step with the same sensor.                *)
LEMMA GoesTo ==
    ASSUME IInv, NEW t \in Threads, NEW step \in Steps \ {"idle", "delete"},
           worker[t].step # "idle", recon[t] = "no", UNCHANGED recon,
           DeviceType[worker[t].uid] # "other", Goto(t, step)
    PROVE  /\ worker' \in [Threads -> [step : Steps, uid : UIDs \cup {"none"}, at : 0..N]]
           /\ WorkersOK'
           /\ \A s \in Threads : s # t => worker'[s] = worker[s]
           /\ Busy(t)' /\ worker'[t].uid = worker[t].uid /\ worker'[t].at = worker[t].at
<1> USE DEF IInv
<1>1. /\ \A s \in Threads : s # t => worker'[s] = worker[s]
      /\ worker'[t].step = step /\ worker'[t].uid = worker[t].uid /\ worker'[t].at = worker[t].at
  BY DEF Goto, TypeOK
<1>2. worker' \in [Threads -> [step : Steps, uid : UIDs \cup {"none"}, at : 0..N]]
  BY DEF Goto, TypeOK
<1>3. WorkersOK'
  BY <1>1 DEF WorkersOK, Busy
<1> QED
  BY <1>1, <1>2, <1>3 DEF Busy

(* The thread turns to the next sensor.                                    *)
LEMMA GoesOn ==
    ASSUME IInv, NEW t \in Threads, worker[t].step \notin {"idle", "poll"},
           UNCHANGED recon, NextSensor(t)
    PROVE  /\ worker' \in [Threads -> [step : Steps, uid : UIDs \cup {"none"}, at : 0..N]]
           /\ WorkersOK'
           /\ \A s \in Threads : s # t => worker'[s] = worker[s]
           /\ \/ worker'[t] = Idle /\ \A k \in EventOf(worker[t].uid) : k <= worker[t].at
              \/ /\ worker'[t].step = "delete" /\ worker'[t].uid = worker[t].uid
                 /\ \A k \in EventOf(worker[t].uid) : k > worker[t].at => worker'[t].at <= k
<1>1. worker[t].uid \in UIDs /\ worker[t].at \in 0..N
  BY WorksOn
<1>2. worker' = [worker EXCEPT ![t] = Task(worker[t].uid, worker[t].at)]
  BY DEF NextSensor, IInv, TypeOK
<1> QED
  BY <1>1, <1>2, TurnsToTask DEF IInv

LEMMA DeleteCallbackStep ==
    ASSUME IInv, NEW t \in Threads, DeleteCallback(t)
    PROVE  IInv'
<1> USE ConnectionAssumption
<1> DEFINE i == worker[t].at
           u == worker[t].uid
<1>1. /\ worker[t].step = "delete"
      /\ Release(i)
      /\ handler' = handler \ {i}
      /\ UNCHANGED <<daemon, open, current, expected, recon, queue, replaced, armed, failed, missed>>
  BY DEF DeleteCallback, connVars, otherVars
<1>2. /\ Busy(t) /\ i \in Sensors /\ UID[i] = u /\ u \in UIDs /\ u \in EventUIDs
      /\ recon[t] = "no"
  BY <1>1, WorksOn DEF IInv, WorkersOK
<1>3. \/ /\ open /\ DeviceType[u] # "other"
         /\ callback' = [callback EXCEPT ![i] = "object"]
         /\ Goto(t, "poll")
      \/ /\ ~(open /\ u \in IOUIDs)
         /\ callback' = [callback EXCEPT ![i] = IF @ = "null" THEN @ ELSE "deleted"]
         /\ NextSensor(t)
  BY <1>2 DEF DeleteCallback, IOUIDs
<1>4. table' = table \/ table' = [table EXCEPT ![u] = None]
  <2>1. CASE callback[i] = "live"
    BY <1>1, <1>2, <2>1 DEF Release, Released
  <2>2. CASE callback[i] = "stale"
    BY <1>1, <1>2, <2>2 DEF Release
  <2>3. CASE callback[i] \notin {"live", "stale"}
    BY <1>1, <2>3 DEF Release
  <2> QED
    BY <2>1, <2>2, <2>3
<1>5. /\ table' \in [UIDs -> Sensors \cup {None}]
      /\ \A v \in UIDs : v # u => table'[v] = table[v]
      /\ table'[u] # None => UID[table'[u]] = u
  BY <1>2, <1>4 DEF IInv, TypeOK, TableOK
<1>6. /\ callback' \in [Sensors -> {"null", "object", "live", "stale", "deleted"}]
      /\ \A j \in Sensors : j # i => callback'[j] = callback[j]
      /\ open /\ u \in IOUIDs => callback'[i] = "object"
  BY <1>2, <1>3 DEF IInv, TypeOK, IOUIDs
<1>7. /\ replaced' \subseteq Sensors /\ handler' \subseteq Sensors /\ handler \ {i} \subseteq handler'
      /\ armed' \subseteq IOUIDs /\ failed' \subseteq UIDs
  BY <1>1 DEF IInv, TypeOK, TableOK
<1>8. CASE open /\ Goto(t, "poll") /\ DeviceType[u] # "other"
  <2>1. "poll" \in Steps \ {"idle", "delete"}
    BY DEF Steps
  <2>2. /\ worker' \in [Threads -> [step : Steps, uid : UIDs \cup {"none"}, at : 0..N]]
        /\ WorkersOK'
        /\ \A s \in Threads : s # t => worker'[s] = worker[s]
        /\ Busy(t)' /\ worker'[t].uid = u /\ worker'[t].at = i
    BY <1>1, <1>2, <1>8, <2>1, GoesTo DEF Busy
  <2>3. InWork(u)'
    BY <2>2 DEF InWork
  <2> QED
    BY <1>1, <1>2, <1>5, <1>6, <1>7, <2>2, <2>3, RegistrationGoesOn
<1>9. CASE ~(open /\ u \in IOUIDs) /\ NextSensor(t)
  <2>2. /\ worker' \in [Threads -> [step : Steps, uid : UIDs \cup {"none"}, at : 0..N]]
        /\ WorkersOK'
        /\ \A s \in Threads : s # t => worker'[s] = worker[s]
        /\ \/ worker'[t] = Idle /\ \A k \in EventOf(u) : k <= i
           \/ /\ worker'[t].step = "delete" /\ worker'[t].uid = u
              /\ \A k \in EventOf(u) : k > i => worker'[t].at <= k
    BY <1>1, <1>9, GoesOn
  <2> QED
    BY <1>1, <1>2, <1>5, <1>6, <1>7, <1>9, <2>2, RegistrationGoesOn
<1> QED
  BY <1>3, <1>8, <1>9

LEMMA PollFirstStep ==
    ASSUME IInv, NEW t \in Threads, PollFirst(t)
    PROVE  IInv'
<1> USE ConnectionAssumption
<1> DEFINE i == worker[t].at
           u == worker[t].uid
<1>1. /\ worker[t].step \in {"poll", "polling"} /\ recon[t] = "no"
      /\ replaced' = replaced \cup ({table[u]} \ {None})
      /\ table' = [table EXCEPT ![u] = None]
      /\ Goto(t, "register")
      /\ UNCHANGED <<daemon, open, current, expected, recon, queue, callback, handler,
                     armed, failed, missed>>
  BY DEF PollFirst, PollDevice, connVars, otherVars
<1>2. /\ Busy(t) /\ i \in Sensors /\ UID[i] = u /\ u \in UIDs /\ u \in IOUIDs
      /\ DeviceType[u] # "other"
  BY <1>1, WorksOn DEF IOUIDs
<1>3. /\ table' \in [UIDs -> Sensors \cup {None}]
      /\ \A v \in UIDs : v # u => table'[v] = table[v]
      /\ table'[u] = None
      /\ replaced' \subseteq Sensors
  BY <1>1, <1>2 DEF IInv, TypeOK
<1>4. "register" \in Steps \ {"idle", "delete"}
  BY DEF Steps
<1>5. /\ worker' \in [Threads -> [step : Steps, uid : UIDs \cup {"none"}, at : 0..N]]
      /\ WorkersOK'
      /\ \A s \in Threads : s # t => worker'[s] = worker[s]
      /\ Busy(t)' /\ worker'[t].uid = u /\ worker'[t].at = i
  BY <1>1, <1>2, <1>4, GoesTo
<1>6. InWork(u)'
  BY <1>5 DEF InWork
<1>7. /\ callback' \in [Sensors -> {"null", "object", "live", "stale", "deleted"}]
      /\ handler' \subseteq Sensors /\ armed' \subseteq IOUIDs /\ failed' \subseteq UIDs
  BY <1>1 DEF IInv, TypeOK, TableOK
<1> QED
  BY <1>1, <1>2, <1>3, <1>5, <1>6, <1>7, RegistrationGoesOn

LEMMA RegisterCallbackStep ==
    ASSUME IInv, NEW t \in Threads, RegisterCallback(t)
    PROVE  IInv'
<1> USE ConnectionAssumption
<1>0. PICK i \in Sensors, u \in UIDs : worker[t].at = i /\ worker[t].uid = u
  BY WorksOn DEF RegisterCallback
<1>1. /\ open /\ worker[t].step \in {"register", "retry"} /\ Create(i)
      /\ UNCHANGED <<daemon, open, current, expected, recon, queue, missed>>
      /\ \/ /\ handler' = handler \cup {i} /\ armed' = armed \cup {u}
            /\ failed' = failed \ {u} /\ NextSensor(t)
         \/ /\ handler' = handler \ {i} /\ armed' = armed
            /\ \/ Goto(t, "retry") /\ failed' = failed
               \/ NextSensor(t) /\ failed' = failed \cup {u}
  BY <1>0 DEF RegisterCallback, FailedAttempt, connVars
<1>2. /\ Busy(t) /\ i \in Sensors /\ UID[i] = u /\ u \in UIDs /\ u \in IOUIDs
      /\ DeviceType[u] # "other" /\ recon[t] = "no"
  BY <1>0, <1>1, WorksOn DEF IOUIDs, IInv, WorkersOK
<1>3. /\ table' = [table EXCEPT ![u] = i]
      /\ callback' = [callback EXCEPT ![i] = "live"]
      /\ replaced' \subseteq Sensors
  BY <1>1, <1>2 DEF Create, IInv, TypeOK
<1>4. /\ table' \in [UIDs -> Sensors \cup {None}]
      /\ \A v \in UIDs : v # u => table'[v] = table[v]
      /\ table'[u] = i /\ i # None
      /\ callback' \in [Sensors -> {"null", "object", "live", "stale", "deleted"}]
      /\ \A j \in Sensors : j # i => callback'[j] = callback[j]
      /\ callback'[i] = "live"
  BY <1>2, <1>3 DEF IInv, TypeOK, Sensors, None
<1>5. /\ handler' \subseteq Sensors /\ handler \ {i} \subseteq handler'
      /\ armed' \subseteq IOUIDs /\ armed \ {u} \subseteq armed'
      /\ failed' \subseteq UIDs /\ failed \ {u} \subseteq failed'
  BY <1>1, <1>2 DEF IInv, TypeOK, TableOK
<1>u. /\ UNCHANGED <<daemon, open, current, expected, recon, queue, missed>>
      /\ callback'[i] # "deleted" /\ UID[table'[u]] = u
      /\ replaced' \subseteq Sensors
  BY <1>1, <1>2, <1>3, <1>4
<1>6. CASE Goto(t, "retry")
  <2>1. "retry" \in Steps \ {"idle", "delete"}
    BY DEF Steps
  <2>2. /\ worker' \in [Threads -> [step : Steps, uid : UIDs \cup {"none"}, at : 0..N]]
        /\ WorkersOK'
        /\ \A s \in Threads : s # t => worker'[s] = worker[s]
        /\ Busy(t)' /\ worker'[t].uid = u /\ worker'[t].at = i
    BY <1>0, <1>1, <1>2, <1>6, <2>1, GoesTo DEF Busy
  <2>3. InWork(u)'
    BY <2>2 DEF InWork
  <2> QED
    BY <1>0, <1>u, <1>2, <1>4, <1>5, <2>2, <2>3, RegistrationGoesOn
<1>7. CASE NextSensor(t) /\ (u \in failed' \/ (i \in handler' /\ u \in armed'))
  <2>1. /\ worker' \in [Threads -> [step : Steps, uid : UIDs \cup {"none"}, at : 0..N]]
        /\ WorkersOK'
        /\ \A s \in Threads : s # t => worker'[s] = worker[s]
        /\ \/ worker'[t] = Idle /\ \A k \in EventOf(u) : k <= i
           \/ /\ worker'[t].step = "delete" /\ worker'[t].uid = u
              /\ \A k \in EventOf(u) : k > i => worker'[t].at <= k
    BY <1>0, <1>1, <1>7, GoesOn
  <2>2. u \in failed' \/ Registered(u)'
    BY <1>1, <1>4, <1>7 DEF Registered
  <2> QED
    BY <1>0, <1>u, <1>2, <1>4, <1>5, <2>1, <2>2, RegistrationGoesOn
<1> QED
  BY <1>1, <1>6, <1>7

LEMMA RegisterNothingStep ==
    ASSUME IInv, NEW t \in Threads, RegisterNothing(t)
    PROVE  IInv'
<1> USE ConnectionAssumption
<1>0. PICK i \in Sensors, u \in UIDs : worker[t].at = i /\ worker[t].uid = u
  BY WorksOn DEF RegisterNothing
<1>1. /\ worker[t].step \in {"register", "retry"} /\ (~open \/ callback[i] = "deleted")
      /\ NextSensor(t)
      /\ UNCHANGED <<daemon, open, current, expected, recon, queue, table, callback, replaced,
                     handler, armed, failed, missed>>
  BY <1>0 DEF RegisterNothing, connVars, devVars, otherVars
<1>2. /\ Busy(t) /\ i \in Sensors /\ UID[i] = u /\ u \in UIDs /\ u \in IOUIDs /\ Event(i)
  BY <1>0, <1>1, WorksOn
<1>3. /\ worker' \in [Threads -> [step : Steps, uid : UIDs \cup {"none"}, at : 0..N]]
      /\ WorkersOK'
      /\ \A s \in Threads : s # t => worker'[s] = worker[s]
      /\ \/ worker'[t] = Idle /\ \A k \in EventOf(u) : k <= i
         \/ /\ worker'[t].step = "delete" /\ worker'[t].uid = u
            /\ \A k \in EventOf(u) : k > i => worker'[t].at <= k
  BY <1>0, <1>1, GoesOn
<1>4. open => InWork(u)' \/ Pending(u)
  <2> SUFFICES ASSUME open, ~Pending(u) PROVE InWork(u)'
    OBVIOUS
  <2>1. Reaches(current, i) /\ current \in Threads
    BY <1>1, <1>2 DEF IInv, DeletedComesBack, TableOK
  <2>2. current # t
    BY <1>0, <1>1, <1>2, <2>1 DEF Reaches, Sensors
  <2> QED
    BY <1>2, <1>3, <2>1, <2>2 DEF Reaches, InWork, Busy
<1>5. /\ table' \in [UIDs -> Sensors \cup {None}]
      /\ callback' \in [Sensors -> {"null", "object", "live", "stale", "deleted"}]
      /\ table'[u] # None => UID[table'[u]] = u
      /\ replaced' \subseteq Sensors /\ handler' \subseteq Sensors
      /\ armed' \subseteq IOUIDs /\ failed' \subseteq UIDs
  BY <1>1, <1>2 DEF IInv, TypeOK, TableOK
<1> QED
  BY <1>0, <1>1, <1>2, <1>3, <1>4, <1>5, RegistrationGoesOn

-----------------------------------------------------------------------------
(***************************************************************************)
(* The main thread, and all steps.                                         *)
(***************************************************************************)

LEMMA MeasurePollsStep ==
    ASSUME IInv, NEW i \in Sensors, MeasurePolls(i)
    PROVE  IInv'
<1> USE DEF IInv
<1>1. /\ ~Event(i)
      /\ replaced' = replaced \cup ({table[UID[i]]} \ {None})
      /\ table' = [table EXCEPT ![UID[i]] = None]
      /\ UNCHANGED <<daemon, open, current, expected, recon, queue, worker, callback, handler,
                     armed, failed, missed>>
  BY DEF MeasurePolls, PollDevice, connVars, otherVars
<1>2. UID[i] \in UIDs /\ ~OnlyEvents(UID[i])
  BY <1>1 DEF UIDs, OnlyEvents
<1>3. table' \in [UIDs -> Sensors \cup {None}] /\ replaced' \subseteq Sensors
  BY <1>1, <1>2 DEF TypeOK
<1>4. TypeOK'
  BY <1>1, <1>3 DEF TypeOK
<1>5. /\ table'[UID[i]] = None
      /\ \A v \in UIDs : v # UID[i] => table'[v] = table[v]
  BY <1>1, <1>2 DEF TypeOK
<1>6. WorkersOK' /\ TableOK'
  BY <1>1, <1>5 DEF WorkersOK, TableOK, Busy
<1>7. DeletedComesBack'
  BY <1>1 DEF DeletedComesBack, Pending, Asked, Reaches, Busy
<1>8. IOUIDs \subseteq UIDs
  BY DEF IOUIDs, EventUIDs, UIDs
<1>9. RegisteredOrDue'
  <2> SUFFICES ASSUME open, NEW v \in IOUIDs, OnlyEvents(v)
      PROVE  Registered(v)' \/ v \in failed' \/ Pending(v)' \/ InWork(v)'
    BY <1>1 DEF RegisteredOrDue
  <2>1. table'[v] = table[v]
    BY <1>2, <1>5, <1>8
  <2> QED
    BY <1>1, <2>1 DEF RegisteredOrDue, Registered, Pending, Asked, InWork, Busy
<1>10. EdgesComeFirst'
  BY <1>1, <1>2, <1>5, <1>8 DEF EdgesComeFirst, Busy
<1> QED
  BY <1>4, <1>6, <1>7, <1>9, <1>10

LEMMA NextInvariant == IInv /\ [Next]_vars => IInv'
<1> SUFFICES ASSUME IInv, [Next]_vars PROVE IInv'
  OBVIOUS
<1>1. ASSUME NEW p \in Procs, ReconnectStep(p)
      PROVE  IInv'
  BY <1>1, ConnectStep, ConnectFailsStep, WakeUpStep DEF ReconnectStep
<1>2. CASE MainReconnects
  <2>1. "main" \in Procs
    BY DEF Procs
  <2>2. CASE MeasureReconnects
    BY <2>1, <2>2, StartReconnectStep DEF MeasureReconnects
  <2>3. CASE ReconnectStep("main")
    BY <1>1, <2>1, <2>3
  <2> QED
    BY <1>2, <2>2, <2>3 DEF MainReconnects
<1>3. CASE \E i \in Sensors : MeasurePolls(i)
  BY <1>3, MeasurePollsStep
<1>4. ASSUME NEW t \in Threads, WorkerStep(t)
      PROVE  IInv'
  <2>1. t \in Procs
    BY DEF Procs
  <2>2. CASE DispatchEdge(t) \/ DispatchEnumerate(t)
    BY <2>2, DispatchEdgeStep, DispatchEnumerateStep
  <2>3. CASE DeleteCallback(t) \/ PollFirst(t)
    BY <2>3, DeleteCallbackStep, PollFirstStep
  <2>4. CASE PollReconnects(t)
    BY <2>1, <2>4, StartReconnectStep DEF PollReconnects
  <2>5. CASE RegisterCallback(t) \/ RegisterNothing(t)
    BY <2>5, RegisterCallbackStep, RegisterNothingStep
  <2>6. CASE ReconnectStep(t)
    BY <1>1, <2>1, <2>6
  <2> QED
    BY <1>4, <2>2, <2>3, <2>4, <2>5, <2>6 DEF WorkerStep
<1>5. CASE DaemonStops \/ DaemonStarts
  BY <1>5, DaemonStep
<1>6. ASSUME NEW u \in EventUIDs,
             \/ EnumerateAnswer(u) \/ HotPlug(u)
             \/ \E pins \in Masks, high \in BOOLEAN : Edge(u, pins, high)
      PROVE  IInv'
  BY <1>6, EnumerationStep, EdgeStep
<1>7. CASE UNCHANGED vars
  BY <1>7 DEF vars, connVars, devVars, otherVars, IInv, TypeOK, WorkersOK, TableOK,
              DeletedComesBack, RegisteredOrDue, EdgesComeFirst, Pending, Asked, Reaches,
              InWork, Busy, Registered
<1> QED
  BY <1>2, <1>3, <1>4, <1>5, <1>6, <1>7 DEF Next

(* The inductive invariant holds of the connection.                        *)
THEOREM Invariance == Spec => []IInv
<1>1. Init => IInv
  BY InitInvariant
<1>2. IInv /\ [Next]_vars => IInv'
  BY NextInvariant
<1> QED
  BY <1>1, <1>2, PTL DEF Spec

(* The model of the connection is typed, and no queue outgrows its bound.  *)
THEOREM TypeCorrect == Spec => []TypeOK
<1>1. IInv => TypeOK
  BY DEF IInv
<1> QED
  BY <1>1, Invariance, PTL

(* Once the enumeration has been worked off, the callbacks of an IO        *)
(* Bricklet without polled sensors stand unless the registration failed.   *)
THEOREM RegistrationsStand == Spec => []RegistrationStands
<1>1. IInv => RegistrationStands
  BY QuietIsRegistered
<1> QED
  BY <1>1, Invariance, PTL

-----------------------------------------------------------------------------
(***************************************************************************)
(* Edges.  That a change is counted by all its sensors needs two things    *)
(* that the handlers do not give: a mask of one pin only, since            *)
(* callback_io4() compares it as a whole, and an IO-4 Bricklet of the      *)
(* first generation, since callback_io_v2() is not given its sensor.       *)
(***************************************************************************)
SinglePins == \A pins \in Masks : \E c : pins = {c}
OnlyIO4    == \A u \in IOUIDs : DeviceType[u] = "IO4"

LEMMA CountedAsPromised ==
    ASSUME SinglePins, NEW u, NEW pins \in Masks, NEW high
    PROVE  ShouldCount(u, pins, high) = Counted(u, pins, high)
<1>1. PICK c : pins = {c}
  BY DEF SinglePins
<1>2. \A i \in Sensors : Channel[i] \in pins <=> pins = {Channel[i]}
  BY <1>1
<1> QED
  BY <1>2 DEF ShouldCount, Counted, EventOf

LEMMA MissedStep ==
    ASSUME SinglePins, OnlyIO4, IInv, EdgesAreCounted, [Next]_vars
    PROVE  EdgesAreCounted'
<1> SUFFICES missed' = missed
  BY DEF EdgesAreCounted
<1>1. ASSUME NEW t \in Threads, DispatchEdge(t)
      PROVE  missed' = missed
  <2> DEFINE packet == Head(queue[t])
  <2>1. /\ queue[t] # << >> /\ packet.kind = "edge"
        /\ ~Orphan(t) => missed' = missed \cup (ShouldCount(packet.uid, packet.pins, packet.high)
                \ (IF DeviceType[packet.uid] = "IO4" /\ table[packet.uid] # None
                        /\ table[packet.uid] \in handler
                   THEN Counted(packet.uid, packet.pins, packet.high) ELSE {}))
        /\ Orphan(t) => missed' = missed
    BY <1>1 DEF DispatchEdge
  <2>2. CASE t = current
    <3>1. 1 \in DOMAIN queue[current] /\ packet = queue[current][1]
      <4>1. queue[t] \in Seq(Packets)
        BY DEF IInv, TypeOK
      <4> QED
        BY <2>1, <2>2, <4>1, TailElements
    <3>2. /\ packet.uid \in IOUIDs /\ packet.pins \in Masks
          /\ table[packet.uid] # None /\ table[packet.uid] \in handler
      BY <2>1, <2>2, <3>1 DEF IInv, EdgesComeFirst
    <3>3. DeviceType[packet.uid] = "IO4"
      BY <3>2 DEF OnlyIO4
    <3> HIDE DEF packet
    <3>4. ShouldCount(packet.uid, packet.pins, packet.high)
              = Counted(packet.uid, packet.pins, packet.high)
      BY <3>2, CountedAsPromised
    <3> QED
      BY <2>1, <2>2, <3>2, <3>3, <3>4 DEF Orphan
  <2> QED
    BY <2>1, <2>2 DEF Orphan
<1>2. ASSUME NEW u \in EventUIDs, NEW pins \in Masks, NEW high \in BOOLEAN, Edge(u, pins, high)
      PROVE  missed' = missed
  BY <1>2, EdgeIsReceived
<1>3. CASE MainReconnects
  BY <1>3 DEF MainReconnects, MeasureReconnects, ReconnectStep, StartReconnect, Connect,
              ConnectFails, WakeUp, otherVars
<1>4. CASE \E i \in Sensors : MeasurePolls(i)
  BY <1>4 DEF MeasurePolls, otherVars
<1>5. ASSUME NEW t \in Threads, WorkerStep(t), ~DispatchEdge(t)
      PROVE  missed' = missed
  BY <1>5 DEF WorkerStep, DispatchEnumerate, DeleteCallback, PollFirst, PollReconnects,
              RegisterCallback, RegisterNothing, ReconnectStep, StartReconnect, Connect,
              ConnectFails, WakeUp, otherVars
<1>6. CASE DaemonStops \/ DaemonStarts
  BY <1>6 DEF DaemonStops, DaemonStarts, otherVars
<1>7. ASSUME NEW u \in EventUIDs, EnumerateAnswer(u) \/ HotPlug(u)
      PROVE  missed' = missed
  BY <1>7 DEF EnumerateAnswer, HotPlug, otherVars
<1>8. CASE UNCHANGED vars
  BY <1>8 DEF vars, otherVars
<1> QED
  BY <1>1, <1>2, <1>3, <1>4, <1>5, <1>6, <1>7, <1>8 DEF Next

(* No change of a pin is missed by a sensor that should count it, through  *)
(* reconnections, resets, registrations of neighbours and orphaned         *)
(* threads, if pins change one at a time on IO-4 Bricklets.                *)
THEOREM EdgesAreNotMissed ==
    ASSUME SinglePins, OnlyIO4
    PROVE  Spec => []EdgesAreCounted
<1>1. Init => EdgesAreCounted
  BY DEF Init, EdgesAreCounted
<1>2. IInv /\ EdgesAreCounted /\ [Next]_vars => EdgesAreCounted'
  BY MissedStep
<1> QED
  BY <1>1, <1>2, Invariance, PTL DEF Spec
=============================================================================
