--------------------------- MODULE Readout_proofs ---------------------------
(***************************************************************************)
(* The readout buffer keeps its promises for every number of sensors,      *)
(* files and documents, every rest period and every buffer time, whatever  *)
(* the parser makes of a text.  Nothing about the buffer depends on the    *)
(* state of the sensors.                                                   *)
(*                                                                         *)
(* And the sensors are given what is written: the parser makes nothing of  *)
(* a document that is cut, and of a whole one what it says.  The parser is *)
(* made of recursive functions.  Each is shown to satisfy its equation, by *)
(* building it position for position from the end of the text; what it     *)
(* returns follows by the same induction backwards.                        *)
(***************************************************************************)
EXTENDS Readout, JsonDocument, Sensor_proofs, SequenceTheorems

BufferTypeOK ==
    /\ now \in Nat
    /\ current \in Nat
    /\ turn \in Sensors
    /\ phase \in Phases
    /\ file \in [Files -> FileState]
    /\ used \in [Sensors -> Use]
    /\ asked \in [Files -> Nat]

(* A content is read after the pass that asked for it began.               *)
TimesOK ==
    /\ current <= now
    /\ \A f \in Files : /\ file[f].lastRead <= current
                        /\ file[f].lastRead <= file[f].at

(* What this pass has given to a sensor is still in the buffer.            *)
SharedOK ==
    \A i \in Sensors : Source[i] \in Files =>
        /\ used[i].pass <= current
        /\ used[i].pass = current =>
              /\ Buffered(Source[i])
              /\ used[i].content = file[Source[i]].content
              /\ used[i].at = file[Source[i]].at

(* Nothing else reads a file while the main thread waits for it.           *)
WaitingOK ==
    phase = "reading" /\ Source[turn] \in Files => ~Buffered(Source[turn])

(* An answer or a failure has moved the time of the last reading to the    *)
(* pass of the last request, unless it is still awaited.                   *)
AskedOK ==
    \A f \in Remote :
        /\ asked[f] <= current
        /\ phase # "reading" \/ Source[turn] # f => asked[f] <= file[f].lastRead

BufferInv ==
    /\ BufferTypeOK
    /\ TimesOK
    /\ SharedOK
    /\ WaitingOK
    /\ AskedOK
    /\ FreshContent
    /\ SameContentInPass

-----------------------------------------------------------------------------
LEMMA NothingIsContent == Nothing \in Content
BY ReadoutAssumption DEF Nothing, Content

LEMMA InitBuffer == Init => BufferInv
<1> SUFFICES ASSUME Init PROVE BufferInv
  OBVIOUS
<1> USE ReadoutAssumption DEF Init
<1>1. BufferTypeOK
  BY NothingIsContent DEF BufferTypeOK, Phases, Sensors, FileState, Use
<1>2. TimesOK /\ WaitingOK
  BY DEF TimesOK, WaitingOK
<1>3. SharedOK
  BY DEF SharedOK
<1>4. AskedOK
  BY DEF AskedOK
<1>5. FreshContent /\ SameContentInPass
  BY DEF FreshContent, SameContentInPass
<1> QED
  BY <1>1, <1>2, <1>3, <1>4, <1>5 DEF BufferInv

(* The pass stays in its bounds.                                           *)
LEMMA GoOnStep ==
    ASSUME turn \in Sensors, GoOn
    PROVE  turn' \in Sensors /\ phase' \in Phases /\ phase' # "reading"
<1>1. N \in Nat \ {0} /\ turn \in 1..N
  BY ReadoutAssumption DEF Sensors
<1> QED
  BY <1>1 DEF GoOn, Sensors, Phases

(* What a sensor does with a content: it may be given it in this pass.     *)
LEMMA EvaluateStep ==
    ASSUME BufferTypeOK, NEW old, NEW content \in Content, NEW at \in Nat,
           Evaluate(old, content, at)
    PROVE  /\ turn' \in Sensors
           /\ phase' \in Phases
           /\ phase' # "reading"
           /\ used' \in [Sensors -> Use]
           /\ used' \in {used, [used EXCEPT ![turn] =
                                   [pass |-> current, at |-> at, content |-> content]]}
<1> DEFINE given == [pass |-> current, at |-> at, content |-> content]
<1>e. \/ phase' = "ended" /\ UNCHANGED <<turn, sensor, used>>
      \/ GoOn /\ used' = [used EXCEPT ![turn] = given]
  BY DEF Evaluate
<1>1. CASE phase' = "ended" /\ UNCHANGED <<turn, sensor, used>>
  BY <1>1 DEF BufferTypeOK, Phases
<1>2. CASE GoOn /\ used' = [used EXCEPT ![turn] = given]
  <2>1. GoOn
    BY <1>2
  <2>2. used' = [used EXCEPT ![turn] = given]
    BY <1>2
  <2>3. given \in Use
    BY DEF Use, BufferTypeOK
  <2> QED
    BY <2>1, <2>2, <2>3, GoOnStep DEF BufferTypeOK
<1> QED
  BY <1>e, <1>1, <1>2

(* A step of the pass that touches neither the buffer nor its clients.     *)
LEMMA QuietStep ==
    ASSUME BufferInv, UNCHANGED <<current, file, used, asked>>,
           now' \in Nat, now <= now', turn' \in Sensors, phase' \in Phases,
           phase' = "reading" => phase = "reading" /\ turn' = turn,
           phase = "reading" => Source[turn] \notin Remote \/ phase' = "reading"
    PROVE  BufferInv'
<1> USE DEF BufferInv
<1>1. BufferTypeOK'
  BY DEF BufferTypeOK
<1>2. TimesOK'
  BY DEF TimesOK, BufferTypeOK
<1>3. SharedOK'
  BY DEF SharedOK, Buffered
<1>4. WaitingOK'
  BY DEF WaitingOK, Buffered
<1>5. AskedOK'
  BY DEF AskedOK
<1>6. FreshContent' /\ SameContentInPass'
  BY DEF FreshContent, SameContentInPass
<1> QED
  BY <1>1, <1>2, <1>3, <1>4, <1>5, <1>6

LEMMA TriggerStep == BufferInv /\ Trigger => BufferInv'
<1> SUFFICES ASSUME BufferInv, Trigger PROVE BufferInv'
  OBVIOUS
<1> USE DEF BufferInv
<1>1. \A f \in Files : /\ file'[f].lastRead = file[f].lastRead
                       /\ file'[f].at = file[f].at
                       /\ now - file[f].lastRead <= BufferTime => file'[f] = file[f]
  BY ReadoutAssumption DEF Trigger, BufferTypeOK, FileState
<1>2. BufferTypeOK'
  <2>1. 1 \in Sensors
    BY ReadoutAssumption DEF Sensors
  <2>2. file' \in [Files -> FileState]
    BY NothingIsContent DEF Trigger, BufferTypeOK, FileState
  <2> QED
    BY <2>1, <2>2 DEF Trigger, BufferTypeOK, Phases
<1>3. /\ current \in Nat /\ now \in Nat /\ current' = now /\ current <= now
      /\ \A f \in Files : file[f].lastRead \in Nat /\ file[f].at \in Nat
      /\ \A i \in Sensors : used[i].pass \in Nat
      /\ BufferTime \in Nat
      /\ phase' = "measure"
      /\ UNCHANGED <<now, used, asked>>
  BY ReadoutAssumption DEF Trigger, BufferTypeOK, TimesOK, FileState, Use
<1>4. TimesOK'
  BY <1>1, <1>3 DEF TimesOK
<1>5. SharedOK'
  <2> SUFFICES ASSUME NEW i \in Sensors, Source[i] \in Files
               PROVE  /\ used[i].pass <= current'
                      /\ used[i].pass = current' =>
                            /\ Buffered(Source[i])'
                            /\ used[i].content = file'[Source[i]].content
                            /\ used[i].at = file'[Source[i]].at
    BY <1>3 DEF SharedOK
  <2>1. used[i].pass <= current
    BY DEF SharedOK
  <2>2. ASSUME used[i].pass = current'
        PROVE  /\ Buffered(Source[i])'
               /\ used[i].content = file'[Source[i]].content
               /\ used[i].at = file'[Source[i]].at
    <3>1. used[i].pass = current /\ current = now
      BY <1>3, <2>1, <2>2
    <3>2. now - file[Source[i]].lastRead <= BufferTime
      BY <3>1 DEF SharedOK, Buffered
    <3> QED
      BY <1>1, <1>3, <3>1, <3>2 DEF SharedOK, Buffered
  <2> QED
    BY <1>3, <2>1, <2>2
<1>6. WaitingOK'
  BY <1>3 DEF WaitingOK
<1>7. AskedOK'
  <2> SUFFICES ASSUME NEW f \in Remote
               PROVE  asked[f] <= current' /\ asked[f] <= file'[f].lastRead
    BY <1>3 DEF AskedOK
  <2>1. f \in Files /\ asked[f] \in Nat
    BY ReadoutAssumption DEF BufferTypeOK
  <2>2. asked[f] <= file[f].lastRead
    BY DEF AskedOK, Trigger
  <2> QED
    BY <1>1, <1>3, <2>1, <2>2 DEF TimesOK
<1>8. FreshContent' /\ SameContentInPass'
  BY <1>3 DEF FreshContent, SameContentInPass
<1> QED
  BY <1>2, <1>4, <1>5, <1>6, <1>7, <1>8

LEMMA StartReadStep == BufferInv /\ StartRead => BufferInv'
<1> SUFFICES ASSUME BufferInv, StartRead PROVE BufferInv'
  OBVIOUS
<1> USE DEF BufferInv
<1>1. /\ phase = "measure" /\ phase' = "reading"
      /\ UNCHANGED <<now, current, turn, used>>
  BY DEF StartRead
<1>2. CASE Source[turn] = "homematic" /\ UNCHANGED <<file, asked>>
  <2>1. BufferTypeOK'
    BY <1>1, <1>2 DEF BufferTypeOK, Phases
  <2>2. TimesOK' /\ SharedOK' /\ FreshContent' /\ SameContentInPass'
    BY <1>1, <1>2 DEF TimesOK, SharedOK, Buffered, FreshContent, SameContentInPass
  <2>3. AskedOK'
    BY <1>1, <1>2 DEF AskedOK
  <2>4. WaitingOK'
    BY <1>1, <1>2, ReadoutAssumption DEF WaitingOK
  <2> QED
    BY <2>1, <2>2, <2>3, <2>4
<1>3. CASE /\ Source[turn] \in Files
           /\ ~Buffered(Source[turn])
           /\ file' = [file EXCEPT ![Source[turn]].content = Nothing]
           /\ asked' = IF Source[turn] \in Remote
                       THEN [asked EXCEPT ![Source[turn]] = current] ELSE asked
  <2> DEFINE g == Source[turn]
  <2>1. BufferTypeOK'
    BY <1>1, <1>3, NothingIsContent DEF BufferTypeOK, Phases, FileState
  <2>2. \A f \in Files : /\ file'[f].lastRead = file[f].lastRead
                         /\ file'[f].at = file[f].at
                         /\ f # g => file'[f] = file[f]
    BY <1>3 DEF BufferTypeOK, FileState
  <2>3. TimesOK'
    BY <1>1, <2>2 DEF TimesOK
  <2>4. SharedOK'
    <3> SUFFICES ASSUME NEW i \in Sensors, Source[i] \in Files
                 PROVE  /\ used[i].pass <= current
                        /\ used[i].pass = current =>
                              /\ Buffered(Source[i])'
                              /\ used[i].content = file'[Source[i]].content
                              /\ used[i].at = file'[Source[i]].at
      BY <1>1 DEF SharedOK
    <3>1. CASE Source[i] = g
      BY <1>3, <3>1 DEF SharedOK
    <3>2. CASE Source[i] # g
      BY <1>1, <2>2, <3>2 DEF SharedOK, Buffered
    <3> QED
      BY <3>1, <3>2
  <2>5. WaitingOK'
    BY <1>1, <1>3, <2>2 DEF WaitingOK, Buffered
  <2>6. AskedOK'
    <3> SUFFICES ASSUME NEW f \in Remote
                 PROVE  /\ asked'[f] <= current
                        /\ g # f => asked'[f] <= file'[f].lastRead
      BY <1>1 DEF AskedOK
    <3>1. f \in Files
      BY ReadoutAssumption
    <3>2. CASE f = g
      BY <1>3, <3>1, <3>2 DEF BufferTypeOK
    <3>3. CASE f # g
      BY <1>1, <1>3, <2>2, <3>1, <3>3 DEF AskedOK, BufferTypeOK
    <3> QED
      BY <3>2, <3>3
  <2>7. FreshContent' /\ SameContentInPass'
    BY <1>1 DEF FreshContent, SameContentInPass
  <2> QED
    BY <2>1, <2>3, <2>4, <2>5, <2>6, <2>7
<1> QED
  BY <1>2, <1>3 DEF StartRead

(* Sensor turn is given a content that the buffer holds after the step, or *)
(* nothing at all.                                                         *)
LEMMA GivenStep ==
    ASSUME BufferInv, NEW f \in Files, Source[turn] = f,
           NEW content \in Content, NEW at \in Nat,
           current <= at + BufferTime,
           used' \in {used, [used EXCEPT ![turn] =
                                [pass |-> current, at |-> at, content |-> content]]},
           current' = current,
           Buffered(f)', file'[f].content = content, file'[f].at = at,
           \A g \in Files : g # f => file'[g] = file[g],
           file'[f] = file[f] \/ ~Buffered(f)
    PROVE  SharedOK' /\ FreshContent' /\ SameContentInPass'
<1> USE DEF BufferInv
<1> DEFINE new == [pass |-> current, at |-> at, content |-> content]
<1>1. turn \in Sensors /\ used \in [Sensors -> Use] /\ current \in Nat
  BY DEF BufferTypeOK
<1>2. \A i \in Sensors : i # turn => used'[i] = used[i]
  BY <1>1
<1>3. used'[turn] \in {used[turn], new}
  BY <1>1
<1>4. \A i \in Sensors : Source[i] = f /\ used[i].pass = current =>
          used[i].content = content /\ used[i].at = at
  BY DEF SharedOK
<1>5. \A i \in Sensors : used[i] = [pass |-> used[i].pass, at |-> used[i].at,
                                    content |-> used[i].content]
  BY <1>1 DEF Use
<1>6. \A i \in Sensors : Source[i] = f =>
          /\ used'[i].pass <= current
          /\ used'[i].pass = current => used'[i] = new
  <2> SUFFICES ASSUME NEW i \in Sensors, Source[i] = f
               PROVE  /\ used'[i].pass <= current
                      /\ used'[i].pass = current => used'[i] = new
    OBVIOUS
  <2>1. CASE used'[i] = new
    BY <2>1, <1>1
  <2>2. CASE used'[i] = used[i]
    <3>1. used[i].pass <= current
      BY DEF SharedOK
    <3> QED
      BY <2>2, <3>1, <1>4, <1>5
  <2> QED
    BY <1>2, <1>3, <2>1, <2>2
<1>7. SharedOK'
  <2> SUFFICES ASSUME NEW i \in Sensors, Source[i] \in Files
               PROVE  /\ used'[i].pass <= current
                      /\ used'[i].pass = current =>
                            /\ Buffered(Source[i])'
                            /\ used'[i].content = file'[Source[i]].content
                            /\ used'[i].at = file'[Source[i]].at
    BY DEF SharedOK
  <2>1. CASE Source[i] = f
    BY <2>1, <1>6
  <2>2. CASE Source[i] # f
    BY <2>2, <1>2 DEF SharedOK, Buffered
  <2> QED
    BY <2>1, <2>2
<1>8. FreshContent'
  BY <1>1, <1>2, <1>3 DEF FreshContent
<1>9. SameContentInPass'
  <2> SUFFICES ASSUME NEW i \in Sensors, NEW j \in Sensors, Source[i] \in Files,
                      Source[i] = Source[j], used'[i].pass = used'[j].pass
               PROVE  used'[i] = used'[j]
    BY DEF SameContentInPass
  <2>1. CASE i # turn /\ j # turn
    BY <2>1, <1>2 DEF SameContentInPass
  <2>2. CASE i = turn \/ j = turn
    <3>1. Source[i] = f /\ Source[j] = f
      BY <2>2
    <3>2. CASE used'[i].pass = current
      BY <3>1, <3>2, <1>6
    <3>3. CASE used'[i].pass # current
      <4>1. used'[i] = used[i] /\ used'[j] = used[j]
        BY <3>3, <1>2, <1>3
      <4> QED
        BY <4>1 DEF SameContentInPass
    <3> QED
      BY <3>2, <3>3
  <2> QED
    BY <2>1, <2>2
<1> QED
  BY <1>7, <1>8, <1>9

LEMMA ReadBufferedStep == BufferInv /\ ReadBuffered => BufferInv'
<1> SUFFICES ASSUME BufferInv, ReadBuffered PROVE BufferInv'
  OBVIOUS
<1> USE DEF BufferInv
<1>0. PICK f \in Files : f = Source[turn]
  BY DEF ReadBuffered
<1>1. /\ phase = "measure" /\ Buffered(f)
      /\ Evaluate(Cleaned(sensor[turn], Config[turn], current), file[f].content, file[f].at)
      /\ UNCHANGED <<now, current, file, asked>>
  BY <1>0 DEF ReadBuffered
<1>2. /\ file[f].content \in Content /\ file[f].at \in Nat /\ file[f].lastRead \in Nat
      /\ current \in Nat
  BY <1>1 DEF BufferTypeOK, FileState
<1>3. /\ turn' \in Sensors /\ phase' \in Phases /\ phase' # "reading"
      /\ used' \in [Sensors -> Use]
      /\ used' \in {used, [used EXCEPT ![turn] =
             [pass |-> current, at |-> file[f].at, content |-> file[f].content]]}
  BY <1>1, <1>2, EvaluateStep
<1>4. BufferTypeOK'
  BY <1>1, <1>3 DEF BufferTypeOK
<1>5. TimesOK' /\ WaitingOK'
  BY <1>1, <1>3 DEF TimesOK, WaitingOK
<1>6. AskedOK'
  BY <1>1, <1>3 DEF AskedOK
<1>7. current <= file[f].at + BufferTime
  BY <1>1, <1>2, ReadoutAssumption DEF Buffered, TimesOK
<1>8. Buffered(f)' <=> Buffered(f)
  BY <1>1 DEF Buffered
<1>9. SharedOK' /\ FreshContent' /\ SameContentInPass'
  BY <1>0, <1>1, <1>2, <1>3, <1>7, <1>8, GivenStep
<1> QED
  BY <1>4, <1>5, <1>6, <1>9

LEMMA ReceiveStep ==
    ASSUME BufferInv, phase = "reading", Source[turn] \in Files,
           NEW content \in Content, Receive(Source[turn], content)
    PROVE  BufferInv'
<1> USE DEF BufferInv
<1>0. PICK f \in Files : f = Source[turn]
  OBVIOUS
<1>1. /\ file' = [file EXCEPT ![f] = [content |-> content, at |-> now, lastRead |-> current]]
      /\ Evaluate(sensor[turn], content, now)
      /\ UNCHANGED <<now, current, asked>>
  BY <1>0 DEF Receive
<1>2. now \in Nat /\ current \in Nat /\ current <= now /\ BufferTime \in Nat
  BY ReadoutAssumption DEF BufferTypeOK, TimesOK
<1>3. /\ turn' \in Sensors /\ phase' \in Phases /\ phase' # "reading"
      /\ used' \in [Sensors -> Use]
      /\ used' \in {used, [used EXCEPT ![turn] =
             [pass |-> current, at |-> now, content |-> content]]}
  BY <1>1, <1>2, EvaluateStep
<1>4. /\ file'[f].content = content /\ file'[f].at = now /\ file'[f].lastRead = current
      /\ \A g \in Files : g # f => file'[g] = file[g]
  BY <1>1 DEF BufferTypeOK
<1>5. BufferTypeOK'
  BY <1>1, <1>2, <1>3 DEF BufferTypeOK, FileState
<1>6. TimesOK' /\ WaitingOK'
  BY <1>1, <1>2, <1>3, <1>4 DEF TimesOK, WaitingOK
<1>7. AskedOK'
  <2> SUFFICES ASSUME NEW g \in Remote
               PROVE  asked[g] <= current /\ asked[g] <= file'[g].lastRead
    BY <1>1 DEF AskedOK
  <2>1. g \in Files
    BY ReadoutAssumption
  <2> QED
    BY <2>1, <1>0, <1>4 DEF AskedOK
<1>8. Buffered(f)'
  BY <1>1, <1>2, <1>4 DEF Buffered
<1>9. ~Buffered(f)
  BY <1>0 DEF WaitingOK
<1>10. current <= now + BufferTime
  BY <1>2
<1>11. SharedOK' /\ FreshContent' /\ SameContentInPass'
  BY <1>0, <1>1, <1>2, <1>3, <1>4, <1>8, <1>9, <1>10, GivenStep
<1> QED
  BY <1>5, <1>6, <1>7, <1>11

LEMMA NextStep == BufferInv /\ [Next]_vars => BufferInv'
<1> SUFFICES ASSUME BufferInv, [Next]_vars PROVE BufferInv'
  OBVIOUS
<1> USE DEF BufferInv
<1>0. turn \in Sensors /\ phase \in Phases /\ now \in Nat
  BY DEF BufferTypeOK
<1>1. CASE Trigger
  BY <1>1, TriggerStep
<1>2. CASE NotDue
  BY <1>0, <1>2, GoOnStep, QuietStep DEF NotDue
<1>3. CASE ReadBuffered
  BY <1>3, ReadBufferedStep
<1>4. CASE StartRead
  BY <1>4, StartReadStep
<1>5. CASE ContentRead
  <2>1. PICK content \in Contents[Source[turn]] : Receive(Source[turn], content)
    BY <1>5 DEF ContentRead
  <2>2. phase = "reading" /\ Source[turn] \in Files
    BY <1>5 DEF ContentRead
  <2>3. content \in Content
    BY <2>2, ReadoutAssumption
  <2> QED
    BY <2>1, <2>2, <2>3, ReceiveStep
<1>6. CASE RequestFails
  <2>1. phase = "reading" /\ Source[turn] \in Files
    BY <1>6, ReadoutAssumption DEF RequestFails
  <2> QED
    BY <1>6, <2>1, ReceiveStep, NothingIsContent DEF RequestFails
<1>7. CASE FileIsLocked
  BY <1>0, <1>7, QuietStep DEF FileIsLocked
<1>8. CASE FileFails
  BY <1>0, <1>8, GoOnStep, QuietStep DEF FileFails
<1>9. CASE HomematicAnswer
  <2>1. /\ phase = "reading" /\ Source[turn] = "homematic" /\ GoOn
        /\ UNCHANGED <<now, current, file, used, asked>>
    BY <1>9 DEF HomematicAnswer
  <2>2. "homematic" \notin Remote
    BY ReadoutAssumption
  <2> QED
    BY <1>0, <2>1, <2>2, GoOnStep, QuietStep
<1>10. CASE Tick
  BY <1>0, <1>10, QuietStep DEF Tick
<1>11. CASE UNCHANGED vars
  BY <1>0, <1>11, QuietStep DEF vars
<1> QED
  BY <1>1, <1>2, <1>3, <1>4, <1>5, <1>6, <1>7, <1>8, <1>9, <1>10, <1>11 DEF Next

THEOREM BufferInvariant == Spec => []BufferInv
<1>1. Init => BufferInv
  BY InitBuffer
<1>2. BufferInv /\ [Next]_vars => BufferInv'
  BY NextStep
<1> QED
  BY <1>1, <1>2, PTL DEF Spec

(* The sensors of one file agree within a pass of logger::trigger().       *)
THEOREM OneDocumentPerPass == Spec => []SameContentInPass
<1>1. BufferInv => SameContentInPass
  BY DEF BufferInv
<1> QED
  BY <1>1, BufferInvariant, PTL

(* readoutFile::getContent() hands out nothing that is too old.            *)
THEOREM ContentIsFresh == Spec => []FreshContent
<1>1. BufferInv => FreshContent
  BY DEF BufferInv
<1> QED
  BY <1>1, BufferInvariant, PTL

(* A silent server costs one timeout per BUFFERTIME, not one per sensor.   *)
THEOREM ServersAreAskedOnce == Spec => AsksOnce
<1>1. BufferInv /\ [Next]_vars =>
         [\A f \in Remote : asked'[f] # asked[f] => asked'[f] > asked[f] + BufferTime]_vars
  <2> SUFFICES ASSUME BufferInv, Next, NEW f \in Remote, asked'[f] # asked[f]
               PROVE  asked'[f] > asked[f] + BufferTime
    OBVIOUS
  <2>1. StartRead
    BY DEF Next, Trigger, NotDue, ReadBuffered, ContentRead, RequestFails, Receive,
           FileIsLocked, FileFails, HomematicAnswer, Tick
  <2>2. /\ phase = "measure" /\ asked \in [Files -> Nat] /\ f \in Files
        /\ file[f].lastRead \in Nat /\ current \in Nat /\ BufferTime \in Nat
    BY <2>1, ReadoutAssumption DEF StartRead, BufferInv, BufferTypeOK, FileState
  <2>3. Source[turn] = f /\ ~Buffered(f) /\ asked'[f] = current
    BY <2>1, <2>2 DEF StartRead
  <2>4. asked[f] <= file[f].lastRead
    BY <2>2 DEF BufferInv, AskedOK
  <2> QED
    BY <2>2, <2>3, <2>4 DEF Buffered
<1> QED
  BY <1>1, BufferInvariant, PTL DEF Spec, AsksOnce

-----------------------------------------------------------------------------
(***************************************************************************)
(* The sensors: a reading is recorded or has failed at a time that is at   *)
(* least a rest period after 1970.                                         *)
(***************************************************************************)
SensorsTyped ==
    /\ StartTime <= now
    /\ trial \in 1..N_TRIALS
    /\ sensor \in [Sensors -> SensorState]

LEMMA SensorOperations ==
    ASSUME BufferTypeOK, SensorsTyped, NEW s \in SensorState
    PROVE  /\ Cleaned(s, Config[turn], current) \in SensorState
           /\ AddRawMeasurement(s, Config[turn], now) \in SensorState
           /\ AddReadFailure(s, Config[turn], now) \in SensorState
<1>1. Config[turn] \in SensorConfig /\ now \in Nat /\ current \in Nat /\ turn \in Sensors
  BY ReadoutAssumption DEF BufferTypeOK
<1>2. Config[turn].rest <= now
  <2>1. StartTime > Config[turn].rest + Config[turn].keep /\ StartTime \in Nat
    BY <1>1, ReadoutAssumption
  <2>2. Config[turn].rest \in Nat /\ Config[turn].keep \in Nat
    BY <1>1 DEF SensorConfig
  <2> QED
    BY <1>1, <2>1, <2>2 DEF SensorsTyped
<1> QED
  BY <1>1, <1>2, CleanedType, RecordedType, FailedType

LEMMA EvaluatedSensors ==
    ASSUME BufferTypeOK, SensorsTyped, NEW old \in SensorState, NEW content, NEW at,
           Evaluate(old, content, at)
    PROVE  sensor' \in [Sensors -> SensorState]
<1>1. \/ sensor' = sensor
      \/ sensor' = [sensor EXCEPT ![turn] = AddReadFailure(old, Config[turn], now)]
      \/ sensor' = [sensor EXCEPT ![turn] = AddRawMeasurement(old, Config[turn], now)]
  BY DEF Evaluate
<1> QED
  BY <1>1, SensorOperations DEF SensorsTyped

LEMMA SensorsStep ==
    ASSUME BufferTypeOK, SensorsTyped, [Next]_vars
    PROVE  SensorsTyped'
<1>0. /\ now \in Nat /\ turn \in Sensors /\ sensor[turn] \in SensorState
      /\ sensor \in [Sensors -> SensorState] /\ StartTime <= now /\ StartTime \in Nat
      /\ Cleaned(sensor[turn], Config[turn], current) \in SensorState
  BY ReadoutAssumption, SensorOperations DEF BufferTypeOK, SensorsTyped
<1>1. CASE Trigger \/ NotDue \/ UNCHANGED vars
  BY <1>1 DEF Trigger, NotDue, vars, SensorsTyped
<1>2. CASE ReadBuffered
  <2>1. \E content, at : Evaluate(Cleaned(sensor[turn], Config[turn], current), content, at)
    BY <1>2 DEF ReadBuffered
  <2> QED
    BY <1>0, <1>2, <2>1, EvaluatedSensors DEF ReadBuffered, SensorsTyped
<1>3. CASE StartRead
  <2>1. sensor' = [sensor EXCEPT ![turn] = Cleaned(sensor[turn], Config[turn], current)]
    BY <1>3 DEF StartRead
  <2>2. trial' = 1 /\ now' = now
    BY <1>3 DEF StartRead
  <2> QED
    BY <1>0, <2>1, <2>2 DEF SensorsTyped, N_TRIALS
<1>4. CASE ContentRead \/ RequestFails
  <2>1. \E content : Evaluate(sensor[turn], content, now)
    BY <1>4 DEF ContentRead, RequestFails, Receive
  <2>2. UNCHANGED <<now, trial>>
    BY <1>4 DEF ContentRead, RequestFails, Receive
  <2> QED
    BY <1>0, <2>1, <2>2, EvaluatedSensors DEF SensorsTyped
<1>5. CASE FileIsLocked
  BY <1>5 DEF FileIsLocked, SensorsTyped, N_TRIALS
<1>6. CASE FileFails
  <2>1. sensor' = [sensor EXCEPT ![turn] = AddReadFailure(sensor[turn], Config[turn], now)]
        /\ UNCHANGED <<now, trial>>
    BY <1>6 DEF FileFails
  <2> QED
    BY <1>0, <2>1, SensorOperations DEF SensorsTyped
<1>7. CASE HomematicAnswer
  <2>1. /\ \/ sensor' = [sensor EXCEPT ![turn] = AddReadFailure(sensor[turn], Config[turn], now)]
           \/ sensor' = [sensor EXCEPT ![turn] = AddRawMeasurement(sensor[turn], Config[turn], now)]
        /\ UNCHANGED <<now, trial>>
    BY <1>7 DEF HomematicAnswer
  <2> QED
    BY <1>0, <2>1, SensorOperations DEF SensorsTyped
<1>8. CASE Tick
  BY <1>0, <1>8 DEF Tick, SensorsTyped
<1> QED
  BY <1>1, <1>2, <1>3, <1>4, <1>5, <1>6, <1>7, <1>8 DEF Next

(* The types: no operation of a sensor leaves the numbers.                 *)
THEOREM TypeCorrect == Spec => []TypeOK
<1>1. Init => SensorsTyped
  <2>1. NewSensor \in SensorState /\ StartTime \in Nat
    BY ReadoutAssumption DEF NewSensor, SensorState
  <2> QED
    BY <2>1 DEF Init, SensorsTyped, N_TRIALS
<1>2. BufferInv /\ SensorsTyped /\ [Next]_vars => SensorsTyped'
  BY SensorsStep DEF BufferInv
<1>3. BufferInv /\ SensorsTyped => TypeOK
  BY DEF BufferInv, BufferTypeOK, SensorsTyped, TypeOK
<1> QED
  BY <1>1, <1>2, <1>3, BufferInvariant, PTL DEF Spec

-----------------------------------------------------------------------------
(***************************************************************************)
(* findCorrespondingBracket(): seek is a function that satisfies its       *)
(* equation, built from the end of the text.                               *)
(***************************************************************************)
SeekAt(text, open, f, p, level) ==
    IF p > Len(text) THEN 0
    ELSE IF text[p] = Escape THEN f[p + 2][level]
    ELSE IF text[p] = ClosingOf[open]
         THEN IF level = 0 THEN p ELSE f[p + 1][level - 1]
    ELSE f[p + 1][IF text[p] = open THEN level + 1 ELSE level]

Seeks(text, open, f) == [p \in Nat |-> [level \in Nat |-> SeekAt(text, open, f, p, level)]]
Seek(text, open) == CHOOSE f : f = Seeks(text, open, f)

LEMMA BracketIsSought ==
    ASSUME NEW text, NEW pos
    PROVE  CorrespondingBracket(text, pos) = Seek(text, text[pos])[pos + 1][0]
BY DEF CorrespondingBracket, Seek, Seeks, SeekAt

(* f satisfies the equation of seek from position first on.                *)
SeeksFrom(text, open, f, first) ==
    \A p, l \in Nat : p >= first => f[p][l] = SeekAt(text, open, f, p, l)

LEMMA SeekAtNumber ==
    ASSUME NEW Tok, NEW text \in Seq(Tok), NEW open, NEW f \in [Nat -> [Nat -> Nat]],
           NEW p \in Nat, NEW l \in Nat
    PROVE  SeekAt(text, open, f, p, l) \in Nat
<1>1. \A a, b \in Nat : f[a][b] \in Nat
  <2> TAKE a, b \in Nat
  <2>1. f[a] \in [Nat -> Nat]
    OBVIOUS
  <2> QED
    BY <2>1
<1>2. l # 0 => l - 1 \in Nat
  OBVIOUS
<1>3. p + 1 \in Nat /\ p + 2 \in Nat /\ l + 1 \in Nat
  OBVIOUS
<1>4. CASE text[p] = Escape
  BY <1>1, <1>3, <1>4 DEF SeekAt
<1>5. CASE text[p] = ClosingOf[open] /\ text[p] # Escape
  BY <1>1, <1>2, <1>3, <1>5 DEF SeekAt
<1>6. CASE text[p] # ClosingOf[open] /\ text[p] # Escape
  BY <1>1, <1>3, <1>6 DEF SeekAt
<1> QED
  BY <1>4, <1>5, <1>6

LEMMA SeekExtends ==
    ASSUME NEW Tok, NEW text \in Seq(Tok), NEW open, NEW f \in [Nat -> [Nat -> Nat]],
           NEW first \in Nat, SeeksFrom(text, open, f, first + 1)
    PROVE  \E g \in [Nat -> [Nat -> Nat]] : SeeksFrom(text, open, g, first)
<1> DEFINE new == [l \in Nat |-> SeekAt(text, open, f, first, l)]
           g == [f EXCEPT ![first] = new]
<1>1. new \in [Nat -> Nat]
  BY SeekAtNumber
<1>2. g \in [Nat -> [Nat -> Nat]] /\ g[first] = new
  <2> HIDE DEF new
  <2> QED
    BY <1>1
<1>3. \A p \in Nat : p # first => g[p] = f[p]
  <2> HIDE DEF new
  <2> QED
    OBVIOUS
<1>4. \A l \in Nat : new[l] = SeekAt(text, open, f, first, l)
  OBVIOUS
<1> HIDE DEF new, g
<1>5. ASSUME NEW p \in Nat, NEW l \in Nat, p >= first
      PROVE  g[p][l] = SeekAt(text, open, g, p, l)
  <2>1. g[p][l] = SeekAt(text, open, f, p, l)
    <3>1. CASE p = first
      BY <1>2, <1>4, <3>1
    <3>2. CASE p # first
      <4>1. p >= first + 1
        BY <1>5, <3>2
      <4>2. f[p][l] = SeekAt(text, open, f, p, l)
        BY <4>1 DEF SeeksFrom
      <4> QED
        BY <1>3, <3>2, <4>2
    <3> QED
      BY <3>1, <3>2
  <2>2. g[p + 1] = f[p + 1] /\ g[p + 2] = f[p + 2]
    <3>1. p + 1 \in Nat /\ p + 2 \in Nat /\ p + 1 # first /\ p + 2 # first
      BY <1>5
    <3> QED
      BY <1>3, <3>1
  <2>3. SeekAt(text, open, g, p, l) = SeekAt(text, open, f, p, l)
    BY <2>2, Zenon DEF SeekAt
  <2> QED
    BY <2>1, <2>3
<1> QED
  BY <1>2, <1>5 DEF SeeksFrom

LEMMA SeekEquation ==
    ASSUME NEW Tok, NEW text \in Seq(Tok), NEW open, NEW p \in Nat, NEW l \in Nat
    PROVE  Seek(text, open)[p][l] = SeekAt(text, open, Seek(text, open), p, l)
<1> DEFINE good == {n \in Nat : \E f \in [Nat -> [Nat -> Nat]] : SeeksFrom(text, open, f, n)}
<1>1. Len(text) + 1 \in good
  <2> DEFINE f == [q \in Nat |-> [k \in Nat |-> 0]]
  <2>1. f \in [Nat -> [Nat -> Nat]] /\ \A q, k \in Nat : f[q][k] = 0
    OBVIOUS
  <2>2. \A q, k \in Nat : q >= Len(text) + 1 => SeekAt(text, open, f, q, k) = 0
    BY DEF SeekAt
  <2> HIDE DEF f
  <2>3. SeeksFrom(text, open, f, Len(text) + 1)
    BY <2>1, <2>2 DEF SeeksFrom
  <2>4. \E h \in [Nat -> [Nat -> Nat]] : SeeksFrom(text, open, h, Len(text) + 1)
    BY <2>1, <2>3
  <2>5. Len(text) + 1 \in Nat
    OBVIOUS
  <2> QED
    BY <2>4, <2>5
<1>2. PICK n \in good : \A k \in good : n <= k
  <2>1. good \in SUBSET Nat
    OBVIOUS
  <2> HIDE DEF good
  <2> QED
    BY <1>1, <2>1, HasOldest
<1>3. n = 0
  <2> SUFFICES ASSUME n # 0 PROVE FALSE
    OBVIOUS
  <2>1. n - 1 \in Nat /\ n = (n - 1) + 1 /\ n \in Nat
    OBVIOUS
  <2>2. \E f \in [Nat -> [Nat -> Nat]] : SeeksFrom(text, open, f, n - 1)
    BY <2>1, SeekExtends
  <2>3. n - 1 \in good
    BY <2>1, <2>2
  <2>4. n <= n - 1
    <3> HIDE DEF good
    <3> QED
      BY <1>2, <2>3
  <2> QED
    BY <2>1, <2>4
<1>4. PICK f \in [Nat -> [Nat -> Nat]] : SeeksFrom(text, open, f, 0)
  BY <1>3
<1>5. f = Seeks(text, open, f)
  <2>1. \A q, k \in Nat : f[q][k] = SeekAt(text, open, f, q, k)
    BY <1>4 DEF SeeksFrom
  <2>2. \A q \in Nat : f[q] = [k \in Nat |-> SeekAt(text, open, f, q, k)]
    BY <2>1
  <2> QED
    BY <2>2 DEF Seeks
<1>6. Seek(text, open) = Seeks(text, open, Seek(text, open))
  BY <1>5 DEF Seek
<1> DEFINE s == Seek(text, open)
<1>7. s = Seeks(text, open, s)
  BY <1>6
<1> HIDE DEF s
<1>8. s[p] = [level \in Nat |-> SeekAt(text, open, s, p, level)]
  <2>1. Seeks(text, open, s)[p] = [level \in Nat |-> SeekAt(text, open, s, p, level)]
    BY DEF Seeks
  <2> QED
    BY <1>7, <2>1
<1>9. s[p][l] = SeekAt(text, open, s, p, l)
  BY <1>8
<1> QED
  BY <1>9 DEF s

(* Induction from the end of a text to its beginning.                      *)
LEMMA Backwards ==
    ASSUME NEW n \in Nat, NEW S \in SUBSET Nat, \A p \in Nat : p > n => p \in S,
           \A p \in Nat : p <= n /\ (\A q \in Nat : q > p => q \in S) => p \in S
    PROVE  S = Nat
<1>1. SUFFICES ASSUME NEW out \in Nat, out \notin S PROVE FALSE
  OBVIOUS
<1> DEFINE dist == {d \in Nat : \E p \in Nat : p \notin S /\ d + p = n}
<1>2. dist \in SUBSET Nat
  OBVIOUS
<1>3. n - out \in dist
  <2>1. n - out \in Nat /\ (n - out) + out = n
    BY <1>1
  <2> QED
    BY <1>1, <2>1
<1>4. PICK d \in dist : \A e \in dist : d <= e
  <2> HIDE DEF dist
  <2> QED
    BY <1>2, <1>3, HasOldest
<1>5. PICK p \in Nat : p \notin S /\ d + p = n
  BY <1>4
<1>6. ASSUME NEW q \in Nat, q > p PROVE q \in S
  <2> SUFFICES ASSUME q \notin S PROVE FALSE
    OBVIOUS
  <2>1. q <= n
    BY <1>1
  <2>2. n - q \in Nat /\ (n - q) + q = n
    BY <2>1
  <2>3. n - q \in dist
    BY <2>2
  <2>4. d <= n - q /\ d \in Nat
    <3> HIDE DEF dist
    <3> QED
      BY <1>2, <1>4, <2>3
  <2> QED
    BY <1>5, <1>6, <2>4
<1>7. p <= n
  BY <1>2, <1>5
<1> QED
  BY <1>5, <1>6, <1>7

(* A corresponding bracket lies behind its opening one, within the text.   *)
LEMMA SeekRange ==
    ASSUME NEW Tok, NEW text \in Seq(Tok), NEW open
    PROVE  \A p, l \in Nat : Seek(text, open)[p][l] \in {0} \cup p..Len(text)
<1> DEFINE s == Seek(text, open)
           S == {p \in Nat : \A l \in Nat : s[p][l] \in {0} \cup p..Len(text)}
<1>1. \A p, l \in Nat : s[p][l] = SeekAt(text, open, s, p, l)
  BY SeekEquation
<1>2. Len(text) \in Nat
  OBVIOUS
<1> HIDE DEF s
<1>3. \A p \in Nat : p > Len(text) => p \in S
  BY <1>1 DEF SeekAt
<1>4. ASSUME NEW p \in Nat, p <= Len(text), \A q \in Nat : q > p => q \in S
      PROVE  p \in S
  <2>1. \A l \in Nat : /\ s[p + 1][l] \in {0} \cup p..Len(text)
                       /\ s[p + 2][l] \in {0} \cup p..Len(text)
    <3>1. p + 1 \in S /\ p + 2 \in S
      BY <1>4
    <3> QED
      BY <1>2, <3>1
  <2>2. ASSUME NEW l \in Nat PROVE s[p][l] \in {0} \cup p..Len(text)
    <3>1. l # 0 => l - 1 \in Nat
      OBVIOUS
    <3>2. s[p][l] = SeekAt(text, open, s, p, l)
      BY <1>1
    <3>3. p \in p..Len(text) /\ l + 1 \in Nat
      BY <1>2, <1>4
    <3>4. CASE text[p] = Escape
      BY <1>2, <1>4, <2>1, <3>2, <3>4 DEF SeekAt
    <3>5. CASE text[p] = ClosingOf[open] /\ text[p] # Escape
      BY <1>2, <1>4, <2>1, <3>1, <3>2, <3>3, <3>5 DEF SeekAt
    <3>6. CASE text[p] # ClosingOf[open] /\ text[p] # Escape
      BY <1>2, <1>4, <2>1, <3>2, <3>3, <3>6 DEF SeekAt
    <3> QED
      BY <3>4, <3>5, <3>6
  <2> QED
    BY <2>2
<1>5. S = Nat
  <2> HIDE DEF S
  <2>1. S \in SUBSET Nat
    BY DEF S
  <2> QED
    BY <1>2, <1>3, <1>4, <2>1, Backwards
<1> QED
  BY <1>5 DEF s

(* The first tokens of a text.                                             *)
Cut(text, c) == SubSeq(text, 1, c)

LEMMA CutTokens ==
    ASSUME NEW Tok, NEW text \in Seq(Tok), NEW c \in 0..Len(text)
    PROVE  /\ Cut(text, c) \in Seq(Tok)
           /\ Len(Cut(text, c)) = c
           /\ \A p \in 1..c : Cut(text, c)[p] = text[p]
BY DEF Cut

LEMMA SeekInCut ==
    ASSUME NEW Tok, NEW text \in Seq(Tok), NEW c \in 0..Len(text), NEW open
    PROVE  \A p \in Nat \ {0} : \A l \in Nat :
              Seek(Cut(text, c), open)[p][l] =
                  IF Seek(text, open)[p][l] <= c THEN Seek(text, open)[p][l] ELSE 0
<1> DEFINE s == Seek(text, open)
           t == Seek(Cut(text, c), open)
           S == {p \in Nat : p # 0 =>
                    \A l \in Nat : t[p][l] = IF s[p][l] <= c THEN s[p][l] ELSE 0}
<1>1. \A p, l \in Nat : s[p][l] = SeekAt(text, open, s, p, l)
  BY SeekEquation
<1>2. \A p, l \in Nat : t[p][l] = SeekAt(Cut(text, c), open, t, p, l)
  BY CutTokens, SeekEquation
<1>3. \A p, l \in Nat : s[p][l] \in {0} \cup p..Len(text)
  BY SeekRange
<1>4. Len(text) \in Nat /\ c \in Nat /\ Len(Cut(text, c)) = c
  BY CutTokens
<1> HIDE DEF s, t
<1>5. \A p \in Nat : p > c => p \in S
  <2> SUFFICES ASSUME NEW p \in Nat, p > c, NEW l \in Nat
               PROVE  t[p][l] = IF s[p][l] <= c THEN s[p][l] ELSE 0
    OBVIOUS
  <2>1. t[p][l] = 0
    BY <1>2, <1>4 DEF SeekAt
  <2>2. s[p][l] = 0 \/ (s[p][l] \in Nat /\ s[p][l] > c)
    <3>1. s[p][l] \in {0} \cup p..Len(text)
      BY <1>3
    <3> QED
      BY <1>4, <3>1
  <2>3. CASE s[p][l] = 0
    BY <1>4, <2>1, <2>3
  <2>4. CASE s[p][l] \in Nat /\ s[p][l] > c
    BY <1>4, <2>1, <2>4
  <2> QED
    BY <2>2, <2>3, <2>4
<1>6. ASSUME NEW p \in Nat, p <= c, \A q \in Nat : q > p => q \in S
      PROVE  p \in S
  <2> SUFFICES ASSUME p # 0, NEW l \in Nat
               PROVE  t[p][l] = IF s[p][l] <= c THEN s[p][l] ELSE 0
    OBVIOUS
  <2>1. Cut(text, c)[p] = text[p] /\ p <= Len(text)
    <3>1. p \in 1..c /\ p <= Len(text)
      BY <1>4, <1>6
    <3> QED
      BY <3>1, CutTokens
  <2>2. \A k \in Nat :
           /\ t[p + 1][k] = IF s[p + 1][k] <= c THEN s[p + 1][k] ELSE 0
           /\ t[p + 2][k] = IF s[p + 2][k] <= c THEN s[p + 2][k] ELSE 0
    <3>1. p + 1 \in S /\ p + 2 \in S /\ p + 1 # 0 /\ p + 2 # 0
      BY <1>6
    <3> QED
      BY <3>1
  <2>3. l # 0 => l - 1 \in Nat
    OBVIOUS
  <2>4. /\ s[p][l] = SeekAt(text, open, s, p, l)
        /\ t[p][l] = SeekAt(Cut(text, c), open, t, p, l)
    BY <1>1, <1>2
  <2> QED
    BY <1>4, <1>6, <2>1, <2>2, <2>3, <2>4 DEF SeekAt
<1>7. S = Nat
  <2>1. S \in SUBSET Nat
    OBVIOUS
  <2> HIDE DEF S
  <2> QED
    BY <1>4, <1>5, <1>6, <2>1, Backwards
<1> QED
  BY <1>7 DEF s, t

LEMMA BracketInCut ==
    ASSUME NEW Tok, NEW text \in Seq(Tok), NEW c \in 1..Len(text), NEW p \in 1..c
    PROVE  LET b == CorrespondingBracket(text, p)
           IN  /\ b = 0 \/ b \in (p + 1)..Len(text)
               /\ CorrespondingBracket(Cut(text, c), p) = IF b <= c THEN b ELSE 0
<1>1. Cut(text, c)[p] = text[p] /\ p + 1 \in Nat \ {0} /\ 0 \in Nat
  BY CutTokens
<1>2. Seek(text, text[p])[p + 1][0] \in {0} \cup (p + 1)..Len(text)
  BY <1>1, SeekRange
<1>3. Seek(Cut(text, c), text[p])[p + 1][0] =
          IF Seek(text, text[p])[p + 1][0] <= c THEN Seek(text, text[p])[p + 1][0] ELSE 0
  BY <1>1, SeekInCut
<1> QED
  BY <1>1, <1>2, <1>3, BracketIsSought

(***************************************************************************)
(* parse(), first half: strip is a function that satisfies its equation.   *)
(***************************************************************************)
ChunkEnd(text, p) ==
    IF text[p] = Quote THEN CorrespondingBracket(text, p)
    ELSE IF text[p] = Escape /\ p < Len(text) THEN p + 1
    ELSE p

StripAt(text, f, p) ==
    IF p > Len(text) THEN Good(<<>>)
    ELSE IF ChunkEnd(text, p) = 0 THEN Failed
    ELSE IF f[ChunkEnd(text, p) + 1] = Failed \/ text[p] = Space THEN f[ChunkEnd(text, p) + 1]
    ELSE Good(SubSeq(text, p, ChunkEnd(text, p)) \o f[ChunkEnd(text, p) + 1].subs)

Strips(text, f) == [p \in Nat |-> StripAt(text, f, p)]
Strip(text) == CHOOSE f : f = Strips(text, f)

LEMMA StrippedIsStrip ==
    ASSUME NEW text
    PROVE  Stripped(text) = Strip(text)[1]
BY DEF Stripped, Strip, Strips, StripAt, ChunkEnd

LEMMA ChunkEndRange ==
    ASSUME NEW Tok, NEW text \in Seq(Tok), NEW p \in Nat, p <= Len(text)
    PROVE  ChunkEnd(text, p) \in {0} \cup p..Len(text)
<1>1. CASE text[p] = Quote
  <2>1. p + 1 \in Nat /\ 0 \in Nat
    OBVIOUS
  <2>2. Seek(text, text[p])[p + 1][0] \in {0} \cup (p + 1)..Len(text)
    BY <2>1, SeekRange
  <2>3. ChunkEnd(text, p) = Seek(text, text[p])[p + 1][0]
    BY <1>1, BracketIsSought, Zenon DEF ChunkEnd
  <2> QED
    BY <2>2, <2>3
<1>2. CASE text[p] # Quote
  BY <1>2 DEF ChunkEnd
<1> QED
  BY <1>1, <1>2

(* f satisfies the equation of strip from position first on.               *)
StripsFrom(text, f, first) ==
    /\ f = [p \in Nat |-> f[p]]
    /\ \A p \in Nat : p >= first => f[p] = StripAt(text, f, p)

LEMMA StripExtends ==
    ASSUME NEW Tok, NEW text \in Seq(Tok), NEW f, NEW first \in Nat,
           StripsFrom(text, f, first + 1)
    PROVE  \E g : StripsFrom(text, g, first)
<1> DEFINE new == StripAt(text, f, first)
           g == [p \in Nat |-> IF p = first THEN new ELSE f[p]]
<1>1. g[first] = new /\ \A p \in Nat : p # first => g[p] = f[p]
  BY Zenon
<1>2. g = [p \in Nat |-> g[p]]
  BY Zenon
<1>3. new = StripAt(text, f, first)
  OBVIOUS
<1> HIDE DEF new, g
<1>4. ASSUME NEW p \in Nat, p >= first
      PROVE  g[p] = StripAt(text, g, p)
  <2>1. g[p] = StripAt(text, f, p)
    <3>1. CASE p = first
      BY <1>1, <1>3, <3>1
    <3>2. CASE p # first
      <4>1. p >= first + 1
        BY <1>4, <3>2
      <4>2. f[p] = StripAt(text, f, p)
        BY <4>1 DEF StripsFrom
      <4> QED
        BY <1>1, <3>2, <4>2
    <3> QED
      BY <3>1, <3>2
  <2>2. StripAt(text, g, p) = StripAt(text, f, p)
    <3>1. CASE p > Len(text)
      BY <3>1, Zenon DEF StripAt
    <3>2. CASE ChunkEnd(text, p) = 0
      BY <3>2, Zenon DEF StripAt
    <3>3. CASE p <= Len(text) /\ ChunkEnd(text, p) # 0
      <4>1. ChunkEnd(text, p) \in p..Len(text)
        BY <3>3, ChunkEndRange
      <4>2. ChunkEnd(text, p) + 1 \in Nat /\ ChunkEnd(text, p) + 1 # first
        BY <1>4, <4>1
      <4>3. g[ChunkEnd(text, p) + 1] = f[ChunkEnd(text, p) + 1]
        BY <1>1, <4>2
      <4> QED
        BY <4>3, Zenon DEF StripAt
    <3>4. p > Len(text) \/ p <= Len(text)
      OBVIOUS
    <3> QED
      BY <3>1, <3>2, <3>3, <3>4
  <2> QED
    BY <2>1, <2>2
<1>5. StripsFrom(text, g, first)
  BY <1>2, <1>4 DEF StripsFrom
<1> QED
  BY <1>5

LEMMA StripEquation ==
    ASSUME NEW Tok, NEW text \in Seq(Tok), NEW p \in Nat
    PROVE  Strip(text)[p] = StripAt(text, Strip(text), p)
<1> DEFINE good == {n \in Nat : \E f : StripsFrom(text, f, n)}
<1>1. Len(text) + 1 \in good
  <2> DEFINE f == [q \in Nat |-> Good(<<>>)]
  <2>1. f = [q \in Nat |-> f[q]]
    BY Zenon
  <2>2. \A q \in Nat : f[q] = Good(<<>>)
    BY Zenon
  <2> HIDE DEF f
  <2>3. \A q \in Nat : q >= Len(text) + 1 => f[q] = StripAt(text, f, q)
    <3> TAKE q \in Nat
    <3>1. q >= Len(text) + 1 => q > Len(text)
      OBVIOUS
    <3> QED
      BY <2>2, <3>1 DEF StripAt
  <2>4. StripsFrom(text, f, Len(text) + 1)
    BY <2>1, <2>3 DEF StripsFrom
  <2>5. Len(text) + 1 \in Nat
    OBVIOUS
  <2> QED
    BY <2>4, <2>5
<1>2. PICK n \in good : \A k \in good : n <= k
  <2>1. good \in SUBSET Nat
    OBVIOUS
  <2> HIDE DEF good
  <2> QED
    BY <1>1, <2>1, HasOldest
<1>3. n = 0
  <2> SUFFICES ASSUME n # 0 PROVE FALSE
    OBVIOUS
  <2>1. n - 1 \in Nat /\ n = (n - 1) + 1 /\ n \in Nat
    OBVIOUS
  <2>2. \E f : StripsFrom(text, f, n - 1)
    BY <2>1, StripExtends
  <2>3. n - 1 \in good
    BY <2>1, <2>2
  <2>4. n <= n - 1
    <3> HIDE DEF good
    <3> QED
      BY <1>2, <2>3
  <2> QED
    BY <2>1, <2>4
<1>4. PICK f : StripsFrom(text, f, 0)
  BY <1>3
<1>5. f = Strips(text, f)
  <2>1. f = [q \in Nat |-> f[q]] /\ \A q \in Nat : f[q] = StripAt(text, f, q)
    BY <1>4 DEF StripsFrom
  <2>2. [q \in Nat |-> f[q]] = [q \in Nat |-> StripAt(text, f, q)]
    BY <2>1, Zenon
  <2> QED
    BY <2>1, <2>2 DEF Strips
<1>6. Strip(text) = Strips(text, Strip(text))
  BY <1>5 DEF Strip
<1> DEFINE s == Strip(text)
<1>7. s = Strips(text, s)
  BY <1>6
<1> HIDE DEF s
<1>8. Strips(text, s)[p] = StripAt(text, s, p)
  BY DEF Strips
<1> QED
  BY <1>7, <1>8 DEF s

(***************************************************************************)
(* A text that ends with its last token, and its beginning: where the cut  *)
(* leaves a text at all, it is shorter than the whole one, and begins it.  *)
(***************************************************************************)
Begins(r, s) == Len(r) < Len(s) /\ \A k \in 1..Len(r) : r[k] = s[k]

StripsShorter(Tok, cut, whole) ==
    whole # Failed =>
        \E s \in Seq(Tok) :
            /\ whole = Good(s)
            /\ s # <<>>
            /\ cut = Failed \/ \E r \in Seq(Tok) : cut = Good(r) /\ Begins(r, s)

LEMMA Outcomes ==
    /\ \A s : Good(s) # Failed /\ Good(s).subs = s
    /\ Space # Escape /\ Space # Quote /\ Quote # Escape
BY DEF Good, Failed, Space, Escape, Quote

LEMMA Concatenated ==
    ASSUME NEW Tok, NEW a \in Seq(Tok), NEW r \in Seq(Tok), NEW s \in Seq(Tok), Begins(r, s)
    PROVE  Begins(a \o r, a \o s)
<1>1. Len(a \o r) = Len(a) + Len(r) /\ Len(a \o s) = Len(a) + Len(s)
  OBVIOUS
<1>2. ASSUME NEW k \in 1..Len(a \o r) PROVE (a \o r)[k] = (a \o s)[k]
  <2>1. CASE k <= Len(a)
    <3>1. k \in 1..Len(a) /\ k \in 1..Len(a \o s)
      BY <1>1, <2>1
    <3>2. (a \o r)[k] = a[k] /\ (a \o s)[k] = a[k]
      BY <3>1
    <3> QED
      BY <3>2
  <2>2. CASE k > Len(a)
    <3>1. k - Len(a) \in 1..Len(r) /\ k \in 1..Len(a \o s)
      BY <1>1, <2>2 DEF Begins
    <3>2. (a \o r)[k] = r[k - Len(a)] /\ (a \o s)[k] = s[k - Len(a)]
      BY <1>1, <2>2, <3>1
    <3> QED
      BY <3>1, <3>2 DEF Begins
  <2>3. k <= Len(a) \/ k > Len(a)
    OBVIOUS
  <2> QED
    BY <2>1, <2>2, <2>3
<1> QED
  BY <1>1, <1>2 DEF Begins

LEMMA HalfChunk ==
    ASSUME NEW Tok, NEW a \in Seq(Tok), NEW r \in Seq(Tok), NEW s \in Seq(Tok),
           Len(a) = 2, Len(r) = 1, r[1] = a[1]
    PROVE  Begins(r, a \o s)
<1>1. /\ Len(a \o s) = Len(a) + Len(s)
      /\ \A k \in 1..Len(a) + Len(s) :
            (a \o s)[k] = IF k <= Len(a) THEN a[k] ELSE s[k - Len(a)]
  BY ConcatProperties, Zenon
<1>2. Len(s) \in Nat
  OBVIOUS
<1>3. 1 \in 1..Len(a) + Len(s) /\ 1 <= Len(a)
  BY <1>2
<1>4. Len(a \o s) = 2 + Len(s) /\ (a \o s)[1] = a[1]
  BY <1>1, <1>3, Zenon
<1> QED
  BY <1>2, <1>4 DEF Begins

\* The chunk at p, when it is no space, before the rest of the text.
LEMMA ChunkTokens ==
    ASSUME NEW Tok, NEW text \in Seq(Tok), NEW p \in 1..Len(text), NEW last \in p..Len(text)
    PROVE  /\ SubSeq(text, p, last) \in Seq(Tok)
           /\ Len(SubSeq(text, p, last)) = last + 1 - p
           /\ \A k \in 1..(last + 1 - p) : SubSeq(text, p, last)[k] = text[p + k - 1]
OBVIOUS

LEMMA SameChunk ==
    ASSUME NEW Tok, NEW text \in Seq(Tok), NEW c \in 1..Len(text), NEW p \in 1..c, NEW last \in p..c
    PROVE  SubSeq(Cut(text, c), p, last) = SubSeq(text, p, last)
<1>1. Cut(text, c) \in Seq(Tok) /\ Len(Cut(text, c)) = c /\ p \in 1..Len(text)
      /\ last \in p..Len(text) /\ p \in 1..Len(Cut(text, c)) /\ last \in p..Len(Cut(text, c))
  BY CutTokens
<1>2. /\ SubSeq(text, p, last) \in Seq(Tok)
      /\ Len(SubSeq(text, p, last)) = last + 1 - p
      /\ \A k \in 1..(last + 1 - p) : SubSeq(text, p, last)[k] = text[p + k - 1]
  BY <1>1, ChunkTokens
<1>3. /\ SubSeq(Cut(text, c), p, last) \in Seq(Tok)
      /\ Len(SubSeq(Cut(text, c), p, last)) = last + 1 - p
      /\ \A k \in 1..(last + 1 - p) : SubSeq(Cut(text, c), p, last)[k] = Cut(text, c)[p + k - 1]
  BY <1>1, ChunkTokens
<1>4. \A k \in 1..(last + 1 - p) : Cut(text, c)[p + k - 1] = text[p + k - 1]
  <2> TAKE k \in 1..(last + 1 - p)
  <2>1. p + k - 1 \in 1..c
    OBVIOUS
  <2> QED
    BY <2>1, CutTokens
<1> QED
  BY <1>2, <1>3, <1>4, SeqEqual

LEMMA StripStep ==
    ASSUME NEW Tok, NEW text \in Seq(Tok), NEW p \in Nat, NEW last, last = ChunkEnd(text, p),
           NEW rest, rest = Strip(text)[last + 1]
    PROVE  Strip(text)[p] =
               IF p > Len(text) THEN Good(<<>>)
               ELSE IF last = 0 THEN Failed
               ELSE IF rest = Failed \/ text[p] = Space THEN rest
               ELSE Good(SubSeq(text, p, last) \o rest.subs)
BY StripEquation, Zenon DEF StripAt

LEMMA StripInCut ==
    ASSUME NEW Tok, NEW text \in Seq(Tok), NEW c \in 1..(Len(text) - 1),
           text[Len(text)] # Space
    PROVE  \A p \in 1..Len(text) :
              StripsShorter(Tok, Strip(Cut(text, c))[p], Strip(text)[p])
<1> DEFINE cut == Cut(text, c)
           w == Strip(text)
           t == Strip(cut)
           S == {p \in Nat : p \in 1..Len(text) => StripsShorter(Tok, t[p], w[p])}
<1>1. /\ Len(text) \in Nat /\ c \in Nat /\ c < Len(text) /\ c \in 1..Len(text)
      /\ cut \in Seq(Tok) /\ Len(cut) = c /\ \A p \in 1..c : cut[p] = text[p]
  BY CutTokens
<1>2. \A p \in Nat : w[p] = StripAt(text, w, p) /\ t[p] = StripAt(cut, t, p)
  BY <1>1, StripEquation
<1> HIDE DEF cut, w, t
<1>3. \A p \in Nat : p > Len(text) => p \in S
  OBVIOUS
<1>4. ASSUME NEW p \in Nat, p <= Len(text), \A q \in Nat : q > p => q \in S
      PROVE  p \in S
  <2> SUFFICES ASSUME p # 0, w[p] # Failed PROVE StripsShorter(Tok, t[p], w[p])
    BY <1>1 DEF StripsShorter
  <2> DEFINE last == ChunkEnd(text, p)
             rest == w[last + 1]
  <2>1. p \in 1..Len(text) /\ last \in {0} \cup p..Len(text)
    BY <1>4, ChunkEndRange
  <2>2. last # 0
    BY <1>2, <2>1 DEF StripAt
  <2>3. last \in p..Len(text) /\ last + 1 \in Nat /\ last + 1 > p
    BY <2>1, <2>2
  <2>4. rest # Failed /\ w[p] = IF text[p] = Space THEN rest
                                ELSE Good(SubSeq(text, p, last) \o rest.subs)
    <3>1. w[p] = IF rest = Failed \/ text[p] = Space THEN rest
                 ELSE Good(SubSeq(text, p, last) \o rest.subs)
      BY <1>1, <1>2, <2>1, <2>2, <1>4 DEF StripAt
    <3> QED
      BY <3>1
  (* The whole text: its rest is empty, or there is more to come.          *)
  <2> DEFINE s == rest.subs
  <2>5. \/ last = Len(text) /\ rest = Good(<<>>)
        \/ last < Len(text) /\ StripsShorter(Tok, t[last + 1], rest)
    <3>1. CASE last = Len(text)
      BY <1>1, <1>2, <2>3, <3>1 DEF StripAt
    <3>2. CASE last < Len(text)
      <4>1. last + 1 \in S /\ last + 1 \in 1..Len(text)
        BY <1>1, <1>4, <2>3, <3>2
      <4> QED
        BY <3>2, <4>1
    <3> QED
      BY <1>1, <2>3, <3>1, <3>2
  <2>6. s \in Seq(Tok) /\ rest = Good(s) /\ (last < Len(text) => s # <<>>)
    <3>1. CASE last = Len(text) /\ rest = Good(<<>>)
      <4>1. s = <<>>
        BY <3>1, Outcomes, Zenon
      <4>2. <<>> \in Seq(Tok)
        OBVIOUS
      <4>3. rest = Good(s)
        BY <3>1, <4>1, Zenon
      <4>4. ~(last < Len(text))
        BY <1>1, <3>1
      <4> HIDE DEF rest, s, last
      <4> QED
        BY <4>1, <4>2, <4>3, <4>4
    <3>2. CASE last < Len(text) /\ StripsShorter(Tok, t[last + 1], rest)
      BY <2>4, <3>2, Outcomes DEF StripsShorter
    <3> QED
      BY <2>5, <3>1, <3>2
  <2>7. text[p] = Space => last = p /\ last < Len(text)
    <3>1. text[p] = Space => last = p
      BY Outcomes DEF ChunkEnd
    <3>2. text[p] = Space => p # Len(text)
      OBVIOUS
    <3> QED
      BY <1>1, <2>1, <3>1, <3>2
  <2> DEFINE whole == IF text[p] = Space THEN s ELSE SubSeq(text, p, last) \o s
  <2>8. whole \in Seq(Tok) /\ whole # <<>> /\ w[p] = Good(whole)
    <3>1. CASE text[p] = Space
      BY <2>4, <2>6, <2>7, <3>1
    <3>2. CASE text[p] # Space
      <4>1. /\ SubSeq(text, p, last) \in Seq(Tok)
            /\ Len(SubSeq(text, p, last)) = last + 1 - p
        BY <2>1, <2>3, ChunkTokens
      <4>2. last + 1 - p > 0
        BY <2>1, <2>3
      <4>3. whole = SubSeq(text, p, last) \o s /\ w[p] = Good(whole)
        BY <2>4, <3>2, Zenon
      <4>4. whole \in Seq(Tok) /\ Len(whole) = (last + 1 - p) + Len(s)
        <5> HIDE DEF s, whole
        <5> QED
          BY <2>6, <4>1, <4>3
      <4>5. Len(s) \in Nat
        BY <2>6
      <4>6. Len(whole) > 0
        <5> HIDE DEF whole, s, last
        <5>1. last \in Nat /\ p \in Nat
          BY <2>3
        <5> QED
          BY <4>2, <4>4, <4>5, <5>1
      <4>7. whole # <<>>
        <5> HIDE DEF whole
        <5> QED
          BY <4>6
      <4> QED
        BY <4>3, <4>4, <4>7
    <3> QED
      BY <3>1, <3>2
  (* The cut text.                                                         *)
  <2>9. t[p] = Failed \/ \E r \in Seq(Tok) : t[p] = Good(r) /\ Begins(r, whole)
    <3>1. CASE p > c
      <4>1. t[p] = Good(<<>>)
        BY <1>1, <1>2, <3>1 DEF StripAt
      <4>2. <<>> \in Seq(Tok) /\ Begins(<<>>, whole)
        <5> HIDE DEF whole
        <5> QED
          BY <2>8 DEF Begins
      <4> QED
        BY <4>1, <4>2, Zenon
    <3>2. CASE p <= c /\ text[p] = Quote /\ last > c
      <4>1. ChunkEnd(cut, p) = 0
        <5>1. CorrespondingBracket(cut, p) = 0
          BY <1>1, <2>1, <2>3, <3>2, BracketInCut DEF ChunkEnd, cut
        <5> QED
          BY <1>1, <2>1, <3>2, <5>1 DEF ChunkEnd
      <4> QED
        BY <1>1, <1>2, <2>1, <3>2, <4>1 DEF StripAt
    <3>3. CASE p = c /\ text[p] = Escape
      <4>1. ChunkEnd(cut, p) = c /\ last = c + 1
        BY <1>1, <2>1, <3>3, Outcomes DEF ChunkEnd
      <4>2. t[c + 1] = Good(<<>>)
        BY <1>1, <1>2 DEF StripAt
      <4>3. t[p] = Good(SubSeq(cut, p, c) \o <<>>)
        <5>1. cut[p] # Space /\ ~(p > Len(cut)) /\ ChunkEnd(cut, p) # 0
          BY <1>1, <2>1, <3>3, <4>1, Outcomes
        <5>2. t[ChunkEnd(cut, p) + 1] = Good(<<>>) /\ Good(<<>>) # Failed
              /\ Good(<<>>).subs = <<>>
          BY <4>1, <4>2, Outcomes, Zenon
        <5> QED
          BY <1>2, <2>1, <4>1, <5>1, <5>2, Zenon DEF StripAt
      <4> DEFINE r == SubSeq(cut, p, c)
      <4>4. r \in Seq(Tok) /\ Len(r) = 1 /\ r[1] = text[p]
        BY <1>1, <2>1, <3>3, ChunkTokens
      <4>5. whole = SubSeq(text, p, last) \o s /\ Len(SubSeq(text, p, last)) = 2
            /\ SubSeq(text, p, last) \in Seq(Tok) /\ SubSeq(text, p, last)[1] = text[p]
        <5>1. whole = SubSeq(text, p, last) \o s
          BY <3>3, Outcomes, Zenon
        <5>2. /\ SubSeq(text, p, last) \in Seq(Tok)
              /\ Len(SubSeq(text, p, last)) = last + 1 - p
              /\ \A k \in 1..(last + 1 - p) : SubSeq(text, p, last)[k] = text[p + k - 1]
          BY <2>1, <2>3, ChunkTokens
        <5>3. last + 1 - p = 2 /\ 1 \in 1..2 /\ p + 1 - 1 = p
          BY <1>1, <3>3, <4>1
        <5> HIDE DEF last, whole, s
        <5>4. SubSeq(text, p, last)[1] = text[p]
          BY <5>2, <5>3
        <5> QED
          BY <5>1, <5>2, <5>3, <5>4
      <4>6. Begins(r, whole)
        <5> DEFINE a == SubSeq(text, p, last)
        <5> HIDE DEF a, r, s, whole, last
        <5>1. a \in Seq(Tok) /\ Len(a) = 2 /\ a[1] = text[p] /\ whole = a \o s
          BY <4>5 DEF a
        <5>2. Begins(r, a \o s)
          BY <2>6, <4>4, <5>1, HalfChunk
        <5> QED
          BY <5>1, <5>2, Zenon
      <4>7. r \o <<>> = r
        BY <4>4
      <4> QED
        BY <4>3, <4>4, <4>6, <4>7
    <3>4. CASE p <= c /\ last <= c
      <4>1. ChunkEnd(cut, p) = last
        <5>1. CASE text[p] = Quote
          <6>1. CorrespondingBracket(cut, p) = CorrespondingBracket(text, p)
            BY <1>1, <2>1, <3>4, <5>1, BracketInCut DEF ChunkEnd, cut
          <6> QED
            BY <1>1, <2>1, <3>4, <5>1, <6>1 DEF ChunkEnd
        <5>2. CASE text[p] # Quote
          BY <1>1, <2>1, <3>4, <5>2 DEF ChunkEnd
        <5> QED
          BY <5>1, <5>2
      <4>2. t[p] = IF t[last + 1] = Failed \/ text[p] = Space THEN t[last + 1]
                   ELSE Good(SubSeq(text, p, last) \o t[last + 1].subs)
        <5>1. SubSeq(cut, p, last) = SubSeq(text, p, last)
          BY <1>1, <2>1, <2>3, <3>4, SameChunk DEF cut
        <5>2. cut[p] = text[p]
          BY <1>1, <2>1, <3>4
        <5>3. ~(p > Len(cut))
          BY <1>1, <2>1, <3>4
        <5>4. t[p] = StripAt(cut, t, p)
          BY <1>2, <2>1
        <5> QED
          BY <2>2, <4>1, <5>1, <5>2, <5>3, <5>4, Zenon DEF StripAt
      <4>3. t[last + 1] = Failed \/ \E r \in Seq(Tok) : t[last + 1] = Good(r) /\ Begins(r, s)
        BY <1>1, <2>4, <2>5, <2>6, <3>4, Outcomes DEF StripsShorter
      <4>4. CASE t[last + 1] = Failed
        BY <4>2, <4>4
      <4>5. ASSUME NEW r \in Seq(Tok), t[last + 1] = Good(r), Begins(r, s)
            PROVE  \E q \in Seq(Tok) : t[p] = Good(q) /\ Begins(q, whole)
        <5>1. CASE text[p] = Space
          BY <4>2, <4>5, <5>1
        <5>2. CASE text[p] # Space
          <6>1. SubSeq(text, p, last) \in Seq(Tok)
            BY <2>1, <2>3, ChunkTokens
          <6>2. Begins(SubSeq(text, p, last) \o r, SubSeq(text, p, last) \o s)
            BY <2>6, <4>5, <6>1, Concatenated
          <6>3. t[p] = Good(SubSeq(text, p, last) \o r)
            BY <4>2, <4>5, <5>2, Outcomes
          <6>4. SubSeq(text, p, last) \o r \in Seq(Tok)
            BY <4>5, <6>1
          <6> QED
            BY <5>2, <6>2, <6>3, <6>4
        <5> QED
          BY <5>1, <5>2
      <4> QED
        BY <4>3, <4>4, <4>5
    <3>5. p > c \/ (p <= c /\ last <= c) \/ (p <= c /\ last > c)
      BY <1>1, <2>1, <2>3
    <3>6. p <= c /\ last > c => text[p] = Quote \/ (text[p] = Escape /\ p = c)
      BY <1>1, <2>1 DEF ChunkEnd
    <3> QED
      BY <3>1, <3>2, <3>3, <3>4, <3>5, <3>6
  <2> QED
    BY <2>8, <2>9 DEF StripsShorter
<1>5. S = Nat
  <2>1. S \in SUBSET Nat
    OBVIOUS
  <2> HIDE DEF S
  <2> QED
    BY <1>1, <1>3, <1>4, <2>1, Backwards
<1> QED
  BY <1>5 DEF w, t, cut

(***************************************************************************)
(* What is read in a text without nodes, and in one that is cut.           *)
(***************************************************************************)
LEMMA NothingAtKeys ==
    ASSUME NEW Key, NEW keys \in Seq(Key)
    PROVE  ValueAt(<<>>, keys) = NoValue
<1> DEFINE root == Node(<<>>, NoValue, <<>>)
           Step(g, n) ==
               IF n = 0 THEN Good(<<root>>)
               ELSE IF g[n - 1] = Failed THEN Failed
               ELSE LET among == g[n - 1].subs[1].subs
                        found == Matches(among, keys[n])
                    IN  IF found = {} THEN Failed ELSE Good(<<among[First(found)]>>)
           Steps(g) == [n \in 0..Len(keys) |-> Step(g, n)]
           node == CHOOSE g : g = Steps(g)
           known == [n \in 0..Len(keys) |-> IF n = 0 THEN Good(<<root>>) ELSE Failed]
<1>1. ValueAt(<<>>, keys) = IF node[Len(keys)] = Failed THEN NoValue
                            ELSE node[Len(keys)].subs[1].value
  BY DEF ValueAt
<1>2. Len(keys) \in Nat
  OBVIOUS
<1>3. Good(<<root>>).subs[1] = root /\ root.subs = <<>> /\ root.value = NoValue
  BY DEF Good, Node
<1>4. \A key : Matches(<<>>, key) = {}
  BY DEF Matches
<1> HIDE DEF root
<1>5. ASSUME NEW g, NEW n \in 1..Len(keys), g[n - 1] \in {Good(<<root>>), Failed}
      PROVE  Step(g, n) = Failed
  <2>1. n # 0
    OBVIOUS
  <2>2. CASE g[n - 1] = Failed
    BY <2>1, <2>2, Zenon
  <2>3. CASE g[n - 1] = Good(<<root>>)
    <3>1. g[n - 1].subs[1].subs = <<>>
      BY <1>3, <2>3, Zenon
    <3>2. Matches(g[n - 1].subs[1].subs, keys[n]) = {}
      BY <1>4, <3>1, Zenon
    <3> QED
      BY <2>1, <3>2, Zenon
  <2> QED
    BY <1>5, <2>2, <2>3
<1>6. \A g : Step(g, 0) = Good(<<root>>)
  BY Zenon
<1> HIDE DEF Step
<1>7. known = Steps(known)
  <2>1. \A n \in 0..Len(keys) : known[n] = IF n = 0 THEN Good(<<root>>) ELSE Failed
    BY Zenon
  <2> HIDE DEF known
  <2>2. ASSUME NEW n \in 0..Len(keys)
        PROVE  (IF n = 0 THEN Good(<<root>>) ELSE Failed) = Step(known, n)
    <3>1. CASE n = 0
      BY <1>6, <3>1, Zenon
    <3>2. CASE n # 0
      <4>1. n \in 1..Len(keys) /\ n - 1 \in 0..Len(keys)
        BY <1>2, <3>2
      <4>2. known[n - 1] \in {Good(<<root>>), Failed}
        BY <2>1, <4>1, Zenon
      <4>3. Step(known, n) = Failed
        BY <1>5, <4>1, <4>2
      <4> QED
        BY <3>2, <4>3, Zenon
    <3> QED
      BY <3>1, <3>2
  <2> QED
    BY <2>2, Zenon DEF known
<1>8. node = Steps(node)
  BY <1>7, Zenon
<1> HIDE DEF node, known
<1>9. \A n \in 0..Len(keys) : node[n] = Step(node, n)
  <2>1. \A g : \A n \in 0..Len(keys) : Steps(g)[n] = Step(g, n)
    BY Zenon
  <2> HIDE DEF Steps
  <2> QED
    BY <1>8, <2>1, Zenon
<1> DEFINE bad == {n \in 0..Len(keys) : node[n] \notin {Good(<<root>>), Failed}}
<1>10. bad = {}
  <2> SUFFICES ASSUME bad # {} PROVE FALSE
    OBVIOUS
  <2>1. bad \in SUBSET Nat
    BY <1>2
  <2>2. PICK n \in bad : \A k \in bad : n <= k
    <3> HIDE DEF bad
    <3> QED
      BY <2>1, HasOldest
  <2>3. CASE n = 0
    BY <1>6, <1>9, <2>3
  <2>4. CASE n # 0
    <3>1. n \in 1..Len(keys) /\ n - 1 \in 0..Len(keys) /\ ~(n <= n - 1)
      BY <1>2, <2>4
    <3>2. n - 1 \notin bad
      BY <2>2, <3>1
    <3>3. node[n] = Failed
      BY <1>5, <1>9, <3>1, <3>2
    <3> QED
      BY <3>3
  <2> QED
    BY <2>3, <2>4
<1>11. node[Len(keys)] \in {Good(<<root>>), Failed}
  <2>1. Len(keys) \in 0..Len(keys)
    BY <1>2
  <2> QED
    BY <1>10, <2>1
<1> QED
  BY <1>1, <1>3, <1>11, Zenon

(***************************************************************************)
(* A document that is one object: what remains of it without its spaces    *)
(* begins with the bracket that its last token closes.                     *)
(***************************************************************************)
OneObject(text) ==
    /\ text # <<>>
    /\ text[Len(text)] # Space
    /\ Stripped(text) # Failed
    /\ LET s == Stripped(text).subs
       IN  s[1] = "{" /\ CorrespondingBracket(s, 1) = Len(s)

LEMMA CutIsNotParsed ==
    ASSUME NEW Tok, NEW text \in Seq(Tok), OneObject(text), NEW c \in 1..(Len(text) - 1)
    PROVE  Parsed(Cut(text, c)) \in {Failed, Fatal}
<1> DEFINE cut == Cut(text, c)
<1>1. Len(text) \in Nat /\ c \in 1..Len(text) /\ 1 \in 1..Len(text)
      /\ cut \in Seq(Tok) /\ Len(cut) = c
  BY CutTokens
<1>2. StripsShorter(Tok, Stripped(cut), Stripped(text))
  BY <1>1, StripInCut, StrippedIsStrip DEF OneObject
<1>3. PICK s \in Seq(Tok) : /\ Stripped(text) = Good(s)
                            /\ s # <<>>
                            /\ \/ Stripped(cut) = Failed
                               \/ \E r \in Seq(Tok) : Stripped(cut) = Good(r) /\ Begins(r, s)
  BY <1>2 DEF OneObject, StripsShorter
<1>4. s[1] = "{" /\ CorrespondingBracket(s, 1) = Len(s)
  BY <1>3, Outcomes, Zenon DEF OneObject
<1>5. Parsed(cut) = ParsedStripped(Stripped(cut))
  <2>1. cut # <<>>
    BY <1>1
  <2> QED
    BY <2>1, Zenon DEF Parsed
<1>6. CASE Stripped(cut) = Failed
  BY <1>5, <1>6, Zenon DEF ParsedStripped
<1>7. ASSUME NEW r \in Seq(Tok), Stripped(cut) = Good(r), Begins(r, s)
      PROVE  ParsedStripped(Good(r)) \in {Failed, Fatal}
  <2>1. ParsedStripped(Good(r)) =
            IF r = <<>> THEN Fatal
            ELSE IF r[1] # "{" THEN Failed ELSE RootMembers(r, CorrespondingBracket(r, 1))
    BY Outcomes, Zenon DEF ParsedStripped
  <2>2. CASE r = <<>>
    BY <2>1, <2>2, Zenon
  <2>3. CASE r # <<>>
    <3>1. Len(r) \in 1..Len(s) /\ Len(r) < Len(s) /\ 1 \in 1..Len(r)
      BY <1>7, <2>3 DEF Begins
    <3>2. r = Cut(s, Len(r))
      <4>1. /\ Cut(s, Len(r)) \in Seq(Tok) /\ Len(Cut(s, Len(r))) = Len(r)
            /\ \A p \in 1..Len(r) : Cut(s, Len(r))[p] = s[p]
        <5>1. Len(r) \in 0..Len(s)
          BY <3>1
        <5> QED
          BY <5>1, CutTokens
      <4> QED
        BY <1>7, <4>1, SeqEqual DEF Begins
    <3>3. CorrespondingBracket(r, 1) = 0
      <4>1. CorrespondingBracket(Cut(s, Len(r)), 1) =
               IF CorrespondingBracket(s, 1) <= Len(r) THEN CorrespondingBracket(s, 1) ELSE 0
        BY <3>1, BracketInCut
      <4>2. ~(Len(s) <= Len(r))
        BY <3>1
      <4> QED
        BY <1>4, <3>2, <4>1, <4>2, Zenon
    <3> QED
      BY <2>1, <2>3, <3>3, Zenon DEF RootMembers
  <2> QED
    BY <2>2, <2>3
<1> QED
  BY <1>3, <1>5, <1>6, <1>7

LEMMA TornHasNoValue ==
    ASSUME NEW Tok, NEW text \in Seq(Tok), OneObject(text), NEW c \in 0..(Len(text) - 1),
           NEW Key, NEW keys \in Seq(Key)
    PROVE  Reading(SubSeq(text, 1, c), keys) \in {NoValue, Ended}
<1>1. CASE c = 0
  <2>1. SubSeq(text, 1, c) = <<>>
    BY <1>1
  <2>2. Parsed(<<>>) = Good(<<>>)
    BY Zenon DEF Parsed
  <2>3. Good(<<>>).outcome = "good" /\ Good(<<>>).subs = <<>>
    BY DEF Good
  <2>4. LookedUp(Good(<<>>), keys) = ValueAt(<<>>, keys)
    BY <2>3 DEF LookedUp
  <2> QED
    BY <2>1, <2>2, <2>4, NothingAtKeys, Zenon DEF Reading
<1>2. CASE c # 0
  <2>1. Parsed(SubSeq(text, 1, c)) \in {Failed, Fatal}
    BY <1>2, CutIsNotParsed DEF Cut
  <2>2. LookedUp(Failed, keys) = NoValue /\ LookedUp(Fatal, keys) = Ended
    BY DEF LookedUp, Failed, Fatal
  <2> QED
    BY <2>1, <2>2, Zenon DEF Reading
<1> QED
  BY <1>1, <1>2

(***************************************************************************)
(* The end of a value: ValueStop() satisfies its equation.                 *)
(***************************************************************************)
LEMMA BracketRange ==
    ASSUME NEW Tok, NEW text \in Seq(Tok), NEW p \in Nat
    PROVE  CorrespondingBracket(text, p) \in {0} \cup (p + 1)..Len(text)
<1>1. p + 1 \in Nat /\ 0 \in Nat
  OBVIOUS
<1> QED
  BY <1>1, SeekRange, BracketIsSought

StopAt(text, stop, f, p) ==
    IF p >= stop \/ text[p] \in {",", "}", "]"} THEN p
    ELSE IF text[p] # Quote THEN f[p + 1]
    ELSE IF CorrespondingBracket(text, p) = 0 THEN 0
    ELSE f[CorrespondingBracket(text, p) + 1]

Stops(text, stop, f) == [p \in Nat |-> StopAt(text, stop, f, p)]
Stop(text, stop) == CHOOSE f : f = Stops(text, stop, f)

LEMMA ValueStopIsStop ==
    ASSUME NEW text, NEW start, NEW stop
    PROVE  ValueStop(text, start, stop) = Stop(text, stop)[start]
BY DEF ValueStop, Stop, Stops, StopAt

(* f satisfies the equation of the search from position first on.          *)
StopsFrom(text, stop, f, first) ==
    /\ f = [p \in Nat |-> f[p]]
    /\ \A p \in Nat : p >= first => f[p] = StopAt(text, stop, f, p)

LEMMA StopExtends ==
    ASSUME NEW Tok, NEW text \in Seq(Tok), NEW stop, NEW f, NEW first \in Nat,
           StopsFrom(text, stop, f, first + 1)
    PROVE  \E g : StopsFrom(text, stop, g, first)
<1> DEFINE new == StopAt(text, stop, f, first)
           g == [p \in Nat |-> IF p = first THEN new ELSE f[p]]
<1>1. g[first] = new /\ \A p \in Nat : p # first => g[p] = f[p]
  BY Zenon
<1>2. g = [p \in Nat |-> g[p]]
  BY Zenon
<1>3. new = StopAt(text, stop, f, first)
  OBVIOUS
<1> HIDE DEF new, g
<1>4. ASSUME NEW p \in Nat, p >= first
      PROVE  g[p] = StopAt(text, stop, g, p)
  <2>1. g[p] = StopAt(text, stop, f, p)
    <3>1. CASE p = first
      BY <1>1, <1>3, <3>1
    <3>2. CASE p # first
      <4>1. p >= first + 1
        BY <1>4, <3>2
      <4>2. f[p] = StopAt(text, stop, f, p)
        BY <4>1 DEF StopsFrom
      <4> QED
        BY <1>1, <3>2, <4>2
    <3> QED
      BY <3>1, <3>2
  <2>2. g[p + 1] = f[p + 1]
    <3>1. p + 1 \in Nat /\ p + 1 # first
      BY <1>4
    <3> QED
      BY <1>1, <3>1
  <2>3. CASE CorrespondingBracket(text, p) = 0
    <3>1. StopAt(text, stop, g, p) = StopAt(text, stop, f, p)
      BY <2>2, <2>3, Zenon DEF StopAt
    <3> QED
      BY <2>1, <3>1
  <2>4. CASE CorrespondingBracket(text, p) # 0
    <3>1. CorrespondingBracket(text, p) \in (p + 1)..Len(text)
      BY <2>4, BracketRange
    <3>2. CorrespondingBracket(text, p) + 1 \in Nat /\ CorrespondingBracket(text, p) + 1 # first
      BY <1>4, <3>1
    <3>3. g[CorrespondingBracket(text, p) + 1] = f[CorrespondingBracket(text, p) + 1]
      BY <1>1, <3>2
    <3>4. StopAt(text, stop, g, p) = StopAt(text, stop, f, p)
      BY <2>2, <3>3, Zenon DEF StopAt
    <3> QED
      BY <2>1, <3>4
  <2> QED
    BY <2>3, <2>4
<1>5. StopsFrom(text, stop, g, first)
  BY <1>2, <1>4 DEF StopsFrom
<1> QED
  BY <1>5

LEMMA StopEquation ==
    ASSUME NEW Tok, NEW text \in Seq(Tok), NEW stop \in Nat, NEW p \in Nat
    PROVE  Stop(text, stop)[p] = StopAt(text, stop, Stop(text, stop), p)
<1> DEFINE good == {n \in Nat : \E f : StopsFrom(text, stop, f, n)}
<1>1. stop \in good
  <2> DEFINE f == [q \in Nat |-> q]
  <2>1. f = [q \in Nat |-> f[q]]
    BY Zenon
  <2>2. \A q \in Nat : f[q] = q
    BY Zenon
  <2> HIDE DEF f
  <2>3. \A q \in Nat : q >= stop => f[q] = StopAt(text, stop, f, q)
    BY <2>2 DEF StopAt
  <2>4. StopsFrom(text, stop, f, stop)
    BY <2>1, <2>3 DEF StopsFrom
  <2> QED
    BY <2>4
<1>2. PICK n \in good : \A k \in good : n <= k
  <2>1. good \in SUBSET Nat
    OBVIOUS
  <2> HIDE DEF good
  <2> QED
    BY <1>1, <2>1, HasOldest
<1>3. n = 0
  <2> SUFFICES ASSUME n # 0 PROVE FALSE
    OBVIOUS
  <2>1. n - 1 \in Nat /\ n = (n - 1) + 1 /\ n \in Nat
    OBVIOUS
  <2>2. \E f : StopsFrom(text, stop, f, n - 1)
    BY <2>1, StopExtends
  <2>3. n - 1 \in good
    BY <2>1, <2>2
  <2>4. n <= n - 1
    <3> HIDE DEF good
    <3> QED
      BY <1>2, <2>3
  <2> QED
    BY <2>1, <2>4
<1>4. PICK f : StopsFrom(text, stop, f, 0)
  BY <1>3
<1>5. f = Stops(text, stop, f)
  <2>1. f = [q \in Nat |-> f[q]] /\ \A q \in Nat : f[q] = StopAt(text, stop, f, q)
    BY <1>4 DEF StopsFrom
  <2>2. [q \in Nat |-> f[q]] = [q \in Nat |-> StopAt(text, stop, f, q)]
    BY <2>1, Zenon
  <2> QED
    BY <2>1, <2>2 DEF Stops
<1>6. Stop(text, stop) = Stops(text, stop, Stop(text, stop))
  BY <1>5 DEF Stop
<1> DEFINE s == Stop(text, stop)
<1>7. s = Stops(text, stop, s)
  BY <1>6
<1> HIDE DEF s
<1>8. Stops(text, stop, s)[p] = StopAt(text, stop, s, p)
  BY DEF Stops
<1> QED
  BY <1>7, <1>8 DEF s

(* A value ends where it begins or behind that.                            *)
LEMMA StopRange ==
    ASSUME NEW Tok, NEW text \in Seq(Tok), NEW stop \in Nat
    PROVE  \A p \in Nat : Stop(text, stop)[p] \in Nat
                          /\ (Stop(text, stop)[p] = 0 \/ Stop(text, stop)[p] >= p)
<1> DEFINE s == Stop(text, stop)
           S == {p \in Nat : s[p] \in Nat /\ (s[p] = 0 \/ s[p] >= p)}
<1>1. \A p \in Nat : s[p] = StopAt(text, stop, s, p)
  BY StopEquation
<1> HIDE DEF s
<1>2. ASSUME NEW p \in Nat, p > stop PROVE p \in S
  <2>1. p >= stop
    BY <1>2
  <2>2. s[p] = p
    BY <1>1, <2>1, Zenon DEF StopAt
  <2> QED
    BY <2>2
<1>3. ASSUME NEW p \in Nat, p <= stop, \A q \in Nat : q > p => q \in S
      PROVE  p \in S
  <2>1. s[p] = StopAt(text, stop, s, p)
    BY <1>1
  <2>2. p + 1 \in S
    BY <1>3
  <2>3. CASE CorrespondingBracket(text, p) = 0
    <3>1. s[p] \in {p, s[p + 1], 0}
      BY <2>1, <2>3, Zenon DEF StopAt
    <3>2. s[p + 1] \in Nat /\ (s[p + 1] = 0 \/ s[p + 1] >= p + 1)
      BY <2>2
    <3> HIDE DEF S
    <3>3. s[p] \in Nat /\ (s[p] = 0 \/ s[p] >= p)
      BY <3>1, <3>2
    <3> QED
      BY <3>3 DEF S
  <2>4. CASE CorrespondingBracket(text, p) # 0
    <3> DEFINE q == CorrespondingBracket(text, p) + 1
    <3>1. q \in Nat /\ q > p
      BY <2>4, BracketRange
    <3>2. s[q] \in Nat /\ (s[q] = 0 \/ s[q] >= q)
      <4> HIDE DEF q
      <4> QED
        BY <1>3, <3>1
    <3> HIDE DEF q
    <3>3. s[p] \in {p, s[p + 1], 0, s[q]}
      BY <2>1 DEF StopAt, q
    <3> QED
      BY <2>2, <3>1, <3>2, <3>3
  <2> QED
    BY <2>3, <2>4
<1>4. S = Nat
  <2>1. S \in SUBSET Nat
    OBVIOUS
  <2> HIDE DEF S
  <2> QED
    BY <1>2, <1>3, <2>1, Backwards
<1> QED
  BY <1>4 DEF s

(***************************************************************************)
(* parseObject() and parseArray(): parse satisfies its equation.           *)
(***************************************************************************)
NameEnd(text, start, open) ==
    IF open = "{" /\ text[start] = Quote THEN CorrespondingBracket(text, start) ELSE 0
Named(text, start, open, stop) ==
    /\ NameEnd(text, start, open) # 0
    /\ NameEnd(text, start, open) + 2 < stop
    /\ text[NameEnd(text, start, open) + 1] = ":"
NameOf(text, start, open) ==
    IF open = "{" THEN SubSeq(text, start + 1, NameEnd(text, start, open) - 1) ELSE <<>>
AtOf(text, start, open) == IF open = "{" THEN NameEnd(text, start, open) + 2 ELSE start
EndOf(text, at, stop) ==
    IF text[at] \in Opening THEN CorrespondingBracket(text, at) ELSE ValueStop(text, at, stop)
NextOf(text, at, stop) ==
    IF text[at] \in Opening THEN EndOf(text, at, stop) + 1 ELSE EndOf(text, at, stop)
InsideOf(text, f, at, stop) ==
    IF text[at] \in Opening THEN f[at + 1][text[at]][EndOf(text, at, stop)] ELSE Good(<<>>)
ValueOfItem(text, at, stop) ==
    IF text[at] \in Opening THEN NoValue ELSE Double(SubSeq(text, at, EndOf(text, at, stop) - 1))

(* What is parsed when an item with this name and value begins somewhere.  *)
ItemsFrom(text, f, open, stop, at, name) ==
    IF EndOf(text, at, stop) = 0 \/ (text[at] \in Opening /\ EndOf(text, at, stop) >= stop)
    THEN Failed
    ELSE IF InsideOf(text, f, at, stop).outcome # "good" THEN InsideOf(text, f, at, stop)
    ELSE IF text[at] \notin Opening /\ EndOf(text, at, stop) = at THEN Fatal
    ELSE IF NextOf(text, at, stop) > Len(text) THEN Fatal
    ELSE IF text[NextOf(text, at, stop)] = ","
         THEN IF f[NextOf(text, at, stop) + 1][open][stop].outcome # "good"
              THEN f[NextOf(text, at, stop) + 1][open][stop]
              ELSE Good(<<Node(name, ValueOfItem(text, at, stop),
                               InsideOf(text, f, at, stop).subs)>>
                        \o f[NextOf(text, at, stop) + 1][open][stop].subs)
    ELSE IF NextOf(text, at, stop) = stop
         THEN Good(<<Node(name, ValueOfItem(text, at, stop), InsideOf(text, f, at, stop).subs)>>)
    ELSE Failed

ParseAt(text, f, start, open, stop) ==
    IF start >= stop THEN Good(<<>>)
    ELSE IF open = "{" /\ ~Named(text, start, open, stop) THEN Failed
    ELSE ItemsFrom(text, f, open, stop, AtOf(text, start, open), NameOf(text, start, open))

ParseRow(text, f, start) ==
    [open \in Opening |-> [stop \in 0..Len(text) |-> ParseAt(text, f, start, open, stop)]]
Parses(text, f) == [start \in Nat |-> ParseRow(text, f, start)]
Parse(text) == CHOOSE f : f = Parses(text, f)

LEMMA MembersAreParsed ==
    ASSUME NEW text, NEW bracket, NEW first, NEW last
    PROVE  Members(text, bracket, first, last) = Parse(text)[first][bracket][last]
<1> DEFINE
      OldAt(parse, start, open, stop) ==
          IF start >= stop THEN Good(<<>>)
          ELSE
          LET named   == open = "{"
              nameEnd == IF named /\ text[start] = Quote
                         THEN CorrespondingBracket(text, start) ELSE 0
              named_ok == /\ nameEnd # 0
                          /\ nameEnd + 2 < stop
                          /\ text[nameEnd + 1] = ":"
              at      == IF named THEN nameEnd + 2 ELSE start
              name    == IF named THEN SubSeq(text, start + 1, nameEnd - 1) ELSE <<>>
              nested  == text[at] \in Opening
              end     == IF nested THEN CorrespondingBracket(text, at)
                         ELSE ValueStop(text, at, stop)
              inside  == IF nested THEN parse[at + 1][text[at]][end] ELSE Good(<<>>)
              value   == IF nested THEN NoValue ELSE Double(SubSeq(text, at, end - 1))
              next    == IF nested THEN end + 1 ELSE end
              others  == parse[next + 1][open][stop]
          IN  IF \/ named /\ ~named_ok
                 \/ end = 0
                 \/ nested /\ end >= stop THEN Failed
              ELSE IF inside.outcome # "good" THEN inside
              ELSE IF ~nested /\ end = at THEN Fatal
              ELSE IF next > Len(text) THEN Fatal
              ELSE IF text[next] = ","
                   THEN IF others.outcome # "good" THEN others
                        ELSE Good(<<Node(name, value, inside.subs)>> \o others.subs)
              ELSE IF next = stop THEN Good(<<Node(name, value, inside.subs)>>)
              ELSE Failed
      Row(f, start) == [open \in Opening |-> [stop \in 0..Len(text) |-> OldAt(f, start, open, stop)]]
      Old(f) == [start \in Nat |-> Row(f, start)]
<1>1. Members(text, bracket, first, last) = (CHOOSE f : f = Old(f))[first][bracket][last]
  BY DEF Members
<1>2. ASSUME NEW f, NEW start, NEW open, NEW stop
      PROVE  OldAt(f, start, open, stop) = ParseAt(text, f, start, open, stop)
  BY Zenon DEF ParseAt, ItemsFrom, NameEnd, Named, NameOf, AtOf, EndOf, NextOf, InsideOf, ValueOfItem
<1> HIDE DEF OldAt
<1>3. ASSUME NEW f, NEW start PROVE Row(f, start) = ParseRow(text, f, start)
  BY <1>2, Zenon DEF ParseRow
<1> HIDE DEF Row
<1>4. ASSUME NEW f PROVE Old(f) = Parses(text, f)
  BY <1>3, Zenon DEF Parses
<1> HIDE DEF Old
<1>5. (CHOOSE f : f = Old(f)) = Parse(text)
  BY <1>4, Zenon DEF Parse
<1> QED
  BY <1>1, <1>5

(* Where a value stops is behind its beginning.                            *)
LEMMA EndRange ==
    ASSUME NEW Tok, NEW text \in Seq(Tok), NEW at \in Nat, NEW stop \in Nat
    PROVE  /\ EndOf(text, at, stop) \in Nat
           /\ EndOf(text, at, stop) # 0 =>
                 /\ EndOf(text, at, stop) >= at
                 /\ text[at] \in Opening => EndOf(text, at, stop) > at
<1>1. CASE text[at] \in Opening
  <2>1. EndOf(text, at, stop) = CorrespondingBracket(text, at)
    BY <1>1, Zenon DEF EndOf
  <2>2. CorrespondingBracket(text, at) \in {0} \cup (at + 1)..Len(text)
    BY BracketRange
  <2> QED
    BY <2>1, <2>2
<1>2. CASE text[at] \notin Opening
  <2>1. EndOf(text, at, stop) = Stop(text, stop)[at]
    BY <1>2, ValueStopIsStop, Zenon DEF EndOf
  <2> QED
    BY <1>2, <2>1, StopRange
<1> QED
  BY <1>1, <1>2

(* So parsing at a position depends on what is parsed behind it only.      *)
LEMMA SameBehind ==
    ASSUME NEW Tok, NEW text \in Seq(Tok), NEW f, NEW g, NEW start \in Nat,
           \A p \in Nat : p > start => g[p] = f[p],
           NEW open, NEW stop \in Nat
    PROVE  ParseAt(text, g, start, open, stop) = ParseAt(text, f, start, open, stop)
<1> DEFINE at == AtOf(text, start, open)
           end == EndOf(text, at, stop)
           next == NextOf(text, at, stop)
<1>1. CASE open = "{" /\ ~Named(text, start, open, stop)
  BY <1>1, Zenon DEF ParseAt
<1>2. CASE open # "{" \/ Named(text, start, open, stop)
  <2>1. at \in Nat /\ at >= start
    <3>1. CASE open # "{"
      <4>1. at = start
        BY <3>1, Zenon DEF AtOf
      <4> HIDE DEF at
      <4> QED
        BY <4>1
    <3>2. CASE open = "{"
      <4>1. NameEnd(text, start, open) # 0
        BY <1>2, <3>2 DEF Named
      <4>2. NameEnd(text, start, open) = CorrespondingBracket(text, start)
        BY <4>1, Zenon DEF NameEnd
      <4>3. NameEnd(text, start, open) \in (start + 1)..Len(text)
        BY <4>1, <4>2, BracketRange
      <4>4. at = NameEnd(text, start, open) + 2
        BY <3>2, Zenon DEF AtOf
      <4> QED
        BY <4>3, <4>4
    <3> QED
      BY <3>1, <3>2
  <2> HIDE DEF at
  <2>2. CASE end = 0
    <3>1. ItemsFrom(text, g, open, stop, at, NameOf(text, start, open)) =
          ItemsFrom(text, f, open, stop, at, NameOf(text, start, open))
      BY <2>2, Zenon DEF ItemsFrom
    <3> QED
      BY <3>1, Zenon DEF ParseAt, at
  <2>3. CASE end # 0
    <3>1. end \in Nat /\ end >= at
      BY <2>1, <2>3, EndRange
    <3>2. next \in Nat /\ next >= at
      <4>1. next \in {end, end + 1}
        BY Zenon DEF NextOf
      <4> HIDE DEF next, end
      <4> QED
        BY <2>1, <3>1, <4>1
    <3> HIDE DEF next, end
    <3>3. g[next + 1] = f[next + 1] /\ g[at + 1] = f[at + 1]
      BY <2>1, <3>2
    <3>4. InsideOf(text, g, at, stop) = InsideOf(text, f, at, stop)
      BY <3>3, Zenon DEF InsideOf
    <3>5. ItemsFrom(text, g, open, stop, at, NameOf(text, start, open)) =
          ItemsFrom(text, f, open, stop, at, NameOf(text, start, open))
      BY <3>3, <3>4, Zenon DEF ItemsFrom, next
    <3> QED
      BY <3>5, Zenon DEF ParseAt, at
  <2> QED
    BY <2>2, <2>3
<1> QED
  BY <1>1, <1>2

(* f satisfies the equation of parse from position first on.               *)
ParsesFrom(text, f, first) ==
    /\ f = [p \in Nat |-> f[p]]
    /\ \A p \in Nat : p >= first => f[p] = ParseRow(text, f, p)

LEMMA SameRow ==
    ASSUME NEW Tok, NEW text \in Seq(Tok), NEW f, NEW g, NEW start \in Nat,
           \A p \in Nat : p > start => g[p] = f[p]
    PROVE  ParseRow(text, g, start) = ParseRow(text, f, start)
<1>1. \A open \in Opening : \A stop \in 0..Len(text) :
         ParseAt(text, g, start, open, stop) = ParseAt(text, f, start, open, stop)
  BY SameBehind
<1> QED
  BY <1>1, Zenon DEF ParseRow

LEMMA ParseExtends ==
    ASSUME NEW Tok, NEW text \in Seq(Tok), NEW f, NEW first \in Nat,
           ParsesFrom(text, f, first + 1)
    PROVE  \E g : ParsesFrom(text, g, first)
<1> DEFINE new == ParseRow(text, f, first)
           g == [p \in Nat |-> IF p = first THEN new ELSE f[p]]
<1>1. g[first] = new /\ \A p \in Nat : p # first => g[p] = f[p]
  BY Zenon
<1>2. g = [p \in Nat |-> g[p]]
  BY Zenon
<1>3. new = ParseRow(text, f, first)
  OBVIOUS
<1> HIDE DEF new, g
<1>4. ASSUME NEW p \in Nat, p >= first
      PROVE  g[p] = ParseRow(text, g, p)
  <2>1. g[p] = ParseRow(text, f, p)
    <3>1. CASE p = first
      BY <1>1, <1>3, <3>1
    <3>2. CASE p # first
      <4>1. p >= first + 1
        BY <1>4, <3>2
      <4>2. f[p] = ParseRow(text, f, p)
        BY <4>1 DEF ParsesFrom
      <4> QED
        BY <1>1, <3>2, <4>2
    <3> QED
      BY <3>1, <3>2
  <2>2. \A q \in Nat : q > p => g[q] = f[q]
    <3> SUFFICES ASSUME NEW q \in Nat, q > p PROVE g[q] = f[q]
      OBVIOUS
    <3>1. q # first
      BY <1>4
    <3> QED
      BY <1>1, <3>1
  <2>3. ParseRow(text, g, p) = ParseRow(text, f, p)
    BY <2>2, SameRow
  <2> QED
    BY <2>1, <2>3
<1>5. ParsesFrom(text, g, first)
  BY <1>2, <1>4 DEF ParsesFrom
<1> QED
  BY <1>5

LEMMA ParseEquation ==
    ASSUME NEW Tok, NEW text \in Seq(Tok), NEW start \in Nat, NEW open \in Opening,
           NEW stop \in 0..Len(text)
    PROVE  Parse(text)[start][open][stop] = ParseAt(text, Parse(text), start, open, stop)
<1> DEFINE good == {n \in Nat : \E f : ParsesFrom(text, f, n)}
<1>0. Len(text) \in Nat
  OBVIOUS
<1>1. Len(text) \in good
  <2> DEFINE row == [o \in Opening |-> [e \in 0..Len(text) |-> Good(<<>>)]]
             f == [q \in Nat |-> row]
  <2>1. f = [q \in Nat |-> f[q]] /\ \A q \in Nat : f[q] = row
    BY Zenon
  <2>2. ASSUME NEW q \in Nat, q >= Len(text) PROVE ParseRow(text, f, q) = row
    <3>1. \A e \in 0..Len(text) : q >= e
      BY <1>0, <2>2
    <3>2. \A o \in Opening : \A e \in 0..Len(text) : ParseAt(text, f, q, o, e) = Good(<<>>)
      BY <3>1, Zenon DEF ParseAt
    <3> QED
      BY <3>2, Zenon DEF ParseRow
  <2> HIDE DEF f, row
  <2>3. ParsesFrom(text, f, Len(text))
    BY <2>1, <2>2 DEF ParsesFrom
  <2> QED
    BY <1>0, <2>3
<1>2. PICK n \in good : \A k \in good : n <= k
  <2>1. good \in SUBSET Nat
    OBVIOUS
  <2> HIDE DEF good
  <2> QED
    BY <1>1, <2>1, HasOldest
<1>3. n = 0
  <2> SUFFICES ASSUME n # 0 PROVE FALSE
    OBVIOUS
  <2>1. n - 1 \in Nat /\ n = (n - 1) + 1 /\ n \in Nat
    OBVIOUS
  <2>2. \E f : ParsesFrom(text, f, n - 1)
    BY <2>1, ParseExtends
  <2>3. n - 1 \in good
    BY <2>1, <2>2
  <2>4. n <= n - 1
    <3> HIDE DEF good
    <3> QED
      BY <1>2, <2>3
  <2> QED
    BY <2>1, <2>4
<1>4. PICK f : ParsesFrom(text, f, 0)
  BY <1>3
<1>5. f = Parses(text, f)
  <2>1. f = [q \in Nat |-> f[q]] /\ \A q \in Nat : f[q] = ParseRow(text, f, q)
    BY <1>4 DEF ParsesFrom
  <2>2. [q \in Nat |-> f[q]] = [q \in Nat |-> ParseRow(text, f, q)]
    BY <2>1, Zenon
  <2> QED
    BY <2>1, <2>2 DEF Parses
<1>6. Parse(text) = Parses(text, Parse(text))
  BY <1>5 DEF Parse
<1> DEFINE s == Parse(text)
<1>7. s = Parses(text, s)
  BY <1>6
<1> HIDE DEF s
<1>8. Parses(text, s)[start] = ParseRow(text, s, start)
  BY DEF Parses
<1>9. ParseRow(text, s, start)[open][stop] = ParseAt(text, s, start, open, stop)
  BY Zenon DEF ParseRow
<1> QED
  BY <1>7, <1>8, <1>9 DEF s

(***************************************************************************)
(* Strings: the search that begins at the quotation mark ends at the other *)
(* one, and a search for brackets passes over the string.                  *)
(***************************************************************************)
LEMMA Closings ==
    /\ \A o \in Opening \cup {Quote} : ClosingOf[o] \in Brackets \cup {Quote}
    /\ Opening \subseteq Brackets
    /\ ClosingOf[Quote] = Quote
    /\ \A o \in Opening : ClosingOf[o] \in Brackets /\ ClosingOf[o] # o
    /\ \A o, b \in Opening : ClosingOf[b] # o /\ (b # o => ClosingOf[b] # ClosingOf[o])
    /\ Quote \notin Brackets /\ Escape \notin Brackets /\ Quote # Escape
    /\ "," \notin Brackets /\ ":" \notin Brackets
    /\ "," # Quote /\ ":" # Quote /\ "," # Escape /\ ":" # Escape
    /\ Quote \notin Opening
BY DEF ClosingOf, Opening, Brackets, Quote, Escape

LEMMA Word ==
    ASSUME NEW Tok, NEW text \in Seq(Tok), NEW s \in Nat \ {0}, NEW t \in s..Len(text)
    PROVE  /\ SubSeq(text, s, t) \in Seq(Tok)
           /\ Len(SubSeq(text, s, t)) = t - s + 1
           /\ \A p \in s..t : SubSeq(text, s, t)[p - s + 1] = text[p]
<1>1. /\ SubSeq(text, s, t) \in Seq(Tok)
      /\ Len(SubSeq(text, s, t)) = t - s + 1
      /\ \A j \in 1..(t - s + 1) : SubSeq(text, s, t)[j] = text[s + j - 1]
  OBVIOUS
<1>2. ASSUME NEW p \in s..t PROVE SubSeq(text, s, t)[p - s + 1] = text[p]
  <2>1. p - s + 1 \in 1..(t - s + 1) /\ s + (p - s + 1) - 1 = p
    OBVIOUS
  <2> QED
    BY <1>1, <2>1
<1> QED
  BY <1>1, <1>2

LEMMA InString ==
    ASSUME NEW Tok, NEW text \in Seq(Tok), NEW s \in Nat \ {0}, NEW t \in (s + 1)..Len(text),
           IsString(SubSeq(text, s, t)), NEW open \in Opening \cup {Quote}
    PROVE  \A l \in Nat : Seek(text, open)[s + 1][l] = Seek(text, open)[t][l]
<1> DEFINE w == SubSeq(text, s, t)
           k == Seek(text, open)
<1>1. \A p, l \in Nat : k[p][l] = SeekAt(text, open, k, p, l)
  BY SeekEquation
<1>2. /\ Len(w) = t - s + 1 /\ Len(w) \in Nat
      /\ \A p \in s..t : w[p - s + 1] = text[p]
  BY Word
<1>3. PICK escapes \in SUBSET (2..(Len(w) - 1)) :
         /\ Len(w) - 1 \notin escapes
         /\ \A p \in escapes : w[p] = Escape /\ p - 1 \notin escapes
         /\ \A p \in 2..(Len(w) - 1) :
               w[p] \in {Quote, Escape} => p \in escapes \/ p - 1 \in escapes
  BY DEF IsString
<1>4. \A p \in 2..(Len(w) - 1) : w[p] \notin Brackets
  BY DEF IsString
<1> HIDE DEF w, k
<1> DEFINE S == {p \in Nat : p \in (s + 1)..t /\ p - s \notin escapes =>
                                \A l \in Nat : k[p][l] = k[t][l]}
<1>5. \A p \in Nat : p > t => p \in S
  OBVIOUS
<1>6. ASSUME NEW p \in Nat, p <= t, \A q \in Nat : q > p => q \in S
      PROVE  p \in S
  <2> SUFFICES ASSUME p \in (s + 1)..t, p - s \notin escapes, NEW l \in Nat, p # t
               PROVE  k[p][l] = k[t][l]
    OBVIOUS
  <2> DEFINE j == p - s + 1
  <2>1. j \in 2..(Len(w) - 1) /\ w[j] = text[p] /\ j - 1 = p - s /\ p <= Len(text)
    BY <1>2
  <2>2. k[p][l] = SeekAt(text, open, k, p, l) /\ ~(p > Len(text))
    BY <1>1, <2>1
  <2>3. p + 1 \in S /\ p + 2 \in S /\ (p + 1) - s = j /\ (p + 2) - s = j + 1
    BY <1>6
  <2> HIDE DEF j
  <2>4. CASE text[p] = Escape
    <3>1. j \in escapes
      BY <1>3, <2>1, <2>4
    <3>2. j + 1 \notin escapes
      <4>1. (j + 1) - 1 = j
        BY <2>1
      <4> QED
        BY <1>3, <3>1, <4>1
    <3>3. j # Len(w) - 1
      BY <1>3, <3>1
    <3>4. p + 2 \in (s + 1)..t
      <4>1. p + 1 - s # Len(w) - 1 /\ Len(w) = t - s + 1 /\ p + 1 - s \in 2..(Len(w) - 1)
        BY <1>2, <2>1, <3>3 DEF j
      <4> HIDE DEF w
      <4> QED
        BY <4>1
    <3>5. k[p + 2][l] = k[t][l]
      BY <2>3, <3>2, <3>4
    <3> QED
      BY <2>2, <2>4, <3>5, Zenon DEF SeekAt
  <2>5. CASE text[p] # Escape
    <3>1. j \notin escapes
      BY <1>3, <2>1, <2>5
    <3>2. text[p] # Quote
      BY <1>3, <2>1, <3>1
    <3>3. text[p] \notin Brackets
      BY <1>4, <2>1
    <3>4. text[p] # ClosingOf[open] /\ text[p] # open
      BY <3>2, <3>3, Closings, Zenon
    <3>5. p + 1 \in (s + 1)..t
      BY <2>1
    <3>6. k[p + 1][l] = k[t][l]
      BY <2>3, <3>1, <3>5
    <3> QED
      BY <2>2, <2>5, <3>4, <3>6, Zenon DEF SeekAt
  <2> QED
    BY <2>4, <2>5
<1>7. S = Nat
  <2>1. S \in SUBSET Nat
    OBVIOUS
  <2>2. t \in Nat
    OBVIOUS
  <2> HIDE DEF S
  <2> QED
    BY <1>5, <1>6, <2>1, <2>2, Backwards
<1>8. (s + 1) - s \notin escapes /\ s + 1 \in (s + 1)..t /\ s + 1 \in Nat
  OBVIOUS
<1>9. \A l \in Nat : k[s + 1][l] = k[t][l]
  BY <1>7, <1>8
<1> QED
  BY <1>9 DEF k

LEMMA StringEnds ==
    ASSUME NEW Tok, NEW text \in Seq(Tok), NEW s \in Nat \ {0}, NEW t \in (s + 1)..Len(text),
           IsString(SubSeq(text, s, t))
    PROVE  /\ text[s] = Quote
           /\ CorrespondingBracket(text, s) = t
           /\ \A open \in Opening : \A l \in Nat :
                 Seek(text, open)[s][l] = Seek(text, open)[t + 1][l]
<1>1. text[s] = Quote /\ text[t] = Quote
  <2>1. SubSeq(text, s, t)[s - s + 1] = text[s] /\ SubSeq(text, s, t)[t - s + 1] = text[t]
        /\ Len(SubSeq(text, s, t)) = t - s + 1 /\ s - s + 1 = 1
    BY Word
  <2> QED
    BY <2>1 DEF IsString
<1>2. 0 \in Nat /\ s \in Nat /\ t \in Nat /\ ~(s > Len(text)) /\ ~(t > Len(text))
  OBVIOUS
<1>3. CorrespondingBracket(text, s) = t
  <2>1. CorrespondingBracket(text, s) = Seek(text, Quote)[s + 1][0]
    BY <1>1, BracketIsSought, Zenon
  <2>2. Seek(text, Quote)[s + 1][0] = Seek(text, Quote)[t][0]
    BY <1>2, InString
  <2>3. Seek(text, Quote)[t][0] = SeekAt(text, Quote, Seek(text, Quote), t, 0)
    BY <1>2, SeekEquation
  <2>4. SeekAt(text, Quote, Seek(text, Quote), t, 0) = t
    BY <1>1, <1>2, Closings, Zenon DEF SeekAt
  <2> QED
    BY <2>1, <2>2, <2>3, <2>4
<1>4. ASSUME NEW open \in Opening, NEW l \in Nat
      PROVE  Seek(text, open)[s][l] = Seek(text, open)[t + 1][l]
  <2> DEFINE k == Seek(text, open)
  <2>1. k[s][l] = SeekAt(text, open, k, s, l) /\ k[t][l] = SeekAt(text, open, k, t, l)
    BY <1>2, SeekEquation
  <2>2. k[s + 1][l] = k[t][l]
    BY InString
  <2> HIDE DEF k
  <2>3. Quote # ClosingOf[open] /\ Quote # open
    BY Closings, Zenon
  <2>4. SeekAt(text, open, k, s, l) = k[s + 1][l] /\ SeekAt(text, open, k, t, l) = k[t + 1][l]
    BY <1>1, <1>2, <2>3, Closings, Zenon DEF SeekAt
  <2> QED
    BY <2>1, <2>2, <2>4 DEF k
<1> QED
  BY <1>1, <1>3, <1>4

(* Induction from the smaller numbers to the larger ones.                  *)
LEMMA Forwards ==
    ASSUME NEW S \in SUBSET Nat, \A n \in Nat : (\A m \in Nat : m < n => m \in S) => n \in S
    PROVE  S = Nat
<1> SUFFICES ASSUME Nat \ S # {} PROVE FALSE
  OBVIOUS
<1>1. PICK n \in Nat \ S : \A m \in Nat \ S : n <= m
  <2>1. Nat \ S \in SUBSET Nat
    OBVIOUS
  <2> QED
    BY <2>1, HasOldest
<1>2. ASSUME NEW m \in Nat, m < n PROVE m \in S
  BY <1>1, <1>2
<1> QED
  BY <1>1, <1>2

(***************************************************************************)
(* The positions of a document.                                            *)
(***************************************************************************)
LEMMA Positions ==
    ASSUME NEW doc, IsDocument(doc)
    PROVE  /\ doc.tokens \in Seq(STRING)
           /\ Len(doc.tokens) \in Nat
           /\ \A p \in DOMAIN doc.close :
                 /\ p \in Nat \ {0} /\ p \in 1..Len(doc.tokens)
                 /\ doc.close[p] \in (p + 1)..Len(doc.tokens)
                 /\ doc.close[p] \in Nat
                 /\ p \in Strings(doc) \/ p \in Containers(doc)
           /\ \A p \in Strings(doc) : p \in DOMAIN doc.close /\ doc.tokens[p] = Quote
                                      /\ IsString(SubSeq(doc.tokens, p, doc.close[p]))
           /\ \A p \in Containers(doc) : p \in DOMAIN doc.close /\ doc.tokens[p] \in Opening
                                         /\ doc.items[p] \in Seq(Item) /\ ContainerOK(doc, p)
<1>1. /\ doc.tokens \in Seq(STRING)
      /\ DOMAIN doc.close \subseteq 1..Len(doc.tokens)
      /\ \A p \in DOMAIN doc.close : doc.close[p] \in (p + 1)..Len(doc.tokens)
      /\ DOMAIN doc.close = Strings(doc) \cup Containers(doc)
      /\ StringsOK(doc)
      /\ \A c \in Containers(doc) : doc.items[c] \in Seq(Item) /\ ContainerOK(doc, c)
  BY Zenon DEF IsDocument
<1>2. Len(doc.tokens) \in Nat
  BY <1>1
<1>3. ASSUME NEW p \in DOMAIN doc.close
      PROVE  /\ p \in Nat \ {0} /\ p \in 1..Len(doc.tokens)
             /\ doc.close[p] \in Nat
  <2>1. p \in 1..Len(doc.tokens) /\ doc.close[p] \in (p + 1)..Len(doc.tokens)
    BY <1>1
  <2> HIDE <1>1
  <2> QED
    BY <1>2, <2>1
<1>4. \A p \in Strings(doc) : p \in DOMAIN doc.close /\ doc.tokens[p] = Quote
                              /\ IsString(SubSeq(doc.tokens, p, doc.close[p]))
  BY <1>1, Zenon DEF Strings, StringsOK
<1>5. \A p \in Containers(doc) : p \in DOMAIN doc.close /\ doc.tokens[p] \in Opening
  BY Zenon DEF Containers
<1>6. \A p \in DOMAIN doc.close : p \in Strings(doc) \/ p \in Containers(doc)
  BY <1>1, Zenon
<1> QED
  BY <1>1, <1>2, <1>3, <1>4, <1>5, <1>6, Zenon

LEMMA ItemPositions ==
    ASSUME NEW doc, IsDocument(doc), NEW c \in Containers(doc), NEW k \in DOMAIN doc.items[c]
    PROVE  LET at    == doc.items[c][k].at
               last  == LastAt(doc, at)
               start == Start(doc, c, k)
           IN  /\ k \in Nat \ {0} /\ k \in 1..Len(doc.items[c]) /\ Len(doc.items[c]) \in Nat
               /\ doc.items[c][k] \in Item
               /\ start \in Nat \ {0} /\ at \in Nat \ {0} /\ last \in Nat
               /\ start <= at /\ at <= last /\ last < doc.close[c]
               /\ doc.close[c] <= Len(doc.tokens)
               /\ NameOK(doc, c, k) /\ ValueOK(doc, at)
               /\ k = Len(doc.items[c]) => last + 1 = doc.close[c]
<1> DEFINE items == doc.items[c]
           at    == items[k].at
           last  == LastAt(doc, at)
           start == Start(doc, c, k)
<1>1. /\ items \in Seq(Item) /\ ContainerOK(doc, c) /\ c \in DOMAIN doc.close
      /\ Len(doc.tokens) \in Nat
      /\ \A p \in DOMAIN doc.close :
            p \in Nat \ {0} /\ doc.close[p] \in (p + 1)..Len(doc.tokens) /\ doc.close[p] \in Nat
  BY Positions, Zenon
<1>2. Len(items) \in Nat /\ k \in 1..Len(items) /\ k \in Nat \ {0}
      /\ \A j \in 1..Len(items) : j \in DOMAIN items /\ items[j] \in Item
  BY <1>1
<1>3. \A j \in 1..Len(items) : items[j].at \in Nat
  BY <1>2 DEF Item
<1>4. \A j \in 1..Len(items) : /\ LastAt(doc, items[j].at) \in Nat
                               /\ items[j].at <= LastAt(doc, items[j].at)
  <2> SUFFICES ASSUME NEW p \in Nat PROVE LastAt(doc, p) \in Nat /\ p <= LastAt(doc, p)
    BY <1>3
  <2>1. CASE p \in DOMAIN doc.close
    <3>1. LastAt(doc, p) = doc.close[p]
      BY <2>1, Zenon DEF LastAt
    <3>2. doc.close[p] \in Nat /\ doc.close[p] \in (p + 1)..Len(doc.tokens)
      BY <1>1, <2>1
    <3> QED
      BY <3>1, <3>2
  <2>2. CASE p \notin DOMAIN doc.close
    <3>1. LastAt(doc, p) = p
      BY <2>2, Zenon DEF LastAt
    <3> QED
      BY <3>1
  <2> QED
    BY <2>1, <2>2
<1>5. /\ NameOK(doc, c, k) /\ ValueOK(doc, at)
      /\ IF k = Len(items) THEN last + 1 = doc.close[c]
         ELSE last + 1 < doc.close[c] /\ doc.tokens[last + 1] = ","
  BY <1>1, Zenon DEF ContainerOK
<1>6. start \in Nat \ {0}
  <2>1. CASE k = 1
    <3>1. start = c + 1
      BY <2>1, Zenon DEF Start
    <3> QED
      BY <1>1, <3>1
  <2>2. CASE k # 1
    <3>1. start = LastAt(doc, items[k - 1].at) + 2
      BY <2>2, Zenon DEF Start
    <3>2. k - 1 \in 1..Len(items)
      BY <1>2, <2>2
    <3>3. LastAt(doc, items[k - 1].at) \in Nat
      BY <1>4, <3>2
    <3> HIDE DEF start
    <3> QED
      BY <3>1, <3>3
  <2> QED
    BY <2>1, <2>2
<1>7. at \in Nat /\ last \in Nat /\ at <= last
  BY <1>2, <1>3, <1>4
<1>9. start <= at
  <2>1. CASE doc.tokens[c] = "{"
    <3>1. start \in Strings(doc) /\ at = doc.close[start] + 2
      BY <1>5, <2>1, Zenon DEF NameOK
    <3>2. start \in DOMAIN doc.close
      BY <3>1 DEF Strings
    <3>3. doc.close[start] \in (start + 1)..Len(doc.tokens) /\ doc.close[start] \in Nat
      BY <1>1, <3>2
    <3> HIDE DEF start, at
    <3> QED
      BY <1>1, <1>6, <3>1, <3>3
  <2>2. CASE doc.tokens[c] # "{"
    <3>1. at = start
      BY <1>5, <2>2, Zenon DEF NameOK
    <3> HIDE DEF start, at
    <3> QED
      BY <1>6, <3>1
  <2> QED
    BY <2>1, <2>2
<1>10. doc.close[c] \in Nat /\ doc.close[c] <= Len(doc.tokens)
  BY <1>1
<1>11. items[k] \in Item
  BY <1>2
<1> HIDE DEF start, last, at, items
<1>12. last < doc.close[c] /\ at \in Nat \ {0}
  <2>1. last + 1 = doc.close[c] \/ last + 1 < doc.close[c]
    BY <1>5, Zenon
  <2> QED
    BY <1>6, <1>7, <1>9, <1>10, <2>1
<1>13. k = Len(items) => last + 1 = doc.close[c]
  BY <1>5, Zenon
<1> QED
  BY <1>2, <1>5, <1>6, <1>7, <1>9, <1>10, <1>11, <1>12, <1>13, Zenon
     DEF start, last, at, items

LEMMA NextItem ==
    ASSUME NEW doc, IsDocument(doc), NEW c \in Containers(doc), NEW k \in DOMAIN doc.items[c],
           k # Len(doc.items[c])
    PROVE  /\ LastAt(doc, doc.items[c][k].at) + 1 < doc.close[c]
           /\ k + 1 \in DOMAIN doc.items[c]
           /\ Start(doc, c, k + 1) = LastAt(doc, doc.items[c][k].at) + 2
<1>1. doc.items[c] \in Seq(Item) /\ ContainerOK(doc, c)
  BY Positions
<1>2. LastAt(doc, doc.items[c][k].at) + 1 < doc.close[c]
  BY <1>1, Zenon DEF ContainerOK
<1>3. k + 1 \in DOMAIN doc.items[c] /\ k + 1 # 1 /\ (k + 1) - 1 = k
  BY <1>1
<1>4. Start(doc, c, k + 1) = LastAt(doc, doc.items[c][(k + 1) - 1].at) + 2
  BY <1>3, Zenon DEF Start
<1> QED
  BY <1>2, <1>3, <1>4

Comma == ","

LEMMA CommaBehind ==
    ASSUME NEW doc, IsDocument(doc), NEW c \in Containers(doc), NEW k \in DOMAIN doc.items[c],
           k # Len(doc.items[c])
    PROVE  doc.tokens[LastAt(doc, doc.items[c][k].at) + 1] = Comma
<1>1. ContainerOK(doc, c)
  BY Positions
<1> QED
  BY <1>1, Zenon DEF ContainerOK, Comma

(***************************************************************************)
(* A search for brackets passes over every value.                          *)
(***************************************************************************)
Passes(doc, from, to) ==
    \A open \in Opening : \A l \in Nat :
        Seek(doc.tokens, open)[from][l] = Seek(doc.tokens, open)[to][l]

LEMMA PassesOn ==
    ASSUME NEW doc, NEW a, NEW b, NEW c, Passes(doc, a, b), Passes(doc, b, c)
    PROVE  Passes(doc, a, c)
BY Zenon DEF Passes

LEMMA TokenPassed ==
    ASSUME NEW doc, IsDocument(doc), NEW p \in 1..Len(doc.tokens),
           doc.tokens[p] \notin Brackets \cup {Escape}
    PROVE  Passes(doc, p, p + 1)
<1> SUFFICES ASSUME NEW open \in Opening, NEW l \in Nat
             PROVE  Seek(doc.tokens, open)[p][l] = Seek(doc.tokens, open)[p + 1][l]
  BY DEF Passes
<1>1. doc.tokens \in Seq(STRING) /\ Len(doc.tokens) \in Nat
  BY Positions
<1>2. p \in Nat /\ ~(p > Len(doc.tokens))
  BY <1>1
<1>3. Seek(doc.tokens, open)[p][l] = SeekAt(doc.tokens, open, Seek(doc.tokens, open), p, l)
  BY <1>1, <1>2, SeekEquation
<1>4. doc.tokens[p] # ClosingOf[open] /\ doc.tokens[p] # open /\ doc.tokens[p] # Escape
  BY Closings, Zenon
<1> QED
  BY <1>2, <1>3, <1>4, Zenon DEF SeekAt

(* An object or an array is passed if its inside is.                       *)
LEMMA ContainerPassed ==
    ASSUME NEW doc, IsDocument(doc), NEW c \in Containers(doc), Passes(doc, c + 1, doc.close[c])
    PROVE  /\ Passes(doc, c, doc.close[c] + 1)
           /\ CorrespondingBracket(doc.tokens, c) = doc.close[c]
<1> DEFINE text == doc.tokens
           e == doc.close[c]
           b == text[c]
<1>1. /\ text \in Seq(STRING) /\ Len(text) \in Nat /\ c \in Nat /\ c \in 1..Len(text)
      /\ e \in Nat /\ e \in (c + 1)..Len(text) /\ b \in Opening /\ ContainerOK(doc, c)
  BY Positions
<1>2. text[e] = ClosingOf[b]
  BY <1>1, Zenon DEF ContainerOK
<1>3. ~(c > Len(text)) /\ ~(e > Len(text)) /\ 0 \in Nat
  BY <1>1
<1>4. ASSUME NEW open \in Opening, NEW l \in Nat
      PROVE  /\ Seek(text, open)[c][l] = SeekAt(text, open, Seek(text, open), c, l)
             /\ Seek(text, open)[e][l] = SeekAt(text, open, Seek(text, open), e, l)
             /\ Seek(text, open)[c + 1][l] = Seek(text, open)[e][l]
  BY <1>1, SeekEquation DEF Passes
<1>5. text[c] # Escape /\ text[e] # Escape
  BY <1>1, <1>2, Closings, Zenon
<1>6. ASSUME NEW open \in Opening PROVE text[c] # ClosingOf[open]
  BY <1>1, Closings DEF ClosingOf, Opening
<1>7. CorrespondingBracket(text, c) = e
  <2>1. CorrespondingBracket(text, c) = Seek(text, b)[c + 1][0]
    BY BracketIsSought, Zenon
  <2>2. Seek(text, b)[c + 1][0] = Seek(text, b)[e][0]
    BY <1>1, <1>3, <1>4
  <2>3. Seek(text, b)[e][0] = SeekAt(text, b, Seek(text, b), e, 0)
    BY <1>1, <1>3, <1>4
  <2> HIDE DEF text, e, b
  <2>4. SeekAt(text, b, Seek(text, b), e, 0) = e
    BY <1>2, <1>3, <1>5, Zenon DEF SeekAt
  <2> QED
    BY <2>1, <2>2, <2>3, <2>4
<1>8. ASSUME NEW open \in Opening, NEW l \in Nat
      PROVE  Seek(text, open)[c][l] = Seek(text, open)[e + 1][l]
  <2> DEFINE k == Seek(text, open)
  <2>0. \A m \in Nat : /\ k[c][m] = SeekAt(text, open, k, c, m)
                       /\ k[e][m] = SeekAt(text, open, k, e, m)
                       /\ k[c + 1][m] = k[e][m]
    BY <1>4
  <2>1. text[c] # ClosingOf[open]
    BY <1>6
  <2>2. CASE b = open
    <3>1. l + 1 \in Nat /\ l + 1 # 0 /\ (l + 1) - 1 = l
      OBVIOUS
    <3> HIDE DEF k, text, e
    <3>2. SeekAt(text, open, k, c, l) = k[c + 1][l + 1]
      BY <1>3, <1>5, <2>1, <2>2, Zenon DEF SeekAt
    <3>3. SeekAt(text, open, k, e, l + 1) = k[e + 1][(l + 1) - 1]
      BY <1>2, <1>3, <1>5, <2>2, <3>1, Zenon DEF SeekAt
    <3>4. k[c][l] = k[e + 1][(l + 1) - 1]
      BY <2>0, <3>1, <3>2, <3>3, Zenon
    <3> QED
      BY <3>1, <3>4 DEF k
  <2>3. CASE b # open
    <3>1. text[e] # ClosingOf[open] /\ text[e] # open
      BY <1>1, <1>2, <2>3, Closings, Zenon
    <3> HIDE DEF k, text, e
    <3>2. SeekAt(text, open, k, c, l) = k[c + 1][l]
      BY <1>3, <1>5, <2>1, <2>3, Zenon DEF SeekAt
    <3>3. SeekAt(text, open, k, e, l) = k[e + 1][l]
      BY <1>3, <1>5, <3>1, Zenon DEF SeekAt
    <3>4. k[c][l] = k[e + 1][l]
      BY <2>0, <3>2, <3>3, Zenon
    <3> QED
      BY <3>4 DEF k
  <2> QED
    BY <2>2, <2>3
<1> QED
  BY <1>7, <1>8 DEF Passes

LEMMA ValuePassed ==
    ASSUME NEW doc, IsDocument(doc), NEW at \in 1..Len(doc.tokens), ValueOK(doc, at),
           at \in Containers(doc) => Passes(doc, at + 1, doc.close[at])
    PROVE  Passes(doc, at, LastAt(doc, at) + 1)
<1>1. CASE at \in Containers(doc)
  <2>1. LastAt(doc, at) = doc.close[at]
    BY <1>1, Zenon DEF LastAt, Containers
  <2> QED
    BY <1>1, <2>1, ContainerPassed
<1>2. CASE at \in Strings(doc)
  <2>1. LastAt(doc, at) = doc.close[at]
    BY <1>2, Zenon DEF LastAt, Strings
  <2>2. /\ doc.tokens \in Seq(STRING) /\ at \in Nat \ {0}
        /\ doc.close[at] \in (at + 1)..Len(doc.tokens)
        /\ IsString(SubSeq(doc.tokens, at, doc.close[at]))
    BY <1>2, Positions
  <2>3. \A open \in Opening : \A l \in Nat :
           Seek(doc.tokens, open)[at][l] = Seek(doc.tokens, open)[doc.close[at] + 1][l]
    BY <2>2, StringEnds
  <2> QED
    BY <2>1, <2>3, Zenon DEF Passes
<1>3. CASE at \notin DOMAIN doc.close /\ doc.tokens[at] \notin Brackets \cup {Escape}
  <2>1. LastAt(doc, at) = at
    BY <1>3, Zenon DEF LastAt
  <2> QED
    BY <1>3, <2>1, TokenPassed
<1> QED
  BY <1>1, <1>2, <1>3, Zenon DEF ValueOK

(* In front of its value an item has nothing that counts.                  *)
LEMMA NamePassed ==
    ASSUME NEW doc, IsDocument(doc), NEW c \in Containers(doc), NEW k \in DOMAIN doc.items[c]
    PROVE  Passes(doc, Start(doc, c, k), doc.items[c][k].at)
<1> DEFINE start == Start(doc, c, k)
           at    == doc.items[c][k].at
<1>1. NameOK(doc, c, k)
  BY ItemPositions, Zenon
<1>2. CASE doc.tokens[c] = "{"
  <2>1. start \in Strings(doc) /\ at = doc.close[start] + 2 /\ doc.tokens[at - 1] = ":"
    BY <1>1, <1>2, Zenon DEF NameOK
  <2>2. /\ doc.tokens \in Seq(STRING) /\ start \in Nat \ {0} /\ Len(doc.tokens) \in Nat
        /\ doc.close[start] \in (start + 1)..Len(doc.tokens)
        /\ IsString(SubSeq(doc.tokens, start, doc.close[start]))
    BY <2>1, Positions, Zenon
  <2>3. at <= Len(doc.tokens) /\ at \in Nat
    <3>1. /\ at \in Nat /\ LastAt(doc, at) \in Nat /\ at <= LastAt(doc, at)
          /\ LastAt(doc, at) < doc.close[c] /\ doc.close[c] <= Len(doc.tokens)
      BY ItemPositions, Zenon
    <3>2. doc.close[c] \in Nat
      BY Positions
    <3> HIDE DEF at
    <3> QED
      BY <2>2, <3>1, <3>2
  <2>4. \A open \in Opening : \A l \in Nat :
           Seek(doc.tokens, open)[start][l] = Seek(doc.tokens, open)[doc.close[start] + 1][l]
    BY <2>2, StringEnds
  <2> HIDE DEF start, at
  <2>5. at - 1 \in 1..Len(doc.tokens) /\ (at - 1) + 1 = at /\ doc.close[start] + 1 = at - 1
    BY <2>1, <2>2, <2>3
  <2>6. Passes(doc, at - 1, at)
    <3>1. ":" \notin Brackets \cup {Escape}
      BY DEF Brackets, Escape
    <3> QED
      BY <2>1, <2>5, <3>1, TokenPassed
  <2> QED
    BY <2>4, <2>5, <2>6 DEF Passes, start, at
<1>3. CASE doc.tokens[c] # "{"
  <2>1. at = start
    BY <1>1, <1>3, Zenon DEF NameOK
  <2> QED
    BY <2>1, Zenon DEF Passes
<1> QED
  BY <1>2, <1>3

(* What holds of an item, when it holds of those inside it and behind it,  *)
(* holds of every item.                                                    *)
LEMMA ItemInduction ==
    ASSUME NEW doc, IsDocument(doc), NEW S,
           \A c \in Containers(doc) : \A k \in DOMAIN doc.items[c] :
              /\ LET at == doc.items[c][k].at
                 IN  at \in Containers(doc) /\ doc.items[at] # <<>> => <<at, 1>> \in S
              /\ k # Len(doc.items[c]) => <<c, k + 1>> \in S
              => <<c, k>> \in S
    PROVE  \A c \in Containers(doc) : \A k \in DOMAIN doc.items[c] : <<c, k>> \in S
<1> DEFINE R == {n \in Nat : \A c \in Containers(doc) : \A k \in DOMAIN doc.items[c] :
                    doc.close[c] - Start(doc, c, k) = n => <<c, k>> \in S}
<1>1. ASSUME NEW n \in Nat, \A m \in Nat : m < n => m \in R
      PROVE  n \in R
  <2> SUFFICES ASSUME NEW c \in Containers(doc), NEW k \in DOMAIN doc.items[c],
                      doc.close[c] - Start(doc, c, k) = n
               PROVE  <<c, k>> \in S
    OBVIOUS
  <2> DEFINE start == Start(doc, c, k)
             at    == doc.items[c][k].at
             last  == LastAt(doc, at)
             end   == doc.close[c]
  <2>1. end \in Nat /\ Len(doc.tokens) \in Nat
    BY Positions
  <2>2. /\ start \in Nat \ {0} /\ at \in Nat \ {0} /\ last \in Nat
        /\ start <= at /\ at <= last /\ last < end /\ end <= Len(doc.tokens)
    BY ItemPositions, Zenon
  <2>3. end - start = n
    OBVIOUS
  <2>4. ASSUME at \in Containers(doc), doc.items[at] # <<>>
        PROVE  <<at, 1>> \in S
    <3>1. last = doc.close[at] /\ doc.items[at] \in Seq(Item) /\ doc.close[at] \in Nat
      BY <2>4, Positions, Zenon DEF LastAt
    <3>2. 1 \in DOMAIN doc.items[at]
      BY <2>4, <3>1
    <3>3. Start(doc, at, 1) = at + 1
      BY Zenon DEF Start
    <3> DEFINE m == doc.close[at] - Start(doc, at, 1)
    <3>4. m < n /\ m \in Nat
      <4>1. Start(doc, at, 1) <= last
        <5>1. /\ Start(doc, at, 1) \in Nat /\ doc.items[at][1].at \in Nat
              /\ LastAt(doc, doc.items[at][1].at) \in Nat
              /\ Start(doc, at, 1) <= doc.items[at][1].at
              /\ doc.items[at][1].at <= LastAt(doc, doc.items[at][1].at)
              /\ LastAt(doc, doc.items[at][1].at) < doc.close[at]
          BY <2>4, <3>2, ItemPositions
        <5>2. Start(doc, at, 1) < doc.close[at]
          <6> HIDE DEF at, last, start, end
          <6> QED
            BY <3>1, <5>1
        <5> HIDE DEF last, at, start, end
        <5> QED
          BY <2>2, <3>1, <5>1, <5>2
      <4> HIDE DEF start, at, last, end
      <4> QED
        BY <2>1, <2>2, <2>3, <3>1, <3>3, <4>1
    <3>5. m \in R
      <4> HIDE DEF R, m
      <4> QED
        BY <1>1, <3>4
    <3> QED
      BY <2>4, <3>2, <3>5
  <2>5. ASSUME k # Len(doc.items[c])
        PROVE  <<c, k + 1>> \in S
    <3>1. /\ last + 1 < end /\ k + 1 \in DOMAIN doc.items[c]
          /\ Start(doc, c, k + 1) = last + 2
      BY <2>5, NextItem
    <3> DEFINE m == end - Start(doc, c, k + 1)
    <3>2. m \in Nat /\ m < n
      <4>1. last + 1 < end /\ Start(doc, c, k + 1) = last + 2
        BY <3>1
      <4> HIDE DEF at, last, end, start
      <4> QED
        BY <2>1, <2>2, <2>3, <4>1
    <3>3. m \in R
      <4> HIDE DEF R, m
      <4> QED
        BY <1>1, <3>2
    <3> QED
      BY <3>1, <3>3
  <2> QED
    BY <2>4, <2>5
<1>2. R = Nat
  <2>1. R \in SUBSET Nat
    OBVIOUS
  <2> HIDE DEF R
  <2> QED
    BY <1>1, <2>1, Forwards
<1>3. ASSUME NEW c \in Containers(doc), NEW k \in DOMAIN doc.items[c]
      PROVE  doc.close[c] - Start(doc, c, k) \in Nat
  <2> DEFINE at == doc.items[c][k].at
  <2>1. /\ Start(doc, c, k) \in Nat /\ at \in Nat /\ LastAt(doc, at) \in Nat
        /\ Start(doc, c, k) <= at /\ at <= LastAt(doc, at) /\ LastAt(doc, at) < doc.close[c]
        /\ doc.close[c] \in Nat
    BY ItemPositions, Positions
  <2> HIDE DEF at
  <2> QED
    BY <2>1
<1> QED
  BY <1>2, <1>3

(* From the beginning of an item to the end of its container.              *)
LEMMA ItemsPassed ==
    ASSUME NEW doc, IsDocument(doc)
    PROVE  \A c \in Containers(doc) : \A k \in DOMAIN doc.items[c] :
               Passes(doc, Start(doc, c, k), doc.close[c])
<1> DEFINE T == {i \in {<<c, k>> : c \in Containers(doc), k \in Nat} :
                    Passes(doc, Start(doc, i[1], i[2]), doc.close[i[1]])}
<1>0. \A c \in Containers(doc) : \A k \in Nat :
         <<c, k>> \in T <=> Passes(doc, Start(doc, c, k), doc.close[c])
  OBVIOUS
<1> HIDE DEF T
<1>1. ASSUME NEW c \in Containers(doc), NEW k \in DOMAIN doc.items[c],
             LET at == doc.items[c][k].at
             IN  at \in Containers(doc) /\ doc.items[at] # <<>> => <<at, 1>> \in T,
             k # Len(doc.items[c]) => <<c, k + 1>> \in T
      PROVE  <<c, k>> \in T
  <2> DEFINE start == Start(doc, c, k)
             at    == doc.items[c][k].at
             last  == LastAt(doc, at)
             end   == doc.close[c]
  <2>0. end \in Nat /\ Len(doc.tokens) \in Nat
    BY Positions
  <2>1. /\ start \in Nat \ {0} /\ at \in Nat \ {0} /\ last \in Nat /\ k \in Nat
        /\ start <= at /\ at <= last /\ last < end /\ end <= Len(doc.tokens)
    BY ItemPositions, Zenon
  <2>2. ASSUME at \in Containers(doc)
        PROVE  Passes(doc, at + 1, doc.close[at])
    <3>1. CASE doc.items[at] = <<>>
      <4>1. doc.close[at] = at + 1
        BY <2>2, <3>1, Positions, Zenon DEF ContainerOK
      <4> QED
        BY <4>1, Zenon DEF Passes
    <3>2. CASE doc.items[at] # <<>>
      <4>1. Start(doc, at, 1) = at + 1
        BY Zenon DEF Start
      <4>2. Passes(doc, Start(doc, at, 1), doc.close[at])
        BY <1>0, <1>1, <2>2, <3>2
      <4> QED
        BY <4>1, <4>2
    <3> QED
      BY <3>1, <3>2
  <2>3. Passes(doc, start, at)
    BY NamePassed
  <2>4. Passes(doc, at, last + 1)
    <3>1. at \in 1..Len(doc.tokens)
      <4> HIDE DEF at, last, end, start
      <4> QED
        BY <2>0, <2>1
    <3>2. ValueOK(doc, at)
      BY ItemPositions, Zenon
    <3> QED
      BY <2>2, <3>1, <3>2, ValuePassed
  <2>5. Passes(doc, last + 1, end)
    <3>1. CASE k = Len(doc.items[c])
      <4>1. last + 1 = end
        BY <3>1, ItemPositions, Zenon
      <4> QED
        BY <4>1, Zenon DEF Passes
    <3>2. CASE k # Len(doc.items[c])
      <4>1. last + 1 < end /\ Start(doc, c, k + 1) = last + 2
        BY <3>2, NextItem
      <4>2. last + 1 \in 1..Len(doc.tokens) /\ (last + 1) + 1 = last + 2 /\ k + 1 \in Nat
        <5>1. last + 1 < end
          BY <4>1
        <5> HIDE DEF at, last, end, start
        <5> QED
          BY <2>0, <2>1, <5>1
      <4>3. Passes(doc, last + 2, end)
        <5>1. Passes(doc, Start(doc, c, k + 1), end)
          BY <1>0, <1>1, <3>2, <4>2
        <5> QED
          BY <4>1, <5>1
      <4>4. Passes(doc, last + 1, last + 2)
        <5>1. doc.tokens[last + 1] = Comma
          BY <3>2, CommaBehind
        <5>2. Comma \notin Brackets \cup {Escape}
          BY DEF Brackets, Escape, Comma
        <5> HIDE DEF last
        <5> QED
          BY <4>2, <5>1, <5>2, TokenPassed
      <4> QED
        BY <4>3, <4>4, PassesOn
    <3> QED
      BY <3>1, <3>2
  <2>6. Passes(doc, start, end)
    <3>1. Passes(doc, start, last + 1)
      BY <2>3, <2>4, PassesOn
    <3> QED
      BY <2>5, <3>1, PassesOn
  <2> QED
    BY <1>0, <2>1, <2>6
<1>2. \A c \in Containers(doc) : \A k \in DOMAIN doc.items[c] : <<c, k>> \in T
  BY <1>1, ItemInduction
<1>3. \A c \in Containers(doc) : \A k \in DOMAIN doc.items[c] : k \in Nat
  BY ItemPositions
<1> QED
  BY <1>0, <1>2, <1>3

(* The bracket that corresponds to an opening one is the one that closes   *)
(* the object or array.                                                    *)
LEMMA ContainerCloses ==
    ASSUME NEW doc, IsDocument(doc), NEW c \in Containers(doc)
    PROVE  CorrespondingBracket(doc.tokens, c) = doc.close[c]
<1>1. ContainerOK(doc, c) /\ doc.items[c] \in Seq(Item)
  BY Positions
<1>2. Passes(doc, c + 1, doc.close[c])
  <2>1. CASE doc.items[c] = <<>>
    <3>1. doc.close[c] = c + 1
      BY <1>1, <2>1, Zenon DEF ContainerOK
    <3> QED
      BY <3>1, Zenon DEF Passes
  <2>2. CASE doc.items[c] # <<>>
    <3>1. 1 \in DOMAIN doc.items[c]
      BY <1>1, <2>2
    <3>2. Start(doc, c, 1) = c + 1
      BY Zenon DEF Start
    <3>3. Passes(doc, Start(doc, c, 1), doc.close[c])
      BY <3>1, ItemsPassed
    <3> QED
      BY <3>2, <3>3
  <2> QED
    BY <2>1, <2>2
<1> QED
  BY <1>2, ContainerPassed

(***************************************************************************)
(* Where the value of an item ends.                                        *)
(***************************************************************************)
LEMMA LeafEnds ==
    ASSUME NEW doc, IsDocument(doc), NEW at \in 1..Len(doc.tokens), ValueOK(doc, at),
           at \notin Containers(doc), NEW stop \in Nat, LastAt(doc, at) < stop
    PROVE  /\ doc.tokens[at] \notin Opening
           /\ LastAt(doc, at) + 1 = stop \/ doc.tokens[LastAt(doc, at) + 1] = ","
                 => ValueStop(doc.tokens, at, stop) = LastAt(doc, at) + 1
<1> DEFINE text == doc.tokens
           last == LastAt(doc, at)
           s == Stop(text, stop)
<1>1. text \in Seq(STRING) /\ Len(text) \in Nat
  BY Positions
<1>2. at \in Nat /\ at \in Nat \ {0}
  BY <1>1
<1>3. \/ /\ at \in Strings(doc) /\ at \in DOMAIN doc.close /\ last = doc.close[at]
      \/ /\ at \notin DOMAIN doc.close /\ last = at
         /\ text[at] \notin Brackets \cup {Quote, Escape, Space, ",", ":"}
  <2>1. at \in Strings(doc) => at \in DOMAIN doc.close
    BY Zenon DEF Strings
  <2> QED
    BY <2>1, Zenon DEF ValueOK, LastAt
<1>4. last \in Nat /\ at <= last
  <2>1. CASE at \in DOMAIN doc.close /\ last = doc.close[at]
    <3>1. doc.close[at] \in (at + 1)..Len(doc.tokens) /\ doc.close[at] \in Nat
      BY <2>1, Positions
    <3> HIDE DEF last
    <3> QED
      BY <1>1, <1>2, <2>1, <3>1
  <2>2. CASE last = at
    BY <1>2, <2>2
  <2> QED
    BY <1>3, <2>1, <2>2
<1>5. last + 1 \in Nat /\ ~(at >= stop) /\ (last + 1 = stop => last + 1 >= stop)
  <2>1. last < stop
    OBVIOUS
  <2> HIDE DEF last
  <2> QED
    BY <1>2, <1>4, <2>1
<1>6. \A p \in Nat : s[p] = StopAt(text, stop, s, p)
  BY <1>1, StopEquation
<1>7. ASSUME last + 1 = stop \/ text[last + 1] = ","
      PROVE  s[last + 1] = last + 1
  <2>1. last + 1 >= stop \/ text[last + 1] \in {",", "}", "]"}
    BY <1>5, <1>7, Zenon
  <2>2. StopAt(text, stop, s, last + 1) = last + 1
    BY <2>1, Zenon DEF StopAt
  <2> QED
    BY <1>5, <1>6, <2>2
<1>8. text[at] \notin Opening /\ s[at] = s[last + 1]
  <2>1. CASE at \in Strings(doc) /\ last = doc.close[at]
    <3>1. /\ doc.close[at] \in (at + 1)..Len(doc.tokens)
          /\ IsString(SubSeq(doc.tokens, at, doc.close[at]))
      BY <2>1, Positions
    <3>2. text[at] = Quote /\ CorrespondingBracket(text, at) = last
      BY <1>1, <1>2, <2>1, <3>1, StringEnds
    <3>3. Quote \notin {",", "}", "]"} /\ Quote \notin Opening
      BY DEF Quote, Opening
    <3>4. last # 0
      <4> HIDE DEF last
      <4> QED
        BY <1>2, <1>4
    <3>5. StopAt(text, stop, s, at) = s[last + 1]
      BY <1>5, <3>2, <3>3, <3>4, Zenon DEF StopAt
    <3> QED
      BY <1>2, <1>6, <3>2, <3>3, <3>5
  <2>2. CASE last = at /\ text[at] \notin Brackets \cup {Quote, Escape, Space, ",", ":"}
    <3>1. text[at] \notin Opening /\ text[at] \notin {",", "}", "]"} /\ text[at] # Quote
      BY <2>2 DEF Opening, Brackets
    <3>2. StopAt(text, stop, s, at) = s[last + 1]
      BY <1>5, <2>2, <3>1, Zenon DEF StopAt
    <3> QED
      BY <1>2, <1>6, <3>1, <3>2
  <2> QED
    BY <1>3, <2>1, <2>2
<1> QED
  BY <1>7, <1>8, ValueStopIsStop

(***************************************************************************)
(* The nodes that parse() makes of the items of an object or array.        *)
(***************************************************************************)
Inside(doc, c) == Parse(doc.tokens)[c + 1][doc.tokens[c]][doc.close[c]]

ValueOf(doc, at) ==
    IF at \in Containers(doc) THEN NoValue ELSE Double(SubSeq(doc.tokens, at, LastAt(doc, at)))
SubsOf(doc, at) == IF at \in Containers(doc) THEN Inside(doc, at).subs ELSE <<>>
NodeOf(doc, item) == Node(item.name, ValueOf(doc, item.at), SubsOf(doc, item.at))

(* The nodes of the items from k on.                                       *)
Nodes(doc, c, k) ==
    [j \in 1..(Len(doc.items[c]) + 1 - k) |-> NodeOf(doc, doc.items[c][k + j - 1])]

LEMMA FirstNode ==
    ASSUME NEW doc, NEW c, doc.items[c] \in Seq(Item), NEW k \in DOMAIN doc.items[c]
    PROVE  Nodes(doc, c, k) = <<NodeOf(doc, doc.items[c][k])>> \o Nodes(doc, c, k + 1)
<1> DEFINE items == doc.items[c]
           Tok == {NodeOf(doc, items[j]) : j \in DOMAIN items}
           a == <<NodeOf(doc, items[k])>>
           r == Nodes(doc, c, k + 1)
           s == Nodes(doc, c, k)
<1>1. Len(items) \in Nat /\ DOMAIN items = 1..Len(items) /\ k \in 1..Len(items) /\ k \in Nat
  OBVIOUS
<1>2. ASSUME NEW i \in 1..(Len(items) + 1)
      PROVE  /\ Nodes(doc, c, i) \in Seq(Tok)
             /\ Len(Nodes(doc, c, i)) = Len(items) + 1 - i
             /\ \A j \in 1..(Len(items) + 1 - i) : Nodes(doc, c, i)[j] = NodeOf(doc, items[i + j - 1])
  <2>1. Nodes(doc, c, i) = [j \in 1..(Len(items) + 1 - i) |-> NodeOf(doc, items[i + j - 1])]
    BY Zenon DEF Nodes
  <2>2. Len(items) + 1 - i \in Nat
    <3> HIDE DEF items
    <3> QED
      BY <1>1
  <2>3. ASSUME NEW j \in 1..(Len(items) + 1 - i) PROVE NodeOf(doc, items[i + j - 1]) \in Tok
    <3>1. i + j - 1 \in 1..Len(items)
      <4> HIDE DEF items
      <4> QED
        BY <1>1
    <3> QED
      BY <1>1, <3>1, Zenon
  <2> HIDE DEF Tok
  <2> DEFINE f == [j \in 1..(Len(items) + 1 - i) |-> NodeOf(doc, items[i + j - 1])]
             m == Len(items) + 1 - i
  <2>4. f = [j \in 1..m |-> f[j]] /\ \A j \in 1..m : f[j] \in Tok /\ f[j] = NodeOf(doc, items[i + j - 1])
    BY <2>3, Zenon
  <2> HIDE DEF m, f
  <2>5. m \in Nat
    BY <2>2 DEF m
  <2>6. f \in Seq(Tok) /\ Len(f) = m
    BY <2>4, <2>5
  <2> QED
    BY <2>1, <2>4, <2>6, Zenon DEF f, m
<1>3. k + 1 \in 1..(Len(items) + 1) /\ k \in 1..(Len(items) + 1)
  <2> HIDE DEF items
  <2> QED
    BY <1>1
<1>4. r \in Seq(Tok) /\ s \in Seq(Tok) /\ Len(s) = Len(items) + 1 - k /\ Len(r) = Len(items) + 1 - (k + 1)
  BY <1>2, <1>3
<1>5. a \in Seq(Tok) /\ Len(a) = 1 /\ a[1] = NodeOf(doc, items[k])
  <2>1. NodeOf(doc, items[k]) \in Tok
    OBVIOUS
  <2> HIDE DEF Tok
  <2> QED
    BY <2>1
<1>6. \A j \in 1..(Len(items) + 1 - k) : s[j] = NodeOf(doc, items[k + j - 1])
  BY <1>2, <1>3
<1>7. \A j \in 1..(Len(items) + 1 - (k + 1)) : r[j] = NodeOf(doc, items[(k + 1) + j - 1])
  BY <1>2, <1>3
<1> HIDE DEF items, Tok, a, r, s
<1>8. /\ a \o r \in Seq(Tok) /\ Len(a \o r) = 1 + Len(r)
      /\ \A i \in 1..(1 + Len(r)) : (a \o r)[i] = IF i <= 1 THEN a[i] ELSE r[i - 1]
  <2>1. /\ a \o r \in Seq(Tok) /\ Len(a \o r) = Len(a) + Len(r)
        /\ \A i \in 1..(Len(a) + Len(r)) :
              (a \o r)[i] = IF i <= Len(a) THEN a[i] ELSE r[i - Len(a)]
    BY <1>4, <1>5, ConcatProperties, Zenon
  <2> QED
    BY <1>5, <2>1, Zenon
<1>9. Len(a \o r) = Len(s) /\ Len(s) \in Nat /\ 1 + Len(r) = Len(s) /\ Len(s) = Len(items) + 1 - k
  BY <1>1, <1>4, <1>8
<1>10. ASSUME NEW i \in 1..Len(s) PROVE (a \o r)[i] = s[i]
  <2>1. i \in 1..(1 + Len(r)) /\ i \in 1..(Len(items) + 1 - k) /\ i \in Nat
    BY <1>9
  <2>2. CASE i <= 1
    <3>1. i = 1 /\ k + i - 1 = k
      BY <1>1, <2>1, <2>2
    <3>2. (a \o r)[i] = a[i]
      BY <1>8, <2>1, <2>2, Zenon
    <3>3. s[i] = NodeOf(doc, items[k + i - 1])
      BY <1>6, <2>1
    <3> QED
      BY <1>5, <3>1, <3>2, <3>3
  <2>3. CASE ~(i <= 1)
    <3>1. i - 1 \in 1..(Len(items) + 1 - (k + 1)) /\ (k + 1) + (i - 1) - 1 = k + i - 1
      BY <1>1, <2>1, <2>3
    <3>2. (a \o r)[i] = r[i - 1]
      BY <1>8, <2>1, <2>3, Zenon
    <3>3. s[i] = NodeOf(doc, items[k + i - 1])
      BY <1>6, <2>1
    <3>4. r[i - 1] = NodeOf(doc, items[(k + 1) + (i - 1) - 1])
      BY <1>7, <3>1
    <3> QED
      BY <3>1, <3>2, <3>3, <3>4
  <2> QED
    BY <2>2, <2>3
<1>11. a \o r = s
  BY <1>4, <1>8, <1>9, <1>10, SeqEqual
<1> QED
  BY <1>11 DEF a, r, s, items

LEMMA NoMoreNodes ==
    ASSUME NEW doc, NEW c, doc.items[c] \in Seq(Item), NEW k, k = Len(doc.items[c]) + 1
    PROVE  Nodes(doc, c, k) = <<>>
<1>1. Len(doc.items[c]) + 1 - k = 0
  <2>1. Len(doc.items[c]) \in Nat
    OBVIOUS
  <2> QED
    BY <2>1
<1> QED
  BY <1>1 DEF Nodes

LEMMA NameParsed ==
    ASSUME NEW doc, IsDocument(doc), NEW c \in Containers(doc), NEW k \in DOMAIN doc.items[c]
    PROVE  /\ doc.tokens[c] = "{" => Named(doc.tokens, Start(doc, c, k), doc.tokens[c], doc.close[c])
           /\ AtOf(doc.tokens, Start(doc, c, k), doc.tokens[c]) = doc.items[c][k].at
           /\ NameOf(doc.tokens, Start(doc, c, k), doc.tokens[c]) = doc.items[c][k].name
<1> DEFINE text  == doc.tokens
           start == Start(doc, c, k)
           at    == doc.items[c][k].at
           open  == doc.tokens[c]
           stop  == doc.close[c]
<1>1. NameOK(doc, c, k)
  BY ItemPositions, Zenon
<1>2. CASE open = "{"
  <2>1. /\ start \in Strings(doc) /\ at = doc.close[start] + 2 /\ text[at - 1] = ":"
        /\ doc.items[c][k].name = SubSeq(text, start + 1, doc.close[start] - 1)
    BY <1>1, <1>2, Zenon DEF NameOK
  <2>2. /\ text \in Seq(STRING) /\ start \in Nat \ {0} /\ doc.close[start] \in Nat
        /\ doc.close[start] \in (start + 1)..Len(text)
        /\ IsString(SubSeq(text, start, doc.close[start]))
    BY <2>1, Positions, Zenon
  <2>3. text[start] = Quote /\ CorrespondingBracket(text, start) = doc.close[start]
    BY <2>2, StringEnds
  <2>4. NameEnd(text, start, open) = doc.close[start]
    BY <1>2, <2>3, Zenon DEF NameEnd
  <2>5. at \in Nat /\ at < stop
    <3>1. /\ at \in Nat /\ LastAt(doc, at) \in Nat /\ at <= LastAt(doc, at)
          /\ LastAt(doc, at) < stop /\ stop \in Nat
      BY ItemPositions, Positions, Zenon
    <3> HIDE DEF at, stop
    <3> QED
      BY <3>1
  <2>6. doc.close[start] # 0 /\ doc.close[start] + 1 = at - 1
    <3>1. at = doc.close[start] + 2
      BY <2>1
    <3>2. start \in Nat /\ Len(text) \in Nat
      BY <2>2
    <3> HIDE DEF at, start, text
    <3> QED
      BY <2>2, <3>1, <3>2
  <2>7. Named(text, start, open, stop)
    BY <2>1, <2>4, <2>5, <2>6, Zenon DEF Named
  <2>8. AtOf(text, start, open) = at
    BY <1>2, <2>1, <2>4, Zenon DEF AtOf
  <2>9. NameOf(text, start, open) = doc.items[c][k].name
    BY <1>2, <2>1, <2>4, Zenon DEF NameOf
  <2> QED
    BY <2>7, <2>8, <2>9
<1>3. CASE open # "{"
  <2>1. doc.items[c][k].name = <<>> /\ at = start
    BY <1>1, <1>3, Zenon DEF NameOK
  <2> QED
    BY <1>3, <2>1, Zenon DEF AtOf, NameOf
<1> QED
  BY <1>2, <1>3

(* What is made of the value of an item, if what is inside it is parsed.   *)
LEMMA ValueParsed ==
    ASSUME NEW doc, IsDocument(doc), NEW c \in Containers(doc), NEW k \in DOMAIN doc.items[c],
           doc.items[c][k].at \in Containers(doc) =>
               Inside(doc, doc.items[c][k].at) = Good(Nodes(doc, doc.items[c][k].at, 1))
    PROVE  LET text == doc.tokens
               at   == doc.items[c][k].at
               stop == doc.close[c]
           IN  /\ EndOf(text, at, stop) # 0
               /\ text[at] \in Opening => EndOf(text, at, stop) < stop
               /\ text[at] \notin Opening => EndOf(text, at, stop) # at
               /\ NextOf(text, at, stop) = LastAt(doc, at) + 1
               /\ InsideOf(text, Parse(text), at, stop) = Good(SubsOf(doc, at))
               /\ ValueOfItem(text, at, stop) = ValueOf(doc, at)
<1> DEFINE text == doc.tokens
           at   == doc.items[c][k].at
           last == LastAt(doc, at)
           stop == doc.close[c]
<1>1. /\ at \in Nat \ {0} /\ last \in Nat /\ at <= last /\ last < stop /\ stop \in Nat
      /\ stop <= Len(text) /\ Len(text) \in Nat
  BY ItemPositions, Positions, Zenon
<1>2. ValueOK(doc, at) /\ (k = Len(doc.items[c]) => last + 1 = stop)
  BY ItemPositions, Zenon
<1>3. at \in 1..Len(text) /\ last # 0 /\ last + 1 # 0 /\ last + 1 # at /\ last < stop
      /\ (last + 1) - 1 = last
  <2> HIDE DEF text, at, last, stop
  <2> QED
    BY <1>1
<1>4. last + 1 = stop \/ text[last + 1] = ","
  <2>1. CASE k = Len(doc.items[c])
    BY <1>2, <2>1
  <2>2. CASE k # Len(doc.items[c])
    <3>1. text[last + 1] = Comma
      BY <2>2, CommaBehind
    <3> QED
      BY <3>1, Zenon DEF Comma
  <2> QED
    BY <2>1, <2>2
<1>5. CASE at \in Containers(doc)
  <2>1. text[at] \in Opening /\ doc.close[at] = last
    BY <1>5, Zenon DEF Containers, LastAt
  <2>2. EndOf(text, at, stop) = last
    BY <1>5, <2>1, ContainerCloses, Zenon DEF EndOf
  <2>3. NextOf(text, at, stop) = last + 1
    BY <2>1, <2>2, Zenon DEF NextOf
  <2>4. InsideOf(text, Parse(text), at, stop) = Inside(doc, at)
    BY <2>1, <2>2, Zenon DEF InsideOf, Inside
  <2>5. SubsOf(doc, at) = Nodes(doc, at, 1)
    BY <1>5, Outcomes, Zenon DEF SubsOf
  <2>6. ValueOfItem(text, at, stop) = ValueOf(doc, at)
    BY <1>5, <2>1, Zenon DEF ValueOfItem, ValueOf
  <2> QED
    BY <1>3, <1>5, <2>1, <2>2, <2>3, <2>4, <2>5, <2>6, Zenon
<1>6. CASE at \notin Containers(doc)
  <2>1. /\ text[at] \notin Opening
        /\ last + 1 = stop \/ text[last + 1] = "," => ValueStop(text, at, stop) = last + 1
    BY <1>1, <1>2, <1>3, <1>6, LeafEnds
  <2>2. EndOf(text, at, stop) = last + 1
    BY <1>4, <2>1, Zenon DEF EndOf
  <2>3. NextOf(text, at, stop) = last + 1
    BY <2>1, <2>2, Zenon DEF NextOf
  <2>4. InsideOf(text, Parse(text), at, stop) = Good(<<>>)
    BY <2>1, Zenon DEF InsideOf
  <2>5. SubsOf(doc, at) = <<>>
    BY <1>6, Zenon DEF SubsOf
  <2>6. ValueOfItem(text, at, stop) = ValueOf(doc, at)
    BY <1>3, <1>6, <2>1, <2>2, Zenon DEF ValueOfItem, ValueOf
  <2> QED
    BY <1>3, <2>1, <2>2, <2>3, <2>4, <2>5, <2>6, Zenon
<1> QED
  BY <1>5, <1>6

\* What is parsed from item k of a container to its end.
FromItem(doc, c, k) == Parse(doc.tokens)[Start(doc, c, k)][doc.tokens[c]][doc.close[c]]

LEMMA ItemParsed ==
    ASSUME NEW doc, IsDocument(doc), NEW c \in Containers(doc), NEW k \in DOMAIN doc.items[c],
           doc.items[c][k].at \in Containers(doc) =>
               Inside(doc, doc.items[c][k].at) = Good(Nodes(doc, doc.items[c][k].at, 1)),
           k # Len(doc.items[c]) => FromItem(doc, c, k + 1) = Good(Nodes(doc, c, k + 1))
    PROVE  FromItem(doc, c, k) = Good(Nodes(doc, c, k))
<1> DEFINE text  == doc.tokens
           start == Start(doc, c, k)
           item  == doc.items[c][k]
           at    == item.at
           last  == LastAt(doc, at)
           open  == text[c]
           stop  == doc.close[c]
           P     == Parse(text)
           node  == NodeOf(doc, item)
<1>1. /\ start \in Nat /\ at \in Nat /\ last \in Nat /\ start <= at /\ at <= last /\ last < stop
      /\ stop <= Len(text)
  BY ItemPositions, Zenon
<1>2. /\ text \in Seq(STRING) /\ open \in Opening /\ stop \in Nat /\ ContainerOK(doc, c)
      /\ doc.items[c] \in Seq(Item) /\ Len(text) \in Nat
  BY Positions, Zenon
<1>3. stop \in 0..Len(text) /\ ~(start >= stop) /\ ~(last + 1 > Len(text)) /\ (last + 1) + 1 = last + 2
  <2> HIDE DEF text, start, at, last, stop
  <2> QED
    BY <1>1, <1>2
<1>4. P[start][open][stop] = ParseAt(text, P, start, open, stop)
  BY <1>1, <1>2, <1>3, ParseEquation
<1>5. /\ open = "{" => Named(text, start, open, stop)
      /\ AtOf(text, start, open) = at
      /\ NameOf(text, start, open) = item.name
  BY NameParsed, Zenon
<1>6. ParseAt(text, P, start, open, stop) = ItemsFrom(text, P, open, stop, at, item.name)
  BY <1>3, <1>5, Zenon DEF ParseAt
<1>7. /\ EndOf(text, at, stop) # 0
      /\ text[at] \in Opening => ~(EndOf(text, at, stop) >= stop)
      /\ text[at] \notin Opening => EndOf(text, at, stop) # at
      /\ NextOf(text, at, stop) = last + 1
      /\ InsideOf(text, P, at, stop) = Good(SubsOf(doc, at))
      /\ ValueOfItem(text, at, stop) = ValueOf(doc, at)
  <2>1. /\ EndOf(text, at, stop) # 0
        /\ text[at] \in Opening => EndOf(text, at, stop) < stop
        /\ text[at] \notin Opening => EndOf(text, at, stop) # at
        /\ NextOf(text, at, stop) = last + 1
        /\ InsideOf(text, P, at, stop) = Good(SubsOf(doc, at))
        /\ ValueOfItem(text, at, stop) = ValueOf(doc, at)
    BY ValueParsed, Zenon
  <2>2. EndOf(text, at, stop) \in Nat
    BY <1>1, <1>2, EndRange
  <2>3. EndOf(text, at, stop) < stop => ~(EndOf(text, at, stop) >= stop)
    <3> DEFINE e == EndOf(text, at, stop)
    <3> HIDE DEF e, stop, at, text
    <3>1. e < stop => ~(e >= stop)
      BY <1>2, <2>2 DEF e
    <3> QED
      BY <3>1 DEF e
  <2> QED
    BY <2>1, <2>3, Zenon
<1>8. /\ Good(SubsOf(doc, at)).outcome = "good" /\ Good(SubsOf(doc, at)).subs = SubsOf(doc, at)
      /\ node = Node(item.name, ValueOf(doc, at), SubsOf(doc, at))
  BY DEF Good, NodeOf
<1>9. CASE k = Len(doc.items[c])
  <2>1. last + 1 = stop
    BY <1>9, ItemPositions, Zenon
  <2>2. text[stop] # ","
    <3>1. text[stop] = ClosingOf[open]
      BY <1>2, Zenon DEF ContainerOK
    <3>2. ClosingOf[open] \in Brackets /\ "," \notin Brackets
      BY <1>2, Closings, Zenon
    <3> QED
      BY <3>1, <3>2, Zenon
  <2>3. ItemsFrom(text, P, open, stop, at, item.name) = Good(<<node>>)
    BY <1>3, <1>7, <1>8, <2>1, <2>2, Zenon DEF ItemsFrom
  <2>4. Nodes(doc, c, k) = <<node>>
    <3>1. Nodes(doc, c, k + 1) = <<>>
      BY <1>2, <1>9, NoMoreNodes
    <3>2. Nodes(doc, c, k) = <<node>> \o <<>>
      BY <1>2, <3>1, FirstNode
    <3> HIDE DEF node
    <3>3. <<node>> \o <<>> = <<node>>
      OBVIOUS
    <3> QED
      BY <3>2, <3>3, Zenon
  <2> QED
    BY <1>4, <1>6, <2>3, <2>4, Zenon DEF FromItem
<1>10. CASE k # Len(doc.items[c])
  <2>1. text[last + 1] = Comma /\ Start(doc, c, k + 1) = last + 2
    BY <1>10, NextItem, CommaBehind
  <2>2. P[(last + 1) + 1][open][stop] = Good(Nodes(doc, c, k + 1))
    <3>1. FromItem(doc, c, k + 1) = P[last + 2][open][stop]
      BY <2>1, Zenon DEF FromItem
    <3>2. FromItem(doc, c, k + 1) = Good(Nodes(doc, c, k + 1))
      BY <1>10
    <3> QED
      BY <1>3, <3>1, <3>2, Zenon
  <2>3. Good(Nodes(doc, c, k + 1)).outcome = "good"
        /\ Good(Nodes(doc, c, k + 1)).subs = Nodes(doc, c, k + 1)
    BY DEF Good
  <2>4. ItemsFrom(text, P, open, stop, at, item.name) = Good(<<node>> \o Nodes(doc, c, k + 1))
    BY <1>3, <1>7, <1>8, <2>1, <2>2, <2>3, Zenon DEF ItemsFrom, Comma
  <2>5. Nodes(doc, c, k) = <<node>> \o Nodes(doc, c, k + 1)
    BY <1>2, FirstNode
  <2> QED
    BY <1>4, <1>6, <2>4, <2>5, Zenon DEF FromItem
<1> QED
  BY <1>9, <1>10

(* An object or array that is empty has no nodes; the others have those of *)
(* their items.                                                            *)
LEMMA InsideParsed ==
    ASSUME NEW doc, IsDocument(doc), NEW c \in Containers(doc),
           doc.items[c] # <<>> => FromItem(doc, c, 1) = Good(Nodes(doc, c, 1))
    PROVE  Inside(doc, c) = Good(Nodes(doc, c, 1))
<1>1. /\ doc.tokens \in Seq(STRING) /\ doc.tokens[c] \in Opening /\ ContainerOK(doc, c)
      /\ doc.items[c] \in Seq(Item) /\ Len(doc.tokens) \in Nat /\ c \in Nat
      /\ doc.close[c] \in Nat /\ doc.close[c] \in (c + 1)..Len(doc.tokens)
  BY Positions, Zenon
<1>2. CASE doc.items[c] # <<>>
  <2>1. Start(doc, c, 1) = c + 1
    BY Zenon DEF Start
  <2> QED
    BY <1>2, <2>1, Zenon DEF FromItem, Inside
<1>3. CASE doc.items[c] = <<>>
  <2>1. doc.close[c] = c + 1
    BY <1>1, <1>3, Zenon DEF ContainerOK
  <2>2. c + 1 \in Nat /\ c + 1 \in 0..Len(doc.tokens) /\ c + 1 >= c + 1
    BY <1>1, <2>1
  <2>3. Inside(doc, c) = ParseAt(doc.tokens, Parse(doc.tokens), c + 1, doc.tokens[c], c + 1)
    BY <1>1, <2>1, <2>2, ParseEquation DEF Inside
  <2>4. Inside(doc, c) = Good(<<>>)
    BY <2>2, <2>3, Zenon DEF ParseAt
  <2>5. Nodes(doc, c, 1) = <<>>
    <3>1. 1 = Len(doc.items[c]) + 1
      BY <1>3
    <3> QED
      BY <1>1, <3>1, NoMoreNodes
  <2> QED
    BY <2>4, <2>5
<1> QED
  BY <1>2, <1>3

LEMMA ItemsParsed ==
    ASSUME NEW doc, IsDocument(doc)
    PROVE  \A c \in Containers(doc) : \A k \in DOMAIN doc.items[c] :
               FromItem(doc, c, k) = Good(Nodes(doc, c, k))
<1> DEFINE T == {i \in {<<c, k>> : c \in Containers(doc), k \in Nat} :
                    FromItem(doc, i[1], i[2]) = Good(Nodes(doc, i[1], i[2]))}
<1>0. \A c \in Containers(doc) : \A k \in Nat :
         <<c, k>> \in T <=> FromItem(doc, c, k) = Good(Nodes(doc, c, k))
  OBVIOUS
<1> HIDE DEF T
<1>1. ASSUME NEW c \in Containers(doc), NEW k \in DOMAIN doc.items[c],
             LET at == doc.items[c][k].at
             IN  at \in Containers(doc) /\ doc.items[at] # <<>> => <<at, 1>> \in T,
             k # Len(doc.items[c]) => <<c, k + 1>> \in T
      PROVE  <<c, k>> \in T
  <2> DEFINE at == doc.items[c][k].at
  <2>1. k \in Nat /\ k + 1 \in Nat
    BY ItemPositions
  <2>2. at \in Containers(doc) => Inside(doc, at) = Good(Nodes(doc, at, 1))
    BY <1>0, <1>1, InsideParsed
  <2>3. k # Len(doc.items[c]) => FromItem(doc, c, k + 1) = Good(Nodes(doc, c, k + 1))
    BY <1>0, <1>1, <2>1
  <2>4. FromItem(doc, c, k) = Good(Nodes(doc, c, k))
    BY <2>2, <2>3, ItemParsed
  <2> QED
    BY <1>0, <2>1, <2>4
<1>2. \A c \in Containers(doc) : \A k \in DOMAIN doc.items[c] : <<c, k>> \in T
  BY <1>1, ItemInduction
<1>3. \A c \in Containers(doc) : \A k \in DOMAIN doc.items[c] : k \in Nat
  BY ItemPositions
<1> QED
  BY <1>0, <1>2, <1>3

LEMMA ContainerParsed ==
    ASSUME NEW doc, IsDocument(doc), NEW c \in Containers(doc)
    PROVE  Inside(doc, c) = Good(Nodes(doc, c, 1))
<1>1. doc.items[c] # <<>> => FromItem(doc, c, 1) = Good(Nodes(doc, c, 1))
  <2>1. doc.items[c] \in Seq(Item)
    BY Positions
  <2>2. doc.items[c] # <<>> => 1 \in DOMAIN doc.items[c]
    BY <2>1
  <2> QED
    BY <2>2, ItemsParsed
<1> QED
  BY <1>1, InsideParsed

(* parse(), second half, on the tokens of a document.                      *)
LEMMA DocumentParsed ==
    ASSUME NEW doc, IsDocument(doc)
    PROVE  ParsedStripped(Good(doc.tokens)) = Good(Nodes(doc, 1, 1))
<1> DEFINE text == doc.tokens
<1>1. 1 \in Containers(doc) /\ text[1] = "{" /\ doc.close[1] = Len(text)
  BY Zenon DEF IsDocument
<1>2. doc.close[1] \in Nat /\ doc.close[1] \in (1 + 1)..Len(text) /\ text \in Seq(STRING)
  BY <1>1, Positions, Zenon
<1>3. text # <<>> /\ Len(text) # 0
  BY <1>2
<1>4. CorrespondingBracket(text, 1) = Len(text)
  BY <1>1, ContainerCloses
<1>5. Members(text, "{", 2, Len(text)) = Inside(doc, 1)
  <2>1. 1 + 1 = 2
    OBVIOUS
  <2> QED
    BY <1>1, <2>1, MembersAreParsed, Zenon DEF Inside
<1>6. ParsedStripped(Good(text)) = Members(text, "{", 2, Len(text))
  BY <1>1, <1>3, <1>4, Outcomes, Zenon DEF ParsedStripped, RootMembers
<1> QED
  BY <1>1, <1>5, <1>6, ContainerParsed

(***************************************************************************)
(* element(): what it finds among the nodes of an object or array is the   *)
(* node of the item that the key leads to.                                 *)
(***************************************************************************)
ItemUnder(doc, c, key) == CHOOSE k \in DOMAIN doc.items[c] : Leads(doc, c, key, k)

LEMMA NodesOfItems ==
    ASSUME NEW doc, IsDocument(doc), NEW c \in Containers(doc)
    PROVE  /\ Len(Nodes(doc, c, 1)) = Len(doc.items[c]) /\ Len(doc.items[c]) \in Nat
           /\ DOMAIN doc.items[c] = 1..Len(doc.items[c])
           /\ \A k \in DOMAIN doc.items[c] : Nodes(doc, c, 1)[k] = NodeOf(doc, doc.items[c][k])
<1> DEFINE items == doc.items[c]
           n == Len(items)
<1>1. n \in Nat /\ DOMAIN items = 1..n
  <2>1. items \in Seq(Item)
    BY Positions
  <2> QED
    BY <2>1
<1> HIDE DEF n
<1>2. n + 1 - 1 = n /\ \A k \in 1..n : 1 + k - 1 = k
  BY <1>1
<1>3. Nodes(doc, c, 1) = [k \in 1..n |-> NodeOf(doc, items[1 + k - 1])]
  BY <1>2, Zenon DEF Nodes, n
<1>4. \A k \in 1..n : Nodes(doc, c, 1)[k] = NodeOf(doc, items[k])
  BY <1>2, <1>3, Zenon
<1> HIDE DEF items
<1>5. Len(Nodes(doc, c, 1)) = n
  <2> DEFINE f == [k \in 1..n |-> NodeOf(doc, items[1 + k - 1])]
  <2>1. DOMAIN f = 1..n
    OBVIOUS
  <2> HIDE DEF f
  <2>2. f = [k \in 1..n |-> f[k]]
    BY Zenon DEF f
  <2>3. Len(f) = n
    BY <1>1, <2>1, <2>2, LenProperties
  <2> QED
    BY <1>3, <2>3 DEF f
<1> QED
  BY <1>1, <1>4, <1>5 DEF items, n

\* The least of some numbers is the first.
LEMMA FirstIsLeast ==
    ASSUME NEW S \in SUBSET Nat, NEW k \in S, \A l \in S : k <= l
    PROVE  First(S) = k
<1>1. First(S) \in S /\ \A l \in S : First(S) <= l
  BY Zenon DEF First
<1>2. First(S) <= k /\ k <= First(S) /\ First(S) \in Nat /\ k \in Nat
  BY <1>1
<1> HIDE <1>1
<1> QED
  BY <1>2

LEMMA KeyFound ==
    ASSUME NEW doc, IsDocument(doc), NEW c \in Containers(doc), NEW key
    PROVE  LET found == Matches(Nodes(doc, c, 1), key)
           IN  \/ /\ found = {}
                  /\ \A k \in DOMAIN doc.items[c] : ~Leads(doc, c, key, k)
               \/ /\ found # {}
                  /\ First(found) \in DOMAIN doc.items[c]
                  /\ Leads(doc, c, key, First(found))
                  /\ ItemUnder(doc, c, key) = First(found)
<1> DEFINE items  == doc.items[c]
           among  == Nodes(doc, c, 1)
           n      == Len(items)
           byName == {k \in 1..Len(among) : among[k].name = <<key>>}
           named  == {k \in 1..n : items[k].name = <<key>>}
           found  == Matches(among, key)
<1>1. /\ Len(among) = n /\ n \in Nat /\ DOMAIN items = 1..n
      /\ \A k \in 1..n : among[k] = NodeOf(doc, items[k])
  BY NodesOfItems, Zenon
<1>2. \A item : NodeOf(doc, item).name = item.name
  BY DEF NodeOf, Node
<1>3. byName = named
  BY <1>1, <1>2
<1>4. found = IF named # {} THEN named
              ELSE IF key \in Numbers THEN {Position[key]} \cap 1..n ELSE {}
  BY <1>1, <1>3, Zenon DEF Matches
<1>5. \A k \in 1..n : items[k].name = <<key>> <=> k \in named
  OBVIOUS
<1>6. \A k \in 1..n : Leads(doc, c, key, k) <=>
         \/ k \in named /\ \A j \in 1..(k - 1) : items[j].name # <<key>>
         \/ named = {} /\ key \in Numbers /\ k = Position[key]
  BY <1>1, <1>5, Zenon DEF Leads
<1>7. named \in SUBSET Nat /\ named \subseteq 1..n
  <2> HIDE DEF items, n
  <2> QED
    BY <1>1
<1>8. CASE named # {}
  <2>1. found = named
    BY <1>4, <1>8, Zenon
  <2>2. PICK k \in named : \A l \in named : k <= l
    BY <1>7, <1>8, HasOldest
  <2>3. First(found) = k
    BY <1>7, <2>1, <2>2, FirstIsLeast
  <2>4. \A j \in 1..n : Leads(doc, c, key, j) <=> j = k
    <3>1. k \in 1..n
      BY <1>7, <2>2
    <3>2. ASSUME NEW j \in 1..(k - 1) PROVE items[j].name # <<key>>
      <4>1. j \in 1..n /\ ~(k <= j)
        <5> HIDE DEF n, named
        <5> QED
          BY <1>1, <3>1
      <4> QED
        BY <1>5, <2>2, <4>1, Zenon
    <3>3. Leads(doc, c, key, k)
      BY <1>6, <2>2, <3>1, <3>2, Zenon
    <3>4. ASSUME NEW j \in 1..n, Leads(doc, c, key, j) PROVE j = k
      <4>1. j \in named /\ \A i \in 1..(j - 1) : items[i].name # <<key>>
        BY <1>6, <1>8, <3>4, Zenon
      <4>2. k <= j
        BY <2>2, <4>1
      <4>3. k \notin 1..(j - 1)
        BY <1>5, <2>2, <3>1, <4>1, Zenon
      <4> HIDE DEF named, n
      <4> QED
        BY <1>1, <3>1, <4>2, <4>3
    <3> QED
      BY <3>3, <3>4
  <2>5. k \in DOMAIN items
    BY <1>1, <1>7, <2>2
  <2>6. ItemUnder(doc, c, key) = k
    BY <1>1, <2>4, <2>5, Zenon DEF ItemUnder
  <2> QED
    BY <1>1, <1>8, <2>1, <2>3, <2>4, <2>5, <2>6
<1>9. CASE named = {} /\ key \in Numbers /\ Position[key] \in 1..n
  <2> DEFINE k == Position[key]
  <2>1. found = {k}
    <3>1. found = {k} \cap 1..n
      BY <1>4, <1>9, Zenon
    <3> QED
      BY <1>9, <3>1
  <2>2. k \in Nat
    <3> HIDE DEF n
    <3> QED
      BY <1>1, <1>9
  <2> HIDE DEF k
  <2>3. First(found) = k
    <3>1. {k} \in SUBSET Nat /\ k \in {k} /\ \A l \in {k} : k <= l
      BY <2>2
    <3>2. First({k}) = k
      BY <3>1, FirstIsLeast
    <3> QED
      BY <2>1, <3>2
  <2>4. \A j \in 1..n : Leads(doc, c, key, j) <=> j = k
    BY <1>6, <1>9, Zenon DEF k
  <2>5. k \in DOMAIN items
    BY <1>1, <1>9 DEF k
  <2>6. ItemUnder(doc, c, key) = k
    BY <1>1, <2>4, <2>5, Zenon DEF ItemUnder
  <2> QED
    BY <1>1, <2>1, <2>3, <2>4, <2>5, <2>6
<1>10. CASE named = {} /\ ~(key \in Numbers /\ Position[key] \in 1..n)
  <2>1. found = {}
    BY <1>4, <1>10
  <2>2. \A k \in 1..n : ~Leads(doc, c, key, k)
    BY <1>6, <1>10, Zenon
  <2> QED
    BY <1>1, <2>1, <2>2
<1> QED
  BY <1>8, <1>9, <1>10

(***************************************************************************)
(* The places the keys lead to: reach satisfies its equation.              *)
(***************************************************************************)
ReachAt(doc, keys, f, n) == IF n = 0 THEN 1 ELSE Under(doc, f[n - 1], keys[n])
Reaches(doc, keys, f) == [n \in 0..Len(keys) |-> ReachAt(doc, keys, f, n)]
Reach(doc, keys) == CHOOSE f : f = Reaches(doc, keys, f)

\* f satisfies the equation up to n.
ReachesTo(doc, keys, f, n) == \A i \in 0..n : f[i] = ReachAt(doc, keys, f, i)

LEMMA ReachEquation ==
    ASSUME NEW doc, NEW Key, NEW keys \in Seq(Key)
    PROVE  /\ \A n \in 0..Len(keys) : Reach(doc, keys)[n] = ReachAt(doc, keys, Reach(doc, keys), n)
           /\ ValueUnder(doc, keys) =
                  LET at == Reach(doc, keys)[Len(keys)]
                  IN  IF at = 0 THEN NoValue ELSE ValueOf(doc, at)
<1>0. Len(keys) \in Nat
  OBVIOUS
<1> DEFINE deepest == Len(keys)
           good == {n \in Nat : \E f : f = [i \in Nat |-> f[i]] /\ ReachesTo(doc, keys, f, n)}
<1> HIDE DEF deepest
<1>1. ASSUME NEW n \in Nat, \A m \in Nat : m < n => m \in good
      PROVE  n \in good
  <2>1. CASE n = 0
    <3> DEFINE f == [i \in Nat |-> 1]
    <3>1. f = [i \in Nat |-> f[i]] /\ f[0] = 1
      OBVIOUS
    <3> HIDE DEF f
    <3>2. ReachAt(doc, keys, f, 0) = 1
      BY Zenon DEF ReachAt
    <3>3. \A i \in 0..0 : i = 0
      OBVIOUS
    <3>4. ReachesTo(doc, keys, f, 0)
      BY <3>1, <3>2, <3>3, Zenon DEF ReachesTo
    <3> QED
      BY <2>1, <3>1, <3>4
  <2>2. CASE n # 0
    <3>1. n - 1 \in Nat /\ n - 1 < n
      BY <2>2
    <3>2. PICK f : f = [i \in Nat |-> f[i]] /\ ReachesTo(doc, keys, f, n - 1)
      <4>1. n - 1 \in good
        <5> HIDE DEF good
        <5> QED
          BY <1>1, <3>1
      <4> QED
        BY <4>1
    <3> DEFINE g == [i \in Nat |-> IF i = n THEN Under(doc, f[n - 1], keys[n]) ELSE f[i]]
    <3>3. g = [i \in Nat |-> g[i]] /\ g[n] = Under(doc, f[n - 1], keys[n])
          /\ \A i \in Nat : i # n => g[i] = f[i]
      BY Zenon
    <3> HIDE DEF g
    <3>4. ASSUME NEW i \in 0..n PROVE g[i] = ReachAt(doc, keys, g, i)
      <4>1. CASE i = n
        <5>1. n - 1 # n
          BY <3>1
        <5> QED
          BY <2>2, <3>1, <3>3, <4>1, <5>1, Zenon DEF ReachAt
      <4>2. CASE i # n
        <5>1. i \in 0..(n - 1) /\ i \in Nat /\ (i # 0 => i - 1 \in Nat /\ i - 1 # n)
          BY <4>2
        <5>2. f[i] = ReachAt(doc, keys, f, i)
          BY <3>2, <5>1, Zenon DEF ReachesTo
        <5>3. ReachAt(doc, keys, g, i) = ReachAt(doc, keys, f, i)
          BY <3>3, <5>1, Zenon DEF ReachAt
        <5> QED
          BY <3>3, <4>2, <5>1, <5>2, <5>3
      <4> QED
        BY <4>1, <4>2
    <3>5. ReachesTo(doc, keys, g, n)
      BY <3>4, Zenon DEF ReachesTo
    <3> QED
      BY <3>3, <3>5
  <2> QED
    BY <2>1, <2>2
<1>2. good = Nat
  <2>1. good \in SUBSET Nat
    OBVIOUS
  <2> HIDE DEF good
  <2> QED
    BY <1>1, <2>1, Forwards
<1>3. PICK f : ReachesTo(doc, keys, f, deepest)
  BY <1>0, <1>2 DEF deepest
<1> DEFINE g == [n \in 0..deepest |-> f[n]]
           r == Reach(doc, keys)
<1>4. g = Reaches(doc, keys, g)
  <2>1. \A n \in 0..deepest : g[n] = f[n]
    BY Zenon
  <2>2. ASSUME NEW n \in 0..deepest PROVE f[n] = ReachAt(doc, keys, g, n)
    <3>1. n = 0 \/ n - 1 \in 0..deepest
      BY <1>0 DEF deepest
    <3> HIDE DEF g
    <3>2. ReachAt(doc, keys, g, n) = ReachAt(doc, keys, f, n)
      BY <2>1, <3>1, Zenon DEF ReachAt
    <3> QED
      BY <1>3, <3>2, Zenon DEF ReachesTo
  <2> QED
    BY <2>2, Zenon DEF Reaches, g, deepest
<1>5. r = Reaches(doc, keys, r)
  BY <1>4, Zenon DEF Reach
<1> HIDE DEF r
<1>6. \A n \in 0..deepest : r[n] = ReachAt(doc, keys, r, n)
  <2>1. \A n \in 0..deepest : Reaches(doc, keys, r)[n] = ReachAt(doc, keys, r, n)
    BY Zenon DEF Reaches, deepest
  <2> QED
    BY <1>5, <2>1, Zenon
<1>7. ValueUnder(doc, keys) = IF r[deepest] = 0 THEN NoValue ELSE ValueOf(doc, r[deepest])
  <2>1. ValueUnder(doc, keys) =
            IF r[deepest] = 0 \/ r[deepest] \in Containers(doc) THEN NoValue
            ELSE Double(SubSeq(doc.tokens, r[deepest], LastAt(doc, r[deepest])))
    BY Zenon DEF ValueUnder, Reach, Reaches, ReachAt, r, deepest
  <2> QED
    BY <2>1, Zenon DEF ValueOf
<1> QED
  BY <1>6, <1>7 DEF r, deepest

(***************************************************************************)
(* The value of the last node that ValueAt() goes through.                 *)
(***************************************************************************)
LEMMA ValueReached ==
    ASSUME NEW doc, IsDocument(doc), NEW Key, NEW keys \in Seq(Key)
    PROVE  ValueAt(Nodes(doc, 1, 1), keys) = ValueUnder(doc, keys)
<1> DEFINE deepest == Len(keys)
           r == Reach(doc, keys)
           root == Node(<<>>, NoValue, Nodes(doc, 1, 1))
           Step(g, n) ==
               IF n = 0 THEN Good(<<root>>)
               ELSE IF g[n - 1] = Failed THEN Failed
               ELSE LET among == g[n - 1].subs[1].subs
                        found == Matches(among, keys[n])
                    IN  IF found = {} THEN Failed ELSE Good(<<among[First(found)]>>)
           Steps(g) == [n \in 0..Len(keys) |-> Step(g, n)]
           node == CHOOSE g : g = Steps(g)
           Known(n) ==
               IF n = 0 THEN Good(<<root>>)
               ELSE IF r[n] = 0 THEN Failed
               ELSE Good(<<NodeOf(doc, doc.items[r[n - 1]][ItemUnder(doc, r[n - 1], keys[n])])>>)
           known == [n \in 0..deepest |-> Known(n)]
<1>1. ValueAt(Nodes(doc, 1, 1), keys) = IF node[deepest] = Failed THEN NoValue
                                        ELSE node[deepest].subs[1].value
  BY DEF ValueAt
<1>2. deepest \in Nat /\ deepest \in 0..deepest
  OBVIOUS
<1>3. /\ \A n \in 0..deepest : r[n] = ReachAt(doc, keys, r, n)
      /\ ValueUnder(doc, keys) = IF r[deepest] = 0 THEN NoValue ELSE ValueOf(doc, r[deepest])
  BY ReachEquation
<1> HIDE DEF deepest, r
<1>4. 1 \in Containers(doc)
  BY Zenon DEF IsDocument
<1>5. root.subs = SubsOf(doc, 1) /\ root.value = ValueOf(doc, 1)
  <2>1. root.subs = Nodes(doc, 1, 1) /\ root.value = NoValue
    BY DEF Node
  <2>2. Inside(doc, 1) = Good(Nodes(doc, 1, 1))
    BY <1>4, ContainerParsed
  <2> QED
    BY <1>4, <2>1, <2>2, Outcomes, Zenon DEF SubsOf, ValueOf
<1>6. \A item : NodeOf(doc, item).subs = SubsOf(doc, item.at)
                /\ NodeOf(doc, item).value = ValueOf(doc, item.at)
  BY DEF NodeOf, Node
<1>7. \A x : Good(<<x>>).subs[1] = x /\ Good(<<x>>) # Failed
  BY DEF Good, Failed
<1>8. r[0] = 1
  <2>1. 0 \in 0..deepest
    BY <1>2
  <2> QED
    BY <1>3, <2>1, Zenon DEF ReachAt
<1> HIDE DEF root
\* What is known of the nodes fits the places, step by step.
<1>9. ASSUME NEW n \in 0..deepest
      PROVE  /\ r[n] = 0 => Known(n) = Failed
             /\ r[n] # 0 => /\ Known(n) # Failed
                            /\ Known(n).subs[1].subs = SubsOf(doc, r[n])
                            /\ Known(n).subs[1].value = ValueOf(doc, r[n])
  <2>1. CASE n = 0
    <3>1. 1 # 0
      OBVIOUS
    <3> QED
      BY <1>5, <1>7, <1>8, <2>1, <3>1, Zenon
  <2>2. CASE n # 0 /\ r[n] = 0
    BY <2>2, Zenon
  <2>3. CASE n # 0 /\ r[n] # 0
    <3> DEFINE c == r[n - 1]
               k == ItemUnder(doc, c, keys[n])
    <3>1. r[n] = Under(doc, c, keys[n])
      BY <1>3, <2>3, Zenon DEF ReachAt
    <3>2. r[n] = doc.items[c][k].at
      BY <2>3, <3>1, Zenon DEF Under, ItemUnder
    <3>3. Known(n) = Good(<<NodeOf(doc, doc.items[c][k])>>)
      BY <2>3, Zenon
    <3> QED
      BY <1>6, <1>7, <2>3, <3>2, <3>3, Zenon
  <2> QED
    BY <2>1, <2>2, <2>3
<1>10. Known(0) = Good(<<root>>)
  BY Zenon
<1>11. ASSUME NEW n, n # 0
       PROVE  Known(n) =
                  IF r[n] = 0 THEN Failed
                  ELSE Good(<<NodeOf(doc, doc.items[r[n - 1]][ItemUnder(doc, r[n - 1], keys[n])])>>)
  BY <1>11, Zenon
<1> HIDE DEF Known
<1>12. ASSUME NEW n \in 1..deepest, NEW g, g[n - 1] = Known(n - 1)
       PROVE  Step(g, n) = Known(n)
  <2>1. n # 0 /\ n \in 0..deepest /\ n - 1 \in 0..deepest
    BY <1>2
  <2> DEFINE c == r[n - 1]
             key == keys[n]
             among == g[n - 1].subs[1].subs
             found == Matches(among, key)
  <2>2. r[n] = Under(doc, c, key)
    BY <1>3, <2>1, Zenon DEF ReachAt
  <2>3. Step(g, n) = IF g[n - 1] = Failed \/ found = {} THEN Failed ELSE Good(<<among[First(found)]>>)
    BY <2>1, Zenon
  <2>4. Known(n) = IF r[n] = 0 THEN Failed
                   ELSE Good(<<NodeOf(doc, doc.items[c][ItemUnder(doc, c, key)])>>)
    BY <1>11, <2>1, Zenon
  <2>5. CASE c \notin Containers(doc)
    <3>1. r[n] = 0
      BY <2>2, <2>5, Zenon DEF Under
    <3>2. g[n - 1] = Failed \/ found = {}
      <4>1. CASE c = 0
        BY <1>9, <1>12, <2>1, <4>1
      <4>2. CASE c # 0
        <5>1. among = <<>>
          <6>1. among = SubsOf(doc, c)
            BY <1>9, <1>12, <2>1, <4>2
          <6> QED
            BY <2>5, <6>1, Zenon DEF SubsOf
        <5>2. \A x : Matches(<<>>, x) = {}
          BY DEF Matches
        <5> QED
          BY <5>1, <5>2
      <4> QED
        BY <4>1, <4>2
    <3> QED
      BY <2>3, <2>4, <3>1, <3>2, Zenon
  <2>6. CASE c \in Containers(doc)
    <3>1. c # 0
      <4>1. \A p \in Containers(doc) : p \in Nat \ {0}
        BY Positions
      <4> QED
        BY <2>6, <4>1
    <3>2. g[n - 1] # Failed /\ among = Nodes(doc, c, 1)
      <4>1. g[n - 1] # Failed /\ among = SubsOf(doc, c)
        BY <1>9, <1>12, <2>1, <3>1
      <4>2. SubsOf(doc, c) = Nodes(doc, c, 1)
        BY <2>6, ContainerParsed, Outcomes, Zenon DEF SubsOf
      <4> QED
        BY <4>1, <4>2
    <3>3. \/ /\ found = {}
             /\ \A k \in DOMAIN doc.items[c] : ~Leads(doc, c, key, k)
          \/ /\ found # {}
             /\ First(found) \in DOMAIN doc.items[c]
             /\ Leads(doc, c, key, First(found))
             /\ ItemUnder(doc, c, key) = First(found)
      BY <2>6, <3>2, KeyFound, Zenon
    <3>4. CASE found = {}
      <4>1. r[n] = 0
        BY <2>2, <3>3, <3>4, Zenon DEF Under
      <4> QED
        BY <2>3, <2>4, <3>4, <4>1, Zenon
    <3>5. CASE found # {}
      <4> DEFINE k == First(found)
      <4>1. /\ k \in DOMAIN doc.items[c] /\ Leads(doc, c, key, k)
            /\ ItemUnder(doc, c, key) = k
        BY <3>3, <3>5
      <4>2. among[k] = NodeOf(doc, doc.items[c][k])
        <5>1. \A j \in DOMAIN doc.items[c] : Nodes(doc, c, 1)[j] = NodeOf(doc, doc.items[c][j])
          BY <2>6, NodesOfItems
        <5> HIDE DEF found
        <5> QED
          BY <3>2, <4>1, <5>1, Zenon
      <4>3. r[n] = doc.items[c][k].at
        <5>1. r[n] = doc.items[c][ItemUnder(doc, c, key)].at
          BY <2>2, <2>6, <4>1, Zenon DEF Under, ItemUnder
        <5> QED
          BY <4>1, <5>1, Zenon
      <4>4. r[n] # 0
        <5>1. doc.items[c][k].at \in Nat \ {0}
          BY <2>6, <4>1, ItemPositions, Zenon
        <5> QED
          BY <4>3, <5>1
      <4> QED
        BY <2>3, <2>4, <3>2, <3>5, <4>1, <4>2, <4>4, Zenon
    <3> QED
      BY <3>4, <3>5
  <2> QED
    BY <2>5, <2>6
<1>13. \A g : Step(g, 0) = Good(<<root>>)
  BY Zenon
<1> HIDE DEF Step
<1>14. known = Steps(known)
  <2>1. \A n \in 0..deepest : known[n] = Known(n)
    BY Zenon
  <2> HIDE DEF known
  <2>2. ASSUME NEW n \in 0..deepest PROVE Known(n) = Step(known, n)
    <3>1. CASE n = 0
      BY <1>13, <1>10, <3>1, Zenon
    <3>2. CASE n # 0
      <4>1. n \in 1..deepest /\ n - 1 \in 0..deepest
        BY <1>2, <3>2
      <4> QED
        BY <1>12, <2>1, <4>1
    <3> QED
      BY <3>1, <3>2
  <2> QED
    BY <2>2, Zenon DEF known, deepest
<1>15. node = Steps(node)
  BY <1>14, Zenon
<1> HIDE DEF node, known
<1>16. \A n \in 0..deepest : node[n] = Step(node, n)
  <2>1. \A g : \A n \in 0..deepest : Steps(g)[n] = Step(g, n)
    BY Zenon DEF deepest
  <2> HIDE DEF Steps
  <2> QED
    BY <1>15, <2>1, Zenon
<1> DEFINE bad == {n \in 0..deepest : node[n] # Known(n)}
<1>17. bad = {}
  <2> SUFFICES ASSUME bad # {} PROVE FALSE
    OBVIOUS
  <2>1. bad \in SUBSET Nat
    BY <1>2
  <2>2. PICK n \in bad : \A k \in bad : n <= k
    <3> HIDE DEF bad
    <3> QED
      BY <2>1, HasOldest
  <2>3. CASE n = 0
    BY <1>13, <1>10, <1>16, <2>2, <2>3
  <2>4. CASE n # 0
    <3>1. n \in 1..deepest /\ n - 1 \in 0..deepest /\ ~(n <= n - 1)
      BY <1>2, <2>4
    <3>2. node[n - 1] = Known(n - 1)
      BY <2>2, <3>1
    <3>3. node[n] = Known(n)
      <4>1. Step(node, n) = Known(n)
        BY <1>12, <3>1, <3>2
      <4>2. n \in 0..deepest
        BY <2>2
      <4> QED
        BY <1>16, <4>1, <4>2
    <3> QED
      BY <2>2, <3>3
  <2> QED
    BY <2>3, <2>4
<1>18. node[deepest] = Known(deepest)
  BY <1>2, <1>17
<1>19. /\ r[deepest] = 0 => Known(deepest) = Failed
       /\ r[deepest] # 0 => Known(deepest) # Failed /\ Known(deepest).subs[1].value = ValueOf(doc, r[deepest])
  BY <1>2, <1>9, Zenon
<1>20. CASE r[deepest] = 0
  BY <1>1, <1>3, <1>18, <1>19, <1>20, Zenon
<1>21. CASE r[deepest] # 0
  BY <1>1, <1>3, <1>18, <1>19, <1>21, Zenon
<1> QED
  BY <1>20, <1>21

(***************************************************************************)
(* parse(), first half, on the text of a document: it leaves the tokens.   *)
(***************************************************************************)
\* Token k does not continue a string.
Outside(doc, k) == \A s \in Strings(doc) : ~(s < k /\ k <= doc.close[s])
\* The place of the token before k.
Before(doc, k) == IF k = 1 THEN 0 ELSE doc.place[k - 1]
\* The tokens from k on.
TokensFrom(doc, k) == SubSeq(doc.tokens, k, Len(doc.tokens))

LEMMA Places ==
    ASSUME NEW doc, IsDocument(doc), NEW text, IsTextOf(text, doc)
    PROVE  LET n == Len(doc.tokens)
           IN  /\ text \in Seq(STRING) /\ Len(text) \in Nat /\ n \in Nat
               /\ \A k \in 1..n : /\ doc.place[k] \in 1..Len(text) /\ doc.place[k] \in Nat \ {0}
                                  /\ doc.place[k] <= Len(text)
                                  /\ text[doc.place[k]] = doc.tokens[k]
               /\ \A j, k \in 1..n : j < k => doc.place[j] < doc.place[k]
               /\ \A k \in 1..(n + 1) : Before(doc, k) \in Nat
<1> DEFINE n == Len(doc.tokens)
<1>1. /\ text \in Seq(STRING) /\ doc.place \in [1..n -> 1..Len(text)]
      /\ \A j, k \in 1..n : j < k => doc.place[j] < doc.place[k]
      /\ \A k \in 1..n : text[doc.place[k]] = doc.tokens[k]
  BY Zenon DEF IsTextOf
<1>2. Len(text) \in Nat /\ n \in Nat
  BY <1>1, Positions
<1> HIDE DEF n
<1>3. ASSUME NEW k \in 1..n
      PROVE  doc.place[k] \in 1..Len(text) /\ doc.place[k] \in Nat \ {0} /\ doc.place[k] <= Len(text)
  <2>1. doc.place[k] \in 1..Len(text)
    BY <1>1
  <2> QED
    BY <1>2, <2>1
<1>4. ASSUME NEW k \in 1..(n + 1) PROVE Before(doc, k) \in Nat
  <2>1. k = 1 \/ k - 1 \in 1..n
    BY <1>2
  <2>2. CASE k = 1
    BY <2>2 DEF Before
  <2>3. CASE k # 1
    BY <1>3, <2>1, <2>3 DEF Before
  <2> QED
    BY <2>2, <2>3
<1> QED
  BY <1>1, <1>2, <1>3, <1>4 DEF n

(* Between two tokens there is white space.                                *)
LEMMA SpaceBetween ==
    ASSUME NEW doc, IsDocument(doc), NEW text, IsTextOf(text, doc),
           NEW k \in 1..(Len(doc.tokens) + 1), NEW p \in 1..Len(text), Before(doc, k) < p,
           k <= Len(doc.tokens) => p < doc.place[k]
    PROVE  text[p] = Space
<1> DEFINE n == Len(doc.tokens)
<1>1. /\ n \in Nat /\ Len(text) \in Nat
      /\ \A j \in 1..n : doc.place[j] \in Nat
      /\ \A i, j \in 1..n : i < j => doc.place[i] < doc.place[j]
  BY Places, Zenon
<1> HIDE DEF n
<1>2. ASSUME NEW j \in 1..n, doc.place[j] = p PROVE FALSE
  <2>0. p \in Nat /\ k \in Nat /\ j \in Nat
    BY <1>1 DEF n
  <2>1. CASE k <= j
    <3>1. k \in 1..n /\ (k = j \/ k < j)
      BY <1>1, <2>0, <2>1 DEF n
    <3>2. doc.place[k] <= doc.place[j]
      <4>1. doc.place[k] = doc.place[j] \/ doc.place[k] < doc.place[j]
        BY <1>1, <3>1
      <4>2. doc.place[k] \in Nat /\ doc.place[j] \in Nat
        BY <1>1, <3>1
      <4> QED
        BY <4>1, <4>2
    <3>3. p < doc.place[k]
      BY <2>1, <3>1 DEF n
    <3> QED
      BY <1>1, <1>2, <2>0, <3>1, <3>2, <3>3
  <2>2. CASE ~(k <= j)
    <3>1. k # 1 /\ k - 1 \in 1..n /\ (k - 1 = j \/ j < k - 1)
      BY <1>1, <2>0, <2>2 DEF n
    <3>2. Before(doc, k) = doc.place[k - 1]
      BY <3>1, Zenon DEF Before
    <3>3. doc.place[j] <= doc.place[k - 1]
      <4>1. doc.place[k - 1] = doc.place[j] \/ doc.place[j] < doc.place[k - 1]
        BY <1>1, <3>1
      <4>2. doc.place[k - 1] \in Nat /\ doc.place[j] \in Nat
        BY <1>1, <3>1
      <4> QED
        BY <4>1, <4>2
    <3>4. doc.place[k - 1] \in Nat /\ doc.place[k - 1] < p
      BY <1>1, <3>1, <3>2
    <3> QED
      BY <1>2, <2>0, <3>3, <3>4
  <2> QED
    BY <2>1, <2>2
<1>3. (\E j \in 1..n : doc.place[j] = p) \/ text[p] = Space
  BY Zenon DEF IsTextOf, n
<1> QED
  BY <1>2, <1>3, Zenon

(* What begins with tokens k to t and goes on with those behind it.        *)
LEMMA TokensJoined ==
    ASSUME NEW Tok, NEW tokens \in Seq(Tok), NEW k \in 1..Len(tokens), NEW t \in k..Len(tokens)
    PROVE  SubSeq(tokens, k, t) \o SubSeq(tokens, t + 1, Len(tokens))
               = SubSeq(tokens, k, Len(tokens))
<1> DEFINE n == Len(tokens)
           a == SubSeq(tokens, k, t)
           b == SubSeq(tokens, t + 1, n)
           s == SubSeq(tokens, k, n)
<1>1. n \in Nat /\ k \in Nat /\ t \in Nat /\ n \in k..n /\ k \in Nat \ {0} /\ t <= n
      /\ t + 1 \in Nat \ {0} /\ k <= t /\ k <= n
  OBVIOUS
<1>2. /\ a \in Seq(Tok) /\ Len(a) = t - k + 1
      /\ \A j \in 1..(t - k + 1) : a[j] = tokens[k + j - 1]
  BY <1>1
<1>3. /\ s \in Seq(Tok) /\ Len(s) = n - k + 1
      /\ \A j \in 1..(n - k + 1) : s[j] = tokens[k + j - 1]
  BY <1>1
<1>4. /\ b \in Seq(Tok) /\ Len(b) = n - t
      /\ \A j \in 1..(n - t) : b[j] = tokens[t + j]
  <2>1. CASE t = n
    <3>1. b = <<>>
      BY <1>1, <2>1
    <3> QED
      BY <1>1, <2>1, <3>1
  <2>2. CASE t # n
    <3>1. t + 1 \in 1..n
      BY <1>1, <2>2
    <3>2. /\ b \in Seq(Tok) /\ Len(b) = n - (t + 1) + 1
          /\ \A j \in 1..(n - (t + 1) + 1) : b[j] = tokens[(t + 1) + j - 1]
      BY <3>1
    <3>3. n - (t + 1) + 1 = n - t /\ \A j \in 1..(n - t) : (t + 1) + j - 1 = t + j
      BY <1>1
    <3> QED
      BY <3>2, <3>3
  <2> QED
    BY <2>1, <2>2
<1> HIDE DEF a, b, s, n
<1>5. /\ a \o b \in Seq(Tok) /\ Len(a \o b) = Len(a) + Len(b)
      /\ \A i \in 1..(Len(a) + Len(b)) : (a \o b)[i] = IF i <= Len(a) THEN a[i] ELSE b[i - Len(a)]
  BY <1>2, <1>4, ConcatProperties, Zenon
<1>6. Len(a) + Len(b) = Len(s) /\ Len(s) \in Nat
  BY <1>1, <1>2, <1>3, <1>4
<1>7. ASSUME NEW i \in 1..Len(s) PROVE (a \o b)[i] = s[i]
  <2>1. i \in Nat /\ i \in 1..(Len(a) + Len(b)) /\ i \in 1..(n - k + 1)
    BY <1>3, <1>6
  <2>2. s[i] = tokens[k + i - 1]
    BY <1>3, <2>1
  <2>3. CASE i <= Len(a)
    <3>1. i \in 1..(t - k + 1)
      BY <1>1, <1>2, <2>1, <2>3
    <3>2. (a \o b)[i] = a[i]
      BY <1>5, <2>1, <2>3, Zenon
    <3> QED
      BY <1>2, <2>2, <3>1, <3>2
  <2>4. CASE ~(i <= Len(a))
    <3>1. i - Len(a) \in 1..(n - t) /\ t + (i - Len(a)) = k + i - 1
      BY <1>1, <1>2, <2>1, <2>4
    <3>2. (a \o b)[i] = b[i - Len(a)]
      BY <1>5, <2>1, <2>4, Zenon
    <3>3. b[i - Len(a)] = tokens[t + (i - Len(a))]
      BY <1>4, <3>1
    <3> QED
      BY <2>2, <3>1, <3>2, <3>3
  <2> QED
    BY <2>3, <2>4
<1>8. a \o b = s
  BY <1>3, <1>5, <1>6, <1>7, SeqEqual
<1> QED
  BY <1>8 DEF a, b, s, n

LEMMA OneToken ==
    ASSUME NEW Tok, NEW text \in Seq(Tok), NEW p \in 1..Len(text)
    PROVE  SubSeq(text, p, p) = <<text[p]>>
<1> DEFINE s == SubSeq(text, p, p)
<1>1. p \in Nat \ {0} /\ p \in p..Len(text) /\ p \in p..p /\ p - p + 1 = 1
  OBVIOUS
<1>2. s \in Seq(Tok) /\ Len(s) = p - p + 1 /\ \A i \in p..p : s[i - p + 1] = text[i]
  BY <1>1, Word
<1>3. Len(s) = 1 /\ s[1] = text[p]
  BY <1>1, <1>2
<1>4. text[p] \in Tok
  OBVIOUS
<1> HIDE DEF s
<1>5. s = <<text[p]>>
  BY <1>2, <1>3, <1>4
<1> QED
  BY <1>5 DEF s

(* A string stands in the text as it is.                                   *)
LEMMA StringInText ==
    ASSUME NEW doc, IsDocument(doc), NEW text, IsTextOf(text, doc), NEW s \in Strings(doc)
    PROVE  LET p    == doc.place[s]
               last == doc.place[doc.close[s]]
           IN  /\ text[p] = Quote
               /\ ChunkEnd(text, p) = last
               /\ last \in p..Len(text)
               /\ SubSeq(text, p, last) = SubSeq(doc.tokens, s, doc.close[s])
<1> DEFINE t == doc.close[s]
           n == Len(doc.tokens)
           p == doc.place[s]
           last == doc.place[t]
           tokens == doc.tokens
           word == SubSeq(tokens, s, t)
<1>1. /\ doc.tokens \in Seq(STRING) /\ n \in Nat /\ s \in Nat \ {0} /\ t \in (s + 1)..n /\ t \in Nat
      /\ IsString(word) /\ doc.tokens[s] = Quote
  BY Positions, Zenon
<1>2. /\ text \in Seq(STRING) /\ Len(text) \in Nat
      /\ \A k \in 1..n : /\ doc.place[k] \in 1..Len(text) /\ doc.place[k] \in Nat \ {0}
                         /\ doc.place[k] <= Len(text)
                         /\ text[doc.place[k]] = doc.tokens[k]
  BY Places, Zenon
<1>3. \A k \in s..t : doc.place[k] = p + (k - s)
  BY Zenon DEF IsTextOf
<1> HIDE DEF t, n
<1>4. s \in 1..n /\ t \in 1..n /\ t \in s..t /\ s < t /\ t \in s..n /\ s..t \subseteq 1..n
  BY <1>1
<1>5. /\ p \in Nat \ {0} /\ last \in Nat /\ last <= Len(text) /\ last = p + (t - s) /\ text[p] = Quote
  BY <1>1, <1>2, <1>3, <1>4
<1> HIDE DEF p, last
<1>6. last \in p..Len(text) /\ last \in (p + 1)..Len(text) /\ last - p + 1 = t - s + 1
      /\ p \in 1..Len(text)
  BY <1>1, <1>2, <1>4, <1>5
<1>7. /\ word \in Seq(STRING) /\ Len(word) = t - s + 1
      /\ \A k \in s..t : word[k - s + 1] = doc.tokens[k]
  <2>1. tokens \in Seq(STRING) /\ s \in Nat \ {0} /\ t \in s..Len(tokens)
    BY <1>1, <1>4 DEF n
  <2> HIDE DEF tokens
  <2>2. /\ word \in Seq(STRING) /\ Len(word) = t - s + 1
        /\ \A k \in s..t : word[k - s + 1] = tokens[k]
    BY <2>1, Word
  <2> QED
    BY <2>2 DEF tokens
<1>8. /\ SubSeq(text, p, last) \in Seq(STRING) /\ Len(SubSeq(text, p, last)) = last - p + 1
      /\ \A k \in p..last : SubSeq(text, p, last)[k - p + 1] = text[k]
  BY <1>2, <1>5, <1>6, Word
<1> HIDE DEF word
<1>9. ASSUME NEW i \in 1..Len(word) PROVE SubSeq(text, p, last)[i] = word[i]
  <2> DEFINE k == s + i - 1
  <2>1. k \in s..t /\ k - s + 1 = i /\ p + (k - s) \in p..last /\ (p + (k - s)) - p + 1 = i
    BY <1>1, <1>4, <1>5, <1>7
  <2> HIDE DEF k
  <2>2. word[i] = doc.tokens[k]
    BY <1>7, <2>1
  <2>3. SubSeq(text, p, last)[i] = text[p + (k - s)]
    BY <1>8, <2>1
  <2>4. k \in 1..n /\ doc.place[k] = p + (k - s)
    BY <1>3, <1>4, <2>1 DEF p
  <2>5. text[p + (k - s)] = doc.tokens[k]
    BY <1>2, <2>4
  <2> QED
    BY <2>2, <2>3, <2>5
<1>10. SubSeq(text, p, last) = word
  BY <1>6, <1>7, <1>8, <1>9, SeqEqual
<1>11. ChunkEnd(text, p) = last
  <2>1. IsString(SubSeq(text, p, last))
    BY <1>1, <1>10
  <2>2. CorrespondingBracket(text, p) = last
    BY <1>2, <1>5, <1>6, <2>1, StringEnds
  <2> QED
    BY <1>5, <2>2, Zenon DEF ChunkEnd
<1> QED
  BY <1>5, <1>6, <1>10, <1>11 DEF p, last, word, t

LEMMA OutsideStrings ==
    ASSUME NEW doc, IsDocument(doc), NEW k \in 1..Len(doc.tokens), Outside(doc, k)
    PROVE  /\ \/ k \in Strings(doc)
              \/ doc.tokens[k] \notin {Quote, Escape, Space}
           /\ k \notin Strings(doc) => Outside(doc, k + 1)
           /\ k \in Strings(doc) => Outside(doc, doc.close[k] + 1)
<1>1. /\ Len(doc.tokens) \in Nat
      /\ \A s \in Strings(doc) : s \in Nat /\ doc.close[s] \in Nat
  BY Positions, Zenon
<1>2. /\ \A s, t \in Strings(doc) : s < t => doc.close[s] < t
      /\ \A p \in 1..Len(doc.tokens) :
          \/ \E s \in Strings(doc) : p \in s..doc.close[s]
          \/ doc.tokens[p] \notin {Quote, Escape, Space}
  BY Zenon DEF IsDocument, StringsOK
<1>3. k \in Nat
  BY <1>1
<1>4. \/ k \in Strings(doc)
      \/ doc.tokens[k] \notin {Quote, Escape, Space}
  <2>1. ASSUME NEW s \in Strings(doc), k \in s..doc.close[s] PROVE k = s
    <3>1. ~(s < k /\ k <= doc.close[s])
      BY Zenon DEF Outside
    <3> QED
      BY <1>1, <1>3, <2>1, <3>1
  <2> QED
    BY <1>2, <2>1
<1>5. ASSUME k \notin Strings(doc), NEW s \in Strings(doc), s < k + 1, k + 1 <= doc.close[s]
      PROVE  FALSE
  <2>1. s < k /\ k <= doc.close[s]
    <3>1. s # k
      BY <1>5
    <3> QED
      BY <1>1, <1>3, <1>5, <3>1
  <2> QED
    BY <2>1, Zenon DEF Outside
<1>6. ASSUME k \in Strings(doc), NEW s \in Strings(doc), s < doc.close[k] + 1,
             doc.close[k] + 1 <= doc.close[s]
      PROVE  FALSE
  <2>1. s < k => doc.close[s] < k
    BY <1>2, <1>6
  <2>2. k < s => doc.close[k] < s
    BY <1>2, <1>6
  <2>3. doc.close[k] \in Nat /\ doc.close[k] >= k
    BY <1>6, Positions
  <2>4. CASE s = k
    <3>1. doc.close[k] + 1 <= doc.close[k]
      BY <1>6, <2>4
    <3> QED
      BY <2>3, <3>1
  <2>5. CASE s # k
    <3> DEFINE a == doc.close[k]
               b == doc.close[s]
    <3>1. /\ s \in Nat /\ a \in Nat /\ b \in Nat /\ a >= k /\ s < a + 1 /\ a + 1 <= b
          /\ (s < k => b < k) /\ (k < s => a < s)
      BY <1>1, <1>6, <2>1, <2>2, <2>3
    <3> HIDE DEF a, b
    <3> QED
      BY <1>3, <2>5, <3>1
  <2> QED
    BY <2>4, <2>5
<1> QED
  BY <1>4, <1>5, <1>6, Zenon DEF Outside

LEMMA TextStripped ==
    ASSUME NEW doc, IsDocument(doc), NEW text, IsTextOf(text, doc)
    PROVE  Stripped(text) = Good(doc.tokens)
<1> DEFINE n == Len(doc.tokens)
           w == Strip(text)
           S == {p \in Nat : \A k \in 1..(n + 1) :
                    Outside(doc, k) /\ Before(doc, k) < p /\ (k <= n => p <= doc.place[k])
                        => w[p] = Good(TokensFrom(doc, k))}
<1>1. /\ text \in Seq(STRING) /\ Len(text) \in Nat /\ n \in Nat
      /\ \A k \in 1..n : /\ doc.place[k] \in 1..Len(text) /\ doc.place[k] \in Nat \ {0}
                         /\ doc.place[k] <= Len(text)
                         /\ text[doc.place[k]] = doc.tokens[k]
      /\ \A j, k \in 1..n : j < k => doc.place[j] < doc.place[k]
  BY Places, Zenon
<1>2. doc.tokens \in Seq(STRING)
  BY Positions
<1>3. ASSUME NEW k, k = n + 1 PROVE TokensFrom(doc, k) = <<>>
  <2>1. SubSeq(doc.tokens, n + 1, n) = <<>>
    BY <1>1, <1>2
  <2> QED
    BY <1>3, <2>1 DEF TokensFrom
<1>4. ASSUME NEW k \in 1..n, NEW t \in k..n
      PROVE  SubSeq(doc.tokens, k, t) \o TokensFrom(doc, t + 1) = TokensFrom(doc, k)
  BY <1>2, TokensJoined DEF TokensFrom
<1> HIDE DEF n, w
<1>5. ASSUME NEW p \in Nat, p > Len(text) PROVE p \in S
  <2> SUFFICES ASSUME NEW k \in 1..(n + 1), k <= n => p <= doc.place[k]
               PROVE  w[p] = Good(TokensFrom(doc, k))
    OBVIOUS
  <2>1. k = n + 1
    <3>1. CASE k <= n
      <4>1. k \in 1..n
        BY <1>1, <3>1
      <4>2. p <= doc.place[k] /\ doc.place[k] <= Len(text) /\ doc.place[k] \in Nat
        BY <1>1, <3>1, <4>1
      <4> QED
        BY <1>1, <1>5, <4>2
    <3> QED
      BY <1>1, <3>1
  <2>2. w[p] = Good(<<>>)
    BY <1>1, <1>5, StripEquation, Zenon DEF StripAt, w
  <2> QED
    BY <1>3, <2>1, <2>2
<1>6. ASSUME NEW p \in Nat, p <= Len(text), \A q \in Nat : q > p => q \in S
      PROVE  p \in S
  <2> SUFFICES ASSUME NEW k \in 1..(n + 1), Outside(doc, k), Before(doc, k) < p,
                      k <= n => p <= doc.place[k]
               PROVE  w[p] = Good(TokensFrom(doc, k))
    OBVIOUS
  <2>1. k \in Nat /\ Before(doc, k) \in Nat /\ p \in 1..Len(text)
    <3>1. Before(doc, k) \in Nat
      BY Places DEF n
    <3> QED
      BY <1>1, <1>6, <3>1
\* The text at p, when a chunk ends at last and token m is the next one.
  <2>2. ASSUME NEW last, last = ChunkEnd(text, p), last \in p..Len(text),
               NEW m \in 1..(n + 1), Outside(doc, m), Before(doc, m) <= last,
               m <= n => last + 1 <= doc.place[m]
        PROVE  w[p] = IF text[p] = Space THEN Good(TokensFrom(doc, m))
                      ELSE Good(SubSeq(text, p, last) \o TokensFrom(doc, m))
    <3>1. last + 1 \in Nat /\ last + 1 > p /\ Before(doc, m) < last + 1 /\ ~(p > Len(text)) /\ last # 0
      <4>1. Before(doc, m) \in Nat
        BY Places DEF n
      <4> QED
        BY <1>1, <2>1, <2>2, <4>1
    <3>2. last + 1 \in S
      <4> HIDE DEF S
      <4> QED
        BY <1>6, <3>1
    <3>3. w[last + 1] = Good(TokensFrom(doc, m))
      BY <2>2, <3>1, <3>2
    <3>4. w[p] = IF p > Len(text) THEN Good(<<>>)
                 ELSE IF last = 0 THEN Failed
                 ELSE IF w[last + 1] = Failed \/ text[p] = Space THEN w[last + 1]
                 ELSE Good(SubSeq(text, p, last) \o w[last + 1].subs)
      BY <1>1, <2>2, StripStep DEF w
    <3> QED
      BY <3>1, <3>3, <3>4, Outcomes, Zenon
  <2>3. CASE k <= n => p < doc.place[k]
    <3>1. text[p] = Space
      BY <2>1, <2>3, SpaceBetween DEF n
    <3>2. ChunkEnd(text, p) = p
      BY <3>1, Outcomes, Zenon DEF ChunkEnd
    <3>3. p \in p..Len(text) /\ Before(doc, k) <= p /\ (k <= n => p + 1 <= doc.place[k])
      <4>1. k <= n => doc.place[k] \in Nat
        BY <1>1, <2>1
      <4> QED
        BY <1>1, <2>1, <2>3, <4>1
    <3>4. w[p] = IF text[p] = Space THEN Good(TokensFrom(doc, k))
                 ELSE Good(SubSeq(text, p, p) \o TokensFrom(doc, k))
      BY <2>2, <3>2, <3>3
    <3> QED
      BY <3>1, <3>4, Zenon
  <2>4. CASE k <= n /\ p = doc.place[k]
    <3>1. k \in 1..n /\ text[p] = doc.tokens[k]
      BY <1>1, <2>1, <2>4
    <3>2. CASE k \in Strings(doc)
      <4> DEFINE t == doc.close[k]
                 last == doc.place[t]
      <4>1. t \in k..n /\ t \in 1..n /\ t + 1 \in 1..(n + 1) /\ t \in Nat
        <5>1. t \in (k + 1)..n /\ t \in Nat
          BY <3>2, Positions DEF n
        <5> HIDE DEF t
        <5> QED
          BY <1>1, <2>1, <5>1
      <4>2. /\ text[p] = Quote /\ ChunkEnd(text, p) = last /\ last \in p..Len(text)
            /\ SubSeq(text, p, last) = SubSeq(doc.tokens, k, t)
        BY <2>4, <3>2, StringInText
      <4>3. Outside(doc, t + 1)
        BY <3>1, <3>2, OutsideStrings DEF n
      <4>4. Before(doc, t + 1) <= last /\ (t + 1 <= n => last + 1 <= doc.place[t + 1])
        <5>1. t + 1 # 1 /\ (t + 1) - 1 = t /\ t < t + 1 /\ (t + 1 <= n => t + 1 \in 1..n)
          <6> HIDE DEF t
          <6> QED
            BY <1>1, <4>1
        <5>2. Before(doc, t + 1) = last
          BY <5>1, Zenon DEF Before
        <5>3. last \in Nat
          BY <1>1, <4>1
        <5>4. t + 1 <= n => last < doc.place[t + 1] /\ doc.place[t + 1] \in Nat
          BY <1>1, <4>1, <5>1
        <5> HIDE DEF t, last
        <5> QED
          BY <5>2, <5>3, <5>4
      <4>5. w[p] = IF text[p] = Space THEN Good(TokensFrom(doc, t + 1))
                   ELSE Good(SubSeq(text, p, last) \o TokensFrom(doc, t + 1))
        BY <2>2, <4>1, <4>2, <4>3, <4>4
      <4>6. SubSeq(doc.tokens, k, t) \o TokensFrom(doc, t + 1) = TokensFrom(doc, k)
        BY <1>4, <3>1, <4>1
      <4> QED
        BY <4>2, <4>5, <4>6, Outcomes, Zenon
    <3>3. CASE k \notin Strings(doc)
      <4>1. text[p] # Quote /\ text[p] # Escape /\ text[p] # Space
        BY <3>1, <3>3, OutsideStrings DEF n
      <4>2. ChunkEnd(text, p) = p
        BY <4>1, Zenon DEF ChunkEnd
      <4>3. Outside(doc, k + 1)
        BY <3>1, <3>3, OutsideStrings DEF n
      <4>4. /\ p \in p..Len(text) /\ k + 1 \in 1..(n + 1)
            /\ Before(doc, k + 1) <= p /\ (k + 1 <= n => p + 1 <= doc.place[k + 1])
        <5>1. k + 1 # 1 /\ (k + 1) - 1 = k /\ k < k + 1 /\ (k + 1 <= n => k + 1 \in 1..n)
              /\ k + 1 \in 1..(n + 1)
          BY <1>1, <2>1, <3>1
        <5>2. Before(doc, k + 1) = p
          BY <2>4, <5>1, Zenon DEF Before
        <5>3. k + 1 <= n => p < doc.place[k + 1] /\ doc.place[k + 1] \in Nat
          BY <1>1, <2>4, <3>1, <5>1
        <5> QED
          BY <1>1, <2>1, <5>1, <5>2, <5>3
      <4>5. w[p] = IF text[p] = Space THEN Good(TokensFrom(doc, k + 1))
                   ELSE Good(SubSeq(text, p, p) \o TokensFrom(doc, k + 1))
        BY <2>2, <4>2, <4>3, <4>4
      <4>6. SubSeq(text, p, p) = SubSeq(doc.tokens, k, k)
        <5>1. SubSeq(text, p, p) = <<text[p]>>
          BY <1>1, <2>1, OneToken
        <5>2. SubSeq(doc.tokens, k, k) = <<doc.tokens[k]>>
          BY <1>2, <3>1, OneToken DEF n
        <5> QED
          BY <3>1, <5>1, <5>2
      <4>7. SubSeq(doc.tokens, k, k) \o TokensFrom(doc, k + 1) = TokensFrom(doc, k)
        <5>1. k \in k..n
          BY <1>1, <3>1
        <5> QED
          BY <1>4, <3>1, <5>1
      <4> QED
        BY <4>1, <4>5, <4>6, <4>7, Zenon
    <3> QED
      BY <3>2, <3>3
  <2> QED
    <3>1. k <= n => doc.place[k] \in Nat
      BY <1>1, <2>1
    <3>2. (k <= n => p < doc.place[k]) \/ (k <= n /\ p = doc.place[k])
      BY <2>1, <3>1
    <3> QED
      BY <2>3, <2>4, <3>2
<1>7. S = Nat
  <2>1. S \in SUBSET Nat
    OBVIOUS
  <2> HIDE DEF S
  <2> QED
    BY <1>1, <1>5, <1>6, <2>1, Backwards
<1>8. w[1] = Good(TokensFrom(doc, 1))
  <2>1. 1 \in Nat /\ 1 \in 1..(n + 1) /\ 0 < 1 /\ (1 <= n => 1 \in 1..n)
    BY <1>1
  <2>2. Outside(doc, 1)
    <3>1. \A s \in Strings(doc) : s \in Nat \ {0}
      BY Positions, Zenon
    <3>2. \A s \in Strings(doc) : ~(s < 1)
      BY <3>1
    <3> QED
      BY <3>2, Zenon DEF Outside
  <2>3. Before(doc, 1) = 0
    BY Zenon DEF Before
  <2>4. 1 <= n => 1 <= doc.place[1]
    BY <1>1, <2>1
  <2>5. 1 \in S
    BY <1>7, <2>1
  <2> QED
    BY <2>1, <2>2, <2>3, <2>4, <2>5
<1>9. TokensFrom(doc, 1) = doc.tokens
  BY <1>2 DEF TokensFrom
<1> QED
  BY <1>8, <1>9, StrippedIsStrip DEF w

(***************************************************************************)
(* What is read in the text of a document is what the document says, and   *)
(* the text is one object if no white space follows.                       *)
(***************************************************************************)
LEMMA DocumentIsRead ==
    ASSUME NEW doc, IsDocument(doc), NEW text, IsTextOf(text, doc), NEW Key, NEW keys \in Seq(Key)
    PROVE  Reading(text, keys) = ValueUnder(doc, keys)
<1>1. text # <<>>
  <2>1. 1 \in 1..Len(doc.tokens)
    <3>1. 1 \in Containers(doc)
      BY Zenon DEF IsDocument
    <3> QED
      BY <3>1, Positions
  <2>2. doc.place[1] \in 1..Len(text)
    BY <2>1, Places
  <2> QED
    BY <2>2
<1>2. Parsed(text) = ParsedStripped(Good(doc.tokens))
  BY <1>1, TextStripped, Zenon DEF Parsed
<1>3. Parsed(text) = Good(Nodes(doc, 1, 1))
  BY <1>2, DocumentParsed
<1>4. LookedUp(Good(Nodes(doc, 1, 1)), keys) = ValueAt(Nodes(doc, 1, 1), keys)
  <2> DEFINE s == Nodes(doc, 1, 1)
  <2> HIDE DEF s
  <2>1. LookedUp(Good(s), keys) = ValueAt(s, keys)
    BY DEF LookedUp, Good
  <2> QED
    BY <2>1 DEF s
<1> QED
  BY <1>3, <1>4, ValueReached, Zenon DEF Reading

LEMMA DocumentIsOneObject ==
    ASSUME NEW doc, IsDocument(doc), NEW text, IsTextOf(text, doc), text[Len(text)] # Space
    PROVE  OneObject(text)
<1>1. /\ 1 \in Containers(doc) /\ doc.tokens[1] = "{" /\ doc.close[1] = Len(doc.tokens)
  BY Zenon DEF IsDocument
<1>2. text # <<>>
  <2>1. 1 \in 1..Len(doc.tokens)
    BY <1>1, Positions
  <2>2. doc.place[1] \in 1..Len(text)
    BY <2>1, Places
  <2> QED
    BY <2>2
<1>3. Stripped(text) = Good(doc.tokens)
  BY TextStripped
<1>4. CorrespondingBracket(doc.tokens, 1) = Len(doc.tokens)
  BY <1>1, ContainerCloses
<1> QED
  BY <1>1, <1>2, <1>3, <1>4, Outcomes, Zenon DEF OneObject

-----------------------------------------------------------------------------
(***************************************************************************)
(* Nothing that ended the program was given to a sensor.                   *)
(***************************************************************************)
GivenWasRead ==
    \A i \in Sensors : used[i].pass # 0 => ReadingOf(i, used[i].content) # Ended

LEMMA EvaluatedContents ==
    ASSUME BufferTypeOK, GivenWasRead, NEW old, NEW content, NEW at, Evaluate(old, content, at)
    PROVE  GivenWasRead'
<1>1. turn \in Sensors /\ DOMAIN used = Sensors
  BY DEF BufferTypeOK
<1>2. CASE ReadingOf(turn, content) = Ended
  <2>1. used' = used
    BY <1>2, Zenon DEF Evaluate
  <2> QED
    BY <2>1 DEF GivenWasRead, ReadingOf
<1>3. CASE ReadingOf(turn, content) # Ended
  <2>1. used' = [used EXCEPT ![turn] = [pass |-> current, at |-> at, content |-> content]]
    BY <1>3, Zenon DEF Evaluate
  <2> SUFFICES ASSUME NEW i \in Sensors, used'[i].pass # 0
               PROVE  ReadingOf(i, used'[i].content) # Ended
    BY DEF GivenWasRead, ReadingOf
  <2>2. CASE i = turn
    BY <1>1, <1>3, <2>1, <2>2
  <2>3. CASE i # turn
    BY <1>1, <2>1, <2>3 DEF GivenWasRead
  <2> QED
    BY <2>2, <2>3
<1> QED
  BY <1>2, <1>3

LEMMA ReadBeforeGiven ==
    ASSUME BufferTypeOK, GivenWasRead, [Next]_vars
    PROVE  GivenWasRead'
<1>1. CASE ReadBuffered
  <2>1. \E old, content, at : Evaluate(old, content, at)
    BY <1>1, Zenon DEF ReadBuffered
  <2> QED
    BY <2>1, EvaluatedContents
<1>2. CASE ContentRead \/ RequestFails
  <2>1. \E content : Evaluate(sensor[turn], content, now)
    BY <1>2 DEF ContentRead, RequestFails, Receive
  <2> QED
    BY <2>1, EvaluatedContents
<1>3. CASE \/ Trigger \/ NotDue \/ StartRead \/ FileIsLocked \/ FileFails \/ HomematicAnswer
           \/ Tick \/ UNCHANGED vars
  <2>1. used' = used
    BY <1>3 DEF Trigger, NotDue, StartRead, FileIsLocked, FileFails, HomematicAnswer, Tick, vars
  <2> QED
    BY <2>1 DEF GivenWasRead, ReadingOf
<1> QED
  BY <1>1, <1>2, <1>3 DEF Next

(***************************************************************************)
(* json::parse() demands the bracket that closes the object: if a document *)
(* is one object up to its last token, no beginning of it has a value for  *)
(* any sensor, whatever the object holds.                                  *)
(***************************************************************************)
THEOREM TornDocumentsGiveNothing ==
    ASSUME \A d \in Documents : OneObject(Text[d])
    PROVE  Spec => []TornGivesNothing
<1>1. Init => GivenWasRead
  <2> SUFFICES ASSUME Init, NEW i \in Sensors PROVE used[i].pass = 0
    BY DEF GivenWasRead
  <2> QED
    BY DEF Init
<1>2. BufferInv /\ GivenWasRead /\ [Next]_vars => GivenWasRead'
  BY ReadBeforeGiven DEF BufferInv
<1>3. BufferInv /\ GivenWasRead => TornGivesNothing
  <2> SUFFICES ASSUME BufferTypeOK, GivenWasRead, NEW i \in Sensors, used[i].pass # 0,
                      used[i].content.cut < Len(Text[used[i].content.doc])
               PROVE  ReadingOf(i, used[i].content) = NoValue
    BY DEF BufferInv, TornGivesNothing
  <2> DEFINE content == used[i].content
             text == Text[content.doc]
  <2>1. content.doc \in Documents /\ content.cut \in Nat
    BY DEF BufferTypeOK, Use, Content
  <2>2. text \in Seq(STRING) /\ Keys[i] \in Seq(STRING) /\ OneObject(text)
    BY <2>1, ReadoutAssumption
  <2>3. content.cut \in 0..(Len(text) - 1)
    BY <2>1, <2>2
  <2>4. Reading(SubSeq(text, 1, content.cut), Keys[i]) \in {NoValue, Ended}
    BY <2>2, <2>3, TornHasNoValue
  <2> QED
    BY <2>4 DEF ReadingOf, GivenWasRead
<1> QED
  BY <1>1, <1>2, <1>3, BufferInvariant, PTL DEF Spec

(***************************************************************************)
(* json::parse() and element() find in a whole document what it says under *)
(* the keys of a sensor: the value there as a number, or none.  A document *)
(* is what module JsonDocument says, however its objects and arrays are    *)
(* nested, whatever their names and values are and wherever its text has   *)
(* white space.                                                            *)
(***************************************************************************)
THEOREM DocumentsAreRead ==
    ASSUME NEW Layout,
           \A d \in Documents :
              /\ IsDocument(Layout[d])
              /\ IsTextOf(Text[d], Layout[d])
              /\ \A i \in Sensors : Says[d][i] = ValueUnder(Layout[d], Keys[i])
    PROVE  Spec => []ReadsTheDocument
<1>1. BufferInv => ReadsTheDocument
  <2> SUFFICES ASSUME BufferTypeOK, NEW i \in Sensors, used[i].pass # 0,
                      used[i].content.cut = Len(Text[used[i].content.doc])
               PROVE  ReadingOf(i, used[i].content) = Says[used[i].content.doc][i]
    BY DEF BufferInv, ReadsTheDocument
  <2> DEFINE content == used[i].content
             text == Text[content.doc]
  <2>1. content.doc \in Documents
    BY DEF BufferTypeOK, Use, Content
  <2>2. text \in Seq(STRING) /\ Keys[i] \in Seq(STRING)
    BY <2>1, ReadoutAssumption
  <2>3. SubSeq(text, 1, content.cut) = text
    <3> HIDE DEF text
    <3>1. SubSeq(text, 1, Len(text)) = text
      BY <2>2
    <3> QED
      BY <3>1 DEF text
  <2>4. Reading(text, Keys[i]) = ValueUnder(Layout[content.doc], Keys[i])
    BY <2>1, <2>2, DocumentIsRead
  <2> QED
    BY <2>1, <2>3, <2>4 DEF ReadingOf
<1> QED
  BY <1>1, BufferInvariant, PTL DEF Spec
=============================================================================
