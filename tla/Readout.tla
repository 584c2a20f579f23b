------------------------------- MODULE Readout -------------------------------
(***************************************************************************)
(* How JSON and HomeMatic sensors get their readings: measure() of both,   *)
(* the buffer of readoutbuffer.cpp that the JSON sensors of one file or    *)
(* URL share, the JSON reader, and the answers of the HomeMatic CCU.       *)
(*                                                                         *)
(* The clock moves while the main thread pauses and while it waits for an  *)
(* answer or for the second attempt at a file.  A file may be read while   *)
(* its author writes it: its content is a document up to some token.       *)
(***************************************************************************)
EXTENDS Sensor, Json

CONSTANTS
    N,           \* number of sensors, measured in this order
    Files,       \* file names and URLs of JSON sensors
    Remote,      \* those that are URLs
    Source,      \* Source[i]: the file of sensor i, or "homematic"
    Keys,        \* Keys[i]: _jsonKey of sensor i
    Config,      \* Config[i]: its SensorConfig
    Documents,   \* the documents that are found in files
    Text,        \* Text[d]: their texts
    Says,        \* Says[d][i]: the value document d has for sensor i
    Contents,    \* Contents[f]: what a reader may find in f
    BufferTime,  \* BUFFERTIME
    StartTime,   \* clock reading when the main loop starts
    MaxTime      \* bound: the clock does not advance beyond it

Sensors == 1..N
Content == [doc : Documents, cut : Nat]

ASSUME ReadoutAssumption ==
    /\ N \in Nat \ {0}
    /\ Remote \subseteq Files
    /\ "homematic" \notin Files
    /\ Source \in [Sensors -> Files \cup {"homematic"}]
    /\ Keys \in [Sensors -> Seq(STRING) \ {<<>>}]
    /\ Config \in [Sensors -> SensorConfig]
    /\ Contents \in [Files -> SUBSET Content]
    /\ Documents # {}
    /\ Text \in [Documents -> Seq(STRING)]
    /\ BufferTime \in Nat
    /\ StartTime \in Nat
    /\ MaxTime \in Nat
    /\ StartTime > BufferTime
    /\ \A i \in Sensors : StartTime > Config[i].rest + Config[i].keep

N_TRIALS == 2

VARIABLES
    now,      \* the system clock
    current,  \* the clock reading trigger() took for this pass
    turn,     \* the sensor this pass is at
    phase,    \* where in the pass the main thread is
    trial,    \* the attempt at opening a file
    sensor,   \* sensor[i]: the state of sensor i
    file,     \* file[f]: _content, when it was read, _last_read_timestamp
    used,     \* history: used[i], the content sensor i was last given
    asked     \* history: asked[f], the pass that last sent a request for f

vars == <<now, current, turn, phase, trial, sensor, file, used, asked>>

Phases == {"pause", "measure", "reading", "ended"}

Nothing   == [doc |-> CHOOSE d \in Documents : TRUE, cut |-> 0]
FileState == [content : Content, at : Nat, lastRead : Nat]
Use       == [pass : Nat, at : Nat, content : Content]

TypeOK ==
    /\ now \in Nat
    /\ current \in Nat
    /\ turn \in Sensors
    /\ phase \in Phases
    /\ trial \in 1..N_TRIALS
    /\ sensor \in [Sensors -> SensorState]
    /\ file \in [Files -> FileState]
    /\ used \in [Sensors -> Use]
    /\ asked \in [Files -> Nat]

Init ==
    /\ now = StartTime
    /\ current = StartTime
    /\ turn = 1
    /\ phase = "pause"
    /\ trial = 1
    /\ sensor = [i \in Sensors |-> NewSensor]
    /\ file = [f \in Files |-> [content |-> Nothing, at |-> 0, lastRead |-> 0]]
    /\ used = [i \in Sensors |-> [pass |-> 0, at |-> 0, content |-> Nothing]]
    /\ asked = [f \in Files |-> 0]

-----------------------------------------------------------------------------
(* Mutant: the age of a content is taken when the sensor asks for it.      *)
BufferedNow(f) == now - file[f].lastRead <= BufferTime

(* Is the content of f young enough for this pass?                         *)
Buffered(f) == current - file[f].lastRead <= BufferTime

(* The pass goes on to the next sensor, or to its end after the last one.  *)
GoOn ==
    /\ turn' = IF turn = N THEN 1 ELSE turn + 1
    /\ phase' = IF turn = N THEN "pause" ELSE "measure"

(* trigger() takes the time and throws old contents away.                  *)
Trigger ==
    /\ phase = "pause"
    /\ current' = now
    /\ turn' = 1
    /\ phase' = "measure"
    /\ file' = [f \in Files |-> IF now - file[f].lastRead > BufferTime
                                THEN [file[f] EXCEPT !.content = Nothing]
                                ELSE file[f]]
    /\ UNCHANGED <<now, trial, sensor, used, asked>>

Due == Rested(sensor[turn], Config[turn], current)

NotDue ==
    /\ phase = "measure"
    /\ ~Due
    /\ GoOn
    /\ UNCHANGED <<now, current, trial, sensor, file, used, asked>>

(* The second half of sensorJSON::measure(): the content is parsed, the    *)
(* value looked up and recorded.  An exception that is no error code ends  *)
(* the program.                                                            *)
ReadingOf(i, content) == Reading(SubSeq(Text[content.doc], 1, content.cut), Keys[i])

Evaluate(old, content, at) ==
    \E reading \in {ReadingOf(turn, content)} :
        IF reading = Ended
        THEN phase' = "ended" /\ UNCHANGED <<turn, sensor, used>>
        ELSE /\ sensor' = [sensor EXCEPT ![turn] =
                    IF reading = NoValue THEN AddReadFailure(old, Config[turn], now)
                                         ELSE AddRawMeasurement(old, Config[turn], now)]
             /\ used' = [used EXCEPT ![turn] =
                    [pass |-> current, at |-> at, content |-> content]]
             /\ GoOn

(* Mutant: a content that is used again counts as new.                     *)
ReadBufferedAgain ==
    /\ phase = "measure"
    /\ Due
    /\ Source[turn] \in Files
    /\ Buffered(Source[turn])
    /\ LET f == Source[turn]
       IN  /\ Evaluate(Cleaned(sensor[turn], Config[turn], current),
                       file[f].content, file[f].at)
           /\ file' = [file EXCEPT ![f].lastRead = current]
    /\ UNCHANGED <<now, current, trial, asked>>

(* measure() of a JSON sensor whose content is in the buffer.              *)
ReadBuffered ==
    /\ phase = "measure"
    /\ Due
    /\ Source[turn] \in Files
    /\ Buffered(Source[turn])
    /\ LET f == Source[turn]
       IN  Evaluate(Cleaned(sensor[turn], Config[turn], current),
                    file[f].content, file[f].at)
    /\ UNCHANGED <<now, current, trial, file, asked>>

(* measure() of another sensor up to the request or the opening of the     *)
(* file; getContent() clears the content first.                            *)
StartRead ==
    /\ phase = "measure"
    /\ Due
    /\ sensor' = [sensor EXCEPT ![turn] = Cleaned(@, Config[turn], current)]
    /\ phase' = "reading"
    /\ trial' = 1
    /\ \/ /\ Source[turn] = "homematic"
          /\ UNCHANGED <<file, asked>>
       \/ /\ Source[turn] \in Files
          /\ ~Buffered(Source[turn])
          /\ file' = [file EXCEPT ![Source[turn]].content = Nothing]
          /\ asked' = IF Source[turn] \in Remote
                      THEN [asked EXCEPT ![Source[turn]] = current]
                      ELSE asked
    /\ UNCHANGED <<now, current, turn, used>>

(* getContent() has read something, and measure() goes on with it.         *)
Receive(f, content) ==
    /\ file' = [file EXCEPT ![f] = [content |-> content, at |-> now, lastRead |-> current]]
    /\ Evaluate(sensor[turn], content, now)
    /\ UNCHANGED <<now, current, trial, asked>>

(* The file is open, or the server has answered.                           *)
ContentRead ==
    /\ phase = "reading"
    /\ Source[turn] \in Files
    /\ \E content \in Contents[Source[turn]] : Receive(Source[turn], content)

(* Mutant: a failed request leaves the time of the last one.               *)
RequestFailsSilently ==
    /\ phase = "reading"
    /\ Source[turn] \in Remote
    /\ Evaluate(sensor[turn], Nothing, now)
    /\ UNCHANGED <<now, current, trial, file, asked>>

(* A failed request is caught inside getContent(): the sensor reads an     *)
(* empty text.                                                             *)
RequestFails ==
    /\ phase = "reading"
    /\ Source[turn] \in Remote
    /\ Receive(Source[turn], Nothing)

(* Mutant: the attempts are not counted down.                              *)
FileIsLockedForEver ==
    /\ phase = "reading"
    /\ Source[turn] \in Files \ Remote
    /\ trial' = trial + 1
    /\ UNCHANGED <<now, current, turn, phase, sensor, file, used, asked>>

(* A file that cannot be opened is tried twice, 100 ms apart.              *)
FileIsLocked ==
    /\ phase = "reading"
    /\ Source[turn] \in Files \ Remote
    /\ trial < N_TRIALS
    /\ trial' = trial + 1
    /\ UNCHANGED <<now, current, turn, phase, sensor, file, used, asked>>

(* After the second attempt the sensor has failed, and the file counts as  *)
(* unread.                                                                 *)
FileFails ==
    /\ phase = "reading"
    /\ Source[turn] \in Files \ Remote
    /\ trial = N_TRIALS
    /\ sensor' = [sensor EXCEPT ![turn] = AddReadFailure(@, Config[turn], now)]
    /\ GoOn
    /\ UNCHANGED <<now, current, trial, file, used, asked>>

(***************************************************************************)
(* homematic::getValue(): what the sensor makes of the CCU's answer.  An   *)
(* empty value and one without an end are both read as 0; no answer, no    *)
(* value or nothing after "value=" is an error.                            *)
(***************************************************************************)
Answers == {"quoted", "empty", "unterminated", "no key", "cut off", "failed"}

HomematicValue(answer) ==
    CASE answer = "quoted" -> "1"
      [] answer \in {"empty", "unterminated"} -> "0"
      [] OTHER -> NoValue

HomematicAnswer ==
    /\ phase = "reading"
    /\ Source[turn] = "homematic"
    /\ \E answer \in Answers :
          sensor' = [sensor EXCEPT ![turn] =
              IF HomematicValue(answer) = NoValue
              THEN AddReadFailure(@, Config[turn], now)
              ELSE AddRawMeasurement(@, Config[turn], now)]
    /\ GoOn
    /\ UNCHANGED <<now, current, trial, file, used, asked>>

Tick ==
    /\ phase \in {"pause", "reading"}
    /\ now < MaxTime
    /\ now' = now + 1
    /\ UNCHANGED <<current, turn, phase, trial, sensor, file, used, asked>>

Next ==
    \/ Trigger \/ NotDue \/ ReadBuffered \/ StartRead
    \/ ContentRead \/ RequestFails
    \/ FileIsLocked \/ FileFails
    \/ HomematicAnswer
    \/ Tick

Spec == Init /\ [][Next]_vars
-----------------------------------------------------------------------------
(***************************************************************************)
(* Properties.                                                             *)
(***************************************************************************)

(* The sensors of one file that are read in the same pass are given the    *)
(* same content, however long the pass takes: values of one document are   *)
(* recorded together.                                                      *)
SameContentInPass ==
    \A i, j \in Sensors :
        /\ Source[i] \in Files
        /\ Source[i] = Source[j]
        /\ used[i].pass = used[j].pass
        => used[i] = used[j]

(* A sensor is never given a content that had been read longer than        *)
(* BUFFERTIME before its pass began, however often the content was shared. *)
FreshContent ==
    \A i \in Sensors : used[i].pass <= used[i].at + BufferTime

(* A whole document gives every sensor the value it says, wherever its     *)
(* keys lead.                                                              *)
ReadsTheDocument ==
    \A i \in Sensors :
        LET content == used[i].content
        IN  used[i].pass # 0 /\ content.cut = Len(Text[content.doc]) =>
              ReadingOf(i, content) = Says[content.doc][i]

(* A document that is still being written, or an answer that broke off,    *)
(* gives no sensor a value, wherever it ends.                              *)
TornGivesNothing ==
    \A i \in Sensors :
        LET content == used[i].content
        IN  used[i].pass # 0 /\ content.cut < Len(Text[content.doc]) =>
              ReadingOf(i, content) = NoValue

(* A server is not asked again within BUFFERTIME, although it did not      *)
(* answer: its sensors do not wait for one timeout after the other.        *)
AsksOnce ==
    [][\A f \in Remote : asked'[f] # asked[f] => asked'[f] > asked[f] + BufferTime]_vars
=============================================================================
