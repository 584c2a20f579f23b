------------------------------ MODULE Logbook ------------------------------
(***************************************************************************)
(* One logbook (logbook.cpp, column.cpp) and the sensor and event counter  *)
(* its columns share, from the arrival of a measurement to the entry.      *)
(*                                                                         *)
(* The main thread measures, then writes: logbook::write() evaluates one   *)
(* column after the other, publishing each value, rewrites the file and    *)
(* then starts the new counting cycle.  The sensor is fed by the main      *)
(* thread itself (a polled sensor) or by another one (a callback sensor).  *)
(***************************************************************************)
EXTENDS Sensor, Counter

CONSTANTS
    Columns,     \* the columns: [op |-> "count" or "mean", period |-> ...]
    CycleTime,   \* _cycleTime
    Rest, Retry, \* rest period and retry time of the sensor
    Feeder,      \* "main" or "callback": the thread that feeds the sensor
    StartTime,   \* clock reading when the program starts
    MaxTime,     \* bound: the clock does not advance beyond it
    MaxRegistrations \* bound: registrations of a callback sensor

ColumnIndex == 1..Len(Columns)

ASSUME LogbookAssumption ==
    /\ Columns \in Seq([op : {"count", "mean"}, period : Nat])
    /\ Columns # <<>>
    /\ CycleTime \in Nat \ {0}
    /\ Rest \in Nat \ {0}
    /\ Retry \in Nat \ {0}
    /\ Feeder \in {"main", "callback"}
    /\ StartTime \in Nat
    /\ MaxTime \in Nat
    /\ MaxRegistrations \in Nat

(***************************************************************************)
(* setEvaluationPeriod() and calculateColumnCycles().                      *)
(***************************************************************************)
Period(i) == IF Columns[i].period = 0 THEN CycleTime ELSE Columns[i].period

NCycles(i) == Period(i) \div CycleTime

ASSUME StartAssumption == \A i \in ColumnIndex : StartTime > Rest + Period(i)

(* Mutant: the entry of the cycle that has begun is due again.             *)
NextLogentryNow(timestamp) == Timeslot(timestamp, CycleTime)

NextLogentry(timestamp) == Timeslot(timestamp, CycleTime) + CycleTime

VARIABLES
    now,           \* the system clock
    current,       \* the clock reading trigger() took for this pass
    phase,         \* where in the pass the main thread is
    sensor,        \* the sensor
    keep,          \* its _keepValuesFor_ms
    counter,       \* the counter its columns share
    next_logentry, \* _timestamp_next_logentry
    slot,          \* write()'s currentTimeSlot
    col,           \* the column write() is at
    line,          \* the column values of the entry under way
    registering,   \* registerCallback() has polled but not yet reset the counters
    registrations, \* history: registrations so far
    accepted,      \* history: arrival times of the recorded measurements, without
                   \* the polls of registrations
    entries,       \* history: the entries written, each with the time and the
                   \* measurements known when it was
    reported       \* history: reported[i], the sum of column i's counts

vars == <<now, current, phase, sensor, keep, counter, next_logentry, slot, col, line,
          registering, registrations, accepted, entries, reported>>

SensorCfg == [rest |-> Rest, retry |-> Retry, keep |-> keep, isCounter |-> FALSE]

Phases == {"config", "pause", "measure", "reading", "write", "evaluate", "file", "newCycle"}

Value == [count : Nat, window : SUBSET Nat]

EntryState == [slot : Nat, at : Nat, values : Seq(Value), known : SUBSET Nat]

TypeOK ==
    /\ now \in Nat
    /\ current \in Nat
    /\ phase \in Phases
    /\ sensor \in SensorState
    /\ keep \in Nat
    /\ counter \in CounterState
    /\ next_logentry \in Nat
    /\ slot \in Nat
    /\ col \in ColumnIndex
    /\ line \in Seq(Value)
    /\ registering \in BOOLEAN
    /\ registrations \in 0..MaxRegistrations
    /\ accepted \in SUBSET Nat
    /\ reported \in [ColumnIndex -> Nat]
    /\ entries \in Seq(EntryState)

Init ==
    /\ now = StartTime
    /\ current = StartTime
    /\ phase = "config"
    /\ sensor = NewSensor
    /\ keep = 0
    /\ counter = NewCounter(StartTime)
    /\ next_logentry = NextLogentry(StartTime)
    /\ slot = 0
    /\ col = 1
    /\ line = <<>>
    /\ registering = FALSE
    /\ registrations = 0
    /\ accepted = {}
    /\ entries = <<>>
    /\ reported = [i \in ColumnIndex |-> 0]

Slots(arrivals) == {Timeslot(a, Rest) : a \in arrivals}

writeVars    == <<next_logentry, slot, col, line, entries, reported>>
sensorVars   == <<sensor, keep, counter, accepted>>
registerVars == <<registering, registrations>>

(* Mutant: the configuration goes beyond the last column.                  *)
AddColumnBeyond ==
    /\ phase = "config"
    /\ counter' = AccumulateCyclesToStore(counter, NCycles(col))
    /\ keep' = IF keep < Period(col) THEN Period(col) ELSE keep
    /\ phase' = IF col = Len(Columns) THEN "pause" ELSE phase
    /\ col' = col + 1
    /\ UNCHANGED <<now, current, sensor, next_logentry, slot, line,
                   registerVars, accepted, entries, reported>>

(***************************************************************************)
(* loadConfig() constructs one column after the other: each finds the      *)
(* counter of the columns before it and tells it and the sensor how much   *)
(* it will ask for.                                                        *)
(***************************************************************************)
AddColumn ==
    /\ phase = "config"
    /\ counter' = AccumulateCyclesToStore(counter, NCycles(col))
    /\ keep' = IF keep < Period(col) THEN Period(col) ELSE keep
    /\ IF col = Len(Columns)
       THEN phase' = "pause" /\ col' = 1
       ELSE col' = col + 1 /\ UNCHANGED phase
    /\ UNCHANGED <<now, current, sensor, next_logentry, slot, line,
                   registerVars, accepted, entries, reported>>

-----------------------------------------------------------------------------
(***************************************************************************)
(* Measuring.                                                              *)
(***************************************************************************)

Trigger ==
    /\ phase = "pause"
    /\ current' = now
    /\ phase' = "measure"
    /\ UNCHANGED <<now, sensorVars, registerVars, writeVars>>

NotDue ==
    /\ phase = "measure"
    /\ Feeder = "main"
    /\ ~Rested(sensor, SensorCfg, current)
    /\ phase' = "write"
    /\ UNCHANGED <<now, current, sensorVars, registerVars, writeVars>>

(* measure() of a callback sensor has its last value published.            *)
MeasureCallback ==
    /\ phase = "measure"
    /\ Feeder = "callback"
    /\ sensor' = Published(sensor)
    /\ phase' = "write"
    /\ UNCHANGED <<now, current, keep, counter, accepted, registerVars, writeVars>>

StartRead ==
    /\ phase = "measure"
    /\ Feeder = "main"
    /\ Rested(sensor, SensorCfg, current)
    /\ sensor' = Cleaned(sensor, SensorCfg, current)
    /\ phase' = "reading"
    /\ UNCHANGED <<now, current, keep, counter, accepted, registerVars, writeVars>>

(* addRawMeasurement(): a recorded measurement is counted.                 *)
Record ==
    IF Rested(sensor, SensorCfg, now)
    THEN /\ counter' = Count(counter, Timeslot(now, Rest))
         /\ accepted' = accepted \cup {now}
    ELSE UNCHANGED <<counter, accepted>>

(* A polled sensor publishes a recorded measurement at once.               *)
ReadOk ==
    /\ phase = "reading"
    /\ Record
    /\ LET added == AddRawMeasurement(sensor, SensorCfg, now)
       IN  sensor' = IF Rested(sensor, SensorCfg, now) THEN Published(added) ELSE added
    /\ phase' = "write"
    /\ UNCHANGED <<now, current, keep, registerVars, writeVars>>

ReadFail ==
    /\ phase = "reading"
    /\ sensor' = AddReadFailure(sensor, SensorCfg, now)
    /\ phase' = "write"
    /\ UNCHANGED <<now, current, keep, counter, accepted, registerVars, writeVars>>

(* An event on the Tinkerforge thread.                                     *)
CallbackEvent ==
    /\ Feeder = "callback"
    /\ phase # "config"
    /\ ~registering
    /\ Record
    /\ sensor' = AddRawMeasurement(sensor, SensorCfg, now)
    /\ UNCHANGED <<now, current, phase, keep, registerVars, writeVars>>

(* registerCallback(), at every enumeration, polls the Bricklet first: it  *)
(* is recorded and counted, it fails, or it cannot be tried.               *)
RegisterPoll ==
    /\ Feeder = "callback"
    /\ phase # "config"
    /\ ~registering
    /\ registrations < MaxRegistrations
    /\ \/ /\ sensor' = AddRawMeasurement(sensor, SensorCfg, now)
          /\ counter' = IF Rested(sensor, SensorCfg, now)
                        THEN Count(counter, Timeslot(now, Rest)) ELSE counter
       \/ sensor' = AddReadFailure(sensor, SensorCfg, now) /\ UNCHANGED counter
       \/ UNCHANGED <<sensor, counter>>
    /\ registering' = TRUE
    /\ registrations' = registrations + 1
    /\ UNCHANGED <<now, current, phase, keep, accepted, writeVars>>

(* Mutant: the poll stays counted.                                         *)
KeepCounters ==
    /\ Feeder = "callback"
    /\ registering
    /\ registering' = FALSE
    /\ UNCHANGED <<now, current, phase, sensorVars, registrations, writeVars>>

(* resetCounters(), because the poll was no event.                         *)
ResetCounters ==
    /\ Feeder = "callback"
    /\ registering
    /\ counter' = ResetCounter(counter, now)
    /\ registering' = FALSE
    /\ UNCHANGED <<now, current, phase, sensor, keep, registrations, accepted, writeVars>>

-----------------------------------------------------------------------------
(***************************************************************************)
(* logbook::write().                                                       *)
(***************************************************************************)
NoEntry ==
    /\ phase = "write"
    /\ now < next_logentry
    /\ phase' = "pause"
    /\ UNCHANGED <<now, current, sensorVars, registerVars, writeVars>>

StartEntry ==
    /\ phase = "write"
    /\ now >= next_logentry
    /\ slot' = Timeslot(now, CycleTime)
    /\ col' = 1
    /\ line' = <<>>
    /\ phase' = "evaluate"
    /\ UNCHANGED <<now, current, sensorVars, registerVars, next_logentry, entries, reported>>

(* column::getValue(): the counts of the column's cycles, or the           *)
(* measurements its statistics are made of; an empty set of measurements   *)
(* is a missing value.                                                     *)
ColumnValue(i) ==
    IF Columns[i].op = "count"
    THEN [count |-> Counts(counter, NCycles(i)), window |-> {}]
    ELSE [count |-> 0, window |-> InWindow(sensor.stored, slot - Period(i))]

(* One column is evaluated and its value published.                        *)
Evaluate ==
    /\ phase = "evaluate"
    /\ line' = Append(line, ColumnValue(col))
    /\ IF col = Len(Columns)
       THEN phase' = "file" /\ col' = 1
       ELSE col' = col + 1 /\ UNCHANGED phase
    /\ UNCHANGED <<now, current, sensorVars, registerVars, next_logentry, slot,
                   entries, reported>>

(* The entry goes into the file.  (Its other lines: module LogbookFile.)   *)
WriteFile ==
    /\ phase = "file"
    /\ entries' = Append(entries, [slot |-> slot, at |-> now, values |-> line,
                                   known |-> Slots(accepted)])
    /\ reported' = [i \in ColumnIndex |-> reported[i] + line[i].count]
    /\ phase' = "newCycle"
    /\ UNCHANGED <<now, current, sensorVars, registerVars, next_logentry, slot, col, line>>

(* column::startNewCycle() for one column; after the last one the next     *)
(* entry is scheduled, with a fresh clock reading.                         *)
StartCycle ==
    /\ phase = "newCycle"
    /\ counter' = StartNewCycle(counter, slot)
    /\ IF col = Len(Columns)
       THEN /\ next_logentry' = NextLogentry(now)
            /\ phase' = "pause"
            /\ col' = 1
            /\ slot' = 0
            /\ line' = <<>>
       ELSE /\ col' = col + 1
            /\ UNCHANGED <<next_logentry, phase, slot, line>>
    /\ UNCHANGED <<now, current, sensor, keep, registerVars, accepted, entries, reported>>

Tick ==
    /\ phase \in {"pause", "reading", "evaluate", "file"}
    /\ now < MaxTime
    /\ now' = now + 1
    /\ UNCHANGED <<current, phase, sensorVars, registerVars, writeVars>>

Next ==
    \/ AddColumn
    \/ Trigger \/ NotDue \/ MeasureCallback \/ StartRead \/ ReadOk \/ ReadFail
    \/ CallbackEvent \/ RegisterPoll \/ ResetCounters
    \/ NoEntry \/ StartEntry \/ Evaluate \/ WriteFile \/ StartCycle
    \/ Tick

Spec == Init /\ [][Next]_vars
-----------------------------------------------------------------------------
(***************************************************************************)
(* Properties.                                                             *)
(***************************************************************************)
CountColumns == {i \in ColumnIndex : Columns[i].op = "count"}
MeanColumns  == {i \in ColumnIndex : Columns[i].op = "mean"}

(* Every recorded measurement is counted in exactly one entry: between two *)
(* passes, what the entries have reported and what the current cycle holds *)
(* add up to all events there were.                                        *)
EventsCountedOnce ==
    phase = "pause" =>
        \A i \in CountColumns : NCycles(i) = 1 =>
            Cardinality(accepted) = reported[i] + Last(counter.cycles).counts

(* A count over two cycles is the sum of the counts of the entry and of    *)
(* the entry before it: the columns share one counter and each of them     *)
(* asks it to start the new cycle.                                         *)
MovingCountIsSum ==
    \A i, j \in CountColumns : NCycles(i) = 1 /\ NCycles(j) = 2 =>
        \A k \in DOMAIN entries :
            entries[k].values[j].count =
                entries[k].values[i].count
                    + (IF k = 1 THEN 0 ELSE entries[k-1].values[i].count)

(* No event is reported twice, whichever thread it comes from, as long as  *)
(* no callback is registered anew: a reset in between the end of a cycle   *)
(* and the entry makes the counter younger than the entry's slot, and it   *)
(* goes on into the next cycle with what the entry has reported.           *)
NeverOvercounted ==
    phase = "pause" /\ registrations = 0 =>
        \A i \in CountColumns : NCycles(i) = 1 =>
            reported[i] + Last(counter.cycles).counts <= Cardinality(accepted)

(* The current cycle counts only events that happened since it began, not  *)
(* the poll of a registration nor an event of the cycles before, however   *)
(* resets, entries and events of two threads follow each other.            *)
CountsItsOwn ==
    ~registering =>
        Last(counter.cycles).counts
            <= Cardinality({a \in accepted : a >= Last(counter.cycles).start})

(* The events of the current cycle, and the gaps between neighbours.       *)
CycleEvents ==
    {s \in Slots(accepted) :
        Cardinality({u \in Slots(accepted) : u >= s}) <= Last(counter.cycles).counts}

Gaps == {g \in {u - s : u, s \in CycleEvents} :
            \E s, u \in CycleEvents : /\ s < u
                                      /\ g = u - s
                                      /\ ~\E v \in CycleEvents : s < v /\ v < u}

(* freq_max is the inverse of the shortest time between two events of the  *)
(* cycle.                                                                  *)
ShortestGap ==
    Gaps # {} => /\ Last(counter.cycles).minDist \in Gaps
                 /\ \A g \in Gaps : Last(counter.cycles).minDist <= g

(* No two entries are for the same cycle, and they are in order.           *)
OneEntryPerCycle ==
    /\ \A k, m \in DOMAIN entries : k < m => entries[k].slot + CycleTime <= entries[m].slot
    /\ \A k \in DOMAIN entries : entries[k].slot <= entries[k].at

(* An entry that is written before the sensor's next rest period is over   *)
(* evaluates exactly the measurements of its period: none is newer, and    *)
(* clean() has removed none of them.                                       *)
WindowExact ==
    \A k \in DOMAIN entries : \A i \in MeanColumns :
        LET e == entries[k]
        IN  e.at < e.slot + Rest =>
                e.values[i].window = {s \in e.known : e.slot - Period(i) < s /\ s <= e.slot}

(***************************************************************************)
(* Refinement: column i keeps the event ledger.  The entry is made when    *)
(* the column is evaluated, and the evaluated counts stay in the counter   *)
(* until the new cycle starts.                                             *)
(***************************************************************************)
TheColumn == CHOOSE i \in CountColumns : NCycles(i) = 1

InLine   == (phase = "evaluate" /\ col > TheColumn) \/ phase = "file"
InEntry  == phase = "newCycle" /\ col = 1

LedgerPending  == IF InLine \/ InEntry THEN 0 ELSE Last(counter.cycles).counts
LedgerReported == reported[TheColumn] + (IF InLine THEN line[TheColumn].count ELSE 0)

Ledger == INSTANCE EventLedger WITH pending <- LedgerPending, reported <- LedgerReported

(* Every event is pending until an entry reports it, and every entry       *)
(* reports all that are pending.                                           *)
KeepsLedger == Ledger!Spec
=============================================================================
