---------------------------- MODULE LogbookFile -----------------------------
(***************************************************************************)
(* The file of a logbook: logbook::write() from the moment the values of   *)
(* the columns are known.  The file is read, its oldest lines are dropped, *)
(* and it is written again from the start, line by line.  The disk may be  *)
(* full, the file may open neither for reading nor for writing, and the    *)
(* program may end between any two steps and be started again, with        *)
(* another limit in its configuration.                                     *)
(*                                                                         *)
(* A line of the file is the number of its entry, counted by the calls of  *)
(* write(); it is negative when only a part of the line was written.       *)
(***************************************************************************)
EXTENDS Integers, Sequences, SequencesExt

CONSTANTS
    Limits,        \* values of max_entries in the configurations
    MaxEntry       \* bound: calls of write()

ASSUME LogbookFileAssumption == Limits \subseteq Nat /\ Limits # {} /\ MaxEntry \in Nat

VARIABLES
    up,        \* the program runs
    pc,        \* where in write() it is
    limit,     \* _maxEntries
    entry,     \* number of the entry being written, or written last
    readable,  \* existingLog.is_open(), if there is a file
    loglines,  \* the vector of lines read from the file
    flushed,   \* lines of the content that have gone to the file
    file,      \* the lines of the file
    damaged,   \* history: an entry was lost to a fault
    least      \* history: the least limit any entry was written under

vars == <<up, pc, limit, entry, readable, loglines, flushed, file, damaged, least>>

Header == 0
Torn(l)  == IF l > 0 THEN -l ELSE l
Entry(l) == IF l > 0 THEN l ELSE -l

(* The lines that getline() returns and that are no comments.              *)
Lines(f) ==
    LET kept[n \in 0..Len(f)] ==
            IF n = 0 THEN <<>>
            ELSE IF f[n] = Header THEN kept[n - 1] ELSE Append(kept[n - 1], f[n])
    IN  kept[Len(f)]

(* What write() is about to put into the file.                             *)
Content == <<Header>> \o loglines \o <<entry>>

TypeOK ==
    /\ up \in BOOLEAN
    /\ pc \in {"idle", "read", "trim", "open", "writing"}
    /\ limit \in Limits
    /\ entry \in 0..MaxEntry
    /\ readable \in BOOLEAN
    /\ loglines \in Seq((-entry)..entry)
    /\ flushed \in 0..(Len(loglines) + 2)
    /\ file \in Seq((-entry)..entry)
    /\ damaged \in BOOLEAN
    /\ least \in Nat

Init ==
    /\ up = TRUE
    /\ pc = "idle"
    /\ limit \in Limits
    /\ entry = 0
    /\ readable = TRUE
    /\ loglines = <<>>
    /\ flushed = 0
    /\ file = <<>>
    /\ damaged = FALSE
    /\ least = MaxEntry

-----------------------------------------------------------------------------
(* Mutant: write() is entered again and again.                             *)
StartWriteBeyond ==
    /\ up
    /\ pc = "idle"
    /\ entry' = entry + 1
    /\ pc' = "read"
    /\ flushed' = 0
    /\ UNCHANGED <<up, limit, readable, loglines, file, damaged, least>>

(* An entry is due and its columns are evaluated.                          *)
StartWrite ==
    /\ up
    /\ pc = "idle"
    /\ entry < MaxEntry
    /\ entry' = entry + 1
    /\ pc' = "read"
    /\ flushed' = 0
    /\ UNCHANGED <<up, limit, readable, loglines, file, damaged, least>>

(* Mutant: comments are kept like entries.                                 *)
ReadEverything ==
    /\ up
    /\ pc = "read"
    /\ readable' = TRUE
    /\ loglines' = file
    /\ pc' = "trim"
    /\ UNCHANGED <<up, limit, entry, flushed, file, damaged, least>>

Read ==
    /\ up
    /\ pc = "read"
    /\ readable' = TRUE
    /\ loglines' = Lines(file)
    /\ pc' = "trim"
    /\ UNCHANGED <<up, limit, entry, flushed, file, damaged, least>>

(* The file is there and does not open for reading: write() goes on as if  *)
(* there were none, and if it opens for writing the old entries are gone.  *)
ReadFails ==
    /\ up
    /\ pc = "read"
    /\ readable' = FALSE
    /\ loglines' = <<>>
    /\ pc' = "trim"
    /\ damaged' = TRUE
    /\ UNCHANGED <<up, limit, entry, flushed, file, least>>

(* Mutant: one line goes, not as many as it takes.                         *)
WithoutOldOnce(lines, max) == IF Len(lines) >= max THEN Tail(lines) ELSE lines

(* The oldest lines are erased until there is room for one more.           *)
WithoutOld(lines, max) ==
    IF Len(lines) >= max THEN SubSeq(lines, Len(lines) - max + 2, Len(lines)) ELSE lines

Trim ==
    /\ up
    /\ pc = "trim"
    /\ limit > 0
    /\ loglines' = WithoutOld(loglines, limit)
    /\ least' = IF limit < least THEN limit ELSE least
    /\ pc' = "open"
    /\ UNCHANGED <<up, limit, entry, readable, flushed, file, damaged>>

(* With a limit of 0 there is always a line too many: erase() on an empty  *)
(* vector is undefined, and ends the program sooner or later.              *)
TrimForEver ==
    /\ up
    /\ pc = "trim"
    /\ limit = 0
    /\ up' = FALSE
    /\ damaged' = TRUE
    /\ UNCHANGED <<pc, limit, entry, readable, loglines, flushed, file, least>>

(* Opening the file for writing empties it.                                *)
Open ==
    /\ up
    /\ pc = "open"
    /\ file' = <<>>
    /\ flushed' = 0
    /\ pc' = "writing"
    /\ UNCHANGED <<up, limit, entry, readable, loglines, damaged, least>>

(* The file does not open: this entry is lost, nobody is told.             *)
OpenFails ==
    /\ up
    /\ pc = "open"
    /\ pc' = "idle"
    /\ damaged' = TRUE
    /\ UNCHANGED <<up, limit, entry, readable, loglines, flushed, file, least>>

(* The end of a line flushes the stream; the header goes with the first.   *)
ToFlush == IF flushed = 0 THEN 2 ELSE flushed + 1

WriteLine ==
    /\ up
    /\ pc = "writing"
    /\ flushed < Len(Content)
    /\ file' = file \o SubSeq(Content, flushed + 1, ToFlush)
    /\ flushed' = ToFlush
    /\ UNCHANGED <<up, pc, limit, entry, readable, loglines, damaged, least>>

(* The disk is full: a part of the line is written, or nothing.  A stream  *)
(* that has failed ignores all further lines, and nobody looks at it.      *)
WriteFails ==
    /\ up
    /\ pc = "writing"
    /\ flushed < Len(Content)
    /\ LET complete == SubSeq(Content, flushed + 1, ToFlush - 1)
       IN  \/ UNCHANGED file
           \/ file' = file \o complete
           \/ file' = file \o Append(complete, Torn(Content[ToFlush]))
    /\ pc' = "idle"
    /\ damaged' = TRUE
    /\ UNCHANGED <<up, limit, entry, readable, loglines, flushed, least>>

(* Mutant: the stream is closed before the new line.                       *)
CloseEarly ==
    /\ up
    /\ pc = "writing"
    /\ flushed >= Len(Content) - 1
    /\ pc' = "idle"
    /\ UNCHANGED <<up, limit, entry, readable, loglines, flushed, file, damaged, least>>

Close ==
    /\ up
    /\ pc = "writing"
    /\ flushed = Len(Content)
    /\ pc' = "idle"
    /\ UNCHANGED <<up, limit, entry, readable, loglines, flushed, file, damaged, least>>

(* The program is stopped, or an exception of another thread ends it.      *)
Crash ==
    /\ up
    /\ up' = FALSE
    /\ damaged' = (damaged \/ pc # "idle")
    /\ UNCHANGED <<pc, limit, entry, readable, loglines, flushed, file, least>>

Restart ==
    /\ ~up
    /\ up' = TRUE
    /\ pc' = "idle"
    /\ loglines' = <<>>
    /\ flushed' = 0
    /\ limit' \in Limits
    /\ UNCHANGED <<entry, readable, file, damaged, least>>

Next ==
    \/ StartWrite \/ Read \/ ReadFails \/ Trim \/ TrimForEver \/ Open \/ OpenFails
    \/ WriteLine \/ WriteFails \/ Close \/ Crash \/ Restart

Spec == Init /\ [][Next]_vars
-----------------------------------------------------------------------------
(***************************************************************************)
(* Properties.                                                             *)
(***************************************************************************)

(* As long as nothing went wrong, the file holds the newest entries, each  *)
(* once, in order and without a gap, and as many as the limits allowed.    *)
FileIsTail ==
    pc = "idle" /\ ~damaged =>
        LET lines == Lines(file)
        IN  /\ lines = [k \in 1..Len(lines) |-> entry - Len(lines) + k]
            /\ Len(lines) = entry \/ Len(lines) >= least

(* Whatever went wrong: the entries of the file are in order, none twice,  *)
(* and the header is the first line and no other.                          *)
IsTable ==
    /\ \A k \in DOMAIN file : (file[k] = Header) <=> (k = 1)
    /\ \A j, k \in DOMAIN Lines(file) :
          j < k => Entry(Lines(file)[j]) < Entry(Lines(file)[k])

(* The file implements the list of entries of module EntryLog.  From the   *)
(* moment the file is emptied until it is closed, the list is in memory,   *)
(* and a crash leaves of it what has been written again.                   *)
logInMemory == up /\ pc = "writing"
TheLog == INSTANCE EntryLog WITH
              log <- IF logInMemory THEN loglines \o <<entry>> ELSE Lines(file)
KeepsTheLog == TheLog!Spec
=============================================================================
