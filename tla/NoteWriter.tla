----------------------------- MODULE NoteWriter -----------------------------
(***************************************************************************)
(* ModerationNoteWriter (src/src/postgres.rs): the checks of a chunk, or   *)
(* the clicks in serve mode, write notes into Mastodon's database through  *)
(* one client behind a mutex.  The client is taken out of its slot for a   *)
(* note, replaced when its connection has gone, and put back afterwards.   *)
(*                                                                         *)
(* A connection that PostgreSQL has ended is "broken" until its background *)
(* task notices, then "closed": only then is_closed says so.               *)
(***************************************************************************)
EXTENDS Naturals

CONSTANTS Writer    \* tasks that write notes

VARIABLES
  dbUp,      \* PostgreSQL accepts connections
  slot,      \* the client kept for the next note
  held,      \* the client of the task that holds the mutex
  noting,    \* where each task is in add_note
  query,     \* its INSERT, as PostgreSQL has it
  rows,      \* rows its current note has in the table
  noted      \* how its last call ended

noteVars == <<dbUp, slot, held, noting, query, rows, noted>>

Connection == {"none", "live", "broken", "closed"}
Locked == {"dialling", "inserting", "cancelling"}

NoteTypeOK ==
  /\ dbUp \in BOOLEAN
  /\ slot \in Connection
  /\ held \in Connection
  /\ noting \in [Writer -> Locked \cup {"idle", "waiting"}]
  /\ query \in [Writer -> {"none", "sent", "done"}]
  /\ rows \in [Writer -> 0..2]
  /\ noted \in [Writer -> {"none", "ok", "failed"}]

\* The first connection is made at startup, or there is no writer.
NoteInit ==
  /\ dbUp = TRUE
  /\ slot = "live"
  /\ held = "none"
  /\ noting = [w \in Writer |-> "idle"]
  /\ query = [w \in Writer |-> "none"]
  /\ rows = [w \in Writer |-> 0]
  /\ noted = [w \in Writer |-> "none"]

-----------------------------------------------------------------------------
\* Mutant of IsClosed: nobody asks.
IsClosedNever(connection) == FALSE
IsClosed(connection) == connection = "closed"

AddNote(w) ==
  /\ noting[w] = "idle"
  /\ noting' = [noting EXCEPT ![w] = "waiting"]
  /\ query' = [query EXCEPT ![w] = "none"]
  /\ rows' = [rows EXCEPT ![w] = 0]
  /\ noted' = [noted EXCEPT ![w] = "none"]
  /\ UNCHANGED <<dbUp, slot, held>>

\* The INSERT goes out on the client, and arrives if the connection is there.
Insert(w, connection) ==
  /\ noting' = [noting EXCEPT ![w] = "inserting"]
  /\ held' = connection
  /\ query' = [query EXCEPT ![w] = IF connection = "live" THEN "sent" ELSE "none"]

\* The mutex, and guard.take().
Lock(w) ==
  /\ noting[w] = "waiting"
  /\ \A v \in Writer : noting[v] \notin Locked
  /\ slot' = "none"
  /\ IF slot = "none" \/ IsClosed(slot)
     THEN /\ noting' = [noting EXCEPT ![w] = "dialling"]
          /\ UNCHANGED <<held, query>>
     ELSE Insert(w, slot)
  /\ UNCHANGED <<dbUp, rows, noted>>

Dial(w) ==
  /\ noting[w] = "dialling"
  /\ dbUp
  /\ Insert(w, "live")
  /\ UNCHANGED <<dbUp, slot, rows, noted>>

\* The call is over; the mutex is free, and the slot holds what is kept.
EndNote(w, how, kept) ==
  /\ noting' = [noting EXCEPT ![w] = "idle"]
  /\ noted' = [noted EXCEPT ![w] = how]
  /\ held' = "none"
  /\ slot' = kept

DialFails(w) ==
  /\ noting[w] = "dialling"
  /\ EndNote(w, "failed", "none")
  /\ UNCHANGED <<dbUp, query, rows>>

\* PostgreSQL carries the INSERT out, whether anyone still waits for it or not.
Execute(w) ==
  /\ query[w] = "sent"
  /\ query' = [query EXCEPT ![w] = "done"]
  /\ rows' = [rows EXCEPT ![w] = @ + 1]
  /\ UNCHANGED <<dbUp, slot, held, noting, noted>>

\* A client is kept unless the query itself killed it.
KeptClient == IF IsClosed(held) THEN "none" ELSE held

\* The answer comes.  If the connection ends in the same moment, that is Drops.
Reply(w) ==
  /\ noting[w] = "inserting"
  /\ held = "live" /\ query[w] = "done"
  /\ EndNote(w, "ok", KeptClient)
  /\ UNCHANGED <<dbUp, query, rows>>

\* PostgreSQL refuses the row: the account is unknown to it, say.
Refused(w) ==
  /\ noting[w] = "inserting"
  /\ held = "live" /\ query[w] = "sent"
  /\ query' = [query EXCEPT ![w] = "none"]
  /\ EndNote(w, "failed", KeptClient)
  /\ UNCHANGED <<dbUp, rows>>

\* Mutant of ConnectionLost: the INSERT is sent again on a new connection.
ConnectionLostResent(w) ==
  /\ noting[w] = "inserting"
  /\ held \in {"broken", "closed"}
  /\ noting' = [noting EXCEPT ![w] = "dialling"]
  /\ UNCHANGED <<dbUp, slot, held, query, rows, noted>>

\* The connection went away under the query, before or after the row was written.
\* A parting error of PostgreSQL may come before the end of the connection is
\* noticed: then the dead client is kept.
ConnectionLost(w) ==
  /\ noting[w] = "inserting"
  /\ held \in {"broken", "closed"}
  /\ EndNote(w, "failed", KeptClient)
  /\ UNCHANGED <<dbUp, query, rows>>

TimesOut(w) ==
  /\ noting[w] = "inserting"
  /\ noting' = [noting EXCEPT ![w] = "cancelling"]
  /\ UNCHANGED <<dbUp, slot, held, query, rows, noted>>

\* Mutant of Cancelled: the timed-out call returns with the mutex still held.
CancelledLocked(w) ==
  /\ noting[w] = "cancelling"
  /\ noted' = [noted EXCEPT ![w] = "failed"]
  /\ UNCHANGED <<dbUp, slot, held, noting, query, rows>>

\* cancel_query reaches PostgreSQL, or fails and leaves the query running; the
\* client is discarded either way.
Cancelled(w) ==
  /\ noting[w] = "cancelling"
  /\ EndNote(w, "failed", "none")
  /\ query' \in {query, [query EXCEPT ![w] = IF @ = "sent" THEN "none" ELSE @]}
  /\ UNCHANGED <<dbUp, rows>>

Ended(connection) == IF connection = "live" THEN "broken" ELSE connection
Killed == [w \in Writer |-> IF query[w] = "sent" THEN "none" ELSE query[w]]

\* PostgreSQL stops: queries die and connections end.
DbStops ==
  /\ dbUp
  /\ dbUp' = FALSE
  /\ slot' = Ended(slot) /\ held' = Ended(held)
  /\ query' = Killed
  /\ UNCHANGED <<noting, rows, noted>>

DbStarts ==
  /\ ~dbUp
  /\ dbUp' = TRUE
  /\ UNCHANGED <<slot, held, noting, query, rows, noted>>

\* An idle timeout, or a link that fails: the connection ends, and what runs on
\* it with it, or not.
Drops ==
  /\ "live" \in {slot, held}
  /\ slot' = Ended(slot) /\ held' = Ended(held)
  /\ query' \in {query, Killed}
  /\ UNCHANGED <<dbUp, noting, rows, noted>>

\* The background task of a connection sees its end.
Notice ==
  /\ "broken" \in {slot, held}
  /\ slot' = IF slot = "broken" THEN "closed" ELSE slot
  /\ held' = IF held = "broken" THEN "closed" ELSE held
  /\ UNCHANGED <<dbUp, noting, query, rows, noted>>

-----------------------------------------------------------------------------
\* What add_note does of itself; every wait in it has DATABASE_TIMEOUT.
NoteStep(w) ==
  Dial(w) \/ DialFails(w) \/ Reply(w) \/ Refused(w) \/ ConnectionLost(w)
    \/ TimesOut(w) \/ Cancelled(w)

NoteNext ==
  \/ \E w \in Writer : AddNote(w) \/ Lock(w) \/ NoteStep(w) \/ Execute(w)
  \/ DbStops \/ DbStarts \/ Drops \/ Notice

\* The mutex is fair; PostgreSQL and those who call need do nothing.
NoteFairness ==
  /\ WF_noteVars(Notice)
  /\ \A w \in Writer : WF_noteVars(NoteStep(w)) /\ SF_noteVars(Lock(w))

NoteSpec == NoteInit /\ [][NoteNext]_noteVars /\ NoteFairness

-----------------------------------------------------------------------------
\* However connections and calls fail, a note is in the table once at most, and
\* a call that says so has written it (src/src/postgres.rs:139).
NoteWrittenOnce ==
  \A w \in Writer : rows[w] <= 1 /\ (noted[w] = "ok" => rows[w] = 1)

\* What a note may be lost to: PostgreSQL or the link fails, or refuses it.
NoteFault ==
  DbStops \/ Drops \/ \E w \in Writer : Refused(w) \/ TimesOut(w) \/ DialFails(w)
NoteLost == \E w \in Writer : noted[w] = "none" /\ noted'[w] = "failed"

\* A lost connection does not silence the writer: notes are lost again and again
\* only to faults that come again and again (src/src/postgres.rs:112).
WriterRecovers == []<><<NoteLost>>_noteVars => []<><<NoteFault>>_noteVars

\* Every call of add_note returns, so that the check or click that made it goes
\* on, however the database behaves and whoever else holds the mutex.
NoteCallsEnd == \A w \in Writer : noting[w] = "waiting" ~> noting[w] = "idle"
=============================================================================
