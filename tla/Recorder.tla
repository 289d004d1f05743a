------------------------------ MODULE Recorder ------------------------------
(***************************************************************************)
(* The traffic recorder of a game server (internal/traffic/recorder.go)    *)
(* and the streams of it that pages follow (internal/admin/handler.go).    *)
(*                                                                         *)
(* Every exchange with the game is appended to a bounded timeline and to a *)
(* file, under one lock, and then signalled to the subscribers; a stream   *)
(* reads what is after the last event it sent.  Signals are coalesced, the *)
(* timeline overwrites, the file is rotated, writes fail, connections end  *)
(* and the server is killed.  The next server restores the timeline from   *)
(* the file, and a page asks it for what follows the last event it has.    *)
(*                                                                         *)
(* An event is its place in the order of the appends; its id is only ever  *)
(* compared for equality.  Contents and their redaction are left out.      *)
(***************************************************************************)
EXTENDS Naturals, FiniteSets, FiniteSetsExt

CONSTANTS Exchanges,    \* handlers that record at one time
          Streams,      \* pages
          RecentLimit,  \* defaultRecentLimit
          MaxEvents     \* bound of a behaviour

ASSUME RecorderAssumption ==
  RecentLimit \in Nat \ {0} /\ MaxEvents \in Nat

VARIABLES up,        \* the server runs
          recorded,  \* events so far
          since,     \* how many of them are from earlier servers
          recent,    \* the timeline
          file,      \* the log, whether it is open and ends in a torn line
          saved,     \* history: the events whose line was once in the log
          notifying, \* exchanges that have not signalled their event yet
          stream,
          last       \* the last event of each page, 0 when it has none
recorderVars == <<up, recorded, since, recent, file, saved, notifying, stream, last>>
logVars == <<file, saved>>

Events == 1..MaxEvents
EmptyLog == [events |-> {}, open |-> TRUE, torn |-> FALSE]
Closed == [pc |-> "closed", after |-> 0, updates |-> FALSE, todo |-> {}]

\* Types of the variables.
RecorderTypeOK ==
  /\ up \in BOOLEAN /\ recorded \in 0..MaxEvents /\ since \in 0..recorded
  /\ recent \subseteq Events /\ Cardinality(recent) <= RecentLimit
  /\ file \in [events : SUBSET Events, open : BOOLEAN, torn : BOOLEAN]
  /\ saved \subseteq Events
  /\ notifying \subseteq Exchanges
  /\ stream \in [Streams -> [pc : {"closed", "read", "write", "wait"}, after : 0..MaxEvents,
                             updates : BOOLEAN, todo : SUBSET Events]]
  /\ last \in [Streams -> 0..MaxEvents]

RecorderInit ==
  /\ up = FALSE /\ recorded = 0 /\ since = 0 /\ recent = {}
  /\ file = [EmptyLog EXCEPT !.open = FALSE]
  /\ saved = {} /\ notifying = {}
  /\ stream = [s \in Streams |-> Closed] /\ last = [s \in Streams |-> 0]

-----------------------------------------------------------------------------
(* The timeline and the log.                                               *)

\* The newest of a set of events, the timeline's limit of them.
Newest(events) == {e \in events : Cardinality({d \in events : d > e}) < RecentLimit}

\* A line that follows a torn one is unreadable with it; it ends the torn one.
Written(f, e) ==
  IF f.torn THEN [f EXCEPT !.torn = FALSE] ELSE [f EXCEPT !.events = @ \cup {e}]

\* A write that fails may leave a part of its line.
Writes(f, e) == {Written(f, e), f, [f EXCEPT !.torn = TRUE]}

\* rotateLocked: the line goes to an empty log, or the log stays (the archive
\* cannot be replaced) and the line is not written, or there is none any more.
Rotations(e) ==
  Writes(EmptyLog, e) \cup {file, [file EXCEPT !.open = FALSE], [EmptyLog EXCEPT !.open = FALSE]}

\* Lines differ in length, so any that is not the first may reach the limit.
Log(e) ==
  \/ ~file.open /\ UNCHANGED file
  \/ file.open /\ file' \in Writes(file, e)
  \/ file.open /\ (file.events # {} \/ file.torn) /\ file' \in Rotations(e)

\* Record, the part under the lock.
Record(x) ==
  /\ up /\ x \notin notifying /\ recorded < MaxEvents
  /\ recorded' = recorded + 1
  /\ recent' = Newest(recent \cup {recorded'})
  /\ Log(recorded') /\ saved' = saved \cup file'.events
  /\ notifying' = notifying \cup {x}
  /\ UNCHANGED <<up, since, stream, last>>

\* Fault: a signal is dropped unless the stream waits for it.
Signals_Waiting(s) == stream[s].pc = "wait"

\* The signal of a stream is kept for it, so that two become one.
Signals(s) == stream[s].pc # "closed"

NotifySubscribers(x) ==
  /\ x \in notifying /\ notifying' = notifying \ {x}
  /\ stream' = [s \in Streams |->
                  [stream[s] EXCEPT !.updates = @ \/ Signals(s)]]
  /\ UNCHANGED <<up, recorded, since, recent, logVars, last>>

-----------------------------------------------------------------------------
(* A stream.                                                               *)

\* An id that is not in the timeline falls back to all of it.
AfterIn(events, e) == IF e \in events THEN {d \in events : d > e} ELSE events

After(e) == AfterIn(recent, e)

\* A page first asks for what it lacks, of the server or, when that is
\* stopped, of a snapshot that ReadHistory makes of the log,
Refresh(s) ==
  LET events == IF up THEN After(last[s])
                ELSE AfterIn(Newest(file.events), last[s])
  IN /\ stream[s].pc = "closed" /\ events # {}
     /\ last' = [last EXCEPT ![s] = Max(events)]
     /\ UNCHANGED <<up, recorded, since, recent, logVars, notifying, stream>>

\* then opens a stream.  trafficStream subscribes before it first reads.
Subscribe(s) ==
  /\ up /\ stream[s].pc = "closed"
  /\ stream' = [stream EXCEPT ![s] = [Closed EXCEPT !.pc = "read", !.after = last[s]]]
  /\ UNCHANGED <<up, recorded, since, recent, logVars, notifying, last>>

\* sendAvailable reads the events,
ReadAvailable(s) ==
  /\ stream[s].pc = "read"
  /\ stream' = [stream EXCEPT ![s].pc = "write", ![s].todo = After(stream[s].after)]
  /\ UNCHANGED <<up, recorded, since, recent, logVars, notifying, last>>

\* writes them, oldest first,
SendEvent(s) ==
  LET e == Min(stream[s].todo) IN
  /\ stream[s].pc = "write" /\ stream[s].todo # {}
  /\ stream' = [stream EXCEPT ![s].after = e, ![s].todo = @ \ {e}]
  /\ last' = [last EXCEPT ![s] = e]
  /\ UNCHANGED <<up, recorded, since, recent, logVars, notifying>>

\* and then the stream waits
Wait(s) ==
  /\ stream[s].pc = "write" /\ stream[s].todo = {}
  /\ stream' = [stream EXCEPT ![s].pc = "wait"]
  /\ UNCHANGED <<up, recorded, since, recent, logVars, notifying, last>>

\* for a signal.
Wake(s) ==
  /\ stream[s].pc = "wait" /\ stream[s].updates
  /\ stream' = [stream EXCEPT ![s].pc = "read", ![s].updates = FALSE]
  /\ UNCHANGED <<up, recorded, since, recent, logVars, notifying, last>>

\* The connection ends; a page that is loaded again has no events.
Disconnect(s) ==
  /\ stream[s].pc # "closed" /\ stream' = [stream EXCEPT ![s] = Closed]
  /\ \E e \in {last[s], 0} : last' = [last EXCEPT ![s] = e]
  /\ UNCHANGED <<up, recorded, since, recent, logVars, notifying>>

-----------------------------------------------------------------------------
(* The server.                                                             *)

\* Open restores the timeline from the log, not from the archive before it.
Start ==
  /\ ~up /\ up' = TRUE
  /\ recent' = Newest(file.events) /\ file' = [file EXCEPT !.open = TRUE]
  /\ since' = recorded
  /\ UNCHANGED <<recorded, saved, notifying, stream, last>>

\* The panel kills the server, maybe in the middle of a line.
Killed ==
  /\ up /\ up' = FALSE
  /\ recent' = {} /\ notifying' = {} /\ stream' = [s \in Streams |-> Closed]
  /\ \E torn \in {file.torn, file.open \/ file.torn} :
       file' = [file EXCEPT !.open = FALSE, !.torn = torn]
  /\ UNCHANGED <<recorded, since, saved, last>>

RecorderNext ==
  \/ Start \/ Killed
  \/ \E x \in Exchanges : Record(x) \/ NotifySubscribers(x)
  \/ \E s \in Streams : \/ Refresh(s) \/ Subscribe(s) \/ ReadAvailable(s) \/ SendEvent(s)
                        \/ Wait(s) \/ Wake(s) \/ Disconnect(s)

RecorderSpec == RecorderInit /\ [][RecorderNext]_recorderVars

-----------------------------------------------------------------------------
(* What must hold.                                                         *)

(* "subscribers recover every event from After using their last event ID"  *)
(* (recorder.go:195): what the timeline has after the last event that a    *)
(* page got is about to be written, or the stream is about to read again,  *)
(* has a signal, or is about to get one; and what is about to be written   *)
(* comes after what the page has, also in a later server, unless the event *)
(* it stopped at never got into the log.                                   *)
StreamsComplete ==
  \A s \in Streams : LET r == stream[s] IN r.pc # "closed" =>
    /\ \/ r.pc = "read" \/ r.updates \/ notifying # {}
       \/ {e \in recent : e > r.after} \subseteq r.todo
    /\ r.after = 0 \/ r.after > since \/ r.after \in saved =>
         \A e \in r.todo : e > r.after
=============================================================================
