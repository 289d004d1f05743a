-------------------------------- MODULE Panel --------------------------------
(***************************************************************************)
(* The control panel's operations on the managed emulators                 *)
(* (internal/control/emulators.go, device_action.go and the lock           *)
(* discipline of handler.go): select a device, Local, Official, Stop all,  *)
(* open an account, and the status polls that release stopped accounts.    *)
(*                                                                         *)
(* One operation at a time holds the runner lock; its store transactions   *)
(* and its ADB commands are separate steps.  Between them the emulators    *)
(* and the servers go their own way, the panel may crash, and the panel's  *)
(* own administration, which never takes the lock, deletes a profile or    *)
(* selects one (POST players/<id>/active, unused by the panel's pages).    *)
(*                                                                         *)
(* A status poll that restores a device left pending by Stop stops its     *)
(* game; here that is a StopGame step like any other.                      *)
(***************************************************************************)
EXTENDS FiniteSets, Naturals

CONSTANTS Serials,      \* the emulators, by ADB serial
          Players,      \* the profiles
          Unserialized, \* what the administration does without the lock
          MaxEvents,    \* bound on requests, API selections, crashes and failed polls
          NoPlayer, NoSerial, Nobody

ASSUME PanelAssumption ==
  /\ NoPlayer \notin Players
  /\ NoSerial \notin Serials
  /\ Nobody \notin Serials
  /\ Unserialized \subseteq {"select", "delete"}
  /\ MaxEvents \in Nat

VARIABLES
  profiles,  \* the profiles that exist
  emulator,  \* emulator_profiles; fresh: started_at is at most 15 s ago
  managed,   \* emulators with a runtime (emulators.json, m.devices)
  server,    \* emulators whose server process runs
  android,   \* what ADB can see of an emulator and its game
  selected,  \* m.selected, kept in device.json and published as the routing
  up,        \* the panel process runs
  op,        \* the operation that holds the runner lock
  request,   \* an OpenPlayer call that has read the routing, not begun
  events     \* requests, API selections, crashes and failed polls so far

vars == <<profiles, emulator, managed, server, android, selected, up, op,
          request, events>>
world == <<profiles, managed, server, android, selected, up>>

Rows == [player : Players \cup {NoPlayer}, active : BOOLEAN, fresh : BOOLEAN]
NoRow == [player |-> NoPlayer, active |-> FALSE, fresh |-> FALSE]
Requests == [serial : Serials, player : Players]
NoRequest == [serial |-> NoSerial, player |-> NoPlayer]

\* The local variables of the running operation.
NoOp == [kind     |-> "none",     \* which operation
         pc       |-> "idle",     \* its next step
         asked    |-> NoSerial,   \* the device an account was asked for
         player   |-> NoPlayer,   \* the profile to open
         previous |-> NoRow,      \* the row to give back
         served   |-> FALSE,      \* the status read: server up and connected
         stopped  |-> FALSE,      \* the status read: game not running
         todo     |-> {},         \* emulators still to visit
         target   |-> NoSerial,   \* the emulator being visited
         failed   |-> FALSE]      \* Stop all: some device failed

TypeOK ==
  /\ profiles \subseteq Players
  /\ emulator \in [Serials -> Rows]
  /\ managed \subseteq Serials
  /\ server \subseteq managed
  /\ android \in [Serials -> {"offline", "idle", "playing"}]
  /\ selected \in Serials
  /\ up \in BOOLEAN
  /\ op \in [kind : {"none", "status", "open", "official", "stop"},
             pc : {"idle", "inspect", "owners", "visit", "release", "reserve",
                   "launch", "restore", "act", "stop", "stopped"},
             asked : Serials \cup {NoSerial},
             player : Players \cup {NoPlayer}, previous : Rows,
             served : BOOLEAN, stopped : BOOLEAN, todo : SUBSET Serials,
             target : Serials \cup {NoSerial}, failed : BOOLEAN]
  /\ request \in Requests \cup {NoRequest}
  /\ events \in 0..MaxEvents

Init ==
  /\ profiles = Players
  /\ emulator = [s \in Serials |-> NoRow]
  /\ managed = {} /\ server = {}
  /\ android \in [Serials -> {"offline", "idle"}]
  /\ selected \in Serials
  /\ up = TRUE
  /\ op = NoOp
  /\ request = NoRequest
  /\ events = 0

Connected(s) == android[s] # "offline"
Holds(s, p) == emulator[s].active /\ emulator[s].player = p

-----------------------------------------------------------------------------
(* The two transactions (internal/store/emulators.go).                     *)

Reserve(s, p, active) ==
  emulator' = [emulator EXCEPT ![s] =
                 [player |-> p, active |-> active, fresh |-> active]]

\* Fault: the profile may be taken from another emulator.
Refused_NoOwnerCheck(s, p) == p \notin profiles

\* Another emulator holds the profile, or the profile is gone.
Refused(s, p) == p \notin profiles \/ \E t \in Serials \ {s} : Holds(t, p)

SelectEmulatorPlayer(s, p, active) == ~Refused(s, p) /\ Reserve(s, p, active)

ReleaseEmulator(s) ==
  emulator' = [emulator EXCEPT ![s] =
                 [player |-> @.player, active |-> FALSE, fresh |-> FALSE]]

-----------------------------------------------------------------------------
(* MultiRunner.Status, on its own or inside another operation.             *)

At(pc) == up /\ op.pc = pc
Goto(pc) == op' = [op EXCEPT !.pc = pc]
Finish == op' = NoOp

PollStatus ==
  /\ up /\ op = NoOp
  /\ op' = [NoOp EXCEPT !.kind = "status", !.pc = "inspect"]
  /\ UNCHANGED <<emulator, world, request, events>>

\* MultiRunner.device gives an emulator its runtime on first use.
Recorded(s) == managed \cup {s}

\* device.Status of the selected emulator.
Inspect ==
  /\ At("inspect")
  /\ managed' = Recorded(selected)
  /\ op' = [op EXCEPT !.pc = "owners",
                      !.served = selected \in server /\ Connected(selected),
                      !.stopped = android[selected] = "idle"]
  /\ UNCHANGED <<profiles, emulator, server, android, selected, up, request, events>>

\* Fault: only the selected emulator is looked after.
Owners_SelectedOnly == {s \in managed : s = selected /\ emulator[s].active}

\* The reservations of the managed emulators (EmulatorPlayers, m.devices).
Owners == {s \in managed : emulator[s].active}

ReadOwners ==
  /\ At("owners")
  /\ op' = [op EXCEPT !.pc = "visit", !.todo = Owners]
  /\ UNCHANGED <<emulator, world, request, events>>

\* The game of an emulator is known to be stopped: from the status read first
\* for the selected one, from a status of its own for another.
GameStopped(s) == IF s = selected THEN op.stopped ELSE android[s] = "idle"

\* Fault: no grace while Android creates the process.
Stopped_NoGrace(s) == s \notin server \/ GameStopped(s)

\* The server is gone, or the game is after its grace.
Stopped(s) == \/ s \notin server
              \/ ~emulator[s].fresh /\ GameStopped(s)

VisitOwner(s) ==
  /\ At("visit") /\ s \in op.todo
  /\ op' = IF Stopped(s)
           THEN [op EXCEPT !.pc = "release", !.target = s, !.todo = @ \ {s}]
           ELSE [op EXCEPT !.todo = @ \ {s}]
  /\ UNCHANGED <<emulator, world, request, events>>

ReleaseStopped ==
  /\ At("release") /\ op.kind # "official"
  /\ ReleaseEmulator(op.target)
  /\ op' = [op EXCEPT !.pc = "visit", !.target = NoSerial]
  /\ UNCHANGED <<world, request, events>>

\* The end of Status: a poll is answered, OpenPlayer goes on when the device
\* was served in local mode (the mode is left open), Stop all ends the panel.
StatusDone ==
  /\ At("visit") /\ op.todo = {}
  /\ \/ op.kind = "status" /\ Finish /\ UNCHANGED up
     \/ op.kind = "open" /\ Finish /\ UNCHANGED up
     \/ /\ op.kind = "open" /\ op.served
        /\ op' = [op EXCEPT !.pc = "reserve", !.previous = emulator[selected]]
        /\ UNCHANGED up
     \/ op.kind = "stop" /\ Finish /\ up' = FALSE
  /\ UNCHANGED <<profiles, emulator, managed, server, android, selected, request, events>>

\* A cancelled context or a store error ends the operation where it stands.
StatusFails ==
  /\ up /\ op.pc \in {"inspect", "owners", "visit", "release"}
  /\ op.kind # "official" /\ events < MaxEvents
  /\ Finish
  /\ events' = events + 1
  /\ UNCHANGED <<emulator, world, request>>

-----------------------------------------------------------------------------
(* Opening an account.                                                     *)

\* ServeHTTP puts the routing into the request before anything is locked.
RequestOpen(p) ==
  /\ up /\ request = NoRequest /\ events < MaxEvents
  /\ request' = [serial |-> selected, player |-> p]
  /\ events' = events + 1
  /\ UNCHANGED <<emulator, world, op>>

\* Fault: the device may have been switched since the request was routed.
Routed_AnyDevice(serial) == TRUE

\* "The selected emulator changed; try again" otherwise.
Routed(serial) == serial = selected

OpenPlayer ==
  /\ up /\ op = NoOp /\ request # NoRequest
  /\ op' = IF Routed(request.serial)
           THEN [NoOp EXCEPT !.kind = "open", !.pc = "inspect",
                             !.asked = request.serial, !.player = request.player]
           ELSE NoOp
  /\ request' = NoRequest
  /\ UNCHANGED <<emulator, world, events>>

\* "Another operation is in progress": a poll is not an operation.
RefuseOpen ==
  /\ up /\ op.kind \notin {"none", "status"} /\ request # NoRequest
  /\ request' = NoRequest
  /\ UNCHANGED <<emulator, world, op, events>>

ReserveAccount ==
  /\ At("reserve")
  /\ \/ SelectEmulatorPlayer(selected, op.player, TRUE) /\ Goto("launch")
     \/ Refused(selected, op.player) /\ Finish /\ UNCHANGED emulator
  /\ UNCHANGED <<world, request, events>>

\* device.launch force-stops the game, writes the account state and starts it.
\* A failure may come at any point of it, or after it when the call times out.
Launch ==
  /\ At("launch")
  /\ \/ Finish /\ Connected(selected)
     \/ Goto("restore")
  /\ android' \in {android, [android EXCEPT ![selected] =
                               IF Connected(selected) THEN "idle" ELSE "offline"]}
  /\ UNCHANGED <<profiles, emulator, managed, server, selected, up, request, events>>

\* Fault: a failed launch always releases the device.
RestorePrevious_Release ==
  /\ At("restore")
  /\ ReleaseEmulator(selected)
  /\ Finish
  /\ UNCHANGED <<world, request, events>>

\* A failed launch gives the previous selection back, or releases when there
\* was none.  When it cannot be selected any more the new account stays reserved.
RestorePrevious ==
  /\ At("restore")
  /\ \/ /\ op.previous.player # NoPlayer
        /\ SelectEmulatorPlayer(selected, op.previous.player, op.previous.active)
     \/ /\ op.previous.player # NoPlayer
        /\ Refused(selected, op.previous.player)
        /\ UNCHANGED emulator
     \/ /\ op.previous.player = NoPlayer
        /\ ReleaseEmulator(selected)
  /\ Finish
  /\ UNCHANGED <<world, request, events>>

-----------------------------------------------------------------------------
(* Selecting a device, Local, Official and Stop all.                       *)

\* The runtime is kept even when the device's status fails.
SelectDevice(s) ==
  /\ up /\ op = NoOp /\ Connected(s)
  /\ managed' = Recorded(s)
  /\ selected' \in {s, selected}
  /\ UNCHANGED <<profiles, emulator, server, android, up, op, request, events>>

\* The server is started before Android is changed, and stopped again when
\* that fails; the game is force-stopped on the way.
Local ==
  /\ up /\ op = NoOp /\ Connected(selected)
  /\ managed' = Recorded(selected)
  /\ server' \in {server, server \cup {selected}}
  /\ android' \in {android, [android EXCEPT ![selected] = "idle"]}
  /\ UNCHANGED <<profiles, emulator, selected, up, op, request, events>>

StartOfficial ==
  /\ up /\ op = NoOp
  /\ managed' = Recorded(selected)
  /\ op' = [NoOp EXCEPT !.kind = "official", !.pc = "act"]
  /\ UNCHANGED <<profiles, emulator, server, android, selected, up, request, events>>

\* Restores Android and stops the server; an error after that leaves the
\* reservation to the status polls.
OfficialAct ==
  /\ At("act")
  /\ \/ /\ Connected(selected)
        /\ server' = server \ {selected}
        /\ android' = [android EXCEPT ![selected] = "idle"]
        /\ Goto("release")
     \/ /\ server' \in {server, server \ {selected}}
        /\ android' \in {android, [android EXCEPT ![selected] =
                               IF Connected(selected) THEN "idle" ELSE "offline"]}
        /\ Finish
  /\ UNCHANGED <<profiles, emulator, managed, selected, up, request, events>>

OfficialRelease ==
  /\ At("release") /\ op.kind = "official"
  /\ ReleaseEmulator(selected)
  /\ Finish
  /\ UNCHANGED <<world, request, events>>

StartStop ==
  /\ up /\ op = NoOp
  /\ managed' = Recorded(selected)
  /\ op' = [NoOp EXCEPT !.kind = "stop", !.pc = "stop", !.todo = managed']
  /\ UNCHANGED <<profiles, emulator, server, android, selected, up, request, events>>

\* The server is stopped even when Android cannot be restored now; a server
\* that does not stop in time is a failure.
StopDevice(s) ==
  /\ At("stop") /\ s \in op.todo
  /\ \/ server' = server \ {s} /\ op' = [op EXCEPT !.pc = "stopped", !.target = s]
     \/ /\ server' \in {server, server \ {s}}
        /\ op' = [op EXCEPT !.pc = "stopped", !.target = s, !.failed = TRUE]
  /\ android' \in {android, [android EXCEPT ![s] = IF Connected(s) THEN "idle"
                                                   ELSE "offline"]}
  /\ UNCHANGED <<profiles, emulator, managed, selected, up, request, events>>

\* A stopped server cannot serve an account, even if Android was offline.
StopRelease ==
  /\ At("stopped")
  /\ IF op.target \notin server THEN ReleaseEmulator(op.target) ELSE UNCHANGED emulator
  /\ op' = [op EXCEPT !.pc = "stop", !.todo = @ \ {op.target}, !.target = NoSerial]
  /\ UNCHANGED <<world, request, events>>

\* Fault: the errors of the devices are dropped.
StopFailed_Dropped == FALSE

StopFailed == op.failed

\* With failures the panel stays; otherwise a last Status ends Stop all.
StopDone ==
  /\ At("stop") /\ op.todo = {}
  /\ IF StopFailed THEN Finish ELSE Goto("inspect")
  /\ UNCHANGED <<emulator, world, request, events>>

\* POST players/<id>/active: Manager.SelectActive on the routed emulator.
SelectActive(s, p) ==
  /\ "select" \in Unserialized /\ up /\ s \in managed
  /\ SelectEmulatorPlayer(s, p, TRUE)
  /\ events < MaxEvents /\ events' = events + 1
  /\ UNCHANGED <<world, op, request>>

\* DELETE players/<id>: refused while an emulator holds the profile; a mere
\* selection of it is dropped by the foreign key.
DeletePlayer(p) ==
  /\ "delete" \in Unserialized /\ up /\ p \in profiles
  /\ \A s \in Serials : ~Holds(s, p)
  /\ profiles' = profiles \ {p}
  /\ emulator' = [s \in Serials |->
       [player |-> IF emulator[s].player = p THEN NoPlayer ELSE emulator[s].player,
        active |-> emulator[s].active, fresh |-> emulator[s].fresh]]
  /\ UNCHANGED <<managed, server, android, selected, up, op, request, events>>

-----------------------------------------------------------------------------
(* The emulators, the servers, time and the panel process.                 *)

Android(s, from, to) ==
  /\ android[s] = from
  /\ android' = [android EXCEPT ![s] = to]
  /\ UNCHANGED <<profiles, emulator, managed, server, selected, up, op, request, events>>

\* Started by Launch or by hand; stopped by hand or with its emulator.
StartGame(s) == Android(s, "idle", "playing")
StopGame(s) == Android(s, "playing", "idle")
Connect(s) == Android(s, "offline", "idle") \/ Android(s, "offline", "playing")
Disconnect(s) == Android(s, "idle", "offline") \/ Android(s, "playing", "offline")

ServerDies(s) ==
  /\ s \in server
  /\ server' = server \ {s}
  /\ UNCHANGED <<profiles, emulator, managed, android, selected, up, op, request, events>>

\* More than 15 seconds have passed since started_at.
GraceEnds(s) ==
  /\ emulator[s].fresh
  /\ emulator' = [emulator EXCEPT ![s] =
                    [player |-> @.player, active |-> @.active, fresh |-> FALSE]]
  /\ UNCHANGED <<world, op, request, events>>

\* The servers and the reservations outlive the panel.
PanelCrash ==
  /\ up /\ up' = FALSE
  /\ events < MaxEvents /\ events' = events + 1
  /\ op' = NoOp /\ request' = NoRequest
  /\ UNCHANGED <<profiles, emulator, managed, server, android, selected>>

PanelStart ==
  /\ ~up /\ up' = TRUE
  /\ UNCHANGED <<profiles, emulator, managed, server, android, selected, op, request, events>>

\* A step of the operation that holds the lock.
OpStep == \/ Inspect \/ ReadOwners \/ ReleaseStopped \/ StatusDone
          \/ ReserveAccount \/ Launch \/ RestorePrevious
          \/ OfficialAct \/ OfficialRelease
          \/ StopRelease \/ StopDone
          \/ \E s \in Serials : VisitOwner(s) \/ StopDevice(s)

Begin == \/ PollStatus \/ OpenPlayer \/ Local \/ StartOfficial \/ StartStop
         \/ \E s \in Serials : SelectDevice(s)

Environment(s) == \/ StartGame(s) \/ StopGame(s) \/ Connect(s) \/ Disconnect(s)
                  \/ ServerDies(s) \/ GraceEnds(s)

Next == \/ OpStep \/ Begin \/ RefuseOpen \/ StatusFails \/ PanelCrash \/ PanelStart
        \/ \E p \in Players : RequestOpen(p) \/ DeletePlayer(p)
        \/ \E s \in Serials, p \in Players : SelectActive(s, p)
        \/ \E s \in Serials : Environment(s)

Spec == Init /\ [][Next]_vars

\* The panel's page polls the status while the panel runs, ADB commands and
\* transactions return, time passes, and the panel is started again.
Fairness == /\ WF_vars(OpStep) /\ SF_vars(PollStatus) /\ WF_vars(PanelStart)
            /\ \A s \in Serials : WF_vars(GraceEnds(s))

FairSpec == Spec /\ Fairness

-----------------------------------------------------------------------------
(* Properties.                                                             *)

Reserved(s) == emulator[s].active

\* "An account can never be sent to a different device" (device_action.go:56):
\* a game is launched on the device the account was asked for, and only while
\* the store reserves that very account there, whatever was selected, released
\* or crashed since the request was routed.
OpenedAsRequested ==
  [][op.pc = "launch" /\ op'.pc # "launch" /\ up' =>
       op.asked = selected /\ Holds(selected, op.player)]_vars

\* "Allow Android to create the process after am start" (emulators.go:365): a
\* reservation younger than the grace is only taken back by a status poll when
\* its server is down.
GraceRespected ==
  [][\A s \in Serials : ReleaseStopped /\ op.target = s /\ emulator[s].fresh =>
       s \notin server]_vars

\* A Stop all that succeeds leaves no server and no reservation (the assertions
\* of emulators_test.go:130-140).
StopAllStopsAll ==
  [][op.kind = "stop" /\ up /\ ~up' /\ events' = events =>
       \A s \in managed : s \notin server /\ ~Reserved(s)]_vars

\* A failed launch never costs the account that was active: unless it was
\* deleted in between it is reserved again, although nobody held it meanwhile.
ActiveAccountRestored ==
  [][RestorePrevious /\ op.previous.active /\ op.previous.player \in profiles =>
       emulator'[selected].player = op.previous.player /\ Reserved(selected)']_vars

\* "The panel also releases it after detecting that its game or server has
\* stopped" (USAGE.md:109): no reservation outlives its server, or its game on
\* a connected emulator, for ever.
StoppedReleased ==
  \A s \in Serials :
    Reserved(s) /\ (s \notin server \/ android[s] = "idle")
      ~> ~Reserved(s) \/ (s \in server /\ android[s] # "idle")

\* The panel's operations, polls and crashes implement the lease; no game
\* request is modelled here, so nothing is played.
HolderOf(p) == IF \E s \in Serials : Holds(s, p)
               THEN CHOOSE s \in Serials : Holds(s, p)
               ELSE Nobody

Lease == INSTANCE ProfileLease WITH holder <- [p \in Players |-> HolderOf(p)],
                                    played <- <<>>
ImplementsLease == Lease!Spec
=============================================================================
