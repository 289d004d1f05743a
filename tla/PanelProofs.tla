----------------------------- MODULE PanelProofs -----------------------------
(***************************************************************************)
(* Proofs about Panel, for any number of emulators and profiles and any    *)
(* bound on the events.                                                    *)
(*                                                                         *)
(* That no profile is held twice is inductive with the types (StoreInv),   *)
(* whatever the administration does, and is all the refinement of          *)
(* ProfileLease needs.  The action properties also rest on what the        *)
(* running operation may rely on between two of its steps (OpInv): it      *)
(* holds the runner lock, so only the emulators, the servers, time and the *)
(* deletion of a profile can move under it.  A selection made over the     *)
(* administration's API takes no lock and would: those theorems assume     *)
(* that it is not used, as the panel's pages never use it.                 *)
(***************************************************************************)
EXTENDS Panel, TLAPS

\* No profile is reserved on two emulators.
Exclusive == \A s, t \in Serials : \A p \in Players : Holds(s, p) /\ Holds(t, p) => s = t

StoreInv == TypeOK /\ Exclusive

Stays(s) == s \notin server /\ ~emulator[s].active

\* An account is opened on the device it was asked for; while its game is
\* launched the store reserves it there.
Opening ==
  /\ op.kind = "open" => op.asked = selected /\ op.player \in Players
  /\ op.pc \in {"reserve", "launch", "restore"} => op.kind = "open"
  /\ op.pc = "launch" => Holds(selected, op.player)

\* The active account a failed launch gives back is held nowhere else.
Remembered ==
  op.pc \in {"reserve", "launch", "restore"} /\ op.previous.active =>
    \A t \in Serials \ {selected} :
      \A p \in Players : op.previous.player = p => ~Holds(t, p)

\* A reservation a status poll is about to take back is past its grace, or its
\* server is down.  Official releases on its own terms.
Releasing ==
  /\ op.pc = "release" /\ op.kind # "official" =>
       /\ op.target \in Serials
       /\ op.target \notin server \/ ~emulator[op.target].fresh
  /\ op.pc = "act" => op.kind = "official"

\* Stop all is done with every emulator that is not left to visit.
Stopping ==
  op.kind = "stop" =>
    /\ selected \in managed
    /\ op.todo \subseteq managed
    /\ \/ op.pc = "stop" /\ (~op.failed => \A s \in managed \ op.todo : Stays(s))
       \/ /\ op.pc = "stopped" /\ op.target \in op.todo
          /\ ~op.failed => /\ op.target \notin server
                           /\ \A s \in managed \ op.todo : Stays(s)
       \/ /\ op.pc \in {"inspect", "owners", "visit", "release"}
          /\ \A s \in managed : Stays(s)

OpInv == Opening /\ Remembered /\ Releasing /\ Stopping

IInv == StoreInv /\ OpInv

-----------------------------------------------------------------------------
(* The two transactions, and the types.                                    *)

OpType == [kind : {"none", "status", "open", "official", "stop"},
           pc : {"idle", "inspect", "owners", "visit", "release", "reserve",
                 "launch", "restore", "act", "stop", "stopped"},
           asked : Serials \cup {NoSerial},
           player : Players \cup {NoPlayer}, previous : Rows,
           served : BOOLEAN, stopped : BOOLEAN, todo : SUBSET Serials,
           target : Serials \cup {NoSerial}, failed : BOOLEAN]

LEMMA NoOpType == NoOp \in OpType /\ NoRow \in Rows
BY DEF NoOp, OpType, NoRow, Rows

\* The row a selection writes: the profile exists, and nobody else holds it.
LEMMA SelectWrites ==
  ASSUME StoreInv, NEW s \in Serials, NEW p, NEW a \in BOOLEAN,
         SelectEmulatorPlayer(s, p, a)
  PROVE  /\ p \in Players
         /\ emulator' \in [Serials -> Rows]
         /\ emulator'[s] = [player |-> p, active |-> a, fresh |-> a]
         /\ \A t \in Serials \ {s} : emulator'[t] = emulator[t] /\ ~Holds(t, p)
<1>1. p \in Players
  BY DEF SelectEmulatorPlayer, Refused, StoreInv, TypeOK
<1>2. [player |-> p, active |-> a, fresh |-> a] \in Rows
  BY <1>1 DEF Rows
<1> QED
  BY <1>1, <1>2 DEF SelectEmulatorPlayer, Refused, Reserve, StoreInv, TypeOK

LEMMA ReleaseWrites ==
  ASSUME emulator \in [Serials -> Rows], NEW s, ReleaseEmulator(s)
  PROVE  /\ emulator' \in [Serials -> Rows]
         /\ \A t \in Serials : /\ t # s => emulator'[t] = emulator[t]
                               /\ t = s => /\ emulator'[t].player = emulator[t].player
                                           /\ emulator'[t].active = FALSE
                                           /\ emulator'[t].fresh = FALSE
<1>1. \A t \in Serials : emulator[t] \in Rows /\ emulator[t].player \in Players \cup {NoPlayer}
  BY DEF Rows
<1>2. \A t \in Serials : [player |-> emulator[t].player,
                          active |-> FALSE, fresh |-> FALSE] \in Rows
  BY <1>1 DEF Rows
<1> QED
  BY <1>1, <1>2 DEF ReleaseEmulator

\* The rows after the deletion of a profile: a selection of it is dropped.
LEMMA DeleteWrites ==
  ASSUME emulator \in [Serials -> Rows], NEW p \in Players, DeletePlayer(p)
  PROVE  /\ emulator' \in [Serials -> Rows]
         /\ \A t \in Serials :
              /\ ~Holds(t, p)
              /\ emulator'[t].player = IF emulator[t].player = p THEN NoPlayer
                                       ELSE emulator[t].player
              /\ emulator'[t].active = emulator[t].active
              /\ emulator'[t].fresh = emulator[t].fresh
<1>1. \A t \in Serials : /\ emulator[t].player \in Players \cup {NoPlayer}
                         /\ emulator[t].active \in BOOLEAN
                         /\ emulator[t].fresh \in BOOLEAN
  BY DEF Rows
<1>2. \A t \in Serials :
        [player |-> IF emulator[t].player = p THEN NoPlayer ELSE emulator[t].player,
         active |-> emulator[t].active, fresh |-> emulator[t].fresh] \in Rows
  BY <1>1 DEF Rows
<1> QED
  BY <1>2 DEF DeletePlayer

\* Rows whose profiles are held by the same emulators, or by none.
LEMMA FewerHold ==
  ASSUME Exclusive, \A t \in Serials : \A q \in Players : Holds(t, q)' => Holds(t, q)
  PROVE  Exclusive'
BY DEF Exclusive

\* What can happen to the reservations in a step.
LEMMA RowSteps ==
  ASSUME StoreInv, [Next]_vars
  PROVE  \/ UNCHANGED emulator
         \/ \E s \in Serials : \E p \in Players : \E a \in BOOLEAN :
               SelectEmulatorPlayer(s, p, a)
         \/ \E s \in Serials \cup {NoSerial} : ReleaseEmulator(s)
         \/ \E p \in Players : DeletePlayer(p)
         \/ \E s \in Serials : GraceEnds(s)
<1>0. selected \in Serials /\ op \in OpType /\ emulator \in [Serials -> Rows]
  BY DEF StoreInv, TypeOK, OpType
<1>1. op.target \in Serials \cup {NoSerial} /\ op.previous.active \in BOOLEAN
  BY <1>0 DEF OpType, Rows
<1>2. CASE ReserveAccount
  BY <1>0, <1>2, SelectWrites DEF ReserveAccount
<1>3. CASE RestorePrevious
  BY <1>0, <1>1, <1>3, SelectWrites DEF RestorePrevious
<1>4. CASE ReleaseStopped
  BY <1>1, <1>4 DEF ReleaseStopped
<1>5. CASE OfficialRelease
  BY <1>0, <1>5 DEF OfficialRelease
<1>6. CASE StopRelease
  BY <1>1, <1>6 DEF StopRelease
<1>7. ASSUME NEW s \in Serials, NEW p \in Players, SelectActive(s, p)
      PROVE  \E a \in BOOLEAN : SelectEmulatorPlayer(s, p, a)
  BY <1>7 DEF SelectActive
<1>8. CASE UNCHANGED vars \/ StatusFails \/ PanelCrash \/ PanelStart \/ RefuseOpen
           \/ \E p \in Players : RequestOpen(p)
  BY <1>8 DEF vars, StatusFails, PanelCrash, PanelStart, RefuseOpen, RequestOpen
<1>9. CASE Begin
  BY <1>9 DEF Begin, PollStatus, OpenPlayer, Local, StartOfficial, StartStop, SelectDevice
<1>10. CASE Inspect \/ ReadOwners \/ StatusDone \/ Launch \/ OfficialAct \/ StopDone
            \/ \E s \in Serials : VisitOwner(s) \/ StopDevice(s)
  BY <1>10 DEF Inspect, ReadOwners, StatusDone, Launch, OfficialAct, StopDone, VisitOwner,
               StopDevice
<1>11. ASSUME NEW s \in Serials, Environment(s), ~GraceEnds(s)
       PROVE  UNCHANGED emulator
  BY <1>11 DEF Environment, StartGame, StopGame, Connect, Disconnect, Android, ServerDies
<1> QED
  BY <1>2, <1>3, <1>4, <1>5, <1>6, <1>7, <1>8, <1>9, <1>10, <1>11 DEF Next, OpStep

\* What each step does to the reservations.
LEMMA NextRows ==
  ASSUME StoreInv, [Next]_vars
  PROVE  /\ emulator' \in [Serials -> Rows]
         /\ Exclusive'
<1>0. emulator \in [Serials -> Rows] /\ Exclusive
  BY DEF StoreInv, TypeOK
<1>1. CASE UNCHANGED emulator
  BY <1>0, <1>1 DEF Exclusive, Holds
<1>2. ASSUME NEW s \in Serials, NEW p, NEW a \in BOOLEAN, SelectEmulatorPlayer(s, p, a)
      PROVE  emulator' \in [Serials -> Rows] /\ Exclusive'
  <2>1. /\ emulator' \in [Serials -> Rows]
        /\ emulator'[s] = [player |-> p, active |-> a, fresh |-> a]
        /\ \A t \in Serials \ {s} : emulator'[t] = emulator[t] /\ ~Holds(t, p)
    BY <1>2, SelectWrites
  <2>2. \A t \in Serials : \A q \in Players :
          Holds(t, q)' => IF t = s THEN q = p ELSE Holds(t, q) /\ q # p
    BY <2>1 DEF Holds
  <2> QED
    BY <1>0, <2>1, <2>2 DEF Exclusive
<1>3. ASSUME NEW s, ReleaseEmulator(s)
      PROVE  emulator' \in [Serials -> Rows] /\ Exclusive'
  <2>1. /\ emulator' \in [Serials -> Rows]
        /\ \A t \in Serials : /\ t # s => emulator'[t] = emulator[t]
                              /\ t = s => emulator'[t].active = FALSE
    BY <1>0, <1>3, ReleaseWrites
  <2>2. \A t \in Serials : \A q \in Players : Holds(t, q)' => Holds(t, q)
    BY <2>1 DEF Holds
  <2> QED
    BY <1>0, <2>1, <2>2, FewerHold
<1>4. ASSUME NEW p \in Players, DeletePlayer(p)
      PROVE  emulator' \in [Serials -> Rows] /\ Exclusive'
  <2>1. \A t \in Serials : \A q \in Players : Holds(t, q)' => Holds(t, q)
    BY <1>0, <1>4, DeleteWrites, PanelAssumption DEF Holds
  <2> QED
    BY <1>0, <1>4, <2>1, DeleteWrites, FewerHold
<1>5. ASSUME NEW s \in Serials, GraceEnds(s)
      PROVE  emulator' \in [Serials -> Rows] /\ Exclusive'
  <2>1. [player |-> emulator[s].player, active |-> emulator[s].active, fresh |-> FALSE] \in Rows
    BY <1>0 DEF Rows
  <2>2. emulator' \in [Serials -> Rows]
    BY <1>0, <1>5, <2>1 DEF GraceEnds
  <2>3. \A t \in Serials : \A q \in Players : Holds(t, q)' => Holds(t, q)
    BY <1>0, <1>5 DEF GraceEnds, Holds
  <2> QED
    BY <1>0, <2>2, <2>3, FewerHold
<1> QED
  BY <1>1, <1>2, <1>3, <1>4, <1>5, RowSteps

\* Every other variable keeps its type.
LEMMA NextOp ==
  ASSUME StoreInv, [Next]_vars
  PROVE  op' \in OpType
<1>0. op \in OpType /\ selected \in Serials /\ emulator \in [Serials -> Rows]
      /\ managed \subseteq Serials /\ request \in Requests \cup {NoRequest}
  BY DEF StoreInv, TypeOK, OpType
<1>1. CASE UNCHANGED op
  BY <1>0, <1>1
<1>2. CASE op' = NoOp
  BY <1>2, NoOpType
<1>3. CASE Inspect
  BY <1>0, <1>3 DEF Inspect, OpType
<1>4. CASE ReadOwners
  BY <1>0, <1>4 DEF ReadOwners, OpType, Owners
<1>5. CASE ReleaseStopped
  BY <1>0, <1>5 DEF ReleaseStopped, OpType
<1>6. CASE StatusDone
  <2>1. emulator[selected] \in Rows
    BY <1>0
  <2> QED
    BY <1>0, <1>6, <2>1, NoOpType DEF StatusDone, OpType, Finish
<1>7. CASE ReserveAccount \/ Launch \/ RestorePrevious \/ OfficialAct \/ OfficialRelease
  BY <1>0, <1>7, NoOpType
     DEF ReserveAccount, Launch, RestorePrevious, OfficialAct, OfficialRelease,
         Goto, Finish, OpType
<1>8. CASE StopRelease \/ StopDone
  <2>1. op.todo \ {op.target} \subseteq Serials
    BY <1>0 DEF OpType
  <2>2. CASE StopRelease
    BY <1>0, <2>1, <2>2 DEF StopRelease, OpType
  <2>3. CASE StopDone
    BY <1>0, <2>3, NoOpType DEF StopDone, Goto, Finish, OpType
  <2> QED
    BY <1>8, <2>2, <2>3
<1>9. ASSUME NEW s \in Serials, VisitOwner(s) \/ StopDevice(s)
      PROVE  op' \in OpType
  <2>1. op.todo \ {s} \subseteq Serials
    BY <1>0 DEF OpType
  <2>2. CASE VisitOwner(s)
    BY <1>0, <2>1, <2>2 DEF VisitOwner, OpType
  <2>3. CASE StopDevice(s)
    <3>1. \/ op' = [op EXCEPT !.pc = "stopped", !.target = s]
          \/ op' = [op EXCEPT !.pc = "stopped", !.target = s, !.failed = TRUE]
      BY <2>3 DEF StopDevice
    <3>2. [op EXCEPT !.pc = "stopped", !.target = s] \in OpType
      BY <1>0 DEF OpType
    <3>3. [op EXCEPT !.pc = "stopped", !.target = s, !.failed = TRUE] \in OpType
      BY <1>0 DEF OpType
    <3> QED
      BY <3>1, <3>2, <3>3
  <2> QED
    BY <1>9, <2>2, <2>3
<1>10. CASE Begin
  <2>1. CASE PollStatus \/ StartOfficial
    <3>1. \/ op' = [NoOp EXCEPT !.kind = "status", !.pc = "inspect"]
          \/ op' = [NoOp EXCEPT !.kind = "official", !.pc = "act"]
      BY <2>1 DEF PollStatus, StartOfficial
    <3>2. [NoOp EXCEPT !.kind = "status", !.pc = "inspect"] \in OpType
      BY NoOpType DEF OpType
    <3>3. [NoOp EXCEPT !.kind = "official", !.pc = "act"] \in OpType
      BY NoOpType DEF OpType
    <3> QED
      BY <3>1, <3>2, <3>3
  <2>4. CASE StartStop
    <3>1. managed' \subseteq Serials
      BY <1>0, <2>4 DEF StartStop, Recorded
    <3> QED
      BY <2>4, <3>1, NoOpType DEF StartStop, OpType, NoOp
  <2>2. CASE OpenPlayer
    <3>1. request.serial \in Serials /\ request.player \in Players
      BY <1>0, <2>2 DEF OpenPlayer, Requests
    <3> QED
      BY <2>2, <3>1, NoOpType DEF OpenPlayer, OpType, NoOp
  <2>3. CASE Local \/ \E s \in Serials : SelectDevice(s)
    BY <1>1, <2>3 DEF Local, SelectDevice
  <2> QED
    BY <1>10, <2>1, <2>2, <2>3, <2>4 DEF Begin
<1>11. CASE RefuseOpen \/ StatusFails \/ PanelCrash \/ PanelStart \/ UNCHANGED vars
  BY <1>1, <1>2, <1>11 DEF RefuseOpen, StatusFails, PanelCrash, PanelStart, Finish, vars
<1>12. ASSUME NEW p \in Players, RequestOpen(p) \/ DeletePlayer(p)
       PROVE  op' \in OpType
  BY <1>1, <1>12 DEF RequestOpen, DeletePlayer
<1>13. ASSUME NEW s \in Serials, NEW p \in Players, SelectActive(s, p)
       PROVE  op' \in OpType
  BY <1>1, <1>13 DEF SelectActive
<1>14. ASSUME NEW s \in Serials, Environment(s)
       PROVE  op' \in OpType
  BY <1>1, <1>14 DEF Environment, StartGame, StopGame, Connect, Disconnect, Android,
                     ServerDies, GraceEnds
<1> QED
  BY <1>3, <1>4, <1>5, <1>6, <1>7, <1>8, <1>9, <1>10, <1>11, <1>12, <1>13, <1>14
     DEF Next, OpStep

\* Every other variable keeps its type.
WorldType ==
  /\ profiles \subseteq Players
  /\ managed \subseteq Serials
  /\ server \subseteq managed
  /\ android \in [Serials -> {"offline", "idle", "playing"}]
  /\ selected \in Serials
  /\ up \in BOOLEAN
  /\ request \in Requests \cup {NoRequest}
  /\ events \in 0..MaxEvents

LEMMA OpStepWorld ==
  ASSUME WorldType, OpStep
  PROVE  WorldType'
<1> USE DEF WorldType
<1>1. CASE ReadOwners \/ ReleaseStopped \/ ReserveAccount \/ RestorePrevious
           \/ OfficialRelease \/ StopRelease \/ StopDone
           \/ \E s \in Serials : VisitOwner(s)
  BY <1>1 DEF ReadOwners, ReleaseStopped, ReserveAccount, RestorePrevious,
              OfficialRelease, StopRelease, StopDone, VisitOwner, world
<1>2. CASE Inspect
  BY <1>2 DEF Inspect, Recorded
<1>3. CASE StatusDone
  BY <1>3 DEF StatusDone
<1>4. CASE Launch
  <2>1. android' \in [Serials -> {"offline", "idle", "playing"}]
    BY <1>4 DEF Launch
  <2> QED
    BY <1>4, <2>1 DEF Launch
<1>5. CASE OfficialAct
  <2>1. android' \in [Serials -> {"offline", "idle", "playing"}]
    BY <1>5 DEF OfficialAct
  <2>2. server' \subseteq server
    BY <1>5 DEF OfficialAct
  <2> QED
    BY <1>5, <2>1, <2>2 DEF OfficialAct
<1>6. ASSUME NEW s \in Serials, StopDevice(s)
      PROVE  WorldType'
  <2>1. android' \in [Serials -> {"offline", "idle", "playing"}]
    BY <1>6 DEF StopDevice
  <2>2. server' \subseteq server
    BY <1>6 DEF StopDevice
  <2> QED
    BY <1>6, <2>1, <2>2 DEF StopDevice
<1> QED
  BY <1>1, <1>2, <1>3, <1>4, <1>5, <1>6 DEF OpStep

LEMMA BeginWorld ==
  ASSUME WorldType, Begin
  PROVE  WorldType'
<1> USE DEF WorldType
<1>1. CASE PollStatus
  BY <1>1 DEF PollStatus, world
<1>2. CASE OpenPlayer
  BY <1>2 DEF OpenPlayer, world
<1>3. CASE Local
  <2>1. android' \in [Serials -> {"offline", "idle", "playing"}]
    BY <1>3 DEF Local
  <2>2. managed' \subseteq Serials /\ server' \subseteq managed'
    BY <1>3 DEF Local, Recorded
  <2> QED
    BY <1>3, <2>1, <2>2 DEF Local
<1>4. CASE StartOfficial \/ StartStop
  BY <1>4 DEF StartOfficial, StartStop, Recorded
<1>5. ASSUME NEW s \in Serials, SelectDevice(s)
      PROVE  WorldType'
  BY <1>5 DEF SelectDevice, Recorded
<1> QED
  BY <1>1, <1>2, <1>3, <1>4, <1>5 DEF Begin

LEMMA NextWorld ==
  ASSUME WorldType, [Next]_vars
  PROVE  WorldType'
<1> USE DEF WorldType
<1>1. CASE OpStep \/ Begin
  BY <1>1, OpStepWorld, BeginWorld
<1>2. CASE RefuseOpen \/ PanelStart \/ UNCHANGED vars
  BY <1>2 DEF RefuseOpen, PanelStart, world, vars
<1>3. CASE StatusFails \/ PanelCrash
  <2>1. events' \in 0..MaxEvents
    BY <1>3, PanelAssumption DEF StatusFails, PanelCrash
  <2>2. UNCHANGED <<profiles, managed, server, android, selected>> /\ up' \in BOOLEAN
    BY <1>3 DEF StatusFails, PanelCrash, world
  <2>3. request' \in Requests \cup {NoRequest}
    BY <1>3 DEF StatusFails, PanelCrash
  <2> QED
    BY <2>1, <2>2, <2>3
<1>4. ASSUME NEW p \in Players, RequestOpen(p) \/ DeletePlayer(p)
      PROVE  WorldType'
  BY <1>4, PanelAssumption DEF RequestOpen, DeletePlayer, world, Requests
<1>5. ASSUME NEW s \in Serials, NEW p \in Players, SelectActive(s, p)
      PROVE  WorldType'
  BY <1>5, PanelAssumption DEF SelectActive, world
<1>6. ASSUME NEW s \in Serials, Environment(s)
      PROVE  WorldType'
  <2>1. CASE StartGame(s) \/ StopGame(s) \/ Connect(s) \/ Disconnect(s)
    BY <2>1 DEF StartGame, StopGame, Connect, Disconnect, Android
  <2>2. CASE ServerDies(s) \/ GraceEnds(s)
    BY <2>2 DEF ServerDies, GraceEnds, world
  <2> QED
    BY <1>6, <2>1, <2>2 DEF Environment
<1> QED
  BY <1>1, <1>2, <1>3, <1>4, <1>5, <1>6 DEF Next

LEMMA TypeParts ==
  TypeOK <=> WorldType /\ emulator \in [Serials -> Rows] /\ op \in OpType
BY DEF TypeOK, WorldType, OpType

LEMMA InitStore == Init => StoreInv
<1> SUFFICES ASSUME Init PROVE StoreInv
  OBVIOUS
<1>1. WorldType
  BY PanelAssumption DEF Init, WorldType
<1>2. emulator \in [Serials -> Rows] /\ op \in OpType
  BY NoOpType DEF Init
<1>3. Exclusive
  BY DEF Init, Exclusive, Holds, NoRow
<1> QED
  BY <1>1, <1>2, <1>3, TypeParts DEF StoreInv

LEMMA NextStore == StoreInv /\ [Next]_vars => StoreInv'
<1> SUFFICES ASSUME StoreInv, [Next]_vars PROVE StoreInv'
  OBVIOUS
<1>1. WorldType'
  BY TypeParts, NextWorld DEF StoreInv
<1>2. emulator' \in [Serials -> Rows] /\ Exclusive' /\ op' \in OpType
  BY NextRows, NextOp
<1>3. TypeOK'
  BY <1>1, <1>2 DEF TypeOK, WorldType, OpType
<1> QED
  BY <1>2, <1>3 DEF StoreInv

LEMMA StoreAlways == Spec => []StoreInv
BY InitStore, NextStore, PTL DEF Spec

\* Every variable keeps its type: a server only runs on an emulator that has a
\* runtime (m.devices), and an operation only ever acts on emulators and on
\* profiles it was given.
THEOREM TypeCorrect == Spec => []TypeOK
<1>1. StoreInv => TypeOK
  BY DEF StoreInv
<1> QED
  BY <1>1, StoreAlways, PTL

-----------------------------------------------------------------------------
(* What the running operation may rely on.                                 *)

LEMMA IdleOp ==
  ASSUME op' = NoOp
  PROVE  OpInv'
BY DEF OpInv, Opening, Remembered, Releasing, Stopping, NoOp

\* The reservations are where they were, at most their grace has ended.
SameHolders ==
  \A s \in Serials : /\ emulator'[s].active = emulator[s].active
                     /\ emulator'[s].fresh => emulator[s].fresh
                     /\ \A p \in Players : Holds(s, p)' <=> Holds(s, p)

\* Nothing the surroundings do while an operation stands between two steps
\* takes away what it relies on.
LEMMA OpUndisturbed ==
  ASSUME StoreInv, OpInv, SameHolders,
         op' = op, selected' = selected, managed' = managed, server' \subseteq server
  PROVE  OpInv'
<1>0. selected \in Serials /\ managed \subseteq Serials
  BY DEF StoreInv, TypeOK
<1>1. Opening'
  BY <1>0 DEF OpInv, Opening, SameHolders
<1>2. Remembered'
  BY DEF OpInv, Remembered, SameHolders
<1>3. Releasing'
  BY DEF OpInv, Releasing, SameHolders
<1>4. \A s \in managed : Stays(s) => Stays(s)'
  BY <1>0 DEF Stays, SameHolders
<1>5. Stopping'
  BY <1>4 DEF OpInv, Stopping
<1> QED
  BY <1>1, <1>2, <1>3, <1>5 DEF OpInv

LEMMA InitOp == Init => OpInv
BY DEF Init, OpInv, Opening, Remembered, Releasing, Stopping, NoOp

LEMMA BeginOp ==
  ASSUME StoreInv, Begin
  PROVE  OpInv'
<1>1. CASE Local \/ \E s \in Serials : SelectDevice(s)
  BY <1>1, IdleOp DEF Local, SelectDevice
<1>2. CASE PollStatus \/ StartOfficial
  <2>1. \/ op'.kind = "status" /\ op'.pc = "inspect"
        \/ op'.kind = "official" /\ op'.pc = "act"
    BY <1>2 DEF PollStatus, StartOfficial, NoOp
  <2> QED
    BY <2>1 DEF OpInv, Opening, Remembered, Releasing, Stopping
<1>3. CASE OpenPlayer
  <2>1. CASE op' = NoOp
    BY <2>1, IdleOp
  <2>2. CASE op' # NoOp
    <3>1. request.player \in Players
      BY <1>3 DEF OpenPlayer, StoreInv, TypeOK, Requests
    <3>2. /\ op'.kind = "open" /\ op'.pc = "inspect"
          /\ op'.asked = selected' /\ op'.player \in Players
      BY <1>3, <2>2, <3>1 DEF OpenPlayer, Routed, NoOp, world
    <3> QED
      BY <3>2 DEF OpInv, Opening, Remembered, Releasing, Stopping
  <2> QED
    BY <2>1, <2>2
<1>4. CASE StartStop
  <2>1. /\ op'.kind = "stop" /\ op'.pc = "stop" /\ op'.todo = managed'
        /\ selected' \in managed'
    BY <1>4 DEF StartStop, NoOp, Recorded
  <2> QED
    BY <2>1 DEF OpInv, Opening, Remembered, Releasing, Stopping
<1> QED
  BY <1>1, <1>2, <1>3, <1>4 DEF Begin

\* A status, on its own or inside another operation, up to its end.
LEMMA StatusOp ==
  ASSUME StoreInv, OpInv, Inspect \/ ReadOwners
  PROVE  OpInv'
<1>0. op \in OpType /\ selected \in Serials
  BY TypeParts DEF StoreInv, TypeOK
<1>1. /\ op.pc \in {"inspect", "owners"} /\ op'.pc \in {"owners", "visit"}
      /\ op'.kind = op.kind /\ op'.asked = op.asked /\ op'.player = op.player
      /\ emulator' = emulator /\ server' = server /\ selected' = selected
      /\ managed' = managed \/ managed' = Recorded(selected)
  BY <1>0 DEF Inspect, ReadOwners, At, OpType, world
<1>2. op.kind = "stop" => managed' = managed
  BY <1>1 DEF OpInv, Stopping, Recorded
<1>3. Opening' /\ Remembered' /\ Releasing'
  BY <1>1 DEF OpInv, Opening, Remembered, Releasing
<1>4. ASSUME op'.kind = "stop"
      PROVE  op'.todo \subseteq managed'
  <2>1. CASE Inspect
    BY <1>0, <1>1, <1>2, <1>4, <2>1 DEF Inspect, OpType, OpInv, Stopping
  <2>2. CASE ReadOwners
    BY <1>0, <1>1, <1>2, <1>4, <2>2 DEF ReadOwners, OpType, Owners
  <2> QED
    BY <2>1, <2>2
<1>5. Stopping'
  BY <1>1, <1>2, <1>4 DEF OpInv, Stopping, Stays
<1> QED
  BY <1>3, <1>5 DEF OpInv

LEMMA VisitOp ==
  ASSUME StoreInv, OpInv, NEW s \in Serials, VisitOwner(s)
  PROVE  OpInv'
<1>0. op \in OpType
  BY TypeParts DEF StoreInv
<1>1. /\ op.pc = "visit" /\ op'.kind = op.kind /\ op'.asked = op.asked
      /\ op'.player = op.player /\ op'.todo \subseteq op.todo
      /\ \/ op'.pc = "visit"
         \/ op'.pc = "release" /\ op'.target = s /\ Stopped(s)
      /\ emulator' = emulator /\ server' = server /\ selected' = selected
      /\ managed' = managed
  BY <1>0 DEF VisitOwner, At, OpType, world
<1>2. Opening' /\ Remembered'
  BY <1>1 DEF OpInv, Opening, Remembered
<1>3. Releasing'
  BY <1>1 DEF Releasing, Stopped
<1>4. Stopping'
  BY <1>1 DEF OpInv, Stopping, Stays
<1> QED
  BY <1>2, <1>3, <1>4 DEF OpInv

LEMMA ReleaseStoppedOp ==
  ASSUME StoreInv, OpInv, ReleaseStopped
  PROVE  OpInv'
<1>0. op \in OpType /\ managed \subseteq Serials /\ emulator \in [Serials -> Rows]
  BY TypeParts DEF StoreInv, TypeOK
<1>1. /\ op.pc = "release" /\ op'.pc = "visit" /\ op'.kind = op.kind
      /\ op'.asked = op.asked /\ op'.player = op.player /\ op'.todo = op.todo
      /\ server' = server /\ selected' = selected /\ managed' = managed
  BY <1>0 DEF ReleaseStopped, At, OpType, world
<1>2. \A s \in Serials : emulator'[s].active => emulator[s].active
  <2>1. ReleaseEmulator(op.target)
    BY DEF ReleaseStopped
  <2>2. \A s \in Serials :
          /\ s # op.target => emulator'[s] = emulator[s]
          /\ s = op.target => emulator'[s].active = FALSE
    BY <1>0, <2>1, ReleaseWrites
  <2> QED
    BY <2>2
<1>3. Opening' /\ Remembered' /\ Releasing'
  BY <1>1 DEF OpInv, Opening, Remembered, Releasing
<1>4. Stopping'
  BY <1>0, <1>1, <1>2 DEF OpInv, Stopping, Stays
<1> QED
  BY <1>3, <1>4 DEF OpInv

\* The row an open goes on with is the selected emulator's: no other emulator
\* holds its profile.
LEMMA StatusDoneOp ==
  ASSUME StoreInv, OpInv, StatusDone
  PROVE  OpInv'
<1>1. CASE op' = NoOp
  BY <1>1, IdleOp
<1>2. CASE op' # NoOp
  <2>0. op \in OpType /\ selected \in Serials
    BY TypeParts DEF StoreInv, TypeOK
  <2>1. /\ op.kind = "open" /\ op'.kind = "open" /\ op'.pc = "reserve"
        /\ op'.asked = op.asked /\ op'.player = op.player
        /\ op'.previous = emulator[selected]
        /\ emulator' = emulator /\ selected' = selected
    BY <1>2, <2>0 DEF StatusDone, Finish, OpType
  <2>2. Opening'
    BY <2>1 DEF OpInv, Opening
  <2>3. Remembered'
    BY <2>0, <2>1 DEF Remembered, StoreInv, Exclusive, Holds
  <2> QED
    BY <2>1, <2>2, <2>3 DEF OpInv, Releasing, Stopping
<1> QED
  BY <1>1, <1>2

LEMMA OpenOp ==
  ASSUME StoreInv, OpInv, ReserveAccount \/ Launch \/ RestorePrevious
  PROVE  OpInv'
<1>0. op \in OpType /\ selected \in Serials
  BY TypeParts DEF StoreInv, TypeOK
<1>1. CASE op' = NoOp
  BY <1>1, IdleOp
<1>2. CASE ReserveAccount /\ op' # NoOp
  <2>1. /\ op.pc = "reserve" /\ op'.pc = "launch" /\ op'.kind = op.kind
        /\ op'.asked = op.asked /\ op'.player = op.player
        /\ op'.previous = op.previous /\ selected' = selected
        /\ SelectEmulatorPlayer(selected, op.player, TRUE)
    BY <1>0, <1>2 DEF ReserveAccount, Goto, Finish, At, OpType, world
  <2>2. /\ op.player \in Players
        /\ emulator'[selected].player = op.player /\ emulator'[selected].active
        /\ \A t \in Serials \ {selected} : emulator'[t] = emulator[t]
    <3>1. PICK a \in BOOLEAN : a = TRUE /\ SelectEmulatorPlayer(selected, op.player, a)
      BY <2>1
    <3>2. /\ op.player \in Players
          /\ emulator'[selected] = [player |-> op.player, active |-> a, fresh |-> a]
          /\ \A t \in Serials \ {selected} : emulator'[t] = emulator[t]
      BY <1>0, <3>1, SelectWrites
    <3> QED
      BY <3>1, <3>2
  <2>3. op.kind = "open"
    BY <2>1 DEF OpInv, Opening
  <2>4. Opening'
    BY <2>1, <2>2 DEF OpInv, Opening, Holds
  <2>5. Remembered'
    BY <2>1, <2>2 DEF OpInv, Remembered, Holds
  <2> QED
    BY <2>1, <2>3, <2>4, <2>5 DEF OpInv, Releasing, Stopping
<1>3. CASE Launch /\ op' # NoOp
  <2>1. /\ op.pc = "launch" /\ op'.pc = "restore" /\ op'.kind = op.kind
        /\ op'.asked = op.asked /\ op'.player = op.player
        /\ op'.previous = op.previous /\ selected' = selected /\ emulator' = emulator
    BY <1>0, <1>3 DEF Launch, Goto, Finish, At, OpType
  <2>2. op.kind = "open"
    BY <2>1 DEF OpInv, Opening
  <2>3. Opening' /\ Remembered'
    BY <2>1 DEF OpInv, Opening, Remembered, Holds
  <2> QED
    BY <2>1, <2>2, <2>3 DEF OpInv, Releasing, Stopping
<1> QED
  BY <1>1, <1>2, <1>3 DEF RestorePrevious, Finish

LEMMA OfficialOp ==
  ASSUME StoreInv, OpInv, OfficialAct \/ OfficialRelease
  PROVE  OpInv'
<1>0. op \in OpType
  BY TypeParts DEF StoreInv
<1>1. CASE op' = NoOp
  BY <1>1, IdleOp
<1>2. CASE op' # NoOp
  <2>1. op.pc = "act" /\ op'.pc = "release" /\ op'.kind = op.kind
    BY <1>0, <1>2 DEF OfficialAct, OfficialRelease, Goto, Finish, At, OpType
  <2>2. op.kind = "official"
    BY <2>1 DEF OpInv, Releasing
  <2> QED
    BY <2>1, <2>2 DEF OpInv, Opening, Remembered, Releasing, Stopping
<1> QED
  BY <1>1, <1>2

\* A stopped emulator: its server is gone, or Stop all has failed.
LEMMA StopDeviceOp ==
  ASSUME StoreInv, OpInv, NEW s \in Serials, StopDevice(s)
  PROVE  OpInv'
<1>0. op \in OpType
  BY TypeParts DEF StoreInv
<1>1. /\ op.pc = "stop" /\ s \in op.todo /\ op'.pc = "stopped" /\ op'.kind = op.kind
      /\ op'.asked = op.asked /\ op'.player = op.player /\ op'.todo = op.todo
      /\ op'.target = s /\ server' \subseteq server
      /\ op'.failed \/ (op'.failed = op.failed /\ s \notin server')
      /\ emulator' = emulator /\ selected' = selected /\ managed' = managed
  <2>1. /\ op.pc = "stop" /\ s \in op.todo /\ server' \subseteq server
        /\ emulator' = emulator /\ selected' = selected /\ managed' = managed
    BY DEF StopDevice, At
  <2>2. CASE op' = [op EXCEPT !.pc = "stopped", !.target = s] /\ server' = server \ {s}
    BY <1>0, <2>1, <2>2 DEF OpType
  <2>3. CASE op' = [op EXCEPT !.pc = "stopped", !.target = s, !.failed = TRUE]
    <3>1. /\ op'.pc = "stopped" /\ op'.kind = op.kind /\ op'.asked = op.asked
          /\ op'.player = op.player /\ op'.todo = op.todo /\ op'.target = s
      BY <1>0, <2>3 DEF OpType
    <3>2. op'.failed
      BY <1>0, <2>3 DEF OpType
    <3> QED
      BY <2>1, <3>1, <3>2
  <2> QED
    BY <2>2, <2>3 DEF StopDevice
<1>2. Opening' /\ Remembered' /\ Releasing'
  BY <1>1 DEF OpInv, Opening, Remembered, Releasing
<1>3. Stopping'
  BY <1>1 DEF OpInv, Stopping, Stays
<1> QED
  BY <1>2, <1>3 DEF OpInv

LEMMA StopReleaseOp ==
  ASSUME StoreInv, OpInv, StopRelease
  PROVE  OpInv'
<1>0. op \in OpType /\ managed \subseteq Serials /\ emulator \in [Serials -> Rows]
  BY TypeParts DEF StoreInv, TypeOK
<1>1. /\ op.pc = "stopped" /\ op'.pc = "stop" /\ op'.kind = op.kind
      /\ op'.asked = op.asked /\ op'.player = op.player
      /\ op'.todo = op.todo \ {op.target} /\ op'.failed = op.failed
      /\ server' = server /\ selected' = selected /\ managed' = managed
  BY <1>0 DEF StopRelease, At, OpType, world
<1>2. /\ \A s \in Serials : emulator'[s].active => emulator[s].active
      /\ op.target \in Serials \ server => ~emulator'[op.target].active
  <2>1. CASE op.target \notin server
    <3>1. ReleaseEmulator(op.target)
      BY <2>1 DEF StopRelease
    <3>2. \A s \in Serials :
            /\ s # op.target => emulator'[s] = emulator[s]
            /\ s = op.target => emulator'[s].active = FALSE
      BY <1>0, <3>1, ReleaseWrites
    <3> QED
      BY <3>2
  <2>2. CASE op.target \in server
    BY <2>2 DEF StopRelease
  <2> QED
    BY <2>1, <2>2
<1>3. Opening' /\ Remembered' /\ Releasing'
  BY <1>1 DEF OpInv, Opening, Remembered, Releasing
<1>4. ASSUME op.kind = "stop"
      PROVE  /\ op.target \in op.todo /\ op.todo \subseteq managed
             /\ selected \in managed
             /\ ~op.failed => /\ op.target \notin server
                              /\ \A s \in managed \ op.todo : Stays(s)
  BY <1>1, <1>4 DEF OpInv, Stopping
<1>5. ASSUME op.kind = "stop", ~op.failed, NEW s \in managed \ op'.todo
      PROVE  Stays(s)'
  <2>1. CASE s = op.target
    BY <1>0, <1>1, <1>2, <1>4, <1>5, <2>1 DEF Stays
  <2>2. CASE s # op.target
    BY <1>0, <1>1, <1>2, <1>4, <1>5, <2>2 DEF Stays
  <2> QED
    BY <2>1, <2>2
<1>6. Stopping'
  <2> SUFFICES ASSUME op.kind = "stop" PROVE Stopping'
    BY <1>1 DEF Stopping
  <2>1. ~op.failed => \A s \in managed \ op'.todo : Stays(s)'
    BY <1>5
  <2> QED
    BY <1>1, <1>4, <2>1 DEF Stopping
<1> QED
  BY <1>3, <1>6 DEF OpInv

LEMMA StopDoneOp ==
  ASSUME StoreInv, OpInv, StopDone
  PROVE  OpInv'
<1>0. op \in OpType
  BY TypeParts DEF StoreInv
<1>1. CASE op' = NoOp
  BY <1>1, IdleOp
<1>2. CASE op' # NoOp
  <2>1. /\ op.pc = "stop" /\ op.todo = {} /\ ~op.failed
        /\ op'.pc = "inspect" /\ op'.kind = op.kind
        /\ op'.asked = op.asked /\ op'.player = op.player /\ op'.todo = op.todo
        /\ UNCHANGED <<server, selected, managed, emulator>>
    BY <1>0, <1>2 DEF StopDone, StopFailed, At, Goto, Finish, OpType, world
  <2>2. Opening' /\ Remembered' /\ Releasing'
    BY <2>1 DEF OpInv, Opening, Remembered, Releasing
  <2>3. Stopping'
    BY <2>1 DEF OpInv, Stopping, Stays
  <2> QED
    BY <2>2, <2>3 DEF OpInv
<1> QED
  BY <1>1, <1>2

LEMMA NextOpInv ==
  ASSUME "select" \notin Unserialized, StoreInv, OpInv, [Next]_vars
  PROVE  OpInv'
<1>0. op \in OpType /\ emulator \in [Serials -> Rows]
  BY TypeParts DEF StoreInv
<1>1. CASE OpStep
  BY <1>1, StatusOp, VisitOp, ReleaseStoppedOp, StatusDoneOp, OpenOp, OfficialOp,
     StopDeviceOp, StopReleaseOp, StopDoneOp DEF OpStep
<1>2. CASE Begin
  BY <1>2, BeginOp
<1>3. CASE StatusFails \/ PanelCrash
  BY <1>3, IdleOp DEF StatusFails, PanelCrash, Finish
<1>4. CASE RefuseOpen \/ PanelStart \/ UNCHANGED vars \/ \E p \in Players : RequestOpen(p)
  <2>1. UNCHANGED <<op, selected, managed, server, emulator>>
    BY <1>4 DEF RefuseOpen, PanelStart, RequestOpen, world, vars
  <2>2. SameHolders
    BY <2>1 DEF SameHolders, Holds
  <2> QED
    BY <2>1, <2>2, OpUndisturbed
<1>5. ASSUME NEW p \in Players, DeletePlayer(p)
      PROVE  OpInv'
  <2>1. \A t \in Serials :
          /\ ~Holds(t, p)
          /\ emulator'[t].player = IF emulator[t].player = p THEN NoPlayer
                                   ELSE emulator[t].player
          /\ emulator'[t].active = emulator[t].active
          /\ emulator'[t].fresh = emulator[t].fresh
    BY <1>0, <1>5, DeleteWrites
  <2>2. SameHolders
    BY <2>1, PanelAssumption DEF SameHolders, Holds
  <2> QED
    BY <1>5, <2>2, OpUndisturbed DEF DeletePlayer
<1>6. ASSUME NEW s \in Serials, NEW p \in Players, SelectActive(s, p)
      PROVE  OpInv'
  BY <1>6 DEF SelectActive
<1>7. ASSUME NEW s \in Serials, Environment(s)
      PROVE  OpInv'
  <2>1. UNCHANGED <<op, selected, managed>> /\ server' \subseteq server
    BY <1>7 DEF Environment, StartGame, StopGame, Connect, Disconnect, Android,
                ServerDies, GraceEnds, world
  <2>2. CASE ~GraceEnds(s)
    <3>1. emulator' = emulator
      BY <1>7, <2>2 DEF Environment, StartGame, StopGame, Connect, Disconnect, Android,
                        ServerDies
    <3> QED
      BY <2>1, <3>1, OpUndisturbed DEF SameHolders, Holds
  <2>3. CASE GraceEnds(s)
    <3>1. SameHolders
      BY <1>0, <2>3 DEF GraceEnds, SameHolders, Holds
    <3> QED
      BY <2>1, <3>1, OpUndisturbed
  <2> QED
    BY <2>2, <2>3
<1> QED
  BY <1>1, <1>2, <1>3, <1>4, <1>5, <1>6, <1>7 DEF Next

LEMMA OpAlways ==
  ASSUME "select" \notin Unserialized
  PROVE  Spec => []IInv
<1>1. Init => IInv
  BY InitStore, InitOp DEF IInv
<1>2. IInv /\ [Next]_vars => IInv'
  BY NextStore, NextOpInv DEF IInv
<1> QED
  BY <1>1, <1>2, PTL DEF Spec

-----------------------------------------------------------------------------
(* The action properties.                                                  *)

\* "An account can never be sent to a different device" (device_action.go:56):
\* OpenPlayer launches the game on the device it was asked for, and the store
\* reserves that very account there while it does, whatever was selected,
\* released, polled or crashed since the request was routed.
THEOREM AccountsOpenedAsRequested ==
  ASSUME "select" \notin Unserialized
  PROVE  Spec => OpenedAsRequested
<1>1. IInv => (op.pc = "launch" => op.asked = selected /\ Holds(selected, op.player))
  BY DEF IInv, OpInv, Opening
<1>2. IInv => [op.pc = "launch" /\ op'.pc # "launch" /\ up' =>
                 op.asked = selected /\ Holds(selected, op.player)]_vars
  BY <1>1
<1> QED
  BY <1>2, OpAlways, PTL DEF OpenedAsRequested

\* "Allow Android to create the process after am start" (emulators.go:365): a
\* status poll takes back a reservation younger than the grace only when its
\* server is down, although it decided so in an earlier step.
THEOREM GraceAlwaysRespected ==
  ASSUME "select" \notin Unserialized
  PROVE  Spec => GraceRespected
<1>1. IInv => [\A s \in Serials : ReleaseStopped /\ op.target = s /\ emulator[s].fresh =>
                 s \notin server]_vars
  BY DEF IInv, OpInv, Releasing, ReleaseStopped, At
<1> QED
  BY <1>1, OpAlways, PTL DEF GraceRespected

\* Only a Stop all that visited everything ends the panel by itself.
LEMMA PanelEnds ==
  ASSUME StoreInv, [Next]_vars, up, ~up', events' = events
  PROVE  op.pc = "visit"
<1>0. events \in Nat
  BY DEF StoreInv, TypeOK
<1>1. CASE OpStep
  <2>1. CASE StatusDone
    BY <2>1 DEF StatusDone, At
  <2>2. CASE ~StatusDone
    <3>1. up' = up
      BY <1>1, <2>2
         DEF OpStep, Inspect, ReadOwners, ReleaseStopped, ReserveAccount, Launch,
             RestorePrevious, OfficialAct, OfficialRelease, StopRelease, StopDone,
             VisitOwner, StopDevice, world
    <3> QED
      BY <3>1
  <2> QED
    BY <2>1, <2>2
<1>2. CASE Begin
  BY <1>2 DEF Begin, PollStatus, OpenPlayer, Local, StartOfficial, StartStop, SelectDevice,
              world
<1>3. CASE PanelCrash
  BY <1>0, <1>3 DEF PanelCrash
<1>4. CASE RefuseOpen \/ StatusFails \/ PanelStart \/ UNCHANGED vars
           \/ (\E p \in Players : RequestOpen(p) \/ DeletePlayer(p))
           \/ (\E s \in Serials, p \in Players : SelectActive(s, p))
  BY <1>4 DEF RefuseOpen, StatusFails, PanelStart, RequestOpen, DeletePlayer, SelectActive,
              world, vars
<1>5. ASSUME NEW s \in Serials, Environment(s)
      PROVE  up' = up
  BY <1>5 DEF Environment, StartGame, StopGame, Connect, Disconnect, Android,
              ServerDies, GraceEnds, world
<1> QED
  BY <1>1, <1>2, <1>3, <1>4, <1>5 DEF Next

\* When Stop all succeeds and closes the panel, no emulator the panel ever gave
\* a runtime has a server or a reservation (emulators_test.go:130-140).
THEOREM StopAllComplete ==
  ASSUME "select" \notin Unserialized
  PROVE  Spec => StopAllStopsAll
<1>1. IInv => (op.kind = "stop" /\ op.pc = "visit" => \A s \in managed : Stays(s))
  BY DEF IInv, OpInv, Stopping
<1>2. IInv /\ [Next]_vars =>
        [op.kind = "stop" /\ up /\ ~up' /\ events' = events =>
           \A s \in managed : s \notin server /\ ~Reserved(s)]_vars
  BY <1>1, PanelEnds DEF IInv, Stays, Reserved
<1> QED
  BY <1>2, OpAlways, PTL DEF StopAllStopsAll, Spec

\* A launch that fails gives the account that was active back: OpenPlayer gave
\* it up without anybody taking it, so selecting it again is never refused
\* while the profile exists.
THEOREM ActiveAccountsRestored ==
  ASSUME "select" \notin Unserialized
  PROVE  Spec => ActiveAccountRestored
<1>1. ASSUME IInv, RestorePrevious, op.previous.active, op.previous.player \in profiles
      PROVE  emulator'[selected].player = op.previous.player /\ Reserved(selected)'
  <2>0. /\ selected \in Serials /\ StoreInv /\ selected' = selected
        /\ profiles \subseteq Players /\ op.pc = "restore"
        /\ op.previous.active \in BOOLEAN
    BY <1>1 DEF IInv, StoreInv, TypeOK, Rows, RestorePrevious, At, world
  <2>1. op.previous.player # NoPlayer
    BY <1>1, <2>0, PanelAssumption
  <2>2. ~Refused(selected, op.previous.player)
    BY <1>1, <2>0 DEF IInv, OpInv, Remembered, Refused
  <2>3. SelectEmulatorPlayer(selected, op.previous.player, op.previous.active)
    BY <1>1, <2>1, <2>2 DEF RestorePrevious
  <2>4. emulator'[selected] = [player |-> op.previous.player, active |-> op.previous.active,
                               fresh |-> op.previous.active]
    BY <2>0, <2>3, SelectWrites
  <2> QED
    BY <1>1, <2>0, <2>4 DEF Reserved
<1>2. IInv => [RestorePrevious /\ op.previous.active /\ op.previous.player \in profiles =>
                 emulator'[selected].player = op.previous.player /\ Reserved(selected)']_vars
  BY <1>1
<1> QED
  BY <1>2, OpAlways, PTL DEF ActiveAccountRestored

-----------------------------------------------------------------------------
(* The panel implements ProfileLease.                                      *)

\* The one emulator that holds a profile is its holder in the lease.
LEMMA HolderIs ==
  ASSUME StoreInv, NEW s \in Serials, NEW p \in Players
  PROVE  Holds(s, p) <=> HolderOf(p) = s
BY PanelAssumption DEF StoreInv, Exclusive, HolderOf

LEMMA HolderRange ==
  ASSUME NEW p \in Players PROVE HolderOf(p) \in Serials \cup {Nobody}
BY DEF HolderOf

LEMMA HolderFollows ==
  ASSUME StoreInv, StoreInv', NEW p \in Players, NEW f \in Serials \cup {Nobody},
         \A t \in Serials : Holds(t, p)' <=> f = t
  PROVE  HolderOf(p)' = f
<1>1. HolderOf(p)' \in Serials \cup {Nobody}
  BY DEF HolderOf
<1>2. \A t \in Serials : Holds(t, p)' <=> HolderOf(p)' = t
  BY PanelAssumption DEF StoreInv, Exclusive, HolderOf
<1> QED
  BY <1>1, <1>2, PanelAssumption

LEMMA InitMaps == Init => Lease!Init
<1> SUFFICES ASSUME Init PROVE Lease!Init
  OBVIOUS
<1>1. \A p \in Players : HolderOf(p) = Nobody
  BY DEF Init, NoRow, Holds, HolderOf
<1> QED
  BY <1>1 DEF Lease!Init

\* A step after which the same emulators hold the same profiles.
LEMMA Stutters ==
  ASSUME StoreInv, StoreInv',
         \A t \in Serials : \A q \in Players : Holds(t, q)' <=> Holds(t, q)
  PROVE  UNCHANGED Lease!leaseVars
<1>1. \A q \in Players : HolderOf(q)' = HolderOf(q)
  BY HolderIs, HolderRange, HolderFollows
<1> QED
  BY <1>1 DEF Lease!leaseVars

\* A step after which s holds nothing, and nothing else changed hands.
LEMMA ReleaseMaps ==
  ASSUME StoreInv, StoreInv', NEW s \in Serials,
         \A t \in Serials : \A q \in Players : Holds(t, q)' <=> t # s /\ Holds(t, q)
  PROVE  Lease!Next
<1>1. \A q \in Players : HolderOf(q)' = IF HolderOf(q) = s THEN Nobody ELSE HolderOf(q)
  <2> TAKE q \in Players
  <2> DEFINE f == IF HolderOf(q) = s THEN Nobody ELSE HolderOf(q)
  <2>1. f \in Serials \cup {Nobody}
    BY HolderRange
  <2>2. \A t \in Serials : Holds(t, q)' <=> f = t
    BY HolderIs, PanelAssumption
  <2> QED
    BY <2>1, <2>2, HolderFollows
<1>2. Lease!Release(s)
  BY <1>1 DEF Lease!Release
<1> QED
  BY <1>2 DEF Lease!Next

\* A step after which s holds p, which no other emulator held, and only p.
LEMMA AcquireMaps ==
  ASSUME StoreInv, StoreInv', NEW s \in Serials, NEW p \in Players,
         \A t \in Serials \ {s} : ~Holds(t, p),
         \A t \in Serials : \A q \in Players :
            Holds(t, q)' <=> IF t = s THEN q = p ELSE Holds(t, q)
  PROVE  Lease!Next
<1>1. HolderOf(p) \in {Nobody, s}
  BY HolderIs, HolderRange
<1>2. \A q \in Players : HolderOf(q)' = IF q = p THEN s
                                        ELSE IF HolderOf(q) = s THEN Nobody
                                        ELSE HolderOf(q)
  <2> TAKE q \in Players
  <2> DEFINE f == IF q = p THEN s ELSE IF HolderOf(q) = s THEN Nobody ELSE HolderOf(q)
  <2>1. f \in Serials \cup {Nobody}
    BY HolderRange
  <2>2. \A t \in Serials : Holds(t, q)' <=> f = t
    BY HolderIs, PanelAssumption
  <2> QED
    BY <2>1, <2>2, HolderFollows
<1>3. Lease!Acquire(s, p)
  BY <1>1, <1>2 DEF Lease!Acquire
<1> QED
  BY <1>3 DEF Lease!Next

LEMMA StepMaps == StoreInv /\ StoreInv' /\ [Next]_vars => [Lease!Next]_Lease!leaseVars
<1> SUFFICES ASSUME StoreInv, StoreInv', [Next]_vars
             PROVE  Lease!Next \/ UNCHANGED Lease!leaseVars
  OBVIOUS
<1>0. emulator \in [Serials -> Rows]
  BY TypeParts DEF StoreInv
<1>1. CASE UNCHANGED emulator
  BY <1>1, Stutters DEF Holds
<1>2. ASSUME NEW s \in Serials, NEW p \in Players, NEW a \in BOOLEAN,
             SelectEmulatorPlayer(s, p, a)
      PROVE  Lease!Next
  <2>1. /\ emulator'[s] = [player |-> p, active |-> a, fresh |-> a]
        /\ \A t \in Serials \ {s} : emulator'[t] = emulator[t] /\ ~Holds(t, p)
    BY <1>2, SelectWrites
  <2>2. CASE a = TRUE
    <3>1. \A t \in Serials : \A q \in Players :
            Holds(t, q)' <=> IF t = s THEN q = p ELSE Holds(t, q)
      BY <2>1, <2>2 DEF Holds
    <3> QED
      BY <2>1, <3>1, AcquireMaps
  <2>3. CASE a = FALSE
    <3>1. \A t \in Serials : \A q \in Players : Holds(t, q)' <=> t # s /\ Holds(t, q)
      BY <2>1, <2>3 DEF Holds
    <3> QED
      BY <3>1, ReleaseMaps
  <2> QED
    BY <2>2, <2>3
<1>3. ASSUME NEW s \in Serials, ReleaseEmulator(s)
      PROVE  Lease!Next
  <2>1. \A t \in Serials : /\ t # s => emulator'[t] = emulator[t]
                           /\ t = s => emulator'[t].active = FALSE
    BY <1>0, <1>3, ReleaseWrites
  <2>2. \A t \in Serials : \A q \in Players : Holds(t, q)' <=> t # s /\ Holds(t, q)
    BY <2>1 DEF Holds
  <2> QED
    BY <2>2, ReleaseMaps
<1>4. CASE ReleaseEmulator(NoSerial)
  <2>1. \A t \in Serials : emulator'[t] = emulator[t]
    BY <1>0, <1>4, ReleaseWrites, PanelAssumption
  <2> QED
    BY <2>1, Stutters DEF Holds
<1>5. ASSUME NEW p \in Players, DeletePlayer(p)
      PROVE  UNCHANGED Lease!leaseVars
  <2>1. \A t \in Serials :
          /\ ~Holds(t, p)
          /\ emulator'[t].player = IF emulator[t].player = p THEN NoPlayer
                                   ELSE emulator[t].player
          /\ emulator'[t].active = emulator[t].active
    BY <1>0, <1>5, DeleteWrites
  <2>2. \A t \in Serials : \A q \in Players : Holds(t, q)' <=> Holds(t, q)
    BY <2>1, PanelAssumption DEF Holds
  <2> QED
    BY <2>2, Stutters
<1>6. ASSUME NEW s \in Serials, GraceEnds(s)
      PROVE  UNCHANGED Lease!leaseVars
  <2>1. \A t \in Serials : \A q \in Players : Holds(t, q)' <=> Holds(t, q)
    BY <1>0, <1>6 DEF GraceEnds, Holds
  <2> QED
    BY <2>1, Stutters
<1> QED
  BY <1>1, <1>2, <1>3, <1>4, <1>5, <1>6, RowSteps

\* "Each profile can be used on only one device at a time" (README.md:121): the
\* panel's operations, its polls, a crash between any two of their steps and
\* the administration that takes no lock implement the lease.
THEOREM LeaseImplemented == Spec => ImplementsLease
BY InitMaps, StepMaps, StoreAlways, PTL DEF Spec, ImplementsLease, Lease!Spec
=============================================================================
