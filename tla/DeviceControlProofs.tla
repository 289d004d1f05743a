------------------------- MODULE DeviceControlProofs -------------------------
(***************************************************************************)
(* Proofs about DeviceControl, for any number of game versions and faults, *)
(* with and without torn writes.                                           *)
(***************************************************************************)
EXTENDS DeviceControl, TLAPS

OpType == [kind : {"none", "status", "local", "online", "stop"},
           pc : {"idle", "connect", "server", "pull", "backup", "verify",
                 "record", "patch", "check", "trust", "tunnel", "hosts",
                 "forget", "stop", "prefs", "unmark", "mode"},
           seen : Library, started : BOOLEAN]

\* The part of TypeOK that an invariant needs.
Types ==
  /\ library \in Library
  /\ backup \in [Versions -> {"none", "good", "torn"}]
  /\ routing \subseteq {"trust", "tunnel", "hosts"}
  /\ installed \in Versions \cup {None}
  /\ prepared \in Versions
  /\ op \in OpType

\* The steps that follow a pull, before the library is written.
Unwritten == {"backup", "verify", "record", "patch"}

\* A restoration after its library, by the parts that may still be in place.
Remaining == [hosts  |-> {"trust", "tunnel", "hosts"},
              trust  |-> {"trust", "tunnel"}, tunnel |-> {"tunnel"},
              forget |-> {}, stop |-> {}, prefs |-> {}, unmark |-> {}, mode |-> {}]

\* What was pulled is still there, unless the game was updated since.
Pulled ==
  op.pc \in Unwritten =>
    /\ library = op.seen \/ library.form = "official"
    /\ op.kind = "local" => op.seen.version = prepared
    /\ op.kind # "local" => op.pc \in {"verify", "patch"} /\ installed = op.seen.version

\* Before the library is written, its backup is verified and recorded.
Guarded ==
  /\ op.pc \in {"record", "patch"} => backup[op.seen.version] = "good"
  /\ op.pc = "patch" => installed = op.seen.version

\* What a restoration has already undone; only it forgets the patch.
Undoing ==
  /\ op.kind # "local" /\ op.pc \in DOMAIN Remaining =>
       library.form = "official" /\ routing \subseteq Remaining[op.pc]
  /\ op.pc = "forget" => op.kind # "local"

IInv == Types /\ PatchRecoverable /\ Pulled /\ Guarded /\ Undoing

-----------------------------------------------------------------------------
LEMMA InitIInv == ASSUME DeviceAssumption, Init PROVE IInv
<1>1. NoOp \in OpType /\ Official(1) \in Library /\ 1 \in Versions
  BY DEF DeviceAssumption, OpType, Library, Versions, Official, NoOp
<1>2. Types /\ PatchRecoverable
  BY <1>1 DEF Init, Types, PatchRecoverable, Official, None
<1>3. Pulled /\ Guarded /\ Undoing
  BY DEF Init, NoOp, Pulled, Guarded, Undoing, Unwritten, Remaining
<1> QED BY <1>2, <1>3 DEF IInv

LEMMA NoOpIdle == DeviceAssumption => NoOp \in OpType /\ NoOp.pc = "idle"
BY DEF DeviceAssumption, NoOp, OpType, Library, Versions, Official

\* The call ends, and the library is as it was, or torn after its backup.
LEMMA Ended ==
  ASSUME DeviceAssumption, IInv, op' = NoOp, UNCHANGED <<installed, prepared>>,
         CutShort \/ UNCHANGED <<library, backup, routing>>
  PROVE  IInv'
<1>1. /\ library' = library
         \/ /\ op.pc = "patch" /\ SameInstall
            /\ library' = [form |-> "torn", version |-> library.version]
  BY DEF CutShort
<1>2. backup' = backup \/ (\E v \in Versions : backup[v] = "none" /\ backup' = [backup EXCEPT ![v] = "torn"])
  BY DEF CutShort, IInv, Types, Library
<1>3. routing' \subseteq routing
  BY DEF CutShort
<1>4. \A v \in Versions : backup[v] = "good" => backup'[v] = "good"
  BY <1>2 DEF IInv, Types
<1>5. Types'
  BY <1>1, <1>2, <1>3, NoOpIdle DEF IInv, Types, Library
<1>6. PatchRecoverable'
  BY <1>1, <1>4 DEF IInv, Types, PatchRecoverable, Guarded, SameInstall, Library
<1>7. Pulled' /\ Guarded' /\ Undoing'
  BY NoOpIdle DEF Pulled, Guarded, Undoing, Unwritten, Remaining
<1> QED BY <1>5, <1>6, <1>7 DEF IInv

\* A step of the call that touches neither the library nor its records.
LEMMA Advanced ==
  ASSUME IInv, UNCHANGED <<library, backup, installed, prepared>>,
         op' \in OpType, op'.kind = op.kind, op'.pc \notin Unwritten,
         routing' \subseteq {"trust", "tunnel", "hosts"},
         op.kind # "local" /\ op'.pc \in DOMAIN Remaining =>
           library.form = "official" /\ routing' \subseteq Remaining[op'.pc],
         op'.pc = "forget" => op.kind # "local"
  PROVE  IInv'
BY DEF IInv, Types, PatchRecoverable, Pulled, Guarded, Undoing, Unwritten, Remaining

LEMMA GotoOp ==
  ASSUME op \in OpType,
         NEW pc \in {"idle", "connect", "server", "pull", "backup", "verify",
                     "record", "patch", "check", "trust", "tunnel", "hosts",
                     "forget", "stop", "prefs", "unmark", "mode"}, Goto(pc)
  PROVE  /\ op' \in OpType /\ op'.pc = pc /\ op'.kind = op.kind /\ op'.seen = op.seen
BY DEF OpType, Goto

-----------------------------------------------------------------------------
(* The beginning.                                                          *)

LEMMA ActionKeeps ==
  ASSUME DeviceAssumption, IInv, NEW kind \in {"local", "online", "stop"}, Action(kind)
  PROVE  IInv'
<1>1. op' \in OpType /\ op'.pc = "connect"
  BY NoOpIdle DEF Action, OpType, NoOp
<1> QED BY <1>1 DEF Action, IInv, Types, PatchRecoverable, Pulled, Guarded, Undoing,
           Unwritten, Remaining, android

LEMMA StatusKeeps == ASSUME DeviceAssumption, IInv, Status PROVE IInv'
<1>1. op' \in OpType /\ (op' = op \/ op'.pc = "pull")
  BY NoOpIdle DEF Status, OpType, NoOp, IInv, Types
<1> QED BY <1>1 DEF Status, IInv, Types, PatchRecoverable, Pulled, Guarded, Undoing,
           Unwritten, Remaining, android, files

LEMMA ConnectKeeps == ASSUME DeviceAssumption, IInv, ConnectDevice PROVE IInv'
<1>1. CASE op' = NoOp
  BY <1>1, Ended DEF ConnectDevice, android
<1>2. CASE op' # NoOp
  <2>1. Goto(IF Applying THEN "server" ELSE "pull")
    BY <1>2 DEF ConnectDevice
  <2>2. /\ op' \in OpType /\ op'.kind = op.kind
        /\ op'.pc = IF Applying THEN "server" ELSE "pull"
    BY <2>1, GotoOp DEF IInv, Types
  <2> QED BY <2>2, Advanced DEF ConnectDevice, android, Unwritten, Remaining, IInv, Types
<1> QED BY <1>1, <1>2

LEMMA StartServerKeeps == ASSUME IInv, StartServer PROVE IInv'
<1>1. op' \in OpType /\ op'.kind = op.kind /\ op'.pc = "pull"
  BY DEF StartServer, OpType, IInv, Types
<1> QED BY <1>1, Advanced DEF StartServer, android, files, Unwritten, Remaining, IInv, Types

-----------------------------------------------------------------------------
(* The library.                                                            *)

LEMMA PullKeeps == ASSUME DeviceAssumption, IInv, PullLibrary PROVE IInv'
<1>1. /\ op' \in OpType /\ op'.kind = op.kind /\ op'.seen = library
      /\ op'.pc = AfterPull(library)
  BY DEF PullLibrary, OpType, IInv, Types, AfterPull
<1>2. UNCHANGED <<library, backup, routing, installed, prepared>>
  BY DEF PullLibrary, android, files
<1>3. library.form \in {"official", "patched"}
  BY DEF PullLibrary, Known, Official, Patched
<1>4. Applying => library.version = prepared
  BY DEF PullLibrary, Known, Official, Patched
<1>5. Types' /\ PatchRecoverable'
  BY <1>1, <1>2 DEF IInv, Types, PatchRecoverable
<1>6. Pulled'
  BY <1>1, <1>2, <1>3, <1>4 DEF Pulled, AfterPull, Applying, Unwritten, IInv, PatchRecoverable
<1>7. Guarded'
  BY <1>1 DEF Guarded, AfterPull
<1>8. Undoing'
  BY <1>1, <1>2, <1>3 DEF Undoing, AfterPull, Applying, Remaining, IInv, Types
<1> QED BY <1>5, <1>6, <1>7, <1>8 DEF IInv

LEMMA BackupKeeps == ASSUME IInv, Backup PROVE IInv'
<1>1. op' \in OpType /\ op'.kind = op.kind /\ op'.seen = op.seen /\ op'.pc = "verify"
  BY GotoOp DEF Backup, IInv, Types
<1>2. /\ UNCHANGED <<library, routing, installed, prepared>>
      /\ backup' \in [Versions -> {"none", "good", "torn"}]
      /\ \A v \in Versions : backup[v] = "good" => backup'[v] = "good"
  BY DEF Backup, files, IInv, Types
<1>3. Types' /\ PatchRecoverable'
  BY <1>1, <1>2 DEF IInv, Types, PatchRecoverable, Library
<1>4. Pulled' /\ Guarded' /\ Undoing'
  BY <1>1, <1>2 DEF Backup, At, IInv, Pulled, Guarded, Undoing, Unwritten, Remaining
<1> QED BY <1>3, <1>4 DEF IInv

LEMMA VerifyKeeps == ASSUME IInv, VerifyBackup PROVE IInv'
<1>1. /\ op' \in OpType /\ op'.kind = op.kind /\ op'.seen = op.seen
      /\ op'.pc = IF Applying THEN "record" ELSE "patch"
  BY GotoOp DEF VerifyBackup, IInv, Types
<1>2. UNCHANGED <<library, backup, routing, installed, prepared>>
  BY DEF VerifyBackup, android, files
<1>3. Types' /\ PatchRecoverable'
  BY <1>1, <1>2 DEF IInv, Types, PatchRecoverable
<1>4. Pulled' /\ Guarded' /\ Undoing'
  BY <1>1, <1>2 DEF VerifyBackup, Verified, Applying, At, IInv, Pulled, Guarded, Undoing, Unwritten, Remaining
<1> QED BY <1>3, <1>4 DEF IInv

LEMMA RecordKeeps == ASSUME IInv, RecordPatch PROVE IInv'
<1>1. /\ op' \in OpType /\ op'.kind = op.kind /\ op'.seen = op.seen
      /\ op'.pc = IF op.seen.form = "patched" THEN "trust" ELSE "patch"
  BY GotoOp DEF RecordPatch, IInv, Types
<1>2. UNCHANGED <<library, backup, routing, prepared>> /\ installed' = prepared
  BY DEF RecordPatch, android
<1>3. op.kind = "local" /\ op.seen.version = prepared /\ backup[prepared] = "good"
  BY DEF RecordPatch, At, IInv, Pulled, Guarded, Unwritten
<1>4. library.form # "official" => library.version = prepared
  BY <1>3 DEF RecordPatch, At, IInv, Pulled, Unwritten
<1>5. Types' /\ PatchRecoverable'
  BY <1>1, <1>2, <1>3, <1>4 DEF IInv, Types, PatchRecoverable
<1>6. Pulled' /\ Guarded' /\ Undoing'
  BY <1>1, <1>2, <1>3 DEF RecordPatch, At, IInv, Pulled, Guarded, Undoing, Unwritten, Remaining
<1> QED BY <1>5, <1>6 DEF IInv

LEMMA WriteKeeps == ASSUME IInv, WriteLibrary PROVE IInv'
<1>1. /\ op' \in OpType /\ op'.kind = op.kind /\ op'.pc = "check"
  BY GotoOp DEF WriteLibrary, IInv, Types
<1>2. /\ UNCHANGED <<backup, routing, installed, prepared>>
      /\ library' \in Library /\ library'.version = library.version
  BY DEF WriteLibrary, files, IInv, Types, Library
<1>3. backup[library.version] = "good" /\ installed = library.version
  BY DEF WriteLibrary, SameInstall, At, IInv, Guarded
<1>4. Types' /\ PatchRecoverable'
  BY <1>1, <1>2, <1>3 DEF IInv, Types, PatchRecoverable
<1>5. Pulled' /\ Guarded' /\ Undoing'
  BY <1>1 DEF Pulled, Guarded, Undoing, Unwritten, Remaining
<1> QED BY <1>4, <1>5 DEF IInv

LEMMA CheckKeeps == ASSUME IInv, CheckLibrary PROVE IInv'
<1>1. /\ op' \in OpType /\ op'.kind = op.kind
      /\ op'.pc = IF Applying THEN "trust" ELSE "hosts"
  BY GotoOp DEF CheckLibrary, IInv, Types
<1> QED BY <1>1, Advanced DEF CheckLibrary, Applying, android, files, Unwritten, Remaining, IInv, Types

-----------------------------------------------------------------------------
(* The rest of a call.                                                     *)

LEMMA SetPartKeeps ==
  ASSUME DeviceAssumption, IInv, NEW part \in {"trust", "tunnel", "hosts"}, SetPart(part)
  PROVE  IInv'
<1>1. /\ op' \in OpType /\ op'.kind = op.kind /\ op'.pc = AfterPart[part]
  <2>1. AfterPart[part] \in {"trust", "tunnel", "hosts", "forget", "prefs"}
    BY DEF AfterPart
  <2>2. NoOp.seen \in Library
    BY NoOpIdle DEF OpType
  <2> QED BY <2>1, <2>2 DEF SetPart, OpType, IInv, Types
<1>2. routing' = IF Applying THEN routing \cup {part} ELSE routing \ {part}
  BY DEF SetPart
<1>3. op.kind # "local" => library.form = "official" /\ routing \subseteq Remaining[part]
  BY DEF SetPart, At, IInv, Undoing, Remaining
<1>4. op.kind # "local" => routing' \subseteq Remaining[op'.pc]
  BY <1>1, <1>2, <1>3 DEF Applying, AfterPart, Remaining
<1>5. op'.pc \notin Unwritten
  BY <1>1 DEF AfterPart, Unwritten
<1>6. routing' \subseteq {"trust", "tunnel", "hosts"}
  BY <1>2 DEF IInv, Types
<1>7. op'.pc = "forget" => op.kind # "local"
  BY <1>1 DEF AfterPart, Applying
<1> QED BY <1>1, <1>3, <1>4, <1>5, <1>6, <1>7, Advanced DEF SetPart, files

LEMMA ForgetKeeps == ASSUME IInv, Forget PROVE IInv'
<1>1. /\ op' \in OpType /\ op'.kind = op.kind
      /\ op'.pc = IF op.kind = "status" THEN "prefs" ELSE "stop"
  BY GotoOp DEF Forget, IInv, Types
<1>2. UNCHANGED <<library, backup, routing, prepared>> /\ installed' = None
  BY DEF Forget, android
<1>3. library.form = "official" /\ routing = {}
  BY DEF Forget, At, IInv, Undoing, Remaining
<1>4. Types' /\ PatchRecoverable'
  BY <1>1, <1>2, <1>3 DEF IInv, Types, PatchRecoverable
<1>5. Pulled' /\ Guarded' /\ Undoing'
  BY <1>1, <1>2, <1>3 DEF Pulled, Guarded, Undoing, Unwritten, Remaining
<1> QED BY <1>4, <1>5 DEF IInv

LEMMA EndingKeeps ==
  ASSUME DeviceAssumption, IInv, StopServer \/ RemovePrefs \/ Unmark \/ SetMode
  PROVE  IInv'
<1>1. UNCHANGED <<library, backup, routing, installed, prepared>>
  BY DEF StopServer, RemovePrefs, Unmark, SetMode, android, files
<1>2. CASE op' = NoOp
  BY <1>1, <1>2, Ended
<1>3. CASE op' # NoOp
  <2>1. \E pc \in {"prefs", "unmark", "mode"} : Goto(pc)
    BY <1>3 DEF StopServer, RemovePrefs, Unmark, SetMode
  <2>2. /\ op' \in OpType /\ op'.kind = op.kind /\ op'.pc \in {"prefs", "unmark", "mode"}
    BY <2>1, GotoOp DEF IInv, Types
  <2>3. op.pc \in {"stop", "prefs", "unmark", "mode"}
    BY DEF StopServer, RemovePrefs, Unmark, SetMode, At
  <2>4. op.kind # "local" => library.form = "official" /\ routing \subseteq {}
    BY <2>3 DEF IInv, Undoing, Remaining
  <2>5. op.kind # "local" => routing' \subseteq Remaining[op'.pc]
    BY <1>1, <2>2, <2>4 DEF Remaining
  <2>6. op'.pc \notin Unwritten
    BY <2>2 DEF Unwritten
  <2> QED BY <1>1, <2>2, <2>4, <2>5, <2>6, Advanced DEF IInv, Types
<1> QED BY <1>2, <1>3

-----------------------------------------------------------------------------
(* The environment.                                                        *)

LEMMA UpdateKeeps ==
  ASSUME DeviceAssumption, IInv, UpdateGame, UNCHANGED <<installed, prepared, op>>
  PROVE  IInv'
<1>1. library' \in Library /\ library'.form = "official"
  BY DEF DeviceAssumption, UpdateGame, Official, Library, Versions, IInv, Types
<1> QED BY <1>1 DEF UpdateGame, IInv, Types, PatchRecoverable, Pulled, Guarded, Undoing, Unwritten, Remaining

LEMMA EmulatorKeeps == ASSUME DeviceAssumption, IInv, Emulator PROVE IInv'
<1>1. CASE UpdateGame
  BY <1>1, UpdateKeeps DEF Emulator, files
<1>2. CASE Connect \/ Disconnect \/ PowerOff
  <2>1. /\ UNCHANGED <<library, backup, installed, prepared, op>>
        /\ routing' \subseteq routing
    BY <1>2 DEF Emulator, Connect, Disconnect, PowerOff, files
  <2> QED BY <2>1 DEF IInv, Types, PatchRecoverable, Pulled, Guarded, Undoing, Unwritten, Remaining
<1> QED BY <1>1, <1>2 DEF Emulator

LEMMA PrepareKeeps == ASSUME DeviceAssumption, IInv, Prepare PROVE IInv'
<1>1. op' = op /\ op.pc = "idle"
  BY NoOpIdle DEF Prepare
<1>2. prepared' \in Versions
  BY DEF DeviceAssumption, Prepare, Versions, IInv, Types
<1> QED BY <1>1, <1>2 DEF Prepare, android, IInv, Types, PatchRecoverable, Pulled, Guarded, Undoing, Unwritten, Remaining

LEMMA NextIInv == ASSUME DeviceAssumption, IInv, [Next]_vars PROVE IInv'
<1>1. CASE OpStep
  BY <1>1, ConnectKeeps, StartServerKeeps, PullKeeps, BackupKeeps, VerifyKeeps, RecordKeeps,
     WriteKeeps, CheckKeeps, SetPartKeeps, ForgetKeeps, EndingKeeps, Ended
     DEF OpStep, StepFails, files
<1>2. CASE PanelCrash
  BY <1>2, Ended DEF PanelCrash, files
<1>3. CASE Status \/ Emulator \/ Prepare
  BY <1>3, StatusKeeps, EmulatorKeeps, PrepareKeeps
<1>4. CASE \E kind \in {"local", "online", "stop"} : Action(kind)
  BY <1>4, ActionKeeps
<1>5. CASE ServerDies \/ MinutePasses \/ PanelStart \/ UNCHANGED vars
  <2>1. UNCHANGED <<library, backup, routing, installed, prepared, op>>
    BY <1>5 DEF ServerDies, MinutePasses, PanelStart, vars, android, files
  <2> QED BY <2>1 DEF IInv, Types, PatchRecoverable, Pulled, Guarded, Undoing, Unwritten, Remaining
<1> QED BY <1>1, <1>2, <1>3, <1>4, <1>5 DEF Next

-----------------------------------------------------------------------------
(* Whatever is interrupted, the original of a library that the panel has   *)
(* written over is on the emulator, whole and on record (setupAndroid).    *)
THEOREM PatchIsRecoverable == Spec => []PatchRecoverable
<1>1. Init => IInv
  BY InitIInv, DeviceAssumption
<1>2. IInv /\ [Next]_vars => IInv'
  BY NextIInv, DeviceAssumption
<1>3. IInv => PatchRecoverable
  BY DEF IInv
<1> QED BY <1>1, <1>2, <1>3, PTL DEF Spec

LEMMA StepMarker ==
  ASSUME DeviceAssumption, IInv, [Next]_vars, pending, ~pending'
  PROVE  Restored \/ op.kind = "local"
<1>1. Unmark
  BY DEF Next, OpStep, Action, Status, ConnectDevice, StartServer, PullLibrary, Backup,
     VerifyBackup, RecordPatch, WriteLibrary, CheckLibrary, SetPart, Forget, StopServer,
     RemovePrefs, SetMode, StepFails, Emulator, Prepare, ServerDies, MinutePasses,
     PanelCrash, PanelStart, vars, files
<1> QED BY <1>1 DEF Unmark, At, IInv, Undoing, Remaining, Restored

(* The marker of an unfinished Stop only goes when Android is official     *)
(* again, or in a Local (clearPendingRollback).                            *)
THEOREM MarkerIsKept == Spec => MarkerUntilRestored
<1>1. Init => IInv
  BY InitIInv, DeviceAssumption
<1>2. IInv /\ [Next]_vars => IInv'
  BY NextIInv, DeviceAssumption
<1>3. IInv /\ [Next]_vars => [pending /\ ~pending' => Restored \/ op.kind = "local"]_vars
  BY StepMarker, DeviceAssumption
<1> QED BY <1>1, <1>2, <1>3, PTL DEF Spec, MarkerUntilRestored
=============================================================================
