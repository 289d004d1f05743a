---------------------------- MODULE DeviceControl ----------------------------
(***************************************************************************)
(* One emulator under the panel (internal/control/native.go,               *)
(* android_setup.go, process.go): Local patches the game's native library, *)
(* installs certificate, tunnel and routing and starts the server;         *)
(* Official and Stop undo it from a verified backup; a Stop that cannot    *)
(* finish leaves a marker from which later status polls resume.            *)
(*                                                                         *)
(* Every ADB command that changes something is a step.  Before each the    *)
(* emulator may disconnect, restart or update its game, the command may    *)
(* fail, and the panel may crash: its memory is lost, files, server and    *)
(* Android stay.  Hash comparisons are exact: a library is official or     *)
(* patched for one version of the game, or torn by an interrupted write.   *)
(*                                                                         *)
(* Not distinguished: the legacy backup name, split APKs, the two          *)
(* certificate stores, and the fallback tunnel from the ordinary one.  The *)
(* game's process, which both ways force-stop first, is in Panel.          *)
(***************************************************************************)
EXTENDS Naturals

CONSTANTS MaxVersion,  \* versions of the game; a later one replaces an earlier
          TornWrites,  \* an interrupted copy may leave a partial file
          MaxFaults    \* bound on failed commands and panel crashes

ASSUME DeviceAssumption == /\ MaxVersion \in Nat \ {0}
                           /\ TornWrites \in BOOLEAN
                           /\ MaxFaults \in Nat

Versions == 1..MaxVersion
None == 0                           \* no version
Library == [form : {"official", "patched", "torn"}, version : Versions]
Official(v) == [form |-> "official", version |-> v]
Patched(v) == [form |-> "patched", version |-> v]

VARIABLES
  library,   \* the installed native library
  backup,    \* per version, yaha-<hash>.original on the emulator
  routing,   \* of "trust" (certificate), "tunnel" and "hosts", what is in place
  online,    \* ADB reaches the emulator
  installed, \* installed-patch.json: version of the patch to undo, or None
  prepared,  \* version of the prepared patch (cfg.Patch)
  pending,   \* the pending-rollback marker
  mode,      \* the mode file, "" when there is none
  server,    \* the server process of this emulator runs
  cached,    \* fullStatusValid
  retry,     \* a failed deferred restoration: "none", "wait" a minute, "due"
  up,        \* the panel runs
  op,        \* the runner call under way
  faults     \* failed commands and panel crashes so far

android == <<library, backup, routing, online>>
files   == <<installed, prepared, pending, mode>>
vars    == <<library, backup, routing, online, installed, prepared, pending,
             mode, server, cached, retry, up, op, faults>>

\* Kind, next step, the pulled library, and whether Local started the server.
NoOp == [kind |-> "none", pc |-> "idle", seen |-> Official(1), started |-> FALSE]

TypeOK ==
  /\ library \in Library
  /\ backup \in [Versions -> {"none", "good", "torn"}]
  /\ routing \subseteq {"trust", "tunnel", "hosts"}
  /\ online \in BOOLEAN
  /\ installed \in Versions \cup {None}
  /\ prepared \in Versions
  /\ pending \in BOOLEAN
  /\ mode \in {"", "local", "online", "stopped"}
  /\ server \in BOOLEAN /\ cached \in BOOLEAN
  /\ retry \in {"none", "wait", "due"}
  /\ up \in BOOLEAN
  /\ op \in [kind : {"none", "status", "local", "online", "stop"},
             pc : {"idle", "connect", "server", "pull", "backup", "verify",
                   "record", "patch", "check", "trust", "tunnel", "hosts",
                   "forget", "stop", "prefs", "unmark", "mode"},
             seen : Library, started : BOOLEAN]
  /\ faults \in 0..MaxFaults

Init ==
  /\ library = Official(1)
  /\ backup = [v \in Versions |-> "none"]
  /\ routing = {} /\ online \in BOOLEAN
  /\ installed = None /\ prepared = 1 /\ pending = FALSE /\ mode = ""
  /\ server = FALSE /\ cached = FALSE /\ retry = "none" /\ up = TRUE
  /\ op = NoOp /\ faults = 0

Applying == op.kind = "local"
At(pc) == up /\ op.pc = pc
Goto(pc) == op' = [op EXCEPT !.pc = pc]

-----------------------------------------------------------------------------
(* The beginning of Action and of Status.                                  *)

\* An action invalidates the cached status.  Stop writes the marker before anything else.
Action(kind) ==
  /\ up /\ op = NoOp
  /\ op' = [NoOp EXCEPT !.kind = kind, !.pc = "connect"]
  /\ pending' = (pending \/ kind = "stop")
  /\ cached' = FALSE
  /\ UNCHANGED <<android, installed, prepared, mode, server, retry, up, faults>>

\* Connection and game are looked at in every poll; the rest only when it is
\* not cached, and then a pending restoration is resumed, unless it failed less
\* than a minute ago.  Without a device nothing is remembered.
Status ==
  /\ up /\ op = NoOp
  /\ LET full == ~cached \/ retry = "due" \/ ~online
     IN \/ /\ full /\ online /\ pending /\ retry # "wait"
           /\ op' = [NoOp EXCEPT !.kind = "status", !.pc = "pull"]
           /\ UNCHANGED <<cached, retry>>
        \/ /\ ~(full /\ online /\ pending /\ retry # "wait")
           /\ cached' = online
           /\ retry' = IF full /\ online /\ ~pending THEN "none" ELSE retry
           /\ UNCHANGED op
  /\ UNCHANGED <<android, files, server, up, faults>>

\* Local checks first that the game is the prepared version.  Without a device
\* Stop still stops the server, and leaves the marker.
ConnectDevice ==
  /\ At("connect")
  /\ \/ /\ online /\ (Applying => library.version = prepared)
        /\ Goto(IF Applying THEN "server" ELSE "pull")
        /\ UNCHANGED <<server, mode>>
     \/ /\ ~online /\ op.kind = "stop"
        /\ server' = FALSE /\ mode' = "stopped" /\ op' = NoOp
     \/ /\ op.kind # "stop" /\ (~online \/ (Applying /\ library.version # prepared))
        /\ op' = NoOp
        /\ UNCHANGED <<server, mode>>
  /\ UNCHANGED <<android, installed, prepared, pending, cached, retry, up, faults>>

StartServer ==
  /\ At("server")
  /\ server' = TRUE
  /\ op' = [op EXCEPT !.pc = "pull", !.started = ~server]
  /\ UNCHANGED <<android, files, cached, retry, up, faults>>

-----------------------------------------------------------------------------
(* setupAndroid: the library.                                              *)

\* Fault: a restoration ignores the recorded patch.
Undone_Prepared == prepared

\* The patch a restoration undoes: the recorded one, else the prepared one.
Undone == IF installed # None THEN installed ELSE prepared

\* The hashes that are accepted.  A restoration also takes the official library
\* of a game updated since.
Known(lib) ==
  lib \in IF Applying THEN {Official(prepared), Patched(prepared)}
          ELSE {Official(Undone), Patched(Undone), Official(prepared)}

\* Fault: a restoration is over when the library is official.
AfterPull_Early(lib) ==
  IF lib.form = "patched" THEN "verify" ELSE IF Applying THEN "backup" ELSE "forget"

AfterPull(lib) ==
  IF lib.form = "patched" THEN "verify" ELSE IF Applying THEN "backup" ELSE "hosts"

PullLibrary ==
  /\ At("pull") /\ online /\ Known(library)
  /\ op' = [op EXCEPT !.seen = library, !.pc = AfterPull(library)]
  /\ UNCHANGED <<android, files, server, cached, retry, up, faults>>

\* The library's path was found for one version; an update of the game moves it.
SameInstall == op.seen.version = library.version

\* test -e backup || cp library backup.
Backup ==
  /\ At("backup") /\ online /\ SameInstall
  /\ backup' = [backup EXCEPT ![library.version] = IF @ = "none" THEN "good" ELSE @]
  /\ Goto("verify")
  /\ UNCHANGED <<library, routing, online, files, server, cached, retry, up, faults>>

\* Fault: the backup need only exist.
Verified_Exists(v) == backup[v] # "none"

Verified(v) == backup[v] = "good"

\* checkHash of the backup, before the library is overwritten either way.
VerifyBackup ==
  /\ At("verify") /\ online /\ Verified(op.seen.version)
  /\ Goto(IF Applying THEN "record" ELSE "patch")
  /\ UNCHANGED <<android, files, server, cached, retry, up, faults>>

\* "Persist rollback metadata before the first remote native write."
RecordPatch ==
  /\ At("record")
  /\ installed' = prepared
  /\ Goto(IF op.seen.form = "patched" THEN "trust" ELSE "patch")
  /\ UNCHANGED <<android, prepared, pending, mode, server, cached, retry, up, faults>>

\* writeLibrary: cat over the installed library.
WriteLibrary ==
  /\ At("patch") /\ online /\ SameInstall
  /\ library' = [form |-> IF Applying THEN "patched"
                          ELSE IF backup[library.version] = "good" THEN "official"
                          ELSE "torn",
                 version |-> library.version]
  /\ Goto("check")
  /\ UNCHANGED <<backup, routing, online, files, server, cached, retry, up, faults>>

CheckLibrary ==
  /\ At("check") /\ online /\ SameInstall
  /\ library.form = IF Applying THEN "patched" ELSE "official"
  /\ Goto(IF Applying THEN "trust" ELSE "hosts")
  /\ UNCHANGED <<android, files, server, cached, retry, up, faults>>

-----------------------------------------------------------------------------
(* setupAndroid: certificate, tunnel and hosts, put in place in this order *)
(* and removed in the order hosts, certificate, tunnel.                    *)

AfterPart == [trust  |-> "tunnel",
              tunnel |-> IF Applying THEN "hosts" ELSE "forget",
              hosts  |-> IF Applying THEN "prefs" ELSE "trust"]

SetPart(part) ==
  /\ At(part) /\ online
  /\ routing' = IF Applying THEN routing \cup {part} ELSE routing \ {part}
  /\ op' = [op EXCEPT !.pc = AfterPart[part], !.seen = NoOp.seen]
  /\ UNCHANGED <<library, backup, online, files, server, cached, retry, up, faults>>

\* The last step of a restoration; Official and Stop then stop the server.
Forget ==
  /\ At("forget")
  /\ installed' = None
  /\ Goto(IF op.kind = "status" THEN "prefs" ELSE "stop")
  /\ UNCHANGED <<android, prepared, pending, mode, server, cached, retry, up, faults>>

-----------------------------------------------------------------------------
(* The end of Action and of recoverPendingRollback.                        *)

StopServer ==
  /\ At("stop")
  /\ server' = FALSE
  /\ Goto("prefs")
  /\ UNCHANGED <<android, files, cached, retry, up, faults>>

RemovePrefs ==
  /\ At("prefs") /\ online
  /\ Goto("unmark")
  /\ UNCHANGED <<android, files, server, cached, retry, up, faults>>

\* clearPendingRollback; the poll that resumed a restoration ends here.
Unmark ==
  /\ At("unmark")
  /\ pending' = FALSE
  /\ \/ op.kind = "status" /\ op' = NoOp /\ cached' = TRUE /\ retry' = "none"
     \/ op.kind # "status" /\ Goto("mode") /\ UNCHANGED <<cached, retry>>
  /\ UNCHANGED <<android, installed, prepared, mode, server, up, faults>>

\* The mode file, then a full status without a marker.
SetMode ==
  /\ At("mode")
  /\ mode' = IF op.kind = "stop" THEN "stopped" ELSE op.kind
  /\ op' = NoOp
  /\ cached' = online
  /\ retry' = IF online THEN "none" ELSE retry
  /\ UNCHANGED <<android, installed, prepared, pending, server, up, faults>>

\* What a command that is cut short can leave behind: a torn file, or a part
\* that is unmounted before it is mounted again.
CutShort ==
  /\ library' \in {library} \cup
        IF TornWrites /\ op.pc = "patch" /\ SameInstall
        THEN {[form |-> "torn", version |-> library.version]} ELSE {}
  /\ backup' \in {backup} \cup
        IF TornWrites /\ op.pc = "backup" /\ SameInstall /\ backup[library.version] = "none"
        THEN {[backup EXCEPT ![library.version] = "torn"]} ELSE {}
  /\ routing' \in {routing} \cup
        IF op.pc \in {"trust", "tunnel", "hosts"} THEN {routing \ {op.pc}} ELSE {}
  /\ UNCHANGED online

\* A step that cannot succeed now.
Refused ==
  \/ ~online /\ op.pc \notin {"server", "stop"}
  \/ op.pc = "pull" /\ ~Known(library)
  \/ op.pc = "verify" /\ ~Verified(op.seen.version)
  \/ op.pc \in {"backup", "patch", "check"} /\ ~SameInstall
  \/ op.pc = "check" /\ library.form # IF Applying THEN "patched" ELSE "official"

\* Local stops the server if it started it, unless all of Android is done;
\* Stop stops it in any case; Official leaves it; a status poll notes the time,
\* or nothing when its context ended.
StepFails ==
  /\ up /\ op.pc \notin {"idle", "connect", "record", "forget", "unmark", "mode"}
  /\ \/ Refused /\ UNCHANGED faults
     \/ ~Refused /\ faults < MaxFaults /\ faults' = faults + 1
  /\ CutShort
  /\ op' = NoOp
  /\ server' = CASE Applying -> server /\ (op.started => op.pc \in {"server", "prefs"})
                 [] op.kind = "stop" -> server /\ op.pc = "stop"
                 [] OTHER -> server
  /\ \/ op.kind = "status" /\ retry' = "wait" /\ cached' = TRUE
     \/ op.kind = "status" /\ UNCHANGED retry /\ cached' = FALSE
     \/ op.kind # "status" /\ UNCHANGED <<retry, cached>>
  /\ UNCHANGED <<files, up>>

-----------------------------------------------------------------------------
(* The emulator, the preparation, time and the panel process.              *)

Connect == ~online /\ online' = TRUE /\ UNCHANGED <<library, backup, routing>>
Disconnect == online /\ online' = FALSE /\ UNCHANGED <<library, backup, routing>>

\* Mounts and tunnels do not survive a restart of the emulator.
PowerOff == online /\ online' = FALSE /\ routing' = {} /\ UNCHANGED <<library, backup>>

UpdateGame ==
  /\ library.version < MaxVersion
  /\ library' = Official(library.version + 1)
  /\ UNCHANGED <<backup, routing, online>>

Emulator == /\ Connect \/ Disconnect \/ PowerOff \/ UpdateGame
            /\ UNCHANGED <<files, server, cached, retry, up, op, faults>>

\* Data prepared from any emulator becomes the patch of all of them.
Prepare ==
  /\ up /\ op = NoOp /\ prepared < MaxVersion
  /\ prepared' = prepared + 1
  /\ UNCHANGED <<android, installed, pending, mode, server, cached, retry, up, op, faults>>

ServerDies ==
  /\ server /\ server' = FALSE
  /\ UNCHANGED <<android, files, cached, retry, up, op, faults>>

MinutePasses ==
  /\ retry = "wait" /\ retry' = "due"
  /\ UNCHANGED <<android, files, server, cached, up, op, faults>>

PanelCrash ==
  /\ up /\ up' = FALSE
  /\ faults < MaxFaults /\ faults' = faults + 1
  /\ CutShort
  /\ op' = NoOp /\ cached' = FALSE /\ retry' = "none"
  /\ UNCHANGED <<files, server>>

PanelStart ==
  /\ ~up /\ up' = TRUE
  /\ UNCHANGED <<android, files, server, cached, retry, op, faults>>

OpStep == \/ ConnectDevice \/ StartServer \/ PullLibrary \/ Backup \/ VerifyBackup
          \/ RecordPatch \/ WriteLibrary \/ CheckLibrary
          \/ \E part \in {"trust", "tunnel", "hosts"} : SetPart(part)
          \/ Forget \/ StopServer \/ RemovePrefs \/ Unmark \/ SetMode
          \/ StepFails

Next == \/ OpStep \/ Status
        \/ \E kind \in {"local", "online", "stop"} : Action(kind)
        \/ Emulator \/ Prepare \/ ServerDies \/ MinutePasses \/ PanelCrash \/ PanelStart

Spec == Init /\ [][Next]_vars

\* Commands return, the page polls while the panel runs, time passes, and the
\* panel is started again.
FairSpec == /\ Spec
            /\ WF_vars(OpStep) /\ SF_vars(Status)
            /\ WF_vars(MinutePasses) /\ WF_vars(PanelStart)

-----------------------------------------------------------------------------
(* Properties.                                                             *)

Restored == library.form = "official" /\ routing = {}

\* "Persist rollback metadata before the first remote native write": whatever
\* is interrupted, a library the panel has written over can be given back: its
\* original is on the emulator, whole, and the record names its version.
PatchRecoverable ==
  library.form # "official" =>
    /\ backup[library.version] = "good"
    /\ installed = library.version

\* The marker of an unfinished Stop goes only when Android is official again,
\* or because Local was chosen since.
MarkerUntilRestored ==
  [][pending /\ ~pending' => Restored \/ op.kind = "local"]_vars

\* "Later status checks resume restoration when it reconnects"
\* (ARCHITECTURE.md:91): once the emulator stays connected, a pending
\* restoration is completed, for as long as its library is whole and of a game
\* the panel patched or prepared.
RestorationResumes ==
  LET known == library.form # "torn" /\ library.version \in {prepared, installed}
  IN <>[]online => (pending /\ known ~> ~pending \/ ~known)
=============================================================================
