----------------------------- MODULE Provision -----------------------------
(***************************************************************************)
(* Data preparation (internal/provision, and control/preparation.go that   *)
(* runs it): the game's data and images are imported into a pending        *)
(* directory, which becomes the generation of the installed profile by a   *)
(* rename; active.json then names it and older generations are removed.    *)
(* The panel can stop between any two of these steps, the importer and the *)
(* emulator can fail, files can be damaged and the installed profile can   *)
(* change while the panel is closed.                                       *)
(*                                                                         *)
(* A profile is its key.  Its files are the images of its plan and the     *)
(* master data, one file here; Profile gives the identity of each.  What a *)
(* file holds is the identity it was made for and whether it is whole; no  *)
(* two damages give the same bytes.  Its size and modification time are    *)
(* its stamp, and a record has the hash and the stamp: a file of the       *)
(* recorded stamp is valid unread, so a change that leaves the stamp goes  *)
(* unnoticed.  "made" tells hard links from copies.  index.json, which     *)
(* every attempt rewrites, and the directories set aside as damaged, which *)
(* nothing reads again once their place is taken, are left out.            *)
(***************************************************************************)
EXTENDS Naturals, FiniteSets, Functions

CONSTANTS Keys,             \* profile keys, numbers from 1
          Images, Master,   \* the outputs of the plan, and master/output
          Profile,          \* the identity of every file of every profile
          Installed,        \* the profile that is installed at first
          CheckpointEvery,  \* recorded files between two checkpoints (100)
          MaxFaults, MaxChanges   \* bounds of a behaviour

Names == Images \cup {Master}

ASSUME ProvisionAssumption ==
  /\ Keys \subseteq Nat \ {0} /\ Installed \in Keys
  /\ IsFiniteSet(Images) /\ Master \notin Images
  /\ DOMAIN Profile = Keys /\ \A k \in Keys : DOMAIN Profile[k] = Names
  /\ CheckpointEvery \in Nat \ {0}
  /\ MaxFaults \in Nat /\ MaxChanges \in Nat

VARIABLES published,  \* <key>/: its files and its receipt
          pending,    \* <key>.pending/: its files and its checkpoint
          active,     \* the key in active.json, None without the file
          panel,      \* the panel: running, ready, and its profile
          attempt,    \* the Prepare that runs, with its newReceipt
          imports,    \* attempts that got as far as the directory
          faults, changes   \* how much of the bounds is used
vars == <<published, pending, active, panel, attempt, imports, faults, changes>>

None == 0
Empty == [n \in {} |-> None]
Identities == UNION {{Profile[k][n] : n \in Names} : k \in Keys}

\* What a file holds: all of it, or what a cut import or a damage at rest left
\* that shows in the stamp.  From 2 on, what each other damage left: it struck
\* while an attempt was running, or left the stamp as it was.
Whole == 0
Torn == 1

\* Functions from some of the names.
Partial(f, S) == DOMAIN f \subseteq Names /\ f \in [DOMAIN f -> S]
\* A stamp tells writes apart: the attempt, and what the write left.
StampType == Nat \X Nat
RecordType == [id : Identities, state : Nat, stamp : StampType]
FileType == [id : Identities, state : Nat, stamp : StampType, made : Nat]

NoGeneration == [files |-> Empty, receipt |-> Empty]
NoStage == [files |-> Empty, checkpoint |-> Empty]
NoAttempt == [step |-> "idle", records |-> Empty, todo |-> {}, aside |-> NoGeneration]
Steps == {"idle", "inspect", "reuse", "master", "extracting", "images",
          "validate", "swap", "publish", "activate", "resolve", "prune"}

GenerationOK(g) ==
  /\ g = [files |-> g.files, receipt |-> g.receipt]
  /\ Partial(g.files, FileType) /\ Partial(g.receipt, RecordType)
StageOK(s) ==
  /\ s = [files |-> s.files, checkpoint |-> s.checkpoint]
  /\ Partial(s.files, FileType) /\ Partial(s.checkpoint, RecordType)

\* Types of the variables.
TypeOK ==
  /\ published = [k \in Keys |-> published[k]] /\ \A k \in Keys : GenerationOK(published[k])
  /\ pending = [k \in Keys |-> pending[k]] /\ \A k \in Keys : StageOK(pending[k])
  /\ active \in Keys \cup {None}
  /\ panel \in [up : BOOLEAN, ready : BOOLEAN, key : Keys]
  /\ attempt = [step |-> attempt.step, records |-> attempt.records,
                todo |-> attempt.todo, aside |-> attempt.aside]
  /\ attempt.step \in Steps /\ Partial(attempt.records, RecordType)
  /\ attempt.todo \subseteq Names /\ GenerationOK(attempt.aside)
  /\ imports \in Nat /\ faults \in Nat /\ changes \in Nat

----------------------------------------------------------------------------
(* What Resolve, and the choice of files to reuse, read from the disk.     *)

\* fileHash reads a file for its record.
Record(file) == [id |-> file.id, state |-> file.state, stamp |-> file.stamp]
SameHash(file, record) == file.id = record.id /\ file.state = record.state

\* Equal hashes have equal sizes; an equal size and time are not hashed.
ValidFile(files, records, n) ==
  /\ n \in DOMAIN files \cap DOMAIN records
  /\ files[n].stamp = records[n].stamp \/ SameHash(files[n], records[n])

\* The record of a linked file is taken over with the file, when it has its stamp.
ReusedRecord(file, previous) ==
  IF file.stamp = previous.stamp THEN previous ELSE Record(file)

\* A generation resolves when its receipt lists files and all are valid.
Resolves(k) ==
  /\ published[k].receipt # Empty
  /\ \A n \in DOMAIN published[k].receipt :
       ValidFile(published[k].files, published[k].receipt, n)

\* The file is in the pending directory as the checkpoint records it.
Resumable(n) == ValidFile(pending[panel.key].files, pending[panel.key].checkpoint, n)

\* Fault: a file of the same name is enough.
Reusable_AnyIdentity(n) ==
  active # None /\ ValidFile(published[active].files, published[active].receipt, n)
\* The active generation has the file, valid and made from the same source.
Reusable(n) ==
  /\ active # None
  /\ Profile[active][n] = Profile[panel.key][n]
  /\ ValidFile(published[active].files, published[active].receipt, n)

Key == panel.key
Stage == pending[Key]
Stamp(state) == <<imports, state>>
Put(f, n, x) == [m \in DOMAIN f \cup {n} |-> IF m = n THEN x ELSE f[m]]

----------------------------------------------------------------------------
(* How an attempt begins and ends.                                         *)

Ends(ready) == attempt' = NoAttempt /\ panel' = [panel EXCEPT !.ready = ready]
Reaches(step) == attempt' = [attempt EXCEPT !.step = step] /\ panel' = panel
Disk == <<published, pending, active>>
Bounds == <<imports, faults, changes>>

\* StartPreparation: one at a time.
Prepare ==
  /\ panel.up /\ attempt.step = "idle"
  /\ attempt' = [NoAttempt EXCEPT !.step = "inspect"]
  /\ panel' = [panel EXCEPT !.ready = FALSE]
  /\ UNCHANGED <<Disk, Bounds>>

\* Fault: the pending directory is emptied first.
Opened_Emptied(stage) == NoStage
\* MkdirAll keeps what an earlier attempt left there.
Opened(stage) == stage

\* The game is the supported one: nothing to do when the generation resolves.
Inspect ==
  /\ attempt.step = "inspect"
  /\ IF Resolves(Key)
     THEN Ends(TRUE) /\ UNCHANGED <<Disk, Bounds>>
     ELSE /\ Reaches("reuse")
          /\ pending' = [pending EXCEPT ![Key] = Opened(Stage)]
          /\ imports' = imports + 1
          /\ UNCHANGED <<published, active, faults, changes>>

\* Master data is imported before the images, each only when needed.
JobAfter(todo) == IF Master \in todo THEN "master"
                  ELSE IF todo # {} THEN "images" ELSE "validate"

\* Each file, master data first, is resumed, reused from the active generation,
\* or left to the importer.  A reused file is a hard link, or else a copy.
Reuse(n) ==
  LET old == published[active].files[n]
      copy == [old EXCEPT !.made = imports, !.stamp = Stamp(old.state)]
      Decided(records, todo) ==
        attempt' = [attempt EXCEPT
          !.records = records, !.todo = todo,
          !.step = IF DOMAIN records \cup todo = Names THEN JobAfter(todo) ELSE @]
  IN
  /\ attempt.step = "reuse" /\ n \notin DOMAIN attempt.records \cup attempt.todo
  /\ Master \in {n} \cup DOMAIN attempt.records \cup attempt.todo
  /\ \/ /\ Resumable(n)
        /\ Decided(Put(attempt.records, n, Stage.checkpoint[n]), attempt.todo)
        /\ pending' = pending
     \/ /\ ~Resumable(n) /\ Reusable(n)
        /\ \E file \in {old, copy} :
             /\ Decided(Put(attempt.records, n,
                            ReusedRecord(file, published[active].receipt[n])), attempt.todo)
             /\ pending' = [pending EXCEPT ![Key].files = Put(@, n, file)]
     \/ /\ ~Resumable(n) /\ ~Reusable(n)
        /\ Decided(attempt.records, attempt.todo \cup {n})
        /\ pending' = pending
  /\ UNCHANGED <<published, active, panel, Bounds>>

----------------------------------------------------------------------------
(* The importer (external: native/importer), whose output Prepare reads.   *)

Identity(n) == Profile[Key][n]
Save(records) == [Stage EXCEPT !.checkpoint = records]

\* A file changes in every directory that has it by the same link.  Its stamp
\* tells a change that is seen; one that is not leaves it as it was.
Linked(files, n, made) == n \in DOMAIN files /\ files[n].made = made
Changed(files, n, made, state, how) ==
  IF Linked(files, n, made)
  THEN [files EXCEPT ![n].state = state,
                     ![n].stamp = IF how = "seen" THEN Stamp(state) ELSE @] ELSE files
InEveryLink(n, made, state, how) ==
  /\ published' = [k \in Keys |->
                    [published[k] EXCEPT !.files = Changed(@, n, made, state, how)]]
  /\ pending' = [k \in Keys |->
                  [pending[k] EXCEPT !.files = Changed(@, n, made, state, how)]]

\* A file that the importer makes.
Made(n, state) ==
  [id |-> Identity(n), state |-> state, stamp |-> Stamp(state), made |-> imports]

\* Master data is written over what the pending directory has.
ExtractMaster ==
  /\ attempt.step = "master"
  /\ Reaches("extracting")
  /\ IF Master \in DOMAIN Stage.files
     THEN InEveryLink(Master, Stage.files[Master].made, Torn, "seen")
     ELSE /\ pending' = [pending EXCEPT ![Key].files = Put(@, Master, Made(Master, Torn))]
          /\ published' = published
  /\ UNCHANGED <<active, Bounds>>

\* The job succeeds: its files are collected and the checkpoint is written.
MasterExtracted ==
  LET made == Stage.files[Master].made
      records == Put(attempt.records, Master,
                     [id |-> Identity(Master), state |-> Whole, stamp |-> Stamp(Whole)])
      todo == attempt.todo \ {Master}
  IN
  /\ attempt.step = "extracting"
  /\ attempt' = [attempt EXCEPT !.records = records, !.todo = todo, !.step = JobAfter(todo)]
  /\ published' = [k \in Keys |->
       [published[k] EXCEPT !.files = Changed(@, Master, made, Whole, "seen")]]
  /\ pending' = [k \in Keys |->
       [pending[k] EXCEPT !.files = Changed(@, Master, made, Whole, "seen"),
                          !.checkpoint = IF k = Key THEN records ELSE @]]
  /\ UNCHANGED <<active, panel, Bounds>>

Written(n) == n \in DOMAIN Stage.files /\ Stage.files[n].made = imports

\* An image is written beside its name and renamed.
WriteImage(n) ==
  /\ attempt.step = "images" /\ n \in attempt.todo /\ ~Written(n)
  /\ pending' = [pending EXCEPT ![Key].files = Put(@, n, Made(n, Whole))]
  /\ UNCHANGED <<published, active, panel, attempt, Bounds>>

\* Its "file" event: the file is hashed, and every so often a checkpoint saved.
FileEvent(n) ==
  LET records == Put(attempt.records, n, Record(Stage.files[n])) IN
  /\ attempt.step = "images" /\ n \in attempt.todo \ DOMAIN attempt.records
  /\ Written(n)
  /\ attempt' = [attempt EXCEPT !.records = records]
  /\ pending' = IF Cardinality(DOMAIN records) % CheckpointEvery = 0
                THEN [pending EXCEPT ![Key] = Save(records)] ELSE pending
  /\ UNCHANGED <<published, active, panel, Bounds>>

\* The output ends and the importer succeeded.
ImagesEnd ==
  /\ attempt.step = "images" /\ attempt.todo \subseteq DOMAIN attempt.records
  /\ pending' = [pending EXCEPT ![Key] = Save(attempt.records)]
  /\ Reaches("validate")
  /\ UNCHANGED <<published, active, Bounds>>

----------------------------------------------------------------------------
(* Publication.                                                            *)

\* Every output exists; what is not as recorded is hashed again.  The game is
\* inspected a second time.
Validate ==
  /\ attempt.step = "validate" /\ Names \subseteq DOMAIN Stage.files
  /\ attempt' = [attempt EXCEPT !.step = "swap",
       !.records = [n \in DOMAIN Stage.files |->
         IF ValidFile(Stage.files, attempt.records, n)
         THEN attempt.records[n] ELSE Record(Stage.files[n])]]
  /\ UNCHANGED <<Disk, panel, Bounds>>

\* A generation of this key that did not resolve is renamed.
SetAside ==
  /\ attempt.step = "swap"
  /\ attempt' = [attempt EXCEPT !.step = "publish", !.aside = published[Key]]
  /\ published' = [published EXCEPT ![Key] = NoGeneration]
  /\ UNCHANGED <<pending, active, panel, Bounds>>

\* The pending directory gets its name; a directory in the way is an error.
Publish ==
  /\ attempt.step = "publish"
  /\ IF published[Key] = NoGeneration
     THEN /\ published' = [published EXCEPT ![Key] =
                            [files |-> Stage.files, receipt |-> attempt.records]]
          /\ pending' = [pending EXCEPT ![Key] = NoStage]
          /\ attempt' = [NoAttempt EXCEPT !.step = "activate"] /\ panel' = panel
     ELSE Ends(FALSE) /\ UNCHANGED <<published, pending>>
  /\ UNCHANGED <<active, Bounds>>

Activate ==
  /\ attempt.step = "activate"
  /\ active' = Key /\ Reaches("resolve")
  /\ UNCHANGED <<published, pending, Bounds>>

Settle ==
  /\ attempt.step = "resolve"
  /\ IF Resolves(Key) THEN Reaches("prune") ELSE Ends(FALSE)
  /\ UNCHANGED <<Disk, Bounds>>

\* Fault: what active.json names is not asked.
Prunable_Unasked == {k \in Keys \ {Key} : published[k].receipt # Empty}
\* The generations to remove, once the one to keep is the active one.
Prunable == IF active = Key /\ published[Key].receipt # Empty
            THEN {k \in Keys \ {Key} : published[k].receipt # Empty} ELSE {}

Prune ==
  /\ attempt.step = "prune"
  /\ IF Prunable = {}
     THEN Ends(TRUE) /\ published' = published
     ELSE /\ \E k \in Prunable : published' = [published EXCEPT ![k] = NoGeneration]
          /\ UNCHANGED <<attempt, panel>>
  /\ UNCHANGED <<pending, active, Bounds>>

----------------------------------------------------------------------------
(* The panel and its surroundings.                                         *)

\* The launcher opens: Restore makes a generation that resolves available and
\* prunes; otherwise a preparation starts by itself.
Open(k) ==
  /\ ~panel.up
  /\ k # panel.key => changes < MaxChanges
  /\ changes' = IF k = panel.key THEN changes ELSE changes + 1
  /\ panel' = [up |-> TRUE, ready |-> FALSE, key |-> k]
  /\ attempt' = [NoAttempt EXCEPT !.step = IF Resolves(k) THEN "prune" ELSE "inspect"]
  /\ UNCHANGED <<Disk, imports, faults>>

Close ==
  /\ panel.up /\ attempt.step = "idle"
  /\ panel' = [panel EXCEPT !.up = FALSE, !.ready = FALSE]
  /\ UNCHANGED <<Disk, attempt, Bounds>>

Running == attempt.step # "idle"
Fault == faults < MaxFaults /\ faults' = faults + 1 /\ UNCHANGED <<imports, changes>>

\* Any step can return an error: the emulator or a file fails, ten minutes are
\* over or ClosePreparation cancels the work.
StepFails ==
  /\ attempt.step \notin {"idle", "prune"}
  /\ Ends(FALSE) /\ Fault /\ UNCHANGED Disk

\* The importer fails or is killed: what it finished is saved first.
ImporterFails ==
  /\ attempt.step \in {"extracting", "images"}
  /\ pending' = [pending EXCEPT ![Key] = Save(attempt.records)]
  /\ Ends(FALSE) /\ Fault /\ UNCHANGED <<published, active>>

\* The rename fails, and the generation that was set aside comes back.
PublishFails ==
  /\ attempt.step = "publish"
  /\ published' = [published EXCEPT ![Key] = attempt.aside]
  /\ Ends(FALSE) /\ Fault /\ UNCHANGED <<pending, active>>

Crash ==
  /\ panel.up /\ panel' = [panel EXCEPT !.up = FALSE, !.ready = FALSE]
  /\ attempt' = NoAttempt /\ Fault /\ UNCHANGED Disk

\* A removal that is cut, or fails, leaves some of the files, with or without
\* the receipt.  A failure is only logged.
PruneFails ==
  /\ attempt.step = "prune"
  /\ \E k \in Prunable, left \in SUBSET Names, receipt \in BOOLEAN :
       published' = [published EXCEPT ![k] =
         [files |-> Restrict(@.files, DOMAIN @.files \cap left),
          receipt |-> IF receipt THEN @.receipt ELSE Empty]]
  /\ \/ Ends(TRUE)
     \/ /\ panel' = [panel EXCEPT !.up = FALSE, !.ready = FALSE]
        /\ attempt' = NoAttempt
  /\ Fault /\ UNCHANGED <<pending, active>>

\* A whole file is damaged on the disk, in a directory that was set aside as
\* well, with its size and time or without.
Damage ==
  /\ Fault /\ UNCHANGED <<active, panel>>
  /\ \E n \in Names, made \in 0..imports :
       LET holders == {files \in {published[k].files : k \in Keys}
                         \cup {pending[k].files : k \in Keys} \cup {attempt.aside.files} :
                       Linked(files, n, made)} IN
       /\ holders # {} /\ \A files \in holders : files[n].state = Whole
       /\ \E how \in {"seen", "unseen"} :
            LET left == IF how = "seen" /\ ~Running THEN Torn ELSE 2 + faults IN
            /\ InEveryLink(n, made, left, how)
            /\ attempt' = [attempt EXCEPT !.aside.files = Changed(@, n, made, left, how)]

Work == \/ Inspect \/ \E n \in Names : Reuse(n) \/ WriteImage(n) \/ FileEvent(n)
        \/ ExtractMaster \/ MasterExtracted \/ ImagesEnd \/ Validate
        \/ SetAside \/ Publish \/ Activate \/ Settle \/ Prune

Next == \/ Work \/ Prepare \/ Close \/ \E k \in Keys : Open(k)
        \/ StepFails \/ ImporterFails \/ PublishFails \/ Crash \/ PruneFails \/ Damage

Init ==
  /\ published = [k \in Keys |-> NoGeneration] /\ pending = [k \in Keys |-> NoStage]
  /\ active = None
  /\ panel = [up |-> FALSE, ready |-> FALSE, key |-> Installed]
  /\ attempt = NoAttempt /\ imports = 0 /\ faults = 0 /\ changes = 0

\* A preparation runs on; the user opens a closed panel and, as the page asks,
\* prepares again when the data is not ready.
Spec == /\ Init /\ [][Next]_vars
        /\ WF_vars(Work) /\ WF_vars(\E k \in Keys : Open(k)) /\ WF_vars(Prepare)

----------------------------------------------------------------------------
(* What must hold.                                                         *)

(* A generation that resolves has every file of its profile, made from the *)
(* sources of that profile, and whole as far as sizes and times tell,      *)
(* through every cut, retry and reuse.  What is excepted: a damage that    *)
(* leaves the size and the time, after which a file is valid unread        *)
(* (provision.go:226); and one that strikes while an attempt runs, because *)
(* the walk before publication enters the file as it is (:597-616).        *)
ResolvedWhole ==
  \A k \in Keys : Resolves(k) =>
    LET files == published[k].files IN
    /\ DOMAIN files = Names
    /\ \A n \in Names : files[n].id = Profile[k][n] /\ files[n].state # Torn

\* The master data of generation k is the very file that is being prepared.
Shares(k) ==
  /\ Master \in DOMAIN published[k].files \cap DOMAIN Stage.files
  /\ published[k].files[Master].made = Stage.files[Master].made

(* Unless a file of it is damaged, a generation that resolves goes on to,  *)
(* until the complete generation of the installed profile is the one that  *)
(* active.json names: no crash between the renames, active.json and the    *)
(* pruning takes the only one away.  A generation that active.json does    *)
(* not name can also be written over, or replaced, when a hard link makes  *)
(* its master data the file that the attempt prepares; the one it names    *)
(* cannot.                                                                 *)
GenerationsKept ==
  [][\A k \in Keys : Resolves(k) /\ ~Resolves(k)' =>
       \/ Damage
       \/ k # Key /\ active = Key /\ DOMAIN published[Key].receipt = Names
       \/ k # active /\ Shares(k) /\ attempt.step \in {"master", "swap"}]_vars

(* What the checkpoint records and the pending directory has as recorded,  *)
(* no attempt imports again, and the attempts that follow keep it until    *)
(* the generation is published, even those that fail.                      *)
WorkKept ==
  [][\A k \in Keys, n \in Names :
       ValidFile(pending[k].files, pending[k].checkpoint, n) =>
         \/ /\ ValidFile(pending'[k].files, pending'[k].checkpoint, n)
            /\ k = Key => n \notin attempt'.todo \ attempt.todo
         \/ k = Key /\ n \in attempt.todo       \* it was damaged
         \/ published'[k].receipt # Empty
         \/ /\ n \in DOMAIN pending'[k].files
            /\ pending'[k].files[n].state # pending[k].files[n].state]_vars

=============================================================================
