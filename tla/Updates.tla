------------------------------ MODULE Updates ------------------------------
(***************************************************************************)
(* Program updates (internal/updates): the panel downloads a signed        *)
(* release, a detached helper replaces the program while no panel runs and *)
(* either confirms that the new panel is healthy or puts everything back,  *)
(* and the new panel cleans up.  Panel and helper are processes of their   *)
(* own: either can stop anywhere, the user can open the launcher at any    *)
(* moment, and a file of a running program cannot be replaced (Windows).   *)
(*                                                                         *)
(* Releases are numbers and a file is the release it came from.  The       *)
(* database is what it holds: the accounts as the installed release left   *)
(* them ("old"), migrated by a later one ("new"), no account ("empty"), a  *)
(* copy cut short ("torn"), or no file.  It is one file here: its -wal and *)
(* -shm follow it.  There is one helper at a time.                         *)
(***************************************************************************)
EXTENDS Naturals

CONSTANTS Files,        \* the files of a release
          Launcher,     \* bin/ptcgp-launcher.exe
          Version,      \* VERSION
          Selector,     \* data/updates/current.json, of older installers
          Added,        \* files the installed release does not have
          MaxRelease,   \* releases published in a behaviour, from 2
          MaxAttempts, MaxOpens, MaxFaults   \* bounds

ASSUME UpdatesAssumption ==
  /\ {Launcher, Version} \subseteq Files /\ Selector \notin Files
  /\ Added \subseteq Files \ {Launcher, Version}
  /\ MaxRelease \in Nat \ {0, 1} /\ MaxAttempts \in Nat
  /\ MaxOpens \in Nat /\ MaxFaults \in Nat

None == 0                         \* no release, no file, no selection
Old == 1                          \* the release that is installed at first
Releases == 2..MaxRelease
Paths == Files \cup {Selector}
Contents == [Paths -> 0..MaxRelease]
Content(r) == [p \in Paths |-> IF p = Selector \/ (r = Old /\ p \in Added)
                               THEN None ELSE r]
Accounts == {"none", "torn", "empty", "old", "new"}
Attempts == 1..MaxAttempts

NoBackup == [p \in {} |-> None]   \* no directory

\* Fault: every attempt saves into one directory.
Directory_Shared(attempt) == 1
\* MkdirTemp makes a new one for each attempt.
Directory(attempt) == attempt

NoPlan == [version |-> None, staged |-> {}, backups |-> {}, saved |-> {}]
Plans == [version : {None} \cup Releases, staged : SUBSET Releases,
          backups : SUBSET Attempts, saved : SUBSET Releases]

NoPanel == [release  |-> None,     \* the program that runs
            selected |-> None,     \* installation.Program: None is the root
            child    |-> FALSE,    \* the process the helper waits for
            ready    |-> None,     \* PreparedKey
            fetching |-> None,     \* the release Check downloads
            watch    |-> FALSE,    \* Cleanup looks for a plan
            leaving  |-> FALSE]    \* the update was started

Idle == [pc      |-> "idle",
         key     |-> None,         \* the release to install
         old     |-> None,         \* oldProgram, as `selected' of a panel
         hasDB   |-> FALSE,
         todo    |-> {},           \* files still to be replaced or restored
         mode    |-> "install",    \* or "resume", "rollback" of the old program
         restore |-> FALSE,        \* rollback of the accounts as well
         failed  |-> FALSE,        \* a file could not be restored
         child   |-> "none",       \* the panel it started
         plan    |-> NoPlan,
         result  |-> "none"]

VARIABLES
  root,       \* the installation: the release of each file, and the selector
  staged,     \* data/updates/versions: the downloads
  backup,     \* data/updates/backup-*: the files each attempt saved
  accounts,   \* the database
  saved,      \* data/updates/accounts-before-<key>.db
  aside,      \* what databases renamed <database>.failed-* hold
  lastError,  \* last-error.json exists
  plan,       \* cleanup.json
  published,  \* the latest release
  panel,      \* the panel that listens
  helper,     \* the installer process
  confirmed,  \* the release whose panel was last found healthy
  attempts, opens, faults

disk == <<root, staged, backup, accounts, saved, aside, lastError, plan>>
bounds == <<attempts, opens, faults>>
data == <<accounts, saved, aside>>
others == <<staged, published, panel, opens>>   \* what the helper's steps leave alone
vars == <<disk, published, panel, helper, confirmed, bounds>>

Running == panel # NoPanel
Working == helper.pc \notin {"idle", "ended"}

TypeOK ==
  /\ root \in Contents
  /\ staged \in [Releases -> {"none", "partial", "whole"}]
  /\ \A a \in Attempts : backup[a] # NoBackup => a <= attempts
  /\ accounts \in Accounts /\ saved \in [Releases -> Accounts]
  /\ aside \subseteq Accounts /\ lastError \in BOOLEAN /\ plan \in Plans
  /\ published \in {Old} \cup Releases /\ confirmed \in {Old} \cup Releases
  /\ panel.release \in 0..MaxRelease /\ panel.ready \in {None} \cup Releases
  /\ Running => panel.release # None
  /\ Running /\ panel.ready # None => panel.ready <= published
  /\ helper.todo \subseteq Paths
  /\ helper.key = None <=> helper.pc = "idle"
  /\ helper.mode = "rollback" => attempts # 0 /\ backup[Directory(attempts)] # NoBackup
  /\ attempts \in 0..MaxAttempts /\ opens \in 0..MaxOpens /\ faults \in 0..MaxFaults

\* A plain installation, or one whose older installer selected release 2 in its
\* download directory and left the root as it was.
Init ==
  /\ \E selected \in {None, 2} :
       /\ root = [Content(Old) EXCEPT ![Selector] = selected]
       /\ staged = [r \in Releases |-> IF r = selected THEN "whole" ELSE "none"]
       /\ published = IF selected = None THEN Old ELSE selected
  /\ backup = [a \in Attempts |-> NoBackup]
  /\ accounts = "old" /\ saved = [r \in Releases |-> "none"] /\ aside = {}
  /\ lastError = FALSE /\ plan = NoPlan
  /\ panel = NoPanel /\ helper = Idle /\ confirmed = Old
  /\ attempts = 0 /\ opens = 0 /\ faults = 0

Fault == faults < MaxFaults /\ faults' = faults + 1

-----------------------------------------------------------------------------
(* The panel.                                                              *)

\* FollowInstalled and installation.Program: what a launch of the program
\* `from' (None is the root) runs.  Only the root follows the selector.
Followed(from) == IF from = None THEN root[Selector] ELSE from
Runs(from) == IF Followed(from) = None THEN root[Launcher] ELSE Followed(from)

\* store.Open creates the database, or migrates it to the program's schema.
Opened(r) == CASE accounts = "none" -> "empty"
               [] accounts = "old" /\ r # Old -> "new"
               [] OTHER -> accounts

\* runPanel and updates.New, which offers a selected download again.
Launched(from, child) ==
  [NoPanel EXCEPT !.release = Runs(from), !.selected = root[Selector],
                  !.child = child, !.watch = (root[Selector] = None),
                  !.ready = IF root[Selector] # None /\ staged[root[Selector]] = "whole"
                            THEN root[Selector] ELSE None]

\* A damaged database keeps the panel from starting.
Open ==
  /\ ~Running /\ opens < MaxOpens /\ opens' = opens + 1
  /\ accounts # "torn" /\ Runs(None) # None
  /\ accounts' = Opened(Runs(None))
  /\ panel' = Launched(None, FALSE)
  /\ UNCHANGED <<root, staged, backup, saved, aside, lastError, plan, published,
                 helper, confirmed, attempts, faults>>

\* The panel stops: after an update was started, because the user closes it,
\* or because it crashes.
Exit ==
  /\ Running /\ panel' = NoPanel
  /\ UNCHANGED <<disk, published, helper, confirmed, bounds>>

Publish ==
  /\ published < MaxRelease /\ published' = published + 1
  /\ UNCHANGED <<disk, panel, helper, confirmed, bounds>>

\* InstalledVersion, in the directory of the program that runs.
Installed == IF panel.selected = None THEN root[Version] ELSE panel.selected
Migrating == panel.selected # None /\ panel.ready # None

\* Check holds the work lock from here to CheckDone or CheckFails.  Nothing is
\* offered while it downloads into the release's directory.
Check ==
  /\ Running /\ panel.fetching = None /\ ~Migrating
  /\ published > Installed
  /\ panel' = [panel EXCEPT !.fetching = published, !.ready = None]
  /\ staged' = [staged EXCEPT ![published] = IF @ = "none" THEN "partial" ELSE @]
  /\ UNCHANGED <<root, backup, accounts, saved, aside, lastError, plan, published,
                 helper, confirmed, bounds>>

CheckDone ==
  /\ Running /\ panel.fetching # None
  /\ staged' = [staged EXCEPT ![panel.fetching] = "whole"]
  /\ panel' = [panel EXCEPT !.fetching = None, !.ready = panel.fetching]
  /\ UNCHANGED <<root, backup, accounts, saved, aside, lastError, plan, published,
                 helper, confirmed, bounds>>

\* Offline, an error, or nothing newer: nothing is offered any more.
CheckFails ==
  /\ Running /\ ~Migrating
  /\ panel' = [panel EXCEPT !.fetching = None, !.ready = None]
  /\ UNCHANGED <<disk, published, helper, confirmed, bounds>>

\* updateAction, StartInstaller: the helper starts, then the panel shuts down.
Install ==
  /\ Running /\ ~panel.leaving /\ panel.ready # None /\ staged[panel.ready] = "whole"
  /\ ~Working /\ attempts < MaxAttempts
  /\ helper' = [Idle EXCEPT !.pc = "wait", !.key = panel.ready]
  /\ panel' = [panel EXCEPT !.leaving = TRUE]
  /\ UNCHANGED <<disk, published, confirmed, bounds>>

\* Fault: the downloads of the plan are removed without asking PreparedKey.
Spared_None(downloads) == downloads
\* A release prepared meanwhile stays.
Spared(downloads) == downloads \ {panel.ready}

Remove(downloads, backups, copies) ==
  /\ staged' = [r \in Releases |-> IF r \in downloads THEN "none" ELSE staged[r]]
  /\ backup' = [a \in Attempts |-> IF a \in backups THEN NoBackup ELSE backup[a]]
  /\ saved' = [r \in Releases |-> IF r \in copies THEN "none" ELSE saved[r]]

\* A copy the helper has open cannot be removed (Windows).
Held == IF helper.pc \in {"copy", "putting"} THEN plan.saved \cap {helper.key} ELSE {}

\* Cleanup, once per panel, under the work lock, when the helper that wrote the
\* plan is gone (writing it is its last step).  It stops at the first path it
\* cannot remove, copies first and downloads last, and then keeps the plan; so
\* does a panel that finds none in its first minute.
Cleanup ==
  /\ Running /\ panel.watch /\ panel.fetching = None /\ plan # NoPlan
  /\ panel' = [panel EXCEPT !.watch = FALSE]
  /\ \/ /\ root[Version] = plan.version /\ Held = {}
        /\ Remove(Spared(plan.staged), plan.backups, plan.saved)
        /\ plan' = NoPlan /\ UNCHANGED faults
     \/ /\ root[Version] = plan.version
        /\ IF Held = {} THEN Fault ELSE UNCHANGED faults
        /\ \E copies \in SUBSET (plan.saved \ Held), backups \in SUBSET plan.backups,
              downloads \in SUBSET Spared(plan.staged) :
             /\ backups # {} => copies = plan.saved
             /\ downloads # {} => copies = plan.saved /\ backups = plan.backups
             /\ Remove(downloads, backups, copies)
        /\ UNCHANGED plan
     \/ /\ root[Version] # plan.version
        /\ UNCHANGED <<staged, backup, saved, plan, faults>>
  /\ UNCHANGED <<root, accounts, aside, lastError, published, helper, confirmed,
                 attempts, opens>>

-----------------------------------------------------------------------------
(* The helper.                                                             *)

At(pc) == helper.pc = pc
Goto(pc) == helper' = [helper EXCEPT !.pc = pc]
End(result) == helper' = [helper EXCEPT !.pc = "ended", !.result = result]
Fails == End("failed") /\ lastError' = TRUE
\* A panel it started has ended, or was ended when it did not answer.
Rollback(withAccounts) ==
  helper' = [helper EXCEPT !.pc = "restore", !.mode = "rollback", !.todo = Paths,
                           !.restore = withAccounts, !.child = "none"]

\* resumeOnFailure: nothing was replaced yet, the old program starts again.
Resume == helper' = [helper EXCEPT !.pc = "restart", !.mode = "resume"] /\ lastError' = TRUE

\* Apply waits 45 seconds for the panel that started it.
Wait ==
  /\ At("wait")
  /\ \/ /\ ~panel.leaving
        /\ \/ /\ helper' = [helper EXCEPT !.pc = "validate", !.old = root[Selector]]
              /\ UNCHANGED <<lastError, faults>>
           \/ Fault /\ Fails           \* server.json cannot be loaded
     \/ panel.leaving /\ Fault /\ Fails
  /\ UNCHANGED <<root, backup, data, plan, confirmed, attempts, others>>

Validate ==
  /\ At("validate")
  /\ \/ /\ staged[helper.key] = "whole" /\ Goto("accounts")
        /\ UNCHANGED <<lastError, faults>>
     \/ staged[helper.key] # "whole" /\ Resume /\ UNCHANGED faults
     \/ Fault /\ Resume
  /\ UNCHANGED <<root, backup, data, plan, confirmed, attempts, others>>

\* Copy truncates the backup of the accounts and then fills it.
BackUpAccounts ==
  /\ At("accounts")
  /\ IF accounts = "none"
     THEN Goto("save") /\ UNCHANGED saved
     ELSE Goto("copy") /\ saved' = [saved EXCEPT ![helper.key] = "torn"]
  /\ UNCHANGED <<root, backup, accounts, aside, lastError, plan, confirmed, attempts>>
  /\ UNCHANGED <<faults, others>>

CopyAccounts ==
  /\ At("copy")
  /\ \/ /\ saved' = [saved EXCEPT ![helper.key] = accounts]
        /\ helper' = [helper EXCEPT !.pc = "save", !.hasDB = TRUE]
        /\ UNCHANGED <<lastError, faults>>
     \/ Fault /\ Resume /\ UNCHANGED saved
  /\ UNCHANGED <<root, backup, accounts, aside, plan, confirmed, attempts, others>>

\* newReplacement and save: a directory of its own with every original.
SaveFiles ==
  /\ At("save") /\ attempts' = attempts + 1
  /\ \/ /\ backup' = [backup EXCEPT ![Directory(attempts')] = root]
        /\ helper' = [helper EXCEPT !.pc = "replace", !.todo = Files]
        /\ UNCHANGED <<lastError, faults>>
     \/ Fault /\ Resume /\ UNCHANGED backup
  /\ UNCHANGED <<root, data, plan, confirmed, others>>

\* The launcher cannot be replaced while a panel runs from the root.
Busy(p) == p = Launcher /\ Running /\ panel.selected = None

ReplaceFile(f) ==
  /\ At("replace") /\ f \in helper.todo
  /\ \/ /\ ~Busy(f)
        /\ root' = [root EXCEPT ![f] = helper.key]
        /\ helper' = [helper EXCEPT !.todo = @ \ {f}]
        /\ UNCHANGED faults
     \/ Busy(f) /\ Rollback(FALSE) /\ UNCHANGED <<root, faults>>   \* for 45 seconds
     \/ Fault /\ Rollback(FALSE) /\ UNCHANGED root
  /\ UNCHANGED <<backup, data, lastError, plan, confirmed, attempts, others>>

\* Fault: a launcher that is busy is left for later.
AllReplaced_ButLauncher == helper.todo \subseteq {Launcher}

AllReplaced == helper.todo = {}

\* "Clear the legacy selector only after every root file has been replaced."
Unselect ==
  /\ At("replace") /\ AllReplaced
  /\ \/ root' = [root EXCEPT ![Selector] = None] /\ Goto("clear") /\ UNCHANGED faults
     \/ Fault /\ Rollback(FALSE) /\ UNCHANGED root
  /\ UNCHANGED <<backup, data, lastError, plan, confirmed, attempts, others>>

\* Fault: the files that were just saved are cleaned up like the others.
Kept_None == {}
\* planCleanup leaves out the backups of this installation.
Kept == {Directory(attempts)}

PlanCleanup ==
  [version |-> helper.key, staged |-> {r \in Releases : staged[r] # "none"},
   backups |-> {a \in Attempts \ Kept : backup[a] # NoBackup},
   saved   |-> {r \in Releases \ {helper.key} : saved[r] # "none"}]

\* The snapshot is taken before the new panel can download anything.
Clear ==
  /\ At("clear")
  /\ \/ /\ lastError' = FALSE
        /\ helper' = [helper EXCEPT !.pc = "start", !.plan = PlanCleanup]
        /\ UNCHANGED faults
     \/ Fault /\ Rollback(FALSE) /\ UNCHANGED lastError
  /\ UNCHANGED <<root, backup, data, plan, confirmed, attempts, others>>

Start ==
  /\ At("start")
  /\ \/ helper' = [helper EXCEPT !.pc = "confirm", !.child = "starting"] /\ UNCHANGED faults
     \/ Fault /\ Rollback(TRUE)
  /\ UNCHANGED <<root, backup, data, lastError, plan, confirmed, attempts, others>>

\* The panel the helper started opens the database and then the address.  It
\* ends if either fails; a new release may also not work, or never answer.
Target == IF helper.mode = "install" THEN None ELSE helper.old
ChildOpens ==
  /\ helper.child = "starting" /\ Runs(Target) # None
  /\ \/ /\ accounts # "torn" /\ ~Running
        /\ accounts' = Opened(Runs(Target))
        /\ panel' = Launched(Target, Followed(Target) = Target)
        /\ helper' = [helper EXCEPT !.child = "up"]
     \/ /\ accounts = "torn" \/ Running \/ helper.mode = "install"
        /\ accounts' \in {accounts, Opened(Runs(Target))}
        /\ helper' = [helper EXCEPT !.child = "dead"]
        /\ UNCHANGED panel
  /\ UNCHANGED <<root, staged, backup, saved, aside, lastError, plan, published,
                 confirmed, bounds>>

\* waitForPanel accepts health only from the process it started.
Healthy == Running /\ panel.child

Confirm ==
  /\ At("confirm") /\ Healthy
  /\ IF helper.mode = "install" THEN Goto("schedule") /\ confirmed' = helper.key
                             ELSE End("restored") /\ UNCHANGED confirmed
  /\ UNCHANGED <<root, backup, data, lastError, plan, attempts, faults, others>>

\* Fault: an installation whose panel does not start just ends.
Unconfirmed_Ends == Fails
Unconfirmed == IF helper.mode = "install" THEN Rollback(TRUE) /\ UNCHANGED lastError
                                          ELSE Fails

\* The panel ended, or is ended after 30 seconds.
NotConfirmed ==
  /\ At("confirm") /\ ~Healthy
  /\ \/ helper.child \in {"up", "dead"} /\ UNCHANGED faults
     \/ helper.child = "starting" /\ Fault
  /\ Unconfirmed
  /\ UNCHANGED <<root, backup, data, plan, confirmed, attempts, others>>

\* A plan that cannot be written does not undo the installation.
Schedule ==
  /\ At("schedule") /\ End("installed")
  /\ \/ plan' = helper.plan /\ UNCHANGED faults
     \/ Fault /\ UNCHANGED plan
  /\ UNCHANGED <<root, backup, data, lastError, confirmed, attempts, others>>

\* restore goes on after a file that fails, in reverse: the selector first.
RestoreFile(p) ==
  /\ At("restore") /\ p \in helper.todo
  /\ Selector \in helper.todo => p = Selector
  /\ \/ /\ ~Busy(p)
        /\ root' = [root EXCEPT ![p] = backup[Directory(attempts)][p]]
        /\ helper' = [helper EXCEPT !.todo = @ \ {p}]
        /\ UNCHANGED faults
     \/ /\ IF Busy(p) THEN UNCHANGED faults ELSE Fault
        /\ helper' = [helper EXCEPT !.todo = @ \ {p}, !.failed = TRUE]
        /\ UNCHANGED root
  /\ UNCHANGED <<backup, data, lastError, plan, confirmed, attempts, others>>

RestoreDone ==
  /\ At("restore") /\ helper.todo = {}
  /\ IF helper.failed THEN Fails
     ELSE /\ IF helper.restore /\ helper.hasDB THEN Goto("aside") ELSE Goto("report")
          /\ UNCHANGED lastError
  /\ UNCHANGED <<root, backup, data, plan, confirmed, attempts, faults, others>>

\* Fault: the database is removed instead of renamed.
SetAside_Removed(content) == aside
SetAside(content) == aside \cup {content}

\* restoreAccounts renames the database, which fails while a panel has it open,
RenameAccounts ==
  /\ At("aside")
  /\ \/ /\ ~Running \/ accounts = "none"
        /\ aside' = IF accounts = "none" THEN aside ELSE SetAside(accounts)
        /\ accounts' = "none" /\ Goto("putback")
        /\ UNCHANGED <<lastError, faults>>
     \/ /\ IF Running THEN UNCHANGED faults ELSE Fault
        /\ Fails /\ UNCHANGED <<accounts, aside>>
  /\ UNCHANGED <<root, backup, saved, plan, confirmed, attempts, others>>

\* and copies the backup in its place, unless a cleanup removed it meanwhile.
BackupGone == saved[helper.key] = "none"
PutBackAccounts ==
  /\ At("putback")
  /\ \/ /\ ~BackupGone /\ accounts' = "torn"
        /\ Goto("putting") /\ UNCHANGED <<lastError, faults>>
     \/ /\ IF BackupGone THEN UNCHANGED faults ELSE Fault
        /\ Fails /\ UNCHANGED accounts
  /\ UNCHANGED <<root, backup, saved, aside, plan, confirmed, attempts, others>>

AccountsPutBack ==
  /\ At("putting")
  /\ \/ accounts' = saved[helper.key] /\ Goto("report") /\ UNCHANGED <<lastError, faults>>
     \/ Fault /\ Fails /\ UNCHANGED accounts
  /\ UNCHANGED <<root, backup, saved, aside, plan, confirmed, attempts, others>>

Report ==
  /\ At("report") /\ lastError' = TRUE
  /\ \/ Goto("restart") /\ UNCHANGED faults
     \/ Fault /\ End("failed")
  /\ UNCHANGED <<root, backup, data, plan, confirmed, attempts, others>>

Restart ==
  /\ At("restart")
  /\ \/ helper' = [helper EXCEPT !.pc = "confirm", !.child = "starting"]
        /\ UNCHANGED <<lastError, faults>>
     \/ Fault /\ Fails
  /\ UNCHANGED <<root, backup, data, plan, confirmed, attempts, others>>

\* The helper stops anywhere; what it started goes on.
Crash ==
  /\ Working /\ Fault /\ End("crashed")
  /\ UNCHANGED <<root, backup, data, lastError, plan, confirmed, attempts, others>>

HelperStep == \/ Wait \/ Validate \/ BackUpAccounts \/ CopyAccounts \/ SaveFiles
              \/ \E f \in Files : ReplaceFile(f)
              \/ Unselect \/ Clear \/ Start \/ Confirm \/ NotConfirmed \/ Schedule
              \/ \E p \in Paths : RestoreFile(p)
              \/ RestoreDone \/ RenameAccounts \/ PutBackAccounts \/ AccountsPutBack
              \/ Report \/ Restart

PanelStep == \/ Open \/ Exit \/ Check \/ CheckDone \/ CheckFails \/ Install \/ Cleanup

Next == PanelStep \/ HelperStep \/ ChildOpens \/ Crash \/ Publish

Spec == Init /\ [][Next]_vars

\* Commands return within their timeouts, a panel that is leaving exits, and a
\* process that was started runs.
FairSpec == /\ Spec
            /\ WF_vars(HelperStep) /\ WF_vars(ChildOpens)
            /\ WF_vars(Exit /\ panel.leaving)

-----------------------------------------------------------------------------
(* Properties.                                                             *)

\* "replacement keeps original files until the new panel has started
\* successfully" (files.go:17): whatever fails or crashes, and however often it
\* is tried again, every file of the last program that was found healthy is in
\* place or in a backup.
OriginalsKept ==
  \A f \in Files : \/ root[f] = Content(confirmed)[f]
                   \/ \E a \in Attempts : /\ backup[a] # NoBackup
                                          /\ backup[a][f] = Content(confirmed)[f]

\* "Accounts are backed up ... before the replacement program can migrate
\* SQLite" (apply.go:73): no failure, crash or repetition loses the accounts;
\* some file holds them whole, migrated or not.
Copies == {accounts} \cup aside \cup {saved[r] : r \in Releases}
Whole(content) == content \in {"old", "new"}
AccountsKept == \E content \in Copies : Whole(content)

\* An update ends in one of two ways that it reports as good: the new program
\* runs and nothing of the old one is left at the root, or ("Startup failure
\* restores the previous files and database and restarts the previous panel",
\* LOCAL-DATA-UPDATES.md) the old one runs on its own files and on the accounts
\* of the backup (which an older plan may have removed by then).
EndsWhole ==
  [][/\ Confirm /\ helper.mode = "install" =>
          /\ root = Content(helper.key)
          /\ panel.release = helper.key /\ panel.selected = None
     /\ Confirm /\ helper.mode # "install" =>
          panel.selected = helper.old /\ lastError
     /\ Confirm /\ helper.mode = "rollback" =>
          /\ root = backup[Directory(attempts)]
          /\ helper.restore /\ helper.hasDB =>
               saved[helper.key] \in {accounts, "none"}]_vars

\* "Only the most recent program backup and its accounts database backup are
\* retained" (LOCAL-DATA-UPDATES.md): the program backup of an installation that
\* was reported as good is there, and from the report on no cleanup, of its own
\* plan or of an older one, takes either backup.  (Until the report an older plan
\* may still take the accounts backup: see the README.)
RecoveryRetained ==
  [][helper'.result = "installed" =>
       /\ backup'[Directory(attempts')] # NoBackup
       /\ helper.result = "installed" => saved'[helper.key] = saved[helper.key]]_vars

\* "New downloads started by the replacement panel are preserved"
\* (LOCAL-DATA-UPDATES.md): what the panel offers to install is there, whole.
PreparedRetained == Running /\ panel.ready # None => staged[panel.ready] = "whole"

\* After an update was started a panel runs again: the new one, the old one, or
\* one the user opened meanwhile.  A release that does not work is not enough to
\* prevent it; only a command that fails is, or a backup of the accounts that an
\* older plan removed.
PanelReturns ==
  [](faults = 0 /\ ~(At("putback") /\ BackupGone))
    => (helper.pc = "wait" ~> Running /\ ~panel.leaving)

\* "Failed installations retain their recovery files" (LOCAL-DATA-UPDATES.md):
\* until a release is installed, the backup of the accounts that a failed
\* attempt left is not written over unless the database holds them again.
RecoveryFilesKept ==
  [][\A r \in Releases : /\ confirmed = Old
                         /\ Whole(saved[r]) /\ saved'[r] # saved[r]
                         => Whole(accounts)]_vars
=============================================================================
