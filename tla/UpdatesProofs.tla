---------------------------- MODULE UpdatesProofs ----------------------------
(***************************************************************************)
(* Proofs about Updates, for any files, releases, attempts, launches and   *)
(* faults.                                                                 *)
(***************************************************************************)
EXTENDS Updates, TLAPS

Known == {Old} \cup Releases

PanelType == [release : 0..MaxRelease, selected : 0..MaxRelease, child : BOOLEAN,
              ready : {None} \cup Releases, fetching : {None} \cup Releases,
              watch : BOOLEAN, leaving : BOOLEAN]

PCs == {"idle", "wait", "validate", "accounts", "copy", "save", "replace", "clear",
        "start", "confirm", "schedule", "restore", "aside", "putback", "putting",
        "report", "restart", "ended"}

HelperType == [pc : PCs, key : {None} \cup Releases, old : 0..MaxRelease,
               hasDB : BOOLEAN, todo : SUBSET Paths,
               mode : {"install", "resume", "rollback"},
               restore : BOOLEAN, failed : BOOLEAN,
               child : {"none", "starting", "up", "dead"}, plan : Plans,
               result : {"none", "failed", "restored", "installed", "crashed"}]

Types ==
  /\ root \in Contents /\ staged \in [Releases -> {"none", "partial", "whole"}]
  /\ backup \in [Attempts -> Contents \cup {NoBackup}]
  /\ accounts \in Accounts /\ saved \in [Releases -> Accounts] /\ aside \subseteq Accounts
  /\ lastError \in BOOLEAN /\ plan \in Plans
  /\ published \in Known /\ confirmed \in Known
  /\ panel \in PanelType /\ helper \in HelperType
  /\ attempts \in 0..MaxAttempts /\ opens \in 0..MaxOpens /\ faults \in 0..MaxFaults

-----------------------------------------------------------------------------
(* The helper's record.                                                    *)

LEMMA HelperFields ==
  ASSUME helper \in HelperType
  PROVE  /\ helper.pc \in PCs /\ helper.key \in {None} \cup Releases
         /\ helper.todo \subseteq Paths /\ helper.mode \in {"install", "resume", "rollback"}
         /\ helper.plan \in Plans /\ helper.old \in 0..MaxRelease
BY DEF HelperType

\* What a step keeps of it.
Same == helper'.key = helper.key /\ helper'.plan = helper.plan

LEMMA GotoFields ==
  ASSUME helper \in HelperType, NEW pc \in PCs, Goto(pc)
  PROVE  /\ helper' \in HelperType /\ Same /\ helper'.pc = pc
         /\ helper'.mode = helper.mode /\ helper'.todo = helper.todo
         /\ helper'.result = helper.result
BY DEF HelperType, Goto, Same

LEMMA EndFields ==
  ASSUME helper \in HelperType,
         NEW r \in {"none", "failed", "restored", "installed", "crashed"}, End(r)
  PROVE  /\ helper' \in HelperType /\ Same /\ helper'.pc = "ended"
         /\ helper'.mode = helper.mode /\ helper'.todo = helper.todo
         /\ helper'.result = r
BY DEF HelperType, End, Same, PCs

LEMMA RollbackFields ==
  ASSUME helper \in HelperType, NEW b \in BOOLEAN, Rollback(b)
  PROVE  /\ helper' \in HelperType /\ Same /\ helper'.pc = "restore"
         /\ helper'.mode = "rollback" /\ helper'.todo = Paths
         /\ helper'.result = helper.result
BY DEF HelperType, Rollback, Same, PCs

LEMMA ResumeFields ==
  ASSUME helper \in HelperType, Resume
  PROVE  /\ helper' \in HelperType /\ Same /\ helper'.pc = "restart"
         /\ helper'.mode = "resume" /\ helper'.todo = helper.todo
         /\ helper'.result = helper.result /\ lastError' = TRUE
BY DEF HelperType, Resume, Same, PCs

LEMMA FailsFields ==
  ASSUME helper \in HelperType, Fails
  PROVE  /\ helper' \in HelperType /\ Same /\ helper'.pc = "ended"
         /\ helper'.mode = helper.mode /\ helper'.result = "failed" /\ lastError' = TRUE
BY EndFields DEF Fails

\* Where the helper is.
Before == {"wait", "validate", "accounts", "copy", "save"}
Replacing == helper.pc = "replace"
Replaced == \/ helper.pc \in {"clear", "start"}
            \/ helper.pc = "confirm" /\ helper.mode = "install"
Restoring == helper.pc = "restore"
Installing == Before \cup {"replace", "clear", "start", "schedule"}

\* An installation is of a release.
Keyed == helper.key = None <=> helper.pc = "idle"

Recovering == {"restore", "aside", "putback", "putting", "report", "restart"}
Modes == /\ helper.pc \in Installing => helper.mode = "install"
         /\ helper.pc \in Recovering => helper.mode # "install"
         /\ Restoring => helper.mode = "rollback"

\* A step of the helper that leaves the files, backups and plan alone.
Advances ==
  /\ UNCHANGED <<root, backup, plan, confirmed, attempts>> /\ Same
  /\ helper.pc # "idle" /\ helper'.pc # "idle"
  /\ helper'.pc \in Before => helper.pc \in Before
  /\ ~Replacing' /\ (Replaced' => Replaced) /\ helper'.pc # "schedule"
  /\ Restoring' \/ (helper'.mode = "rollback" /\ helper.mode # "rollback") => Replacing \/ Replaced
  /\ Modes'

LEMMA FaultTyped == Types /\ Fault => faults' \in 0..MaxFaults
BY UpdatesAssumption DEF Types, Fault

\* The following lemmas expand where the helper is.
USE DEF Advances, Before, Replacing, Replaced, Restoring, Installing, Recovering, Modes,
        data, others

LEMMA WaitAdvances ==
  ASSUME Types, Modes, Wait PROVE Types' /\ Advances
<1>1. helper.pc = "wait" /\ helper \in HelperType
  BY DEF Wait, At, Types
<1>2. root[Selector] \in 0..MaxRelease
  BY DEF Types, Contents, Paths
<1>3. CASE /\ helper' = [helper EXCEPT !.pc = "validate", !.old = root[Selector]]
           /\ UNCHANGED <<lastError, faults>>
  <2>1. /\ helper' \in HelperType /\ Same /\ helper'.pc = "validate"
        /\ helper'.mode = helper.mode
    BY <1>1, <1>2, <1>3 DEF HelperType, Same, PCs
  <2> QED
    BY <1>1, <1>3, <2>1
    DEF Wait, Types
<1>4. CASE Fault /\ Fails
  BY <1>1, <1>4, FaultTyped, FailsFields
  DEF Wait, Types
<1> QED
  BY <1>3, <1>4 DEF Wait

LEMMA ValidateAdvances ==
  ASSUME Types, Modes, Validate PROVE Types' /\ Advances
<1>1. helper.pc = "validate" /\ helper \in HelperType
  BY DEF Validate, At, Types
<1>2. CASE Goto("accounts") /\ UNCHANGED <<lastError, faults>>
  <2>1. "accounts" \in PCs
    BY DEF PCs
  <2> QED
    BY <1>1, <1>2, <2>1, GotoFields
    DEF Validate, Types
<1>3. CASE Resume /\ (UNCHANGED faults \/ Fault)
  BY <1>1, <1>3, FaultTyped, ResumeFields
  DEF Validate, Types
<1> QED
  BY <1>2, <1>3 DEF Validate

LEMMA BackUpAdvances ==
  ASSUME Types, Modes, BackUpAccounts PROVE Types' /\ Advances
<1>1. helper.pc = "accounts" /\ helper \in HelperType
  BY DEF BackUpAccounts, At, Types
<1>2. saved' \in [Releases -> Accounts]
  BY DEF BackUpAccounts, Types, Accounts
<1>3. PICK pc \in {"save", "copy"} : Goto(pc)
  BY DEF BackUpAccounts
<1>4. pc \in PCs
  BY DEF PCs
<1> QED
  BY <1>1, <1>2, <1>3, <1>4, GotoFields
  DEF BackUpAccounts, Types

LEMMA CopyAdvances ==
  ASSUME Types, Modes, CopyAccounts PROVE Types' /\ Advances
<1>1. helper.pc = "copy" /\ helper \in HelperType
  BY DEF CopyAccounts, At, Types
<1>2. CASE /\ saved' = [saved EXCEPT ![helper.key] = accounts]
           /\ helper' = [helper EXCEPT !.pc = "save", !.hasDB = TRUE]
           /\ UNCHANGED <<lastError, faults>>
  <2>1. /\ helper' \in HelperType /\ Same /\ helper'.pc = "save"
        /\ helper'.mode = helper.mode
    BY <1>1, <1>2 DEF HelperType, Same, PCs
  <2>2. saved' \in [Releases -> Accounts]
    BY <1>2 DEF Types
  <2> QED
    BY <1>1, <1>2, <2>1, <2>2
    DEF CopyAccounts, Types
<1>3. CASE Fault /\ Resume /\ UNCHANGED saved
  BY <1>1, <1>3, FaultTyped, ResumeFields
  DEF CopyAccounts, Types
<1> QED
  BY <1>2, <1>3 DEF CopyAccounts

\* A step that gives up what it replaces.
LEMMA RollbackAdvances ==
  ASSUME Types, Modes, NEW b \in BOOLEAN, Rollback(b), Replacing \/ Replaced,
         UNCHANGED <<root, backup, data, plan, confirmed, attempts, others>>,
         lastError' = lastError, UNCHANGED faults \/ Fault
  PROVE  Types' /\ Advances
<1>1. helper \in HelperType /\ helper.pc # "idle"
  BY DEF Types
<1>2. /\ helper' \in HelperType /\ Same /\ helper'.pc = "restore"
      /\ helper'.mode = "rollback"
  BY <1>1, RollbackFields
<1>3. faults' \in 0..MaxFaults
  BY FaultTyped DEF Types
<1> QED
  BY <1>1, <1>2, <1>3
  DEF Types

LEMMA StartAdvances ==
  ASSUME Types, Modes, Start PROVE Types' /\ Advances
<1>1. helper.pc = "start" /\ helper \in HelperType
  BY DEF Start, At, Types
<1>2. CASE helper' = [helper EXCEPT !.pc = "confirm", !.child = "starting"] /\ UNCHANGED faults
  <2>1. /\ helper' \in HelperType /\ Same /\ helper'.pc = "confirm"
        /\ helper'.mode = helper.mode
    BY <1>1, <1>2 DEF HelperType, Same, PCs
  <2> QED
    BY <1>1, <1>2, <2>1
    DEF Start, Types
<1>3. CASE Fault /\ Rollback(TRUE)
  BY <1>1, <1>3, RollbackAdvances DEF Start
<1> QED
  BY <1>2, <1>3 DEF Start

LEMMA NotConfirmedAdvances ==
  ASSUME Types, Modes, NotConfirmed PROVE Types' /\ Advances
<1>1. helper.pc = "confirm" /\ helper \in HelperType
  BY DEF NotConfirmed, At, Types
<1>2. UNCHANGED faults \/ Fault
  BY DEF NotConfirmed
<1>3. CASE helper.mode = "install"
  <2>1. Rollback(TRUE) /\ lastError' = lastError
    BY <1>3 DEF NotConfirmed, Unconfirmed
  <2> QED
    BY <1>1, <1>2, <1>3, <2>1, RollbackAdvances DEF NotConfirmed
<1>4. CASE helper.mode # "install"
  <2>1. Fails
    BY <1>4 DEF NotConfirmed, Unconfirmed
  <2> QED
    BY <1>1, <1>2, <2>1, FaultTyped, FailsFields
    DEF NotConfirmed, Types
<1> QED
  BY <1>3, <1>4

LEMMA RestoreDoneAdvances ==
  ASSUME Types, Modes, RestoreDone PROVE Types' /\ Advances
<1>1. helper.pc = "restore" /\ helper \in HelperType
  BY DEF RestoreDone, At, Types
<1>2. CASE Fails
  BY <1>1, <1>2, FailsFields
  DEF RestoreDone, Types
<1>3. ASSUME NEW pc \in {"aside", "report"}, Goto(pc), UNCHANGED lastError
      PROVE  Types' /\ Advances
  <2>1. pc \in PCs
    BY DEF PCs
  <2> QED
    BY <1>1, <1>3, <2>1, GotoFields
    DEF RestoreDone, Types
<1> QED
  BY <1>2, <1>3 DEF RestoreDone

LEMMA AccountsAdvance ==
  ASSUME Types, Modes, Keyed, RenameAccounts \/ PutBackAccounts \/ AccountsPutBack
  PROVE  Types' /\ Advances
<1>1. helper.pc \in {"aside", "putback", "putting"} /\ helper \in HelperType
  BY DEF RenameAccounts, PutBackAccounts, AccountsPutBack, At, Types
<1>2. accounts' \in Accounts /\ aside' \subseteq Accounts
  <2>1. helper.key \in Releases
    BY <1>1, HelperFields DEF Types, Keyed
  <2>2. saved[helper.key] \in Accounts /\ accounts \in Accounts /\ aside \subseteq Accounts
    BY <2>1 DEF Types
  <2>3. "none" \in Accounts /\ "torn" \in Accounts
    BY DEF Accounts
  <2>4. CASE RenameAccounts
    BY <2>2, <2>3, <2>4 DEF RenameAccounts, SetAside
  <2>5. CASE PutBackAccounts
    BY <2>2, <2>3, <2>5 DEF PutBackAccounts
  <2>6. CASE AccountsPutBack
    BY <2>2, <2>6 DEF AccountsPutBack
  <2> QED
    BY <2>4, <2>5, <2>6
<1>3. CASE Fails /\ (UNCHANGED faults \/ Fault)
  BY <1>1, <1>2, <1>3, FaultTyped, FailsFields
  DEF RenameAccounts, PutBackAccounts, AccountsPutBack, Types
<1>4. ASSUME NEW pc \in {"putback", "putting", "report"}, Goto(pc), UNCHANGED <<lastError, faults>>
      PROVE  Types' /\ Advances
  <2>1. pc \in PCs
    BY DEF PCs
  <2> QED
    BY <1>1, <1>2, <1>4, <2>1, GotoFields
    DEF RenameAccounts, PutBackAccounts, AccountsPutBack, Types
<1> QED
  BY <1>3, <1>4 DEF RenameAccounts, PutBackAccounts, AccountsPutBack

LEMMA ReportAdvances ==
  ASSUME Types, Modes, Report \/ Restart PROVE Types' /\ Advances
<1>1. helper.pc \in {"report", "restart"} /\ helper \in HelperType
  BY DEF Report, Restart, At, Types
<1>2. CASE Goto("restart") /\ UNCHANGED faults /\ lastError' = TRUE
  <2>1. "restart" \in PCs
    BY DEF PCs
  <2> QED
    BY <1>1, <1>2, <2>1, GotoFields
    DEF Report, Restart, Types
<1>3. CASE Fault /\ End("failed") /\ lastError' = TRUE
  BY <1>1, <1>3, FaultTyped, EndFields
  DEF Report, Restart, Types
<1>4. CASE /\ Restart /\ helper' = [helper EXCEPT !.pc = "confirm", !.child = "starting"]
           /\ UNCHANGED <<lastError, faults>>
  <2>1. helper.pc = "restart"
    BY <1>4 DEF Restart, At
  <2>2. /\ helper' \in HelperType /\ Same /\ helper'.pc = "confirm"
        /\ helper'.mode = helper.mode
    BY <1>1, <1>4 DEF HelperType, Same, PCs
  <2> QED
    BY <1>1, <1>4, <2>1, <2>2
    DEF Restart, Types
<1> QED
  BY <1>2, <1>3, <1>4 DEF Report, Restart, Fails

LEMMA CrashAdvances ==
  ASSUME Types, Modes, Crash PROVE Types' /\ Advances
<1>1. helper.pc \notin {"idle", "ended"} /\ helper \in HelperType
  BY DEF Crash, Working, Types
<1> QED
  BY <1>1, FaultTyped, EndFields
  DEF Crash, Types
HIDE DEF Advances, Before, Replacing, Replaced, Restoring, Installing, Recovering, Modes,
         data, others

-----------------------------------------------------------------------------
(* The panel.                                                              *)

LEMMA PathsKnown == Launcher \in Paths /\ Version \in Paths /\ Selector \in Paths
BY UpdatesAssumption DEF Paths

\* Files in the root or in a backup: what they select was published, and they
\* hold a version.
Sound(files) == /\ files \in Contents /\ files[Selector] \in {None} \cup Releases
                /\ files[Selector] <= published /\ files[Version] # None

LEMMA OpenedTyped ==
  ASSUME Types, NEW r PROVE Opened(r) \in Accounts
BY DEF Types, Opened, Accounts

LEMMA LaunchedTyped ==
  ASSUME Types, Sound(root), NEW from \in 0..MaxRelease, NEW child \in BOOLEAN
  PROVE  /\ Launched(from, child) \in PanelType
         /\ Launched(from, child).release = Runs(from)
         /\ Launched(from, child).fetching = None
         /\ LET r == Launched(from, child).ready
            IN r # None => staged[r] = "whole" /\ r <= published
<1>1. Runs(from) \in 0..MaxRelease /\ root[Selector] \in 0..MaxRelease
  BY PathsKnown, UpdatesAssumption DEF Sound, Contents, Runs, Followed, Releases, None
<1> DEFINE r == IF root[Selector] # None /\ staged[root[Selector]] = "whole"
                THEN root[Selector] ELSE None
<1>2. /\ r \in {None} \cup Releases
      /\ r # None => staged[r] = "whole" /\ r <= published
  BY DEF Sound
<1> DEFINE w == (root[Selector] = None)
<1>3. w \in BOOLEAN /\ 0 \in 0..MaxRelease
  BY UpdatesAssumption
<1>4. Launched(from, child) =
        [NoPanel EXCEPT !.release = Runs(from), !.selected = root[Selector],
                        !.child = child, !.watch = w, !.ready = r]
  BY DEF Launched
<1> HIDE DEF r, w
<1>5. Launched(from, child) =
        [release |-> Runs(from), selected |-> root[Selector], child |-> child,
         ready |-> r, fetching |-> None, watch |-> w, leaving |-> FALSE]
  BY <1>4 DEF NoPanel
<1> QED
  BY <1>1, <1>2, <1>3, <1>5 DEF PanelType

\* What a running panel relies on.
PanelSound ==
  Running => /\ panel.release # None
             /\ panel.ready # None => staged[panel.ready] = "whole" /\ panel.ready <= published
             /\ panel.fetching # None => panel.fetching <= published

\* A step of the panel that leaves the files, the backups and the helper's work
\* alone.
Apart ==
  /\ UNCHANGED <<root, backup, plan, confirmed, attempts>> /\ Same
  /\ helper'.pc = helper.pc /\ helper'.mode = helper.mode /\ helper'.todo = helper.todo
  /\ published' \in Known /\ published' >= published

LEMMA OpenApart ==
  ASSUME Types, Sound(root), Open PROVE Types' /\ Apart /\ PanelSound'
<1>1. /\ Launched(None, FALSE) \in PanelType
      /\ Launched(None, FALSE).release = Runs(None)
      /\ Launched(None, FALSE).fetching = None
      /\ LET r == Launched(None, FALSE).ready
         IN r # None => staged[r] = "whole" /\ r <= published
  <2>1. None \in 0..MaxRelease
    BY UpdatesAssumption DEF None
  <2> QED
    BY <2>1, LaunchedTyped
<1>2. accounts' \in Accounts
  BY OpenedTyped DEF Open
<1>3. opens' \in 0..MaxOpens
  BY UpdatesAssumption DEF Open, Types
<1>4. panel' = Launched(None, FALSE) /\ Runs(None) # None
  BY DEF Open
<1>5. /\ UNCHANGED <<root, staged, backup, saved, aside, lastError, plan, published,
                      helper, confirmed, attempts, faults>>
  BY DEF Open
<1>6. published \in Nat
  BY UpdatesAssumption DEF Types, Known, Old, Releases
<1>7. Types'
  BY <1>1, <1>2, <1>3, <1>4, <1>5 DEF Types
<1>8. Apart
  BY <1>5, <1>6 DEF Types, Apart, Same
<1>9. PanelSound'
  BY <1>1, <1>4, <1>5 DEF PanelSound
<1> QED
  BY <1>7, <1>8, <1>9

LEMMA ChildOpensApart ==
  ASSUME Types, Sound(root), PanelSound, ChildOpens
  PROVE  Types' /\ Apart /\ PanelSound'
<1>1. Target \in 0..MaxRelease /\ helper \in HelperType
  BY HelperFields, UpdatesAssumption DEF Types, Target, None
<1> DEFINE c == (Followed(Target) = Target)
<1>2. c \in BOOLEAN
  OBVIOUS
<1> HIDE DEF c
<1>3. /\ Launched(Target, c) \in PanelType
      /\ Launched(Target, c).release = Runs(Target)
      /\ Launched(Target, c).fetching = None
      /\ LET r == Launched(Target, c).ready
         IN r # None => staged[r] = "whole" /\ r <= published
  BY <1>1, <1>2, LaunchedTyped
<1>4. /\ Runs(Target) # None /\ (panel' = Launched(Target, c) \/ UNCHANGED panel)
      /\ accounts' \in {accounts, Opened(Runs(Target))}
      /\ \E up \in {"up", "dead"} : helper' = [helper EXCEPT !.child = up]
  BY DEF ChildOpens, c
<1>5. accounts' \in Accounts
  BY <1>4, OpenedTyped DEF Types
<1>6. UNCHANGED <<root, staged, backup, saved, aside, lastError, plan, published,
                  confirmed, bounds>>
  BY DEF ChildOpens
<1>7. /\ helper' \in HelperType /\ Same
      /\ helper'.pc = helper.pc /\ helper'.mode = helper.mode /\ helper'.todo = helper.todo
  BY <1>1, <1>4 DEF HelperType, Same
<1>8. published \in Nat
  BY UpdatesAssumption DEF Types, Known, Old, Releases
<1>9. Types'
  BY <1>3, <1>4, <1>5, <1>6, <1>7 DEF Types, bounds
<1>10. Apart
  BY <1>6, <1>7, <1>8 DEF Types, Apart, bounds
<1>11. PanelSound'
  BY <1>3, <1>4, <1>6 DEF PanelSound, Running
<1> QED
  BY <1>9, <1>10, <1>11

LEMMA NoPanelTyped == NoPanel \in PanelType
<1>1. None \in 0..MaxRelease
  BY UpdatesAssumption DEF None
<1> QED
  BY <1>1 DEF NoPanel, PanelType

LEMMA PanelFields ==
  ASSUME panel \in PanelType
  PROVE  /\ panel.release \in 0..MaxRelease /\ panel.selected \in 0..MaxRelease
         /\ panel.ready \in {None} \cup Releases
         /\ panel.fetching \in {None} \cup Releases
BY DEF PanelType

LEMMA OtherStepsApart ==
  ASSUME Types, Sound(root), PanelSound,
         Exit \/ Publish \/ Check \/ CheckDone \/ CheckFails
  PROVE  Types' /\ Apart /\ PanelSound'
<1>1. published \in Nat /\ panel \in PanelType
  BY UpdatesAssumption DEF Types, Known, Old, Releases
<1>2. CASE Exit
  <2>1. panel' = NoPanel /\ UNCHANGED <<disk, published, helper, confirmed, bounds>>
    BY <1>2 DEF Exit
  <2> QED
    BY <1>1, <2>1, NoPanelTyped DEF Types, Apart, Same, disk, bounds, PanelSound, Running
<1>3. CASE Publish
  <2>1. published' \in Known /\ published' = published + 1
    BY <1>1, <1>3, UpdatesAssumption DEF Publish, Types, Known, Old, Releases
  <2>2. UNCHANGED <<disk, panel, helper, confirmed, bounds>>
    BY <1>3 DEF Publish
  <2>3. PanelSound'
    <3>1. /\ panel.ready # None => panel.ready \in Releases
          /\ panel.fetching # None => panel.fetching \in Releases
      BY <1>1, PanelFields
    <3> QED
      BY <1>1, <2>1, <2>2, <3>1, UpdatesAssumption
      DEF PanelSound, Running, Releases, disk
  <2> QED
    BY <1>1, <2>1, <2>2, <2>3 DEF Types, Apart, Same, disk, bounds
<1>4. CASE Check
  <2>1. published \in Releases
    <3>1. Installed \in 0..MaxRelease /\ Installed # 0
      BY <1>1, PanelFields, PathsKnown DEF Installed, Sound, Contents, None
    <3>2. published > Installed
      BY <1>4 DEF Check
    <3> QED
      BY <1>1, <3>1, <3>2, UpdatesAssumption DEF Types, Known, Old, Releases
  <2>2. /\ panel' = [panel EXCEPT !.fetching = published, !.ready = None]
        /\ staged' = [staged EXCEPT ![published] = IF @ = "none" THEN "partial" ELSE @]
        /\ UNCHANGED <<root, backup, accounts, saved, aside, lastError, plan, published,
                       helper, confirmed, bounds>>
        /\ Running
    BY <1>4 DEF Check
  <2>3. /\ panel' \in PanelType /\ panel'.release = panel.release
        /\ panel'.fetching = published /\ panel'.ready = None
    BY <1>1, <2>1, <2>2 DEF PanelType
  <2>4. staged' \in [Releases -> {"none", "partial", "whole"}]
    BY <2>1, <2>2 DEF Types
  <2>5. PanelSound'
    BY <1>1, <2>2, <2>3 DEF PanelSound
  <2> QED
    BY <1>1, <2>2, <2>3, <2>4, <2>5 DEF Types, Apart, Same, bounds
<1>5. CASE CheckDone
  <2>1. /\ staged' = [staged EXCEPT ![panel.fetching] = "whole"]
        /\ panel' = [panel EXCEPT !.fetching = None, !.ready = panel.fetching]
        /\ UNCHANGED <<root, backup, accounts, saved, aside, lastError, plan, published,
                       helper, confirmed, bounds>>
        /\ Running /\ panel.fetching # None
    BY <1>5 DEF CheckDone
  <2>2. panel.fetching \in Releases
    BY <1>1, <2>1, PanelFields
  <2>3. /\ panel' \in PanelType /\ panel'.release = panel.release
        /\ panel'.fetching = None /\ panel'.ready = panel.fetching
    BY <1>1, <2>1, <2>2 DEF PanelType
  <2>4. /\ staged' \in [Releases -> {"none", "partial", "whole"}]
        /\ staged'[panel.fetching] = "whole"
    BY <2>1, <2>2 DEF Types
  <2>5. PanelSound'
    BY <2>1, <2>3, <2>4 DEF PanelSound
  <2> QED
    BY <1>1, <2>1, <2>3, <2>4, <2>5 DEF Types, Apart, Same, bounds
<1>6. CASE CheckFails
  <2>1. /\ panel' = [panel EXCEPT !.fetching = None, !.ready = None]
        /\ UNCHANGED <<disk, published, helper, confirmed, bounds>>
        /\ Running
    BY <1>6 DEF CheckFails
  <2>2. /\ panel' \in PanelType /\ panel'.release = panel.release
        /\ panel'.fetching = None /\ panel'.ready = None
    BY <1>1, <2>1 DEF PanelType
  <2>3. PanelSound'
    BY <2>1, <2>2 DEF PanelSound
  <2> QED
    BY <1>1, <2>1, <2>2, <2>3 DEF Types, Apart, Same, disk, bounds
<1> QED
  BY <1>2, <1>3, <1>4, <1>5, <1>6

-----------------------------------------------------------------------------
(* The invariant of the processes.                                         *)

\* Files are sound wherever they are kept; an attempt has one backup.
Filed == /\ Sound(root)
         /\ \A a \in Attempts : backup[a] # NoBackup => Sound(backup[a]) /\ a <= attempts

\* The originals of this attempt: nothing of them is planned for removal.
Fresh == \A a \in plan.backups \cup helper.plan.backups : a < attempts
Restores == Replacing \/ Replaced \/ Restoring \/ helper.mode = "rollback"
Backed == /\ helper.pc \in Before => attempts < MaxAttempts
          /\ Restores => attempts \in Attempts /\ backup[attempts] # NoBackup

IInv == Types /\ Keyed /\ Modes /\ Filed /\ Fresh /\ Backed /\ PanelSound

\* The originals: a backup that no plan names holds the file of the last program
\* that was found healthy,
Safe(f) == \E a \in Attempts \ plan.backups :
              backup[a] # NoBackup /\ backup[a][f] = Content(confirmed)[f]
\* or the root does; while the root is written a backup must.
Recoverable == \A f \in Files : root[f] = Content(confirmed)[f] \/ Safe(f)
Guarded == Replacing \/ Replaced \/ Restoring => \A f \in Files : Safe(f)
\* What was replaced is of the release that will be confirmed.
Placed == /\ Replacing => \A f \in Files \ helper.todo : root[f] = helper.key
          /\ Replaced \/ helper.pc = "schedule" => \A f \in Files : root[f] = helper.key
          /\ helper.pc = "schedule" => confirmed = helper.key

Originals == Recoverable /\ Guarded /\ Placed

LEMMA SafeUnchanged ==
  ASSUME UNCHANGED <<backup, plan, confirmed>>, NEW f \in Files, Safe(f)
  PROVE  Safe(f)'
BY DEF Safe

LEMMA SoundLater ==
  ASSUME NEW files, Sound(files), published \in Nat, published' \in Nat,
         published' >= published
  PROVE  Sound(files)'
BY UpdatesAssumption DEF Sound, Releases, None

LEMMA PublishedNat == Types => published \in Nat
BY UpdatesAssumption DEF Types, Known, Old, Releases

LEMMA FiledLater ==
  ASSUME Types, Filed, UNCHANGED <<root, backup, attempts>>,
         published' \in Nat, published' >= published
  PROVE  Filed'
<1>1. published \in Nat
  BY PublishedNat
<1>2. Sound(root)'
  BY <1>1, SoundLater DEF Filed, Sound
<1>3. ASSUME NEW a \in Attempts, backup'[a] # NoBackup
      PROVE  Sound(backup[a])' /\ a <= attempts'
  BY <1>1, <1>3, SoundLater DEF Filed, Sound
<1> QED
  BY <1>2, <1>3 DEF Filed

LEMMA ApartKeeps ==
  ASSUME IInv, Types', Apart, PanelSound'
  PROVE  IInv' /\ (Originals => Originals')
<1> USE DEF Apart, Same
<1>1. Keyed' /\ Modes' /\ Fresh' /\ Backed'
  BY DEF IInv, Keyed, Modes, Fresh, Backed, Restores, Replacing, Replaced, Restoring
<1>2. Filed'
  <2>1. published' \in Nat
    BY UpdatesAssumption DEF Known, Old, Releases
  <2> QED
    BY <2>1, FiledLater DEF IInv
<1>3. ASSUME Originals PROVE Originals'
  <2>1. \A f \in Files : Safe(f) => Safe(f)'
    BY SafeUnchanged
  <2>2. Recoverable' /\ Guarded'
    BY <1>3, <2>1 DEF Originals, Recoverable, Guarded, Replacing, Replaced, Restoring
  <2>3. Placed'
    BY <1>3 DEF Originals, Placed, Replacing, Replaced
  <2> QED
    BY <2>2, <2>3 DEF Originals
<1> QED
  BY <1>1, <1>2, <1>3 DEF IInv

LEMMA AdvancesKeeps ==
  ASSUME IInv, Types', Advances, UNCHANGED others
  PROVE  IInv' /\ (Originals => Originals')
<1>1. UNCHANGED <<staged, published, panel, root, backup, plan, confirmed, attempts>>
  BY DEF Advances, others
<1>2. Keyed' /\ Modes' /\ Fresh'
  BY DEF IInv, Keyed, Fresh, Advances, Same
<1>3. Backed'
  BY DEF IInv, Backed, Restores, Advances
<1>4. Filed'
  BY <1>1, PublishedNat, FiledLater DEF IInv
<1>5. PanelSound'
  BY <1>1 DEF IInv, PanelSound, Running
<1>6. ASSUME Originals PROVE Originals'
  <2>1. \A f \in Files : Safe(f) => Safe(f)'
    BY <1>1, SafeUnchanged
  <2>2. Recoverable' /\ Guarded'
    BY <1>1, <1>6, <2>1 DEF Originals, Recoverable, Guarded, Advances
  <2>3. Placed'
    BY <1>1, <1>6 DEF Originals, Placed, Advances, Same
  <2> QED
    BY <2>2, <2>3 DEF Originals
<1> QED
  BY <1>2, <1>3, <1>4, <1>5, <1>6 DEF IInv

-----------------------------------------------------------------------------
(* The steps that change the files, their backups or what is planned.      *)

LEMMA InstallKeeps ==
  ASSUME IInv, Install PROVE IInv' /\ (Originals => Originals')
<1>1. /\ helper' = [Idle EXCEPT !.pc = "wait", !.key = panel.ready]
      /\ panel' = [panel EXCEPT !.leaving = TRUE]
      /\ UNCHANGED <<disk, published, confirmed, bounds>>
      /\ Running /\ panel.ready # None /\ attempts < MaxAttempts
  BY DEF Install
<1>2. panel.ready \in Releases /\ panel \in PanelType
  BY <1>1, PanelFields DEF IInv, Types
<1>3. /\ helper' \in HelperType /\ helper'.pc = "wait" /\ helper'.mode = "install"
      /\ helper'.key = panel.ready /\ helper'.plan = NoPlan
  <2>1. NoPlan \in Plans /\ None \in 0..MaxRelease
    BY UpdatesAssumption DEF NoPlan, Plans, None
  <2> QED
    BY <1>1, <1>2, <2>1 DEF Idle, HelperType, PCs
<1>4. /\ panel' \in PanelType /\ panel'.ready = panel.ready
      /\ panel'.release = panel.release /\ panel'.fetching = panel.fetching
  BY <1>1, <1>2 DEF PanelType
<1>5. Types'
  BY <1>1, <1>3, <1>4 DEF IInv, Types, disk, bounds
<1>6. Keyed' /\ Modes' /\ Fresh' /\ Backed'
  BY <1>1, <1>3
  DEF IInv, Keyed, Modes, Fresh, Backed, Restores, Replacing, Replaced, Restoring,
      Recovering, NoPlan, disk, bounds, Types
<1>7. Filed'
  BY <1>1, PublishedNat, FiledLater DEF IInv, disk, bounds
<1>8. PanelSound'
  BY <1>1, <1>4 DEF IInv, PanelSound, disk
<1>9. ASSUME Originals PROVE Originals'
  <2>1. \A f \in Files : Safe(f) => Safe(f)'
    BY <1>1, SafeUnchanged DEF disk
  <2> QED
    BY <1>1, <1>3, <1>9, <2>1
    DEF Originals, Recoverable, Guarded, Placed, Replacing, Replaced, Restoring, disk
<1> QED
  BY <1>5, <1>6, <1>7, <1>8, <1>9 DEF IInv

\* What a cleanup removes is in its plan, and not what the panel offers.
LEMMA CleanupRemoves ==
  ASSUME Cleanup
  PROVE  \/ UNCHANGED <<staged, backup, saved>>
         \/ \E downloads \in SUBSET Spared(plan.staged), backups \in SUBSET plan.backups,
               copies \in SUBSET plan.saved : Remove(downloads, backups, copies)
<1>1. CASE Remove(Spared(plan.staged), plan.backups, plan.saved)
  BY <1>1
<1>2. ASSUME NEW copies \in SUBSET (plan.saved \ Held), NEW backups \in SUBSET plan.backups,
             NEW downloads \in SUBSET Spared(plan.staged), Remove(downloads, backups, copies)
      PROVE  \E d \in SUBSET Spared(plan.staged), b \in SUBSET plan.backups,
               c \in SUBSET plan.saved : Remove(d, b, c)
  <2>1. copies \in SUBSET plan.saved
    OBVIOUS
  <2> QED
    BY <1>2, <2>1
<1> QED
  BY <1>1, <1>2 DEF Cleanup

LEMMA CleanupKeeps ==
  ASSUME IInv, Cleanup PROVE IInv' /\ (Originals => Originals')
<1>1. /\ panel' = [panel EXCEPT !.watch = FALSE] /\ Running
      /\ UNCHANGED <<root, accounts, aside, lastError, published, helper, confirmed,
                     attempts, opens>>
  BY DEF Cleanup
<1>2. panel \in PanelType /\ plan \in Plans
  BY DEF IInv, Types
<1>3. /\ panel' \in PanelType /\ panel'.ready = panel.ready
      /\ panel'.release = panel.release /\ panel'.fetching = panel.fetching
  BY <1>1, <1>2 DEF PanelType
<1>4. /\ staged' \in [Releases -> {"none", "partial", "whole"}]
      /\ saved' \in [Releases -> Accounts]
      /\ \A r \in Releases : r = panel.ready => staged'[r] = staged[r]
      /\ faults' \in 0..MaxFaults
  <2>1. ASSUME NEW downloads \in SUBSET Spared(plan.staged), NEW backups, NEW copies,
               Remove(downloads, backups, copies)
        PROVE  /\ staged' \in [Releases -> {"none", "partial", "whole"}]
               /\ saved' \in [Releases -> Accounts]
               /\ \A r \in Releases : r = panel.ready => staged'[r] = staged[r]
    BY <2>1 DEF Remove, Spared, IInv, Types, Accounts
  <2>2. UNCHANGED faults \/ Fault
    BY DEF Cleanup
  <2>3. \/ UNCHANGED <<staged, saved>>
        \/ \E downloads \in SUBSET Spared(plan.staged) : \E backups, copies :
             Remove(downloads, backups, copies)
    BY CleanupRemoves
  <2>4. UNCHANGED <<staged, saved>> =>
          /\ staged' \in [Releases -> {"none", "partial", "whole"}]
          /\ saved' \in [Releases -> Accounts]
          /\ \A r \in Releases : r = panel.ready => staged'[r] = staged[r]
    BY DEF IInv, Types
  <2> QED
    BY <2>1, <2>2, <2>3, <2>4, FaultTyped DEF IInv, Types
<1>5. /\ backup' \in [Attempts -> Contents \cup {NoBackup}]
      /\ \A a \in Attempts : /\ backup'[a] \in {NoBackup, backup[a]}
                             /\ a \notin plan.backups => backup'[a] = backup[a]
  <2>1. CASE UNCHANGED backup
    BY <2>1 DEF IInv, Types
  <2>2. ASSUME NEW b \in SUBSET plan.backups,
               backup' = [a \in Attempts |-> IF a \in b THEN NoBackup ELSE backup[a]]
        PROVE  <1>5
    BY <2>2 DEF IInv, Types
  <2> QED
    BY <2>1, <2>2, CleanupRemoves DEF Remove
<1>6. plan' \in {plan, NoPlan} /\ plan' \in Plans
  <2>1. NoPlan \in Plans
    BY DEF NoPlan, Plans
  <2> QED
    BY <1>2, <2>1 DEF Cleanup
<1>7. plan'.backups \subseteq plan.backups
  BY <1>6 DEF NoPlan
<1>8. Types'
  BY <1>1, <1>3, <1>4, <1>5, <1>6 DEF IInv, Types
<1>9. Keyed' /\ Modes'
  BY <1>1 DEF IInv, Keyed, Modes, Restoring
<1>10. Fresh'
  BY <1>1, <1>7 DEF IInv, Fresh
<1>11. Backed'
  <2>1. attempts \notin plan.backups
    BY DEF IInv, Fresh, Types
  <2> QED
    BY <1>1, <1>5, <2>1 DEF IInv, Backed, Restores, Replacing, Replaced, Restoring
<1>12. Filed'
  BY <1>1, <1>5 DEF IInv, Filed, Sound
<1>13. PanelSound'
  <2>1. panel.ready \in {None} \cup Releases
    BY <1>2, PanelFields
  <2> QED
    BY <1>1, <1>3, <1>4, <2>1 DEF IInv, PanelSound
<1>14. ASSUME Originals PROVE Originals'
  <2>1. \A f \in Files : Safe(f) => Safe(f)'
    BY <1>1, <1>5, <1>7 DEF Safe
  <2> QED
    BY <1>1, <1>14, <2>1
    DEF Originals, Recoverable, Guarded, Placed, Replacing, Replaced, Restoring
<1> QED
  BY <1>8, <1>9, <1>10, <1>11, <1>12, <1>13, <1>14 DEF IInv

LEMMA SaveFilesKeeps ==
  ASSUME IInv, SaveFiles PROVE IInv' /\ (Originals => Originals')
<1>1. /\ helper.pc = "save" /\ helper.mode = "install" /\ helper \in HelperType
      /\ attempts' = attempts + 1 /\ attempts \in Nat /\ attempts' \in Attempts
      /\ attempts' \in 0..MaxAttempts
      /\ UNCHANGED <<root, data, plan, confirmed, others>>
  BY UpdatesAssumption
  DEF SaveFiles, At, IInv, Types, Modes, Backed, Before, Installing, Attempts
<1>2. /\ backup[attempts'] = NoBackup /\ attempts' \notin plan.backups
      /\ \A a \in plan.backups \cup helper.plan.backups : a < attempts'
      /\ \A a \in Attempts : a <= attempts => a <= attempts'
  <2>1. ~(attempts' <= attempts) /\ ~(attempts' < attempts)
    BY <1>1
  <2>2. plan.backups \cup helper.plan.backups \subseteq Attempts
    BY HelperFields DEF IInv, Types, Plans
  <2> QED
    BY <1>1, <2>1, <2>2 DEF IInv, Filed, Fresh, Attempts
<1>3. root \in Contents /\ root # NoBackup /\ Sound(root)
  <2>1. \A c \in Contents : c # NoBackup
    BY PathsKnown DEF Contents, NoBackup
  <2> QED
    BY <2>1 DEF IInv, Types, Filed
<1>4. CASE /\ backup' = [backup EXCEPT ![Directory(attempts')] = root]
           /\ helper' = [helper EXCEPT !.pc = "replace", !.todo = Files]
           /\ UNCHANGED <<lastError, faults>>
  <2>1. /\ helper' \in HelperType /\ Same /\ helper'.pc = "replace"
        /\ helper'.mode = "install" /\ helper'.todo = Files
    BY <1>1, <1>4 DEF HelperType, Same, PCs, Paths
  <2>2. /\ backup' \in [Attempts -> Contents \cup {NoBackup}]
        /\ backup'[attempts'] = root
        /\ \A a \in Attempts : a # attempts' => backup'[a] = backup[a]
    BY <1>1, <1>3, <1>4 DEF IInv, Types, Directory
  <2>3. Types'
    BY <1>1, <1>4, <2>1, <2>2 DEF IInv, Types, data, others
  <2>4. Keyed' /\ Modes' /\ Fresh' /\ Backed'
    BY <1>1, <1>2, <1>3, <2>1, <2>2
    DEF IInv, Keyed, Modes, Fresh, Backed, Restores, Restoring, Installing,
        Recovering, Before, Same
  <2>5. Filed'
    BY <1>1, <1>2, <1>3, <2>2 DEF IInv, Filed, Sound, others
  <2>6. PanelSound'
    BY <1>1 DEF IInv, PanelSound, Running, others
  <2>7. ASSUME Originals PROVE Originals'
    <3>1. ASSUME NEW f \in Files PROVE Safe(f)'
      <4>1. CASE root[f] = Content(confirmed)[f]
        BY <1>1, <1>2, <1>3, <2>2, <4>1 DEF Safe
      <4>2. CASE Safe(f)
        <5>1. PICK a \in Attempts \ plan.backups :
                backup[a] # NoBackup /\ backup[a][f] = Content(confirmed)[f]
          BY <4>2 DEF Safe
        <5> QED
          BY <1>1, <1>2, <2>2, <5>1 DEF Safe
      <4> QED
        BY <2>7, <4>1, <4>2 DEF Originals, Recoverable
    <3>2. Placed'
      BY <2>1 DEF Placed, Replacing, Replaced
    <3> QED
      BY <3>1, <3>2 DEF Originals, Recoverable, Guarded
  <2> QED
    BY <2>3, <2>4, <2>5, <2>6, <2>7 DEF IInv
<1>5. CASE Fault /\ Resume /\ UNCHANGED backup
  <2>1. /\ helper' \in HelperType /\ Same /\ helper'.pc = "restart"
        /\ helper'.mode = "resume" /\ lastError' = TRUE
    BY <1>1, <1>5, ResumeFields
  <2>2. Types'
    BY <1>1, <1>5, <2>1, FaultTyped DEF IInv, Types, data, others
  <2>3. Keyed' /\ Modes' /\ Fresh' /\ Backed'
    BY <1>1, <1>2, <2>1
    DEF IInv, Keyed, Modes, Fresh, Backed, Restores, Replacing, Replaced, Restoring,
        Installing, Recovering, Before, Same
  <2>4. Filed'
    BY <1>1, <1>2, <1>5 DEF IInv, Filed, Sound, others
  <2>5. PanelSound'
    BY <1>1 DEF IInv, PanelSound, Running, others
  <2>6. ASSUME Originals PROVE Originals'
    <3>1. \A f \in Files : Safe(f) => Safe(f)'
      BY <1>1, <1>5, SafeUnchanged
    <3> QED
      BY <1>1, <2>1, <2>6, <3>1
      DEF Originals, Recoverable, Guarded, Placed, Replacing, Replaced, Restoring
  <2> QED
    BY <2>2, <2>3, <2>4, <2>5, <2>6 DEF IInv
<1> QED
  BY <1>4, <1>5 DEF SaveFiles

\* What is written at the root keeps it sound.
LEMMA RootFiled ==
  ASSUME IInv, NEW p \in Paths, NEW r \in 0..MaxRelease,
         p = Selector => r \in {None} \cup Releases /\ r <= published,
         p = Version => r # None,
         root' = [root EXCEPT ![p] = r], UNCHANGED <<backup, attempts, published>>
  PROVE  Filed' /\ root' \in Contents
BY PathsKnown, UpdatesAssumption DEF IInv, Filed, Sound, Contents

\* A step that only gives up the replacement.
LEMMA RollbackKeeps ==
  ASSUME IInv, NEW b \in BOOLEAN, Rollback(b), Replacing \/ Replaced,
         UNCHANGED <<root, backup, data, plan, confirmed, attempts, others>>,
         lastError' = lastError, UNCHANGED faults \/ Fault
  PROVE  IInv' /\ (Originals => Originals')
<1>1. Types' /\ Advances
  BY RollbackAdvances DEF IInv
<1> QED
  BY <1>1, AdvancesKeeps

LEMMA KeyInstalled ==
  ASSUME IInv, Replacing PROVE helper.key \in Releases
BY HelperFields DEF IInv, Keyed, Types, Replacing

LEMMA ReplaceFileKeeps ==
  ASSUME IInv, NEW f \in Files, ReplaceFile(f) PROVE IInv' /\ (Originals => Originals')
<1>1. /\ helper.pc = "replace" /\ helper.mode = "install" /\ helper \in HelperType
      /\ UNCHANGED <<backup, data, lastError, plan, confirmed, attempts, others>>
      /\ helper.key \in Releases /\ Replacing
  BY KeyInstalled DEF ReplaceFile, At, IInv, Types, Modes, Installing, Replacing
<1>2. CASE /\ root' = [root EXCEPT ![f] = helper.key]
           /\ helper' = [helper EXCEPT !.todo = @ \ {f}]
           /\ UNCHANGED faults
  <2>1. /\ helper' \in HelperType /\ Same /\ helper'.pc = "replace"
        /\ helper'.mode = "install" /\ helper'.todo = helper.todo \ {f}
    BY <1>1, <1>2 DEF HelperType, Same
  <2>2. Filed' /\ root' \in Contents
    <3>1. f \in Paths /\ f # Selector /\ helper.key \in 0..MaxRelease /\ helper.key # None
      BY <1>1, UpdatesAssumption DEF Paths, Releases, None
    <3> QED
      BY <1>1, <1>2, <3>1, RootFiled DEF others
  <2>3. Types'
    BY <1>1, <1>2, <2>1, <2>2 DEF IInv, Types, data, others
  <2>4. Keyed' /\ Modes' /\ Fresh' /\ Backed'
    BY <1>1, <2>1
    DEF IInv, Keyed, Modes, Fresh, Backed, Restores, Replacing, Restoring, Installing,
        Recovering, Before, Same
  <2>5. PanelSound'
    BY <1>1 DEF IInv, PanelSound, Running, others
  <2>6. ASSUME Originals PROVE Originals'
    <3>1. \A g \in Files : Safe(g)'
      BY <1>1, <2>6, SafeUnchanged DEF Originals, Guarded
    <3>2. \A g \in Files \ helper'.todo : root'[g] = helper'.key
      BY <1>1, <1>2, <2>1, <2>6 DEF Originals, Placed, Same, IInv, Types, Contents, Paths
    <3> QED
      BY <2>1, <3>1, <3>2 DEF Originals, Recoverable, Guarded, Placed, Replaced, Replacing
  <2> QED
    BY <2>2, <2>3, <2>4, <2>5, <2>6 DEF IInv
<1>3. CASE Rollback(FALSE) /\ UNCHANGED root /\ (UNCHANGED faults \/ Fault)
  BY <1>1, <1>3, RollbackKeeps
<1> QED
  BY <1>2, <1>3 DEF ReplaceFile

LEMMA UnselectKeeps ==
  ASSUME IInv, Unselect PROVE IInv' /\ (Originals => Originals')
<1>1. /\ helper.pc = "replace" /\ helper.mode = "install" /\ helper \in HelperType
      /\ helper.todo = {}
      /\ UNCHANGED <<backup, data, lastError, plan, confirmed, attempts, others>>
      /\ Replacing
  BY DEF Unselect, At, AllReplaced, IInv, Types, Modes, Installing, Replacing
<1>2. CASE root' = [root EXCEPT ![Selector] = None] /\ Goto("clear") /\ UNCHANGED faults
  <2>1. /\ helper' \in HelperType /\ Same /\ helper'.pc = "clear"
        /\ helper'.mode = "install"
    <3>1. "clear" \in PCs
      BY DEF PCs
    <3> QED
      BY <1>1, <1>2, <3>1, GotoFields
  <2>2. Filed' /\ root' \in Contents
    <3>1. None \in 0..MaxRelease /\ None <= published /\ Selector # Version
      BY UpdatesAssumption, PublishedNat DEF IInv, None
    <3> QED
      BY <1>1, <1>2, <3>1, PathsKnown, RootFiled DEF others
  <2>3. Types'
    BY <1>1, <1>2, <2>1, <2>2 DEF IInv, Types, data, others
  <2>4. Keyed' /\ Modes' /\ Fresh' /\ Backed'
    BY <1>1, <2>1
    DEF IInv, Keyed, Modes, Fresh, Backed, Restores, Replacing, Restoring, Installing,
        Recovering, Before, Same
  <2>5. PanelSound'
    BY <1>1 DEF IInv, PanelSound, Running, others
  <2>6. ASSUME Originals PROVE Originals'
    <3>1. \A g \in Files : Safe(g)'
      BY <1>1, <2>6, SafeUnchanged DEF Originals, Guarded
    <3>2. \A g \in Files : root'[g] = helper'.key
      <4>1. \A g \in Files : g # Selector
        BY UpdatesAssumption
      <4> QED
        BY <1>1, <1>2, <2>1, <2>6, <4>1
        DEF Originals, Placed, Same, IInv, Types, Contents, Paths
    <3> QED
      BY <2>1, <3>1, <3>2 DEF Originals, Recoverable, Guarded, Placed, Replacing
  <2> QED
    BY <2>2, <2>3, <2>4, <2>5, <2>6 DEF IInv
<1>3. CASE Fault /\ Rollback(FALSE) /\ UNCHANGED root
  BY <1>1, <1>3, RollbackKeeps
<1> QED
  BY <1>2, <1>3 DEF Unselect

LEMMA ClearKeeps ==
  ASSUME IInv, Clear PROVE IInv' /\ (Originals => Originals')
<1>1. /\ helper.pc = "clear" /\ helper.mode = "install" /\ helper \in HelperType
      /\ helper.key \in Releases
      /\ UNCHANGED <<root, backup, data, plan, confirmed, attempts, others>>
      /\ Replaced
  BY HelperFields DEF Clear, At, IInv, Types, Keyed, Modes, Installing, Replaced
<1>2. CASE /\ lastError' = FALSE
           /\ helper' = [helper EXCEPT !.pc = "start", !.plan = PlanCleanup]
           /\ UNCHANGED faults
  <2>1. /\ PlanCleanup \in Plans
        /\ \A a \in PlanCleanup.backups : a < attempts
    <3>1. \A a \in Attempts \ Kept : backup[a] # NoBackup => a <= attempts /\ a # attempts
      BY DEF IInv, Filed, Kept, Directory
    <3>2. \A a \in Attempts : a \in Nat /\ attempts \in Nat
      BY UpdatesAssumption DEF IInv, Types, Attempts
    <3> QED
      BY <1>1, <3>1, <3>2 DEF PlanCleanup, Plans
  <2> HIDE DEF PlanCleanup
  <2>2. /\ helper' \in HelperType /\ helper'.pc = "start" /\ helper'.mode = "install"
        /\ helper'.key = helper.key /\ helper'.plan = PlanCleanup
    BY <1>1, <1>2, <2>1 DEF HelperType, PCs
  <2>3. Types'
    BY <1>1, <1>2, <2>2 DEF IInv, Types, data, others
  <2>4. Keyed' /\ Modes' /\ Fresh' /\ Backed'
    BY <1>1, <2>1, <2>2
    DEF IInv, Keyed, Modes, Fresh, Backed, Restores, Restoring, Installing,
        Recovering, Before
  <2>5. Filed'
    BY <1>1 DEF IInv, Filed, Sound, others
  <2>6. PanelSound'
    BY <1>1 DEF IInv, PanelSound, Running, others
  <2>7. ASSUME Originals PROVE Originals'
    <3>1. \A f \in Files : Safe(f) => Safe(f)'
      BY <1>1, SafeUnchanged
    <3>2. Recoverable' /\ Guarded'
      BY <1>1, <2>7, <3>1 DEF Originals, Recoverable, Guarded
    <3>3. Placed'
      BY <1>1, <2>2, <2>7 DEF Originals, Placed, Replacing
    <3> QED
      BY <3>2, <3>3 DEF Originals
  <2> QED
    BY <2>3, <2>4, <2>5, <2>6, <2>7 DEF IInv
<1>3. CASE Fault /\ Rollback(FALSE) /\ UNCHANGED lastError
  BY <1>1, <1>3, RollbackKeeps
<1> QED
  BY <1>2, <1>3 DEF Clear

LEMMA ConfirmKeeps ==
  ASSUME IInv, Confirm PROVE IInv' /\ (Originals => Originals')
<1>1. /\ helper.pc = "confirm" /\ helper \in HelperType
      /\ helper.key \in Releases
      /\ UNCHANGED <<root, backup, data, lastError, plan, attempts, faults, others>>
  BY HelperFields DEF Confirm, At, IInv, Types, Keyed
<1>2. CASE helper.mode = "install"
  <2>1. Goto("schedule") /\ confirmed' = helper.key /\ Replaced
    BY <1>1, <1>2 DEF Confirm, Replaced
  <2>2. /\ helper' \in HelperType /\ Same /\ helper'.pc = "schedule"
        /\ helper'.mode = "install"
    <3>1. "schedule" \in PCs
      BY DEF PCs
    <3> QED
      BY <1>1, <1>2, <2>1, <3>1, GotoFields
  <2>3. Types'
    BY <1>1, <2>1, <2>2 DEF IInv, Types, data, others, Known
  <2>4. Keyed' /\ Modes' /\ Fresh' /\ Backed'
    BY <1>1, <2>2
    DEF IInv, Keyed, Modes, Fresh, Backed, Restores, Replacing, Replaced, Restoring,
        Installing, Recovering, Before, Same
  <2>5. Filed'
    BY <1>1 DEF IInv, Filed, Sound, others
  <2>6. PanelSound'
    BY <1>1 DEF IInv, PanelSound, Running, others
  <2>7. ASSUME Originals PROVE Originals'
    <3>1. Placed'
      BY <1>1, <2>1, <2>2, <2>7 DEF Originals, Placed, Replacing, Same
    <3>2. \A f \in Files : root'[f] = helper.key
      BY <1>1, <2>1, <2>7 DEF Originals, Placed
    <3>3. \A f \in Files : Content(helper.key)[f] = helper.key
      BY <1>1, UpdatesAssumption DEF Content, Paths, Old, Releases
    <3> QED
      BY <2>1, <2>2, <3>1, <3>2, <3>3
      DEF Originals, Recoverable, Guarded, Replacing, Replaced, Restoring
  <2> QED
    BY <2>3, <2>4, <2>5, <2>6, <2>7 DEF IInv
<1>3. CASE helper.mode # "install"
  <2>1. End("restored") /\ UNCHANGED confirmed
    BY <1>3 DEF Confirm
  <2>2. /\ helper' \in HelperType /\ Same /\ helper'.pc = "ended"
        /\ helper'.mode = helper.mode
    BY <1>1, <2>1, EndFields
  <2>3. Types'
    BY <1>1, <2>1, <2>2 DEF IInv, Types, data, others
  <2>4. Advances
    BY <1>1, <2>1, <2>2
    DEF Advances, Before, Replacing, Replaced, Restoring, Modes, Installing, Recovering
  <2>5. UNCHANGED others
    BY <1>1
  <2> QED
    BY <2>3, <2>4, <2>5, AdvancesKeeps
<1> QED
  BY <1>2, <1>3

LEMMA ScheduleKeeps ==
  ASSUME IInv, Schedule PROVE IInv' /\ (Originals => Originals')
<1>1. /\ helper.pc = "schedule" /\ helper.mode = "install" /\ helper \in HelperType
      /\ helper.key \in Releases /\ End("installed")
      /\ UNCHANGED <<root, backup, data, lastError, confirmed, attempts, others>>
      /\ plan' \in {plan, helper.plan} /\ (UNCHANGED faults \/ Fault)
  BY HelperFields DEF Schedule, At, IInv, Types, Keyed, Modes, Installing
<1>2. /\ helper' \in HelperType /\ Same /\ helper'.pc = "ended"
      /\ helper'.mode = "install"
  BY <1>1, EndFields
<1>3. Types'
  BY <1>1, <1>2, FaultTyped, HelperFields DEF IInv, Types, data, others
<1>4. Keyed' /\ Modes' /\ Fresh' /\ Backed'
  BY <1>1, <1>2
  DEF IInv, Keyed, Modes, Fresh, Backed, Restores, Replacing, Replaced, Restoring,
      Installing, Recovering, Before, Same
<1>5. Filed'
  BY <1>1 DEF IInv, Filed, Sound, others
<1>6. PanelSound'
  BY <1>1 DEF IInv, PanelSound, Running, others
<1>7. ASSUME Originals PROVE Originals'
  <2>1. \A f \in Files : root'[f] = Content(confirmed')[f]
    <3>1. \A f \in Files : root'[f] = helper.key /\ confirmed' = helper.key
      BY <1>1, <1>7 DEF Originals, Placed
    <3>2. \A f \in Files : Content(helper.key)[f] = helper.key
      BY <1>1, UpdatesAssumption DEF Content, Paths, Old, Releases
    <3> QED
      BY <3>1, <3>2
  <2> QED
    BY <1>2, <2>1
    DEF Originals, Recoverable, Guarded, Placed, Replacing, Replaced, Restoring
<1> QED
  BY <1>3, <1>4, <1>5, <1>6, <1>7 DEF IInv

LEMMA RestoreFileKeeps ==
  ASSUME IInv, NEW p \in Paths, RestoreFile(p) PROVE IInv' /\ (Originals => Originals')
<1>1. /\ helper.pc = "restore" /\ helper.mode = "rollback" /\ helper \in HelperType
      /\ UNCHANGED <<backup, data, lastError, plan, confirmed, attempts, others>>
      /\ attempts \in Attempts /\ backup[attempts] # NoBackup /\ Restoring
      /\ (UNCHANGED faults \/ Fault)
  BY DEF RestoreFile, At, IInv, Types, Modes, Backed, Restores, Restoring
<1>2. \E t \in {TRUE, helper.failed} :
        helper' = [helper EXCEPT !.todo = @ \ {p}, !.failed = t]
  <2>1. CASE helper' = [helper EXCEPT !.todo = @ \ {p}]
    <3>1. helper' = [helper EXCEPT !.todo = @ \ {p}, !.failed = helper.failed]
      BY <1>1, <2>1 DEF HelperType
    <3> QED
      BY <3>1
  <2> QED
    BY <2>1 DEF RestoreFile
<1>3. /\ helper' \in HelperType /\ Same /\ helper'.pc = "restore"
      /\ helper'.mode = "rollback"
  <2>1. PICK t \in {TRUE, helper.failed} :
          helper' = [helper EXCEPT !.todo = @ \ {p}, !.failed = t]
    BY <1>2
  <2>2. t \in BOOLEAN
    BY <1>1 DEF HelperType
  <2> QED
    BY <1>1, <2>1, <2>2 DEF HelperType, Same
<1>4. Filed' /\ root' \in Contents
  <2>1. CASE UNCHANGED root
    BY <1>1, <2>1 DEF IInv, Filed, Sound, others
  <2>2. CASE root' = [root EXCEPT ![p] = backup[attempts][p]]
    <3>1. Sound(backup[attempts])
      BY <1>1 DEF IInv, Filed
    <3>2. /\ backup[attempts][p] \in 0..MaxRelease
          /\ p = Selector => /\ backup[attempts][p] \in {None} \cup Releases
                             /\ backup[attempts][p] <= published
          /\ p = Version => backup[attempts][p] # None
      BY <3>1 DEF Sound, Contents
    <3> QED
      BY <1>1, <2>2, <3>2, RootFiled DEF others
  <2> QED
    BY <2>1, <2>2 DEF RestoreFile, Directory
<1>5. Types'
  BY <1>1, <1>3, <1>4, FaultTyped DEF IInv, Types, data, others
<1>6. Keyed' /\ Modes' /\ Fresh' /\ Backed'
  BY <1>1, <1>3
  DEF IInv, Keyed, Modes, Fresh, Backed, Restores, Installing, Recovering, Before, Same
<1>7. PanelSound'
  BY <1>1 DEF IInv, PanelSound, Running, others
<1>8. ASSUME Originals PROVE Originals'
  <2>1. \A f \in Files : Safe(f)'
    BY <1>1, <1>8, SafeUnchanged DEF Originals, Guarded
  <2> QED
    BY <1>3, <2>1 DEF Originals, Recoverable, Guarded, Placed, Replacing, Replaced
<1> QED
  BY <1>4, <1>5, <1>6, <1>7, <1>8 DEF IInv

-----------------------------------------------------------------------------
(* The theorems.                                                           *)

LEMMA InitHolds == Init => IInv /\ Originals
<1> SUFFICES ASSUME Init PROVE IInv /\ Originals
  OBVIOUS
<1>1. PICK selected \in {None, 2} :
        /\ root = [Content(Old) EXCEPT ![Selector] = selected]
        /\ staged = [r \in Releases |-> IF r = selected THEN "whole" ELSE "none"]
        /\ published = IF selected = None THEN Old ELSE selected
  BY DEF Init
<1>2. /\ backup = [a \in Attempts |-> NoBackup]
      /\ accounts = "old" /\ saved = [r \in Releases |-> "none"] /\ aside = {}
      /\ lastError = FALSE /\ plan = NoPlan
      /\ panel = NoPanel /\ helper = Idle /\ confirmed = Old
      /\ attempts = 0 /\ opens = 0 /\ faults = 0
  BY DEF Init
<1>3. /\ root \in Contents /\ root[Selector] = selected
      /\ \A f \in Files : root[f] = Content(Old)[f]
      /\ root[Version] = Old
  <2>1. Content(Old) \in Contents
    BY UpdatesAssumption DEF Content, Contents, Old, None
  <2>2. selected \in 0..MaxRelease
    BY UpdatesAssumption DEF None
  <2> QED
    BY <1>1, <2>1, <2>2, UpdatesAssumption, PathsKnown DEF Content, Contents, Paths
<1>4. NoPlan \in Plans /\ helper \in HelperType
  <2>1. NoPlan \in Plans /\ None \in 0..MaxRelease
    BY UpdatesAssumption DEF NoPlan, Plans, None
  <2> QED
    BY <1>2, <2>1 DEF Idle, HelperType, PCs
<1>5. published \in Known /\ staged \in [Releases -> {"none", "partial", "whole"}]
  BY <1>1, UpdatesAssumption DEF Known, Releases, None
<1>6. Types
  <2>1. /\ backup \in [Attempts -> Contents \cup {NoBackup}]
        /\ saved \in [Releases -> Accounts] /\ accounts \in Accounts /\ aside \subseteq Accounts
    BY <1>2 DEF Accounts
  <2>2. 0 \in 0..MaxAttempts /\ 0 \in 0..MaxOpens /\ 0 \in 0..MaxFaults
    BY UpdatesAssumption
  <2>3. confirmed \in Known /\ lastError \in BOOLEAN /\ panel \in PanelType
    BY <1>2, NoPanelTyped DEF Known
  <2> QED
    BY <1>2, <1>3, <1>4, <1>5, <2>1, <2>2, <2>3 DEF Types
<1>7. Keyed /\ Modes /\ Fresh /\ Backed
  BY <1>2
  DEF Keyed, Modes, Fresh, Backed, Restores, Replacing, Replaced, Restoring, Idle,
      Installing, Recovering, Before, NoPlan
<1>8. Filed
  BY <1>1, <1>2, <1>3, UpdatesAssumption DEF Filed, Sound, Old, None, Releases
<1>9. PanelSound
  BY <1>2 DEF PanelSound, Running
<1>10. Originals
  BY <1>2, <1>3
  DEF Originals, Recoverable, Guarded, Placed, Replacing, Replaced, Restoring, Idle
<1> QED
  BY <1>6, <1>7, <1>8, <1>9, <1>10 DEF IInv

LEMMA StepKeeps ==
  ASSUME IInv, [Next]_vars PROVE IInv' /\ (Originals => Originals')
<1>1. CASE PanelStep
  <2>1. Types /\ Sound(root) /\ PanelSound
    BY DEF IInv, Filed
  <2>2. CASE Open
    BY <2>1, <2>2, OpenApart, ApartKeeps
  <2>3. CASE Exit \/ Check \/ CheckDone \/ CheckFails
    BY <2>1, <2>3, OtherStepsApart, ApartKeeps
  <2>4. CASE Install
    BY <2>4, InstallKeeps
  <2>5. CASE Cleanup
    BY <2>5, CleanupKeeps
  <2> QED
    BY <1>1, <2>2, <2>3, <2>4, <2>5 DEF PanelStep
<1>2. CASE HelperStep \/ Crash
  <2>1. Types /\ Modes /\ Keyed
    BY DEF IInv
  <2>2. CASE Wait \/ Validate \/ BackUpAccounts \/ CopyAccounts
    <3>1. Types' /\ Advances
      BY <2>1, <2>2, WaitAdvances, ValidateAdvances, BackUpAdvances, CopyAdvances
    <3>2. UNCHANGED others
      BY <2>2 DEF Wait, Validate, BackUpAccounts, CopyAccounts
    <3> QED
      BY <3>1, <3>2, AdvancesKeeps
  <2>3. CASE Start \/ NotConfirmed \/ RestoreDone
    <3>1. Types' /\ Advances
      BY <2>1, <2>3, StartAdvances, NotConfirmedAdvances, RestoreDoneAdvances
    <3>2. UNCHANGED others
      BY <2>3 DEF Start, NotConfirmed, RestoreDone
    <3> QED
      BY <3>1, <3>2, AdvancesKeeps
  <2>4. CASE RenameAccounts \/ PutBackAccounts \/ AccountsPutBack
    <3>1. Types' /\ Advances
      BY <2>1, <2>4, AccountsAdvance
    <3>2. UNCHANGED others
      BY <2>4 DEF RenameAccounts, PutBackAccounts, AccountsPutBack
    <3> QED
      BY <3>1, <3>2, AdvancesKeeps
  <2>5. CASE Report \/ Restart \/ Crash
    <3>1. Types' /\ Advances
      BY <2>1, <2>5, ReportAdvances, CrashAdvances
    <3>2. UNCHANGED others
      BY <2>5 DEF Report, Restart, Crash
    <3> QED
      BY <3>1, <3>2, AdvancesKeeps
  <2>6. CASE SaveFiles \/ (\E f \in Files : ReplaceFile(f)) \/ Unselect
    BY <2>6, SaveFilesKeeps, ReplaceFileKeeps, UnselectKeeps
  <2>7. CASE Clear \/ Confirm \/ Schedule \/ (\E p \in Paths : RestoreFile(p))
    BY <2>7, ClearKeeps, ConfirmKeeps, ScheduleKeeps, RestoreFileKeeps
  <2> QED
    BY <1>2, <2>2, <2>3, <2>4, <2>5, <2>6, <2>7 DEF HelperStep
<1>3. CASE ChildOpens \/ Publish
  <2>1. Types /\ Sound(root) /\ PanelSound
    BY DEF IInv, Filed
  <2> QED
    BY <1>3, <2>1, ChildOpensApart, OtherStepsApart, ApartKeeps
<1>4. CASE UNCHANGED vars
  <2>1. Types' /\ PanelSound'
    BY <1>4 DEF vars, disk, bounds, IInv, Types, PanelSound, Running
  <2>2. Apart
    BY <1>4, PublishedNat DEF vars, disk, bounds, IInv, Types, Apart, Same
  <2> QED
    BY <2>1, <2>2, ApartKeeps
<1> QED
  BY <1>1, <1>2, <1>3, <1>4 DEF Next

\* The processes always satisfy their invariant, and the originals are kept.
LEMMA Invariant == Spec => [](IInv /\ Originals)
<1>1. Init => IInv /\ Originals
  BY InitHolds
<1>2. IInv /\ Originals /\ [Next]_vars => (IInv /\ Originals)'
  BY StepKeeps
<1> QED
  BY <1>1, <1>2, PTL DEF Spec

\* Every variable has its type, whatever the processes do and wherever they stop;
\* a rollback has a backup to restore.
THEOREM TypeCorrect == Spec => []TypeOK
<1>1. IInv => TypeOK
  <2> SUFFICES ASSUME IInv PROVE TypeOK
    OBVIOUS
  <2>1. panel.release \in 0..MaxRelease /\ panel.ready \in {None} \cup Releases
    BY PanelFields DEF IInv, Types
  <2>2. helper.todo \subseteq Paths
    BY HelperFields DEF IInv, Types
  <2>3. \A a \in Attempts : backup[a] # NoBackup => a <= attempts
    BY DEF IInv, Filed
  <2>4. helper.mode = "rollback" => attempts # 0 /\ backup[Directory(attempts)] # NoBackup
    BY DEF IInv, Backed, Restores, Directory, Attempts
  <2>5. helper.key = None <=> helper.pc = "idle"
    BY DEF IInv, Keyed
  <2>6. Running => panel.release # None
    BY DEF IInv, PanelSound
  <2>7. Running /\ panel.ready # None => panel.ready <= published
    BY DEF IInv, PanelSound
  <2>8. Types
    BY DEF IInv
  <2> HIDE DEF Types
  <2> QED
    BY <2>1, <2>2, <2>3, <2>4, <2>5, <2>6, <2>7, <2>8 DEF TypeOK, Types, Known
<1> QED
  BY <1>1, Invariant, PTL

\* The originals of the last healthy program are in place or in a backup.
THEOREM OriginalsAreKept == Spec => []OriginalsKept
<1>1. Originals => OriginalsKept
  BY DEF Originals, Recoverable, Safe, OriginalsKept
<1> QED
  BY <1>1, Invariant, PTL

\* What the panel offers to install was downloaded whole and is still there.
THEOREM PreparedIsRetained == Spec => []PreparedRetained
<1>1. IInv => PreparedRetained
  BY DEF IInv, PanelSound, PreparedRetained
<1> QED
  BY <1>1, Invariant, PTL

-----------------------------------------------------------------------------
(* The accounts.                                                           *)

\* A database, or one that was renamed, holds the accounts whole; while the
\* database is put back a renamed one does.
AsideWhole == \E content \in aside : Whole(content)
PuttingBack == helper.pc \in {"putback", "putting"}
AccountsSafe == /\ Whole(accounts) \/ AsideWhole
                /\ PuttingBack => AsideWhole

LEMMA OpenedWhole ==
  ASSUME NEW r, Whole(accounts) PROVE Whole(Opened(r))
BY DEF Opened, Whole

\* Opening the database, at any time.
LEMMA OpeningSafe ==
  ASSUME AccountsSafe, aside' = aside, helper'.pc = helper.pc,
         NEW r, accounts' \in {accounts, Opened(r)}
  PROVE  AccountsSafe'
BY OpenedWhole DEF AccountsSafe, AsideWhole, PuttingBack, Whole

\* A step that does neither.
LEMMA ElsewhereSafe ==
  ASSUME AccountsSafe, UNCHANGED <<accounts, aside>>, PuttingBack' => PuttingBack
  PROVE  AccountsSafe'
BY DEF AccountsSafe, AsideWhole, Whole

LEMMA HelperElsewhere ==
  ASSUME helper \in HelperType,
         \/ Wait \/ Validate \/ BackUpAccounts \/ CopyAccounts \/ SaveFiles
         \/ \E f \in Files : ReplaceFile(f)
         \/ Unselect \/ Clear \/ Start \/ Confirm \/ NotConfirmed \/ Schedule
         \/ \E p \in Paths : RestoreFile(p)
         \/ RestoreDone \/ Report \/ Restart \/ Crash
  PROVE  UNCHANGED <<accounts, aside>> /\ (PuttingBack' => PuttingBack)
<1> DEFINE safe == PCs \ {"putback", "putting"}
<1>1. ASSUME \/ \E pc \in safe : Goto(pc)
             \/ \E r \in {"failed", "restored", "installed", "crashed"} : End(r)
             \/ \E b \in BOOLEAN : Rollback(b)
             \/ Resume \/ Fails
      PROVE  PuttingBack' => PuttingBack
  BY <1>1, GotoFields, EndFields, RollbackFields, ResumeFields, FailsFields DEF PuttingBack
<1>2. ASSUME \/ \E pc \in safe : \E o : helper' = [helper EXCEPT !.pc = pc, !.old = o]
             \/ \E pc \in safe : \E o : helper' = [helper EXCEPT !.pc = pc, !.hasDB = o]
             \/ \E pc \in safe : \E o : helper' = [helper EXCEPT !.pc = pc, !.todo = o]
             \/ \E pc \in safe : \E o : helper' = [helper EXCEPT !.pc = pc, !.plan = o]
             \/ \E pc \in safe : \E o : helper' = [helper EXCEPT !.pc = pc, !.child = o]
             \/ \E o, u : helper' = [helper EXCEPT !.todo = o, !.failed = u]
             \/ \E o : helper' = [helper EXCEPT !.todo = o]
      PROVE  PuttingBack' => PuttingBack
  BY <1>2 DEF HelperType, PuttingBack
<1>3. /\ {"validate", "accounts", "copy", "save", "replace", "clear", "start", "confirm",
          "schedule", "aside", "report", "restart"} \subseteq safe
  BY DEF PCs
<1> HIDE DEF safe
<1>4. CASE Wait \/ Validate \/ BackUpAccounts \/ CopyAccounts \/ SaveFiles
  BY <1>1, <1>2, <1>3, <1>4
  DEF Wait, Validate, BackUpAccounts, CopyAccounts, SaveFiles, data
<1>5. CASE (\E f \in Files : ReplaceFile(f)) \/ Unselect \/ Clear \/ Start
  BY <1>1, <1>2, <1>3, <1>5 DEF ReplaceFile, Unselect, Clear, Start, data
<1>6. CASE Confirm \/ NotConfirmed \/ Schedule
  BY <1>1, <1>2, <1>3, <1>6 DEF Confirm, NotConfirmed, Unconfirmed, Schedule, data
<1>7. CASE \E p \in Paths : RestoreFile(p)
  BY <1>1, <1>2, <1>7 DEF RestoreFile, data
<1>8. CASE RestoreDone \/ Report \/ Restart \/ Crash
  BY <1>1, <1>2, <1>3, <1>8 DEF RestoreDone, Report, Restart, Crash, data
<1> QED
  BY <1>4, <1>5, <1>6, <1>7, <1>8

LEMMA RenamingSafe ==
  ASSUME helper \in HelperType, AccountsSafe,
         RenameAccounts \/ PutBackAccounts \/ AccountsPutBack
  PROVE  AccountsSafe'
<1>1. CASE Fails /\ UNCHANGED <<accounts, aside>>
  BY <1>1, FailsFields, ElsewhereSafe DEF PuttingBack
<1>2. CASE /\ RenameAccounts
           /\ aside' = IF accounts = "none" THEN aside ELSE SetAside(accounts)
  <2>1. AsideWhole'
    BY <1>2 DEF AccountsSafe, AsideWhole, Whole, SetAside
  <2> QED
    BY <2>1 DEF AccountsSafe
<1>3. CASE aside' = aside /\ PuttingBack
  BY <1>3 DEF AccountsSafe, AsideWhole, Whole
<1> QED
  BY <1>1, <1>2, <1>3 DEF RenameAccounts, PutBackAccounts, AccountsPutBack, At, PuttingBack

LEMMA StepSafe ==
  ASSUME IInv, AccountsSafe, [Next]_vars PROVE AccountsSafe'
<1>1. helper \in HelperType
  BY DEF IInv, Types
<1>2. CASE Open
  BY <1>2, OpeningSafe DEF Open
<1>3. CASE ChildOpens
  <2>1. /\ accounts' \in {accounts, Opened(Runs(Target))}
        /\ aside' = aside /\ helper'.pc = helper.pc
    BY <1>1, <1>3 DEF ChildOpens, HelperType
  <2> QED
    BY <2>1, OpeningSafe
<1>4. CASE Exit \/ Publish \/ Check \/ CheckDone \/ CheckFails \/ Cleanup \/ UNCHANGED vars
  <2>1. UNCHANGED <<accounts, aside, helper>>
    BY <1>4 DEF Exit, Publish, Check, CheckDone, CheckFails, Cleanup, vars, disk
  <2> QED
    BY <2>1, ElsewhereSafe DEF PuttingBack
<1>5. CASE Install
  <2>1. UNCHANGED <<accounts, aside>> /\ helper' = [Idle EXCEPT !.pc = "wait", !.key = panel.ready]
    BY <1>5 DEF Install, disk
  <2>2. helper'.pc = "wait"
    BY <2>1 DEF Idle
  <2> QED
    BY <2>1, <2>2, ElsewhereSafe DEF PuttingBack
<1>6. CASE RenameAccounts \/ PutBackAccounts \/ AccountsPutBack
  BY <1>1, <1>6, RenamingSafe
<1>7. CASE HelperStep \/ Crash
  BY <1>1, <1>6, <1>7, HelperElsewhere, ElsewhereSafe DEF HelperStep
<1> QED
  BY <1>2, <1>3, <1>4, <1>5, <1>6, <1>7 DEF Next, PanelStep

\* Whatever fails, crashes or is repeated, some file holds the accounts whole.
THEOREM AccountsAreKept == Spec => []AccountsKept
<1>1. Init => AccountsSafe
  BY DEF Init, AccountsSafe, Whole, PuttingBack, Idle
<1>2. IInv /\ AccountsSafe /\ [Next]_vars => AccountsSafe'
  BY StepSafe
<1>3. AccountsSafe => AccountsKept
  BY DEF AccountsSafe, AsideWhole, AccountsKept, Copies
<1>4. Spec => []AccountsSafe
  BY <1>1, <1>2, Invariant, PTL DEF Spec
<1> QED
  BY <1>3, <1>4, PTL
-----------------------------------------------------------------------------
(* The steps of the helper that leave the files, their backups and the plan *)
(* alone, by what they make of the helper.                                  *)

Rest == /\ Same /\ helper'.old = helper.old /\ helper'.hasDB = helper.hasDB
        /\ helper'.restore = helper.restore /\ helper'.failed = helper.failed
Stays == /\ helper'.mode = helper.mode /\ helper'.child = helper.child
         /\ helper'.result = helper.result /\ helper'.todo = helper.todo
To(pc) == helper'.pc = pc /\ Rest /\ Stays
Ends(result) == /\ helper'.pc = "ended" /\ helper'.result = result /\ Rest
                /\ helper'.mode = helper.mode /\ helper'.child = helper.child
Resumes == /\ helper'.pc = "restart" /\ helper'.mode = "resume" /\ Rest /\ lastError'
           /\ helper'.child = helper.child /\ helper'.result = helper.result
Launches == /\ helper'.pc = "confirm" /\ helper'.child = "starting" /\ Rest
            /\ helper'.mode = helper.mode /\ helper'.result = helper.result
GivesUp == /\ helper'.pc = "restore" /\ helper'.mode = "rollback" /\ helper'.child = "none"
           /\ Same /\ helper'.old = helper.old /\ helper'.hasDB = helper.hasDB
           /\ helper'.failed = helper.failed /\ helper'.todo = Paths
           /\ helper'.result = helper.result

LEMMA GotoTo ==
  ASSUME helper \in HelperType, NEW pc, Goto(pc) PROVE To(pc)
BY DEF HelperType, Goto, To, Rest, Stays, Same

LEMMA EndEnds ==
  ASSUME helper \in HelperType, NEW r, End(r) PROVE Ends(r)
BY DEF HelperType, End, Ends, Rest, Same

LEMMA FailsEnds ==
  ASSUME helper \in HelperType, Fails PROVE Ends("failed")
BY EndEnds DEF Fails

LEMMA ResumeResumes ==
  ASSUME helper \in HelperType, Resume PROVE Resumes
BY DEF HelperType, Resume, Resumes, Rest, Same

LEMMA RollbackGivesUp ==
  ASSUME helper \in HelperType, NEW b, Rollback(b) PROVE GivesUp /\ helper'.restore = b
BY DEF HelperType, Rollback, GivesUp, Same

\* From the wait to the files.
Prepares ==
  \/ /\ helper.pc = "wait" /\ ~panel.leaving /\ helper'.pc = "validate"
     /\ helper'.old = root[Selector] /\ Same /\ helper'.hasDB = helper.hasDB /\ Stays
     /\ UNCHANGED <<accounts, saved>>
  \/ helper.pc = "validate" /\ To("accounts") /\ UNCHANGED <<accounts, saved>>
  \/ helper.pc = "accounts" /\ To("copy") /\ UNCHANGED accounts
  \/ helper.pc = "accounts" /\ To("save") /\ UNCHANGED <<accounts, saved>>
  \/ /\ helper.pc = "copy" /\ helper'.pc = "save" /\ helper'.old = helper.old /\ Same /\ Stays
     /\ saved' = [saved EXCEPT ![helper.key] = accounts] /\ UNCHANGED accounts
  \/ helper.pc \in {"validate", "copy"} /\ Resumes /\ UNCHANGED <<accounts, saved>>
\* From the launch of a panel to the end.
Proceeds ==
  \/ /\ \/ helper.pc = "start" /\ Launches
        \/ helper.pc = "restart" /\ Launches /\ UNCHANGED lastError
        \/ /\ Replacing \/ Replaced
           /\ helper.pc = "confirm" => ~Healthy
           /\ GivesUp
        \/ /\ helper.pc = "restore" /\ helper.todo = {} /\ ~helper.failed
           /\ \/ helper.restore /\ helper.hasDB /\ To("aside")
              \/ ~(helper.restore /\ helper.hasDB) /\ To("report")
        \/ helper.pc = "report" /\ To("restart") /\ lastError'
     /\ UNCHANGED accounts
  \/ /\ helper.pc = "aside" /\ To("putback") /\ accounts' = "none"
     /\ ~Running \/ accounts = "none"
  \/ /\ helper.pc = "putback" /\ To("putting") /\ accounts' = "torn"
     /\ saved[helper.key] # "none"
  \/ helper.pc = "putting" /\ To("report") /\ accounts' = saved[helper.key]
Stops == /\ helper.pc \notin {"idle", "ended"}
         /\ \E r \in {"failed", "crashed", "restored"} : Ends(r)
         /\ UNCHANGED <<accounts, saved>>
Moves == \/ Prepares
         \/ Proceeds /\ UNCHANGED saved
         \/ Stops

LEMMA PreparesMove ==
  ASSUME IInv, Wait \/ Validate \/ BackUpAccounts \/ CopyAccounts PROVE Moves
<1>1. helper \in HelperType
  BY DEF IInv, Types
<1>2. CASE Wait
  <2>1. UNCHANGED <<accounts, saved>> /\ helper.pc = "wait"
    BY <1>2 DEF Wait, At, data
  <2>2. CASE Fails
    BY <1>1, <2>1, <2>2, FailsEnds DEF Moves, Stops
  <2>3. CASE ~panel.leaving /\ helper' = [helper EXCEPT !.pc = "validate", !.old = root[Selector]]
    BY <1>1, <2>1, <2>3 DEF Moves, Prepares, HelperType, Stays, Same
  <2> QED
    BY <1>2, <2>2, <2>3 DEF Wait
<1>3. CASE Validate
  <2>1. UNCHANGED <<accounts, saved>> /\ helper.pc = "validate"
    BY <1>3 DEF Validate, At, data
  <2>2. CASE Resume
    BY <1>1, <2>1, <2>2, ResumeResumes DEF Moves, Prepares
  <2>3. CASE Goto("accounts")
    BY <1>1, <2>1, <2>3, GotoTo DEF Moves, Prepares
  <2> QED
    BY <1>3, <2>2, <2>3 DEF Validate
<1>4. CASE BackUpAccounts
  BY <1>1, <1>4, GotoTo DEF BackUpAccounts, At, Moves, Prepares
<1>5. CASE CopyAccounts
  <2>1. CASE Resume /\ UNCHANGED saved
    BY <1>1, <1>5, <2>1, ResumeResumes DEF CopyAccounts, At, Moves, Prepares
  <2>2. CASE /\ helper' = [helper EXCEPT !.pc = "save", !.hasDB = TRUE]
             /\ saved' = [saved EXCEPT ![helper.key] = accounts]
    <3>1. Same /\ Stays /\ helper'.pc = "save" /\ helper'.old = helper.old
      BY <1>1, <2>2 DEF HelperType, Stays, Same
    <3> QED
      BY <1>5, <2>2, <3>1 DEF CopyAccounts, At, Moves, Prepares
  <2> QED
    BY <1>5, <2>1, <2>2 DEF CopyAccounts
<1> QED
  BY <1>2, <1>3, <1>4, <1>5

LEMMA ProceedsMove ==
  ASSUME IInv,
         \/ Start \/ NotConfirmed \/ RestoreDone \/ RenameAccounts \/ PutBackAccounts
         \/ AccountsPutBack \/ Report \/ Restart \/ Crash
         \/ Confirm /\ helper.mode # "install"
  PROVE  Moves
<1>1. helper \in HelperType
  BY DEF IInv, Types
<1>2. CASE Fails /\ helper.pc \notin {"idle", "ended"} /\ UNCHANGED <<accounts, saved>>
  BY <1>1, <1>2, FailsEnds DEF Moves, Stops
<1>3. CASE /\ Start \/ (Restart /\ UNCHANGED lastError)
           /\ helper' = [helper EXCEPT !.pc = "confirm", !.child = "starting"]
  <2>1. Launches
    BY <1>1, <1>3 DEF HelperType, Launches, Rest, Same
  <2>2. UNCHANGED <<accounts, saved>>
    BY <1>3 DEF Start, Restart, data
  <2>3. helper.pc = "start" \/ (helper.pc = "restart" /\ UNCHANGED lastError)
    BY <1>3 DEF Start, Restart, At
  <2> QED
    BY <2>1, <2>2, <2>3 DEF Moves, Proceeds
<1>4. CASE Start
  <2>1. CASE Rollback(TRUE)
    <3>1. helper.pc = "start" /\ UNCHANGED <<accounts, saved>> /\ GivesUp
      BY <1>1, <1>4, <2>1, RollbackGivesUp DEF Start, At, data
    <3> QED
      BY <3>1 DEF Moves, Proceeds, Replaced
  <2> QED
    BY <1>3, <1>4, <2>1 DEF Start
<1>5. CASE NotConfirmed
  <2>1. helper.pc = "confirm" /\ UNCHANGED <<accounts, saved>> /\ ~Healthy
    BY <1>5 DEF NotConfirmed, At, data
  <2>2. CASE helper.mode = "install"
    <3>1. GivesUp
      BY <1>1, <1>5, <2>2, RollbackGivesUp DEF NotConfirmed, Unconfirmed
    <3> QED
      BY <2>1, <2>2, <3>1 DEF Moves, Proceeds, Replaced
  <2> QED
    BY <1>2, <1>5, <2>1, <2>2 DEF NotConfirmed, Unconfirmed
<1>6. CASE RestoreDone
  <2>1. UNCHANGED <<accounts, saved>> /\ helper.pc = "restore" /\ helper.todo = {}
    BY <1>6 DEF RestoreDone, At, data
  <2>2. CASE helper.failed
    BY <1>2, <1>6, <2>1, <2>2 DEF RestoreDone
  <2>3. CASE ~helper.failed
    <3>1. \/ helper.restore /\ helper.hasDB /\ Goto("aside")
          \/ ~(helper.restore /\ helper.hasDB) /\ Goto("report")
      BY <1>6, <2>3 DEF RestoreDone
    <3> QED
      BY <1>1, <2>1, <2>3, <3>1, GotoTo DEF Moves, Proceeds
  <2> QED
    BY <2>2, <2>3
<1>7. CASE RenameAccounts
  <2>1. helper.pc = "aside" /\ UNCHANGED saved
    BY <1>7 DEF RenameAccounts, At
  <2>2. CASE Fails /\ UNCHANGED accounts
    BY <1>2, <2>1, <2>2
  <2>3. CASE /\ ~Running \/ accounts = "none"
             /\ accounts' = "none" /\ Goto("putback")
    BY <1>1, <2>1, <2>3, GotoTo DEF Moves, Proceeds
  <2> QED
    BY <1>7, <2>2, <2>3 DEF RenameAccounts
<1>8. CASE PutBackAccounts
  <2>1. helper.pc = "putback" /\ UNCHANGED saved
    BY <1>8 DEF PutBackAccounts, At
  <2>2. CASE Fails /\ UNCHANGED accounts
    BY <1>2, <2>1, <2>2
  <2>3. CASE ~BackupGone /\ accounts' = "torn" /\ Goto("putting")
    BY <1>1, <2>1, <2>3, GotoTo DEF Moves, Proceeds, BackupGone
  <2> QED
    BY <1>8, <2>2, <2>3 DEF PutBackAccounts
<1>9. CASE AccountsPutBack
  <2>1. helper.pc = "putting" /\ UNCHANGED saved
    BY <1>9 DEF AccountsPutBack, At
  <2>2. CASE Fails /\ UNCHANGED accounts
    BY <1>2, <2>1, <2>2
  <2>3. CASE accounts' = saved[helper.key] /\ Goto("report")
    BY <1>1, <2>1, <2>3, GotoTo DEF Moves, Proceeds
  <2> QED
    BY <1>9, <2>2, <2>3 DEF AccountsPutBack
<1>10. CASE Report
  BY <1>1, <1>10, GotoTo, EndEnds DEF Report, At, Moves, Proceeds, Stops, data
<1>11. CASE Restart
  BY <1>2, <1>3, <1>11 DEF Restart, At, data
<1>12. CASE Crash
  BY <1>1, <1>12, EndEnds DEF Crash, Working, Moves, Stops, data
<1>13. CASE Confirm /\ helper.mode # "install"
  BY <1>1, <1>13, EndEnds DEF Confirm, At, Moves, Stops, data
<1> QED
  BY <1>4, <1>5, <1>6, <1>7, <1>8, <1>9, <1>10, <1>11, <1>12, <1>13

\* The steps of the helper that write files, their backups or a plan.
Works == /\ Same /\ helper'.old = helper.old /\ helper'.hasDB = helper.hasDB
         /\ helper'.restore = helper.restore /\ helper'.mode = helper.mode
         /\ helper'.child = helper.child /\ helper'.result = helper.result
Saves == /\ helper.pc = "save" /\ helper'.pc = "replace" /\ Works
         /\ helper'.failed = helper.failed
         /\ attempts' = attempts + 1 /\ backup' = [backup EXCEPT ![attempts'] = root]
         /\ UNCHANGED <<root, plan>>
SavesNot == /\ helper.pc = "save" /\ Resumes
            /\ attempts' = attempts + 1 /\ UNCHANGED <<root, plan, backup>>
Replaces == /\ helper.pc = "replace" /\ helper'.pc = "replace" /\ Works
            /\ \E f \in Files : ~Busy(f) /\ root' = [root EXCEPT ![f] = helper.key]
            /\ UNCHANGED <<backup, plan, attempts>>
Unselects == /\ helper.pc = "replace" /\ helper.todo = {} /\ To("clear")
             /\ root' = [root EXCEPT ![Selector] = None]
             /\ UNCHANGED <<backup, plan, attempts>>
Clears == /\ helper.pc = "clear" /\ helper'.pc = "start" /\ helper'.plan = PlanCleanup
          /\ helper'.key = helper.key /\ helper'.old = helper.old
          /\ helper'.hasDB = helper.hasDB /\ Stays
          /\ UNCHANGED <<root, backup, plan, attempts>>
Abandons == /\ helper.pc \in {"replace", "clear"} /\ GivesUp
            /\ UNCHANGED <<root, backup, plan, attempts>>
Confirms == /\ helper.pc = "confirm" /\ helper.mode = "install" /\ Healthy /\ To("schedule")
            /\ UNCHANGED <<root, backup, plan, attempts>>
Schedules == /\ helper.pc = "schedule" /\ Ends("installed") /\ plan' \in {plan, helper.plan}
             /\ UNCHANGED <<root, backup, attempts>>
GivesBack == /\ helper.pc = "restore" /\ helper'.pc = "restore" /\ Works
             /\ \E p \in helper.todo :
                  /\ helper'.todo = helper.todo \ {p}
                  /\ Selector \in helper.todo => p = Selector
                  /\ \/ ~Busy(p) /\ root' = [root EXCEPT ![p] = backup[attempts][p]]
                     \/ helper'.failed /\ UNCHANGED root
             /\ helper.failed => helper'.failed
             /\ UNCHANGED <<backup, plan, attempts>>
Writes == \/ Saves \/ SavesNot \/ Replaces \/ Unselects \/ Clears \/ Abandons \/ Confirms
          \/ Schedules \/ GivesBack

WritingStep == \/ SaveFiles \/ (\E f \in Files : ReplaceFile(f)) \/ Unselect \/ Clear
               \/ Confirm /\ helper.mode = "install"
               \/ Schedule \/ \E p \in Paths : RestoreFile(p)

LEMMA WritingWrites ==
  ASSUME IInv, WritingStep PROVE Writes
<1>1. helper \in HelperType
  BY DEF IInv, Types
<1>2. CASE SaveFiles
  <2>1. CASE /\ helper' = [helper EXCEPT !.pc = "replace", !.todo = Files]
             /\ backup' = [backup EXCEPT ![Directory(attempts')] = root]
    <3>1. Saves
      BY <1>1, <1>2, <2>1 DEF SaveFiles, At, Saves, HelperType, Works, Same, Directory
    <3> QED
      BY <3>1 DEF Writes
  <2>2. CASE Resume /\ UNCHANGED backup
    <3>1. SavesNot
      BY <1>1, <1>2, <2>2, ResumeResumes DEF SaveFiles, At, SavesNot
    <3> QED
      BY <3>1 DEF Writes
  <2> QED
    BY <1>2, <2>1, <2>2 DEF SaveFiles
<1>3. ASSUME NEW f \in Files, ReplaceFile(f) PROVE Writes
  <2>1. CASE /\ helper' = [helper EXCEPT !.todo = @ \ {f}] /\ ~Busy(f)
             /\ root' = [root EXCEPT ![f] = helper.key]
    <3>1. /\ helper.pc = "replace" /\ UNCHANGED <<backup, plan, attempts>>
      BY <1>3 DEF ReplaceFile, At
    <3>2. helper'.pc = "replace" /\ Works
      BY <1>1, <2>1, <3>1 DEF HelperType, Works, Same
    <3>3. Replaces
      BY <2>1, <3>1, <3>2 DEF Replaces
    <3> QED
      BY <3>3 DEF Writes
  <2>2. CASE Rollback(FALSE) /\ UNCHANGED root
    <3>1. Abandons
      BY <1>1, <1>3, <2>2, RollbackGivesUp DEF ReplaceFile, At, Abandons
    <3> QED
      BY <3>1 DEF Writes
  <2> QED
    BY <1>3, <2>1, <2>2 DEF ReplaceFile
<1>4. CASE Unselect
  <2>1. Unselects \/ Abandons
    BY <1>1, <1>4, GotoTo, RollbackGivesUp DEF Unselect, At, AllReplaced, Unselects, Abandons
  <2> QED
    BY <2>1 DEF Writes
<1>5. CASE Clear
  <2>1. CASE helper' = [helper EXCEPT !.pc = "start", !.plan = PlanCleanup]
    <3> HIDE DEF PlanCleanup
    <3>1. Clears
      BY <1>1, <1>5, <2>1 DEF Clear, At, Clears, HelperType, Stays
    <3> QED
      BY <3>1 DEF Writes
  <2>2. CASE Rollback(FALSE)
    <3>1. Abandons
      BY <1>1, <1>5, <2>2, RollbackGivesUp DEF Clear, At, Abandons
    <3> QED
      BY <3>1 DEF Writes
  <2> QED
    BY <1>5, <2>1, <2>2 DEF Clear
<1>6. CASE Confirm /\ helper.mode = "install"
  BY <1>1, <1>6, GotoTo DEF Confirm, At, Writes, Confirms
<1>7. CASE Schedule
  BY <1>1, <1>7, EndEnds DEF Schedule, At, Writes, Schedules
<1>8. ASSUME NEW p \in Paths, RestoreFile(p) PROVE Writes
  <2>1. /\ helper.pc = "restore" /\ p \in helper.todo /\ (Selector \in helper.todo => p = Selector)
        /\ UNCHANGED <<backup, plan, attempts>>
    BY <1>8 DEF RestoreFile, At
  <2>2. CASE /\ helper' = [helper EXCEPT !.todo = @ \ {p}] /\ ~Busy(p)
             /\ root' = [root EXCEPT ![p] = backup[Directory(attempts)][p]]
    <3>1. /\ helper'.pc = "restore" /\ Works /\ helper'.todo = helper.todo \ {p}
          /\ helper'.failed = helper.failed
      BY <1>1, <2>1, <2>2 DEF HelperType, Works, Same
    <3>2. GivesBack
      BY <2>1, <2>2, <3>1 DEF GivesBack, Directory
    <3> QED
      BY <3>2 DEF Writes
  <2>3. CASE helper' = [helper EXCEPT !.todo = @ \ {p}, !.failed = TRUE] /\ UNCHANGED root
    <3>1. /\ helper'.pc = "restore" /\ Works /\ helper'.todo = helper.todo \ {p}
          /\ helper'.failed
      BY <1>1, <2>1, <2>3 DEF HelperType, Works, Same
    <3>2. GivesBack
      BY <2>1, <2>3, <3>1 DEF GivesBack
    <3> QED
      BY <3>2 DEF Writes
  <2> QED
    BY <1>8, <2>2, <2>3 DEF RestoreFile
<1> QED
  BY <1>2, <1>3, <1>4, <1>5, <1>6, <1>7, <1>8 DEF WritingStep

-----------------------------------------------------------------------------
(* The steps of a panel that leave the files and the plan alone.           *)

\* What the panel offers, or downloads, is later than v.
Offers(v) == /\ panel.ready # None => panel.ready > v
             /\ panel.fetching # None => panel.fetching > v

Goes == panel' = NoPanel
Remains == /\ Running /\ panel'.selected = panel.selected /\ panel'.release = panel.release
           /\ panel'.child = panel.child /\ panel'.leaving = panel.leaving
           /\ \A v \in Nat : /\ panel.selected = None /\ root[Version] >= v /\ Offers(v)
                             => Offers(v)'
Comes == /\ ~Running /\ panel'.selected = root[Selector] /\ ~panel'.leaving
         /\ panel'.fetching = None /\ panel'.ready \in {None, root[Selector]}
         /\ \/ ~panel'.child /\ panel'.release = Runs(None)
            \/ /\ helper.child = "starting" /\ helper'.child # "starting"
               /\ panel'.release = Runs(Target)
Listens == UNCHANGED panel \/ Goes \/ Remains \/ Comes

\* The helper waits, or sees the panel it started.
Watches == \/ UNCHANGED helper
           \/ /\ helper.child = "starting" /\ helper'.child # "starting" /\ Rest
              /\ helper'.pc = helper.pc /\ helper'.mode = helper.mode
              /\ helper'.result = helper.result /\ helper'.todo = helper.todo

\* Who opens the database.
Opening == \/ UNCHANGED accounts /\ (UNCHANGED panel \/ Goes \/ Remains)
           \/ Comes /\ accounts' = Opened(panel'.release)
           \/ /\ UNCHANGED panel /\ helper.child = "starting"
              /\ accounts' \in {accounts, Opened(Runs(Target))}

PanelMoves == Listens /\ Watches /\ Opening
              /\ UNCHANGED <<root, backup, saved, lastError, plan, attempts>>

LEMMA LaunchedComes ==
  ASSUME Types, NEW from, NEW child, panel' = Launched(from, child), ~Running,
         \/ ~child /\ from = None
         \/ helper.child = "starting" /\ helper'.child # "starting" /\ from = Target
  PROVE  Comes /\ panel'.release = Runs(from)
<1> DEFINE r == IF root[Selector] # None /\ staged[root[Selector]] = "whole"
                THEN root[Selector] ELSE None
           w == (root[Selector] = None)
<1>1. r \in {None, root[Selector]}
  OBVIOUS
<1>2. panel' = [NoPanel EXCEPT !.release = Runs(from), !.selected = root[Selector],
                               !.child = child, !.watch = w, !.ready = r]
  BY DEF Launched
<1> HIDE DEF r, w
<1>3. panel' = [release |-> Runs(from), selected |-> root[Selector], child |-> child,
                ready |-> r, fetching |-> None, watch |-> w, leaving |-> FALSE]
  BY <1>2 DEF NoPanel
<1> QED
  BY <1>1, <1>3 DEF Comes

LEMMA PanelStepMoves ==
  ASSUME IInv,
         \/ Open \/ Exit \/ Publish \/ Check \/ CheckDone \/ CheckFails \/ ChildOpens
         \/ UNCHANGED vars
  PROVE  PanelMoves
<1>1. Types /\ panel \in PanelType /\ helper \in HelperType /\ published \in Nat
  BY PublishedNat DEF IInv, Types
<1>2. CASE Exit \/ Publish \/ UNCHANGED vars
  BY <1>2 DEF Exit, Publish, vars, disk, bounds, PanelMoves, Listens, Goes, Watches, Opening
<1>3. CASE Open
  <2>1. Comes /\ panel'.release = Runs(None)
    BY <1>1, <1>3, LaunchedComes DEF Open
  <2> QED
    BY <1>3, <2>1 DEF Open, PanelMoves, Listens, Watches, Opening
<1>4. CASE ChildOpens
  <2>1. Watches
    BY <1>1, <1>4 DEF ChildOpens, Watches, HelperType, Rest, Same
  <2>2. Listens /\ Opening
    <3>1. /\ helper.child = "starting"
          /\ \/ /\ ~Running /\ accounts' = Opened(Runs(Target))
                /\ panel' = Launched(Target, Followed(Target) = Target)
             \/ UNCHANGED panel /\ accounts' \in {accounts, Opened(Runs(Target))}
      BY <1>4 DEF ChildOpens
    <3>2. helper'.child # "starting"
      BY <1>1, <1>4 DEF ChildOpens, HelperType
    <3>3. CASE ~Running /\ panel' = Launched(Target, Followed(Target) = Target)
      BY <1>1, <3>1, <3>2, <3>3, LaunchedComes DEF Listens, Opening
    <3> QED
      BY <3>1, <3>3 DEF Listens, Opening
  <2> QED
    BY <1>4, <2>1, <2>2 DEF ChildOpens, PanelMoves, bounds
<1>5. ASSUME Check \/ CheckDone \/ CheckFails PROVE Remains
  <2>1. CASE Check
    <3>1. /\ panel' = [panel EXCEPT !.fetching = published, !.ready = None]
          /\ Running /\ published > Installed
      BY <2>1 DEF Check
    <3>2. /\ panel'.fetching = published /\ panel'.ready = None
          /\ panel'.selected = panel.selected /\ panel'.release = panel.release
          /\ panel'.child = panel.child /\ panel'.leaving = panel.leaving
      BY <1>1, <3>1 DEF PanelType
    <3>3. ASSUME NEW v \in Nat, panel.selected = None, root[Version] >= v PROVE Offers(v)'
      <4>1. root[Version] \in Nat
        BY <1>1, PathsKnown, UpdatesAssumption DEF Types, Contents
      <4> QED
        BY <1>1, <3>1, <3>2, <3>3, <4>1 DEF Offers, Installed
    <3> QED
      BY <3>1, <3>2, <3>3 DEF Remains
  <2>2. CASE CheckDone
    <3>1. /\ panel' = [panel EXCEPT !.fetching = None, !.ready = panel.fetching]
          /\ Running /\ panel.fetching # None
      BY <2>2 DEF CheckDone
    <3> QED
      BY <1>1, <3>1 DEF PanelType, Remains, Offers
  <2>3. CASE CheckFails
    <3>1. panel' = [panel EXCEPT !.fetching = None, !.ready = None] /\ Running
      BY <2>3 DEF CheckFails
    <3> QED
      BY <1>1, <3>1 DEF PanelType, Remains, Offers
  <2> QED
    BY <1>5, <2>1, <2>2, <2>3
<1>6. CASE Check \/ CheckDone \/ CheckFails
  BY <1>5, <1>6
  DEF Check, CheckDone, CheckFails, disk, bounds, PanelMoves, Listens, Watches, Opening
<1> QED
  BY <1>2, <1>3, <1>4, <1>6

Installs == /\ helper'.pc = "wait" /\ helper'.mode = "install" /\ helper'.child = "none"
            /\ helper'.result = "none" /\ helper'.key = panel.ready /\ ~helper'.hasDB
            /\ Running /\ panel.ready # None /\ ~Working
            /\ panel'.leaving /\ panel'.selected = panel.selected
            /\ panel'.release = panel.release /\ panel'.ready = panel.ready
            /\ panel'.fetching = panel.fetching
            /\ UNCHANGED <<root, backup, plan, attempts, accounts, saved>>
CleansUp == /\ Running /\ panel'.selected = panel.selected /\ panel'.release = panel.release
            /\ panel'.child = panel.child /\ panel'.leaving = panel.leaving
            /\ panel'.ready = panel.ready /\ panel'.fetching = panel.fetching
            /\ plan' \in {plan, NoPlan}
            /\ \A a \in Attempts : a \notin plan.backups => backup'[a] = backup[a]
            /\ \A r \in Releases : /\ saved'[r] \in {saved[r], "none"}
                                   /\ \/ r \notin plan.saved \/ root[Version] # plan.version
                                      \/ helper.pc = "putting" /\ r = helper.key
                                      => saved'[r] = saved[r]
            /\ UNCHANGED <<root, helper, attempts, accounts, lastError>>

LEMMA InstallInstalls ==
  ASSUME IInv, Install PROVE Installs
<1>1. /\ helper' = [Idle EXCEPT !.pc = "wait", !.key = panel.ready]
      /\ panel' = [panel EXCEPT !.leaving = TRUE]
      /\ UNCHANGED <<disk, published, confirmed, bounds>>
      /\ Running /\ panel.ready # None /\ ~Working
  BY DEF Install
<1>2. panel \in PanelType
  BY DEF IInv, Types
<1>3. /\ helper'.pc = "wait" /\ helper'.mode = "install" /\ helper'.child = "none"
      /\ helper'.result = "none" /\ helper'.key = panel.ready /\ ~helper'.hasDB
  BY <1>1 DEF Idle
<1>4. /\ panel'.leaving /\ panel'.selected = panel.selected
      /\ panel'.release = panel.release /\ panel'.ready = panel.ready
      /\ panel'.fetching = panel.fetching
  BY <1>1, <1>2 DEF PanelType
<1> QED
  BY <1>1, <1>3, <1>4 DEF Installs, disk, bounds

LEMMA CleanupCleansUp ==
  ASSUME IInv, Cleanup PROVE CleansUp
<1>1. /\ panel' = [panel EXCEPT !.watch = FALSE] /\ Running /\ panel \in PanelType
      /\ backup \in [Attempts -> Contents \cup {NoBackup}] /\ saved \in [Releases -> Accounts]
      /\ plan' \in {plan, NoPlan}
      /\ UNCHANGED <<root, accounts, lastError, helper, attempts>>
  BY DEF Cleanup, IInv, Types
<1>2. /\ panel'.selected = panel.selected /\ panel'.release = panel.release
      /\ panel'.child = panel.child /\ panel'.leaving = panel.leaving
      /\ panel'.ready = panel.ready /\ panel'.fetching = panel.fetching
  BY <1>1 DEF PanelType
<1>3. \A a \in Attempts : a \notin plan.backups => backup'[a] = backup[a]
  BY <1>1, CleanupRemoves DEF Remove
<1>4. \A r \in Releases : /\ saved'[r] \in {saved[r], "none"}
                          /\ r \notin plan.saved => saved'[r] = saved[r]
  BY <1>1, CleanupRemoves DEF Remove
<1>5. root[Version] # plan.version => UNCHANGED saved
  BY DEF Cleanup
<1>6. helper.pc = "putting" => saved'[helper.key] = saved[helper.key]
  <2> SUFFICES ASSUME helper.pc = "putting", helper.key \in plan.saved, root[Version] = plan.version
               PROVE  saved'[helper.key] = saved[helper.key]
    <3>1. helper.pc = "putting" => helper.key \in Releases
      BY HelperFields DEF IInv, Types, Keyed
    <3> QED
      BY <1>4, <1>5, <3>1
  <2>1. Held = {helper.key}
    BY DEF Held
  <2>2. PICK downloads, backups, copies \in SUBSET (plan.saved \ Held) :
          Remove(downloads, backups, copies)
    BY <2>1 DEF Cleanup
  <2>3. helper.key \in Releases
    BY HelperFields DEF IInv, Types, Keyed
  <2> QED
    BY <2>1, <2>2, <2>3 DEF Remove
<1> QED
  BY <1>1, <1>2, <1>3, <1>4, <1>5, <1>6 DEF CleansUp

\* Every step is of one of these kinds.
LEMMA StepKinds ==
  ASSUME IInv, [Next]_vars
  PROVE  \/ PanelMoves \/ Installs \/ CleansUp
         \/ Moves /\ UNCHANGED <<root, backup, plan, attempts, panel>>
         \/ WritingStep /\ Writes /\ UNCHANGED <<panel, accounts, saved>>
<1>1. CASE Wait \/ Validate \/ BackUpAccounts \/ CopyAccounts
  <2>1. Moves
    BY <1>1, PreparesMove
  <2> QED
    BY <1>1, <2>1 DEF Wait, Validate, BackUpAccounts, CopyAccounts, others
<1>2. CASE \/ Start \/ NotConfirmed \/ RestoreDone \/ RenameAccounts \/ PutBackAccounts
           \/ AccountsPutBack \/ Report \/ Restart \/ Crash
           \/ Confirm /\ helper.mode # "install"
  <2>1. Moves
    BY <1>2, ProceedsMove
  <2>2. UNCHANGED <<root, backup, plan, attempts, panel>>
    <3>1. CASE Start \/ NotConfirmed \/ RestoreDone \/ RenameAccounts \/ PutBackAccounts
      BY <3>1 DEF Start, NotConfirmed, RestoreDone, RenameAccounts, PutBackAccounts, others
    <3>2. CASE AccountsPutBack \/ Report \/ Restart \/ Crash \/ Confirm
      BY <3>2 DEF AccountsPutBack, Report, Restart, Crash, Confirm, others
    <3> QED
      BY <1>2, <3>1, <3>2
  <2> QED
    BY <2>1, <2>2
<1>3. CASE WritingStep
  <2>1. UNCHANGED <<panel, accounts, saved>>
    BY <1>3
    DEF WritingStep, SaveFiles, ReplaceFile, Unselect, Clear, Confirm, Schedule,
        RestoreFile, others, data
  <2> QED
    BY <1>3, <2>1, WritingWrites
<1>4. CASE \/ Open \/ Exit \/ Publish \/ Check \/ CheckDone \/ CheckFails \/ ChildOpens
           \/ UNCHANGED vars
  BY <1>4, PanelStepMoves
<1>5. CASE Confirm
  BY <1>2, <1>3, <1>5 DEF WritingStep
<1>6. CASE Install \/ Cleanup
  BY <1>6, InstallInstalls, CleanupCleansUp
<1> QED
  BY <1>1, <1>2, <1>3, <1>4, <1>5, <1>6 DEF Next, PanelStep, HelperStep, WritingStep

-----------------------------------------------------------------------------
(* Recovery files: what the older plan of a cleanup can still remove.       *)

Backup == backup[attempts]

\* From the start of the helper until it starts a panel, no panel of its own
\* listens.
Childless ==
  /\ helper.pc = "wait" => /\ helper.child = "none"
                           /\ Running /\ ~panel.leaving => ~panel.child
  /\ Working /\ helper.pc \notin {"wait", "confirm", "schedule"} =>
       helper.child = "none" /\ (Running => ~panel.child)
  /\ helper.child = "starting" =>
       /\ helper.pc \in {"confirm", "ended"}
       /\ helper.pc = "confirm" /\ Running => ~panel.child

\* After the replacement there is no selector, and what listens when the
\* installation is confirmed looks for later releases only.
Confirmable == helper.pc = "confirm" /\ helper.mode = "install" /\ panel.child
Unselected ==
  /\ Replaced \/ helper.pc = "schedule" => root[Selector] = None
  /\ Running /\ (helper.pc = "schedule" \/ Confirmable) =>
       panel.selected = None /\ Offers(helper.key)

\* A plan belongs to an installation that is older than what is installed now,
\* saved, offered or downloaded.
Ahead ==
  plan.version # None =>
    /\ root[Selector] = None /\ root[Version] >= plan.version
    /\ Restores => Backup[Selector] = None /\ Backup[Version] >= plan.version
    /\ Working => helper.key > plan.version
    /\ Running => panel.selected = None /\ Offers(plan.version)

\* The plan of this installation spares its own backups.
Planned ==
  helper.mode = "install" /\ helper.pc \in {"start", "confirm", "schedule"} =>
    helper.plan.version = helper.key /\ helper.key \notin helper.plan.saved

\* So does whatever plan there is once it was reported as good.
Spares ==
  /\ helper.result # "none" => helper.pc = "ended"
  /\ helper.pc = "schedule" \/ helper.result = "installed" =>
       attempts \in Attempts /\ Backup # NoBackup
  /\ helper.result = "installed" =>
       /\ helper.mode = "install" /\ root[Version] = helper.key
       /\ plan.version = helper.key => helper.key \notin plan.saved


LEMMA ChildlessKept ==
  ASSUME IInv, Childless, [Next]_vars PROVE Childless'
<1>1. Modes
  BY DEF IInv
<1>2. CASE PanelMoves
  <2>1. CASE UNCHANGED helper
    BY <1>2, <2>1
    DEF Childless, PanelMoves, Listens, Goes, Remains, Comes, Working, Running, NoPanel
  <2>2. CASE helper.child = "starting" /\ helper'.child # "starting" /\ helper'.pc = helper.pc
    <3>1. helper.pc \in {"confirm", "ended"}
      BY <2>2 DEF Childless
    <3> QED
      BY <2>2, <3>1 DEF Childless, Working
  <2> QED
    BY <1>2, <2>1, <2>2 DEF PanelMoves, Watches
<1>3. CASE Installs
  BY <1>3 DEF Installs, Childless, Working
<1>4. CASE CleansUp
  BY <1>4 DEF CleansUp, Childless, Working, Running
<1>5. CASE Moves /\ UNCHANGED panel
  <2>1. CASE Prepares
    BY <1>5, <2>1
    DEF Childless, Working, Running, Prepares, To, Stays, Resumes
  <2>2. CASE Proceeds
    BY <1>1, <1>5, <2>2
    DEF Childless, Working, Running, Proceeds, To, Stays, Launches, GivesUp, Replacing,
        Replaced, Healthy
  <2>3. CASE Stops
    BY <1>5, <2>3 DEF Childless, Working, Stops, Ends
  <2> QED
    BY <1>5, <2>1, <2>2, <2>3 DEF Moves
<1>6. CASE Writes /\ UNCHANGED panel
  <2>1. CASE Saves \/ SavesNot \/ Replaces \/ GivesBack
    BY <1>6, <2>1
    DEF Childless, Working, Running, Saves, SavesNot, Replaces, GivesBack, Works, Resumes
  <2>2. CASE Unselects \/ Clears \/ Abandons
    BY <1>6, <2>2
    DEF Childless, Working, Running, Unselects, Clears, Abandons, To, Stays, GivesUp
  <2>3. CASE Confirms \/ Schedules
    BY <1>6, <2>3
    DEF Childless, Working, Running, Confirms, Schedules, Healthy, To, Stays, Ends
  <2> QED
    BY <1>6, <2>1, <2>2, <2>3 DEF Writes
<1> QED
  BY <1>2, <1>3, <1>4, <1>5, <1>6, StepKinds

LEMMA UnselectedKept ==
  ASSUME IInv, Originals, Childless, Unselected, [Next]_vars PROVE Unselected'
<1>1. Modes /\ Version \in Files /\ Selector \in Paths /\ root \in Contents
  BY PathsKnown, UpdatesAssumption DEF IInv, Types
<1>2. CASE PanelMoves
  <2>1. /\ helper'.pc = helper.pc /\ helper'.mode = helper.mode /\ helper'.key = helper.key
        /\ root' = root
    BY <1>2 DEF PanelMoves, Watches, Rest, Same
  <2>2. (Replaced \/ helper.pc = "schedule" => root[Selector] = None)'
    BY <2>1 DEF Unselected, Replaced
  <2>3. ASSUME Running', helper.pc = "schedule" \/ Confirmable'
        PROVE  panel'.selected = None /\ Offers(helper.key)'
    <3>1. root[Selector] = None
      BY <2>1, <2>3 DEF Unselected, Replaced, Confirmable
    <3>2. CASE panel' = NoPanel
      BY <2>3, <3>2 DEF Running
    <3>3. CASE UNCHANGED panel
      BY <2>1, <2>3, <3>3 DEF Unselected, Confirmable, Offers, Running
    <3>4. CASE Remains
      <4>1. panel.selected = None /\ Offers(helper.key) /\ panel'.selected = None
        BY <2>1, <2>3, <3>4 DEF Unselected, Confirmable, Remains
      <4>2. root[Version] = helper.key /\ helper.key \in Nat
        <5>1. helper.pc # "idle" /\ helper.key \in Releases
          BY <2>1, <2>3, HelperFields DEF Confirmable, IInv, Types, Keyed
        <5>2. Replaced \/ helper.pc = "schedule"
          BY <2>1, <2>3 DEF Confirmable, Replaced
        <5> QED
          BY <1>1, <5>1, <5>2, UpdatesAssumption DEF Originals, Placed, Releases
      <4>3. helper.key >= helper.key
        BY <4>2
      <4>4. root[Version] >= helper.key
        BY <4>2, <4>3
      <4>5. \A v \in Nat : panel.selected = None /\ root[Version] >= v /\ Offers(v) => Offers(v)'
        BY <3>4 DEF Remains
      <4>6. ASSUME NEW v \in Nat, v = helper.key, Offers(v)' PROVE Offers(helper.key)'
        BY <2>1, <4>6 DEF Offers
      <4> QED
        BY <4>1, <4>2, <4>4, <4>5, <4>6
    <3>5. CASE Comes
      BY <3>1, <3>5 DEF Comes, Offers
    <3> QED
      BY <1>2, <3>2, <3>3, <3>4, <3>5 DEF PanelMoves, Listens, Goes
  <2> QED
    BY <2>1, <2>2, <2>3 DEF Unselected, Confirmable
<1>3. CASE Installs
  BY <1>3 DEF Installs, Unselected, Replaced, Confirmable
<1>4. CASE CleansUp
  BY <1>4 DEF CleansUp, Unselected, Replaced, Confirmable, Offers, Running
<1>5. CASE Moves /\ UNCHANGED <<root, panel>>
  <2>1. CASE Prepares
    BY <1>5, <2>1 DEF Unselected, Replaced, Confirmable, Prepares, To, Stays, Resumes
  <2>2. CASE Proceeds
    BY <1>1, <1>5, <2>2
    DEF Unselected, Replaced, Confirmable, Proceeds, To, Stays, Launches, GivesUp,
        Childless, Working, Running, Modes, Installing, Recovering
  <2>3. CASE Stops
    BY <1>5, <2>3 DEF Unselected, Replaced, Confirmable, Stops, Ends
  <2> QED
    BY <1>5, <2>1, <2>2, <2>3 DEF Moves
<1>6. CASE Writes /\ UNCHANGED panel
  <2>1. CASE Saves \/ SavesNot \/ Replaces \/ Abandons \/ Schedules \/ GivesBack
    BY <2>1
    DEF Unselected, Replaced, Confirmable, Saves, SavesNot, Replaces, Abandons, Schedules,
        GivesBack, Works, Resumes, GivesUp, Ends
  <2>2. CASE Unselects
    BY <1>1, <2>2 DEF Unselected, Replaced, Confirmable, Unselects, To, Contents
  <2>3. CASE Clears
    BY <2>3 DEF Unselected, Replaced, Confirmable, Clears, Stays
  <2>4. CASE Confirms
    BY <1>6, <2>4
    DEF Unselected, Replaced, Confirmable, Confirms, Healthy, To, Rest, Same, Offers, Running
  <2> QED
    BY <1>6, <2>1, <2>2, <2>3, <2>4 DEF Writes
<1> QED
  BY <1>2, <1>3, <1>4, <1>5, <1>6, StepKinds

LEMMA PlannedKept ==
  ASSUME IInv, Planned, [Next]_vars PROVE Planned'
<1>1. Modes
  BY DEF IInv
<1>2. CASE PanelMoves
  BY <1>2 DEF Planned, PanelMoves, Watches, Rest, Same
<1>3. CASE Installs
  BY <1>3 DEF Installs, Planned
<1>4. CASE CleansUp
  BY <1>4 DEF CleansUp, Planned
<1>5. CASE Moves
  <2>1. CASE Prepares \/ Stops
    BY <2>1 DEF Planned, Prepares, To, Stays, Resumes, Stops, Ends
  <2>2. CASE Proceeds
    BY <1>1, <2>2
    DEF Planned, Proceeds, To, Stays, Rest, Same, Launches, GivesUp, Modes, Installing,
        Recovering
  <2> QED
    BY <1>5, <2>1, <2>2 DEF Moves
<1>6. CASE Writes
  <2>1. CASE Saves \/ SavesNot \/ Replaces \/ Unselects \/ Abandons
    BY <2>1
    DEF Planned, Saves, SavesNot, Replaces, Unselects, Abandons, Works, To, Resumes, GivesUp
  <2>2. CASE Confirms \/ Schedules \/ GivesBack
    BY <2>2 DEF Planned, Confirms, Schedules, GivesBack, Works, To, Stays, Rest, Same, Ends
  <2>3. CASE Clears
    <3>1. PlanCleanup.version = helper.key /\ helper.key \notin PlanCleanup.saved
      BY DEF PlanCleanup
    <3> HIDE DEF PlanCleanup
    <3> QED
      BY <2>3, <3>1 DEF Planned, Clears
  <2> QED
    BY <1>6, <2>1, <2>2, <2>3 DEF Writes
<1> QED
  BY <1>2, <1>3, <1>4, <1>5, <1>6, StepKinds

\* No cleanup removes the backup of this attempt.
LEMMA BackupKept ==
  ASSUME IInv, CleansUp, attempts \in Attempts PROVE Backup' = Backup
BY DEF IInv, Fresh, CleansUp, Backup, Types, Attempts

LEMMA PlanVersion ==
  ASSUME IInv
  PROVE  /\ plan.version \in Nat /\ root[Version] \in Nat /\ root \in Contents
         /\ helper.key \in Nat /\ (helper.pc # "idle" => helper.key \in Releases)
         /\ \A a \in Attempts : backup[a] # NoBackup => backup[a] \in Contents
<1>1. plan \in Plans /\ root \in Contents /\ helper.key \in {None} \cup Releases
  BY HelperFields DEF IInv, Types
<1>2. plan.version \in {None} \cup Releases
  BY <1>1 DEF Plans
<1>3. root[Version] \in 0..MaxRelease
  BY <1>1, PathsKnown DEF Contents
<1>4. \A a \in Attempts : backup[a] # NoBackup => backup[a] \in Contents
  BY DEF IInv, Types
<1> QED
  BY <1>1, <1>2, <1>3, <1>4, UpdatesAssumption DEF Releases, None, IInv, Keyed

LEMMA AheadKept ==
  ASSUME IInv, Originals, Unselected, Planned, Ahead, [Next]_vars PROVE Ahead'
<1> SUFFICES ASSUME plan'.version # None
             PROVE  /\ root'[Selector] = None /\ root'[Version] >= plan'.version
                    /\ Restores' => /\ Backup'[Selector] = None
                                    /\ Backup'[Version] >= plan'.version
                    /\ Working' => helper'.key > plan'.version
                    /\ Running' => panel'.selected = None /\ Offers(plan.version)'
  BY DEF Ahead
<1>1. /\ plan.version \in Nat /\ root[Version] \in Nat /\ root \in Contents
      /\ helper.key \in Nat /\ (helper.pc # "idle" => helper.key \in Releases)
      /\ Version \in Files /\ Selector \notin Files /\ Version \in Paths /\ Selector \in Paths
      /\ Modes
  BY PlanVersion, PathsKnown, UpdatesAssumption DEF IInv
<1>2. CASE PanelMoves
  <2>1. /\ helper'.pc = helper.pc /\ helper'.mode = helper.mode /\ helper'.key = helper.key
        /\ UNCHANGED <<root, backup, plan, attempts>>
    BY <1>2 DEF PanelMoves, Watches, Rest, Same
  <2>2. ASSUME Running' PROVE panel'.selected = None /\ Offers(plan.version)'
    <3>1. CASE panel' = NoPanel
      BY <2>2, <3>1 DEF Running
    <3>2. CASE UNCHANGED panel
      BY <2>1, <2>2, <3>2 DEF Ahead, Offers, Running
    <3>3. CASE Remains
      <4>1. panel.selected = None /\ Offers(plan.version) /\ root[Version] >= plan.version
        BY <2>1, <3>3 DEF Ahead, Remains
      <4>2. ASSUME NEW v \in Nat, v = plan.version, Offers(v)' PROVE Offers(plan.version)'
        BY <2>1, <4>2 DEF Offers
      <4> QED
        BY <1>1, <3>3, <4>1, <4>2 DEF Remains
    <3>4. CASE Comes
      BY <2>1, <3>4 DEF Comes, Offers, Ahead
    <3> QED
      BY <1>2, <3>1, <3>2, <3>3, <3>4 DEF PanelMoves, Listens, Goes
  <2> QED
    BY <2>1, <2>2 DEF Ahead, Restores, Replacing, Replaced, Restoring, Backup, Working
<1>3. CASE Installs
  BY <1>3
  DEF Installs, Ahead, Offers, Restores, Replacing, Replaced, Restoring, Working
<1>4. CASE CleansUp
  <2>1. plan' = plan /\ UNCHANGED <<root, helper, attempts>>
    BY <1>4 DEF CleansUp, NoPlan
  <2>2. Restores => Backup' = Backup
    BY <1>4, BackupKept DEF IInv, Backed
  <2> QED
    BY <1>4, <2>1, <2>2
    DEF CleansUp, Ahead, Offers, Restores, Replacing, Replaced, Restoring, Working
<1>5. CASE Moves /\ UNCHANGED <<root, backup, plan, attempts, panel>>
  <2>1. (Restores' => Restores) /\ (Working' => Working) /\ helper'.key = helper.key
    <3>1. CASE Prepares
      BY <3>1
      DEF Restores, Replacing, Replaced, Restoring, Working, Prepares, To, Rest, Stays,
          Resumes, Same
    <3>2. CASE Proceeds
      BY <1>1, <3>2
      DEF Restores, Replacing, Replaced, Restoring, Working, Proceeds, To, Rest, Stays,
          Launches, GivesUp, Same, Modes, Recovering
    <3>3. CASE Stops
      BY <3>3 DEF Restores, Replacing, Replaced, Restoring, Working, Stops, Ends, Rest, Same
    <3> QED
      BY <1>5, <3>1, <3>2, <3>3 DEF Moves
  <2> QED
    BY <1>5, <2>1 DEF Ahead, Backup, Offers, Running
<1>6. CASE Writes /\ UNCHANGED panel
  <2>1. CASE Saves
    <3>1. Backup' = root /\ UNCHANGED <<root, plan>> /\ Working /\ helper'.key = helper.key
      <4>1. attempts' \in Attempts
        BY <2>1, UpdatesAssumption DEF Saves, IInv, Backed, Before, Types, Attempts
      <4> QED
        BY <2>1, <4>1 DEF Saves, Works, Same, Working, Backup, IInv, Types
    <3> QED
      BY <1>6, <3>1 DEF Ahead, Offers, Running
  <2>2. CASE SavesNot
    BY <1>6, <2>2
    DEF SavesNot, Resumes, Rest, Same, Ahead, Offers, Running, Restores, Replacing,
        Replaced, Restoring, Working
  <2>3. CASE Replaces
    <3>1. PICK f \in Files : root' = [root EXCEPT ![f] = helper.key]
      BY <2>3 DEF Replaces
    <3>2. helper.key > plan.version /\ helper'.key = helper.key /\ Restores /\ plan' = plan
      BY <2>3 DEF Replaces, Works, Same, Ahead, Working, Restores, Replacing
    <3>3. root'[Selector] = None /\ root'[Version] >= plan.version
      <4>1. root'[Selector] = root[Selector]
        BY <1>1, <3>1 DEF Contents
      <4>2. root'[Version] \in {root[Version], helper.key}
        BY <1>1, <3>1 DEF Contents
      <4> QED
        BY <1>1, <3>2, <4>1, <4>2 DEF Ahead
    <3> QED
      BY <1>6, <2>3, <3>2, <3>3 DEF Replaces, Ahead, Offers, Running, Backup
  <2>4. CASE Unselects
    <3>1. /\ root'[Selector] = None /\ root'[Version] = root[Version]
          /\ Working /\ Restores /\ helper'.key = helper.key /\ plan' = plan /\ Backup' = Backup
      BY <1>1, <2>4
      DEF Unselects, Contents, Working, Restores, Replacing, To, Rest, Same, Backup
    <3> QED
      BY <1>1, <1>6, <3>1 DEF Ahead, Offers, Running
  <2>5. CASE Clears \/ Abandons \/ Confirms
    <3>1. /\ Working /\ helper'.key = helper.key /\ UNCHANGED <<root, backup, plan, attempts>>
          /\ Restores' => Restores
      BY <2>5
      DEF Clears, Abandons, Confirms, Working, To, Rest, Same, GivesUp, Stays, Restores,
          Replacing, Replaced, Restoring
    <3> QED
      BY <1>6, <3>1 DEF Ahead, Offers, Running, Backup
  <2>6. CASE Schedules
    <3>1. /\ UNCHANGED <<root, backup, attempts>> /\ helper.pc = "schedule" /\ helper.mode = "install"
          /\ ~Working' /\ ~Restores'
      BY <1>1, <2>6
      DEF Schedules, Ends, Modes, Installing, Working, Restores, Replacing, Replaced, Restoring
    <3>2. CASE plan' = plan
      BY <1>6, <3>1, <3>2 DEF Ahead, Offers, Running
    <3>3. CASE plan' = helper.plan
      <4>1. /\ plan'.version = helper.key /\ root[Version] = helper.key
            /\ root[Selector] = None
            /\ Running => panel.selected = None /\ Offers(helper.key)
        BY <1>1, <3>1, <3>3 DEF Planned, Unselected, Originals, Placed
      <4>2. root'[Version] >= plan'.version
        BY <1>1, <3>1, <4>1
      <4> QED
        BY <1>6, <3>1, <4>1, <4>2 DEF Offers, Running
    <3> QED
      BY <2>6, <3>2, <3>3 DEF Schedules
  <2>7. CASE GivesBack
    <3>1. /\ Restores /\ Working /\ helper'.key = helper.key
          /\ UNCHANGED <<backup, plan, attempts>>
          /\ \/ UNCHANGED root
             \/ \E p \in helper.todo : root' = [root EXCEPT ![p] = Backup[p]]
      BY <2>7 DEF GivesBack, Restores, Restoring, Working, Works, Same, Backup
    <3>2. helper.todo \subseteq Paths
      BY HelperFields DEF IInv, Types
    <3>3. Backup[Selector] = None /\ Backup[Version] >= plan.version
      BY <3>1 DEF Ahead
    <3>4. root'[Selector] = None /\ root'[Version] >= plan.version
      <4>1. root[Selector] = None /\ root[Version] >= plan.version
        BY <3>1 DEF Ahead
      <4>2. ASSUME NEW p \in Paths, root' = [root EXCEPT ![p] = Backup[p]]
            PROVE  /\ root'[Selector] \in {root[Selector], Backup[Selector]}
                   /\ root'[Version] \in {root[Version], Backup[Version]}
        BY <1>1, <4>2 DEF Contents
      <4> QED
        BY <3>1, <3>2, <3>3, <4>1, <4>2
    <3> QED
      BY <1>6, <3>1, <3>3, <3>4 DEF Ahead, Offers, Running, Backup
  <2> QED
    BY <1>6, <2>1, <2>2, <2>3, <2>4, <2>5, <2>6, <2>7 DEF Writes
<1> QED
  BY <1>2, <1>3, <1>4, <1>5, <1>6, StepKinds

LEMMA SparesKept ==
  ASSUME IInv, Originals, Unselected, Planned, Ahead, Spares, [Next]_vars PROVE Spares'
<1>1. /\ plan.version \in Nat /\ Modes /\ Version \in Files
      /\ helper.pc # "idle" => helper.key \in Releases
  BY PlanVersion, UpdatesAssumption DEF IInv
<1>2. CASE PanelMoves
  BY <1>2 DEF PanelMoves, Watches, Rest, Same, Spares, Backup
<1>3. CASE Installs
  BY <1>3 DEF Installs, Spares
<1>4. CASE CleansUp
  <2>1. attempts \in Attempts => Backup' = Backup
    BY <1>4, BackupKept
  <2>2. helper.result = "installed" => helper.key # None
    BY <1>1, UpdatesAssumption DEF Spares, Releases, None
  <2> QED
    BY <1>4, <2>1, <2>2 DEF CleansUp, Spares, NoPlan
<1>5. CASE Moves /\ UNCHANGED <<root, backup, plan, attempts>>
  <2>1. helper'.pc # "schedule" /\ helper'.result # "installed"
        /\ (helper'.result # "none" => helper'.pc = "ended")
    <3>1. CASE Prepares
      BY <3>1 DEF Spares, Prepares, To, Stays, Resumes
    <3>2. CASE Proceeds
      BY <3>2 DEF Spares, Proceeds, To, Stays, Launches, GivesUp, Replacing, Replaced
    <3>3. CASE Stops
      BY <3>3 DEF Spares, Stops, Ends
    <3> QED
      BY <1>5, <3>1, <3>2, <3>3 DEF Moves
  <2> QED
    BY <2>1 DEF Spares
<1>6. CASE Writes
  <2>1. CASE Saves \/ SavesNot \/ Replaces \/ Unselects \/ Clears \/ Abandons \/ GivesBack
    BY <2>1
    DEF Spares, Saves, SavesNot, Replaces, Unselects, Clears, Abandons, GivesBack, Works,
        Resumes, To, Stays, GivesUp
  <2>2. CASE Confirms
    BY <2>2
    DEF Spares, Confirms, To, Stays, IInv, Backed, Restores, Replaced, Backup
  <2>3. CASE Schedules
    <3>1. /\ UNCHANGED <<root, backup, attempts>> /\ helper.pc = "schedule"
          /\ helper.mode = "install" /\ helper'.mode = "install" /\ helper'.pc = "ended"
          /\ helper'.key = helper.key /\ plan' \in {plan, helper.plan}
      BY <1>1, <2>3 DEF Schedules, Ends, Modes, Installing, Rest, Same
    <3>2. root[Version] = helper.key
      BY <1>1, <3>1 DEF Originals, Placed
    <3>3. plan'.version = helper.key => helper.key \notin plan'.saved
      <4>1. CASE plan' = plan
        <5>1. helper.key # None /\ helper.key \in Nat
          BY <1>1, <3>1, UpdatesAssumption DEF Releases, None
        <5> QED
          BY <1>1, <3>1, <4>1, <5>1 DEF Ahead, Working
      <4>2. CASE plan' = helper.plan
        BY <3>1, <4>2 DEF Planned
      <4> QED
        BY <3>1, <4>1, <4>2
    <3> QED
      BY <3>1, <3>2, <3>3 DEF Spares, Backup
  <2> QED
    BY <1>6, <2>1, <2>2, <2>3 DEF Writes
<1> QED
  BY <1>2, <1>3, <1>4, <1>5, <1>6, StepKinds

Recoveries == Childless /\ Unselected /\ Planned /\ Ahead /\ Spares

LEMMA RecoveriesHold == Spec => [](IInv /\ Originals /\ Recoveries)
<1>1. Init => Recoveries
  <2> SUFFICES ASSUME Init PROVE Recoveries
    OBVIOUS
  <2>1. plan = NoPlan /\ panel = NoPanel /\ helper = Idle
    BY DEF Init
  <2> QED
    BY <2>1
    DEF Recoveries, Childless, Unselected, Planned, Ahead, Spares, Idle, NoPlan, Running,
        Working, Replaced
<1>2. IInv /\ Originals /\ Recoveries /\ [Next]_vars => Recoveries'
  BY ChildlessKept, UnselectedKept, PlannedKept, AheadKept, SparesKept DEF Recoveries
<1> QED
  BY <1>1, <1>2, Invariant, PTL DEF Spec

\* An installation that was reported as good keeps its program backup, and no
\* cleanup takes that or the backup of the accounts from then on.
THEOREM RecoveryIsRetained == Spec => RecoveryRetained
<1> DEFINE Retained == helper'.result = "installed" =>
                         /\ backup'[Directory(attempts')] # NoBackup
                         /\ helper.result = "installed" => saved'[helper.key] = saved[helper.key]
<1>1. ASSUME IInv, Originals, Recoveries, Recoveries', [Next]_vars PROVE Retained
  <2>1. helper'.result = "installed" => backup'[Directory(attempts')] # NoBackup
    BY <1>1 DEF Recoveries, Spares, Backup, Directory
  <2>2. ASSUME helper'.result = "installed", helper.result = "installed"
        PROVE  saved'[helper.key] = saved[helper.key]
    <3>1. /\ helper.pc = "ended" /\ helper.key \in Releases /\ root[Version] = helper.key
          /\ plan.version = helper.key => helper.key \notin plan.saved
      BY <1>1, <2>2, PlanVersion DEF Recoveries, Spares
    <3>2. CASE PanelMoves
      BY <3>2 DEF PanelMoves
    <3>3. CASE Installs
      BY <2>2, <3>3 DEF Installs
    <3>4. CASE CleansUp
      BY <3>1, <3>4 DEF CleansUp
    <3>5. CASE Moves
      BY <3>1, <3>5 DEF Moves, Prepares, Proceeds, Stops, Replacing, Replaced
    <3>6. CASE Writes
      BY <3>1, <3>6
      DEF Writes, Saves, SavesNot, Replaces, Unselects, Clears, Abandons, Confirms,
          Schedules, GivesBack
    <3> QED
      BY <1>1, <3>2, <3>3, <3>4, <3>5, <3>6, StepKinds
  <2> QED
    BY <2>1, <2>2
<1>2. IInv /\ Originals /\ Recoveries /\ Recoveries' /\ [Next]_vars => [Retained]_vars
  BY <1>1
<1> QED
  BY <1>2, RecoveriesHold, PTL DEF Spec, RecoveryRetained

-----------------------------------------------------------------------------
(* How an update ends: what the panel that is confirmed runs on.            *)

\* A rollback that put every file back.
Restored == /\ helper.mode = "rollback"
            /\ helper.pc \in {"aside", "putback", "putting", "report", "restart", "confirm"}

\* The selector that the helper found is the one of the program it restarts.
Chosen ==
  /\ helper.pc \in {"validate", "accounts", "copy", "save"} \/ helper.mode = "resume" =>
       helper.old = root[Selector]
  /\ Replacing \/ Replaced \/ Restoring \/ Restored => helper.old = Backup[Selector]
  /\ helper.child = "starting" /\ helper.mode # "install" => helper.old = root[Selector]

\* What was put back is as it was saved.
PutBack ==
  /\ Restoring /\ ~helper.failed => \A p \in Paths \ helper.todo : root[p] = Backup[p]
  /\ Restored => root = Backup

\* A restart of the old program was reported,
Restarting == helper.pc = "restart" \/ (helper.pc = "confirm" /\ helper.mode # "install")
Reported == Restarting => lastError
\* and the panel it started follows the selector that the helper found.
Aligned == /\ helper.pc = "confirm" /\ helper.mode # "install"
           /\ Running /\ panel.child
           => panel.selected = helper.old

\* The launcher of a panel that runs from the root is not replaced.
Locked == Running /\ panel.selected = None => panel.release = root[Launcher]

\* A panel that runs has a database.
Occupied == Running => accounts # "none"

LEMMA OpenedKeeps ==
  ASSUME NEW r
  PROVE  /\ Opened(r) # "none"
         /\ Opened(r) = "old" <=> accounts = "old" /\ r = Old
         /\ accounts \notin {"none", "old"} => Opened(r) = accounts
BY DEF Opened

\* The program that the helper starts is the one that a user would start.
LEMMA TargetRuns ==
  ASSUME Chosen, helper.child = "starting" PROVE Runs(Target) = Runs(None)
BY DEF Chosen, Target, Runs, Followed

LEMMA PanelOpens ==
  ASSUME Chosen, PanelMoves
  PROVE  /\ accounts' \in {accounts, Opened(Runs(None))}
         /\ \/ UNCHANGED panel \/ Goes \/ Remains
            \/ Comes /\ panel'.release = Runs(None) /\ accounts' = Opened(Runs(None))
BY TargetRuns DEF PanelMoves, Opening, Comes

\* Only the next save changes which backup is the one of the attempt.
LEMMA BackupStays ==
  ASSUME IInv, [Next]_vars, ~Saves, ~SavesNot, Restores
  PROVE  Backup' = Backup
<1>1. CASE PanelMoves \/ Installs
  BY <1>1 DEF PanelMoves, Installs, Backup
<1>2. CASE CleansUp
  BY <1>2, BackupKept DEF IInv, Backed
<1>3. CASE UNCHANGED <<backup, attempts>>
  BY <1>3 DEF Backup
<1>4. CASE Writes
  BY <1>3, <1>4
  DEF Writes, Replaces, Unselects, Clears, Abandons, Confirms, Schedules, GivesBack
<1> QED
  BY <1>1, <1>2, <1>3, <1>4, StepKinds

LEMMA SavesBackup ==
  ASSUME IInv, Saves PROVE Backup' = root
<1>1. attempts' \in Attempts
  BY UpdatesAssumption DEF Saves, IInv, Backed, Before, Types, Attempts
<1> QED
  BY <1>1 DEF Saves, Backup, IInv, Types

LEMMA ChosenKept ==
  ASSUME IInv, Childless, PutBack, Chosen, [Next]_vars PROVE Chosen'
<1>1. Modes /\ Selector \in Paths
  BY PathsKnown DEF IInv
<1>2. Restoring \/ Restored => Restores
  BY DEF Restores, Restored
<1>3. CASE PanelMoves
  <2>1. /\ helper'.pc = helper.pc /\ helper'.mode = helper.mode /\ helper'.old = helper.old
        /\ helper'.child = "starting" => helper.child = "starting"
        /\ UNCHANGED <<root, backup, attempts>>
    BY <1>3 DEF PanelMoves, Watches, Rest
  <2> QED
    BY <2>1 DEF Chosen, Replacing, Replaced, Restoring, Restored, Backup
<1>4. CASE Installs
  BY <1>4 DEF Installs, Chosen, Replacing, Replaced, Restoring, Restored
<1>5. CASE CleansUp
  <2>1. UNCHANGED <<root, helper, attempts>>
    BY <1>5 DEF CleansUp
  <2>2. Restores => Backup' = Backup
    BY <1>5, BackupKept DEF IInv, Backed
  <2> QED
    BY <1>2, <2>1, <2>2
    DEF Chosen, Replacing, Replaced, Restoring, Restored, Restores
<1>6. CASE Moves /\ UNCHANGED <<root, backup, attempts>>
  <2>1. Backup' = Backup
    BY <1>6 DEF Backup
  <2>2. CASE Prepares
    BY <1>1, <1>6, <2>2
    DEF Chosen, Prepares, To, Rest, Stays, Resumes, Replacing, Replaced, Restoring, Restored,
        Childless, Working, Modes, Installing, Before
  <2>3. CASE Proceeds
    <3>1. CASE helper.pc = "restart" /\ Launches
      <4>1. helper.mode \in {"resume", "rollback"}
        BY <1>1, <3>1, HelperFields DEF IInv, Types, Modes, Recovering
      <4>2. helper.old = root[Selector]
        BY <3>1, <4>1 DEF Chosen, PutBack, Restored
      <4> QED
        BY <1>6, <2>1, <3>1, <4>1, <4>2
        DEF Chosen, Launches, Rest, Replacing, Replaced, Restoring, Restored
    <3>2. CASE helper.pc = "start" /\ Launches
      BY <1>1, <1>6, <2>1, <3>2
      DEF Chosen, Launches, Rest, Replacing, Replaced, Restoring, Restored, Modes, Installing
    <3>3. CASE (Replacing \/ Replaced) /\ GivesUp
      BY <1>6, <2>1, <3>3
      DEF Chosen, GivesUp, Replacing, Replaced, Restoring, Restored
    <3>4. CASE /\ helper.pc \in {"restore", "aside", "putback", "putting", "report"}
               /\ \E pc \in {"aside", "putback", "putting", "report", "restart"} : To(pc)
      BY <1>1, <1>6, <2>1, <3>4
      DEF Chosen, To, Rest, Stays, Replacing, Replaced, Restoring, Restored, Modes, Recovering
    <3> QED
      BY <2>3, <3>1, <3>2, <3>3, <3>4 DEF Proceeds
  <2>4. CASE Stops
    BY <1>6, <2>1, <2>4 DEF Chosen, Stops, Ends, Rest, Replacing, Replaced, Restoring, Restored
  <2> QED
    BY <1>6, <2>2, <2>3, <2>4 DEF Moves
<1>7. CASE Writes
  <2>1. CASE Saves
    <3>1. Backup' = root /\ root' = root /\ helper.old = root[Selector]
          /\ helper'.old = helper.old /\ helper'.mode = "install" /\ helper'.pc = "replace"
      BY <1>1, <2>1, SavesBackup DEF Saves, Works, Chosen, Modes, Installing, Before
    <3> QED
      BY <3>1 DEF Chosen
  <2>2. CASE SavesNot
    BY <2>2 DEF SavesNot, Resumes, Rest, Chosen, Replacing, Replaced, Restoring, Restored
  <2>3. CASE Replaces \/ Unselects \/ Clears \/ Abandons
    <3>1. /\ helper'.old = helper.old /\ helper'.mode \in {"install", "rollback"}
          /\ helper'.child = "none" /\ UNCHANGED <<backup, attempts>>
          /\ helper'.pc \in {"replace", "clear", "start", "restore"}
          /\ Replacing \/ Replaced
      BY <1>1, <2>3
      DEF Replaces, Unselects, Clears, Abandons, Works, To, Rest, Stays, GivesUp, Childless,
          Working, Modes, Installing, Replacing, Replaced
    <3> QED
      BY <3>1 DEF Chosen, Backup, Replacing, Replaced, Restoring, Restored
  <2>4. CASE Confirms \/ Schedules
    BY <1>1, <2>4
    DEF Confirms, Schedules, Chosen, To, Rest, Stays, Ends, Replacing, Replaced, Restoring,
        Restored, Modes, Installing
  <2>5. CASE GivesBack
    <3>1. /\ helper'.old = helper.old /\ helper'.mode = "rollback" /\ helper'.pc = "restore"
          /\ helper'.child = "none" /\ UNCHANGED <<backup, attempts>> /\ Restoring
      BY <1>1, <2>5 DEF GivesBack, Works, Childless, Working, Modes, Restoring
    <3> QED
      BY <3>1 DEF Chosen, Backup
  <2> QED
    BY <1>7, <2>1, <2>2, <2>3, <2>4, <2>5 DEF Writes
<1> QED
  BY <1>3, <1>4, <1>5, <1>6, <1>7, StepKinds

LEMMA PutBackKept ==
  ASSUME IInv, PutBack, [Next]_vars PROVE PutBack'
<1>1. Modes /\ root \in Contents /\ helper.todo \subseteq Paths
  BY HelperFields DEF IInv, Types
<1>2. Restoring \/ Restored => Restores
  BY DEF Restores, Restored
<1>3. CASE PanelMoves
  <2>1. /\ helper'.pc = helper.pc /\ helper'.mode = helper.mode
        /\ helper'.todo = helper.todo /\ helper'.failed = helper.failed
        /\ UNCHANGED <<root, backup, attempts>>
    BY <1>3 DEF PanelMoves, Watches, Rest
  <2> QED
    BY <2>1 DEF PutBack, Restoring, Restored, Backup
<1>4. CASE Installs
  BY <1>4 DEF Installs, PutBack, Restoring, Restored
<1>5. CASE CleansUp
  <2>1. UNCHANGED <<root, helper, attempts>>
    BY <1>5 DEF CleansUp
  <2>2. Restores => Backup' = Backup
    BY <1>5, BackupKept DEF IInv, Backed
  <2> QED
    BY <1>2, <2>1, <2>2 DEF PutBack, Restoring, Restored
<1>6. CASE Moves /\ UNCHANGED <<root, backup, attempts>>
  <2>1. Backup' = Backup
    BY <1>6 DEF Backup
  <2>2. CASE Prepares
    BY <1>1, <2>2
    DEF PutBack, Prepares, To, Stays, Resumes, Restoring, Restored, Modes, Installing, Before
  <2>3. CASE Proceeds
    <3>1. CASE helper.pc = "restart" /\ Launches
      BY <1>6, <2>1, <3>1 DEF PutBack, Launches, Restoring, Restored
    <3>2. CASE helper.pc = "start" /\ Launches
      BY <1>1, <3>2 DEF PutBack, Launches, Restoring, Restored, Modes, Installing
    <3>3. CASE GivesUp
      BY <3>3 DEF PutBack, GivesUp, Restoring, Restored
    <3>4. CASE /\ helper.pc \in {"aside", "putback", "putting", "report"}
               /\ \E pc \in {"putback", "putting", "report", "restart"} : To(pc)
      BY <1>6, <2>1, <3>4 DEF PutBack, To, Stays, Restoring, Restored
    <3>5. CASE /\ helper.pc = "restore" /\ helper.todo = {} /\ ~helper.failed
               /\ \E pc \in {"aside", "report"} : To(pc)
      <4>1. \A p \in Paths : root[p] = Backup[p]
        BY <3>5 DEF PutBack, Restoring
      <4>2. Backup \in Contents
        BY <3>5 DEF IInv, Backed, Restores, Restoring, Types, Backup
      <4>3. root = Backup
        BY <1>1, <4>1, <4>2 DEF Contents
      <4> QED
        BY <1>6, <2>1, <3>5, <4>3 DEF PutBack, To, Restoring
    <3> QED
      BY <2>3, <3>1, <3>2, <3>3, <3>4, <3>5 DEF Proceeds
  <2>4. CASE Stops
    BY <2>4 DEF PutBack, Stops, Ends, Restoring, Restored
  <2> QED
    BY <1>6, <2>2, <2>3, <2>4 DEF Moves
<1>7. CASE Writes
  <2>1. CASE Saves \/ SavesNot \/ Replaces \/ Unselects
    BY <2>1
    DEF PutBack, Saves, SavesNot, Replaces, Unselects, Resumes, To, Restoring, Restored
  <2>2. CASE Clears \/ Abandons \/ Confirms \/ Schedules
    BY <2>2
    DEF PutBack, Clears, Abandons, Confirms, Schedules, GivesUp, To, Ends, Restoring, Restored
  <2>3. CASE GivesBack
    <3>1. /\ helper'.pc = "restore" /\ Restoring /\ UNCHANGED <<backup, attempts>>
          /\ helper.failed => helper'.failed
      BY <2>3 DEF GivesBack, Restoring
    <3>2. ASSUME ~helper'.failed, NEW q \in Paths \ helper'.todo
          PROVE  root'[q] = Backup'[q]
      <4>1. PICK p \in helper.todo : /\ helper'.todo = helper.todo \ {p}
                                     /\ root' = [root EXCEPT ![p] = Backup[p]]
        BY <2>3, <3>2 DEF GivesBack, Backup
      <4>2. q # p => root[q] = Backup[q]
        BY <3>1, <3>2, <4>1 DEF PutBack
      <4>3. Backup' = Backup
        BY <3>1 DEF Backup
      <4> QED
        BY <1>1, <3>2, <4>1, <4>2, <4>3 DEF Contents
    <3> QED
      BY <3>1, <3>2 DEF PutBack, Restored
  <2> QED
    BY <1>7, <2>1, <2>2, <2>3 DEF Writes
<1> QED
  BY <1>3, <1>4, <1>5, <1>6, <1>7, StepKinds

LEMMA ReportedKept ==
  ASSUME IInv, Reported, [Next]_vars PROVE Reported'
<1>1. Modes
  BY DEF IInv
<1>2. CASE PanelMoves
  BY <1>2 DEF PanelMoves, Watches, Reported, Restarting
<1>3. CASE Installs \/ CleansUp
  BY <1>3 DEF Installs, CleansUp, Reported, Restarting
<1>4. CASE Moves
  <2>1. CASE Prepares \/ Stops
    BY <2>1
    DEF Prepares, Stops, To, Stays, Resumes, Ends, Reported, Restarting
  <2>2. CASE Proceeds
    BY <1>1, <2>2
    DEF Proceeds, To, Stays, Launches, GivesUp, Reported, Restarting, Modes, Installing
  <2> QED
    BY <1>4, <2>1, <2>2 DEF Moves
<1>5. CASE Writes
  <2>1. CASE Saves \/ SavesNot \/ Replaces \/ Unselects \/ Clears
    BY <2>1
    DEF Saves, SavesNot, Replaces, Unselects, Clears, To, Resumes, Reported, Restarting
  <2>2. CASE Abandons \/ Confirms \/ Schedules \/ GivesBack
    BY <2>2
    DEF Abandons, Confirms, Schedules, GivesBack, GivesUp, To, Ends, Reported, Restarting
  <2> QED
    BY <1>5, <2>1, <2>2 DEF Writes
<1> QED
  BY <1>2, <1>3, <1>4, <1>5, StepKinds

LEMMA AlignedKept ==
  ASSUME IInv, Childless, Chosen, Aligned, [Next]_vars PROVE Aligned'
<1>1. CASE PanelMoves
  <2>1. /\ helper'.pc = helper.pc /\ helper'.mode = helper.mode /\ helper'.old = helper.old
        /\ root' = root
    BY <1>1 DEF PanelMoves, Watches, Rest
  <2>2. CASE Comes
    BY <2>1, <2>2 DEF Comes, Aligned, Chosen
  <2>3. CASE UNCHANGED panel \/ Goes \/ Remains
    BY <2>1, <2>3 DEF Goes, Remains, Aligned, Running
  <2> QED
    BY <1>1, <2>2, <2>3 DEF PanelMoves, Listens
<1>2. CASE Installs \/ CleansUp
  BY <1>2 DEF Installs, CleansUp, Aligned, Running
<1>3. CASE Moves /\ UNCHANGED panel
  <2>1. CASE Prepares \/ Stops
    BY <2>1 DEF Prepares, Stops, To, Resumes, Ends, Aligned
  <2>2. CASE Proceeds
    BY <1>3, <2>2
    DEF Proceeds, To, Launches, GivesUp, Aligned, Childless, Working, Running
  <2> QED
    BY <1>3, <2>1, <2>2 DEF Moves
<1>4. CASE Writes
  <2>1. CASE Saves \/ SavesNot \/ Replaces \/ Unselects \/ Clears
    BY <2>1 DEF Saves, SavesNot, Replaces, Unselects, Clears, To, Resumes, Aligned
  <2>2. CASE Abandons \/ Confirms \/ Schedules \/ GivesBack
    BY <2>2 DEF Abandons, Confirms, Schedules, GivesBack, GivesUp, To, Ends, Aligned
  <2> QED
    BY <1>4, <2>1, <2>2 DEF Writes
<1> QED
  BY <1>1, <1>2, <1>3, <1>4, StepKinds

LEMMA LockedKept ==
  ASSUME IInv, Chosen, Locked, [Next]_vars PROVE Locked'
<1>1. Launcher \in Paths /\ Selector \in Paths /\ Launcher # Selector /\ root \in Contents
      /\ Files \subseteq Paths /\ Selector \notin Files /\ helper.todo \subseteq Paths
  BY PathsKnown, HelperFields, UpdatesAssumption DEF IInv, Types, Paths
<1>2. CASE PanelMoves
  <2>1. root' = root
    BY <1>2 DEF PanelMoves
  <2>2. CASE Comes /\ panel'.release = Runs(None)
    BY <2>1, <2>2 DEF Comes, Locked, Runs, Followed
  <2>3. CASE UNCHANGED panel \/ Goes \/ Remains
    BY <2>1, <2>3 DEF Goes, Remains, Locked, Running
  <2> QED
    BY <1>2, <2>2, <2>3, PanelOpens
<1>3. CASE Installs \/ CleansUp
  BY <1>3 DEF Installs, CleansUp, Locked, Running
<1>4. CASE UNCHANGED <<root, panel>>
  BY <1>4 DEF Locked, Running
<1>5. ASSUME NEW p \in Paths, NEW r, ~Busy(p), root' = [root EXCEPT ![p] = r], UNCHANGED panel
      PROVE  Locked'
  <2>1. Running /\ panel.selected = None => root'[Launcher] = root[Launcher]
    BY <1>1, <1>5 DEF Busy, Contents
  <2> QED
    BY <1>5, <2>1 DEF Locked, Running
<1>6. CASE Writes /\ UNCHANGED panel
  <2>1. ~Busy(Selector)
    BY <1>1 DEF Busy
  <2>2. CASE Replaces
    BY <1>1, <1>5, <1>6, <2>2 DEF Replaces
  <2>3. CASE Unselects
    BY <1>1, <1>5, <1>6, <2>1, <2>3 DEF Unselects
  <2>4. CASE GivesBack
    BY <1>1, <1>4, <1>5, <1>6, <2>4 DEF GivesBack
  <2> QED
    BY <1>4, <1>6, <2>2, <2>3, <2>4
    DEF Writes, Saves, SavesNot, Clears, Abandons, Confirms, Schedules
<1> QED
  BY <1>2, <1>3, <1>4, <1>6, StepKinds

\* The accounts that a rollback gives back: a backup that is not migrated belongs
\* to files that are not either, so no panel that opens it migrates it.
Early(files) == files[Launcher] = Old /\ files[Selector] = None
Unmigrated ==
  /\ accounts = "old" /\ Running => panel.selected = None /\ Early(root)
  /\ accounts = "old" /\ helper.pc \in Before => Early(root)
  /\ accounts = "old" /\ Restores => Early(Backup)
Copied == helper.hasDB /\ saved[helper.key] = "old"
CopiedEarly ==
  /\ helper.pc \in {"idle", "wait", "validate", "accounts", "copy"} => ~helper.hasDB
  /\ Copied /\ helper.pc = "save" => Early(root)
  /\ Copied /\ Restores => Early(Backup)

\* They are copied where no panel has a database open, and stay there.
Back == /\ helper.pc \in {"report", "restart", "confirm"} /\ helper.mode = "rollback"
        /\ helper.restore /\ helper.hasDB
Returning ==
  /\ helper.pc \in {"aside", "putback", "putting"} =>
       helper.mode = "rollback" /\ helper.hasDB /\ helper.restore
  /\ helper.pc \in {"putback", "putting"} /\ Running => panel.selected = root[Selector]
  /\ helper.pc = "putting" => saved[helper.key] # "none"
  /\ Back => accounts # "none" /\ saved[helper.key] \in {accounts, "none"}

LEMMA EarlyRuns ==
  ASSUME IInv PROVE Runs(None) = Old <=> Early(root)
<1>1. root[Selector] \in {None} \cup Releases
  BY DEF IInv, Filed, Sound
<1>2. root[Selector] # Old
  BY <1>1, UpdatesAssumption DEF Releases, None, Old
<1> QED
  BY <1>2, UpdatesAssumption DEF Runs, Followed, Early, None, Old

\* A panel that opens leaves accounts that are not migrated with files that are
\* not, and the others as they are.
LEMMA PanelOpensEarly ==
  ASSUME IInv, Chosen, PanelMoves
  PROVE  /\ accounts # "none" => accounts' # "none"
         /\ accounts' = "old" => accounts = "old"
         /\ accounts \notin {"none", "old"} => accounts' = accounts
         /\ accounts = "old" /\ Early(root) => accounts' = "old"
         /\ \/ UNCHANGED panel \/ Goes \/ Remains
            \/ Comes /\ (accounts' = "old" => Early(root))
<1>1. accounts' \in {accounts, Opened(Runs(None))}
  BY PanelOpens
<1> QED
  BY <1>1, PanelOpens, OpenedKeeps, EarlyRuns

LEMMA OccupiedKept ==
  ASSUME IInv, Returning, Occupied, [Next]_vars PROVE Occupied'
<1>1. CASE PanelMoves
  <2>1. CASE UNCHANGED panel \/ Goes \/ Remains
    BY <1>1, <2>1, OpenedKeeps DEF PanelMoves, Opening, Goes, Remains, Occupied, Running
  <2>2. CASE Comes /\ accounts' = Opened(panel'.release)
    BY <2>2, OpenedKeeps DEF Occupied
  <2> QED
    BY <1>1, <2>1, <2>2 DEF PanelMoves, Opening
<1>2. CASE Installs \/ CleansUp
  BY <1>2 DEF Installs, CleansUp, Occupied, Running
<1>3. CASE UNCHANGED <<panel, accounts>>
  BY <1>3 DEF Occupied, Running
<1>4. CASE Moves /\ UNCHANGED panel
  <2>1. CASE Prepares \/ Stops
    BY <1>3, <1>4, <2>1 DEF Prepares, Stops
  <2>2. CASE Proceeds
    BY <1>3, <1>4, <2>2 DEF Proceeds, Occupied, Running, Returning
  <2> QED
    BY <1>4, <2>1, <2>2 DEF Moves
<1> QED
  BY <1>1, <1>2, <1>3, <1>4, StepKinds

LEMMA ReturningKept ==
  ASSUME IInv, Chosen, PutBack, Occupied, CopiedEarly, Returning, [Next]_vars
  PROVE  Returning'
<1>1. Modes /\ (helper.pc # "idle" => helper.key \in Releases)
  BY PlanVersion DEF IInv
<1>2. CASE PanelMoves
  <2>1. /\ helper'.pc = helper.pc /\ helper'.mode = helper.mode /\ helper'.key = helper.key
        /\ helper'.hasDB = helper.hasDB /\ helper'.restore = helper.restore
        /\ UNCHANGED <<root, saved>>
    BY <1>2 DEF PanelMoves, Watches, Rest, Same
  <2>2. (helper.pc \in {"putback", "putting"} /\ Running => panel.selected = root[Selector])'
    <3>1. CASE UNCHANGED panel \/ Goes \/ Remains
      BY <2>1, <3>1 DEF Returning, Goes, Remains, Running
    <3>2. CASE Comes
      BY <2>1, <3>2 DEF Comes
    <3> QED
      BY <1>2, <3>1, <3>2 DEF PanelMoves, Listens
  <2>3. Back' => accounts' # "none" /\ saved[helper.key] \in {accounts', "none"}
    <3> SUFFICES ASSUME Back' PROVE accounts' # "none" /\ saved[helper.key] \in {accounts', "none"}
      OBVIOUS
    <3>1. Back /\ Restored /\ Restores
      BY <2>1 DEF Back, Restored, Restores
    <3>2. accounts # "none" /\ saved[helper.key] \in {accounts, "none"}
      BY <3>1 DEF Returning
    <3>3. accounts = "old" /\ saved[helper.key] = "old" => Early(root)
      BY <3>1 DEF CopiedEarly, Copied, Back, PutBack
    <3> QED
      BY <1>2, <3>2, <3>3, PanelOpensEarly
  <2> QED
    BY <2>1, <2>2, <2>3 DEF Returning, Back
<1>3. CASE Installs
  BY <1>3 DEF Installs, Returning, Back
<1>4. CASE CleansUp
  <2>1. UNCHANGED <<root, helper, accounts>> /\ panel'.selected = panel.selected /\ Running
    BY <1>4 DEF CleansUp
  <2>2. helper.pc # "idle" => /\ saved'[helper.key] \in {saved[helper.key], "none"}
                              /\ helper.pc = "putting" => saved'[helper.key] = saved[helper.key]
    BY <1>1, <1>4 DEF CleansUp
  <2> QED
    BY <2>1, <2>2 DEF Returning, Back
<1>5. CASE Moves /\ UNCHANGED <<root, panel>>
  <2>1. CASE Prepares
    BY <1>1, <2>1 DEF Prepares, To, Stays, Resumes, Returning, Back, Modes, Installing, Before
  <2>2. CASE Proceeds /\ UNCHANGED saved
    <3>1. CASE /\ helper.pc \in {"start", "restart"} /\ Launches /\ UNCHANGED accounts
      BY <1>1, <2>2, <3>1
      DEF Launches, Rest, Same, Returning, Back, Modes, Installing
    <3>2. CASE GivesUp
      BY <3>2 DEF GivesUp, Returning, Back
    <3>3. CASE /\ helper.pc = "restore"
               /\ \/ helper.restore /\ helper.hasDB /\ To("aside")
                  \/ ~(helper.restore /\ helper.hasDB) /\ To("report")
      BY <1>1, <3>3 DEF To, Rest, Stays, Returning, Back, Modes, Restoring
    <3>4. CASE helper.pc = "report" /\ To("restart") /\ UNCHANGED accounts
      BY <2>2, <3>4 DEF To, Rest, Same, Stays, Returning, Back
    <3>5. CASE helper.pc = "aside" /\ To("putback") /\ (~Running \/ accounts = "none")
      <4>1. ~Running'
        BY <1>5, <3>5 DEF Occupied, Running
      <4> QED
        BY <3>5, <4>1 DEF To, Rest, Stays, Returning, Back
    <3>6. CASE helper.pc = "putback" /\ To("putting") /\ saved[helper.key] # "none"
      BY <1>5, <2>2, <3>6 DEF To, Rest, Stays, Same, Returning, Back, Running
    <3>7. CASE helper.pc = "putting" /\ To("report") /\ accounts' = saved[helper.key]
      BY <2>2, <3>7 DEF To, Rest, Same, Returning, Back
    <3> QED
      BY <2>2, <3>1, <3>2, <3>3, <3>4, <3>5, <3>6, <3>7 DEF Proceeds
  <2>3. CASE Stops
    BY <2>3 DEF Stops, Ends, Returning, Back
  <2> QED
    BY <1>5, <2>1, <2>2, <2>3 DEF Moves
<1>6. CASE Writes
  <2>1. CASE Saves \/ SavesNot \/ Replaces \/ Unselects \/ Clears
    BY <1>1, <2>1
    DEF Saves, SavesNot, Replaces, Unselects, Clears, To, Resumes, Returning, Back
  <2>2. CASE Abandons \/ Confirms \/ Schedules \/ GivesBack
    BY <2>2
    DEF Abandons, Confirms, Schedules, GivesBack, GivesUp, To, Ends, Returning, Back
  <2> QED
    BY <1>6, <2>1, <2>2 DEF Writes
<1> QED
  BY <1>2, <1>3, <1>4, <1>5, <1>6, StepKinds

LEMMA CopiedEarlyKept ==
  ASSUME IInv, Unmigrated, CopiedEarly, [Next]_vars PROVE CopiedEarly'
<1>1. Modes /\ (helper.pc # "idle" => helper.key \in Releases) /\ saved \in [Releases -> Accounts]
  BY PlanVersion DEF IInv, Types
<1>2. CASE PanelMoves
  <2>1. /\ helper'.pc = helper.pc /\ helper'.mode = helper.mode /\ helper'.key = helper.key
        /\ helper'.hasDB = helper.hasDB /\ UNCHANGED <<root, saved, backup, attempts>>
    BY <1>2 DEF PanelMoves, Watches, Rest, Same
  <2> QED
    BY <2>1
    DEF CopiedEarly, Copied, Early, Restores, Replacing, Replaced, Restoring, Backup
<1>3. CASE Installs
  BY <1>3 DEF Installs, CopiedEarly, Copied, Restores, Replacing, Replaced, Restoring
<1>4. CASE CleansUp
  <2>1. UNCHANGED <<root, helper, attempts>>
    BY <1>4 DEF CleansUp
  <2>2. Restores => Backup' = Backup
    BY <1>4, BackupKept DEF IInv, Backed
  <2>3. Copied' => Copied
    BY <1>1, <1>4, <2>1 DEF CleansUp, Copied, CopiedEarly
  <2> QED
    BY <2>1, <2>2, <2>3
    DEF CopiedEarly, Early, Restores, Replacing, Replaced, Restoring
<1>5. CASE Moves /\ UNCHANGED <<root, backup, attempts>>
  <2>1. Backup' = Backup
    BY <1>5 DEF Backup
  <2>2. CASE Prepares
    <3>1. ~Restores'
      BY <1>1, <2>2
      DEF Prepares, To, Stays, Resumes, Restores, Replacing, Replaced, Restoring, Modes,
          Installing, Before
    <3>2. CASE helper'.pc = "save"
      <4>1. CASE helper.pc = "accounts" /\ To("save")
        BY <3>1, <4>1 DEF CopiedEarly, Copied, To, Rest
      <4>2. CASE /\ helper.pc = "copy" /\ Same
                 /\ saved' = [saved EXCEPT ![helper.key] = accounts]
        <5>1. saved'[helper'.key] = accounts
          BY <1>1, <4>2 DEF Same
        <5>2. accounts = "old" => Early(root)
          BY <4>2 DEF Unmigrated, Before
        <5> QED
          BY <1>5, <3>1, <3>2, <5>1, <5>2 DEF CopiedEarly, Copied, Early
      <4> QED
        BY <2>2, <3>2, <4>1, <4>2 DEF Prepares, To, Resumes
    <3>3. CASE helper'.pc # "save"
      BY <2>2, <3>1, <3>3 DEF CopiedEarly, Prepares, To, Rest, Resumes
    <3> QED
      BY <3>2, <3>3
  <2>3. CASE Proceeds /\ UNCHANGED saved
    <3>1. (Restores' => Restores) /\ helper'.key = helper.key /\ helper'.hasDB = helper.hasDB
          /\ helper'.pc \notin Before \cup {"idle"}
      BY <1>1, <2>3
      DEF Restores, Replacing, Replaced, Restoring, Proceeds, To, Rest, Stays, Launches,
          GivesUp, Same, Modes, Recovering, Before
    <3> QED
      BY <2>1, <2>3, <3>1 DEF CopiedEarly, Copied, Early, Before
  <2>4. CASE Stops
    BY <2>1, <2>4
    DEF Stops, Ends, Rest, Same, CopiedEarly, Copied, Early, Restores, Replacing, Replaced,
        Restoring
  <2> QED
    BY <1>5, <2>2, <2>3, <2>4 DEF Moves
<1>6. CASE Writes /\ UNCHANGED saved
  <2>1. /\ helper'.pc \notin Before \cup {"idle"} /\ helper'.hasDB = helper.hasDB
        /\ helper'.key = helper.key
    <3>1. CASE Saves \/ SavesNot \/ Replaces \/ Unselects \/ Clears
      BY <3>1
      DEF Saves, SavesNot, Replaces, Unselects, Clears, Works, To, Rest, Same, Resumes, Before
    <3>2. CASE Abandons \/ Confirms \/ Schedules \/ GivesBack
      BY <3>2
      DEF Abandons, Confirms, Schedules, GivesBack, Works, To, Rest, Same, GivesUp, Ends, Before
    <3> QED
      BY <1>6, <3>1, <3>2 DEF Writes
  <2>2. Copied' = Copied
    BY <1>6, <2>1 DEF Copied
  <2>3. CASE Saves
    BY <2>1, <2>2, <2>3, SavesBackup DEF Saves, CopiedEarly, Early, Before
  <2>4. CASE SavesNot
    BY <1>1, <2>1, <2>4
    DEF SavesNot, Resumes, CopiedEarly, Restores, Replacing, Replaced, Restoring, Before
  <2>5. CASE Schedules
    BY <1>1, <2>1, <2>5
    DEF Schedules, Ends, CopiedEarly, Restores, Replacing, Replaced, Restoring, Before, Modes,
        Installing
  <2>6. CASE ~Saves /\ ~SavesNot /\ ~Schedules
    <3>1. Restores
      BY <1>6, <2>6
      DEF Writes, Replaces, Unselects, Clears, Abandons, Confirms, GivesBack,
          Restores, Replacing, Replaced, Restoring
    <3>2. Backup' = Backup
      BY <2>6, <3>1, BackupStays
    <3> QED
      BY <2>1, <2>2, <3>1, <3>2 DEF CopiedEarly, Early, Before
  <2> QED
    BY <2>3, <2>4, <2>5, <2>6
<1> QED
  BY <1>2, <1>3, <1>4, <1>5, <1>6, StepKinds

LEMMA UnmigratedKept ==
  ASSUME IInv, Chosen, PutBack, Returning, CopiedEarly, Unmigrated, [Next]_vars
  PROVE  Unmigrated'
<1>1. Modes /\ Launcher \in Paths /\ Selector \in Paths /\ Launcher # Selector
      /\ Files \subseteq Paths /\ Selector \notin Files /\ root \in Contents
      /\ helper.todo \subseteq Paths
  BY PathsKnown, HelperFields, UpdatesAssumption DEF IInv, Types, Paths
<1>2. CASE PanelMoves
  <2>1. /\ helper'.pc = helper.pc /\ helper'.mode = helper.mode
        /\ UNCHANGED <<root, backup, attempts>>
    BY <1>2 DEF PanelMoves, Watches
  <2>2. accounts' = "old" => accounts = "old"
    BY <1>2, PanelOpensEarly
  <2>3. accounts' = "old" /\ Running' => panel'.selected = None /\ Early(root)
    <3>1. CASE UNCHANGED panel \/ Goes \/ Remains
      BY <2>2, <3>1 DEF Unmigrated, Goes, Remains, Running
    <3>2. CASE Comes /\ (accounts' = "old" => Early(root))
      BY <3>2 DEF Comes, Early
    <3> QED
      BY <1>2, <3>1, <3>2, PanelOpensEarly
  <2> QED
    BY <2>1, <2>2, <2>3
    DEF Unmigrated, Early, Restores, Replacing, Replaced, Restoring, Backup
<1>3. CASE Installs
  <2>1. ~Restores'
    BY <1>3 DEF Installs, Restores, Replacing, Replaced, Restoring
  <2> QED
    BY <1>3, <2>1 DEF Installs, Unmigrated, Early
<1>4. CASE CleansUp
  <2>1. /\ UNCHANGED <<root, helper, attempts, accounts>> /\ panel'.selected = panel.selected
        /\ Running
    BY <1>4 DEF CleansUp
  <2>2. Restores => Backup' = Backup
    BY <1>4, BackupKept DEF IInv, Backed
  <2> QED
    BY <2>1, <2>2
    DEF Unmigrated, Early, Restores, Replacing, Replaced, Restoring
<1>5. CASE Moves /\ UNCHANGED <<root, backup, attempts, panel>>
  <2>1. Backup' = Backup
    BY <1>5 DEF Backup
  <2>2. CASE Prepares
    <3>1. ~Restores' /\ (helper'.pc \in Before => helper.pc \in Before) /\ accounts' = accounts
      BY <1>1, <2>2
      DEF Prepares, To, Stays, Resumes, Restores, Replacing, Replaced, Restoring, Modes,
          Installing, Before
    <3> QED
      BY <1>5, <3>1 DEF Unmigrated, Early, Running
  <2>3. CASE Proceeds
    <3>1. (Restores' => Restores) /\ helper'.pc \notin Before
      BY <1>1, <2>3
      DEF Restores, Replacing, Replaced, Restoring, Proceeds, To, Stays, Launches,
          GivesUp, Modes, Recovering, Before
    <3>2. CASE accounts' = "old" => accounts = "old"
      BY <1>5, <2>1, <3>1, <3>2 DEF Unmigrated, Early, Running
    <3>3. CASE helper.pc = "putting" /\ accounts' = saved[helper.key] /\ accounts' = "old"
      <4>1. Copied /\ Restored /\ Restores
        BY <3>3 DEF Returning, Copied, Restored, Restores
      <4>2. Early(Backup) /\ root = Backup
        BY <4>1 DEF CopiedEarly, PutBack
      <4>3. Running => panel.selected = None
        BY <3>3, <4>2 DEF Returning, Early
      <4> QED
        BY <1>5, <2>1, <3>1, <4>2, <4>3 DEF Unmigrated, Early, Running
    <3> QED
      BY <2>3, <3>2, <3>3 DEF Proceeds
  <2>4. CASE Stops
    BY <1>5, <2>1, <2>4
    DEF Stops, Ends, Unmigrated, Early, Restores, Replacing, Replaced, Restoring, Before,
        Running
  <2> QED
    BY <1>5, <2>2, <2>3, <2>4 DEF Moves
<1>6. CASE Writes /\ UNCHANGED <<panel, accounts>>
  <2>1. helper'.pc \notin Before
    BY <1>6
    DEF Writes, Saves, SavesNot, Replaces, Unselects, Clears, Abandons, Confirms, Schedules,
        GivesBack, To, GivesUp, Ends, Resumes, Before
  <2>2. CASE Saves
    <3>1. Backup' = root /\ helper.pc \in Before /\ root' = root
      BY <2>2, SavesBackup DEF Saves, Before
    <3> QED
      BY <1>6, <2>1, <3>1 DEF Unmigrated, Early, Running
  <2>3. CASE SavesNot
    BY <1>1, <1>6, <2>1, <2>3
    DEF SavesNot, Resumes, Unmigrated, Early, Restores, Replacing, Replaced, Restoring, Running
  <2>4. CASE Schedules
    <3>1. ~Restores' /\ root' = root
      BY <1>1, <2>4
      DEF Schedules, Ends, Restores, Replacing, Replaced, Restoring, Modes, Installing
    <3> QED
      BY <1>6, <2>1, <3>1 DEF Unmigrated, Early, Running
  <2>5. CASE ~Saves /\ ~SavesNot /\ ~Schedules
    <3>1. Restores
      BY <1>6, <2>5
      DEF Writes, Replaces, Unselects, Clears, Abandons, Confirms, GivesBack,
          Restores, Replacing, Replaced, Restoring
    <3>2. Backup' = Backup
      BY <2>5, <3>1, BackupStays
    <3>3. ASSUME accounts = "old", Running PROVE Early(root')
      <4>1. panel.selected = None /\ Early(root) /\ Early(Backup) /\ Busy(Launcher)
        BY <3>1, <3>3 DEF Unmigrated, Busy
      <4>2. CASE UNCHANGED root
        BY <4>1, <4>2 DEF Early
      <4>3. ASSUME NEW p \in Paths, NEW r, root' = [root EXCEPT ![p] = r], ~Busy(p),
                   p = Selector => r = None
            PROVE  Early(root')
        BY <1>1, <4>1, <4>3 DEF Early, Contents
      <4>4. ~Busy(Selector)
        BY <1>1 DEF Busy
      <4>5. CASE Replaces
        BY <1>1, <4>3, <4>5 DEF Replaces
      <4>6. CASE Unselects
        BY <1>1, <4>3, <4>4, <4>6 DEF Unselects
      <4>7. CASE GivesBack
        BY <1>1, <4>1, <4>2, <4>3, <4>7 DEF GivesBack, Early, Backup
      <4> QED
        BY <1>6, <2>5, <4>2, <4>5, <4>6, <4>7
        DEF Writes, Clears, Abandons, Confirms
    <3> QED
      BY <1>6, <2>1, <3>1, <3>2, <3>3 DEF Unmigrated, Early, Running
  <2> QED
    BY <2>2, <2>3, <2>4, <2>5
<1> QED
  BY <1>2, <1>3, <1>4, <1>5, <1>6, StepKinds

Endings == /\ Chosen /\ PutBack /\ Reported /\ Aligned /\ Locked /\ Occupied
           /\ Returning /\ CopiedEarly /\ Unmigrated

LEMMA EndingsHold == Spec => [](IInv /\ Originals /\ Recoveries /\ Endings)
<1>1. Init => Endings
  <2> SUFFICES ASSUME Init PROVE Endings
    OBVIOUS
  <2>1. /\ panel = NoPanel /\ helper = Idle /\ attempts = 0
    BY DEF Init
  <2> QED
    BY <2>1
    DEF Endings, Chosen, PutBack, Reported, Restarting, Aligned, Locked, Occupied, Returning,
        Back, CopiedEarly, Copied, Unmigrated, Restored, Restores, Replacing, Replaced,
        Restoring, Before, Idle, Running
<1>2. IInv /\ Originals /\ Recoveries /\ Endings /\ [Next]_vars => Endings'
  BY ChosenKept, PutBackKept, ReportedKept, AlignedKept, LockedKept, OccupiedKept,
     ReturningKept, CopiedEarlyKept, UnmigratedKept
  DEF Endings, Recoveries
<1> QED
  BY <1>1, <1>2, RecoveriesHold, PTL DEF Spec

\* An update ends in one of two ways that it reports as good: the new program
\* whole and running, or the old one on its own files and accounts.
THEOREM EndsAreWhole == Spec => EndsWhole
<1> DEFINE Ending ==
      /\ Confirm /\ helper.mode = "install" =>
           /\ root = Content(helper.key)
           /\ panel.release = helper.key /\ panel.selected = None
      /\ Confirm /\ helper.mode # "install" =>
           panel.selected = helper.old /\ lastError
      /\ Confirm /\ helper.mode = "rollback" =>
           /\ root = backup[Directory(attempts)]
           /\ helper.restore /\ helper.hasDB =>
                saved[helper.key] \in {accounts, "none"}
<1>1. ASSUME IInv, Originals, Recoveries, Endings, Confirm PROVE Ending
  <2>1. helper.pc = "confirm" /\ Running /\ panel.child
    BY <1>1 DEF Confirm, At, Healthy
  <2>2. ASSUME helper.mode = "install"
        PROVE  /\ root = Content(helper.key)
               /\ panel.release = helper.key /\ panel.selected = None
    <3>1. /\ root \in Contents /\ helper.key \in Releases /\ Launcher \in Files
          /\ Selector \notin Files
      BY <1>1, <2>1, PlanVersion, UpdatesAssumption
    <3>2. Replaced
      BY <2>1, <2>2 DEF Replaced
    <3>3. root[Selector] = None /\ (\A f \in Files : root[f] = helper.key)
      BY <1>1, <3>2 DEF Originals, Placed, Recoveries, Unselected
    <3>4. helper.key # Old
      BY <3>1, UpdatesAssumption DEF Releases, Old
    <3>5. panel.selected = None
      BY <1>1, <2>1, <2>2 DEF Recoveries, Unselected, Confirmable
    <3>6. panel.release = root[Launcher]
      BY <1>1, <2>1, <3>5 DEF Endings, Locked
    <3>7. root = [p \in Paths |-> IF p = Selector THEN None ELSE helper.key]
      BY <3>1, <3>3 DEF Contents, Paths
    <3>8. root = Content(helper.key)
      BY <3>4, <3>7 DEF Content
    <3> QED
      BY <3>1, <3>3, <3>5, <3>6, <3>8
  <2>3. helper.mode # "install" => panel.selected = helper.old /\ lastError
    BY <1>1, <2>1 DEF Endings, Aligned, Reported, Restarting
  <2>4. helper.mode = "rollback" =>
          /\ root = Backup
          /\ helper.restore /\ helper.hasDB => saved[helper.key] \in {accounts, "none"}
    BY <1>1, <2>1 DEF Endings, PutBack, Restored, Returning, Back
  <2> QED
    BY <2>2, <2>3, <2>4 DEF Backup, Directory
<1>2. IInv /\ Originals /\ Recoveries /\ Endings /\ [Next]_vars => [Ending]_vars
  BY <1>1
<1> QED
  BY <1>2, EndingsHold, PTL DEF Spec, EndsWhole

=============================================================================
