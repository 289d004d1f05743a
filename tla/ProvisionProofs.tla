--------------------------- MODULE ProvisionProofs ---------------------------
(***************************************************************************)
(* Proofs about Provision, for any profiles, images and bounds.            *)
(*                                                                         *)
(* What is on the disk is honest at all times (StoreInv): a file or record *)
(* has the identity its profile gives it, no record was taken of a torn    *)
(* file, a receipt lists everything, and one link is one content.  What a  *)
(* running attempt may rely on between two of its steps is AttemptInv.     *)
(* Hard links are the difficulty: master data is written in place, so what *)
(* shares a file with the pending directory must not be in use (Spared,    *)
(* Unlinked), and the repair of a shared file must not complete the        *)
(* generation that the attempt is about to replace (Unresolved).           *)
(***************************************************************************)
EXTENDS Provision, TLAPS

----------------------------------------------------------------------------
(* The disk.                                                               *)

\* The files, and the records, are those of profile k; "last" bounds the
\* attempts so far and "new" is what the next damage would leave.  A file is torn
\* exactly when its last write that shows in its stamp left it so.
Mark(x) == x.stamp[2]
FilesOK(k, files, last, new) ==
  /\ Partial(files, FileType)
  /\ \A n \in DOMAIN files : /\ files[n].id = Profile[k][n]
                             /\ files[n].made <= last
                             /\ files[n].state < new /\ Mark(files[n]) < new
                             /\ files[n].state = Torn => Mark(files[n]) = Torn
                             /\ Mark(files[n]) = Torn => files[n].state = Torn
RecordsOK(k, records, new) ==
  /\ Partial(records, RecordType)
  /\ \A n \in DOMAIN records : /\ records[n].id = Profile[k][n]
                               /\ records[n].state # Torn /\ Mark(records[n]) # Torn
                               /\ records[n].state < new /\ Mark(records[n]) < new

\* A receipt is the one its generation was published with.
Published(k, g, last, new) ==
  /\ g = [files |-> g.files, receipt |-> g.receipt]
  /\ FilesOK(k, g.files, last, new) /\ RecordsOK(k, g.receipt, new)
  /\ g.receipt = Empty \/ DOMAIN g.receipt = Names
Staged(k, s, last, new) ==
  /\ s = [files |-> s.files, checkpoint |-> s.checkpoint]
  /\ FilesOK(k, s.files, last, new) /\ RecordsOK(k, s.checkpoint, new)

PublishedOK ==
  /\ published = [k \in Keys |-> published[k]]
  /\ \A k \in Keys : Published(k, published[k], imports, 2 + faults)
PendingOK ==
  /\ pending = [k \in Keys |-> pending[k]]
  /\ \A k \in Keys : Staged(k, pending[k], imports, 2 + faults)
AttemptOK ==
  /\ attempt = [step |-> attempt.step, records |-> attempt.records,
                todo |-> attempt.todo, aside |-> attempt.aside]
  /\ attempt.step \in Steps /\ attempt.todo \subseteq Names
  /\ RecordsOK(Key, attempt.records, 2 + faults)
  /\ Published(Key, attempt.aside, imports, 2 + faults)
RestOK ==
  /\ active \in Keys \cup {None}
  /\ panel \in [up : BOOLEAN, ready : BOOLEAN, key : Keys]
  /\ imports \in Nat /\ faults \in Nat /\ changes \in Nat

Has(files, n, made, id) == n \in DOMAIN files /\ files[n].made = made /\ files[n].id = id
OnDisk(n, made, id) ==
  \/ \E k \in Keys : Has(published[k].files, n, made, id) \/ Has(pending[k].files, n, made, id)
  \/ Has(attempt.aside.files, n, made, id)

\* What is linked has been made from the same source.
OneSource ==
  \A n \in Names, made \in Nat, id1, id2 \in Identities :
    OnDisk(n, made, id1) /\ OnDisk(n, made, id2) => id1 = id2

StoreInv == PublishedOK /\ PendingOK /\ AttemptOK /\ RestOK /\ OneSource

----------------------------------------------------------------------------
(* The attempt.                                                            *)

Fetching == attempt.step \in {"reuse", "master", "extracting", "images"}
Collecting == Fetching \/ attempt.step = "validate"

\* What this import makes is in its own pending directory only.
Fresh ==
  Fetching =>
    /\ \A k \in Keys : \A n \in DOMAIN published[k].files : published[k].files[n].made < imports
    /\ \A k \in Keys \ {Key} : \A n \in DOMAIN pending[k].files : pending[k].files[n].made < imports
    /\ \A n \in DOMAIN attempt.aside.files : attempt.aside.files[n].made < imports

\* What is recorded is there and is not torn; where the checkpoint is right, the
\* record is that of the checkpoint or has the stamp of the file.
Follows(record, stage, n) ==
  record = stage.checkpoint[n] \/ record.stamp = stage.files[n].stamp
Recorded ==
  Collecting => \A n \in DOMAIN attempt.records :
    /\ n \in DOMAIN Stage.files /\ Stage.files[n].state # Torn
    /\ Resumable(n) => Follows(attempt.records[n], Stage, n)

\* An image of this import is whole when it appears.
ImagesWhole ==
  Fetching => \A n \in Images \cap DOMAIN Stage.files :
    Stage.files[n].made = imports => Stage.files[n].state # Torn

\* Every file is recorded or left to do, and in the end all are recorded.
Accounted ==
  /\ attempt.step = "inspect" => DOMAIN attempt.records = {} /\ attempt.todo = {}
  /\ attempt.step \in {"reuse", "master", "extracting"} =>
       DOMAIN attempt.records \cap attempt.todo = {}
  /\ attempt.step \in {"master", "extracting", "images"} =>
       DOMAIN attempt.records \cup attempt.todo = Names
  /\ attempt.step \in {"master", "extracting"} => Master \in attempt.todo
  /\ attempt.step = "images" =>
       /\ Master \notin attempt.todo
       /\ \A n \in attempt.todo \cap DOMAIN attempt.records : Written(n)
  /\ attempt.step \in {"validate", "swap", "publish"} => DOMAIN attempt.records = Names
  /\ attempt.step \in {"swap", "publish"} => DOMAIN Stage.files = Names
  /\ attempt.step = "publish" => published[Key] = NoGeneration
  /\ attempt.step = "activate" => Stage = NoStage

\* While master data is written, every link to it is torn.
Extracting ==
  attempt.step = "extracting" =>
    /\ Master \in DOMAIN Stage.files
    /\ \A k \in Keys :
         /\ Shares(k) => published[k].files[Master].state = Torn
         /\ Master \in DOMAIN pending[k].files
            /\ pending[k].files[Master].made = Stage.files[Master].made
              => pending[k].files[Master].state = Torn

\* Master data that will be written is not in use in the active generation.
Spared ==
  attempt.step \in {"reuse", "master"} /\ Master \in attempt.todo
  /\ active # None /\ Shares(active) =>
    ~ValidFile(published[active].files, published[active].receipt, Master)

Lacks(generation) ==
  \/ generation.receipt = Empty
  \/ \E n \in Images : ~ValidFile(generation.files, generation.receipt, n)
Links(files, stage) ==
  /\ Master \in DOMAIN files \cap DOMAIN stage
  /\ files[Master].made = stage[Master].made

\* The active generation lends its own successor master data only when an
\* image of it is lost, which no later write repairs.
Unlinked ==
  /\ active # None /\ Links(published[active].files, pending[active].files) =>
       Lacks(published[active])
  /\ attempt.step = "publish" /\ active = Key /\ Links(attempt.aside.files, Stage.files) =>
       Lacks(attempt.aside)

\* The attempt replaces a generation that does not resolve; only writing the
\* file they share can have repaired one, and not the active one.
Unresolved ==
  /\ attempt.step \in {"reuse", "master", "extracting"} => ~Resolves(Key)
  /\ attempt.step \in {"images", "validate", "swap"} /\ Resolves(Key) =>
       Key # active /\ Shares(Key)

AttemptInv == /\ Fresh /\ Recorded /\ ImagesWhole /\ Accounted
              /\ Extracting /\ Spared /\ Unlinked /\ Unresolved

IInv == StoreInv /\ AttemptInv

----------------------------------------------------------------------------
(* Functions from some of the names.                                       *)

LEMMA PutIs ==
  ASSUME NEW S, NEW f, Partial(f, S), NEW n \in Names, NEW x \in S
  PROVE  /\ Partial(Put(f, n, x), S)
         /\ DOMAIN Put(f, n, x) = DOMAIN f \cup {n}
         /\ Put(f, n, x)[n] = x
         /\ \A m \in DOMAIN f : m # n => Put(f, n, x)[m] = f[m]
<1>1. Put(f, n, x) = [m \in DOMAIN f \cup {n} |-> IF m = n THEN x ELSE f[m]]
  BY DEF Put
<1> QED BY <1>1 DEF Partial

\* What a write changes in a file.
LEMMA FileWritten ==
  ASSUME NEW y \in FileType, NEW state, NEW stamp
  PROVE  [y EXCEPT !.state = state, !.stamp = stamp] =
           [id |-> y.id, state |-> state, stamp |-> stamp, made |-> y.made]
<1>1. PICK i \in Identities, s \in Nat, t \in StampType, m \in Nat :
        y = [id |-> i, state |-> s, stamp |-> t, made |-> m]
  BY DEF FileType
<1>2. [y EXCEPT !.state = state] = [id |-> i, state |-> state, stamp |-> t, made |-> m]
  BY <1>1
<1>3. [[id |-> i, state |-> state, stamp |-> t, made |-> m] EXCEPT !.stamp = stamp] =
        [id |-> i, state |-> state, stamp |-> stamp, made |-> m]
  OBVIOUS
<1>4. y.id = i /\ y.made = m
  BY <1>1
<1>5. [[y EXCEPT !.state = state] EXCEPT !.stamp = stamp] =
        [id |-> i, state |-> state, stamp |-> stamp, made |-> m]
  BY <1>2, <1>3, Zenon
<1> QED BY <1>4, <1>5, Zenon

\* What a write to a file does to a directory.
LEMMA ChangedIs ==
  ASSUME NEW f, Partial(f, FileType), NEW n, NEW made, NEW state \in Nat,
         NEW how \in {"seen", "unseen"}, imports \in Nat
  PROVE  LET g == Changed(f, n, made, state, how) IN
         /\ Partial(g, FileType)
         /\ DOMAIN g = DOMAIN f
         /\ \A m \in DOMAIN f : g[m].id = f[m].id /\ g[m].made = f[m].made
         /\ \A m \in DOMAIN f : m = n /\ f[m].made = made =>
              /\ g[m].state = state
              /\ how = "seen" => g[m].stamp = Stamp(state)
              /\ how = "unseen" => g[m].stamp = f[m].stamp
         /\ \A m \in DOMAIN f : ~(m = n /\ f[m].made = made) => g[m] = f[m]
<1>1. CASE n \in DOMAIN f /\ f[n].made = made
  <2> DEFINE stamp == IF how = "seen" THEN Stamp(state) ELSE f[n].stamp
             x == [id |-> f[n].id, state |-> state, stamp |-> stamp, made |-> f[n].made]
  <2>1. f[n] \in FileType
    BY <1>1 DEF Partial
  <2>2. f[n] = [id |-> f[n].id, state |-> f[n].state, stamp |-> f[n].stamp, made |-> f[n].made]
    BY <2>1 DEF FileType
  <2>3. stamp \in StampType
    BY <2>1 DEF FileType, StampType, Stamp
  <2>4. Changed(f, n, made, state, how) = [f EXCEPT ![n] = x]
    <3>1. Changed(f, n, made, state, how) = [f EXCEPT ![n].state = state, ![n].stamp = stamp]
      BY <1>1 DEF Changed, Linked
    <3>2. [f EXCEPT ![n].state = state, ![n].stamp = stamp] =
            [f EXCEPT ![n] = [f[n] EXCEPT !.state = state, !.stamp = stamp]]
      BY <1>1
    <3>3. [f[n] EXCEPT !.state = state, !.stamp = stamp] = x
      BY <2>1, FileWritten
    <3> QED BY <3>1, <3>2, <3>3
  <2>5. x \in FileType
    BY <2>1, <2>3 DEF FileType
  <2>6. /\ x.id = f[n].id /\ x.made = f[n].made /\ x.state = state
        /\ how = "seen" => x.stamp = Stamp(state)
        /\ how = "unseen" => x.stamp = f[n].stamp
    OBVIOUS
  <2> HIDE DEF x
  <2> QED BY <1>1, <2>4, <2>5, <2>6 DEF Partial
<1>2. CASE ~(n \in DOMAIN f /\ f[n].made = made)
  BY <1>2 DEF Changed, Linked
<1> QED BY <1>1, <1>2

LEMMA RestrictIs ==
  ASSUME NEW S, NEW f, Partial(f, S), NEW T
  PROVE  LET g == Restrict(f, DOMAIN f \cap T) IN
         /\ Partial(g, S)
         /\ DOMAIN g = DOMAIN f \cap T
         /\ \A m \in DOMAIN g : g[m] = f[m]
BY DEF Restrict, Partial

LEMMA FileFields ==
  ASSUME NEW f, Partial(f, FileType), NEW n \in DOMAIN f
  PROVE  /\ n \in Names
         /\ f[n] \in FileType /\ f[n].id \in Identities /\ f[n].state \in Nat /\ f[n].made \in Nat
         /\ f[n].stamp \in StampType /\ Mark(f[n]) \in Nat
         /\ Record(f[n]) \in RecordType
         /\ Record(f[n]).id = f[n].id /\ Record(f[n]).state = f[n].state
         /\ Record(f[n]).stamp = f[n].stamp /\ Mark(Record(f[n])) = Mark(f[n])
BY DEF Partial, FileType, RecordType, Record, StampType, Mark

LEMMA RecordFields ==
  ASSUME NEW r, Partial(r, RecordType), NEW n \in DOMAIN r
  PROVE  /\ n \in Names
         /\ r[n] \in RecordType /\ r[n].id \in Identities /\ r[n].state \in Nat
         /\ Mark(r[n]) \in Nat
BY DEF Partial, RecordType, StampType, Mark

LEMMA EmptyIs ==
  ASSUME NEW S
  PROVE  /\ Partial(Empty, S) /\ DOMAIN Empty = {}
         /\ \A f : Partial(f, S) /\ DOMAIN f = {} => f = Empty
BY DEF Empty, Partial

----------------------------------------------------------------------------
(* What keeps a directory honest.                                          *)

LEMMA NamesIs == Master \in Names /\ Images \subseteq Names /\ Names # {} /\ Names = Images \cup {Master}
BY DEF Names

LEMMA ProfileIn ==
  ASSUME NEW k \in Keys, NEW n \in Names
  PROVE  Profile[k][n] \in Identities
BY DEF Identities

LEMMA FilesLater ==
  ASSUME NEW k, NEW f, NEW i \in Nat, NEW s \in Nat, FilesOK(k, f, i, s),
         NEW j \in Nat, NEW t \in Nat, i <= j, s <= t
  PROVE  FilesOK(k, f, j, t)
BY FileFields DEF FilesOK

LEMMA RecordsLater ==
  ASSUME NEW k, NEW r, NEW s \in Nat, RecordsOK(k, r, s), NEW t \in Nat, s <= t
  PROVE  RecordsOK(k, r, t)
BY RecordFields DEF RecordsOK

LEMMA PublishedLater ==
  ASSUME NEW k, NEW g, NEW i \in Nat, NEW s \in Nat, Published(k, g, i, s),
         NEW j \in Nat, NEW t \in Nat, i <= j, s <= t
  PROVE  Published(k, g, j, t)
BY FilesLater, RecordsLater DEF Published

LEMMA StagedLater ==
  ASSUME NEW k, NEW g, NEW i \in Nat, NEW s \in Nat, Staged(k, g, i, s),
         NEW j \in Nat, NEW t \in Nat, i <= j, s <= t
  PROVE  Staged(k, g, j, t)
BY FilesLater, RecordsLater DEF Staged

LEMMA FilesPut ==
  ASSUME NEW k, NEW f, NEW i, NEW s, FilesOK(k, f, i, s),
         NEW n \in Names, NEW x \in FileType, x.id = Profile[k][n], x.made <= i, x.state < s,
         Mark(x) < s, x.state = Torn => Mark(x) = Torn, Mark(x) = Torn => x.state = Torn
  PROVE  FilesOK(k, Put(f, n, x), i, s)
<1>1. Partial(f, FileType)
  BY DEF FilesOK
<1>2. /\ Partial(Put(f, n, x), FileType) /\ DOMAIN Put(f, n, x) = DOMAIN f \cup {n}
      /\ Put(f, n, x)[n] = x /\ \A m \in DOMAIN f : m # n => Put(f, n, x)[m] = f[m]
  <2>1. n \in Names /\ x \in FileType
    OBVIOUS
  <2>2. Put(f, n, x) = [m \in DOMAIN f \cup {n} |-> IF m = n THEN x ELSE f[m]]
    BY DEF Put
  <2> QED BY <1>1, <2>1, <2>2 DEF Partial
<1> QED BY <1>2 DEF FilesOK

LEMMA RecordsPut ==
  ASSUME NEW k, NEW r, NEW s, RecordsOK(k, r, s),
         NEW n \in Names, NEW x \in RecordType,
         x.id = Profile[k][n], x.state # Torn, x.state < s, Mark(x) # Torn, Mark(x) < s
  PROVE  RecordsOK(k, Put(r, n, x), s)
<1>1. Partial(r, RecordType)
  BY DEF RecordsOK
<1>2. /\ Partial(Put(r, n, x), RecordType) /\ DOMAIN Put(r, n, x) = DOMAIN r \cup {n}
      /\ Put(r, n, x)[n] = x /\ \A m \in DOMAIN r : m # n => Put(r, n, x)[m] = r[m]
  BY <1>1 DEF Put, Partial
<1> QED BY <1>2 DEF RecordsOK

\* A change that does not show leaves no torn file, and strikes none.
LEMMA FilesChanged ==
  ASSUME NEW k, NEW f, NEW i, NEW s, FilesOK(k, f, i, s),
         NEW n, NEW made, NEW state \in Nat, state < s, NEW how \in {"seen", "unseen"}, imports \in Nat,
         how = "unseen" => state # Torn /\ (Linked(f, n, made) => f[n].state # Torn)
  PROVE  FilesOK(k, Changed(f, n, made, state, how), i, s)
<1> DEFINE g == Changed(f, n, made, state, how)
<1>1. Partial(f, FileType)
  BY DEF FilesOK
<1>2. /\ Partial(g, FileType) /\ DOMAIN g = DOMAIN f
      /\ \A m \in DOMAIN f : g[m].id = f[m].id /\ g[m].made = f[m].made
      /\ \A m \in DOMAIN f : m = n /\ f[m].made = made =>
           /\ g[m].state = state
           /\ how = "seen" => g[m].stamp = Stamp(state)
           /\ how = "unseen" => g[m].stamp = f[m].stamp
      /\ \A m \in DOMAIN f : ~(m = n /\ f[m].made = made) => g[m] = f[m]
  BY <1>1, ChangedIs
<1> HIDE DEF g
<1>3. ASSUME NEW m \in DOMAIN f, ~(m = n /\ f[m].made = made)
      PROVE  /\ g[m].state < s /\ Mark(g[m]) < s
             /\ g[m].state = Torn => Mark(g[m]) = Torn
             /\ Mark(g[m]) = Torn => g[m].state = Torn
  BY <1>2, <1>3 DEF FilesOK
<1>4. ASSUME NEW m \in DOMAIN f, m = n, f[m].made = made, how = "seen"
      PROVE  Mark(g[m]) = state
  BY <1>2, <1>4 DEF Mark, Stamp
<1>5. ASSUME NEW m \in DOMAIN f, m = n, f[m].made = made, how = "unseen"
      PROVE  /\ Mark(g[m]) = Mark(f[m]) /\ Mark(f[m]) # Torn /\ state # Torn
             /\ Mark(f[m]) < s
  BY <1>2, <1>5 DEF Mark, Linked, FilesOK
<1> QED BY <1>2, <1>3, <1>4, <1>5 DEF FilesOK, g

LEMMA NothingOK ==
  ASSUME NEW k, NEW i, NEW s
  PROVE  /\ FilesOK(k, Empty, i, s) /\ RecordsOK(k, Empty, s)
         /\ Published(k, NoGeneration, i, s) /\ Staged(k, NoStage, i, s)
BY EmptyIs DEF FilesOK, RecordsOK, Published, Staged, NoGeneration, NoStage

LEMMA Read ==
  ASSUME NEW k, NEW f, NEW i, NEW s, FilesOK(k, f, i, s), NEW n \in DOMAIN f
  PROVE  /\ n \in Names /\ f[n] \in FileType
         /\ f[n].id \in Identities /\ f[n].state \in Nat /\ f[n].made \in Nat
         /\ f[n].id = Profile[k][n] /\ f[n].made <= i /\ f[n].state < s
         /\ Mark(f[n]) \in Nat /\ Mark(f[n]) < s
         /\ f[n].state = Torn => Mark(f[n]) = Torn
         /\ Mark(f[n]) = Torn => f[n].state = Torn
BY FileFields DEF FilesOK

LEMMA ReadRecord ==
  ASSUME NEW k, NEW r, NEW s, RecordsOK(k, r, s), NEW n \in DOMAIN r
  PROVE  /\ n \in Names /\ r[n] \in RecordType
         /\ r[n].id \in Identities /\ r[n].state \in Nat /\ Mark(r[n]) \in Nat
         /\ r[n].id = Profile[k][n] /\ r[n].state # Torn /\ r[n].state < s
         /\ Mark(r[n]) # Torn /\ Mark(r[n]) < s
BY RecordFields DEF RecordsOK

\* A file matches its record when their stamps do, or what they hold.
LEMMA Valid ==
  ASSUME NEW k, NEW f, NEW i, NEW s, FilesOK(k, f, i, s), NEW r, RecordsOK(k, r, s), NEW n
  PROVE  ValidFile(f, r, n) <=>
           n \in DOMAIN f \cap DOMAIN r /\ (f[n].stamp = r[n].stamp \/ f[n].state = r[n].state)
BY Read, ReadRecord DEF ValidFile, SameHash

\* What is recorded was not torn, and neither is a file of the same stamp.
LEMMA ValidWhole ==
  ASSUME NEW k, NEW f, NEW i, NEW s, FilesOK(k, f, i, s), NEW r, RecordsOK(k, r, s), NEW n,
         ValidFile(f, r, n)
  PROVE  /\ n \in DOMAIN f /\ n \in DOMAIN r /\ n \in Names
         /\ f[n].state # Torn /\ Mark(f[n]) # Torn
<1>1. n \in DOMAIN f /\ n \in DOMAIN r /\ (f[n].stamp = r[n].stamp \/ f[n].state = r[n].state)
  BY Valid
<1>2. CASE f[n].stamp = r[n].stamp
  <2>1. Mark(f[n]) = Mark(r[n])
    BY <1>2 DEF Mark
  <2> QED BY <1>1, <2>1, Read, ReadRecord
<1>3. CASE f[n].state = r[n].state
  BY <1>1, <1>3, Read, ReadRecord
<1> QED BY <1>1, <1>2, <1>3

\* Neither a cut import nor a damage makes a file what a record says; what
\* leaves the stamp leaves a file valid that was so by its stamp.
LEMMA NeverMended ==
  ASSUME NEW k, NEW f, NEW i, NEW s \in Nat, FilesOK(k, f, i, s), NEW r, RecordsOK(k, r, s),
         NEW n, NEW made, NEW state \in Nat, NEW how \in {"seen", "unseen"}, imports \in Nat,
         (how = "seen" /\ state = Torn) \/ state >= s, NEW m,
         ValidFile(Changed(f, n, made, state, how), r, m)
  PROVE  /\ ValidFile(f, r, m)
         /\ Changed(f, n, made, state, how)[m].stamp = f[m].stamp
<1> DEFINE g == Changed(f, n, made, state, how)
<1>1. Partial(f, FileType) /\ Partial(r, RecordType)
  BY DEF FilesOK, RecordsOK
<1>2. /\ DOMAIN g = DOMAIN f
      /\ \A x \in DOMAIN f : x = n /\ f[x].made = made =>
           /\ g[x].state = state
           /\ how = "seen" => g[x].stamp = Stamp(state)
           /\ how = "unseen" => g[x].stamp = f[x].stamp
      /\ \A x \in DOMAIN f : ~(x = n /\ f[x].made = made) => g[x] = f[x]
  BY <1>1, ChangedIs
<1> HIDE DEF g
<1>3. m \in DOMAIN f /\ m \in DOMAIN r /\ (g[m].stamp = r[m].stamp \/ SameHash(g[m], r[m]))
  BY <1>2 DEF ValidFile, g
<1>4. /\ r[m].state # Torn /\ r[m].state < s /\ r[m].state \in Nat
      /\ Mark(r[m]) # Torn /\ Mark(r[m]) < s /\ Mark(r[m]) \in Nat
  BY <1>3, ReadRecord
<1>5. CASE ~(m = n /\ f[m].made = made)
  BY <1>2, <1>3, <1>5 DEF ValidFile, g
<1>6. CASE m = n /\ f[m].made = made
  <2>1. ~SameHash(g[m], r[m])
    BY <1>2, <1>3, <1>4, <1>6 DEF SameHash
  <2>2. how = "unseen"
    <3>1. SUFFICES ASSUME how = "seen" PROVE FALSE
      OBVIOUS
    <3>2. Mark(g[m]) = state
      BY <1>2, <1>3, <1>6, <3>1 DEF Mark, Stamp
    <3>3. Mark(g[m]) = Mark(r[m])
      BY <1>3, <2>1 DEF Mark
    <3> QED BY <1>4, <3>2, <3>3
  <2>3. g[m].stamp = f[m].stamp
    BY <1>2, <1>3, <1>6, <2>2
  <2> QED BY <1>3, <2>1, <2>3 DEF ValidFile, g
<1> QED BY <1>5, <1>6

----------------------------------------------------------------------------
(* The disk and the attempt stay honest, step by step.                     *)

Later == /\ imports' \in Nat /\ imports <= imports' /\ faults' \in Nat /\ faults <= faults'
         /\ 2 + faults' \in Nat /\ 2 + faults <= 2 + faults' /\ 2 + faults \in Nat
         /\ imports \in Nat

LEMMA PublishedSame ==
  ASSUME PublishedOK, Later, published' = published
  PROVE  PublishedOK'
<1>1. \A k \in Keys : Published(k, published[k], imports', 2 + faults')
  BY PublishedLater DEF PublishedOK, Later
<1> QED BY <1>1 DEF PublishedOK

LEMMA PendingSame ==
  ASSUME PendingOK, Later, pending' = pending
  PROVE  PendingOK'
<1>1. \A k \in Keys : Staged(k, pending[k], imports', 2 + faults')
  BY StagedLater DEF PendingOK, Later
<1> QED BY <1>1 DEF PendingOK

LEMMA PublishedOne ==
  ASSUME PublishedOK, Later, NEW k \in Keys, NEW g, Published(k, g, imports', 2 + faults'),
         published' = [published EXCEPT ![k] = g]
  PROVE  PublishedOK'
<1>1. \A j \in Keys : Published(j, published[j], imports', 2 + faults')
  BY PublishedLater DEF PublishedOK, Later
<1>2. \A j \in Keys : published'[j] = IF j = k THEN g ELSE published[j]
  BY DEF PublishedOK
<1>3. published' = [j \in Keys |-> published'[j]]
  BY DEF PublishedOK
<1> QED BY <1>1, <1>2, <1>3 DEF PublishedOK

LEMMA PendingOne ==
  ASSUME PendingOK, Later, NEW k \in Keys, NEW s, Staged(k, s, imports', 2 + faults'),
         pending' = [pending EXCEPT ![k] = s]
  PROVE  PendingOK'
<1>1. \A j \in Keys : Staged(j, pending[j], imports', 2 + faults')
  BY StagedLater DEF PendingOK, Later
<1>2. \A j \in Keys : pending'[j] = IF j = k THEN s ELSE pending[j]
  BY DEF PendingOK
<1>3. pending' = [j \in Keys |-> pending'[j]]
  BY DEF PendingOK
<1> QED BY <1>1, <1>2, <1>3 DEF PendingOK

\* The file is not torn, by whichever name.
Intact(n, made) ==
  \A k \in Keys : \A files \in {published[k].files, pending[k].files} :
    Linked(files, n, made) => files[n].state # Torn

\* A write through a link.
LEMMA LinkWritten ==
  ASSUME PublishedOK, PendingOK, Later, NEW n, NEW made, NEW state \in Nat, state < 2 + faults',
         NEW how \in {"seen", "unseen"}, how = "seen" \/ (state # Torn /\ Intact(n, made)),
         InEveryLink(n, made, state, how)
  PROVE  /\ PublishedOK' /\ PendingOK'
         /\ \A k \in Keys : /\ published'[k].files = Changed(published[k].files, n, made, state, how)
                            /\ published'[k].receipt = published[k].receipt
                            /\ pending'[k].files = Changed(pending[k].files, n, made, state, how)
                            /\ pending'[k].checkpoint = pending[k].checkpoint
<1>1. ASSUME NEW k \in Keys
      PROVE  /\ published'[k] = [files |-> Changed(published[k].files, n, made, state, how),
                                 receipt |-> published[k].receipt]
             /\ pending'[k] = [files |-> Changed(pending[k].files, n, made, state, how),
                               checkpoint |-> pending[k].checkpoint]
  <2>1. /\ published[k] = [files |-> published[k].files, receipt |-> published[k].receipt]
        /\ pending[k] = [files |-> pending[k].files, checkpoint |-> pending[k].checkpoint]
    BY DEF PublishedOK, PendingOK, Published, Staged
  <2>2. /\ published'[k] = [published[k] EXCEPT !.files = Changed(@, n, made, state, how)]
        /\ pending'[k] = [pending[k] EXCEPT !.files = Changed(@, n, made, state, how)]
    BY DEF InEveryLink
  <2> QED BY <2>1, <2>2
<1>2. ASSUME NEW k \in Keys
      PROVE  /\ Published(k, published'[k], imports', 2 + faults')
             /\ Staged(k, pending'[k], imports', 2 + faults')
  <2>1. Published(k, published[k], imports', 2 + faults') /\ Staged(k, pending[k], imports', 2 + faults')
    BY PublishedLater, StagedLater DEF PublishedOK, PendingOK, Later
  <2>2. /\ FilesOK(k, Changed(published[k].files, n, made, state, how), imports', 2 + faults')
        /\ FilesOK(k, Changed(pending[k].files, n, made, state, how), imports', 2 + faults')
    BY <2>1, FilesChanged DEF Published, Staged, Intact, Later
  <2> DEFINE f == Changed(published[k].files, n, made, state, how)
             g == Changed(pending[k].files, n, made, state, how)
  <2>0. /\ published'[k] = [files |-> f, receipt |-> published[k].receipt]
        /\ pending'[k] = [files |-> g, checkpoint |-> pending[k].checkpoint]
    BY <1>1
  <2> HIDE DEF f, g
  <2>3. /\ published'[k].files = f
        /\ published'[k].receipt = published[k].receipt
        /\ published'[k] = [files |-> published'[k].files, receipt |-> published'[k].receipt]
    BY <2>0
  <2>4. /\ pending'[k].files = g
        /\ pending'[k].checkpoint = pending[k].checkpoint
        /\ pending'[k] = [files |-> pending'[k].files, checkpoint |-> pending'[k].checkpoint]
    BY <2>0
  <2>5. Published(k, published'[k], imports', 2 + faults')
    BY <2>1, <2>2, <2>3 DEF Published, f
  <2>6. Staged(k, pending'[k], imports', 2 + faults')
    BY <2>1, <2>2, <2>4 DEF Staged, g
  <2> QED BY <2>5, <2>6
<1>3. published' = [k \in Keys |-> published'[k]] /\ pending' = [k \in Keys |-> pending'[k]]
  BY DEF InEveryLink
<1> QED BY <1>1, <1>2, <1>3 DEF PublishedOK, PendingOK

LEMMA AttemptReset ==
  ASSUME NEW s \in Steps, attempt' = [NoAttempt EXCEPT !.step = s]
  PROVE  /\ AttemptOK'
         /\ attempt' = [step |-> s, records |-> Empty, todo |-> {}, aside |-> NoGeneration]
<1>1. attempt' = [step |-> s, records |-> Empty, todo |-> {}, aside |-> NoGeneration]
  BY DEF NoAttempt
<1>2. /\ RecordsOK(Key', Empty, 2 + faults')
      /\ Published(Key', NoGeneration, imports', 2 + faults')
  BY NothingOK
<1>3. attempt' = [step |-> attempt'.step, records |-> attempt'.records,
                  todo |-> attempt'.todo, aside |-> attempt'.aside]
  BY <1>1
<1>4. attempt'.step \in Steps /\ attempt'.todo \subseteq Names
  BY <1>1
<1>5. attempt'.records = Empty /\ attempt'.aside = NoGeneration
  BY <1>1
<1>6. RecordsOK(Key', attempt'.records, 2 + faults')
  BY <1>2, <1>5
<1>7. Published(Key', attempt'.aside, imports', 2 + faults')
  BY <1>2, <1>5
<1> QED BY <1>1, <1>3, <1>4, <1>6, <1>7 DEF AttemptOK

LEMMA AttemptMoves ==
  ASSUME AttemptOK, Later, Key' = Key, NEW s \in Steps, NEW records, NEW todo,
         RecordsOK(Key, records, 2 + faults'), todo \subseteq Names,
         attempt' = [attempt EXCEPT !.records = records, !.todo = todo, !.step = s]
  PROVE  /\ AttemptOK'
         /\ attempt' = [step |-> s, records |-> records, todo |-> todo, aside |-> attempt.aside]
<1>1. attempt' = [step |-> s, records |-> records, todo |-> todo, aside |-> attempt.aside]
  BY DEF AttemptOK
<1>2. Published(Key, attempt.aside, imports', 2 + faults')
  BY PublishedLater DEF AttemptOK, Later
<1> QED BY <1>1, <1>2 DEF AttemptOK

LEMMA AttemptStepped ==
  ASSUME AttemptOK, Later, NEW s \in Steps, Reaches(s)
  PROVE  /\ AttemptOK' /\ Key' = Key
         /\ attempt' = [step |-> s, records |-> attempt.records,
                        todo |-> attempt.todo, aside |-> attempt.aside]
<1>1. attempt' = [step |-> s, records |-> attempt.records,
                  todo |-> attempt.todo, aside |-> attempt.aside]
  BY DEF AttemptOK, Reaches
<1>2. Published(Key, attempt.aside, imports', 2 + faults')
  BY PublishedLater DEF AttemptOK, Later
<1>3. RecordsOK(Key, attempt.records, 2 + faults')
  BY RecordsLater DEF AttemptOK, Later
<1>4. Key' = Key
  BY DEF Reaches, Key
<1> QED BY <1>1, <1>2, <1>3, <1>4 DEF AttemptOK

----------------------------------------------------------------------------
(* One link, one source.                                                   *)

\* The files of g are among those of f, whatever became of their contents.
Under(g, f) ==
  \A n \in DOMAIN g : n \in DOMAIN f /\ g[n].id = f[n].id /\ g[n].made = f[n].made

LEMMA ChangedUnder ==
  ASSUME NEW k, NEW f, NEW i, NEW s, FilesOK(k, f, i, s),
         NEW n, NEW made, NEW state \in Nat, NEW how \in {"seen", "unseen"}, imports \in Nat
  PROVE  Under(Changed(f, n, made, state, how), f)
BY ChangedIs DEF FilesOK, Under

LEMMA OneSourceKept ==
  ASSUME OneSource,
         \A k \in Keys : \/ Under(published'[k].files, published[k].files)
                         \/ Under(published'[k].files, pending[k].files)
                         \/ Under(published'[k].files, attempt.aside.files),
         \A k \in Keys : Under(pending'[k].files, pending[k].files),
         \/ Under(attempt'.aside.files, attempt.aside.files)
         \/ \E k \in Keys : Under(attempt'.aside.files, published[k].files)
  PROVE  OneSource'
<1>1. ASSUME NEW n \in Names, NEW made \in Nat, NEW id \in Identities, OnDisk(n, made, id)'
      PROVE  OnDisk(n, made, id)
  <2>1. ASSUME NEW k \in Keys, Has(published'[k].files, n, made, id)
        PROVE  OnDisk(n, made, id)
    BY <2>1 DEF Under, Has, OnDisk
  <2>2. ASSUME NEW k \in Keys, Has(pending'[k].files, n, made, id)
        PROVE  OnDisk(n, made, id)
    BY <2>2 DEF Under, Has, OnDisk
  <2>3. ASSUME Has(attempt'.aside.files, n, made, id)
        PROVE  OnDisk(n, made, id)
    BY <2>3 DEF Under, Has, OnDisk
  <2> QED BY <1>1, <2>1, <2>2, <2>3 DEF OnDisk
<1>2. SUFFICES ASSUME NEW n \in Names, NEW made \in Nat,
                      NEW id1 \in Identities, NEW id2 \in Identities,
                      OnDisk(n, made, id1)', OnDisk(n, made, id2)'
               PROVE  id1 = id2
  BY Zenon DEF OneSource
<1> QED BY <1>1, <1>2 DEF OneSource

\* A file is put in the pending directory.
LEMMA OneSourcePut ==
  ASSUME OneSource, PendingOK, Key \in Keys, NEW m \in Names, NEW x \in FileType,
         \A id \in Identities : OnDisk(m, x.made, id) => id = x.id,
         published' = published, attempt'.aside = attempt.aside,
         \A k \in Keys : pending'[k].files = IF k = Key THEN Put(pending[k].files, m, x)
                                             ELSE pending[k].files
  PROVE  OneSource'
<1>1. ASSUME NEW n \in Names, NEW made \in Nat, NEW id \in Identities, OnDisk(n, made, id)'
      PROVE  OnDisk(n, made, id) \/ (n = m /\ made = x.made /\ id = x.id)
  <2>1. ASSUME NEW k \in Keys, Has(pending'[k].files, n, made, id)
        PROVE  OnDisk(n, made, id) \/ (n = m /\ made = x.made /\ id = x.id)
    <3>1. CASE k # Key
      BY <2>1, <3>1 DEF OnDisk
    <3>2. CASE k = Key
      <4>1. Partial(pending[k].files, FileType)
        BY DEF PendingOK, Staged, FilesOK
      <4>2. pending'[k].files = Put(pending[k].files, m, x)
        BY <3>2
      <4>3. /\ DOMAIN pending'[k].files = DOMAIN pending[k].files \cup {m}
            /\ pending'[k].files[m] = x
            /\ \A l \in DOMAIN pending[k].files : l # m => pending'[k].files[l] = pending[k].files[l]
        BY <4>1, <4>2 DEF Put, Partial
      <4>4. CASE n = m
        BY <2>1, <4>3, <4>4 DEF Has
      <4>5. CASE n # m
        BY <2>1, <4>3, <4>5 DEF Has, OnDisk
      <4> QED BY <4>4, <4>5
    <3> QED BY <3>1, <3>2
  <2>2. ASSUME NEW k \in Keys, Has(published'[k].files, n, made, id)
        PROVE  OnDisk(n, made, id)
    BY <2>2 DEF OnDisk
  <2>3. ASSUME Has(attempt'.aside.files, n, made, id)
        PROVE  OnDisk(n, made, id)
    BY <2>3 DEF OnDisk
  <2> QED BY <1>1, <2>1, <2>2, <2>3 DEF OnDisk
<1>2. SUFFICES ASSUME NEW n \in Names, NEW made \in Nat,
                      NEW id1 \in Identities, NEW id2 \in Identities,
                      OnDisk(n, made, id1)', OnDisk(n, made, id2)'
               PROVE  id1 = id2
  BY Zenon DEF OneSource
<1>3. CASE n = m /\ made = x.made
  BY <1>1, <1>2, <1>3
<1>4. CASE ~(n = m /\ made = x.made)
  <2>1. OnDisk(n, made, id1) /\ OnDisk(n, made, id2)
    BY <1>1, <1>2, <1>4
  <2> QED BY <2>1 DEF OneSource
<1> QED BY <1>3, <1>4

\* What this import makes is of its own profile.
LEMMA MadeNow ==
  ASSUME StoreInv, Fresh, Fetching, NEW n \in Names, NEW id \in Identities,
         OnDisk(n, imports, id)
  PROVE  id = Profile[Key][n]
<1>1. imports \in Nat /\ Key \in Keys
  BY DEF StoreInv, RestOK, Key
<1>2. ~Has(attempt.aside.files, n, imports, id)
  <2>1. ASSUME n \in DOMAIN attempt.aside.files
        PROVE  attempt.aside.files[n].made < imports
    BY <2>1 DEF Fresh
  <2> QED BY <1>1, <2>1 DEF Has
<1>3. ASSUME NEW k \in Keys
      PROVE  ~Has(published[k].files, n, imports, id)
  BY <1>1 DEF Fresh, Has
<1>4. ASSUME NEW k \in Keys, k # Key
      PROVE  ~Has(pending[k].files, n, imports, id)
  BY <1>1, <1>4 DEF Fresh, Has
<1>5. Has(pending[Key].files, n, imports, id)
  BY <1>2, <1>3, <1>4 DEF OnDisk
<1>6. FilesOK(Key, pending[Key].files, imports, 2 + faults)
  BY <1>1 DEF StoreInv, PendingOK, Staged
<1> QED BY <1>5, <1>6, Read DEF Has

----------------------------------------------------------------------------
(* Steps that end an attempt or begin one.                                 *)

LEMMA LaterNow ==
  ASSUME RestOK, imports' \in {imports, imports + 1}, faults' \in {faults, faults + 1}
  PROVE  Later
<1>1. imports \in Nat /\ faults \in Nat
  BY DEF RestOK
<1>2. imports' \in Nat /\ imports <= imports'
  BY <1>1
<1>3. faults' \in Nat /\ faults <= faults'
  BY <1>1
<1>4. 2 + faults' \in Nat /\ 2 + faults <= 2 + faults' /\ 2 + faults \in Nat
  <2>1. ASSUME NEW i \in Nat, NEW j \in Nat, i <= j
        PROVE  2 + j \in Nat /\ 2 + i <= 2 + j /\ 2 + i \in Nat
    BY <2>1
  <2> QED BY <1>1, <1>3, <2>1
<1> QED BY <1>1, <1>2, <1>3, <1>4 DEF Later

\* Whole and torn are always contents of their own.
LEMMA Contents ==
  /\ Whole \in Nat /\ Torn \in Nat /\ Whole # Torn
  /\ \A f \in Nat : Whole < 2 + f /\ Torn < 2 + f /\ 2 + f # Torn /\ 2 + f # Whole
BY DEF Whole, Torn

LEMMA SameUnder ==
  ASSUME NEW f, NEW g, g = f
  PROVE  Under(g, f)
BY DEF Under

LEMMA EmptyUnder ==
  ASSUME NEW f
  PROVE  Under(Empty, f)
BY DEF Under, Empty

\* Between attempts there is nothing to rely on but Unlinked.
LEMMA Quiet ==
  ASSUME attempt'.step \in {"idle", "inspect", "resolve", "prune"},
         attempt'.step = "inspect" => DOMAIN attempt'.records = {} /\ attempt'.todo = {},
         active' # None /\ Links(published'[active'].files, pending'[active'].files) =>
           Lacks(published'[active'])
  PROVE  AttemptInv'
<1>1. Fresh' /\ Recorded' /\ ImagesWhole' /\ Extracting' /\ Spared' /\ Unresolved'
  BY DEF Fresh, Recorded, ImagesWhole, Extracting, Spared, Unresolved, Fetching, Collecting
<1>2. Accounted'
  BY DEF Accounted
<1>3. Unlinked'
  BY DEF Unlinked
<1> QED BY <1>1, <1>2, <1>3 DEF AttemptInv

\* An attempt ends, or is about to begin, and the disk stays.
LEMMA Resets ==
  ASSUME IInv, NEW s \in {"idle", "inspect", "prune"}, attempt' = [NoAttempt EXCEPT !.step = s],
         UNCHANGED Disk, panel' \in [up : BOOLEAN, ready : BOOLEAN, key : Keys],
         imports' = imports, faults' \in {faults, faults + 1}, changes' \in Nat
  PROVE  IInv'
<1>1. s \in Steps
  BY DEF Steps
<1>2. /\ AttemptOK'
      /\ attempt' = [step |-> s, records |-> Empty, todo |-> {}, aside |-> NoGeneration]
  BY <1>1, AttemptReset
<1>3. Later
  BY LaterNow DEF IInv, StoreInv
<1>4. PublishedOK' /\ PendingOK'
  BY <1>3, PublishedSame, PendingSame DEF IInv, StoreInv, Disk
<1>5. RestOK'
  BY DEF IInv, StoreInv, RestOK, Disk
<1>6. attempt'.aside.files = Empty
  BY <1>2 DEF NoGeneration
<1>7. OneSource'
  <2>1. \A k \in Keys : /\ Under(published'[k].files, published[k].files)
                        /\ Under(pending'[k].files, pending[k].files)
    BY SameUnder DEF Disk
  <2>2. Under(attempt'.aside.files, attempt.aside.files)
    BY <1>6, EmptyUnder
  <2> QED BY <2>1, <2>2, OneSourceKept DEF IInv, StoreInv
<1>8. AttemptInv'
  <2>1. attempt'.step = s /\ DOMAIN attempt'.records = {} /\ attempt'.todo = {}
    BY <1>2 DEF Empty
  <2>2. active' # None /\ Links(published'[active'].files, pending'[active'].files) =>
          Lacks(published'[active'])
    BY DEF IInv, AttemptInv, Unlinked, Disk
  <2> QED BY <2>1, <2>2, Quiet
<1> QED BY <1>2, <1>4, <1>5, <1>7, <1>8 DEF IInv, StoreInv

LEMMA PanelIs ==
  ASSUME RestOK
  PROVE  /\ Key \in Keys /\ active \in Keys \cup {None}
         /\ \A r \in BOOLEAN : [panel EXCEPT !.ready = r] \in [up : BOOLEAN, ready : BOOLEAN, key : Keys]
         /\ [panel EXCEPT !.up = FALSE, !.ready = FALSE] \in [up : BOOLEAN, ready : BOOLEAN, key : Keys]
         /\ \A r \in BOOLEAN : [panel EXCEPT !.ready = r].key = Key
         /\ [panel EXCEPT !.up = FALSE, !.ready = FALSE].key = Key
         /\ None \notin Keys
BY ProvisionAssumption DEF RestOK, Key, None

LEMMA EndsIs ==
  ASSUME RestOK, NEW ready \in BOOLEAN, Ends(ready)
  PROVE  /\ attempt' = [NoAttempt EXCEPT !.step = "idle"]
         /\ panel' \in [up : BOOLEAN, ready : BOOLEAN, key : Keys] /\ Key' = Key
BY PanelIs DEF Ends, NoAttempt, Key

LEMMA PrepareStep == IInv /\ Prepare => IInv'
<1> SUFFICES ASSUME IInv, Prepare PROVE IInv'
  OBVIOUS
<1>1. panel' \in [up : BOOLEAN, ready : BOOLEAN, key : Keys]
  BY PanelIs DEF IInv, StoreInv, Prepare
<1>2. changes \in Nat
  BY DEF IInv, StoreInv, RestOK
<1> QED BY <1>1, <1>2, Resets DEF Prepare, Bounds, Disk

LEMMA OpenStep == IInv /\ (\E k \in Keys : Open(k)) => IInv'
<1> SUFFICES ASSUME IInv, NEW k \in Keys, Open(k) PROVE IInv'
  OBVIOUS
<1>1. panel' \in [up : BOOLEAN, ready : BOOLEAN, key : Keys]
  BY DEF Open
<1>2. changes' \in Nat
  BY DEF IInv, StoreInv, RestOK, Open
<1>3. PICK s \in {"idle", "inspect", "prune"} : attempt' = [NoAttempt EXCEPT !.step = s]
  BY DEF Open
<1> QED BY <1>1, <1>2, <1>3, Resets DEF Open, Disk

LEMMA StepFailsStep == IInv /\ StepFails => IInv'
<1> SUFFICES ASSUME IInv, StepFails PROVE IInv'
  OBVIOUS
<1>1. /\ attempt' = [NoAttempt EXCEPT !.step = "idle"]
      /\ panel' \in [up : BOOLEAN, ready : BOOLEAN, key : Keys]
  BY EndsIs DEF StepFails, IInv, StoreInv
<1>2. changes \in Nat
  BY DEF IInv, StoreInv, RestOK
<1> QED BY <1>1, <1>2, Resets DEF StepFails, Fault, Disk

LEMMA CrashStep == IInv /\ Crash => IInv'
<1> SUFFICES ASSUME IInv, Crash PROVE IInv'
  OBVIOUS
<1>1. /\ attempt' = [NoAttempt EXCEPT !.step = "idle"]
      /\ panel' \in [up : BOOLEAN, ready : BOOLEAN, key : Keys]
  BY PanelIs DEF Crash, NoAttempt, IInv, StoreInv
<1>2. changes \in Nat
  BY DEF IInv, StoreInv, RestOK
<1> QED BY <1>1, <1>2, Resets DEF Crash, Fault, Disk

LEMMA CloseStep == IInv /\ Close => IInv'
<1> SUFFICES ASSUME IInv, Close PROVE IInv'
  OBVIOUS
<1>1. panel' \in [up : BOOLEAN, ready : BOOLEAN, key : Keys] /\ Key' = Key
  BY PanelIs DEF IInv, StoreInv, Close, Key
<1>2. Later
  BY LaterNow DEF IInv, StoreInv, Close, Bounds
<1>3. PublishedOK' /\ PendingOK'
  BY <1>2, PublishedSame, PendingSame DEF IInv, StoreInv, Close, Disk
<1>4. RestOK'
  BY <1>1 DEF IInv, StoreInv, RestOK, Close, Disk, Bounds
<1>5. AttemptOK'
  BY <1>1 DEF IInv, StoreInv, AttemptOK, Close, Bounds
<1>6. OneSource'
  BY DEF IInv, StoreInv, OneSource, OnDisk, Close, Disk
<1>7. AttemptInv'
  <2>1. active' # None /\ Links(published'[active'].files, pending'[active'].files) =>
          Lacks(published'[active'])
    BY DEF IInv, AttemptInv, Unlinked, Close, Disk
  <2> QED BY <2>1, Quiet DEF Close
<1> QED BY <1>3, <1>4, <1>5, <1>6, <1>7 DEF IInv, StoreInv

----------------------------------------------------------------------------
(* An attempt opens its directory.                                         *)

LEMMA InspectStep == IInv /\ Inspect => IInv'
<1> SUFFICES ASSUME IInv, Inspect PROVE IInv'
  OBVIOUS
<1>0. RestOK /\ PublishedOK /\ PendingOK /\ AttemptOK /\ Key \in Keys
  BY PanelIs DEF IInv, StoreInv
<1>1. CASE Resolves(Key)
  <2>1. Ends(TRUE) /\ UNCHANGED <<Disk, Bounds>>
    BY <1>1 DEF Inspect
  <2>2. /\ attempt' = [NoAttempt EXCEPT !.step = "idle"]
        /\ panel' \in [up : BOOLEAN, ready : BOOLEAN, key : Keys]
    BY <1>0, <2>1, EndsIs
  <2>3. changes \in Nat
    BY <1>0 DEF RestOK
  <2> QED BY <2>1, <2>2, <2>3, Resets DEF Bounds
<1>2. CASE ~Resolves(Key)
  <2>1. /\ Reaches("reuse") /\ pending' = [pending EXCEPT ![Key] = pending[Key]]
        /\ imports' = imports + 1 /\ UNCHANGED <<published, active, faults, changes>>
    BY <1>2 DEF Inspect, Opened, Stage
  <2>2. Later
    BY <1>0, <2>1, LaterNow
  <2>3. pending' = pending
    BY <1>0, <2>1 DEF PendingOK
  <2>4. /\ AttemptOK' /\ Key' = Key
        /\ attempt' = [step |-> "reuse", records |-> attempt.records,
                       todo |-> attempt.todo, aside |-> attempt.aside]
    BY <1>0, <2>1, <2>2, AttemptStepped DEF Steps
  <2>5. PublishedOK' /\ PendingOK'
    BY <1>0, <2>1, <2>2, <2>3, PublishedSame, PendingSame
  <2>6. RestOK'
    BY <1>0, <2>1, <2>4 DEF RestOK, Reaches
  <2>7. OneSource'
    BY <2>1, <2>3, <2>4 DEF IInv, StoreInv, OneSource, OnDisk
  <2>8. attempt.step = "inspect" /\ DOMAIN attempt.records = {} /\ attempt.todo = {}
    BY DEF Inspect, IInv, AttemptInv, Accounted
  <2>9. /\ \A k \in Keys : \A n \in DOMAIN published[k].files :
             published[k].files[n].made < imports + 1
        /\ \A k \in Keys : \A n \in DOMAIN pending[k].files :
             pending[k].files[n].made < imports + 1
        /\ \A n \in DOMAIN attempt.aside.files : attempt.aside.files[n].made < imports + 1
    <3>1. imports \in Nat
      BY <1>0 DEF RestOK
    <3>2. ASSUME NEW k \in Keys
          PROVE  /\ FilesOK(k, published[k].files, imports, 2 + faults)
                 /\ FilesOK(k, pending[k].files, imports, 2 + faults)
      BY <1>0 DEF PublishedOK, PendingOK, Published, Staged
    <3>3. FilesOK(Key, attempt.aside.files, imports, 2 + faults)
      BY <1>0 DEF AttemptOK, Published
    <3>4. ASSUME NEW k, NEW f, FilesOK(k, f, imports, 2 + faults), NEW n \in DOMAIN f
          PROVE  f[n].made < imports + 1
      BY <3>1, <3>4, Read
    <3> QED BY <3>2, <3>3, <3>4
  <2>10. Fresh'
    BY <2>1, <2>3, <2>4, <2>9 DEF Fresh
  <2>11. Recorded' /\ Accounted' /\ Extracting' /\ Spared'
    BY <2>4, <2>8 DEF Recorded, Accounted, Extracting, Spared
  <2>12. ImagesWhole'
    <3>1. Stage' = Stage
      BY <2>3, <2>4 DEF Stage
    <3>2. ASSUME NEW n \in DOMAIN Stage.files
          PROVE  Stage.files[n].made # imports'
      <4>1. FilesOK(Key, Stage.files, imports, 2 + faults)
        BY <1>0 DEF PendingOK, Staged, Stage
      <4>2. imports \in Nat /\ Stage.files[n].made \in Nat /\ Stage.files[n].made <= imports
        BY <1>0, <4>1, Read DEF RestOK
      <4> QED BY <2>1, <4>2
    <3> QED BY <3>1, <3>2 DEF ImagesWhole
  <2>13. Unlinked'
    BY <2>1, <2>3, <2>4 DEF Unlinked, IInv, AttemptInv
  <2>14. Unresolved'
    <3>1. ~Resolves(Key)'
      BY <1>2, <2>1, <2>4 DEF Resolves
    <3> QED BY <2>4, <3>1 DEF Unresolved
  <2> QED BY <2>4, <2>5, <2>6, <2>7, <2>10, <2>11, <2>12, <2>13, <2>14
          DEF IInv, StoreInv, AttemptInv
<1> QED BY <1>1, <1>2

----------------------------------------------------------------------------
(* A file is resumed, reused or left to the importer.                      *)

\* What the attempt relies on once file n is decided, however it was.
LEMMA DecidedInv ==
  ASSUME IInv, attempt.step = "reuse", NEW n \in Names, n \notin attempt.todo,
         NEW records, NEW todo, NEW s,
         attempt' = [step |-> s, records |-> records, todo |-> todo, aside |-> attempt.aside],
         s = IF DOMAIN records \cup todo = Names THEN JobAfter(todo) ELSE "reuse",
         UNCHANGED <<published, active, panel, imports>>, RecordsOK(Key, records, 2 + faults'),
         todo \subseteq Names,
         \A k \in Keys \ {Key} : pending'[k] = pending[k],
         pending'[Key].checkpoint = pending[Key].checkpoint,
         \A m \in Names \ {n} :
           /\ m \in DOMAIN pending'[Key].files <=> m \in DOMAIN pending[Key].files
           /\ m \in DOMAIN pending'[Key].files => pending'[Key].files[m] = pending[Key].files[m]
           /\ m \in DOMAIN records <=> m \in DOMAIN attempt.records
           /\ m \in DOMAIN records => records[m] = attempt.records[m]
           /\ m \in todo <=> m \in attempt.todo,
         DOMAIN pending'[Key].files \subseteq Names,
         n \in DOMAIN records <=> n \notin todo,
         n \in DOMAIN records => /\ n \in DOMAIN pending'[Key].files
                                 /\ pending'[Key].files[n].state # Torn
                                 /\ Follows(records[n], pending'[Key], n),
         n \in Images \cap DOMAIN pending'[Key].files /\ pending'[Key].files[n].made = imports =>
           pending'[Key].files[n].state # Torn,
         n = Master /\ n \in todo /\ active # None /\ Shares(active)' =>
           ~ValidFile(published[active].files, published[active].receipt, Master),
         n = Master /\ active # None /\ Links(published[active].files, pending'[active].files) =>
           Lacks(published[active])
  PROVE  AttemptInv'
<1>1. Key' = Key /\ Key \in Keys
  BY PanelIs DEF IInv, StoreInv, Key
<1>2. /\ attempt'.step = s /\ attempt'.records = records /\ attempt'.todo = todo
      /\ attempt'.aside = attempt.aside
  OBVIOUS
<1>3. s \in {"reuse", "master", "images", "validate"}
  BY DEF JobAfter
<1>4. DOMAIN records \cap todo = {} /\ DOMAIN records \subseteq Names
  <2>1. DOMAIN attempt.records \cap attempt.todo = {}
    BY DEF IInv, AttemptInv, Accounted
  <2>2. DOMAIN records \subseteq Names
    BY DEF RecordsOK, Partial
  <2> QED BY <2>1, <2>2
<1>5. Stage' = pending'[Key] /\ Stage = pending[Key]
  BY <1>1 DEF Stage
<1>6. Fresh'
  <2>1. Fetching
    BY DEF Fetching
  <2> QED BY <1>1, <1>2, <2>1 DEF Fresh, IInv, AttemptInv
<1>7. Recorded'
  <2>1. ASSUME NEW m \in DOMAIN records, m # n
        PROVE  /\ m \in DOMAIN Stage'.files /\ Stage'.files[m].state # Torn
               /\ Resumable(m)' => Follows(records[m], Stage', m)
    <3>1. m \in Names \ {n} /\ m \in DOMAIN attempt.records
      BY <1>4, <2>1
    <3>2. /\ m \in DOMAIN Stage.files /\ Stage.files[m].state # Torn
          /\ Resumable(m) => Follows(attempt.records[m], Stage, m)
      BY <3>1 DEF IInv, AttemptInv, Recorded, Collecting, Fetching
    <3>3. Stage'.files[m] = Stage.files[m] /\ m \in DOMAIN Stage'.files /\ records[m] = attempt.records[m]
      BY <1>5, <2>1, <3>1, <3>2
    <3>4. Resumable(m)' => Resumable(m)
      BY <1>1, <1>5, <3>2, <3>3 DEF Resumable, ValidFile, Stage, Key
    <3> QED BY <1>5, <3>2, <3>3, <3>4 DEF Follows
  <2>2. n \in DOMAIN records =>
          /\ n \in DOMAIN Stage'.files /\ Stage'.files[n].state # Torn
          /\ Follows(records[n], Stage', n)
    BY <1>5
  <2> QED BY <1>2, <2>1, <2>2 DEF Recorded
<1>8. ImagesWhole'
  <2>1. ASSUME NEW m \in Images \cap DOMAIN Stage'.files, Stage'.files[m].made = imports
        PROVE  Stage'.files[m].state # Torn
    <3>1. CASE m = n
      BY <1>5, <2>1, <3>1
    <3>2. CASE m # n
      <4>1. m \in DOMAIN Stage.files /\ Stage'.files[m] = Stage.files[m]
        BY <1>5, <3>2
      <4> QED BY <2>1, <4>1 DEF IInv, AttemptInv, ImagesWhole, Fetching
    <3> QED BY <3>1, <3>2
  <2> QED BY <2>1 DEF ImagesWhole
<1>9. Accounted'
  BY <1>2, <1>3, <1>4, NamesIs DEF Accounted, JobAfter
<1>10. Extracting'
  BY <1>2, <1>3 DEF Extracting
<1>11. Spared'
  <2>1. SUFFICES ASSUME s \in {"reuse", "master"}, Master \in todo, active # None, Shares(active)'
                 PROVE  ~ValidFile(published[active].files, published[active].receipt, Master)
    BY <1>2 DEF Spared
  <2>2. CASE n = Master
    BY <2>1, <2>2
  <2>3. CASE n # Master
    <3>1. Master \in Names \ {n} /\ Master \in attempt.todo
      BY <2>1, <2>3, NamesIs
    <3>2. Shares(active)
      BY <1>5, <2>1, <3>1 DEF Shares
    <3> QED BY <2>1, <3>1, <3>2 DEF IInv, AttemptInv, Spared
  <2> QED BY <2>2, <2>3
<1>12. Unlinked'
  <2>1. attempt'.step # "publish"
    BY <1>2, <1>3
  <2>2. ASSUME active # None, Links(published[active].files, pending'[active].files)
        PROVE  Lacks(published[active])
    <3>1. CASE n = Master
      BY <2>2, <3>1
    <3>2. CASE n # Master
      <4>1. active \in Keys
        BY <2>2 DEF IInv, StoreInv, RestOK
      <4>2. Links(published[active].files, pending[active].files)
        BY <2>2, <3>2, <4>1, NamesIs DEF Links
      <4> QED BY <2>2, <4>2 DEF IInv, AttemptInv, Unlinked
    <3> QED BY <3>1, <3>2
  <2> QED BY <2>1, <2>2 DEF Unlinked
<1>13. Unresolved'
  <2>1. ~Resolves(Key)
    BY DEF IInv, AttemptInv, Unresolved
  <2>2. ~Resolves(Key)'
    BY <1>1, <2>1 DEF Resolves
  <2> QED BY <2>2 DEF Unresolved
<1> QED BY <1>6, <1>7, <1>8, <1>9, <1>10, <1>11, <1>12, <1>13 DEF AttemptInv

LEMMA ReuseStep == IInv /\ (\E n \in Names : Reuse(n)) => IInv'
<1> SUFFICES ASSUME IInv, NEW n \in Names, Reuse(n) PROVE IInv'
  OBVIOUS
<1> DEFINE old == published[active].files[n]
           step(records, todo) == IF DOMAIN records \cup todo = Names THEN JobAfter(todo) ELSE "reuse"
<1>0. /\ RestOK /\ PublishedOK /\ PendingOK /\ AttemptOK /\ Key \in Keys
      /\ active \in Keys \cup {None} /\ None \notin Keys
  BY PanelIs DEF IInv, StoreInv
<1>1. /\ attempt.step = "reuse" /\ n \notin DOMAIN attempt.records /\ n \notin attempt.todo
      /\ UNCHANGED <<published, active, panel, imports, faults, changes>>
  BY DEF Reuse, Bounds
<1>2. Later /\ Key' = Key
  BY <1>0, <1>1, LaterNow DEF Key
<1>3. /\ PublishedOK' /\ RestOK'
  BY <1>0, <1>1, <1>2, PublishedSame DEF RestOK
<1>4. /\ Staged(Key, pending[Key], imports, 2 + faults)
      /\ FilesOK(Key, pending[Key].files, imports, 2 + faults)
      /\ RecordsOK(Key, pending[Key].checkpoint, 2 + faults)
      /\ RecordsOK(Key, attempt.records, 2 + faults)
      /\ DOMAIN pending[Key].files \subseteq Names
  BY <1>0 DEF PendingOK, Staged, AttemptOK, FilesOK, Partial
<1>5. \A records, todo : step(records, todo) \in Steps
  BY DEF Steps, JobAfter
<1>6. n = Master => (active # None /\ Links(published[active].files, pending[active].files) =>
                       Lacks(published[active]))
  BY DEF IInv, AttemptInv, Unlinked
<1>7. CASE Resumable(n)
  <2> DEFINE records == Put(attempt.records, n, pending[Key].checkpoint[n])
  <2>1. /\ attempt' = [attempt EXCEPT !.records = records, !.todo = attempt.todo,
                                      !.step = step(records, attempt.todo)]
        /\ pending' = pending
    BY <1>1, <1>7 DEF Reuse, Stage
  <2>2. /\ n \in DOMAIN pending[Key].files /\ n \in DOMAIN pending[Key].checkpoint
        /\ pending[Key].files[n].state # Torn
    BY <1>4, <1>7, ValidWhole DEF Resumable, Key
  <2>3. /\ pending[Key].checkpoint[n] \in RecordType
        /\ pending[Key].checkpoint[n].id = Profile[Key][n]
        /\ pending[Key].checkpoint[n].state # Torn
        /\ pending[Key].checkpoint[n].state < 2 + faults
        /\ Mark(pending[Key].checkpoint[n]) # Torn
        /\ Mark(pending[Key].checkpoint[n]) < 2 + faults
    BY <1>4, <2>2, ReadRecord
  <2>4. RecordsOK(Key, records, 2 + faults)
    BY <1>4, <2>3, RecordsPut
  <2>5. /\ DOMAIN records = DOMAIN attempt.records \cup {n}
        /\ records[n] = pending[Key].checkpoint[n]
        /\ \A m \in DOMAIN attempt.records : m # n => records[m] = attempt.records[m]
    BY <1>4, <2>3 DEF Put, RecordsOK, Partial
  <2> HIDE DEF records
  <2>6. /\ AttemptOK'
        /\ attempt' = [step |-> step(records, attempt.todo), records |-> records,
                       todo |-> attempt.todo, aside |-> attempt.aside]
    <3>1. attempt.todo \subseteq Names /\ RecordsOK(Key, records, 2 + faults')
      BY <1>0, <1>1, <2>4 DEF AttemptOK
    <3> QED BY <1>0, <1>2, <1>5, <2>1, <3>1, AttemptMoves
  <2>7. PendingOK'
    BY <1>0, <1>2, <2>1, PendingSame
  <2>8. OneSource'
    BY <1>1, <2>1, <2>6 DEF IInv, StoreInv, OneSource, OnDisk
  <2>9. AttemptInv'
    <3>1. attempt.todo \subseteq Names /\ RecordsOK(Key, records, 2 + faults')
      BY <1>0, <1>1, <2>4 DEF AttemptOK
    <3>2. n \in Images \cap DOMAIN pending'[Key].files /\ pending'[Key].files[n].made = imports =>
            pending'[Key].files[n].state # Torn
      BY <2>1, <2>2, <2>3
    <3>3. \A m \in Names \ {n} :
            /\ m \in DOMAIN pending'[Key].files <=> m \in DOMAIN pending[Key].files
            /\ m \in DOMAIN pending'[Key].files => pending'[Key].files[m] = pending[Key].files[m]
            /\ m \in DOMAIN records <=> m \in DOMAIN attempt.records
            /\ m \in DOMAIN records => records[m] = attempt.records[m]
      BY <2>1, <2>5
    <3>4. /\ n \in DOMAIN records /\ n \in DOMAIN pending'[Key].files
          /\ pending'[Key].files[n].state # Torn /\ Follows(records[n], pending'[Key], n)
          /\ pending'[Key].checkpoint = pending[Key].checkpoint
          /\ DOMAIN pending'[Key].files \subseteq Names
          /\ \A k \in Keys \ {Key} : pending'[k] = pending[k]
      BY <1>4, <2>1, <2>2, <2>3, <2>5 DEF Follows
    <3>5. n = Master /\ active # None /\ Links(published[active].files, pending'[active].files) =>
            Lacks(published[active])
      BY <1>6, <2>1
    <3> QED BY <1>1, <2>6, <3>1, <3>2, <3>3, <3>4, <3>5, DecidedInv
  <2> QED BY <1>3, <2>6, <2>7, <2>8, <2>9 DEF IInv, StoreInv
<1>8. CASE ~Resumable(n) /\ Reusable(n)
  <2> DEFINE copy == [old EXCEPT !.made = imports, !.stamp = Stamp(old.state)]
             previous == published[active].receipt[n]
  <2>1. active # None /\ active \in Keys /\ Profile[active][n] = Profile[Key][n]
    BY <1>0, <1>8 DEF Reusable, Key
  <2>2. /\ FilesOK(active, published[active].files, imports, 2 + faults)
        /\ RecordsOK(active, published[active].receipt, 2 + faults)
    BY <1>0, <2>1 DEF PublishedOK, Published
  <2>3. /\ n \in DOMAIN published[active].files /\ n \in DOMAIN published[active].receipt
        /\ old.state # Torn /\ Mark(old) # Torn
    BY <1>8, <2>2, ValidWhole DEF Reusable
  <2>4. /\ old \in FileType /\ old.id = Profile[Key][n] /\ old.state \in Nat /\ old.id \in Identities
        /\ old.made <= imports /\ old.made \in Nat /\ old.state < 2 + faults /\ Mark(old) < 2 + faults
        /\ previous \in RecordType /\ previous.id = Profile[Key][n]
        /\ previous.state # Torn /\ previous.state < 2 + faults
        /\ Mark(previous) # Torn /\ Mark(previous) < 2 + faults
    BY <2>1, <2>2, <2>3, Read, ReadRecord
  <2>5. PICK x \in {old, copy} :
          /\ attempt' = [attempt EXCEPT
               !.records = Put(attempt.records, n, ReusedRecord(x, previous)), !.todo = attempt.todo,
               !.step = step(Put(attempt.records, n, ReusedRecord(x, previous)), attempt.todo)]
          /\ pending' = [pending EXCEPT ![Key].files = Put(@, n, x)]
    BY <1>1, <1>8 DEF Reuse
  <2> DEFINE record == ReusedRecord(x, previous)
             records == Put(attempt.records, n, record)
             made == x.made
             s == [files |-> Put(pending[Key].files, n, x), checkpoint |-> pending[Key].checkpoint]
  <2>6. attempt' = [attempt EXCEPT !.records = records, !.todo = attempt.todo,
                                   !.step = step(records, attempt.todo)]
    BY <2>5
  <2>9. /\ x \in FileType /\ x.id = old.id /\ x.state = old.state
        /\ made \in Nat /\ made <= imports /\ made \in {old.made, imports}
        /\ Mark(x) # Torn /\ Mark(x) < 2 + faults
    <3>1. CASE x = old
      BY <1>0, <2>3, <2>4, <3>1 DEF RestOK
    <3>2. CASE x = copy
      <4>1. old = [id |-> old.id, state |-> old.state, stamp |-> old.stamp, made |-> old.made]
        BY <2>4 DEF FileType
      <4>2. x = [id |-> old.id, state |-> old.state, stamp |-> Stamp(old.state), made |-> imports]
        BY <3>2, <4>1
      <4>3. imports \in Nat /\ Stamp(old.state) \in StampType /\ Mark(x) = old.state
        BY <1>0, <2>4, <4>2 DEF RestOK, Stamp, StampType, Mark
      <4> QED BY <2>3, <2>4, <4>2, <4>3 DEF FileType
    <3> QED BY <2>5, <3>1, <3>2
  <2>10. /\ record \in RecordType /\ record.id = Profile[Key][n] /\ record.stamp = x.stamp
         /\ record.state # Torn /\ record.state < 2 + faults
         /\ Mark(record) # Torn /\ Mark(record) < 2 + faults
    <3>1. CASE x.stamp = previous.stamp
      BY <2>4, <3>1 DEF ReusedRecord
    <3>2. CASE x.stamp # previous.stamp
      <4>1. record = [id |-> x.id, state |-> x.state, stamp |-> x.stamp]
        BY <3>2 DEF ReusedRecord, Record
      <4>2. Mark(record) = Mark(x)
        BY <4>1 DEF Mark
      <4> QED BY <2>3, <2>4, <2>9, <4>1, <4>2 DEF FileType, RecordType
    <3> QED BY <3>1, <3>2
  <2> HIDE DEF record
  <2>7. RecordsOK(Key, records, 2 + faults)
    BY <1>4, <2>10, RecordsPut
  <2>8. /\ DOMAIN records = DOMAIN attempt.records \cup {n}
        /\ records[n] = record
        /\ \A m \in DOMAIN attempt.records : m # n => records[m] = attempt.records[m]
    BY <1>4, <2>10 DEF Put, RecordsOK, Partial
  <2> HIDE DEF records, old, copy, previous
  <2>11. pending' = [pending EXCEPT ![Key] = s]
    <3>1. pending[Key] = [files |-> pending[Key].files, checkpoint |-> pending[Key].checkpoint]
      BY <1>4 DEF Staged
    <3>2. [pending[Key] EXCEPT !.files = Put(pending[Key].files, n, x)] = s
      BY <3>1
    <3> QED BY <2>5, <3>2
  <2>12. Staged(Key, s, imports, 2 + faults)
    <3>1. FilesOK(Key, Put(pending[Key].files, n, x), imports, 2 + faults)
      BY <1>4, <2>3, <2>4, <2>9, FilesPut
    <3> QED BY <1>4, <3>1 DEF Staged
  <2>13. PendingOK'
    BY <1>0, <1>1, <1>2, <2>11, <2>12, PendingOne
  <2>14. /\ \A k \in Keys \ {Key} : pending'[k] = pending[k]
         /\ pending'[Key].files = Put(pending[Key].files, n, x)
         /\ pending'[Key].checkpoint = pending[Key].checkpoint
    BY <1>0, <2>11 DEF PendingOK
  <2>15. /\ DOMAIN pending'[Key].files = DOMAIN pending[Key].files \cup {n}
         /\ pending'[Key].files[n] = x
         /\ \A m \in DOMAIN pending[Key].files : m # n =>
              pending'[Key].files[m] = pending[Key].files[m]
    BY <1>4, <2>9, <2>14 DEF Put, FilesOK, Partial
  <2>16. /\ AttemptOK'
         /\ attempt' = [step |-> step(records, attempt.todo), records |-> records,
                        todo |-> attempt.todo, aside |-> attempt.aside]
    <3>1. attempt.todo \subseteq Names /\ RecordsOK(Key, records, 2 + faults')
      BY <1>0, <1>1, <2>7 DEF AttemptOK
    <3> QED BY <1>0, <1>2, <1>5, <2>6, <3>1, AttemptMoves
  <2>17. OneSource'
    <3>1. \A id \in Identities : OnDisk(n, x.made, id) => id = x.id
      <4>1. CASE made = old.made
        <5>1. OnDisk(n, old.made, old.id)
          BY <2>1, <2>3 DEF OnDisk, Has, old
        <5> QED BY <2>4, <2>9, <4>1, <5>1 DEF IInv, StoreInv, OneSource
      <4>2. CASE made = imports
        BY <1>1, <2>4, <2>9, <4>2, MadeNow DEF IInv, AttemptInv, Fetching
      <4> QED BY <2>9, <4>1, <4>2
    <3>2. \A k \in Keys : pending'[k].files = IF k = Key THEN Put(pending[k].files, n, x)
                                              ELSE pending[k].files
      BY <2>14
    <3>3. attempt'.aside = attempt.aside
      BY <2>16
    <3> QED BY <1>0, <1>1, <2>9, <3>1, <3>2, <3>3, OneSourcePut DEF IInv, StoreInv
  <2>18. AttemptInv'
    <3>1. attempt.todo \subseteq Names /\ RecordsOK(Key, records, 2 + faults')
      BY <1>0, <1>1, <2>7 DEF AttemptOK
    <3>2. pending'[Key].files[n].state # Torn /\ Follows(records[n], pending'[Key], n)
      BY <2>3, <2>8, <2>9, <2>10, <2>15 DEF Follows
    <3>3. n = Master /\ active # None /\ Links(published[active].files, pending'[active].files) =>
            Lacks(published[active])
      <4>1. SUFFICES ASSUME n = Master, Links(published[active].files, pending'[active].files)
                     PROVE  Lacks(published[active])
        OBVIOUS
      <4>2. CASE active = Key
        <5>1. ~Resolves(Key)
          BY <1>1 DEF IInv, AttemptInv, Unresolved
        <5>2. published[Key].receipt # Empty /\ DOMAIN published[Key].receipt = Names
          <6>1. published[Key].receipt = Empty \/ DOMAIN published[Key].receipt = Names
            BY <1>0 DEF PublishedOK, Published
          <6> QED BY <2>3, <4>2, <6>1, EmptyIs
        <5>3. PICK m \in Names : ~ValidFile(published[Key].files, published[Key].receipt, m)
          BY <5>1, <5>2 DEF Resolves
        <5>4. m # Master
          BY <1>8, <4>1, <4>2, <5>3 DEF Reusable
        <5> QED BY <4>2, <5>3, <5>4, NamesIs DEF Lacks
      <4>3. CASE active # Key
        <5>1. pending'[active] = pending[active]
          BY <2>1, <2>14, <4>3
        <5> QED BY <1>6, <2>1, <4>1, <5>1
      <4> QED BY <4>2, <4>3
    <3>4. DOMAIN pending'[Key].files \subseteq Names
      BY <1>4, <2>15
    <3> QED BY <1>1, <2>8, <2>14, <2>15, <2>16, <3>1, <3>2, <3>3, <3>4, DecidedInv
  <2> QED BY <1>3, <2>13, <2>16, <2>17, <2>18 DEF IInv, StoreInv
<1>9. CASE ~Resumable(n) /\ ~Reusable(n)
  <2> DEFINE todo == attempt.todo \cup {n}
  <2>1. /\ attempt' = [attempt EXCEPT !.records = attempt.records, !.todo = todo,
                                      !.step = step(attempt.records, todo)]
        /\ pending' = pending
    BY <1>1, <1>9 DEF Reuse, Stage
  <2>2. todo \subseteq Names /\ RecordsOK(Key, attempt.records, 2 + faults')
    BY <1>0, <1>1 DEF AttemptOK
  <2>7. n \in todo /\ \A m \in Names \ {n} : m \in todo <=> m \in attempt.todo
    OBVIOUS
  <2> HIDE DEF todo
  <2>3. /\ AttemptOK'
        /\ attempt' = [step |-> step(attempt.records, todo), records |-> attempt.records,
                       todo |-> todo, aside |-> attempt.aside]
    BY <1>0, <1>2, <1>5, <2>1, <2>2, AttemptMoves
  <2>4. PendingOK'
    BY <1>0, <1>2, <2>1, PendingSame
  <2>5. OneSource'
    BY <1>1, <2>1, <2>3 DEF IInv, StoreInv, OneSource, OnDisk
  <2>6. AttemptInv'
    <3>1. n \in Images \cap DOMAIN pending'[Key].files /\ pending'[Key].files[n].made = imports =>
            pending'[Key].files[n].state # Torn
      BY <1>1, <2>1 DEF IInv, AttemptInv, ImagesWhole, Fetching, Stage
    <3>2. n = Master /\ n \in todo /\ active # None /\ Shares(active)' =>
            ~ValidFile(published[active].files, published[active].receipt, Master)
      <4>1. SUFFICES ASSUME n = Master, active # None, Shares(active)
                     PROVE  Profile[active][Master] = Profile[Key][Master]
        BY <1>1, <1>2, <1>9, <2>1 DEF Reusable, Shares, Stage, Key
      <4>2. active \in Keys
        BY <1>0, <4>1
      <4>3. /\ Master \in DOMAIN published[active].files /\ Master \in DOMAIN pending[Key].files
            /\ published[active].files[Master].made = pending[Key].files[Master].made
        BY <4>1 DEF Shares, Stage
      <4>4. FilesOK(active, published[active].files, imports, 2 + faults)
        BY <1>0, <4>2 DEF PublishedOK, Published
      <4> DEFINE f == published[active].files[Master]
                 g == pending[Key].files[Master]
      <4>5. /\ f.id = Profile[active][Master] /\ g.id = Profile[Key][Master]
            /\ f.id \in Identities /\ g.id \in Identities /\ f.made \in Nat
        BY <1>4, <4>3, <4>4, Read
      <4>6. OnDisk(Master, f.made, f.id) /\ OnDisk(Master, f.made, g.id)
        BY <1>0, <4>2, <4>3 DEF OnDisk, Has
      <4> QED BY <4>5, <4>6, NamesIs DEF IInv, StoreInv, OneSource
    <3>3. \A m \in Names \ {n} :
            /\ m \in DOMAIN pending'[Key].files <=> m \in DOMAIN pending[Key].files
            /\ m \in DOMAIN pending'[Key].files => pending'[Key].files[m] = pending[Key].files[m]
      BY <2>1
    <3>4. /\ n \notin DOMAIN attempt.records
          /\ pending'[Key].checkpoint = pending[Key].checkpoint
          /\ DOMAIN pending'[Key].files \subseteq Names
          /\ \A k \in Keys \ {Key} : pending'[k] = pending[k]
      BY <1>1, <1>4, <2>1
    <3>5. n = Master /\ active # None /\ Links(published[active].files, pending'[active].files) =>
            Lacks(published[active])
      BY <1>6, <2>1
    <3> QED BY <1>1, <2>2, <2>3, <2>7, <3>1, <3>2, <3>3, <3>4, <3>5, DecidedInv
  <2> QED BY <1>3, <2>3, <2>4, <2>5, <2>6 DEF IInv, StoreInv
<1> QED BY <1>7, <1>8, <1>9

----------------------------------------------------------------------------
(* A write that leaves less than a file: a cut import or a damage.         *)

LEMMA Worn ==
  ASSUME IInv, Later, NEW n, NEW made, NEW state \in Nat, state < 2 + faults',
         NEW how \in {"seen", "unseen"}, (how = "seen" /\ state = Torn) \/ state >= 2 + faults,
         how = "seen" \/ Intact(n, made), InEveryLink(n, made, state, how)
  PROVE  /\ PublishedOK' /\ PendingOK'
         /\ \A k \in Keys :
              /\ published'[k].files = Changed(published[k].files, n, made, state, how)
              /\ published'[k].receipt = published[k].receipt
              /\ pending'[k].files = Changed(pending[k].files, n, made, state, how)
              /\ pending'[k].checkpoint = pending[k].checkpoint
              /\ Under(published'[k].files, published[k].files)
              /\ Under(pending'[k].files, pending[k].files)
              /\ DOMAIN published'[k].files = DOMAIN published[k].files
              /\ DOMAIN pending'[k].files = DOMAIN pending[k].files
              /\ \A m \in DOMAIN published[k].files :
                   IF m = n /\ published[k].files[m].made = made
                   THEN published'[k].files[m].state = state
                   ELSE published'[k].files[m] = published[k].files[m]
              /\ \A m \in DOMAIN pending[k].files :
                   IF m = n /\ pending[k].files[m].made = made
                   THEN pending'[k].files[m].state = state
                   ELSE pending'[k].files[m] = pending[k].files[m]
         /\ \A k \in Keys : \A m :
              ValidFile(published'[k].files, published'[k].receipt, m) =>
                ValidFile(published[k].files, published[k].receipt, m)
         /\ \A k \in Keys : \A m :
              ValidFile(pending'[k].files, pending'[k].checkpoint, m) =>
                /\ ValidFile(pending[k].files, pending[k].checkpoint, m)
                /\ pending'[k].files[m].stamp = pending[k].files[m].stamp
         /\ \A k \in Keys : Lacks(published[k]) => Lacks(published'[k])
         /\ \A k \in Keys : Resolves(k)' => Resolves(k)
<1>0. PublishedOK /\ PendingOK /\ 2 + faults \in Nat /\ imports \in Nat
  BY DEF IInv, StoreInv, Later
<1>1. /\ PublishedOK' /\ PendingOK'
      /\ \A k \in Keys : /\ published'[k].files = Changed(published[k].files, n, made, state, how)
                         /\ published'[k].receipt = published[k].receipt
                         /\ pending'[k].files = Changed(pending[k].files, n, made, state, how)
                         /\ pending'[k].checkpoint = pending[k].checkpoint
  <2>1. how = "seen" \/ (state # Torn /\ Intact(n, made))
    BY <1>0, Contents DEF IInv, StoreInv, RestOK
  <2> QED BY <1>0, <2>1, LinkWritten
<1>2. ASSUME NEW k \in Keys
      PROVE  /\ FilesOK(k, published[k].files, imports, 2 + faults)
             /\ FilesOK(k, pending[k].files, imports, 2 + faults)
             /\ RecordsOK(k, published[k].receipt, 2 + faults)
             /\ RecordsOK(k, pending[k].checkpoint, 2 + faults)
             /\ Partial(published[k].files, FileType) /\ Partial(pending[k].files, FileType)
  BY <1>0 DEF PublishedOK, PendingOK, Published, Staged, FilesOK
<1>3. ASSUME NEW k \in Keys
      PROVE  /\ Under(published'[k].files, published[k].files)
             /\ DOMAIN published'[k].files = DOMAIN published[k].files
             /\ \A m \in DOMAIN published[k].files :
                  IF m = n /\ published[k].files[m].made = made
                  THEN published'[k].files[m].state = state
                  ELSE published'[k].files[m] = published[k].files[m]
  BY <1>0, <1>1, <1>2, ChangedIs, ChangedUnder
<1>4. ASSUME NEW k \in Keys
      PROVE  /\ Under(pending'[k].files, pending[k].files)
             /\ DOMAIN pending'[k].files = DOMAIN pending[k].files
             /\ \A m \in DOMAIN pending[k].files :
                  IF m = n /\ pending[k].files[m].made = made
                  THEN pending'[k].files[m].state = state
                  ELSE pending'[k].files[m] = pending[k].files[m]
  BY <1>0, <1>1, <1>2, ChangedIs, ChangedUnder
<1>5. ASSUME NEW k \in Keys, NEW m, ValidFile(published'[k].files, published'[k].receipt, m)
      PROVE  ValidFile(published[k].files, published[k].receipt, m)
  BY <1>0, <1>1, <1>2, <1>5, NeverMended
<1>6. ASSUME NEW k \in Keys, NEW m, ValidFile(pending'[k].files, pending'[k].checkpoint, m)
      PROVE  /\ ValidFile(pending[k].files, pending[k].checkpoint, m)
             /\ pending'[k].files[m].stamp = pending[k].files[m].stamp
  BY <1>0, <1>1, <1>2, <1>6, NeverMended
<1>7. ASSUME NEW k \in Keys, Lacks(published[k])
      PROVE  Lacks(published'[k])
  BY <1>1, <1>5, <1>7 DEF Lacks
<1>8. ASSUME NEW k \in Keys, Resolves(k)'
      PROVE  Resolves(k)
  BY <1>1, <1>5, <1>8 DEF Resolves
<1> QED BY <1>1, <1>3, <1>4, <1>5, <1>6, <1>7, <1>8

\* A write that only changes contents keeps OneSource.
LEMMA ContentsOnly ==
  ASSUME OneSource,
         \A k \in Keys : /\ Under(published'[k].files, published[k].files)
                         /\ Under(pending'[k].files, pending[k].files),
         attempt'.aside = attempt.aside
  PROVE  OneSource'
<1>1. Under(attempt'.aside.files, attempt.aside.files)
  BY SameUnder
<1> QED BY <1>1, OneSourceKept

----------------------------------------------------------------------------
(* Master data is written in place.                                        *)

LEMMA ExtractOverwrites ==
  ASSUME IInv, ExtractMaster, Master \in DOMAIN Stage.files
  PROVE  IInv'
<1> DEFINE made == Stage.files[Master].made
<1>0. /\ RestOK /\ PublishedOK /\ PendingOK /\ AttemptOK /\ OneSource /\ Key \in Keys
      /\ active \in Keys \cup {None} /\ None \notin Keys
  BY PanelIs DEF IInv, StoreInv
<1>1. /\ attempt.step = "master" /\ Reaches("extracting")
      /\ UNCHANGED <<active, imports, faults, changes>>
      /\ InEveryLink(Master, made, Torn, "seen")
  BY DEF ExtractMaster, Bounds
<1> HIDE DEF made
<1>2. Later
  BY <1>0, <1>1, LaterNow
<1>3. Torn \in Nat /\ Torn < 2 + faults'
  BY <1>2, Contents DEF Later
<1>4. /\ AttemptOK' /\ Key' = Key
      /\ attempt' = [step |-> "extracting", records |-> attempt.records,
                     todo |-> attempt.todo, aside |-> attempt.aside]
  BY <1>0, <1>1, <1>2, AttemptStepped DEF Steps
<1>5. /\ PublishedOK' /\ PendingOK'
      /\ \A k \in Keys :
           /\ published'[k].receipt = published[k].receipt
           /\ pending'[k].checkpoint = pending[k].checkpoint
           /\ Under(published'[k].files, published[k].files)
           /\ Under(pending'[k].files, pending[k].files)
           /\ DOMAIN published'[k].files = DOMAIN published[k].files
           /\ DOMAIN pending'[k].files = DOMAIN pending[k].files
           /\ \A m \in DOMAIN published[k].files :
                IF m = Master /\ published[k].files[m].made = made
                THEN published'[k].files[m].state = Torn
                ELSE published'[k].files[m] = published[k].files[m]
           /\ \A m \in DOMAIN pending[k].files :
                IF m = Master /\ pending[k].files[m].made = made
                THEN pending'[k].files[m].state = Torn
                ELSE pending'[k].files[m] = pending[k].files[m]
      /\ \A k \in Keys : \A m :
           ValidFile(pending'[k].files, pending'[k].checkpoint, m) =>
             /\ ValidFile(pending[k].files, pending[k].checkpoint, m)
             /\ pending'[k].files[m].stamp = pending[k].files[m].stamp
      /\ \A k \in Keys : Lacks(published[k]) => Lacks(published'[k])
      /\ \A k \in Keys : Resolves(k)' => Resolves(k)
  BY <1>1, <1>2, <1>3, Worn
<1>6. RestOK' /\ OneSource'
  BY <1>0, <1>1, <1>4, <1>5, ContentsOnly DEF RestOK, Reaches
<1>7. Stage' = pending'[Key] /\ Stage = pending[Key]
  BY <1>4 DEF Stage
<1>8. Fresh'
  BY <1>0, <1>1, <1>4, <1>5 DEF Fresh, Fetching, Under, IInv, AttemptInv
<1>9. Recorded'
  <2>1. ASSUME NEW n \in DOMAIN attempt.records
        PROVE  /\ n \in DOMAIN Stage'.files /\ Stage'.files[n].state # Torn
               /\ Resumable(n)' => Follows(attempt.records[n], Stage', n)
    <3>1. n # Master
      BY <1>1 DEF IInv, AttemptInv, Accounted
    <3>2. /\ n \in DOMAIN Stage.files /\ Stage.files[n].state # Torn
          /\ Resumable(n) => Follows(attempt.records[n], Stage, n)
      BY <1>1 DEF IInv, AttemptInv, Recorded, Collecting, Fetching
    <3>3. n \in DOMAIN Stage'.files /\ Stage'.files[n] = Stage.files[n]
      BY <1>0, <1>5, <1>7, <3>1, <3>2
    <3>4. Stage'.checkpoint = Stage.checkpoint
      BY <1>0, <1>5, <1>7
    <3>5. Resumable(n)' => Resumable(n)
      BY <1>0, <1>4, <1>5 DEF Resumable, Key
    <3> QED BY <3>2, <3>3, <3>4, <3>5 DEF Follows
  <2> QED BY <1>4, <2>1 DEF Recorded
<1>10. ImagesWhole'
  <2>1. Master \notin Images
    BY ProvisionAssumption
  <2>2. ASSUME NEW n \in Images \cap DOMAIN Stage'.files
        PROVE  /\ n \in DOMAIN Stage.files /\ Stage'.files[n].state = Stage.files[n].state
               /\ Stage'.files[n].made = Stage.files[n].made
    BY <1>0, <1>5, <1>7, <2>1 DEF Under
  <2> QED BY <1>1, <2>2 DEF ImagesWhole, Fetching, IInv, AttemptInv
<1>11. Accounted'
  BY <1>1, <1>4 DEF Accounted, IInv, AttemptInv
<1>12. Extracting'
  <2>1. Master \in DOMAIN Stage'.files /\ Stage'.files[Master].made = made
    BY <1>0, <1>5, <1>7 DEF Under, made
  <2> QED BY <1>5, <2>1 DEF Extracting, Shares, Under
<1>13. Spared'
  BY <1>4 DEF Spared
<1>14. Unlinked'
  <2>1. SUFFICES ASSUME active # None, Links(published'[active].files, pending'[active].files)
                 PROVE  Lacks(published'[active])
    BY <1>1, <1>4 DEF Unlinked
  <2>2. active \in Keys
    BY <1>0, <2>1
  <2>3. Links(published[active].files, pending[active].files)
    BY <1>5, <2>1, <2>2 DEF Links, Under
  <2> QED BY <1>5, <2>1, <2>2, <2>3 DEF Unlinked, IInv, AttemptInv
<1>15. Unresolved'
  <2>1. ~Resolves(Key)
    BY <1>1 DEF IInv, AttemptInv, Unresolved
  <2>2. ~Resolves(Key)'
    BY <1>0, <1>4, <1>5, <2>1
  <2> QED BY <1>4, <2>2 DEF Unresolved
<1> QED BY <1>4, <1>5, <1>6, <1>8, <1>9, <1>10, <1>11, <1>12, <1>13, <1>14, <1>15
        DEF IInv, StoreInv, AttemptInv

\* A file that the importer makes.
LEMMA MadeIs ==
  ASSUME NEW n \in Names, NEW state \in Nat, imports \in Nat, Key \in Keys
  PROVE  /\ Made(n, state) \in FileType
         /\ Made(n, state).id = Profile[Key][n] /\ Made(n, state).state = state
         /\ Made(n, state).made = imports /\ Mark(Made(n, state)) = state
<1>1. Profile[Key][n] \in Identities
  BY ProfileIn
<1> QED BY <1>1 DEF Made, Identity, FileType, StampType, Stamp, Mark

LEMMA ExtractCreates ==
  ASSUME IInv, ExtractMaster, Master \notin DOMAIN Stage.files
  PROVE  IInv'
<1> DEFINE x == Made(Master, Torn)
           s == [files |-> Put(pending[Key].files, Master, x), checkpoint |-> pending[Key].checkpoint]
<1>0. /\ RestOK /\ PublishedOK /\ PendingOK /\ AttemptOK /\ OneSource /\ Key \in Keys
      /\ active \in Keys \cup {None} /\ None \notin Keys /\ imports \in Nat
  BY PanelIs DEF IInv, StoreInv, RestOK
<1>1. /\ attempt.step = "master" /\ Reaches("extracting")
      /\ UNCHANGED <<published, active, imports, faults, changes>>
      /\ pending' = [pending EXCEPT ![Key].files = Put(@, Master, x)]
  BY DEF ExtractMaster, Bounds
<1>2. Later
  BY <1>0, <1>1, LaterNow
<1>3. /\ x \in FileType /\ x.id = Profile[Key][Master] /\ x.state = Torn /\ x.made = imports
      /\ x.state < 2 + faults /\ Mark(x) = Torn
  BY <1>0, NamesIs, MadeIs, Contents DEF RestOK
<1> HIDE DEF x
<1>4. Staged(Key, pending[Key], imports, 2 + faults)
  BY <1>0 DEF PendingOK
<1>5. pending' = [pending EXCEPT ![Key] = s]
  <2>1. [pending[Key] EXCEPT !.files = Put(pending[Key].files, Master, x)] = s
    BY <1>4 DEF Staged
  <2> QED BY <1>1, <2>1
<1>6. Staged(Key, s, imports, 2 + faults)
  <2>1. FilesOK(Key, Put(pending[Key].files, Master, x), imports, 2 + faults)
    BY <1>0, <1>3, <1>4, NamesIs, FilesPut DEF Staged
  <2> QED BY <1>4, <2>1 DEF Staged
<1>7. /\ PendingOK' /\ PublishedOK'
  BY <1>0, <1>1, <1>2, <1>5, <1>6, PendingOne, PublishedSame
<1>8. /\ \A k \in Keys \ {Key} : pending'[k] = pending[k]
      /\ pending'[Key].files = Put(pending[Key].files, Master, x)
      /\ pending'[Key].checkpoint = pending[Key].checkpoint
  BY <1>0, <1>5 DEF PendingOK
<1>9. /\ DOMAIN pending'[Key].files = DOMAIN pending[Key].files \cup {Master}
      /\ pending'[Key].files[Master] = x
      /\ \A m \in DOMAIN pending[Key].files : m # Master =>
           pending'[Key].files[m] = pending[Key].files[m]
  BY <1>4, <1>8 DEF Put, Staged, FilesOK, Partial
<1>10. /\ AttemptOK' /\ Key' = Key
       /\ attempt' = [step |-> "extracting", records |-> attempt.records,
                      todo |-> attempt.todo, aside |-> attempt.aside]
  BY <1>0, <1>1, <1>2, AttemptStepped DEF Steps
<1>11. Fresh /\ Fetching
  BY <1>1 DEF IInv, AttemptInv, Fetching
<1>12. RestOK'
  BY <1>0, <1>1 DEF RestOK, Reaches
<1>13. OneSource'
  <2>1. \A id \in Identities : OnDisk(Master, x.made, id) => id = x.id
    BY <1>3, <1>11, NamesIs, MadeNow DEF IInv
  <2>2. \A k \in Keys : pending'[k].files = IF k = Key THEN Put(pending[k].files, Master, x)
                                            ELSE pending[k].files
    BY <1>8
  <2>3. attempt'.aside = attempt.aside
    BY <1>10
  <2> QED BY <1>0, <1>1, <1>3, <2>1, <2>2, <2>3, NamesIs, OneSourcePut
<1>14. Stage' = pending'[Key] /\ Stage = pending[Key]
  BY <1>10 DEF Stage
<1>15. Fresh'
  BY <1>1, <1>8, <1>10, <1>11 DEF Fresh
<1>16. Recorded'
  <2>1. ASSUME NEW n \in DOMAIN attempt.records
        PROVE  /\ n \in DOMAIN Stage'.files /\ Stage'.files[n].state # Torn
               /\ Resumable(n)' => Follows(attempt.records[n], Stage', n)
    <3>1. n # Master
      BY <1>1 DEF IInv, AttemptInv, Accounted
    <3>2. /\ n \in DOMAIN Stage.files /\ Stage.files[n].state # Torn
          /\ Resumable(n) => Follows(attempt.records[n], Stage, n)
      BY <1>1 DEF IInv, AttemptInv, Recorded, Collecting, Fetching
    <3>3. n \in DOMAIN Stage'.files /\ Stage'.files[n] = Stage.files[n]
      BY <1>9, <1>14, <3>1, <3>2
    <3>4. Resumable(n)' => Resumable(n)
      BY <1>8, <1>10, <1>14, <3>2, <3>3 DEF Resumable, ValidFile, Key, Stage
    <3> QED BY <1>8, <1>14, <3>2, <3>3, <3>4 DEF Follows
  <2> QED BY <1>10, <2>1 DEF Recorded
<1>17. ImagesWhole'
  <2>1. Master \notin Images
    BY ProvisionAssumption
  <2>2. ASSUME NEW n \in Images \cap DOMAIN Stage'.files
        PROVE  n \in DOMAIN Stage.files /\ Stage'.files[n] = Stage.files[n]
    BY <1>9, <1>14, <2>1
  <2> QED BY <1>1, <1>11, <2>2 DEF ImagesWhole, IInv, AttemptInv
<1>18. Accounted'
  BY <1>1, <1>10 DEF Accounted, IInv, AttemptInv
<1>19. Extracting'
  <2>1. Master \in DOMAIN Stage'.files /\ Stage'.files[Master].made = imports
        /\ Stage'.files[Master].state = Torn
    BY <1>3, <1>9, <1>14
  <2>2. ASSUME NEW k \in Keys, Master \in DOMAIN published[k].files
        PROVE  published[k].files[Master].made # imports
    <3>1. published[k].files[Master].made < imports /\ published[k].files[Master].made \in Nat
      BY <1>0, <1>11, <2>2, Read DEF Fresh, PublishedOK, Published
    <3> QED BY <1>0, <3>1
  <2>3. ASSUME NEW k \in Keys, k # Key, Master \in DOMAIN pending[k].files
        PROVE  pending[k].files[Master].made # imports
    <3>1. pending[k].files[Master].made < imports /\ pending[k].files[Master].made \in Nat
      BY <1>0, <1>11, <2>3, Read DEF Fresh, PendingOK, Staged
    <3> QED BY <1>0, <3>1
  <2> QED BY <1>1, <1>8, <1>14, <2>1, <2>2, <2>3 DEF Extracting, Shares
<1>20. Spared'
  BY <1>10 DEF Spared
<1>21. Unlinked'
  <2>1. SUFFICES ASSUME active # None, Links(published[active].files, pending'[active].files)
                 PROVE  Lacks(published[active])
    BY <1>1, <1>10 DEF Unlinked
  <2>2. active \in Keys
    BY <1>0, <2>1
  <2>3. active # Key
    <3>1. SUFFICES ASSUME active = Key PROVE FALSE
      OBVIOUS
    <3>2. Master \in DOMAIN published[Key].files /\ published[Key].files[Master].made = imports
      BY <1>3, <1>9, <2>1, <3>1 DEF Links
    <3>3. published[Key].files[Master].made < imports
      BY <1>0, <1>11, <3>2 DEF Fresh
    <3> QED BY <1>0, <3>2, <3>3
  <2>4. Links(published[active].files, pending[active].files)
    BY <1>8, <2>1, <2>2, <2>3
  <2> QED BY <2>1, <2>4 DEF Unlinked, IInv, AttemptInv
<1>22. Unresolved'
  <2>1. ~Resolves(Key)
    BY <1>1 DEF IInv, AttemptInv, Unresolved
  <2>2. ~Resolves(Key)'
    BY <1>1, <1>10, <2>1 DEF Resolves
  <2> QED BY <1>10, <2>2 DEF Unresolved
<1> QED BY <1>7, <1>10, <1>12, <1>13, <1>15, <1>16, <1>17, <1>18, <1>19, <1>20, <1>21, <1>22
        DEF IInv, StoreInv, AttemptInv

LEMMA ExtractMasterStep == IInv /\ ExtractMaster => IInv'
BY ExtractOverwrites, ExtractCreates

\* The master data is whole, in every directory that has it by this link.
LEMMA MasterExtractedStep == IInv /\ MasterExtracted => IInv'
<1> SUFFICES ASSUME IInv, MasterExtracted PROVE IInv'
  OBVIOUS
<1> DEFINE made == Stage.files[Master].made
           x == [id |-> Profile[Key][Master], state |-> Whole, stamp |-> Stamp(Whole)]
           records == Put(attempt.records, Master, x)
           todo == attempt.todo \ {Master}
           saved(k) == IF k = Key THEN records ELSE pending[k].checkpoint
<1>0. /\ RestOK /\ PublishedOK /\ PendingOK /\ AttemptOK /\ OneSource /\ Key \in Keys
      /\ active \in Keys \cup {None} /\ None \notin Keys /\ imports \in Nat
  BY PanelIs DEF IInv, StoreInv, RestOK
<1>1. /\ attempt.step = "extracting"
      /\ attempt' = [attempt EXCEPT !.records = records, !.todo = todo, !.step = JobAfter(todo)]
      /\ published' = [k \in Keys |->
           [published[k] EXCEPT !.files = Changed(@, Master, made, Whole, "seen")]]
      /\ pending' = [k \in Keys |->
           [pending[k] EXCEPT !.files = Changed(@, Master, made, Whole, "seen"),
                              !.checkpoint = IF k = Key THEN records ELSE @]]
      /\ UNCHANGED <<active, panel, imports, faults, changes>>
  BY DEF MasterExtracted, Identity, Bounds
<1>2. Later /\ Key' = Key
  BY <1>0, <1>1, LaterNow DEF Key
<1>3. /\ x \in RecordType /\ x.id = Profile[Key][Master] /\ x.state = Whole
      /\ x.state # Torn /\ x.state < 2 + faults /\ Whole \in Nat
      /\ Mark(x) # Torn /\ Mark(x) < 2 + faults
  <2>1. Profile[Key][Master] \in Identities /\ Stamp(Whole) \in StampType /\ Mark(x) = Whole
    BY <1>0, Contents, ProfileIn, NamesIs DEF Stamp, StampType, Mark
  <2> QED BY <1>0, <2>1, Contents DEF RecordType, RestOK
<1> HIDE DEF x
<1>4. RecordsOK(Key, attempt.records, 2 + faults) /\ attempt.todo \subseteq Names
  BY <1>0 DEF AttemptOK
<1>5. /\ RecordsOK(Key, records, 2 + faults)
      /\ DOMAIN records = DOMAIN attempt.records \cup {Master}
      /\ records[Master] = x
      /\ \A m \in DOMAIN attempt.records : m # Master => records[m] = attempt.records[m]
  <2>1. RecordsOK(Key, records, 2 + faults)
    BY <1>3, <1>4, NamesIs, RecordsPut
  <2> QED BY <1>4, <2>1 DEF Put, RecordsOK, Partial
<1> HIDE DEF records, made
<1>6. ASSUME NEW k \in Keys
      PROVE  /\ Published(k, published[k], imports, 2 + faults)
             /\ Staged(k, pending[k], imports, 2 + faults)
             /\ FilesOK(k, published[k].files, imports, 2 + faults)
             /\ FilesOK(k, pending[k].files, imports, 2 + faults)
             /\ Partial(published[k].files, FileType) /\ Partial(pending[k].files, FileType)
  BY <1>0 DEF PublishedOK, PendingOK, Published, Staged, FilesOK
<1>7. ASSUME NEW k \in Keys
      PROVE  /\ published'[k] = [files |-> Changed(published[k].files, Master, made, Whole, "seen"),
                                 receipt |-> published[k].receipt]
             /\ pending'[k] = [files |-> Changed(pending[k].files, Master, made, Whole, "seen"),
                               checkpoint |-> saved(k)]
  <2>1. /\ published[k] = [files |-> published[k].files, receipt |-> published[k].receipt]
        /\ pending[k] = [files |-> pending[k].files, checkpoint |-> pending[k].checkpoint]
    BY <1>6 DEF Published, Staged
  <2>2. /\ published'[k] = [published[k] EXCEPT !.files = Changed(@, Master, made, Whole, "seen")]
        /\ pending'[k] = [pending[k] EXCEPT !.files = Changed(@, Master, made, Whole, "seen"),
                                            !.checkpoint = IF k = Key THEN records ELSE @]
    BY <1>1
  <2> QED BY <2>1, <2>2
<1>8. ASSUME NEW k \in Keys
      PROVE  /\ published'[k].files = Changed(published[k].files, Master, made, Whole, "seen")
             /\ published'[k].receipt = published[k].receipt
             /\ pending'[k].files = Changed(pending[k].files, Master, made, Whole, "seen")
             /\ pending'[k].checkpoint = IF k = Key THEN records ELSE pending[k].checkpoint
             /\ Published(k, published'[k], imports, 2 + faults)
             /\ Staged(k, pending'[k], imports, 2 + faults)
  <2> DEFINE f == Changed(published[k].files, Master, made, Whole, "seen")
             g == Changed(pending[k].files, Master, made, Whole, "seen")
             r == saved(k)
  <2>1. /\ published'[k] = [files |-> f, receipt |-> published[k].receipt]
        /\ pending'[k] = [files |-> g, checkpoint |-> r]
    BY <1>7
  <2>2. FilesOK(k, f, imports, 2 + faults) /\ FilesOK(k, g, imports, 2 + faults)
    BY <1>0, <1>3, <1>6, FilesChanged
  <2>3. RecordsOK(k, r, 2 + faults)
    BY <1>5, <1>6 DEF Staged
  <2>4. r = IF k = Key THEN records ELSE pending[k].checkpoint
    OBVIOUS
  <2> HIDE DEF f, g, r
  <2>5. /\ published'[k].files = f /\ published'[k].receipt = published[k].receipt
        /\ published'[k] = [files |-> published'[k].files, receipt |-> published'[k].receipt]
    BY <2>1
  <2>6. /\ pending'[k].files = g /\ pending'[k].checkpoint = r
        /\ pending'[k] = [files |-> pending'[k].files, checkpoint |-> pending'[k].checkpoint]
    BY <2>1
  <2>7. Published(k, published'[k], imports, 2 + faults)
    BY <1>6, <2>2, <2>5 DEF Published
  <2>8. Staged(k, pending'[k], imports, 2 + faults)
    BY <2>2, <2>3, <2>6 DEF Staged
  <2> QED BY <2>4, <2>5, <2>6, <2>7, <2>8 DEF f, g
<1> HIDE DEF saved
<1>9. PublishedOK' /\ PendingOK'
  <2>1. published' = [k \in Keys |-> published'[k]] /\ pending' = [k \in Keys |-> pending'[k]]
    BY <1>1
  <2> QED BY <1>1, <1>8, <2>1 DEF PublishedOK, PendingOK
<1>10. ASSUME NEW k \in Keys
       PROVE  /\ Under(published'[k].files, published[k].files)
              /\ DOMAIN published'[k].files = DOMAIN published[k].files
              /\ \A m \in DOMAIN published[k].files :
                   IF m = Master /\ published[k].files[m].made = made
                   THEN published'[k].files[m].state = Whole
                   ELSE published'[k].files[m] = published[k].files[m]
  BY <1>0, <1>3, <1>6, <1>8, ChangedIs, ChangedUnder
<1>11. ASSUME NEW k \in Keys
       PROVE  /\ Under(pending'[k].files, pending[k].files)
              /\ DOMAIN pending'[k].files = DOMAIN pending[k].files
              /\ \A m \in DOMAIN pending[k].files :
                   IF m = Master /\ pending[k].files[m].made = made
                   THEN pending'[k].files[m].state = Whole
                   ELSE pending'[k].files[m] = pending[k].files[m]
  BY <1>0, <1>3, <1>6, <1>8, ChangedIs, ChangedUnder
<1>12. /\ AttemptOK'
       /\ attempt' = [step |-> JobAfter(todo), records |-> records,
                      todo |-> todo, aside |-> attempt.aside]
  <2>1. JobAfter(todo) \in Steps /\ todo \subseteq Names /\ RecordsOK(Key, records, 2 + faults')
    BY <1>1, <1>4, <1>5 DEF JobAfter, Steps
  <2> QED BY <1>0, <1>1, <1>2, <2>1, AttemptMoves
<1>13. JobAfter(todo) = (IF todo # {} THEN "images" ELSE "validate")
  BY DEF JobAfter
<1>14. RestOK' /\ OneSource'
  BY <1>0, <1>1, <1>10, <1>11, <1>12, ContentsOnly DEF RestOK
<1>15. Stage' = pending'[Key] /\ Stage = pending[Key]
  BY <1>2 DEF Stage
<1>16. Fresh'
  <2>1. Fresh /\ Fetching
    BY <1>1 DEF IInv, AttemptInv, Fetching
  <2>2. ASSUME NEW k \in Keys, NEW n \in DOMAIN published'[k].files
        PROVE  published'[k].files[n].made < imports
    BY <1>10, <2>1, <2>2 DEF Fresh, Under
  <2>3. ASSUME NEW k \in Keys \ {Key}, NEW n \in DOMAIN pending'[k].files
        PROVE  pending'[k].files[n].made < imports
    BY <1>11, <2>1, <2>3 DEF Fresh, Under
  <2>4. ASSUME NEW n \in DOMAIN attempt'.aside.files
        PROVE  attempt'.aside.files[n].made < imports
    BY <1>12, <2>1, <2>4 DEF Fresh
  <2> QED BY <1>1, <1>2, <2>2, <2>3, <2>4 DEF Fresh
<1>17. Recorded'
  <2>1. ASSUME NEW n \in DOMAIN records, n # Master
        PROVE  n \in DOMAIN Stage'.files /\ Stage'.files[n].state # Torn
    <3>1. n \in DOMAIN Stage.files /\ Stage.files[n].state # Torn
      BY <1>1, <1>5, <2>1 DEF IInv, AttemptInv, Recorded, Collecting, Fetching
    <3> QED BY <1>0, <1>11, <1>15, <2>1, <3>1
  <2>2. Master \in DOMAIN Stage'.files /\ Stage'.files[Master].state # Torn
    <3>1. Master \in DOMAIN Stage.files
      BY <1>1 DEF IInv, AttemptInv, Extracting
    <3> QED BY <1>0, <1>3, <1>11, <1>15, <3>1 DEF made
  <2>3. Stage'.checkpoint = records
    BY <1>0, <1>8, <1>15
  <2> QED BY <1>12, <2>1, <2>2, <2>3 DEF Recorded, Follows
<1>18. ImagesWhole'
  <2>1. Master \notin Images
    BY ProvisionAssumption
  <2>2. ASSUME NEW n \in Images \cap DOMAIN Stage'.files
        PROVE  /\ n \in DOMAIN Stage.files /\ Stage'.files[n].state = Stage.files[n].state
               /\ Stage'.files[n].made = Stage.files[n].made
    BY <1>0, <1>11, <1>15, <2>1 DEF Under
  <2> QED BY <1>1, <2>2 DEF ImagesWhole, Fetching, IInv, AttemptInv
<1>19. Accounted'
  <2>1. /\ DOMAIN attempt.records \cap attempt.todo = {}
        /\ DOMAIN attempt.records \cup attempt.todo = Names /\ Master \in attempt.todo
    BY <1>1 DEF IInv, AttemptInv, Accounted
  <2>2. DOMAIN records \cup todo = Names /\ DOMAIN records \cap todo = {}
    BY <1>5, <2>1
  <2> QED BY <1>12, <1>13, <2>2 DEF Accounted
<1>20. Extracting' /\ Spared'
  BY <1>12, <1>13 DEF Extracting, Spared
<1>21. ASSUME NEW k \in Keys, NEW n \in Images,
              ValidFile(published'[k].files, published'[k].receipt, n)
       PROVE  ValidFile(published[k].files, published[k].receipt, n)
  <2>1. n # Master /\ n \in DOMAIN published[k].files
    BY <1>10, <1>21, ProvisionAssumption DEF ValidFile
  <2>2. published'[k].files[n] = published[k].files[n]
    BY <1>10, <2>1
  <2> QED BY <1>8, <1>21, <2>1, <2>2 DEF ValidFile
<1>22. ASSUME NEW k \in Keys, Lacks(published[k])
       PROVE  Lacks(published'[k])
  BY <1>8, <1>21, <1>22 DEF Lacks
<1>23. ASSUME NEW k \in Keys, Links(published'[k].files, pending'[k].files)
       PROVE  Links(published[k].files, pending[k].files)
  BY <1>10, <1>11, <1>23 DEF Links, Under
<1>24. Unlinked'
  <2>1. SUFFICES ASSUME active # None, Links(published'[active].files, pending'[active].files)
                 PROVE  Lacks(published'[active])
    BY <1>1, <1>12, <1>13 DEF Unlinked
  <2> QED BY <1>0, <1>22, <1>23, <2>1 DEF Unlinked, IInv, AttemptInv
<1>25. Unresolved'
  <2>1. ~Resolves(Key)
    BY <1>1 DEF IInv, AttemptInv, Unresolved
  <2>2. SUFFICES ASSUME Resolves(Key)'
                 PROVE  Key # active /\ Shares(Key)'
    BY <1>1, <1>2, <1>12, <1>13 DEF Unresolved, Key
  <2>3. published'[Key].receipt # Empty /\
        \A n \in DOMAIN published'[Key].receipt :
          ValidFile(published'[Key].files, published'[Key].receipt, n)
    BY <1>2, <2>2 DEF Resolves
  <2>4. PICK n \in DOMAIN published[Key].receipt :
          ~ValidFile(published[Key].files, published[Key].receipt, n)
    BY <1>0, <1>8, <2>1, <2>3 DEF Resolves
  <2>5. ValidFile(published'[Key].files, published'[Key].receipt, n)
    BY <1>0, <1>8, <2>3, <2>4
  <2>6. /\ n \in DOMAIN published[Key].files
        /\ published'[Key].files[n].id = published[Key].files[n].id
    BY <1>0, <1>10, <2>5 DEF ValidFile, Under
  <2>7. n = Master /\ published[Key].files[Master].made = made
    <3>1. published'[Key].files[n] # published[Key].files[n]
      BY <1>0, <1>8, <2>4, <2>5, <2>6 DEF ValidFile
    <3> QED BY <1>0, <1>10, <2>6, <3>1
  <2>8. Master \in DOMAIN Stage.files
    BY <1>1 DEF IInv, AttemptInv, Extracting
  <2>9. Links(published[Key].files, pending[Key].files)
    BY <1>15, <2>6, <2>7, <2>8 DEF Links, made
  <2>10. Shares(Key)'
    BY <1>0, <1>2, <1>10, <1>11, <1>15, <2>9 DEF Links, Shares, Under
  <2>11. Key # active
    <3>1. SUFFICES ASSUME Key = active PROVE FALSE
      OBVIOUS
    <3>2. Lacks(published[Key])
      BY <1>0, <2>9, <3>1 DEF Unlinked, IInv, AttemptInv
    <3>3. Lacks(published'[Key])
      BY <1>0, <1>22, <3>2
    <3>4. PICK m \in Images : ~ValidFile(published'[Key].files, published'[Key].receipt, m)
      BY <2>3, <3>3 DEF Lacks
    <3>5. DOMAIN published'[Key].receipt = Names
      BY <1>0, <1>8, <2>3 DEF Published
    <3> QED BY <2>3, <3>4, <3>5, NamesIs
  <2> QED BY <2>10, <2>11
<1> QED BY <1>9, <1>12, <1>14, <1>16, <1>17, <1>18, <1>19, <1>20, <1>24, <1>25
        DEF IInv, StoreInv, AttemptInv

----------------------------------------------------------------------------
(* The images.                                                             *)

LEMMA WriteImageStep == IInv /\ (\E n \in Names : WriteImage(n)) => IInv'
<1> SUFFICES ASSUME IInv, NEW n \in Names, WriteImage(n) PROVE IInv'
  OBVIOUS
<1> DEFINE x == Made(n, Whole)
           s == [files |-> Put(pending[Key].files, n, x), checkpoint |-> pending[Key].checkpoint]
<1>0. /\ RestOK /\ PublishedOK /\ PendingOK /\ AttemptOK /\ OneSource /\ Key \in Keys
      /\ active \in Keys \cup {None} /\ None \notin Keys /\ imports \in Nat
  BY PanelIs DEF IInv, StoreInv, RestOK
<1>1. /\ attempt.step = "images" /\ n \in attempt.todo /\ ~Written(n)
      /\ UNCHANGED <<published, active, panel, attempt, imports, faults, changes>>
      /\ pending' = [pending EXCEPT ![Key].files = Put(@, n, x)]
  BY DEF WriteImage, Bounds
<1>2. Later /\ Key' = Key
  BY <1>0, <1>1, LaterNow DEF Key
<1>3. /\ x \in FileType /\ x.id = Profile[Key][n] /\ x.state = Whole /\ x.made = imports
      /\ x.state < 2 + faults /\ x.state # Torn /\ Mark(x) = Whole
  BY <1>0, MadeIs, Contents DEF RestOK
<1> HIDE DEF x
<1>4. Staged(Key, pending[Key], imports, 2 + faults)
  BY <1>0 DEF PendingOK
<1>5. pending' = [pending EXCEPT ![Key] = s]
  <2>1. [pending[Key] EXCEPT !.files = Put(pending[Key].files, n, x)] = s
    BY <1>4 DEF Staged
  <2> QED BY <1>1, <2>1
<1>6. Staged(Key, s, imports, 2 + faults)
  <2>1. FilesOK(Key, Put(pending[Key].files, n, x), imports, 2 + faults)
    BY <1>0, <1>3, <1>4, Contents, FilesPut DEF Staged
  <2> QED BY <1>4, <2>1 DEF Staged
<1>7. /\ PendingOK' /\ PublishedOK'
  BY <1>0, <1>1, <1>2, <1>5, <1>6, PendingOne, PublishedSame
<1>8. /\ \A k \in Keys \ {Key} : pending'[k] = pending[k]
      /\ pending'[Key].files = Put(pending[Key].files, n, x)
      /\ pending'[Key].checkpoint = pending[Key].checkpoint
  BY <1>0, <1>5 DEF PendingOK
<1>9. /\ DOMAIN pending'[Key].files = DOMAIN pending[Key].files \cup {n}
      /\ pending'[Key].files[n] = x
      /\ \A m \in DOMAIN pending[Key].files : m # n =>
           pending'[Key].files[m] = pending[Key].files[m]
  BY <1>4, <1>8 DEF Put, Staged, FilesOK, Partial
<1>10. AttemptOK' /\ RestOK'
  BY <1>0, <1>1, <1>2 DEF RestOK, AttemptOK
<1>11. Fresh /\ Fetching
  BY <1>1 DEF IInv, AttemptInv, Fetching
<1>12. OneSource'
  <2>1. \A id \in Identities : OnDisk(n, x.made, id) => id = x.id
    BY <1>3, <1>11, MadeNow DEF IInv
  <2>2. \A k \in Keys : pending'[k].files = IF k = Key THEN Put(pending[k].files, n, x)
                                            ELSE pending[k].files
    BY <1>8
  <2> QED BY <1>0, <1>1, <1>3, <2>1, <2>2, OneSourcePut
<1>13. Stage' = pending'[Key] /\ Stage = pending[Key]
  BY <1>2 DEF Stage
<1>14. n # Master /\ n \notin DOMAIN attempt.records
  BY <1>1 DEF IInv, AttemptInv, Accounted
<1>15. Fresh'
  BY <1>1, <1>2, <1>8, <1>11 DEF Fresh
<1>16. Recorded'
  <2>1. ASSUME NEW m \in DOMAIN attempt.records
        PROVE  /\ m \in DOMAIN Stage'.files /\ Stage'.files[m].state # Torn
               /\ Resumable(m)' => Follows(attempt.records[m], Stage', m)
    <3>1. m # n
      BY <1>14
    <3>2. /\ m \in DOMAIN Stage.files /\ Stage.files[m].state # Torn
          /\ Resumable(m) => Follows(attempt.records[m], Stage, m)
      BY <1>1 DEF IInv, AttemptInv, Recorded, Collecting, Fetching
    <3>3. m \in DOMAIN Stage'.files /\ Stage'.files[m] = Stage.files[m]
      BY <1>9, <1>13, <3>1, <3>2
    <3>4. Resumable(m)' => Resumable(m)
      BY <1>2, <1>8, <1>13, <3>2, <3>3 DEF Resumable, ValidFile, Key, Stage
    <3> QED BY <1>8, <1>13, <3>2, <3>3, <3>4 DEF Follows
  <2> QED BY <1>1, <2>1 DEF Recorded
<1>17. ImagesWhole'
  <2>1. ASSUME NEW m \in Images \cap DOMAIN Stage'.files, m # n
        PROVE  m \in DOMAIN Stage.files /\ Stage'.files[m] = Stage.files[m]
    BY <1>9, <1>13, <2>1
  <2>2. Stage'.files[n].state # Torn
    BY <1>3, <1>9, <1>13
  <2> QED BY <1>1, <1>11, <2>1, <2>2 DEF ImagesWhole, IInv, AttemptInv
<1>18. Accounted'
  <2>1. ASSUME NEW m \in attempt.todo \cap DOMAIN attempt.records
        PROVE  Written(m)'
    <3>1. m # n /\ Written(m)
      BY <1>1, <1>14 DEF IInv, AttemptInv, Accounted
    <3> QED BY <1>1, <1>9, <1>13, <3>1 DEF Written
  <2> QED BY <1>1, <2>1 DEF Accounted, IInv, AttemptInv
<1>19. Extracting' /\ Spared'
  BY <1>1 DEF Extracting, Spared
<1>20. ASSUME NEW k \in Keys
       PROVE  Links(published'[k].files, pending'[k].files) = Links(published[k].files, pending[k].files)
  BY <1>1, <1>8, <1>9, <1>14 DEF Links
<1>21. Unlinked'
  BY <1>0, <1>1, <1>20 DEF Unlinked, IInv, AttemptInv
<1>22. Unresolved'
  <2>1. Resolves(Key)' => Resolves(Key)
    BY <1>1, <1>2 DEF Resolves
  <2>2. Shares(Key) => Shares(Key)'
    BY <1>1, <1>2, <1>9, <1>13, <1>14 DEF Shares
  <2> QED BY <1>1, <1>2, <2>1, <2>2 DEF Unresolved, IInv, AttemptInv, Key
<1> QED BY <1>7, <1>10, <1>12, <1>15, <1>16, <1>17, <1>18, <1>19, <1>21, <1>22
        DEF IInv, StoreInv, AttemptInv

\* A checkpoint of the records of the attempt.
LEMMA Saved ==
  ASSUME RestOK, PendingOK, Later, NEW records, RecordsOK(Key, records, 2 + faults'),
         pending' = [pending EXCEPT ![Key] = Save(records)]
  PROVE  /\ PendingOK'
         /\ \A k \in Keys : /\ pending'[k].files = pending[k].files
                            /\ pending'[k].checkpoint =
                                 IF k = Key THEN records ELSE pending[k].checkpoint
<1> DEFINE s == [files |-> pending[Key].files, checkpoint |-> records]
<1>1. Key \in Keys
  BY PanelIs
<1>2. Staged(Key, pending[Key], imports', 2 + faults')
  BY <1>1, StagedLater DEF PendingOK, Later
<1>3. Save(records) = s
  BY <1>2 DEF Save, Stage, Staged
<1>4. Staged(Key, s, imports', 2 + faults')
  BY <1>2 DEF Staged
<1>5. PendingOK'
  BY <1>1, <1>3, <1>4, PendingOne
<1> QED BY <1>1, <1>3, <1>5 DEF PendingOK

\* While images are fetched or outputs are collected, records are added and
\* saved, and the files stay.
LEMMA Recording ==
  ASSUME IInv, attempt.step \in {"images", "validate"}, PublishedOK', PendingOK', AttemptOK',
         UNCHANGED <<published, active, panel, imports, faults, changes>>,
         \A k \in Keys : pending'[k].files = pending[k].files,
         NEW s \in {"images", "validate", "swap"}, NEW records,
         attempt.step = "validate" => s = "swap",
         attempt' = [step |-> s, records |-> records,
                     todo |-> attempt.todo, aside |-> attempt.aside],
         Recorded', Accounted'
  PROVE  IInv'
<1>1. /\ Key \in Keys /\ active \in Keys \cup {None} /\ Key' = Key
      /\ attempt'.step = s /\ attempt'.aside = attempt.aside
  BY PanelIs DEF IInv, StoreInv, Key
<1>2. RestOK'
  BY DEF IInv, StoreInv, RestOK
<1>3. OneSource'
  BY <1>1 DEF IInv, StoreInv, OneSource, OnDisk
<1>4. Stage'.files = Stage.files
  BY <1>1 DEF Stage
<1>5. Fresh' /\ ImagesWhole'
  BY <1>1, <1>4 DEF IInv, AttemptInv, Fresh, ImagesWhole, Fetching
<1>6. Extracting' /\ Spared'
  BY <1>1 DEF Extracting, Spared
<1>7. Unlinked'
  BY <1>1 DEF IInv, AttemptInv, Unlinked
<1>8. Unresolved'
  BY <1>1, <1>4 DEF IInv, AttemptInv, Unresolved, Resolves, Shares, Key
<1> QED BY <1>2, <1>3, <1>5, <1>6, <1>7, <1>8 DEF IInv, StoreInv, AttemptInv

LEMMA FileEventStep == IInv /\ (\E n \in Names : FileEvent(n)) => IInv'
<1> SUFFICES ASSUME IInv, NEW n \in Names, FileEvent(n) PROVE IInv'
  OBVIOUS
<1> DEFINE records == Put(attempt.records, n, Record(Stage.files[n]))
<1>0. /\ RestOK /\ PublishedOK /\ PendingOK /\ AttemptOK /\ Key \in Keys
  BY PanelIs DEF IInv, StoreInv
<1>1. /\ attempt.step = "images" /\ n \in attempt.todo /\ n \notin DOMAIN attempt.records
      /\ Written(n)
      /\ UNCHANGED <<published, active, panel, imports, faults, changes>>
      /\ attempt' = [attempt EXCEPT !.records = records]
      /\ pending' = pending \/ pending' = [pending EXCEPT ![Key] = Save(records)]
  BY DEF FileEvent, Bounds
<1>2. Later /\ Key' = Key
  BY <1>0, <1>1, LaterNow DEF Key
<1>3. FilesOK(Key, Stage.files, imports, 2 + faults) /\ Partial(Stage.files, FileType)
  BY <1>0 DEF PendingOK, Staged, Stage, FilesOK
<1>4. n \in Images /\ n \in DOMAIN Stage.files /\ Stage.files[n].made = imports
  BY <1>1, NamesIs DEF IInv, AttemptInv, Accounted, Written
<1>5. Stage.files[n].state # Torn
  BY <1>1, <1>4 DEF IInv, AttemptInv, ImagesWhole, Fetching
<1>6. /\ Record(Stage.files[n]) \in RecordType /\ Record(Stage.files[n]).id = Profile[Key][n]
      /\ Record(Stage.files[n]).state # Torn /\ Record(Stage.files[n]).state < 2 + faults
      /\ Mark(Record(Stage.files[n])) # Torn /\ Mark(Record(Stage.files[n])) < 2 + faults
      /\ Record(Stage.files[n]).stamp = Stage.files[n].stamp
  BY <1>3, <1>4, <1>5, Read, FileFields
<1>7. RecordsOK(Key, attempt.records, 2 + faults)
  BY <1>0 DEF AttemptOK
<1>8. /\ RecordsOK(Key, records, 2 + faults')
      /\ DOMAIN records = DOMAIN attempt.records \cup {n}
      /\ records[n] = Record(Stage.files[n])
      /\ \A m \in DOMAIN attempt.records : m # n => records[m] = attempt.records[m]
  <2>1. RecordsOK(Key, records, 2 + faults)
    BY <1>6, <1>7, RecordsPut
  <2> QED BY <1>1, <1>7, <2>1 DEF Put, RecordsOK, Partial
<1> HIDE DEF records
<1>9. /\ AttemptOK'
      /\ attempt' = [step |-> "images", records |-> records,
                     todo |-> attempt.todo, aside |-> attempt.aside]
  <2>1. attempt' = [attempt EXCEPT !.records = records, !.todo = attempt.todo, !.step = "images"]
    BY <1>0, <1>1 DEF AttemptOK
  <2>2. attempt.todo \subseteq Names /\ "images" \in Steps
    BY <1>0 DEF AttemptOK, Steps
  <2> QED BY <1>0, <1>2, <1>8, <2>1, <2>2, AttemptMoves
<1>10. /\ PendingOK' /\ PublishedOK'
       /\ \A k \in Keys : pending'[k].files = pending[k].files
       /\ pending'[Key].checkpoint = pending[Key].checkpoint \/ pending'[Key].checkpoint = records
  BY <1>0, <1>1, <1>2, <1>8, PublishedSame, PendingSame, Saved
<1>11. Recorded'
  <2>1. Stage'.files = Stage.files
    BY <1>0, <1>2, <1>10 DEF Stage
  <2>2. ASSUME NEW m \in DOMAIN records
        PROVE  m \in DOMAIN Stage.files /\ Stage.files[m].state # Torn
    BY <1>1, <1>4, <1>5, <1>8 DEF IInv, AttemptInv, Recorded, Collecting, Fetching
  <2>3. ASSUME NEW m \in DOMAIN records, Resumable(m)'
        PROVE  Follows(records[m], Stage', m)
    <3>1. ValidFile(Stage.files, pending'[Key].checkpoint, m) /\ Stage' = pending'[Key]
      BY <1>2, <2>1, <2>3 DEF Resumable, Stage, Key
    <3>2. CASE pending'[Key].checkpoint = records
      BY <3>1, <3>2 DEF Follows
    <3>3. CASE pending'[Key].checkpoint = pending[Key].checkpoint /\ m # n
      <4>1. Resumable(m) /\ m \in DOMAIN attempt.records /\ records[m] = attempt.records[m]
        BY <1>8, <3>1, <3>3 DEF Resumable, Stage, Key
      <4>2. Follows(attempt.records[m], Stage, m)
        BY <1>1, <4>1 DEF IInv, AttemptInv, Recorded, Collecting, Fetching
      <4> QED BY <2>1, <3>1, <3>3, <4>1, <4>2 DEF Follows, Stage
    <3>4. CASE m = n
      BY <1>6, <1>8, <2>1, <3>4 DEF Follows
    <3> QED BY <1>10, <3>2, <3>3, <3>4
  <2> QED BY <1>9, <2>1, <2>2, <2>3 DEF Recorded
<1>12. Accounted'
  <2>1. ASSUME NEW m \in attempt.todo \cap DOMAIN records
        PROVE  Written(m)'
    <3>1. Written(m)
      BY <1>1, <1>8 DEF IInv, AttemptInv, Accounted
    <3> QED BY <1>0, <1>1, <1>2, <1>10, <3>1 DEF Written, Stage
  <2>2. DOMAIN records \cup attempt.todo = Names /\ Master \notin attempt.todo
    BY <1>1, <1>8 DEF IInv, AttemptInv, Accounted
  <2> QED BY <1>9, <2>1, <2>2 DEF Accounted
<1> QED BY <1>1, <1>9, <1>10, <1>11, <1>12, Recording

\* A checkpoint of all the records so far, at the end of the images or when
\* the importer fails.
LEMMA SavedNow ==
  ASSUME IInv, Later, pending' = [pending EXCEPT ![Key] = Save(attempt.records)]
  PROVE  /\ PendingOK'
         /\ \A k \in Keys : pending'[k].files = pending[k].files
         /\ pending'[Key].checkpoint = attempt.records
<1>1. RecordsOK(Key, attempt.records, 2 + faults')
  BY RecordsLater DEF IInv, StoreInv, AttemptOK, Later
<1>2. Key \in Keys /\ RestOK /\ PendingOK
  BY PanelIs DEF IInv, StoreInv
<1> QED BY <1>1, <1>2, Saved

LEMMA ImagesEndStep == IInv /\ ImagesEnd => IInv'
<1> SUFFICES ASSUME IInv, ImagesEnd PROVE IInv'
  OBVIOUS
<1>0. /\ RestOK /\ PublishedOK /\ PendingOK /\ AttemptOK /\ Key \in Keys
  BY PanelIs DEF IInv, StoreInv
<1>1. /\ attempt.step = "images" /\ attempt.todo \subseteq DOMAIN attempt.records
      /\ UNCHANGED <<published, active, panel, imports, faults, changes>>
      /\ Reaches("validate") /\ pending' = [pending EXCEPT ![Key] = Save(attempt.records)]
  BY DEF ImagesEnd, Bounds, Reaches
<1>2. Later
  BY <1>0, <1>1, LaterNow
<1>3. /\ AttemptOK' /\ Key' = Key
      /\ attempt' = [step |-> "validate", records |-> attempt.records,
                     todo |-> attempt.todo, aside |-> attempt.aside]
  BY <1>0, <1>1, <1>2, AttemptStepped DEF Steps
<1>4. /\ PendingOK' /\ PublishedOK'
      /\ \A k \in Keys : pending'[k].files = pending[k].files
      /\ pending'[Key].checkpoint = attempt.records
  BY <1>0, <1>1, <1>2, PublishedSame, SavedNow
<1>5. Recorded'
  <2>1. Stage'.files = Stage.files
    BY <1>0, <1>3, <1>4 DEF Stage
  <2>2. ASSUME NEW m \in DOMAIN attempt.records
        PROVE  m \in DOMAIN Stage.files /\ Stage.files[m].state # Torn
    BY <1>1 DEF IInv, AttemptInv, Recorded, Collecting, Fetching
  <2>3. Stage'.checkpoint = attempt.records
    BY <1>3, <1>4 DEF Stage
  <2> QED BY <1>3, <2>1, <2>2, <2>3 DEF Recorded, Follows
<1>6. Accounted'
  BY <1>1, <1>3 DEF IInv, AttemptInv, Accounted
<1> QED BY <1>1, <1>3, <1>4, <1>5, <1>6, Recording

LEMMA ValidateStep == IInv /\ Validate => IInv'
<1> SUFFICES ASSUME IInv, Validate PROVE IInv'
  OBVIOUS
<1> DEFINE record(n) == IF ValidFile(Stage.files, attempt.records, n)
                        THEN attempt.records[n] ELSE Record(Stage.files[n])
           records == [n \in DOMAIN Stage.files |-> record(n)]
<1>0. /\ RestOK /\ PublishedOK /\ PendingOK /\ AttemptOK /\ Key \in Keys
  BY PanelIs DEF IInv, StoreInv
<1>1. /\ attempt.step = "validate" /\ Names \subseteq DOMAIN Stage.files
      /\ UNCHANGED <<published, pending, active, panel, imports, faults, changes>>
      /\ attempt' = [attempt EXCEPT !.step = "swap", !.records = records]
  BY DEF Validate, Disk, Bounds
<1>2. Later /\ Key' = Key
  BY <1>0, <1>1, LaterNow DEF Key
<1>3. FilesOK(Key, Stage.files, imports, 2 + faults) /\ Partial(Stage.files, FileType)
      /\ DOMAIN Stage.files \subseteq Names
  BY <1>0 DEF PendingOK, Staged, Stage, FilesOK, Partial
<1>4. ASSUME NEW n \in DOMAIN Stage.files
      PROVE  /\ record(n) \in RecordType /\ record(n).id = Profile[Key][n]
             /\ record(n).state # Torn /\ record(n).state < 2 + faults
             /\ Mark(record(n)) # Torn /\ Mark(record(n)) < 2 + faults
  <2>1. n \in DOMAIN attempt.records
    BY <1>1, <1>3 DEF IInv, AttemptInv, Accounted
  <2>2. Stage.files[n].state # Torn
    BY <1>1, <2>1 DEF IInv, AttemptInv, Recorded, Collecting
  <2>3. RecordsOK(Key, attempt.records, 2 + faults)
    BY <1>0 DEF AttemptOK
  <2>4. CASE ValidFile(Stage.files, attempt.records, n)
    BY <2>1, <2>3, <2>4, ReadRecord
  <2>5. CASE ~ValidFile(Stage.files, attempt.records, n)
    BY <1>3, <2>2, <2>5, Read, FileFields
  <2> QED BY <2>4, <2>5
<1> HIDE DEF record
<1>5. RecordsOK(Key, records, 2 + faults')
  <2>1. Partial(records, RecordType)
    BY <1>3, <1>4 DEF Partial
  <2> QED BY <1>1, <1>4, <2>1 DEF RecordsOK
<1>6. DOMAIN records = Names /\ DOMAIN Stage.files = Names
  BY <1>1, <1>3
<1> HIDE DEF records
<1>7. /\ AttemptOK'
      /\ attempt' = [step |-> "swap", records |-> records,
                     todo |-> attempt.todo, aside |-> attempt.aside]
  <2>1. attempt' = [attempt EXCEPT !.records = records, !.todo = attempt.todo, !.step = "swap"]
    BY <1>0, <1>1 DEF AttemptOK
  <2>2. attempt.todo \subseteq Names /\ "swap" \in Steps
    BY <1>0 DEF AttemptOK, Steps
  <2> QED BY <1>0, <1>2, <1>5, <2>1, <2>2, AttemptMoves
<1>8. PublishedOK' /\ PendingOK'
  BY <1>0, <1>1, <1>2, PublishedSame, PendingSame
<1>9. Recorded'
  BY <1>7 DEF Recorded, Collecting, Fetching
<1>10. Accounted'
  BY <1>1, <1>2, <1>6, <1>7 DEF Accounted, Stage
<1> QED BY <1>1, <1>7, <1>8, <1>9, <1>10, Recording

LEMMA ImporterFailsStep == IInv /\ ImporterFails => IInv'
<1> SUFFICES ASSUME IInv, ImporterFails PROVE IInv'
  OBVIOUS
<1>0. /\ RestOK /\ PublishedOK /\ PendingOK /\ AttemptOK /\ Key \in Keys
      /\ active \in Keys \cup {None} /\ None \notin Keys
  BY PanelIs DEF IInv, StoreInv
<1>1. /\ UNCHANGED <<published, active, imports, changes>> /\ faults' = faults + 1
      /\ Ends(FALSE) /\ pending' = [pending EXCEPT ![Key] = Save(attempt.records)]
  BY DEF ImporterFails, Fault
<1>2. Later
  BY <1>0, <1>1, LaterNow
<1>3. /\ attempt' = [NoAttempt EXCEPT !.step = "idle"]
      /\ panel' \in [up : BOOLEAN, ready : BOOLEAN, key : Keys] /\ Key' = Key
  BY <1>0, <1>1, EndsIs
<1>4. /\ AttemptOK'
      /\ attempt' = [step |-> "idle", records |-> Empty, todo |-> {}, aside |-> NoGeneration]
  BY <1>3, AttemptReset DEF Steps
<1>5. /\ PublishedOK' /\ PendingOK'
      /\ \A k \in Keys : pending'[k].files = pending[k].files
  BY <1>0, <1>1, <1>2, PublishedSame, SavedNow
<1>6. RestOK'
  BY <1>0, <1>1, <1>2, <1>3 DEF RestOK, Later
<1>7. OneSource'
  <2>1. \A k \in Keys : /\ Under(published'[k].files, published[k].files)
                        /\ Under(pending'[k].files, pending[k].files)
    BY <1>1, <1>5, SameUnder
  <2>2. attempt'.aside.files = Empty
    BY <1>4 DEF NoGeneration
  <2>3. Under(attempt'.aside.files, attempt.aside.files)
    BY <2>2, EmptyUnder
  <2> QED BY <2>1, <2>3, OneSourceKept DEF IInv, StoreInv
<1>8. AttemptInv'
  <2>1. active' # None /\ Links(published'[active].files, pending'[active].files) =>
          Lacks(published'[active])
    BY <1>0, <1>1, <1>5 DEF IInv, AttemptInv, Unlinked
  <2> QED BY <1>1, <1>4, <2>1, Quiet
<1> QED BY <1>4, <1>5, <1>6, <1>7, <1>8 DEF IInv, StoreInv

----------------------------------------------------------------------------
(* Publication and pruning.                                                *)

LEMMA SetAsideStep == IInv /\ SetAside => IInv'
<1> SUFFICES ASSUME IInv, SetAside PROVE IInv'
  OBVIOUS
<1>0. /\ RestOK /\ PublishedOK /\ PendingOK /\ AttemptOK /\ OneSource /\ Key \in Keys
      /\ active \in Keys \cup {None} /\ None \notin Keys
  BY PanelIs DEF IInv, StoreInv
<1>1. /\ attempt.step = "swap"
      /\ attempt' = [attempt EXCEPT !.step = "publish", !.aside = published[Key]]
      /\ published' = [published EXCEPT ![Key] = NoGeneration]
      /\ UNCHANGED <<pending, active, panel, imports, faults, changes>>
  BY DEF SetAside, Bounds
<1>2. Later /\ Key' = Key
  BY <1>0, <1>1, LaterNow DEF Key
<1>3. attempt' = [step |-> "publish", records |-> attempt.records,
                  todo |-> attempt.todo, aside |-> published[Key]]
  BY <1>0, <1>1 DEF AttemptOK
<1>4. AttemptOK'
  <2>1. Published(Key, published[Key], imports, 2 + faults)
    BY <1>0 DEF PublishedOK
  <2>2. "publish" \in Steps
    BY DEF Steps
  <2> QED BY <1>0, <1>1, <1>2, <1>3, <2>1, <2>2 DEF AttemptOK
<1>5. /\ PublishedOK' /\ PendingOK'
  BY <1>0, <1>1, <1>2, NothingOK, PublishedOne, PendingSame
<1>6. /\ \A k \in Keys \ {Key} : published'[k] = published[k]
      /\ published'[Key] = NoGeneration /\ published'[Key].files = Empty
  BY <1>0, <1>1 DEF PublishedOK, NoGeneration
<1>7. RestOK'
  BY <1>0, <1>1 DEF RestOK
<1>8. OneSource'
  <2>1. \A k \in Keys : /\ Under(published'[k].files, published[k].files)
                        /\ Under(pending'[k].files, pending[k].files)
    BY <1>1, <1>6, SameUnder, EmptyUnder
  <2>2. Under(attempt'.aside.files, published[Key].files)
    BY <1>3, SameUnder
  <2> QED BY <1>0, <2>1, <2>2, OneSourceKept
<1>9. Fresh' /\ Recorded' /\ ImagesWhole' /\ Extracting' /\ Spared' /\ Unresolved'
  BY <1>3 DEF Fresh, Recorded, ImagesWhole, Extracting, Spared, Unresolved, Fetching, Collecting
<1>10. Accounted'
  BY <1>1, <1>2, <1>3, <1>6 DEF Accounted, IInv, AttemptInv, Stage
<1>11. Unlinked'
  <2>1. ASSUME active # None, Links(published'[active].files, pending'[active].files)
        PROVE  Lacks(published'[active])
    <3>1. active # Key
      BY <1>6, <2>1, EmptyIs DEF Links
    <3>2. published'[active] = published[active]
      BY <1>0, <1>6, <2>1, <3>1
    <3> QED BY <1>1, <2>1, <3>2 DEF IInv, AttemptInv, Unlinked
  <2>2. ASSUME active = Key, Links(attempt'.aside.files, Stage'.files)
        PROVE  Lacks(attempt'.aside)
    <3>1. Links(published[active].files, pending[active].files)
      BY <1>1, <1>2, <1>3, <2>2 DEF Stage
    <3>2. Lacks(published[active])
      BY <1>0, <2>2, <3>1 DEF IInv, AttemptInv, Unlinked
    <3> QED BY <1>3, <2>2, <3>2
  <2> QED BY <1>1, <1>2, <2>1, <2>2 DEF Unlinked
<1> QED BY <1>4, <1>5, <1>7, <1>8, <1>9, <1>10, <1>11 DEF IInv, StoreInv, AttemptInv

LEMMA PublishStep == IInv /\ Publish => IInv'
<1> SUFFICES ASSUME IInv, Publish PROVE IInv'
  OBVIOUS
<1> DEFINE g == [files |-> pending[Key].files, receipt |-> attempt.records]
<1>0. /\ RestOK /\ PublishedOK /\ PendingOK /\ AttemptOK /\ OneSource /\ Key \in Keys
      /\ active \in Keys \cup {None} /\ None \notin Keys
  BY PanelIs DEF IInv, StoreInv
<1>1. attempt.step = "publish" /\ published[Key] = NoGeneration /\ DOMAIN attempt.records = Names
  BY DEF Publish, IInv, AttemptInv, Accounted
<1>2. /\ published' = [published EXCEPT ![Key] = g]
      /\ pending' = [pending EXCEPT ![Key] = NoStage]
      /\ attempt' = [NoAttempt EXCEPT !.step = "activate"]
      /\ UNCHANGED <<active, panel, imports, faults, changes>>
  BY <1>1 DEF Publish, Stage, Bounds
<1>3. Later
  BY <1>0, <1>2, LaterNow
<1>4. /\ AttemptOK' /\ Key' = Key
      /\ attempt' = [step |-> "activate", records |-> Empty, todo |-> {}, aside |-> NoGeneration]
  BY <1>2, AttemptReset DEF Steps, Key
<1>5. Published(Key, g, imports, 2 + faults)
  BY <1>0, <1>1 DEF PendingOK, Staged, AttemptOK, Published
<1>6. PublishedOK' /\ PendingOK'
  BY <1>0, <1>2, <1>3, <1>5, NothingOK, PublishedOne, PendingOne
<1>7. /\ \A k \in Keys \ {Key} : published'[k] = published[k] /\ pending'[k] = pending[k]
      /\ published'[Key] = g /\ pending'[Key] = NoStage /\ pending'[Key].files = Empty
  BY <1>0, <1>2 DEF PublishedOK, PendingOK, NoStage
<1>8. RestOK'
  BY <1>0, <1>2 DEF RestOK
<1>9. OneSource'
  <2>1. ASSUME NEW k \in Keys
        PROVE  /\ \/ Under(published'[k].files, published[k].files)
                  \/ Under(published'[k].files, pending[k].files)
               /\ Under(pending'[k].files, pending[k].files)
    <3>1. CASE k = Key
      BY <1>7, <3>1, SameUnder, EmptyUnder
    <3>2. CASE k # Key
      BY <1>7, <3>2, SameUnder
    <3> QED BY <3>1, <3>2
  <2>2. Under(attempt'.aside.files, attempt.aside.files)
    <3>1. attempt'.aside.files = Empty
      BY <1>4 DEF NoGeneration
    <3> QED BY <3>1, EmptyUnder
  <2> QED BY <1>0, <2>1, <2>2, OneSourceKept
<1>10. Fresh' /\ Recorded' /\ ImagesWhole' /\ Extracting' /\ Spared' /\ Unresolved'
  BY <1>4 DEF Fresh, Recorded, ImagesWhole, Extracting, Spared, Unresolved, Fetching, Collecting
<1>11. Accounted'
  BY <1>4, <1>7 DEF Accounted, Stage
<1>12. Unlinked'
  <2>1. ASSUME active # None, Links(published'[active].files, pending'[active].files)
        PROVE  Lacks(published'[active])
    <3>1. active # Key
      BY <1>7, <2>1, EmptyIs DEF Links
    <3>2. published'[active] = published[active] /\ pending'[active] = pending[active]
      BY <1>0, <1>7, <2>1, <3>1
    <3> QED BY <2>1, <3>2 DEF IInv, AttemptInv, Unlinked
  <2> QED BY <1>2, <1>4, <2>1 DEF Unlinked
<1> QED BY <1>4, <1>6, <1>8, <1>9, <1>10, <1>11, <1>12 DEF IInv, StoreInv, AttemptInv

LEMMA ActivateStep == IInv /\ Activate => IInv'
<1> SUFFICES ASSUME IInv, Activate PROVE IInv'
  OBVIOUS
<1>0. /\ RestOK /\ PublishedOK /\ PendingOK /\ AttemptOK /\ OneSource /\ Key \in Keys
  BY PanelIs DEF IInv, StoreInv
<1>1. /\ attempt.step = "activate" /\ active' = Key /\ Reaches("resolve")
      /\ UNCHANGED <<published, pending, imports, faults, changes>>
  BY DEF Activate, Bounds
<1>2. Later
  BY <1>0, <1>1, LaterNow
<1>3. /\ AttemptOK' /\ Key' = Key
      /\ attempt' = [step |-> "resolve", records |-> attempt.records,
                     todo |-> attempt.todo, aside |-> attempt.aside]
  BY <1>0, <1>1, <1>2, AttemptStepped DEF Steps
<1>4. PublishedOK' /\ PendingOK'
  BY <1>0, <1>1, <1>2, PublishedSame, PendingSame
<1>5. RestOK'
  BY <1>0, <1>1 DEF RestOK, Reaches
<1>6. OneSource'
  BY <1>0, <1>1, <1>3 DEF OneSource, OnDisk
<1>7. AttemptInv'
  <2>1. pending[Key] = NoStage
    BY <1>1 DEF IInv, AttemptInv, Accounted, Stage
  <2>2. ~Links(published'[active'].files, pending'[active'].files)
    BY <1>1, <2>1, EmptyIs DEF Links, NoStage
  <2> QED BY <1>3, <2>2, Quiet
<1> QED BY <1>3, <1>4, <1>5, <1>6, <1>7 DEF IInv, StoreInv

LEMMA SettleStep == IInv /\ Settle => IInv'
<1> SUFFICES ASSUME IInv, Settle PROVE IInv'
  OBVIOUS
<1>0. /\ RestOK /\ PublishedOK /\ PendingOK /\ AttemptOK /\ OneSource /\ Key \in Keys
  BY PanelIs DEF IInv, StoreInv
<1>1. UNCHANGED <<published, pending, active, imports, faults, changes>>
  BY DEF Settle, Disk, Bounds
<1>2. CASE Ends(FALSE)
  <2>1. /\ attempt' = [NoAttempt EXCEPT !.step = "idle"]
        /\ panel' \in [up : BOOLEAN, ready : BOOLEAN, key : Keys]
    BY <1>0, <1>2, EndsIs
  <2>2. changes \in Nat
    BY <1>0 DEF RestOK
  <2> QED BY <1>1, <2>1, <2>2, Resets DEF Disk
<1>3. CASE Reaches("prune")
  <2>1. Later
    BY <1>0, <1>1, LaterNow
  <2>2. /\ AttemptOK' /\ Key' = Key
        /\ attempt' = [step |-> "prune", records |-> attempt.records,
                       todo |-> attempt.todo, aside |-> attempt.aside]
    BY <1>0, <1>3, <2>1, AttemptStepped DEF Steps
  <2>3. PublishedOK' /\ PendingOK'
    BY <1>0, <1>1, <2>1, PublishedSame, PendingSame
  <2>4. RestOK'
    BY <1>0, <1>1, <1>3 DEF RestOK, Reaches
  <2>5. OneSource'
    BY <1>0, <1>1, <2>2 DEF OneSource, OnDisk
  <2>6. AttemptInv'
    <3>1. active' # None /\ Links(published'[active'].files, pending'[active'].files) =>
            Lacks(published'[active'])
      BY <1>1 DEF IInv, AttemptInv, Unlinked
    <3> QED BY <2>2, <3>1, Quiet
  <2> QED BY <2>2, <2>3, <2>4, <2>5, <2>6 DEF IInv, StoreInv
<1> QED BY <1>2, <1>3 DEF Settle

\* What may be pruned is neither the installed profile's nor the active one.
LEMMA PrunableIs ==
  ASSUME NEW k \in Prunable
  PROVE  /\ k \in Keys /\ k # Key /\ active = Key
         /\ published[k].receipt # Empty /\ published[Key].receipt # Empty
BY DEF Prunable

\* A generation that is not the active one is removed, or part of it.
LEMMA Removed ==
  ASSUME IInv, Later, NEW k \in Keys, k # active, NEW g,
         Published(k, g, imports', 2 + faults'), Under(g.files, published[k].files),
         published' = [published EXCEPT ![k] = g],
         UNCHANGED <<pending, active>>, attempt'.step \in {"idle", "prune"},
         Under(attempt'.aside.files, attempt.aside.files)
  PROVE  PublishedOK' /\ PendingOK' /\ OneSource' /\ AttemptInv'
<1>1. /\ PublishedOK /\ PendingOK /\ OneSource
  BY DEF IInv, StoreInv
<1>2. PublishedOK' /\ PendingOK'
  BY <1>1, PublishedOne, PendingSame
<1>3. \A j \in Keys : published'[j] = IF j = k THEN g ELSE published[j]
  BY <1>1 DEF PublishedOK
<1>4. OneSource'
  <2>1. \A j \in Keys : /\ Under(published'[j].files, published[j].files)
                        /\ Under(pending'[j].files, pending[j].files)
    BY <1>3, SameUnder
  <2> QED BY <1>1, <2>1, OneSourceKept
<1>5. AttemptInv'
  <2>1. ASSUME active # None, Links(published'[active].files, pending'[active].files)
        PROVE  Lacks(published'[active])
    <3>1. active \in Keys
      BY <2>1 DEF IInv, StoreInv, RestOK
    <3>2. published'[active] = published[active]
      BY <1>3, <3>1
    <3> QED BY <2>1, <3>2 DEF IInv, AttemptInv, Unlinked
  <2> QED BY <2>1, Quiet
<1> QED BY <1>2, <1>4, <1>5

LEMMA PruneStep == IInv /\ Prune => IInv'
<1> SUFFICES ASSUME IInv, Prune PROVE IInv'
  OBVIOUS
<1>0. /\ RestOK /\ PublishedOK /\ PendingOK /\ AttemptOK /\ OneSource /\ Key \in Keys
  BY PanelIs DEF IInv, StoreInv
<1>1. /\ attempt.step = "prune" /\ UNCHANGED <<pending, active, imports, faults, changes>>
  BY DEF Prune, Bounds
<1>2. CASE Prunable = {}
  <2>1. Ends(TRUE) /\ published' = published
    BY <1>2 DEF Prune
  <2>2. /\ attempt' = [NoAttempt EXCEPT !.step = "idle"]
        /\ panel' \in [up : BOOLEAN, ready : BOOLEAN, key : Keys]
    BY <1>0, <2>1, EndsIs
  <2>3. changes \in Nat
    BY <1>0 DEF RestOK
  <2> QED BY <1>1, <2>1, <2>2, <2>3, Resets DEF Disk
<1>3. CASE Prunable # {}
  <2>1. PICK k \in Prunable : published' = [published EXCEPT ![k] = NoGeneration]
    BY <1>3 DEF Prune
  <2>2. attempt' = attempt /\ panel' = panel
    BY <1>3 DEF Prune
  <2>3. k \in Keys /\ k # active
    BY PrunableIs
  <2>4. Later
    BY <1>0, <1>1, LaterNow
  <2>5. Published(k, NoGeneration, imports', 2 + faults') /\ NoGeneration.files = Empty
    BY NothingOK DEF NoGeneration
  <2>6. Under(NoGeneration.files, published[k].files)
        /\ Under(attempt'.aside.files, attempt.aside.files)
    BY <2>2, <2>5, EmptyUnder, SameUnder
  <2>7. PublishedOK' /\ PendingOK' /\ OneSource' /\ AttemptInv'
    BY <1>1, <2>1, <2>2, <2>3, <2>4, <2>5, <2>6, Removed
  <2>8. AttemptOK' /\ RestOK'
    BY <1>0, <1>1, <2>2 DEF AttemptOK, RestOK, Key
  <2> QED BY <2>7, <2>8 DEF IInv, StoreInv
<1> QED BY <1>2, <1>3

LEMMA PruneFailsStep == IInv /\ PruneFails => IInv'
<1> SUFFICES ASSUME IInv, PruneFails PROVE IInv'
  OBVIOUS
<1>0. /\ RestOK /\ PublishedOK /\ PendingOK /\ AttemptOK /\ OneSource /\ Key \in Keys
  BY PanelIs DEF IInv, StoreInv
<1>1. PICK k \in Prunable, left \in SUBSET Names, receipt \in BOOLEAN :
        published' = [published EXCEPT ![k] =
          [files |-> Restrict(@.files, DOMAIN @.files \cap left),
           receipt |-> IF receipt THEN @.receipt ELSE Empty]]
  BY DEF PruneFails
<1>2. /\ UNCHANGED <<pending, active, imports, changes>> /\ faults' = faults + 1
      /\ attempt' = [NoAttempt EXCEPT !.step = "idle"]
      /\ panel' \in [up : BOOLEAN, ready : BOOLEAN, key : Keys]
  <2>1. /\ UNCHANGED <<pending, active, imports, changes>> /\ faults' = faults + 1
        /\ \/ Ends(TRUE)
           \/ /\ panel' = [panel EXCEPT !.up = FALSE, !.ready = FALSE]
              /\ attempt' = NoAttempt
    BY DEF PruneFails, Fault
  <2>2. NoAttempt = [NoAttempt EXCEPT !.step = "idle"]
    BY DEF NoAttempt
  <2>3. CASE Ends(TRUE)
    BY <1>0, <2>1, <2>3, EndsIs
  <2>4. CASE panel' = [panel EXCEPT !.up = FALSE, !.ready = FALSE] /\ attempt' = NoAttempt
    BY <1>0, <2>1, <2>2, <2>4, PanelIs
  <2> QED BY <2>1, <2>3, <2>4
<1>3. Later
  BY <1>0, <1>2, LaterNow
<1>4. k \in Keys /\ k # active
  BY PrunableIs
<1> DEFINE f == Restrict(published[k].files, DOMAIN published[k].files \cap left)
           r == IF receipt THEN published[k].receipt ELSE Empty
           g == [files |-> f, receipt |-> r]
<1>5. published' = [published EXCEPT ![k] = g]
  BY <1>1
<1>6. Published(k, published[k], imports', 2 + faults')
  BY <1>0, <1>3, <1>4, PublishedLater DEF PublishedOK, Later
<1>7. FilesOK(k, f, imports', 2 + faults') /\ Under(f, published[k].files)
  <2>1. Partial(published[k].files, FileType)
    BY <1>6 DEF Published, FilesOK
  <2>2. /\ Partial(f, FileType) /\ DOMAIN f = DOMAIN published[k].files \cap left
        /\ \A m \in DOMAIN f : f[m] = published[k].files[m]
    BY <2>1 DEF Restrict, Partial
  <2> HIDE DEF f
  <2> QED BY <1>6, <2>2 DEF Published, FilesOK, Under
<1>8. RecordsOK(k, r, 2 + faults') /\ (r = Empty \/ DOMAIN r = Names)
  BY <1>6, NothingOK DEF Published
<1> HIDE DEF f, r
<1>9. Published(k, g, imports', 2 + faults')
  BY <1>7, <1>8 DEF Published
<1>10. /\ AttemptOK'
       /\ attempt' = [step |-> "idle", records |-> Empty, todo |-> {}, aside |-> NoGeneration]
  BY <1>2, AttemptReset DEF Steps
<1>11. Under(attempt'.aside.files, attempt.aside.files) /\ Under(g.files, published[k].files)
  <2>1. attempt'.aside.files = Empty
    BY <1>10 DEF NoGeneration
  <2> QED BY <1>7, <2>1, EmptyUnder
<1>12. PublishedOK' /\ PendingOK' /\ OneSource' /\ AttemptInv'
  BY <1>2, <1>3, <1>4, <1>5, <1>9, <1>10, <1>11, Removed
<1>13. RestOK'
  BY <1>0, <1>2, <1>3 DEF RestOK, Later
<1> QED BY <1>10, <1>12, <1>13 DEF IInv, StoreInv

LEMMA PublishFailsStep == IInv /\ PublishFails => IInv'
<1> SUFFICES ASSUME IInv, PublishFails PROVE IInv'
  OBVIOUS
<1>0. /\ RestOK /\ PublishedOK /\ PendingOK /\ AttemptOK /\ OneSource /\ Key \in Keys
      /\ active \in Keys \cup {None} /\ None \notin Keys
  BY PanelIs DEF IInv, StoreInv
<1>1. /\ attempt.step = "publish" /\ published' = [published EXCEPT ![Key] = attempt.aside]
      /\ Ends(FALSE) /\ faults' = faults + 1 /\ UNCHANGED <<pending, active, imports, changes>>
  BY DEF PublishFails, Fault
<1>2. Later
  BY <1>0, <1>1, LaterNow
<1>3. /\ attempt' = [NoAttempt EXCEPT !.step = "idle"]
      /\ panel' \in [up : BOOLEAN, ready : BOOLEAN, key : Keys] /\ Key' = Key
  BY <1>0, <1>1, EndsIs
<1>4. /\ AttemptOK'
      /\ attempt' = [step |-> "idle", records |-> Empty, todo |-> {}, aside |-> NoGeneration]
  BY <1>3, AttemptReset DEF Steps
<1>5. Published(Key, attempt.aside, imports', 2 + faults')
  BY <1>0, <1>2, PublishedLater DEF AttemptOK, Later
<1>6. PublishedOK' /\ PendingOK'
  BY <1>0, <1>1, <1>2, <1>5, PublishedOne, PendingSame
<1>7. \A k \in Keys : published'[k] = IF k = Key THEN attempt.aside ELSE published[k]
  BY <1>0, <1>1 DEF PublishedOK
<1>8. RestOK'
  BY <1>0, <1>1, <1>2, <1>3 DEF RestOK, Later
<1>9. OneSource'
  <2>1. ASSUME NEW k \in Keys
        PROVE  /\ \/ Under(published'[k].files, published[k].files)
                  \/ Under(published'[k].files, attempt.aside.files)
               /\ Under(pending'[k].files, pending[k].files)
    BY <1>1, <1>7, SameUnder
  <2>2. attempt'.aside.files = Empty
    BY <1>4 DEF NoGeneration
  <2>3. Under(attempt'.aside.files, attempt.aside.files)
    BY <2>2, EmptyUnder
  <2> QED BY <1>0, <2>1, <2>3, OneSourceKept
<1>10. AttemptInv'
  <2>1. ASSUME active # None, Links(published'[active].files, pending'[active].files)
        PROVE  Lacks(published'[active])
    <3>1. CASE active = Key
      BY <1>0, <1>1, <1>7, <2>1, <3>1 DEF IInv, AttemptInv, Unlinked, Stage
    <3>2. CASE active # Key
      BY <1>0, <1>1, <1>7, <2>1, <3>2 DEF IInv, AttemptInv, Unlinked
    <3> QED BY <3>1, <3>2
  <2> QED BY <1>1, <1>4, <2>1, Quiet
<1> QED BY <1>4, <1>6, <1>8, <1>9, <1>10 DEF IInv, StoreInv

----------------------------------------------------------------------------
(* Damage.                                                                 *)

LEMMA DamageStep == IInv /\ Damage => IInv'
<1> SUFFICES ASSUME IInv, Damage PROVE IInv'
  OBVIOUS
<1>0. /\ RestOK /\ PublishedOK /\ PendingOK /\ AttemptOK /\ OneSource /\ Key \in Keys
      /\ active \in Keys \cup {None} /\ None \notin Keys
  BY PanelIs DEF IInv, StoreInv
<1> DEFINE holders(n, made) ==
             {files \in {published[k].files : k \in Keys} \cup {pending[k].files : k \in Keys}
                          \cup {attempt.aside.files} : Linked(files, n, made)}
<1>1. PICK n \in Names, made \in 0..imports, how \in {"seen", "unseen"} :
        LET left == IF how = "seen" /\ ~Running THEN Torn ELSE 2 + faults IN
        /\ \A files \in holders(n, made) : files[n].state = Whole
        /\ InEveryLink(n, made, left, how)
        /\ attempt' = [attempt EXCEPT !.aside.files = Changed(@, n, made, left, how)]
  BY DEF Damage
<1>2. /\ Intact(n, made)
      /\ Linked(attempt.aside.files, n, made) => attempt.aside.files[n].state # Torn
      /\ Linked(pending[Key].files, n, made) => pending[Key].files[n].state # Torn
  BY <1>0, <1>1, Contents DEF Intact
<1> HIDE DEF holders
<1> DEFINE left == IF how = "seen" /\ ~Running THEN Torn ELSE 2 + faults
           f == Changed(attempt.aside.files, n, made, left, how)
           g == [files |-> f, receipt |-> attempt.aside.receipt]
<1>3. /\ UNCHANGED <<active, panel, imports, changes>> /\ faults' = faults + 1
  BY DEF Damage, Fault
<1>4. Later /\ Key' = Key
  BY <1>0, <1>3, LaterNow DEF Key
<1>5. /\ left \in Nat /\ left < 2 + faults' /\ ((how = "seen" /\ left = Torn) \/ left >= 2 + faults)
      /\ left >= 2 + faults => left # Torn
      /\ attempt.step # "idle" => left # Torn
  <2>1. faults \in Nat
    BY <1>0 DEF RestOK
  <2>2. \A i \in Nat : 2 + i \in Nat /\ 2 + i < 2 + (i + 1) /\ 2 + i >= 2 + i /\ i + 1 \in Nat
    OBVIOUS
  <2> QED BY <1>3, <2>1, <2>2, Contents DEF Running
<1>6. /\ InEveryLink(n, made, left, how)
      /\ attempt' = [attempt EXCEPT !.aside.files = Changed(@, n, made, left, how)]
  BY <1>1
<1> HIDE DEF left
<1>7. /\ PublishedOK' /\ PendingOK'
      /\ \A k \in Keys :
           /\ published'[k].files = Changed(published[k].files, n, made, left, how)
           /\ published'[k].receipt = published[k].receipt
           /\ pending'[k].files = Changed(pending[k].files, n, made, left, how)
           /\ pending'[k].checkpoint = pending[k].checkpoint
           /\ Under(published'[k].files, published[k].files)
           /\ Under(pending'[k].files, pending[k].files)
           /\ DOMAIN published'[k].files = DOMAIN published[k].files
           /\ DOMAIN pending'[k].files = DOMAIN pending[k].files
           /\ \A m \in DOMAIN published[k].files :
                IF m = n /\ published[k].files[m].made = made
                THEN published'[k].files[m].state = left
                ELSE published'[k].files[m] = published[k].files[m]
           /\ \A m \in DOMAIN pending[k].files :
                IF m = n /\ pending[k].files[m].made = made
                THEN pending'[k].files[m].state = left
                ELSE pending'[k].files[m] = pending[k].files[m]
      /\ \A k \in Keys : \A m :
           ValidFile(published'[k].files, published'[k].receipt, m) =>
             ValidFile(published[k].files, published[k].receipt, m)
      /\ \A k \in Keys : \A m :
           ValidFile(pending'[k].files, pending'[k].checkpoint, m) =>
             /\ ValidFile(pending[k].files, pending[k].checkpoint, m)
             /\ pending'[k].files[m].stamp = pending[k].files[m].stamp
      /\ \A k \in Keys : Lacks(published[k]) => Lacks(published'[k])
      /\ \A k \in Keys : Resolves(k)' => Resolves(k)
  BY <1>2, <1>4, <1>5, <1>6, Worn
<1>8. attempt' = [step |-> attempt.step, records |-> attempt.records,
                  todo |-> attempt.todo, aside |-> g]
  <2>1. /\ attempt = [step |-> attempt.step, records |-> attempt.records,
                      todo |-> attempt.todo, aside |-> attempt.aside]
        /\ attempt.aside = [files |-> attempt.aside.files, receipt |-> attempt.aside.receipt]
    BY <1>0 DEF AttemptOK, Published
  <2>2. attempt' = [attempt EXCEPT !.aside = [@ EXCEPT !.files = f]]
    BY <1>6, <2>1
  <2>3. [attempt.aside EXCEPT !.files = f] = g
    BY <2>1
  <2> HIDE DEF g, f
  <2> QED BY <2>1, <2>2, <2>3
<1>9. FilesOK(Key, attempt.aside.files, imports, 2 + faults)
      /\ Published(Key, attempt.aside, imports', 2 + faults')
      /\ FilesOK(Key, attempt.aside.files, imports', 2 + faults')
      /\ RecordsOK(Key, attempt.aside.receipt, 2 + faults)
  BY <1>0, <1>4, PublishedLater DEF AttemptOK, Published, Later
<1>10. FilesOK(Key, f, imports', 2 + faults')
  <2>1. imports \in Nat /\ (how = "unseen" => left # Torn)
    BY <1>4, <1>5 DEF Later
  <2> QED BY <1>2, <1>5, <1>9, <2>1, FilesChanged
<1>11. /\ Under(f, attempt.aside.files)
       /\ \A m : ValidFile(f, attempt.aside.receipt, m) =>
                   ValidFile(attempt.aside.files, attempt.aside.receipt, m)
  <2>1. 2 + faults \in Nat /\ imports \in Nat
    BY <1>4 DEF Later
  <2>2. Under(f, attempt.aside.files)
    BY <1>5, <1>9, <2>1, ChangedUnder
  <2>3. ASSUME NEW m, ValidFile(f, attempt.aside.receipt, m)
        PROVE  ValidFile(attempt.aside.files, attempt.aside.receipt, m)
    BY <1>5, <1>9, <2>1, <2>3, NeverMended
  <2> QED BY <2>2, <2>3
<1> HIDE DEF f
<1>12. AttemptOK'
  <2>1. Published(Key, g, imports', 2 + faults')
    BY <1>9, <1>10 DEF Published
  <2>2. RecordsOK(Key, attempt.records, 2 + faults')
    BY <1>0, <1>4, RecordsLater DEF AttemptOK, Later
  <2> HIDE DEF g
  <2> QED BY <1>0, <1>4, <1>8, <2>1, <2>2 DEF AttemptOK
<1>13. attempt'.aside.files = f /\ attempt'.aside.receipt = attempt.aside.receipt
  BY <1>8
<1>14. /\ attempt'.step = attempt.step /\ attempt'.records = attempt.records
       /\ attempt'.todo = attempt.todo
  BY <1>8
<1>15. RestOK'
  BY <1>0, <1>3, <1>4 DEF RestOK, Later
<1>16. OneSource'
  BY <1>0, <1>7, <1>11, <1>13, OneSourceKept
<1>17. Stage' = pending'[Key] /\ Stage = pending[Key]
  BY <1>4 DEF Stage
<1>18. Fresh'
  <2>1. SUFFICES ASSUME Fetching PROVE Fresh'
    BY <1>14 DEF Fresh, Fetching
  <2>2. Fresh
    BY DEF IInv, AttemptInv
  <2>3. ASSUME NEW k \in Keys, NEW m \in DOMAIN published'[k].files
        PROVE  published'[k].files[m].made < imports
    BY <1>7, <2>1, <2>2 DEF Fresh, Under
  <2>4. ASSUME NEW k \in Keys \ {Key}, NEW m \in DOMAIN pending'[k].files
        PROVE  pending'[k].files[m].made < imports
    BY <1>7, <2>1, <2>2 DEF Fresh, Under
  <2>5. ASSUME NEW m \in DOMAIN attempt'.aside.files
        PROVE  attempt'.aside.files[m].made < imports
    BY <1>11, <1>13, <2>1, <2>2 DEF Fresh, Under
  <2> QED BY <1>3, <1>4, <2>3, <2>4, <2>5 DEF Fresh
<1>19. Recorded'
  <2>1. SUFFICES ASSUME Collecting, NEW m \in DOMAIN attempt.records
                 PROVE  /\ m \in DOMAIN Stage'.files /\ Stage'.files[m].state # Torn
                        /\ Resumable(m)' => Follows(attempt.records[m], Stage', m)
    BY <1>14 DEF Recorded, Collecting, Fetching
  <2>2. attempt.step # "idle"
    BY <2>1 DEF Collecting, Fetching
  <2>3. /\ m \in DOMAIN Stage.files /\ Stage.files[m].state # Torn
        /\ Resumable(m) => Follows(attempt.records[m], Stage, m)
    BY <2>1 DEF IInv, AttemptInv, Recorded
  <2>4. m \in DOMAIN Stage'.files /\ Stage'.files[m].state # Torn
    BY <1>0, <1>5, <1>7, <1>17, <2>2, <2>3
  <2>5. Stage'.checkpoint = Stage.checkpoint
    BY <1>0, <1>7, <1>17
  <2>6. Resumable(m)' => Resumable(m) /\ Stage'.files[m].stamp = Stage.files[m].stamp
    BY <1>0, <1>4, <1>7, <1>17 DEF Resumable, Key
  <2> QED BY <2>3, <2>4, <2>5, <2>6 DEF Follows
<1>20. ImagesWhole'
  <2>1. SUFFICES ASSUME Fetching, NEW m \in Images \cap DOMAIN Stage'.files,
                        Stage'.files[m].made = imports
                 PROVE  Stage'.files[m].state # Torn
    BY <1>3, <1>14 DEF ImagesWhole, Fetching
  <2>2. m \in DOMAIN Stage.files /\ Stage.files[m].made = imports
    BY <1>0, <1>7, <1>17, <2>1 DEF Under
  <2>3. Stage.files[m].state # Torn /\ left # Torn
    BY <1>5, <2>1, <2>2 DEF ImagesWhole, Fetching, IInv, AttemptInv
  <2> QED BY <1>0, <1>7, <1>17, <2>2, <2>3
<1>21. Accounted'
  <2>1. ASSUME NEW m, Written(m)
        PROVE  Written(m)'
    BY <1>0, <1>3, <1>7, <1>17, <2>1 DEF Written, Under
  <2>2. DOMAIN Stage'.files = DOMAIN Stage.files
    BY <1>0, <1>7, <1>17
  <2>3. ASSUME published[Key] = NoGeneration
        PROVE  published'[Key] = NoGeneration
    <3>1. published[Key].files = Empty /\ published[Key].receipt = Empty
      BY <2>3 DEF NoGeneration
    <3>2. Published(Key, published'[Key], imports', 2 + faults')
      BY <1>0, <1>7 DEF PublishedOK
    <3>3. published'[Key].files = Empty
      BY <1>0, <1>7, <3>1, <3>2, EmptyIs DEF Published, FilesOK
    <3> QED BY <1>0, <1>7, <3>1, <3>2, <3>3 DEF Published, NoGeneration
  <2>4. ASSUME Stage = NoStage
        PROVE  Stage' = NoStage
    <3>1. pending[Key].files = Empty /\ pending[Key].checkpoint = Empty
      BY <1>17, <2>4 DEF NoStage
    <3>2. Staged(Key, pending'[Key], imports', 2 + faults')
      BY <1>0, <1>7 DEF PendingOK
    <3>3. pending'[Key].files = Empty
      BY <1>0, <1>7, <3>1, <3>2, EmptyIs DEF Staged, FilesOK
    <3> QED BY <1>0, <1>7, <1>17, <3>1, <3>2, <3>3 DEF Staged, NoStage
  <2> QED BY <1>4, <1>14, <2>1, <2>2, <2>3, <2>4 DEF Accounted, IInv, AttemptInv
<1>22. Extracting'
  <2>1. SUFFICES ASSUME attempt.step = "extracting" PROVE Extracting'
    BY <1>14 DEF Extracting
  <2>2. /\ Master \in DOMAIN Stage.files
        /\ \A k \in Keys :
             /\ Shares(k) => published[k].files[Master].state = Torn
             /\ Master \in DOMAIN pending[k].files
                /\ pending[k].files[Master].made = Stage.files[Master].made
                  => pending[k].files[Master].state = Torn
    BY <2>1 DEF Extracting, IInv, AttemptInv
  <2>3. n # Master \/ made # Stage.files[Master].made
    <3>1. Stage.files[Master].state = Torn
      BY <1>0, <1>17, <2>2
    <3> QED BY <1>2, <1>17, <2>2, <3>1 DEF Linked
  <2>4. Master \in DOMAIN Stage'.files /\ Stage'.files[Master].made = Stage.files[Master].made
    BY <1>0, <1>7, <1>17, <2>2 DEF Under
  <2>5. ASSUME NEW k \in Keys, Shares(k)'
        PROVE  published'[k].files[Master].state = Torn
    <3>1. /\ Master \in DOMAIN published[k].files
          /\ published[k].files[Master].made = Stage.files[Master].made
      BY <1>7, <2>4, <2>5 DEF Shares, Under
    <3>2. Shares(k)
      BY <2>2, <3>1 DEF Shares
    <3> QED BY <1>7, <2>2, <2>3, <3>1, <3>2
  <2>6. ASSUME NEW k \in Keys, Master \in DOMAIN pending'[k].files,
               pending'[k].files[Master].made = Stage'.files[Master].made
        PROVE  pending'[k].files[Master].state = Torn
    <3>1. /\ Master \in DOMAIN pending[k].files
          /\ pending[k].files[Master].made = Stage.files[Master].made
      BY <1>7, <2>4, <2>6 DEF Under
    <3> QED BY <1>7, <2>2, <2>3, <3>1
  <2> QED BY <2>4, <2>5, <2>6 DEF Extracting
<1>23. ASSUME NEW k \in Keys
       PROVE  /\ Shares(k)' => Shares(k)
              /\ Shares(k) => Shares(k)'
              /\ Links(published'[k].files, pending'[k].files) =>
                   Links(published[k].files, pending[k].files)
  BY <1>0, <1>7, <1>17 DEF Shares, Links, Under
<1>24. Spared'
  <2>1. SUFFICES ASSUME attempt.step \in {"reuse", "master"}, Master \in attempt.todo,
                        active # None, NEW k \in Keys, k = active, Shares(k)'
                 PROVE  ~ValidFile(published'[k].files, published'[k].receipt, Master)
    BY <1>0, <1>3, <1>14 DEF Spared
  <2>2. Shares(k)
    BY <1>23, <2>1
  <2> QED BY <1>7, <2>1, <2>2 DEF Spared, IInv, AttemptInv
<1>25. Unlinked'
  <2>1. ASSUME active # None, Links(published'[active].files, pending'[active].files)
        PROVE  Lacks(published'[active])
    BY <1>0, <1>7, <1>23, <2>1 DEF Unlinked, IInv, AttemptInv
  <2>2. ASSUME attempt.step = "publish", active = Key, Links(attempt'.aside.files, Stage'.files)
        PROVE  Lacks(attempt'.aside)
    <3>1. Links(attempt.aside.files, Stage.files)
      BY <1>0, <1>7, <1>11, <1>13, <1>17, <2>2 DEF Links, Under
    <3>2. Lacks(attempt.aside)
      BY <2>2, <3>1 DEF Unlinked, IInv, AttemptInv
    <3> QED BY <1>11, <1>13, <3>2 DEF Lacks
  <2> QED BY <1>3, <1>4, <1>14, <2>1, <2>2 DEF Unlinked
<1>26. Unresolved'
  <2>1. Resolves(Key)' => Resolves(Key)
    BY <1>0, <1>4, <1>7
  <2>2. Shares(Key) => Shares(Key)'
    BY <1>0, <1>4, <1>23
  <2> QED BY <1>3, <1>4, <1>14, <2>1, <2>2 DEF Unresolved, IInv, AttemptInv
<1> QED BY <1>7, <1>12, <1>15, <1>16, <1>18, <1>19, <1>20, <1>21, <1>22, <1>24, <1>25, <1>26
        DEF IInv, StoreInv, AttemptInv
----------------------------------------------------------------------------
(* The invariant.                                                          *)

LEMMA InvInit == Init => IInv
<1> SUFFICES ASSUME Init PROVE IInv
  OBVIOUS
<1> USE ProvisionAssumption
<1>1. /\ \A k \in Keys : published[k] = NoGeneration /\ pending[k] = NoStage
      /\ attempt = NoAttempt /\ active = None
      /\ panel.key = Installed /\ Key = Installed /\ Stage = NoStage
      /\ NoAttempt.step = "idle" /\ NoAttempt.records = Empty /\ NoAttempt.todo = {}
      /\ NoAttempt.aside = NoGeneration
  BY DEF Init, Key, Stage, NoAttempt
<1>2. NoGeneration.files = Empty /\ NoStage.files = Empty /\ DOMAIN Empty = {}
  BY EmptyIs DEF NoGeneration, NoStage
<1>3. PublishedOK /\ PendingOK
  BY <1>1, NothingOK DEF PublishedOK, PendingOK, Init
<1>4. AttemptOK
  <2>1. NoAttempt = [step |-> NoAttempt.step, records |-> NoAttempt.records,
                     todo |-> NoAttempt.todo, aside |-> NoAttempt.aside]
    BY DEF NoAttempt
  <2> QED BY <1>1, <2>1, NothingOK DEF AttemptOK, Steps
<1>5. RestOK
  BY DEF RestOK, Init
<1>6. OneSource
  BY <1>1, <1>2 DEF OneSource, OnDisk, Has
<1>7. AttemptInv
  BY <1>1, <1>2 DEF AttemptInv, Fresh, Recorded, ImagesWhole, Accounted, Extracting, Spared,
     Unlinked, Unresolved, Fetching, Collecting
<1> QED BY <1>3, <1>4, <1>5, <1>6, <1>7 DEF IInv, StoreInv

LEMMA InvStutter == IInv /\ UNCHANGED vars => IInv'
<1> SUFFICES ASSUME IInv, UNCHANGED vars PROVE IInv'
  OBVIOUS
<1>1. /\ published' = published /\ pending' = pending /\ active' = active /\ panel' = panel
      /\ attempt' = attempt /\ imports' = imports /\ faults' = faults /\ changes' = changes
  BY DEF vars
<1>2. StoreInv'
  BY <1>1 DEF IInv, StoreInv, PublishedOK, PendingOK, AttemptOK, RestOK, OneSource, OnDisk, Key
<1>3. Fresh' /\ Recorded' /\ ImagesWhole' /\ Accounted'
  BY <1>1 DEF IInv, AttemptInv, Fresh, Recorded, ImagesWhole, Accounted, Fetching, Collecting,
     Stage, Key, Resumable, Written
<1>4. Extracting' /\ Spared' /\ Unlinked' /\ Unresolved'
  BY <1>1 DEF IInv, AttemptInv, Extracting, Spared, Unlinked, Unresolved, Stage, Key, Shares,
     Resolves, Lacks
<1> QED BY <1>2, <1>3, <1>4 DEF IInv, AttemptInv

LEMMA InvNext == IInv /\ [Next]_vars => IInv'
<1> SUFFICES ASSUME IInv, [Next]_vars PROVE IInv'
  OBVIOUS
<1>1. CASE Inspect
  BY <1>1, InspectStep
<1>2. CASE \E n \in Names : Reuse(n) \/ WriteImage(n) \/ FileEvent(n)
  <2>1. \/ \E n \in Names : Reuse(n)
        \/ \E n \in Names : WriteImage(n)
        \/ \E n \in Names : FileEvent(n)
    BY <1>2
  <2> QED BY <2>1, ReuseStep, WriteImageStep, FileEventStep
<1>3. CASE ExtractMaster
  BY <1>3, ExtractMasterStep
<1>4. CASE MasterExtracted
  BY <1>4, MasterExtractedStep
<1>5. CASE ImagesEnd
  BY <1>5, ImagesEndStep
<1>6. CASE Validate
  BY <1>6, ValidateStep
<1>7. CASE SetAside
  BY <1>7, SetAsideStep
<1>8. CASE Publish
  BY <1>8, PublishStep
<1>9. CASE Activate
  BY <1>9, ActivateStep
<1>10. CASE Settle
  BY <1>10, SettleStep
<1>11. CASE Prune
  BY <1>11, PruneStep
<1>12. CASE Prepare
  BY <1>12, PrepareStep
<1>13. CASE Close
  BY <1>13, CloseStep
<1>14. CASE \E k \in Keys : Open(k)
  BY <1>14, OpenStep
<1>15. CASE StepFails
  BY <1>15, StepFailsStep
<1>16. CASE ImporterFails
  BY <1>16, ImporterFailsStep
<1>17. CASE PublishFails
  BY <1>17, PublishFailsStep
<1>18. CASE Crash
  BY <1>18, CrashStep
<1>19. CASE PruneFails
  BY <1>19, PruneFailsStep
<1>20. CASE Damage
  BY <1>20, DamageStep
<1>21. CASE UNCHANGED vars
  BY <1>21, InvStutter
<1> QED BY <1>1, <1>2, <1>3, <1>4, <1>5, <1>6, <1>7, <1>8, <1>9, <1>10, <1>11, <1>12, <1>13,
          <1>14, <1>15, <1>16, <1>17, <1>18, <1>19, <1>20, <1>21 DEF Next, Work

(* The disk and the running attempt stay as described above, whatever is   *)
(* interrupted, fails, is damaged or changes while the panel is closed:    *)
(* Prepare in provision.go and what StartPreparation runs around it.       *)
THEOREM Invariant ==
  Spec => []IInv
<1> QED BY InvInit, InvNext, PTL DEF Spec

(* Generations, receipts, checkpoints and the running attempt have the     *)
(* shape that provision.go gives them, for any profiles and bounds.        *)
THEOREM TypeCorrect ==
  Spec => []TypeOK
<1>1. IInv => TypeOK
  <2> SUFFICES ASSUME IInv PROVE TypeOK
    OBVIOUS
  <2>1. PublishedOK /\ PendingOK /\ AttemptOK /\ RestOK
    BY DEF IInv, StoreInv
  <2>2. \A k \in Keys : GenerationOK(published[k])
    BY <2>1 DEF PublishedOK, Published, FilesOK, RecordsOK, GenerationOK
  <2>3. \A k \in Keys : StageOK(pending[k])
    BY <2>1 DEF PendingOK, Staged, FilesOK, RecordsOK, StageOK
  <2>4. GenerationOK(attempt.aside) /\ Partial(attempt.records, RecordType)
    BY <2>1 DEF AttemptOK, Published, FilesOK, RecordsOK, GenerationOK
  <2> QED BY <2>1, <2>2, <2>3, <2>4 DEF TypeOK, PublishedOK, PendingOK, AttemptOK, RestOK
<1> QED BY <1>1, Invariant, PTL

(* The data a panel serves is complete as far as sizes and times tell: a   *)
(* generation that Resolve accepts has every file of its own profile, and  *)
(* no file of it was cut short or left by a damage that shows, although it *)
(* may consist of files that attempts before it left or other generations  *)
(* lent.  validFile does not hash a file whose size and time are those of  *)
(* its record (provision.go:226): a damage that leaves both is not seen,   *)
(* and one that strikes during an attempt can be entered in the receipt.   *)
THEOREM ResolvedIsWhole ==
  Spec => []ResolvedWhole
<1>1. IInv => ResolvedWhole
  <2> SUFFICES ASSUME IInv, NEW k \in Keys, Resolves(k)
               PROVE  /\ DOMAIN published[k].files = Names
                      /\ \A n \in Names : /\ published[k].files[n].id = Profile[k][n]
                                          /\ published[k].files[n].state # Torn
    BY DEF ResolvedWhole
  <2>1. Published(k, published[k], imports, 2 + faults)
    BY DEF IInv, StoreInv, PublishedOK
  <2>2. /\ FilesOK(k, published[k].files, imports, 2 + faults)
        /\ RecordsOK(k, published[k].receipt, 2 + faults)
        /\ DOMAIN published[k].receipt = Names
    BY <2>1 DEF Published, Resolves
  <2>3. \A n \in Names : ValidFile(published[k].files, published[k].receipt, n)
    BY <2>2 DEF Resolves
  <2>4. \A n \in Names : n \in DOMAIN published[k].files /\ published[k].files[n].state # Torn
    BY <2>2, <2>3, ValidWhole
  <2>5. \A n \in DOMAIN published[k].files : /\ n \in Names
                                            /\ published[k].files[n].id = Profile[k][n]
    BY <2>2, Read
  <2> QED BY <2>4, <2>5
<1> QED BY <1>1, Invariant, PTL
----------------------------------------------------------------------------
(* What an attempt never takes away.                                       *)

\* A write to a file that k does not share leaves k as it is.
LEMMA NotLinked ==
  ASSUME NEW files, NEW n, NEW made, NEW state, NEW how,
         ~(n \in DOMAIN files /\ files[n].made = made)
  PROVE  Changed(files, n, made, state, how) = files
BY DEF Changed, Linked

\* In a generation that resolves, the master data is whole and recorded.
LEMMA MasterResolves ==
  ASSUME IInv, NEW k \in Keys, Resolves(k)
  PROVE  /\ DOMAIN published[k].receipt = Names
         /\ ValidFile(published[k].files, published[k].receipt, Master)
         /\ published[k].files[Master].state # Torn
<1>1. Published(k, published[k], imports, 2 + faults)
  BY DEF IInv, StoreInv, PublishedOK
<1>2. /\ FilesOK(k, published[k].files, imports, 2 + faults)
      /\ RecordsOK(k, published[k].receipt, 2 + faults)
      /\ DOMAIN published[k].receipt = Names
  BY <1>1 DEF Published, Resolves
<1>3. ValidFile(published[k].files, published[k].receipt, Master)
  BY <1>2, NamesIs DEF Resolves
<1> QED BY <1>2, <1>3, ValidWhole

LEMMA Remains ==
  ASSUME NEW k \in Keys, Resolves(k), published'[k].receipt = published[k].receipt,
         published'[k].files = published[k].files
  PROVE  Resolves(k)'
BY DEF Resolves

LEMMA Loses ==
  ASSUME IInv, [Next]_vars, NEW k \in Keys, Resolves(k), ~Resolves(k)'
  PROVE  \/ Damage
         \/ k # Key /\ active = Key /\ DOMAIN published[Key].receipt = Names
         \/ k # active /\ Shares(k) /\ attempt.step \in {"master", "swap"}
<1>0. /\ RestOK /\ PublishedOK /\ PendingOK /\ Key \in Keys /\ None \notin Keys
  BY PanelIs DEF IInv, StoreInv
<1>1. published' # published
  BY Remains
<1>2. CASE ExtractMaster
  <2>1. attempt.step = "master" /\ Master \in attempt.todo
    BY <1>2 DEF ExtractMaster, IInv, AttemptInv, Accounted
  <2> DEFINE made == Stage.files[Master].made
  <2>2. Master \in DOMAIN Stage.files /\ InEveryLink(Master, made, Torn, "seen")
    BY <1>1, <1>2 DEF ExtractMaster
  <2> HIDE DEF made
  <2>3. /\ published'[k].files = Changed(published[k].files, Master, made, Torn, "seen")
        /\ published'[k].receipt = published[k].receipt
    <3>1. published[k] = [files |-> published[k].files, receipt |-> published[k].receipt]
      BY <1>0 DEF PublishedOK, Published
    <3>2. published'[k] = [published[k] EXCEPT !.files = Changed(@, Master, made, Torn, "seen")]
      BY <2>2 DEF InEveryLink
    <3> QED BY <3>1, <3>2
  <2>4. Shares(k)
    <3>1. SUFFICES ASSUME ~Shares(k) PROVE FALSE
      OBVIOUS
    <3>2. ~(Master \in DOMAIN published[k].files /\ published[k].files[Master].made = made)
      BY <2>2, <3>1 DEF Shares, made
    <3>3. published'[k].files = published[k].files
      BY <2>3, <3>2, NotLinked
    <3> QED BY <2>3, <3>3, Remains
  <2>5. k # active
    BY <1>0, <2>1, <2>4, MasterResolves DEF Spared, IInv, AttemptInv
  <2> QED BY <2>1, <2>4, <2>5
<1>3. CASE MasterExtracted
  <2> DEFINE made == Stage.files[Master].made
  <2>1. /\ attempt.step = "extracting"
        /\ published' = [j \in Keys |->
             [published[j] EXCEPT !.files = Changed(@, Master, made, Whole, "seen")]]
    BY <1>3 DEF MasterExtracted
  <2>2. ~Shares(k) /\ Master \in DOMAIN Stage.files
    BY <2>1, MasterResolves DEF Extracting, IInv, AttemptInv
  <2>3. ~(Master \in DOMAIN published[k].files /\ published[k].files[Master].made = made)
    BY <2>2 DEF Shares
  <2> HIDE DEF made
  <2>4. published[k] = [files |-> published[k].files, receipt |-> published[k].receipt]
    BY <1>0 DEF PublishedOK, Published
  <2>5. published'[k] = [published[k] EXCEPT !.files = Changed(@, Master, made, Whole, "seen")]
    BY <2>1
  <2>6. /\ published'[k].files = Changed(published[k].files, Master, made, Whole, "seen")
        /\ published'[k].receipt = published[k].receipt
    BY <2>4, <2>5
  <2>7. published'[k].files = published[k].files
    BY <2>3, <2>6, NotLinked
  <2> QED BY <2>6, <2>7, Remains
<1>4. CASE SetAside
  <2>1. attempt.step = "swap" /\ published' = [published EXCEPT ![Key] = NoGeneration]
    BY <1>4 DEF SetAside
  <2>2. k = Key
    BY <1>0, <2>1, Remains DEF PublishedOK
  <2> QED BY <2>1, <2>2 DEF Unresolved, IInv, AttemptInv
<1>5. CASE Publish \/ PublishFails
  <2>1. published[Key] = NoGeneration /\ \E g : published' = [published EXCEPT ![Key] = g]
    BY <1>1, <1>5 DEF Publish, PublishFails, Accounted, IInv, AttemptInv
  <2>2. k # Key
    BY <2>1 DEF Resolves, NoGeneration
  <2> QED BY <1>0, <2>1, <2>2, Remains DEF PublishedOK
<1>6. CASE Prune \/ PruneFails
  <2>1. PICK j \in Prunable : \E g : published' = [published EXCEPT ![j] = g]
    BY <1>1, <1>6 DEF Prune, PruneFails
  <2>2. k = j
    BY <1>0, <2>1, Remains DEF PublishedOK
  <2>3. k # Key /\ active = Key /\ published[Key].receipt # Empty
    BY <2>1, <2>2, PrunableIs
  <2>4. DOMAIN published[Key].receipt = Names
    BY <1>0, <2>3 DEF PublishedOK, Published
  <2> QED BY <2>3, <2>4
<1>7. \/ ExtractMaster \/ MasterExtracted \/ SetAside \/ Publish \/ PublishFails
      \/ Prune \/ PruneFails \/ Damage
  BY <1>1 DEF Next, Work, vars, Disk, Bounds, Inspect, Reuse, WriteImage, FileEvent, ImagesEnd,
     Validate, Activate, Settle, Prepare, Close, Open, StepFails, ImporterFails, Crash
<1> QED BY <1>2, <1>3, <1>4, <1>5, <1>6, <1>7

(* No crash between the renames, active.json and the pruning, no failed    *)
(* import and no failed rename takes away a generation that resolves: it   *)
(* goes when the installed profile's generation is published, active and   *)
(* complete, or when it is not the active one and its master data is the   *)
(* very file being prepared (Prepare, pruneOldGenerations).                *)
THEOREM NoGenerationLost ==
  Spec => GenerationsKept
<1>1. IInv /\ [Next]_vars =>
        [\A k \in Keys : Resolves(k) /\ ~Resolves(k)' =>
           \/ Damage
           \/ k # Key /\ active = Key /\ DOMAIN published[Key].receipt = Names
           \/ k # active /\ Shares(k) /\ attempt.step \in {"master", "swap"}]_vars
  BY Loses
<1> QED BY <1>1, Invariant, PTL DEF Spec, GenerationsKept
\* Work on k that stays: what is recorded, and is not asked for again.
Stays(k, n) ==
  /\ ValidFile(pending'[k].files, pending'[k].checkpoint, n)
  /\ k = Key => n \notin attempt'.todo \ attempt.todo

LEMMA StaysSame ==
  ASSUME NEW k, NEW n, ValidFile(pending[k].files, pending[k].checkpoint, n),
         pending'[k].checkpoint = pending[k].checkpoint, n \in DOMAIN pending'[k].files,
         pending'[k].files[n] = pending[k].files[n], attempt'.todo \subseteq attempt.todo
  PROVE  Stays(k, n)
BY DEF Stays, ValidFile

\* The records of the attempt take the place of the checkpoint.
LEMMA StaysSaved ==
  ASSUME IInv, NEW n, Resumable(n), Collecting, NEW records,
         n \in DOMAIN attempt.records =>
           n \in DOMAIN records /\ records[n] = attempt.records[n],
         DOMAIN attempt.records \cup attempt.todo = Names,
         pending'[Key].checkpoint = records, n \in DOMAIN pending'[Key].files,
         pending'[Key].files[n] = pending[Key].files[n], attempt'.todo \subseteq attempt.todo
  PROVE  Stays(Key, n) \/ n \in attempt.todo
<1>1. SUFFICES ASSUME n \notin attempt.todo PROVE Stays(Key, n)
  OBVIOUS
<1>2. Staged(Key, pending[Key], imports, 2 + faults)
  BY PanelIs DEF IInv, StoreInv, PendingOK
<1>3. n \in Names
  BY <1>2, Read DEF Resumable, ValidFile, Staged, Key
<1>4. n \in DOMAIN attempt.records
  BY <1>1, <1>3
<1>5. Follows(attempt.records[n], pending[Key], n)
  BY <1>4 DEF Recorded, IInv, AttemptInv, Stage
<1>6. ValidFile(pending[Key].files, pending[Key].checkpoint, n)
  BY DEF Resumable, Key
<1>7. n \in DOMAIN records /\ records[n] = attempt.records[n]
  BY <1>4
<1>8. ValidFile(pending[Key].files, records, n)
  BY <1>5, <1>6, <1>7 DEF Follows, ValidFile
<1>9. ValidFile(pending'[Key].files, records, n)
  BY <1>8 DEF ValidFile
<1> QED BY <1>1, <1>9 DEF Stays

\* A write over every link, of less than a file.
LEMMA StaysWorn ==
  ASSUME PendingOK, NEW k \in Keys, NEW n, NEW m, NEW made, NEW state \in Nat,
         NEW how \in {"seen", "unseen"}, imports \in Nat, ValidFile(pending[k].files, pending[k].checkpoint, n),
         InEveryLink(m, made, state, how), attempt'.todo \subseteq attempt.todo,
         n = m /\ pending[k].files[n].made = made => pending[k].files[n].state # state
  PROVE  \/ Stays(k, n)
         \/ /\ n \in DOMAIN pending'[k].files
            /\ pending'[k].files[n].state # pending[k].files[n].state
<1>1. /\ pending[k] = [files |-> pending[k].files, checkpoint |-> pending[k].checkpoint]
      /\ Partial(pending[k].files, FileType) /\ n \in DOMAIN pending[k].files
  BY DEF PendingOK, Staged, FilesOK, ValidFile
<1>2. pending'[k] = [pending[k] EXCEPT !.files = Changed(@, m, made, state, how)]
  BY DEF InEveryLink
<1>3. /\ pending'[k].files = Changed(pending[k].files, m, made, state, how)
      /\ pending'[k].checkpoint = pending[k].checkpoint
  BY <1>1, <1>2
<1>4. CASE n = m /\ pending[k].files[n].made = made
  BY <1>1, <1>3, <1>4, ChangedIs
<1>5. CASE ~(n = m /\ pending[k].files[n].made = made)
  <2>1. n \in DOMAIN pending'[k].files /\ pending'[k].files[n] = pending[k].files[n]
    BY <1>1, <1>3, <1>5, ChangedIs
  <2> QED BY <1>3, <2>1, StaysSame
<1> QED BY <1>4, <1>5

LEMMA Works ==
  ASSUME IInv, [Next]_vars, NEW k \in Keys, NEW n \in Names,
         ValidFile(pending[k].files, pending[k].checkpoint, n)
  PROVE  \/ Stays(k, n)
         \/ k = Key /\ n \in attempt.todo
         \/ published'[k].receipt # Empty
         \/ /\ n \in DOMAIN pending'[k].files
            /\ pending'[k].files[n].state # pending[k].files[n].state
<1>0. /\ RestOK /\ PublishedOK /\ PendingOK /\ AttemptOK /\ Key \in Keys /\ None \notin Keys
      /\ imports \in Nat
  BY PanelIs DEF IInv, StoreInv, RestOK
<1>1. /\ n \in DOMAIN pending[k].files
      /\ pending[k] = [files |-> pending[k].files, checkpoint |-> pending[k].checkpoint]
      /\ pending[Key] = [files |-> pending[Key].files, checkpoint |-> pending[Key].checkpoint]
      /\ k = Key => Resumable(n)
      /\ pending[k].files[n].state # Torn
  <2>1. FilesOK(k, pending[k].files, imports, 2 + faults) /\ RecordsOK(k, pending[k].checkpoint, 2 + faults)
    BY <1>0 DEF PendingOK, Staged
  <2> QED BY <1>0, <2>1, ValidWhole DEF PendingOK, Staged, Resumable, Key
<1>2. ASSUME pending' = pending, attempt'.todo \subseteq attempt.todo
      PROVE  Stays(k, n)
  BY <1>1, <1>2, StaysSame
<1>3. ASSUME k # Key, NEW s, pending' = [pending EXCEPT ![Key] = s]
      PROVE  Stays(k, n)
  BY <1>0, <1>3 DEF Stays, PendingOK
<1>4. attempt = [step |-> attempt.step, records |-> attempt.records,
                 todo |-> attempt.todo, aside |-> attempt.aside]
  BY <1>0 DEF AttemptOK
<1>5. CASE \E m \in Names : Reuse(m)
  <2>1. PICK m \in Names : Reuse(m)
    BY <1>5
  <2>2. CASE Resumable(m)
    <3>1. pending' = pending /\ attempt'.todo = attempt.todo
      BY <1>4, <2>1, <2>2 DEF Reuse
    <3> QED BY <1>2, <3>1
  <2>3. CASE ~Resumable(m) /\ Reusable(m)
    <3>1. attempt'.todo = attempt.todo
      BY <1>4, <2>1, <2>3 DEF Reuse
    <3>2. PICK x : pending' = [pending EXCEPT ![Key].files = Put(@, m, x)]
      BY <2>1, <2>3 DEF Reuse
    <3>3. CASE k = Key
      <4>1. n # m
        BY <1>1, <2>3, <3>3
      <4>2. /\ pending'[Key].files = Put(pending[Key].files, m, x)
            /\ pending'[Key].checkpoint = pending[Key].checkpoint
        BY <1>0, <1>1, <3>2 DEF PendingOK
      <4>3. n \in DOMAIN pending'[k].files /\ pending'[k].files[n] = pending[k].files[n]
        BY <1>1, <3>3, <4>1, <4>2 DEF Put
      <4> QED BY <3>1, <3>3, <4>2, <4>3, StaysSame
    <3>4. CASE k # Key
      BY <1>3, <3>2, <3>4
    <3> QED BY <3>3, <3>4
  <2>4. CASE ~Resumable(m) /\ ~Reusable(m)
    <3>1. pending' = pending /\ attempt'.todo = attempt.todo \cup {m}
      BY <1>4, <2>1, <2>4 DEF Reuse
    <3>2. k = Key => n # m
      BY <1>1, <2>4
    <3> QED BY <3>1, <3>2 DEF Stays
  <2> QED BY <2>2, <2>3, <2>4
<1>6. CASE \E m \in Names : WriteImage(m)
  <2>1. PICK m \in Names : WriteImage(m)
    BY <1>6
  <2>2. PICK x : pending' = [pending EXCEPT ![Key].files = Put(@, m, x)]
    BY <2>1 DEF WriteImage
  <2>3. attempt' = attempt /\ m \in attempt.todo
    BY <2>1 DEF WriteImage
  <2>4. CASE k = Key /\ n # m
    <3>1. /\ pending'[Key].files = Put(pending[Key].files, m, x)
          /\ pending'[Key].checkpoint = pending[Key].checkpoint
      BY <1>0, <1>1, <2>2 DEF PendingOK
    <3>2. n \in DOMAIN pending'[k].files /\ pending'[k].files[n] = pending[k].files[n]
      BY <1>1, <2>4, <3>1 DEF Put
    <3> QED BY <2>3, <2>4, <3>1, <3>2, StaysSame
  <2>5. CASE k # Key
    BY <1>3, <2>2, <2>5
  <2> QED BY <2>3, <2>4, <2>5
<1>7. CASE \E m \in Names : FileEvent(m)
  <2>1. PICK m \in Names : FileEvent(m)
    BY <1>7
  <2> DEFINE records == Put(attempt.records, m, Record(Stage.files[m]))
  <2>2. /\ attempt.step = "images" /\ m \notin DOMAIN attempt.records
        /\ attempt' = [attempt EXCEPT !.records = records]
        /\ pending' = pending \/ pending' = [pending EXCEPT ![Key] = Save(records)]
    BY <2>1 DEF FileEvent
  <2>3. \A r \in DOMAIN attempt.records :
          r \in DOMAIN records /\ records[r] = attempt.records[r]
    BY <2>2 DEF Put
  <2> HIDE DEF records
  <2>4. attempt'.todo = attempt.todo
    BY <1>4, <2>2
  <2>5. CASE pending' = pending
    BY <1>2, <2>4, <2>5
  <2>6. CASE k = Key /\ pending' = [pending EXCEPT ![Key] = Save(records)]
    <3>1. pending'[Key] = [files |-> pending[Key].files, checkpoint |-> records]
      BY <1>0, <1>1, <2>6 DEF PendingOK, Save, Stage
    <3>2. Collecting /\ DOMAIN attempt.records \cup attempt.todo = Names
      BY <2>2 DEF Collecting, Fetching, Accounted, IInv, AttemptInv
    <3> QED BY <1>1, <2>3, <2>4, <2>6, <3>1, <3>2, StaysSaved
  <2>7. CASE k # Key
    BY <1>3, <2>2, <2>5, <2>7
  <2> QED BY <2>2, <2>5, <2>6, <2>7
<1>8. CASE ImagesEnd \/ ImporterFails
  <2>1. /\ attempt.step \in {"extracting", "images"} /\ attempt'.todo \subseteq attempt.todo
        /\ pending' = [pending EXCEPT ![Key] = Save(attempt.records)]
    BY <1>4, <1>8 DEF ImagesEnd, ImporterFails, Reaches, Ends, NoAttempt
  <2>2. CASE k = Key
    <3>1. pending'[Key] = [files |-> pending[Key].files, checkpoint |-> attempt.records]
      BY <1>0, <1>1, <2>1 DEF PendingOK, Save, Stage
    <3>2. Collecting /\ DOMAIN attempt.records \cup attempt.todo = Names
      BY <2>1 DEF Collecting, Fetching, Accounted, IInv, AttemptInv
    <3> QED BY <1>1, <2>1, <2>2, <3>1, <3>2, StaysSaved
  <2>3. CASE k # Key
    BY <1>3, <2>1, <2>3
  <2> QED BY <2>2, <2>3
<1>9. CASE ExtractMaster
  <2>1. attempt'.todo = attempt.todo
    BY <1>4, <1>9 DEF ExtractMaster, Reaches
  <2>2. CASE Master \in DOMAIN Stage.files
    <3>1. InEveryLink(Master, Stage.files[Master].made, Torn, "seen")
      BY <1>9, <2>2 DEF ExtractMaster
    <3> QED BY <1>0, <1>1, <2>1, <3>1, StaysWorn, Contents
  <2>3. CASE Master \notin DOMAIN Stage.files
    <3>1. PICK x : pending' = [pending EXCEPT ![Key].files = Put(@, Master, x)]
      BY <1>9, <2>3 DEF ExtractMaster
    <3>2. CASE k = Key
      <4>1. n # Master
        BY <1>1, <2>3, <3>2 DEF Stage
      <4>2. /\ pending'[Key].files = Put(pending[Key].files, Master, x)
            /\ pending'[Key].checkpoint = pending[Key].checkpoint
        BY <1>0, <1>1, <3>1 DEF PendingOK
      <4>3. n \in DOMAIN pending'[k].files /\ pending'[k].files[n] = pending[k].files[n]
        BY <1>1, <3>2, <4>1, <4>2 DEF Put
      <4> QED BY <2>1, <3>2, <4>2, <4>3, StaysSame
    <3>3. CASE k # Key
      BY <1>3, <3>1, <3>3
    <3> QED BY <3>2, <3>3
  <2> QED BY <2>2, <2>3
<1>10. CASE MasterExtracted
  <2> DEFINE made == Stage.files[Master].made
             x == [id |-> Identity(Master), state |-> Whole, stamp |-> Stamp(Whole)]
             records == Put(attempt.records, Master, x)
  <2>1. /\ attempt.step = "extracting"
        /\ attempt' = [attempt EXCEPT !.records = records, !.todo = @ \ {Master},
                                      !.step = JobAfter(attempt.todo \ {Master})]
        /\ pending' = [j \in Keys |->
             [pending[j] EXCEPT !.files = Changed(@, Master, made, Whole, "seen"),
                                !.checkpoint = IF j = Key THEN records ELSE @]]
    BY <1>10 DEF MasterExtracted
  <2>2. \A r \in DOMAIN attempt.records \ {Master} :
          r \in DOMAIN records /\ records[r] = attempt.records[r]
    BY DEF Put
  <2> HIDE DEF records, made
  <2>3. attempt'.todo \subseteq attempt.todo
    BY <1>4, <2>1
  <2>4. /\ Collecting /\ Master \in attempt.todo
        /\ DOMAIN attempt.records \cup attempt.todo = Names
    BY <2>1 DEF Collecting, Fetching, Accounted, IInv, AttemptInv
  <2>5. /\ pending'[k].files = Changed(pending[k].files, Master, made, Whole, "seen")
        /\ pending'[k].checkpoint = IF k = Key THEN records ELSE pending[k].checkpoint
    <3>1. pending'[k] = [pending[k] EXCEPT !.files = Changed(@, Master, made, Whole, "seen"),
                              !.checkpoint = IF k = Key THEN records ELSE @]
      BY <2>1
    <3> QED BY <1>1, <3>1
  <2>6. CASE n # Master
    <3>1. n \in DOMAIN pending'[k].files /\ pending'[k].files[n] = pending[k].files[n]
      BY <1>1, <2>5, <2>6 DEF Changed
    <3>2. CASE k = Key
      BY <1>1, <2>2, <2>3, <2>4, <2>5, <2>6, <3>1, <3>2, StaysSaved
    <3>3. CASE k # Key
      BY <2>3, <2>5, <3>1, <3>3, StaysSame
    <3> QED BY <3>2, <3>3
  <2>7. CASE n = Master /\ k # Key
    <3>1. pending[k].files[Master].state # Torn
      BY <1>1, <2>7
    <3>2. pending[k].files[Master].made # made
      BY <1>1, <2>1, <2>7, <3>1 DEF Extracting, IInv, AttemptInv, made
    <3>3. pending'[k].files = pending[k].files
      BY <2>5, <3>2, NotLinked
    <3> QED BY <1>1, <2>3, <2>5, <2>7, <3>3, StaysSame
  <2> QED BY <2>4, <2>6, <2>7
<1>11. CASE Publish
  <2>1. CASE published[Key] = NoGeneration
    <3>1. /\ published' = [published EXCEPT ![Key] =
                            [files |-> Stage.files, receipt |-> attempt.records]]
          /\ pending' = [pending EXCEPT ![Key] = NoStage]
      BY <1>11, <2>1 DEF Publish
    <3>2. CASE k = Key
      <4>1. published'[k].receipt = attempt.records
        BY <1>0, <3>1, <3>2 DEF PublishedOK
      <4>2. DOMAIN attempt.records = Names
        BY <1>11 DEF Publish, Accounted, IInv, AttemptInv
      <4> QED BY <4>1, <4>2, EmptyIs
    <3>3. CASE k # Key
      BY <1>3, <3>1, <3>3
    <3> QED BY <3>2, <3>3
  <2>2. CASE published[Key] # NoGeneration
    BY <1>2, <1>4, <1>11, <2>2 DEF Publish, Ends, NoAttempt
  <2> QED BY <2>1, <2>2
<1>12. CASE Damage
  <2> DEFINE left(how) == IF how = "seen" /\ ~Running THEN Torn ELSE 2 + faults
  <2>1. PICK m \in Names, made \in 0..imports, how \in {"seen", "unseen"} :
          /\ Linked(pending[k].files, m, made) => pending[k].files[m].state = Whole
          /\ InEveryLink(m, made, left(how), how)
          /\ \E f : attempt' = [attempt EXCEPT !.aside.files = f]
    BY <1>12 DEF Damage
  <2>2. attempt'.todo = attempt.todo
    BY <1>4, <2>1
  <2>3. left(how) # Whole /\ left(how) \in Nat
    BY <1>0, Contents DEF RestOK, Whole
  <2>4. n = m /\ pending[k].files[n].made = made => pending[k].files[n].state # left(how)
    BY <1>1, <2>1, <2>3 DEF Linked
  <2> HIDE DEF left
  <2> QED BY <1>0, <2>1, <2>2, <2>3, <2>4, StaysWorn
<1>13. CASE Inspect
  <2>1. pending' = pending \/ pending' = [pending EXCEPT ![Key] = pending[Key]]
    BY <1>13 DEF Inspect, Disk, Opened, Stage
  <2>2. pending' = pending
    BY <1>0, <2>1 DEF PendingOK
  <2>3. attempt'.todo \subseteq attempt.todo
    BY <1>4, <1>13 DEF Inspect, Ends, Reaches, NoAttempt
  <2> QED BY <1>2, <2>2, <2>3
<1>14. CASE Validate \/ SetAside \/ Activate \/ Settle \/ Prune \/ PruneFails \/ PublishFails
  <2>1. pending' = pending
    BY <1>14 DEF Validate, SetAside, Activate, Settle, Prune, PruneFails, PublishFails, Disk
  <2>2. attempt'.todo \subseteq attempt.todo
    <3>1. CASE Validate \/ SetAside
      BY <1>4, <3>1 DEF Validate, SetAside
    <3>2. CASE Activate \/ Settle
      BY <1>4, <3>2 DEF Activate, Settle, Reaches, Ends, NoAttempt
    <3>3. CASE Prune \/ PruneFails \/ PublishFails
      BY <1>4, <3>3 DEF Prune, PruneFails, PublishFails, Ends, NoAttempt
    <3> QED BY <1>14, <3>1, <3>2, <3>3
  <2> QED BY <1>2, <2>1, <2>2
<1>15. CASE Prepare \/ Close \/ StepFails \/ Crash \/ (\E j \in Keys : Open(j)) \/ UNCHANGED vars
  <2>1. pending' = pending
    BY <1>15 DEF Prepare, Close, StepFails, Crash, Open, vars, Disk
  <2>2. attempt'.todo \subseteq attempt.todo
    BY <1>4, <1>15 DEF Prepare, Close, StepFails, Crash, Open, vars, Ends, NoAttempt
  <2> QED BY <1>2, <2>1, <2>2
<1> QED BY <1>5, <1>6, <1>7, <1>8, <1>9, <1>10, <1>11, <1>12, <1>13, <1>14, <1>15 DEF Next, Work

(* Imported work is not lost: what the checkpoint records and the pending  *)
(* directory has is resumed, until a generation is published, by the       *)
(* attempts that follow a crash, a failed importer or a changed profile    *)
(* (the reuse and the checkpoints of Prepare).                             *)
THEOREM ImportedWorkKept ==
  Spec => WorkKept
<1>1. IInv /\ [Next]_vars =>
        [\A k \in Keys, n \in Names :
           ValidFile(pending[k].files, pending[k].checkpoint, n) =>
             \/ /\ ValidFile(pending'[k].files, pending'[k].checkpoint, n)
                /\ k = Key => n \notin attempt'.todo \ attempt.todo
             \/ k = Key /\ n \in attempt.todo
             \/ published'[k].receipt # Empty
             \/ /\ n \in DOMAIN pending'[k].files
                /\ pending'[k].files[n].state # pending[k].files[n].state]_vars
  BY Works DEF Stays
<1> QED BY <1>1, Invariant, PTL DEF Spec, WorkKept
=============================================================================
