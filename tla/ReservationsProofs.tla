------------------------- MODULE ReservationsProofs -------------------------
(***************************************************************************)
(* Proofs about Reservations, for any number of emulators, profiles,       *)
(* credentials and sessions.  ExclusiveReservation is inductive on its     *)
(* own; what a working session belongs to is not, and needs to know that a *)
(* device account names its emulator.  StoreInv is their conjunction.      *)
(*                                                                         *)
(* The last part is about Recorder, for any number of pages, exchanges and *)
(* events and any limit of the timeline.                                   *)
(***************************************************************************)
EXTENDS Reservations, Recorder, FiniteSetTheorems, WellFoundedInduction, TLAPS

StoreType == /\ profile \in [Players -> {"unused", "live", "deleted"}]
             /\ emulator \in [Serials -> Reservation]
             /\ activeProfile \in [Account -> Players \cup {NoPlayer}]
             /\ sessions \subseteq Session
             /\ issued \in 0..MaxSessions
             /\ lastDevice \in Account \cup {NoAccount}

ProcsType ==
  /\ login \in [Serials -> [player : Players, account : Account] \cup {Idle}]
  /\ request \in [Serials -> Session \cup {Idle}]
  /\ adminOpen \in [Serials -> [pc : {"idle", "selected", "revoking"},
                                device : Account \cup {NoAccount}]]
  /\ accepted \in (Serials \X Players) \cup {<<>>}

\* What every transaction of the store keeps.
StoreInv == /\ StoreType
            /\ ExclusiveReservation
            /\ SessionsFollowReservation
            /\ OneSessionPerEmulator
            /\ SessionsResolve
            /\ AccountsNamespaced

IInv == StoreInv /\ ProcsType

\* A device account of one emulator is not a device account of another.
LEMMA AccountOfType ==
  ASSUME NEW s \in Serials, NEW c \in Credentials
  PROVE  AccountOf(s, c) \in Account /\ AccountOf(s, c)[1] = s
BY DEF AccountOf, Account

\* The fields of a reservation row and of a session.
LEMMA RowFields ==
  /\ \A r \in Reservation : /\ r.player \in Players \cup {NoPlayer}
                            /\ r.account \in Account \cup {NoAccount}
                            /\ r.active \in BOOLEAN
  /\ \A x \in Session : x.player \in Players /\ x.account \in Account
BY DEF Reservation, Session

LEMMA InitIInv == Init => IInv
<1> SUFFICES ASSUME Init PROVE IInv
  OBVIOUS
<1> USE DEF Init
<1>1. StoreType
  BY ReservationsAssumption DEF StoreType, NoReservation, Reservation
<1>2. ProcsType
  BY DEF ProcsType, AdminIdle
<1>3. ExclusiveReservation
  BY DEF ExclusiveReservation, Holds, NoReservation
<1>4. SessionsFollowReservation /\ OneSessionPerEmulator /\ SessionsResolve
  BY DEF SessionsFollowReservation, OneSessionPerEmulator, SessionsResolve
<1>5. AccountsNamespaced
  BY DEF AccountsNamespaced, NoReservation
<1> QED
  BY <1>1, <1>2, <1>3, <1>4, <1>5 DEF IInv, StoreInv

\* Writing a reservation row with the same device account keeps the database
\* sound: the sessions that could be left without a reservation are revoked.
LEMMA ReplaceRow ==
  ASSUME StoreInv, NEW s \in Serials, NEW row \in Reservation,
         row.account = emulator[s].account,
         row.active => \A t \in Serials \ {s} : ~Holds(t, row.player),
         emulator' = [emulator EXCEPT ![s] = row],
         sessions' = Revoke({emulator[s].account}),
         UNCHANGED <<profile, activeProfile, issued, lastDevice>>
  PROVE  StoreInv'
<1>1. /\ emulator'[s] = row
      /\ \A t \in Serials : t # s => emulator'[t] = emulator[t]
      /\ emulator' \in [Serials -> Reservation]
  BY DEF StoreInv, StoreType
<1>2. /\ sessions' \subseteq sessions
      /\ \A x \in sessions' : x.account # emulator[s].account
  BY DEF Revoke
<1>3. StoreType'
  BY <1>1, <1>2 DEF StoreInv, StoreType
<1>4. ExclusiveReservation'
  BY <1>1 DEF StoreInv, ExclusiveReservation, Holds
<1>5. SessionsFollowReservation'
  <2> SUFFICES ASSUME NEW x \in sessions'
               PROVE \E t \in Serials : (Holds(t, x.player) /\ emulator[t].account = x.account)'
    BY DEF SessionsFollowReservation
  <2>1. PICK t \in Serials : Holds(t, x.player) /\ emulator[t].account = x.account
    BY <1>2 DEF StoreInv, SessionsFollowReservation
  <2>2. t # s
    BY <1>2, <2>1
  <2> QED
    BY <1>1, <2>1, <2>2 DEF Holds
<1>6. OneSessionPerEmulator' /\ SessionsResolve'
  BY <1>2 DEF StoreInv, OneSessionPerEmulator, SessionsResolve
<1>7. AccountsNamespaced'
  BY <1>1 DEF StoreInv, AccountsNamespaced
<1> QED
  BY <1>3, <1>4, <1>5, <1>6, <1>7 DEF StoreInv

LEMMA SelectKeeps ==
  ASSUME StoreInv, NEW s \in Serials, NEW p \in Players, NEW a \in BOOLEAN,
         SelectEmulatorPlayer(s, p, a)
  PROVE  StoreInv'
<1> DEFINE row == [player |-> p, account |-> emulator[s].account, active |-> a]
<1>1. emulator[s] \in Reservation
  BY DEF StoreInv, StoreType
<1>2. row \in Reservation /\ row.account = emulator[s].account /\ row.player = p
  BY <1>1, RowFields DEF Reservation
<1>3. emulator' = [emulator EXCEPT ![s] = row]
  BY DEF SelectEmulatorPlayer
<1> HIDE DEF row
<1> QED
  BY <1>2, <1>3, ReplaceRow DEF SelectEmulatorPlayer

LEMMA ReleaseKeeps ==
  ASSUME StoreInv, NEW s \in Serials, ReleaseEmulator(s)
  PROVE  StoreInv'
<1> DEFINE row == [player |-> emulator[s].player, account |-> emulator[s].account,
                   active |-> FALSE]
<1>1. emulator[s] \in Reservation
  BY DEF StoreInv, StoreType
<1>2. row \in Reservation /\ row.account = emulator[s].account /\ ~row.active
  BY <1>1, RowFields DEF Reservation
<1>3. emulator' = [emulator EXCEPT ![s] = row]
  BY DEF ReleaseEmulator
<1> HIDE DEF row
<1> QED
  BY <1>2, <1>3, ReplaceRow DEF ReleaseEmulator

\* Fewer sessions are never a problem.
LEMMA FewerSessionsKeep ==
  ASSUME StoreInv, sessions' \subseteq sessions,
         UNCHANGED <<profile, emulator, activeProfile, issued>>,
         lastDevice' \in Account \cup {NoAccount}
  PROVE  StoreInv'
<1>1. StoreType'
  BY DEF StoreInv, StoreType
<1>2. ExclusiveReservation' /\ AccountsNamespaced'
  BY DEF StoreInv, ExclusiveReservation, Holds, AccountsNamespaced
<1>3. SessionsFollowReservation'
  BY DEF StoreInv, SessionsFollowReservation, Holds
<1>4. OneSessionPerEmulator' /\ SessionsResolve'
  BY DEF StoreInv, OneSessionPerEmulator, SessionsResolve
<1> QED
  BY <1>1, <1>2, <1>3, <1>4 DEF StoreInv

\* A login replaces the session of the emulator.  A session that is kept has
\* another device account than the emulator's old one, so its reservation is
\* another emulator's: it is undisturbed, and is on a differently named account.
LEMMA AuthorizeKeeps ==
  ASSUME StoreInv, NEW s \in Serials, NEW c \in Credentials, AuthorizeEmulator(s, c)
  PROVE  /\ StoreInv'
         /\ emulator[s].player \in Players
<1> DEFINE acct == AccountOf(s, c)
           old == emulator[s]
           new == [id |-> issued + 1, player |-> old.player, account |-> acct]
           row == [player |-> old.player, account |-> acct, active |-> old.active]
<1>1. acct \in Account /\ acct[1] = s
  BY AccountOfType
<1>2. old \in Reservation /\ old.active /\ old.player # NoPlayer
  BY DEF StoreInv, StoreType, AuthorizeEmulator, Authorize, Reserved
<1>3. old.player \in Players
  BY <1>2, RowFields
<1>4. /\ issued < MaxSessions /\ issued' = issued + 1
      /\ activeProfile' = [activeProfile EXCEPT ![acct] = old.player]
      /\ sessions' = Revoke({acct, old.account}) \cup {new}
      /\ emulator' = [emulator EXCEPT ![s] = row]
      /\ UNCHANGED <<profile, lastDevice>>
  BY DEF AuthorizeEmulator, Authorize
<1>5. /\ new \in Session /\ new.player = old.player /\ new.account = acct
      /\ row \in Reservation /\ row.player = old.player /\ row.account = acct
      /\ row.active = old.active
  <2>1. issued \in 0..MaxSessions /\ MaxSessions \in Nat
    BY ReservationsAssumption DEF StoreInv, StoreType
  <2>2. issued + 1 \in 1..MaxSessions
    BY <1>4, <2>1
  <2>3. old.active \in BOOLEAN
    BY <1>2, RowFields
  <2> QED
    BY <1>1, <1>3, <2>2, <2>3 DEF Session, Reservation
<1> HIDE DEF acct, old, new, row
<1>6. /\ emulator'[s] = row
      /\ \A t \in Serials : t # s => emulator'[t] = emulator[t]
      /\ emulator' \in [Serials -> Reservation]
  BY <1>4, <1>5 DEF StoreInv, StoreType
<1>7. \A x \in sessions' : \/ x = new
                           \/ x \in sessions /\ x.account # acct /\ x.account # old.account
  BY <1>4 DEF Revoke
<1>8. StoreType'
  <2>1. sessions' \subseteq Session
    BY <1>5, <1>7 DEF StoreInv, StoreType
  <2>2. activeProfile' \in [Account -> Players \cup {NoPlayer}]
    BY <1>1, <1>3, <1>4 DEF StoreInv, StoreType
  <2>3. issued' \in 0..MaxSessions
    BY <1>4, ReservationsAssumption DEF StoreInv, StoreType
  <2> QED
    BY <1>4, <1>6, <2>1, <2>2, <2>3 DEF StoreInv, StoreType
<1>9. \A t \in Serials, p \in Players : Holds(t, p)' <=> Holds(t, p)
  BY <1>5, <1>6 DEF Holds, old
<1>10. ExclusiveReservation'
  BY <1>9 DEF StoreInv, ExclusiveReservation
\* A kept session belongs to another emulator than s.
<1>11. \A x \in sessions' : x # new =>
          \E t \in Serials \ {s} : /\ Holds(t, x.player)
                                   /\ emulator[t].account = x.account
                                   /\ x.account[1] = t
  <2> SUFFICES ASSUME NEW x \in sessions', x # new
               PROVE  \E t \in Serials \ {s} : /\ Holds(t, x.player)
                                               /\ emulator[t].account = x.account
                                               /\ x.account[1] = t
    OBVIOUS
  <2>1. x \in sessions /\ x.account # old.account
    BY <1>7
  <2>2. PICK t \in Serials : Holds(t, x.player) /\ emulator[t].account = x.account
    BY <2>1 DEF StoreInv, SessionsFollowReservation
  <2>3. t # s
    BY <2>1, <2>2 DEF old
  <2>4. x.account # NoAccount
    BY <2>1, RowFields, ReservationsAssumption DEF StoreInv, StoreType, Account
  <2>5. x.account[1] = t
    BY <2>2, <2>4 DEF StoreInv, AccountsNamespaced
  <2> QED
    BY <2>2, <2>3, <2>5
<1>12. SessionsFollowReservation'
  <2> SUFFICES ASSUME NEW x \in sessions'
               PROVE \E t \in Serials : (Holds(t, x.player) /\ emulator[t].account = x.account)'
    BY DEF SessionsFollowReservation
  <2>1. CASE x = new
    BY <2>1, <1>2, <1>5, <1>6 DEF Holds
  <2>2. CASE x # new
    BY <2>2, <1>6, <1>11 DEF Holds
  <2> QED
    BY <2>1, <2>2
<1>13. OneSessionPerEmulator'
  <2> SUFFICES ASSUME NEW x \in sessions', NEW y \in sessions',
                      x.account[1] = y.account[1]
               PROVE  x = y
    BY DEF OneSessionPerEmulator
  <2>1. \A z \in sessions' : z.account[1] = s => z = new
    BY <1>11
  <2>2. CASE x = new \/ y = new
    BY <1>1, <1>5, <2>1, <2>2
  <2>3. CASE x # new /\ y # new
    BY <1>7, <2>3 DEF StoreInv, OneSessionPerEmulator
  <2> QED
    BY <2>2, <2>3
<1>14. SessionsResolve'
  <2> SUFFICES ASSUME NEW x \in sessions'
               PROVE  activeProfile'[x.account] = x.player
    BY DEF SessionsResolve
  <2>1. CASE x = new
    BY <1>1, <1>4, <1>5, <2>1 DEF StoreInv, StoreType
  <2>2. CASE x # new
    <3>1. x \in sessions /\ x.account # acct /\ x.account \in Account
      BY <1>7, <2>2, RowFields DEF StoreInv, StoreType
    <3> QED
      BY <1>1, <1>4, <3>1 DEF StoreInv, StoreType, SessionsResolve
  <2> QED
    BY <2>1, <2>2
<1>15. AccountsNamespaced'
  BY <1>1, <1>5, <1>6 DEF StoreInv, AccountsNamespaced
<1> QED
  BY <1>3, <1>8, <1>10, <1>12, <1>13, <1>14, <1>15 DEF StoreInv, old

\* No emulator holds the deleted profile, so no reservation changes; a session
\* on a device account that loses the profile would be one of that profile.
LEMMA DeleteKeeps ==
  ASSUME StoreInv, NEW p \in Players, DeletePlayer(p)
  PROVE  StoreInv'
<1> DEFINE orphans == {a \in Account : activeProfile[a] = p}
           others == {q \in Players \ {p} : Live(q)}
           heirs == IF others = {} THEN {NoPlayer} ELSE others
<1>1. PICK heir \in [orphans -> heirs] :
         activeProfile' = [a \in Account |-> IF a \in orphans THEN heir[a]
                                             ELSE activeProfile[a]]
  BY DEF DeletePlayer
<1>2. /\ \A s \in Serials : ~Holds(s, p)
      /\ profile' = [profile EXCEPT ![p] = "deleted"]
      /\ UNCHANGED <<issued, lastDevice>>
      /\ \A x \in sessions' : x \in sessions /\ x.player # p
  BY DEF DeletePlayer, Revoke
<1>3. \A s \in Serials :
        /\ emulator'[s].player = IF emulator[s].player = p THEN NoPlayer
                                 ELSE emulator[s].player
        /\ emulator'[s].account = emulator[s].account
        /\ emulator'[s].active = emulator[s].active
  BY DEF DeletePlayer
<1>4. emulator' \in [Serials -> Reservation]
  <2>1. \A s \in Serials : emulator[s] \in Reservation
    BY DEF StoreInv, StoreType
  <2>2. \A s \in Serials :
          [player  |-> IF emulator[s].player = p THEN NoPlayer ELSE emulator[s].player,
           account |-> emulator[s].account,
           active  |-> emulator[s].active] \in Reservation
    BY <2>1, RowFields DEF Reservation
  <2> QED
    BY <2>2 DEF DeletePlayer
<1>5. \A s \in Serials, q \in Players : q # p => (Holds(s, q)' <=> Holds(s, q))
  BY <1>3, ReservationsAssumption DEF Holds
<1>6. \A s \in Serials : ~Holds(s, p)'
  BY <1>2, <1>3, ReservationsAssumption DEF Holds
<1>7. heirs \subseteq Players \cup {NoPlayer}
  OBVIOUS
<1> HIDE DEF heirs
<1>8. StoreType'
  <2>1. activeProfile' \in [Account -> Players \cup {NoPlayer}]
    BY <1>1, <1>7 DEF StoreInv, StoreType
  <2>2. profile' \in [Players -> {"unused", "live", "deleted"}]
    BY <1>2 DEF StoreInv, StoreType
  <2> QED
    BY <1>2, <1>4, <2>1, <2>2 DEF StoreInv, StoreType
<1>9. ExclusiveReservation'
  BY <1>5, <1>6 DEF StoreInv, ExclusiveReservation
<1>10. SessionsFollowReservation'
  <2> SUFFICES ASSUME NEW x \in sessions'
               PROVE \E t \in Serials : (Holds(t, x.player) /\ emulator[t].account = x.account)'
    BY DEF SessionsFollowReservation
  <2>1. x \in sessions /\ x.player # p /\ x.player \in Players
    BY <1>2, RowFields DEF StoreInv, StoreType
  <2>2. PICK t \in Serials : Holds(t, x.player) /\ emulator[t].account = x.account
    BY <2>1 DEF StoreInv, SessionsFollowReservation
  <2> QED
    BY <1>3, <1>5, <2>1, <2>2
<1>11. OneSessionPerEmulator'
  BY <1>2 DEF StoreInv, OneSessionPerEmulator
<1>12. SessionsResolve'
  <2> SUFFICES ASSUME NEW x \in sessions'
               PROVE  activeProfile'[x.account] = x.player
    BY DEF SessionsResolve
  <2>1. x.account \in Account /\ activeProfile[x.account] = x.player /\ x.player # p
    BY <1>2, RowFields DEF StoreInv, StoreType, SessionsResolve
  <2> QED
    BY <1>1, <2>1
<1>13. AccountsNamespaced'
  BY <1>3 DEF StoreInv, AccountsNamespaced
<1> QED
  BY <1>8, <1>9, <1>10, <1>11, <1>12, <1>13 DEF StoreInv

LEMMA CreateKeeps ==
  ASSUME StoreInv, NEW p \in Players, CreatePlayer(p)
  PROVE  StoreInv'
<1>1. StoreType'
  BY DEF StoreInv, StoreType, CreatePlayer
<1>2. ExclusiveReservation' /\ AccountsNamespaced'
  BY DEF StoreInv, ExclusiveReservation, Holds, AccountsNamespaced, CreatePlayer
<1>3. SessionsFollowReservation'
  BY DEF StoreInv, SessionsFollowReservation, Holds, CreatePlayer
<1>4. OneSessionPerEmulator' /\ SessionsResolve'
  BY DEF StoreInv, OneSessionPerEmulator, SessionsResolve, CreatePlayer
<1> QED
  BY <1>1, <1>2, <1>3, <1>4 DEF StoreInv

-----------------------------------------------------------------------------
(* Every step keeps the invariant.                                         *)

LEMMA NextIInv == IInv /\ [Next]_vars => IInv'
<1> SUFFICES ASSUME IInv, [Next]_vars PROVE IInv'
  OBVIOUS
<1>0. StoreInv /\ ProcsType
  BY DEF IInv
<1>1. ASSUME NEW s \in Serials, NEW p \in Players, Open(s, p) \/ Reselect(s, p)
      PROVE  IInv'
  <2>1. StoreInv'
    BY <1>0, <1>1, SelectKeeps DEF Open, Reselect
  <2>2. ProcsType'
    BY <1>0, <1>1 DEF Open, Reselect, procs, ProcsType
  <2> QED
    BY <2>1, <2>2 DEF IInv
<1>2. ASSUME NEW s \in Serials, NEW p \in Players, AdminSelect(s, p)
      PROVE  IInv'
  <2>1. StoreInv'
    BY <1>0, <1>2, SelectKeeps DEF AdminSelect
  <2>2. ProcsType'
    BY <1>0, <1>2 DEF AdminSelect, ProcsType
  <2> QED
    BY <2>1, <2>2 DEF IInv
<1>3. ASSUME NEW s \in Serials, Release(s)
      PROVE  IInv'
  <2>1. StoreInv'
    BY <1>0, <1>3, ReleaseKeeps DEF Release
  <2>2. ProcsType'
    BY <1>0, <1>3 DEF Release, procs, ProcsType
  <2> QED
    BY <2>1, <2>2 DEF IInv
<1>4. ASSUME NEW s \in Serials, NEW c \in Credentials, Login(s, c)
      PROVE  IInv'
  <2>1. StoreInv' /\ emulator[s].player \in Players
    BY <1>0, <1>4, AuthorizeKeeps DEF Login
  <2>2. [player |-> emulator[s].player, account |-> AccountOf(s, c)]
          \in [player : Players, account : Account]
    BY <2>1, AccountOfType
  <2>3. ProcsType'
    BY <1>0, <1>4, <2>2 DEF Login, ProcsType
  <2> QED
    BY <2>1, <2>3 DEF IInv
<1>5. ASSUME NEW s \in Serials, RecordAuthorization(s)
      PROVE  IInv'
  <2>1. login[s].account \in Account
    BY <1>0, <1>5 DEF RecordAuthorization, ProcsType
  <2>2. StoreInv'
    BY <1>0, <1>5, <2>1, FewerSessionsKeep DEF RecordAuthorization
  <2>3. ProcsType'
    BY <1>0, <1>5 DEF RecordAuthorization, ProcsType
  <2> QED
    BY <2>2, <2>3 DEF IInv
<1>6. ASSUME NEW s \in Serials, NEW x \in sessions, LookUpSession(s, x)
      PROVE  IInv'
  <2>1. StoreInv'
    BY <1>0, <1>6, FewerSessionsKeep DEF LookUpSession, store, StoreInv, StoreType
  <2>2. ProcsType'
    BY <1>0, <1>6 DEF LookUpSession, ProcsType, StoreInv, StoreType
  <2> QED
    BY <2>1, <2>2 DEF IInv
<1>7. ASSUME NEW s \in Serials, CheckReservation(s)
      PROVE  IInv'
  <2>1. StoreInv'
    BY <1>0, <1>7, FewerSessionsKeep DEF CheckReservation, store, StoreInv, StoreType
  <2>2. request[s].player \in Players
    BY <1>0, <1>7, RowFields DEF CheckReservation, ProcsType
  <2>3. ProcsType'
    BY <1>0, <1>7, <2>2 DEF CheckReservation, ProcsType
  <2> QED
    BY <2>1, <2>3 DEF IInv
<1>8. ASSUME NEW s \in Serials, AdminCurrentDevice(s)
      PROVE  IInv'
  <2>1. StoreInv'
    BY <1>0, <1>8, FewerSessionsKeep DEF AdminCurrentDevice, store, StoreInv, StoreType
  <2>2. ProcsType'
    BY <1>0, <1>8 DEF AdminCurrentDevice, ProcsType, StoreInv, StoreType
  <2> QED
    BY <2>1, <2>2 DEF IInv
<1>9. ASSUME NEW s \in Serials, AdminRevoke(s)
      PROVE  IInv'
  <2>1. StoreInv'
    BY <1>0, <1>9, FewerSessionsKeep
       DEF AdminRevoke, RevokeDeviceSessions, Revoke, StoreInv, StoreType
  <2>2. ProcsType'
    BY <1>0, <1>9 DEF AdminRevoke, AdminIdle, ProcsType
  <2> QED
    BY <2>1, <2>2 DEF IInv
<1>10. ASSUME NEW p \in Players, Create(p) \/ Delete(p)
       PROVE  IInv'
  <2>1. StoreInv'
    BY <1>0, <1>10, CreateKeeps, DeleteKeeps DEF Create, Delete
  <2>2. ProcsType'
    BY <1>0, <1>10 DEF Create, Delete, procs, ProcsType
  <2> QED
    BY <2>1, <2>2 DEF IInv
<1>11. ASSUME NEW x \in sessions, Expire(x)
       PROVE  IInv'
  <2>1. StoreInv'
    BY <1>0, <1>11, FewerSessionsKeep DEF Expire, StoreInv, StoreType
  <2>2. ProcsType'
    BY <1>0, <1>11 DEF Expire, procs, ProcsType
  <2> QED
    BY <2>1, <2>2 DEF IInv
<1>12. ASSUME UNCHANGED vars
       PROVE  IInv'
  <2>1. StoreInv'
    BY <1>0, <1>12, FewerSessionsKeep DEF vars, StoreInv, StoreType
  <2>2. ProcsType'
    BY <1>0, <1>12 DEF vars, ProcsType
  <2> QED
    BY <2>1, <2>2 DEF IInv
<1> QED
  BY <1>1, <1>2, <1>3, <1>4, <1>5, <1>6, <1>7, <1>8, <1>9, <1>10, <1>11, <1>12
     DEF Next, Acts

LEMMA Inductive == Spec => []IInv
BY InitIInv, NextIInv, PTL DEF Spec

\* Every variable keeps its type: in particular a game only ever authorizes
\* with a profile that is selected on its emulator.
THEOREM TypeCorrect == Spec => []TypeOK
<1>1. IInv => TypeOK
  BY DEF IInv, StoreInv, StoreType, ProcsType, TypeOK
<1> QED
  BY <1>1, Inductive, PTL

\* No profile is ever reserved by two emulators (emulators.go:80), whatever the
\* panel, the servers and their administration interleave.
THEOREM ReservationsExclusive == Spec => []ExclusiveReservation
<1>1. IInv => ExclusiveReservation
  BY DEF IInv, StoreInv
<1> QED
  BY <1>1, Inductive, PTL

\* No working session outlives the reservation it was issued under, and cloned
\* credentials never carry one to another emulator.
THEOREM SessionsReserved == Spec => []SessionsFollowReservation
<1>1. IInv => SessionsFollowReservation
  BY DEF IInv, StoreInv
<1> QED
  BY <1>1, Inductive, PTL

\* A login leaves its emulator exactly one working session.
THEOREM SessionsUnique == Spec => []OneSessionPerEmulator
<1>1. IInv => OneSessionPerEmulator
  BY DEF IInv, StoreInv
<1> QED
  BY <1>1, Inductive, PTL

\* A working session names the profile its device account is active with.
THEOREM SessionsAlwaysResolve == Spec => []SessionsResolve
<1>1. IInv => SessionsResolve
  BY DEF IInv, StoreInv
<1> QED
  BY <1>1, Inductive, PTL

-----------------------------------------------------------------------------
(* What is done for one emulator leaves the other emulators' sessions.     *)

\* Revoking the device accounts of s spares the sessions issued to others.
LEMMA RevokeSparesOthers ==
  ASSUME StoreInv, NEW s \in Serials, NEW accounts,
         \A a \in accounts : a = NoAccount \/ a[1] = s,
         Revoke(accounts) \subseteq sessions',
         NEW x \in sessions, x.account[1] # s
  PROVE  x \in sessions'
<1>1. x.account \in Account /\ x.account # NoAccount
  BY RowFields, ReservationsAssumption DEF StoreInv, StoreType, Account
<1>2. x.account \notin accounts
  BY <1>1
<1> QED
  BY <1>2 DEF Revoke

LEMMA ActsSpareOthers ==
  ASSUME StoreInv, NEW s \in Serials, Acts(s), ~AdminRevoke(s),
         NEW x \in sessions, x.account[1] # s
  PROVE  x \in sessions'
<1> DEFINE own == emulator[s].account
<1>1. own = NoAccount \/ own[1] = s
  BY DEF StoreInv, AccountsNamespaced
<1>2. ASSUME NEW p \in Players, Open(s, p) \/ Reselect(s, p) \/ AdminSelect(s, p)
      PROVE  x \in sessions'
  <2>1. Revoke({own}) \subseteq sessions'
    BY <1>2 DEF Open, Reselect, AdminSelect, SelectEmulatorPlayer
  <2> QED
    BY <1>1, <2>1, RevokeSparesOthers
<1>3. CASE Release(s)
  <2>1. Revoke({own}) \subseteq sessions'
    BY <1>3 DEF Release, ReleaseEmulator
  <2> QED
    BY <1>1, <2>1, RevokeSparesOthers
<1>4. ASSUME NEW c \in Credentials, Login(s, c)
      PROVE  x \in sessions'
  <2>1. Revoke({AccountOf(s, c), own}) \subseteq sessions'
    BY <1>4 DEF Login, AuthorizeEmulator, Authorize
  <2>2. AccountOf(s, c)[1] = s
    BY AccountOfType
  <2> QED
    BY <1>1, <2>1, <2>2, RevokeSparesOthers
<1>5. ASSUME \/ RecordAuthorization(s) \/ CheckReservation(s) \/ AdminCurrentDevice(s)
             \/ \E y \in sessions : LookUpSession(s, y)
      PROVE  x \in sessions'
  BY <1>5 DEF RecordAuthorization, CheckReservation, AdminCurrentDevice, LookUpSession, store
<1> QED
  BY <1>2, <1>3, <1>4, <1>5 DEF Acts

\* "Other emulators keep playing" (emulators.go:81): selecting, releasing or
\* logging in on one emulator never ends another emulator's session.
THEOREM OthersKeepPlaying == Spec => OtherDevicesKeepPlaying
<1>1. IInv /\ [Next]_vars =>
        [\A s \in Serials : Acts(s) /\ ~AdminRevoke(s) => SparesOthers(s)]_vars
  BY ActsSpareOthers DEF IInv, SparesOthers
<1> QED
  BY <1>1, Inductive, PTL DEF Spec, OtherDevicesKeepPlaying

-----------------------------------------------------------------------------
(* The reservations implement ProfileLease.                                *)

\* The one emulator that holds a profile is its holder in the lease.
LEMMA HolderIs ==
  ASSUME StoreInv, NEW s \in Serials, NEW p \in Players
  PROVE  Holds(s, p) <=> HolderOf(p) = s
BY ReservationsAssumption DEF StoreInv, ExclusiveReservation, HolderOf

LEMMA HolderRange ==
  ASSUME NEW p \in Players PROVE HolderOf(p) \in Serials \cup {Nobody}
BY DEF HolderOf

\* Two states with the same reservations have the same holders.
LEMMA HolderFollows ==
  ASSUME StoreInv, StoreInv', NEW p \in Players, NEW f \in Serials \cup {Nobody},
         \A t \in Serials : Holds(t, p)' <=> f = t
  PROVE  HolderOf(p)' = f
<1>1. HolderOf(p)' \in Serials \cup {Nobody}
  BY DEF HolderOf
<1>2. \A t \in Serials : Holds(t, p)' <=> HolderOf(p)' = t
  BY ReservationsAssumption DEF StoreInv, ExclusiveReservation, HolderOf
<1> QED
  BY <1>1, <1>2, ReservationsAssumption

LEMMA InitMaps == Init => Lease!Init
<1> SUFFICES ASSUME Init PROVE Lease!Init
  OBVIOUS
<1>1. \A p \in Players : HolderOf(p) = Nobody
  BY DEF Init, NoReservation, Holds, HolderOf
<1> QED
  BY <1>1 DEF Init, Lease!Init

\* A step that changes no reservation and accepts no request.
LEMMA Stutters ==
  ASSUME StoreInv, StoreInv', UNCHANGED accepted,
         \A t \in Serials, q \in Players : Holds(t, q)' <=> Holds(t, q)
  PROVE  UNCHANGED Lease!leaseVars
<1>1. \A q \in Players : HolderOf(q)' = HolderOf(q)
  BY HolderIs, HolderRange, HolderFollows
<1> QED
  BY <1>1 DEF Lease!leaseVars

\* A step after which s holds nothing and nothing else changed hands.
LEMMA ReleaseMaps ==
  ASSUME StoreInv, StoreInv', UNCHANGED accepted, NEW s \in Serials,
         \A t \in Serials, q \in Players : Holds(t, q)' <=> t # s /\ Holds(t, q)
  PROVE  Lease!Release(s)
<1>1. \A q \in Players : HolderOf(q)' = IF HolderOf(q) = s THEN Nobody ELSE HolderOf(q)
  <2> TAKE q \in Players
  <2> DEFINE f == IF HolderOf(q) = s THEN Nobody ELSE HolderOf(q)
  <2>1. f \in Serials \cup {Nobody}
    BY HolderRange
  <2>2. \A t \in Serials : Holds(t, q)' <=> f = t
    BY HolderIs, ReservationsAssumption
  <2> QED
    BY <2>1, <2>2, HolderFollows
<1> QED
  BY <1>1 DEF Lease!Release

\* A step after which s holds p, which no other emulator held, and only p.
LEMMA AcquireMaps ==
  ASSUME StoreInv, StoreInv', UNCHANGED accepted, NEW s \in Serials, NEW p \in Players,
         \A t \in Serials \ {s} : ~Holds(t, p),
         \A t \in Serials, q \in Players :
            Holds(t, q)' <=> IF t = s THEN q = p ELSE Holds(t, q)
  PROVE  Lease!Acquire(s, p)
<1>1. HolderOf(p) \in {Nobody, s}
  BY HolderIs, HolderRange
<1>2. \A q \in Players : HolderOf(q)' = IF q = p THEN s
                                        ELSE IF HolderOf(q) = s THEN Nobody
                                        ELSE HolderOf(q)
  <2> TAKE q \in Players
  <2> DEFINE f == IF q = p THEN s ELSE IF HolderOf(q) = s THEN Nobody ELSE HolderOf(q)
  <2>1. f \in Serials \cup {Nobody}
    BY HolderRange
  <2>2. \A t \in Serials : Holds(t, q)' <=> f = t
    BY HolderIs, ReservationsAssumption
  <2> QED
    BY <2>1, <2>2, HolderFollows
<1> QED
  BY <1>1, <1>2 DEF Lease!Acquire

LEMMA SelectMaps ==
  ASSUME StoreInv, StoreInv', UNCHANGED accepted, NEW s \in Serials, NEW p \in Players,
         NEW a \in BOOLEAN, SelectEmulatorPlayer(s, p, a)
  PROVE  Lease!Next
<1>1. \A t \in Serials : /\ t # s => emulator'[t] = emulator[t]
                         /\ t = s => emulator'[t].active = a /\ emulator'[t].player = p
  BY DEF SelectEmulatorPlayer, StoreInv, StoreType
<1>2. CASE a = TRUE
  <2>1. Lease!Acquire(s, p)
    <3>1. \A t \in Serials \ {s} : ~Holds(t, p)
      BY DEF SelectEmulatorPlayer
    <3>2. \A t \in Serials, q \in Players :
            Holds(t, q)' <=> IF t = s THEN q = p ELSE Holds(t, q)
      BY <1>1, <1>2 DEF Holds
    <3> QED
      BY <3>1, <3>2, AcquireMaps
  <2> QED
    BY <2>1 DEF Lease!Next
<1>3. CASE a = FALSE
  <2>1. Lease!Release(s)
    BY <1>1, <1>3, ReleaseMaps DEF Holds
  <2> QED
    BY <2>1 DEF Lease!Next
<1> QED
  BY <1>2, <1>3

LEMMA StepMaps == IInv /\ IInv' /\ [Next]_vars => [Lease!Next]_Lease!leaseVars
<1> SUFFICES ASSUME IInv, IInv', [Next]_vars
             PROVE  Lease!Next \/ UNCHANGED Lease!leaseVars
  OBVIOUS
<1>0. StoreInv /\ StoreInv' /\ ProcsType
  BY DEF IInv
<1>1. ASSUME NEW s \in Serials, NEW p \in Players,
             Open(s, p) \/ Reselect(s, p) \/ AdminSelect(s, p)
      PROVE  Lease!Next
  BY <1>0, <1>1, SelectMaps DEF Open, Reselect, AdminSelect, procs
<1>2. ASSUME NEW s \in Serials, Release(s)
      PROVE  Lease!Next
  <2>1. \A t \in Serials, q \in Players : Holds(t, q)' <=> t # s /\ Holds(t, q)
    BY <1>0, <1>2 DEF Release, ReleaseEmulator, Holds, StoreInv, StoreType
  <2>2. Lease!Release(s)
    BY <1>0, <1>2, <2>1, ReleaseMaps DEF Release, procs
  <2> QED
    BY <2>2 DEF Lease!Next
<1>3. ASSUME NEW s \in Serials, NEW c \in Credentials, Login(s, c)
      PROVE  UNCHANGED Lease!leaseVars
  <2>1. \A t \in Serials : /\ emulator'[t].player = emulator[t].player
                           /\ emulator'[t].active = emulator[t].active
    BY <1>0, <1>3 DEF Login, AuthorizeEmulator, Authorize, StoreInv, StoreType
  <2>2. \A t \in Serials, q \in Players : Holds(t, q)' <=> Holds(t, q)
    BY <2>1 DEF Holds
  <2> QED
    BY <1>0, <1>3, <2>2, Stutters DEF Login
<1>4. ASSUME NEW s \in Serials,
             \/ RecordAuthorization(s) \/ AdminCurrentDevice(s) \/ AdminRevoke(s)
             \/ \E x \in sessions : LookUpSession(s, x)
      PROVE  UNCHANGED Lease!leaseVars
  BY <1>0, <1>4, Stutters
     DEF RecordAuthorization, LookUpSession, AdminCurrentDevice, AdminRevoke,
         RevokeDeviceSessions, store, Holds
<1>5. ASSUME NEW s \in Serials, CheckReservation(s)
      PROVE  Lease!Next \/ UNCHANGED Lease!leaseVars
  <2>1. emulator' = emulator
    BY <1>5 DEF CheckReservation, store
  <2>2. \A q \in Players : HolderOf(q)' = HolderOf(q)
    BY <1>0, <2>1, HolderIs, HolderRange, HolderFollows DEF Holds
  <2>3. CASE ReservationAdmits(s, request[s])
    <3> DEFINE p == request[s].player
    <3>1. p \in Players /\ accepted' = <<s, p>>
      BY <1>0, <1>5, <2>3, RowFields DEF CheckReservation, ProcsType
    <3>2. HolderOf(p) = s
      BY <1>0, <2>3, <3>1, HolderIs DEF ReservationAdmits, Holds
    <3>3. Lease!Play(s, p)
      BY <2>2, <3>1, <3>2 DEF Lease!Play
    <3> QED
      BY <3>1, <3>3 DEF Lease!Next
  <2>4. CASE ~ReservationAdmits(s, request[s])
    BY <1>5, <2>2, <2>4 DEF CheckReservation, Lease!leaseVars
  <2> QED
    BY <2>3, <2>4
<1>6. ASSUME NEW p \in Players, Create(p)
      PROVE  UNCHANGED Lease!leaseVars
  BY <1>0, <1>6, Stutters DEF Create, CreatePlayer, procs, Holds
<1>7. ASSUME NEW p \in Players, Delete(p)
      PROVE  UNCHANGED Lease!leaseVars
  <2>1. \A s \in Serials :
          /\ emulator'[s].player = IF emulator[s].player = p THEN NoPlayer
                                   ELSE emulator[s].player
          /\ emulator'[s].active = emulator[s].active
          /\ ~Holds(s, p)
    BY <1>7 DEF Delete, DeletePlayer
  <2>2. \A t \in Serials, q \in Players : Holds(t, q)' <=> Holds(t, q)
    BY <2>1, ReservationsAssumption DEF Holds
  <2> QED
    BY <1>0, <1>7, <2>2, Stutters DEF Delete, procs
<1>8. ASSUME NEW x \in sessions, Expire(x)
      PROVE  UNCHANGED Lease!leaseVars
  BY <1>0, <1>8, Stutters DEF Expire, procs, Holds
<1>9. ASSUME UNCHANGED vars
      PROVE  UNCHANGED Lease!leaseVars
  BY <1>0, <1>9, Stutters DEF vars, Holds
<1> QED
  BY <1>1, <1>2, <1>3, <1>4, <1>5, <1>6, <1>7, <1>8, <1>9 DEF Next, Acts

\* "Each profile can be used on only one device at a time" (README.md:121): the
\* reservations, the sessions and the two reads of a game request implement the
\* lease, in which a profile is only ever played on the emulator that holds it.
THEOREM LeaseImplemented == Spec => ImplementsLease
BY InitMaps, StepMaps, Inductive, PTL DEF Spec, ImplementsLease, Lease!Spec

-----------------------------------------------------------------------------
(* The recorder.                                                           *)

\* What of A is not in S is older than all of S.
Covers(S, A) == \A a \in A : a \in S \/ \A b \in S : a < b

\* Nothing is known of events to come.
Known ==
  /\ \A e \in recent \cup saved \cup file.events : e <= recorded
  /\ \A s \in Streams : /\ last[s] <= recorded /\ stream[s].after <= recorded
                        /\ \A e \in stream[s].todo : e <= recorded

\* Log and timeline lose their oldest events first: what was ever in the log is
\* still there or older than all that is, and so it is with the timeline and
\* the events of this server.
Ordered ==
  /\ file.events \subseteq saved /\ Covers(file.events, saved)
  /\ up => Covers(recent, saved) /\ Covers(recent, (since + 1)..recorded)

\* A stream belongs to a server that runs.
Connected == up \/ \A s \in Streams : stream[s].pc = "closed"

\* What a stream will not be woken for has been sent, or is about to be and
\* comes after what has been sent.
Sent(r) == \A e \in recent : e \in r.todo \/ (e <= r.after /\ \A d \in r.todo : e < d)
Following(r) ==
  r.pc # "closed" =>
    /\ r.pc = "read" \/ r.updates \/ notifying # {} \/ Sent(r)
    /\ r.after = 0 \/ r.after > since \/ r.after \in saved => \A e \in r.todo : e > r.after

RecorderInv ==
  RecorderTypeOK /\ Known /\ Ordered /\ Connected /\ \A s \in Streams : Following(stream[s])

-----------------------------------------------------------------------------
(* Sets of events.                                                         *)

LEMMA Oldest ==
  ASSUME NEW S, S \subseteq Nat, S # {}
  PROVE  Min(S) \in S /\ \A e \in S : Min(S) <= e
<1>1. PICK m \in S : \A e \in S : ~(<<e, m>> \in OpToRel(<, Nat))
  BY NatLessThanWellFounded, WFMin
<1>2. \A e \in S : m <= e
  <2> SUFFICES ASSUME NEW e \in S, ~(m <= e) PROVE FALSE
    OBVIOUS
  <2>1. <<e, m>> \in OpToRel(<, Nat)
    BY DEF OpToRel
  <2> QED BY <2>1, <1>1
<1> QED BY <1>2 DEF Min

LEMMA Latest ==
  ASSUME NEW S, S \subseteq Nat, S # {}, NEW b \in Nat, \A e \in S : e <= b
  PROVE  Max(S) \in S
<1> DEFINE T == {b - e : e \in S}
<1>1. T \subseteq Nat /\ T # {}
  <2>1. \A e \in S : b - e \in Nat
    OBVIOUS
  <2> QED BY <2>1
<1>2. PICK t \in T : \A u \in T : ~(<<u, t>> \in OpToRel(<, Nat))
  BY <1>1, NatLessThanWellFounded, WFMin
<1>3. PICK m \in S : t = b - m
  BY <1>2
<1>4. \A e \in S : m >= e
  <2> SUFFICES ASSUME NEW e \in S, ~(m >= e) PROVE FALSE
    OBVIOUS
  <2>1. b - e \in T /\ b - e < t
    BY <1>3
  <2>2. <<b - e, t>> \in OpToRel(<, Nat)
    BY <2>1, <1>1, <1>2 DEF OpToRel
  <2> QED BY <2>1, <2>2, <1>2
<1> QED BY <1>4 DEF Max

LEMMA EventsFinite ==
  ASSUME NEW S, S \subseteq 1..MaxEvents
  PROVE  IsFiniteSet(S) /\ S \subseteq Nat
<1>1. MaxEvents \in Nat
  BY RecorderAssumption
<1>2. 1 \in Int /\ MaxEvents \in Int
  BY <1>1
<1>3. IsFiniteSet(1..MaxEvents)
  BY <1>2, FS_Interval
<1>4. IsFiniteSet(S)
  BY <1>3, FS_Subset
<1>5. S \subseteq Nat
  BY <1>1
<1> QED BY <1>4, <1>5

LEMMA NewestKeeps ==
  ASSUME NEW S, S \subseteq 1..MaxEvents
  PROVE  /\ Newest(S) \subseteq S
         /\ \A a \in S : a \in Newest(S) \/ \A b \in Newest(S) : a < b
<1>1. IsFiniteSet(S) /\ S \subseteq Nat
  BY EventsFinite
<1>2. Newest(S) \subseteq S
  BY DEF Newest
<1>3. ASSUME NEW a \in S, NEW b \in Newest(S), ~(a < b) PROVE a \in Newest(S)
  <2> DEFINE A == {d \in S : d > a}
             B == {d \in S : d > b}
  <2>1. A \subseteq B /\ B \subseteq S
    <3>1. a \in Nat /\ b \in Nat /\ ~(a < b)
      BY <1>1, <1>2, <1>3
    <3>2. \A d \in S : d > a => d > b
      BY <1>1, <3>1
    <3> QED BY <3>2
  <2>2. Cardinality(B) < RecentLimit
    BY <1>3 DEF Newest
  <2> HIDE DEF A, B
  <2>3. IsFiniteSet(B)
    BY <1>1, <2>1, FS_Subset
  <2>4. IsFiniteSet(A) /\ Cardinality(A) <= Cardinality(B)
    BY <2>1, <2>3, FS_Subset
  <2>5. Cardinality(A) \in Nat /\ Cardinality(B) \in Nat
    BY <2>3, <2>4, FS_CardinalityType
  <2>6. RecentLimit \in Nat
    BY RecorderAssumption
  <2>7. Cardinality(A) < RecentLimit
    BY <2>2, <2>4, <2>5, <2>6
  <2> QED BY <2>7 DEF A, Newest
<1> QED BY <1>2, <1>3

LEMMA NewestLimited ==
  ASSUME NEW S, S \subseteq 1..MaxEvents
  PROVE  Cardinality(Newest(S)) <= RecentLimit
<1> DEFINE N == Newest(S)
<1>1. RecentLimit \in Nat /\ RecentLimit # 0
  BY RecorderAssumption
<1>2. N \subseteq S
  BY NewestKeeps
<1>3. IsFiniteSet(S) /\ S \subseteq Nat
  BY EventsFinite
<1>4. CASE N = {}
  <2>1. Cardinality(N) = 0
    BY <1>4, FS_EmptySet
  <2>2. Cardinality(N) <= RecentLimit
    BY <1>1, <2>1
  <2> QED BY <2>2
<1>5. CASE N # {}
  <2> DEFINE m == Min(N)
             A == {d \in S : d > m}
  <2>1. m \in N /\ \A e \in N : m <= e
    BY <1>2, <1>3, <1>5, Oldest
  <2>2. Cardinality(A) < RecentLimit
    BY <2>1 DEF Newest
  <2>3. N \ {m} \subseteq A /\ A \subseteq S
    <3>1. m \in Nat /\ N \subseteq Nat
      BY <1>2, <1>3, <2>1
    <3>2. \A e \in N \ {m} : e > m
      BY <2>1, <3>1
    <3> QED BY <1>2, <3>2
  <2> HIDE DEF N, m, A
  <2>4. IsFiniteSet(A) /\ IsFiniteSet(N)
    BY <1>2, <1>3, <2>3, FS_Subset
  <2>5. Cardinality(N \ {m}) <= Cardinality(A) /\ IsFiniteSet(N \ {m})
    BY <2>3, <2>4, FS_Subset
  <2>6. Cardinality(N \ {m}) = Cardinality(N) - 1
    BY <2>1, <2>4, FS_RemoveElement
  <2>7. Cardinality(A) \in Nat /\ Cardinality(N) \in Nat
    BY <2>4, FS_CardinalityType
  <2>8. Cardinality(N) <= RecentLimit
    BY <1>1, <2>2, <2>5, <2>6, <2>7
  <2> QED BY <2>8 DEF N
<1> QED BY <1>4, <1>5

LEMMA NewestCovers ==
  ASSUME NEW S, S \subseteq 1..MaxEvents, NEW A, A \subseteq Nat,
         Covers(S, A)
  PROVE  Covers(Newest(S), A)
<1>1. /\ Newest(S) \subseteq S
      /\ \A a \in S : a \in Newest(S) \/ \A b \in Newest(S) : a < b
  BY NewestKeeps
<1> QED BY <1>1 DEF Covers

\* A new event comes after the others.
LEMMA NextCovers ==
  ASSUME NEW S, NEW A, A \subseteq Nat, S \subseteq Nat, Covers(S, A), NEW n \in Nat,
         \A e \in A : e < n
  PROVE  Covers(S \cup {n}, A \cup {n})
BY DEF Covers

-----------------------------------------------------------------------------
(* The steps of a stream.                                                  *)

StreamType ==
  [pc : {"closed", "read", "write", "wait"}, after : 0..MaxEvents, updates : BOOLEAN,
   todo : SUBSET (1..MaxEvents)]

\* A page has at most what was recorded.
LastKnown(e) == e \in 0..MaxEvents /\ e <= recorded

\* One stream goes on to r, and its page has e.
Goes(s, r, e) ==
  /\ stream' = [stream EXCEPT ![s] = r] /\ last' = [last EXCEPT ![s] = e]
  /\ UNCHANGED <<up, recorded, since, recent, file, saved, notifying>>

LEMMA GoesKeeps ==
  ASSUME RecorderInv, NEW s \in Streams, NEW r \in StreamType, NEW e, Goes(s, r, e),
         LastKnown(e), r.after <= recorded, \A d \in r.todo : d <= recorded,
         up \/ r.pc = "closed", Following(r)
  PROVE  RecorderInv'
<1>1. /\ stream \in [Streams -> StreamType] /\ last \in [Streams -> 0..MaxEvents]
  BY DEF RecorderInv, RecorderTypeOK, StreamType, Events
<1>2. /\ stream' \in [Streams -> StreamType] /\ last' \in [Streams -> 0..MaxEvents]
      /\ \A t \in Streams : /\ stream'[t] = IF t = s THEN r ELSE stream[t]
                            /\ last'[t] = IF t = s THEN e ELSE last[t]
  BY <1>1 DEF Goes, LastKnown
<1>3. UNCHANGED <<up, recorded, since, recent, file, saved, notifying>>
  BY DEF Goes
<1>4. RecorderTypeOK'
  BY <1>2, <1>3 DEF RecorderInv, RecorderTypeOK, StreamType, Events
<1>5. Known'
  BY <1>2, <1>3 DEF RecorderInv, Known, LastKnown
<1>6. Ordered' /\ Connected'
  BY <1>2, <1>3 DEF RecorderInv, Ordered, Connected, Covers
<1>7. ASSUME NEW t \in Streams PROVE Following(stream[t])'
  <2>1. Following(stream'[t])
    BY <1>2 DEF RecorderInv
  <2> QED BY <1>3, <2>1 DEF Following, Sent
<1> QED BY <1>4, <1>5, <1>6, <1>7 DEF RecorderInv

\* The facts of the invariant that the steps of one stream use.
LEMMA StreamFacts ==
  ASSUME RecorderInv, NEW s \in Streams
  PROVE  /\ MaxEvents \in Nat /\ recorded \in 0..MaxEvents /\ since \in 0..recorded
         /\ recent \subseteq 1..MaxEvents /\ file.events \subseteq 1..MaxEvents
         /\ stream \in [Streams -> StreamType] /\ last \in [Streams -> 0..MaxEvents]
         /\ stream[s] \in StreamType /\ LastKnown(last[s]) /\ LastKnown(stream[s].after)
         /\ stream[s].todo \subseteq 1..MaxEvents /\ \A e \in stream[s].todo : e <= recorded
         /\ Following(stream[s])
         /\ \A e \in recent \cup file.events : e <= recorded
<1>1. MaxEvents \in Nat
  BY RecorderAssumption
<1>2. /\ recorded \in 0..MaxEvents /\ since \in 0..recorded
      /\ recent \subseteq 1..MaxEvents /\ file.events \subseteq 1..MaxEvents
      /\ stream \in [Streams -> StreamType] /\ last \in [Streams -> 0..MaxEvents]
  BY DEF RecorderInv, RecorderTypeOK, StreamType, Events
<1>3. stream[s] \in StreamType /\ last[s] \in 0..MaxEvents
  BY <1>2
<1>4. stream[s].after \in 0..MaxEvents /\ stream[s].todo \subseteq 1..MaxEvents
  BY <1>3 DEF StreamType
<1>5. /\ last[s] <= recorded /\ stream[s].after <= recorded
      /\ \A e \in stream[s].todo : e <= recorded
      /\ \A e \in recent \cup file.events : e <= recorded
  BY DEF RecorderInv, Known
<1> QED BY <1>1, <1>2, <1>3, <1>4, <1>5 DEF RecorderInv, LastKnown

LEMMA RefreshKeeps ==
  ASSUME RecorderInv, NEW s \in Streams, Refresh(s) PROVE RecorderInv'
<1> DEFINE events == IF up THEN After(last[s])
                     ELSE AfterIn(Newest(file.events), last[s])
           e == Max(events)
<1>1. /\ MaxEvents \in Nat /\ recorded \in 0..MaxEvents
      /\ recent \subseteq 1..MaxEvents /\ file.events \subseteq 1..MaxEvents
      /\ stream \in [Streams -> StreamType] /\ stream[s] \in StreamType
      /\ LastKnown(stream[s].after) /\ \A d \in stream[s].todo : d <= recorded
      /\ Following(stream[s])
      /\ \A d \in recent \cup file.events : d <= recorded
  BY StreamFacts
<1>2. events \subseteq recent \cup file.events
  <2>1. Newest(file.events) \subseteq file.events
    BY <1>1, NewestKeeps
  <2> QED BY <2>1 DEF After, AfterIn
<1>3. /\ events # {} /\ stream[s].pc = "closed" /\ last' = [last EXCEPT ![s] = e]
      /\ UNCHANGED <<up, recorded, since, recent, file, saved, notifying, stream>>
  BY DEF Refresh, logVars
<1> HIDE DEF events
<1>4. e \in events
  <2>1. events \subseteq Nat /\ recorded \in Nat /\ \A d \in events : d <= recorded
    BY <1>1, <1>2
  <2> QED BY <1>3, <2>1, Latest
<1> HIDE DEF e
<1>5. LastKnown(e)
  <2>1. e \in 1..MaxEvents /\ e <= recorded
    BY <1>1, <1>2, <1>4
  <2>2. e \in 0..MaxEvents
    BY <1>1, <2>1
  <2> QED BY <2>1, <2>2 DEF LastKnown
<1>6. Goes(s, stream[s], e)
  BY <1>1, <1>3 DEF Goes
<1>7. stream[s].after <= recorded
  BY <1>1 DEF LastKnown
<1> QED BY <1>1, <1>3, <1>5, <1>6, <1>7, GoesKeeps

LEMMA ClosedType ==
  /\ Closed \in StreamType /\ Closed.pc = "closed"
  /\ Closed.todo = {} /\ Closed.after = 0
<1>1. MaxEvents \in Nat
  BY RecorderAssumption
<1> QED BY <1>1 DEF Closed, StreamType

LEMMA SubscribeKeeps ==
  ASSUME RecorderInv, NEW s \in Streams, Subscribe(s) PROVE RecorderInv'
<1> DEFINE c == Closed
           r == [c EXCEPT !.pc = "read", !.after = last[s]]
<1>1. /\ stream \in [Streams -> StreamType] /\ last \in [Streams -> 0..MaxEvents]
      /\ LastKnown(last[s])
  BY StreamFacts
<1>2. Goes(s, r, last[s]) /\ up
  BY <1>1 DEF Subscribe, logVars, Goes
<1>3. c \in StreamType /\ c.todo = {}
  BY ClosedType
<1> HIDE DEF c
<1>4. r \in StreamType /\ r.pc = "read" /\ r.after = last[s] /\ r.todo = {}
  BY <1>1, <1>3 DEF StreamType
<1> HIDE DEF r
<1>5. r.after <= recorded /\ \A d \in r.todo : d <= recorded
  BY <1>1, <1>4 DEF LastKnown
<1>6. Following(r)
  BY <1>4 DEF Following
<1> QED BY <1>1, <1>2, <1>4, <1>5, <1>6, GoesKeeps

LEMMA ReadKeeps ==
  ASSUME RecorderInv, NEW s \in Streams, ReadAvailable(s)
  PROVE  RecorderInv'
<1> DEFINE k == stream[s].after
           r == [stream[s] EXCEPT !.pc = "write", !.todo = After(k)]
<1>1. /\ MaxEvents \in Nat /\ recorded \in 0..MaxEvents /\ since \in 0..recorded
      /\ recent \subseteq 1..MaxEvents
      /\ stream \in [Streams -> StreamType] /\ last \in [Streams -> 0..MaxEvents]
      /\ stream[s] \in StreamType /\ LastKnown(last[s]) /\ LastKnown(k)
      /\ \A d \in recent : d <= recorded
  BY StreamFacts
<1>2. up /\ stream[s].pc = "read"
  BY DEF ReadAvailable, RecorderInv, Connected
<1>3. After(k) \subseteq recent
  BY DEF After, AfterIn
<1>4. Goes(s, r, last[s])
  <2>1. stream' = [stream EXCEPT ![s] = r]
    BY <1>1 DEF ReadAvailable
  <2> QED BY <1>1, <2>1 DEF ReadAvailable, logVars, Goes
<1>5. /\ r \in StreamType /\ r.after = k /\ r.todo = After(k) /\ r.pc = "write"
      /\ r.updates = stream[s].updates
  BY <1>1, <1>3 DEF StreamType
<1> HIDE DEF r
<1>6. k \in Nat /\ k <= recorded /\ recent \subseteq Nat
  BY <1>1 DEF LastKnown
<1>7. Sent(r)
  <2>1. CASE k \in recent
    <3>1. After(k) = {d \in recent : d > k}
      BY <2>1 DEF After, AfterIn
    <3> HIDE DEF k
    <3>2. ASSUME NEW e \in recent
          PROVE  e \in After(k) \/ (e <= k /\ \A d \in After(k) : e < d)
      <4>1. e \in Nat
        BY <1>6
      <4>2. CASE e > k
        BY <3>1, <4>2
      <4>3. CASE ~(e > k)
        <5>1. e <= k
          BY <1>6, <4>1, <4>3
        <5>2. ASSUME NEW d \in After(k) PROVE e < d
          <6>1. d \in Nat /\ d > k
            BY <1>6, <3>1
          <6> QED BY <1>6, <4>1, <5>1, <6>1
        <5> QED BY <5>1, <5>2
      <4> QED BY <4>2, <4>3
    <3> QED BY <3>2, <1>5 DEF Sent
  <2>2. CASE k \notin recent
    BY <2>2, <1>5 DEF Sent, After, AfterIn
  <2> QED BY <2>1, <2>2
<1>8. ASSUME k = 0 \/ k > since \/ k \in saved, NEW e \in After(k) PROVE e > k
  <2>1. CASE k \in recent
    BY <2>1, <1>8 DEF After, AfterIn
  <2>2. CASE k = 0
    <3>1. e \in 1..MaxEvents
      BY <1>1, <1>3, <1>8
    <3>2. e > 0
      BY <1>1, <3>1
    <3> QED BY <2>2, <3>2
  <2>3. CASE k \notin recent /\ k # 0
    <3>1. k \in saved \/ k \in (since + 1)..recorded
      BY <1>1, <1>6, <1>8, <2>3
    <3>2. \A b \in recent : k < b
      BY <1>2, <2>3, <3>1 DEF RecorderInv, Ordered, Covers
    <3> QED BY <1>3, <1>6, <1>8, <3>2
  <2> QED BY <2>1, <2>2, <2>3
<1>9. Following(r)
  BY <1>5, <1>7, <1>8 DEF Following
<1>10. r.after <= recorded /\ \A d \in r.todo : d <= recorded
  BY <1>1, <1>3, <1>5, <1>6
<1> HIDE DEF k
<1> QED BY <1>1, <1>2, <1>4, <1>5, <1>9, <1>10, GoesKeeps

LEMMA SendKeeps ==
  ASSUME RecorderInv, NEW s \in Streams, SendEvent(s)
  PROVE  RecorderInv'
<1> DEFINE old == stream[s]
           e == Min(old.todo)
           r == [old EXCEPT !.after = e, !.todo = old.todo \ {e}]
<1>1. /\ stream \in [Streams -> StreamType] /\ last \in [Streams -> 0..MaxEvents]
      /\ old \in StreamType /\ LastKnown(old.after)
      /\ old.todo \subseteq 1..MaxEvents /\ \A d \in old.todo : d <= recorded
      /\ Following(old)
      /\ MaxEvents \in Nat /\ recent \subseteq 1..MaxEvents
      /\ recorded \in 0..MaxEvents /\ since \in 0..recorded
  BY StreamFacts
<1>2. old.pc = "write" /\ old.todo # {}
  BY DEF SendEvent
<1>3. up
  BY <1>2 DEF RecorderInv, Connected
<1>4. Goes(s, r, e)
  <2>1. stream' = [stream EXCEPT ![s] = r]
    BY <1>1 DEF SendEvent
  <2> QED BY <1>1, <2>1 DEF SendEvent, logVars, Goes
<1> HIDE DEF old
<1>5. e \in old.todo /\ \A d \in old.todo : e <= d
  <2>1. old.todo \subseteq Nat
    BY <1>1
  <2> QED BY <1>2, <2>1, Oldest
<1> HIDE DEF e
<1>6. e \in 1..MaxEvents /\ e <= recorded /\ e \in Nat
  BY <1>1, <1>5
<1>7. LastKnown(e)
  <2>1. e \in 0..MaxEvents
    BY <1>1, <1>6
  <2> QED BY <1>6, <2>1 DEF LastKnown
<1>8. /\ r \in StreamType /\ r.after = e /\ r.todo = old.todo \ {e} /\ r.pc = "write"
      /\ r.updates = old.updates
  BY <1>1, <1>2, <1>7 DEF StreamType, LastKnown
<1> HIDE DEF r
<1>9. \A d \in r.todo : d > e /\ d <= recorded
  <2>1. ASSUME NEW d \in old.todo, d # e PROVE d > e /\ d <= recorded
    <3>1. d \in Nat /\ e <= d /\ d <= recorded
      BY <1>1, <1>5
    <3> QED BY <1>6, <2>1, <3>1
  <2> QED BY <1>8, <2>1
<1>10. ASSUME Sent(old) PROVE Sent(r)
  <2> SUFFICES ASSUME NEW d \in recent, d \notin r.todo
               PROVE  d <= r.after /\ \A f \in r.todo : d < f
    BY DEF Sent
  <2>1. d \in Nat
    BY <1>1
  <2>2. d <= e
    <3>1. CASE d = e
      BY <1>6, <3>1
    <3>2. CASE d # e
      <4>1. d \notin old.todo
        BY <1>8, <3>2
      <4>2. d < e
        BY <1>5, <1>10, <4>1 DEF Sent
      <4> QED BY <1>6, <2>1, <4>2
    <3> QED BY <3>1, <3>2
  <2>3. ASSUME NEW f \in r.todo PROVE d < f
    <3>1. f \in Nat /\ f > e
      BY <1>1, <1>8, <1>9
    <3> QED BY <1>6, <2>1, <2>2, <3>1
  <2> QED BY <1>8, <2>2, <2>3
<1>11. Following(r)
  <2>1. r.updates \/ notifying # {} \/ Sent(r)
    BY <1>1, <1>2, <1>8, <1>10 DEF Following
  <2> QED BY <1>8, <1>9, <2>1 DEF Following
<1>12. r.after <= recorded /\ \A d \in r.todo : d <= recorded
  BY <1>6, <1>8, <1>9
<1> QED BY <1>3, <1>4, <1>7, <1>8, <1>11, <1>12, GoesKeeps

\* The stream of a page waits, or reads again.
LEMMA WaitKeeps ==
  ASSUME RecorderInv, NEW s \in Streams, Wait(s) \/ Wake(s)
  PROVE  RecorderInv'
<1> DEFINE old == stream[s]
<1>1. /\ stream \in [Streams -> StreamType] /\ last \in [Streams -> 0..MaxEvents]
      /\ old \in StreamType /\ LastKnown(last[s]) /\ LastKnown(old.after)
      /\ \A d \in old.todo : d <= recorded
      /\ Following(old)
  BY StreamFacts
<1>2. old.pc # "closed" /\ old.pc # "read"
  BY DEF Wait, Wake
<1>3. up
  BY <1>2 DEF RecorderInv, Connected
<1>4. PICK r \in {[old EXCEPT !.pc = "wait"], [old EXCEPT !.pc = "read", !.updates = FALSE]} :
        stream' = [stream EXCEPT ![s] = r]
  BY <1>1 DEF Wait, Wake
<1>5. Goes(s, r, last[s])
  BY <1>1, <1>4 DEF Wait, Wake, logVars, Goes
<1> HIDE DEF old
<1>6. /\ r \in StreamType /\ r.after = old.after /\ r.todo = old.todo
      /\ r.pc = "read" \/ (r.pc = "wait" /\ r.updates = old.updates)
  BY <1>1, <1>4 DEF StreamType
<1>7. Following(r)
  <2>1. old.updates \/ notifying # {} \/ Sent(old)
    BY <1>1, <1>2 DEF Following
  <2>2. Sent(old) => Sent(r)
    BY <1>6 DEF Sent
  <2>3. r.pc = "read" \/ r.updates \/ notifying # {} \/ Sent(r)
    BY <1>6, <2>1, <2>2
  <2>4. r.after = 0 \/ r.after > since \/ r.after \in saved => \A e \in r.todo : e > r.after
    BY <1>1, <1>2, <1>6 DEF Following
  <2> QED BY <2>3, <2>4 DEF Following
<1>8. r.after <= recorded /\ \A d \in r.todo : d <= recorded
  BY <1>1, <1>6 DEF LastKnown
<1> QED BY <1>1, <1>3, <1>5, <1>6, <1>7, <1>8, GoesKeeps

LEMMA DisconnectKeeps ==
  ASSUME RecorderInv, NEW s \in Streams, Disconnect(s)
  PROVE  RecorderInv'
<1> DEFINE c == Closed
<1>1. LastKnown(last[s]) /\ MaxEvents \in Nat /\ recorded \in 0..MaxEvents
  BY StreamFacts
<1>2. PICK e \in {last[s], 0} : Goes(s, c, e)
  BY DEF Disconnect, logVars, Goes
<1>3. c \in StreamType /\ c.pc = "closed" /\ c.after = 0 /\ c.todo = {}
  BY ClosedType
<1> HIDE DEF c
<1>4. LastKnown(e)
  <2>1. LastKnown(0)
    BY <1>1 DEF LastKnown
  <2> QED BY <1>1, <1>2, <2>1
<1>5. c.after <= recorded /\ (\A d \in c.todo : d <= recorded) /\ Following(c)
  BY <1>1, <1>3 DEF Following
<1> QED BY <1>2, <1>3, <1>4, <1>5, GoesKeeps

-----------------------------------------------------------------------------
(* The steps of the server.                                                *)

FileType == [events : SUBSET (1..MaxEvents), open : BOOLEAN, torn : BOOLEAN]

\* What the log holds after it was written to, rotated or left alone.
Logged(f, g, e) == g \in FileType /\ g.events \in {f.events, f.events \cup {e}, {}, {e}}

LEMMA WritesHold ==
  ASSUME NEW e \in 1..MaxEvents, NEW f \in FileType, NEW g \in Writes(f, e)
  PROVE  g \in FileType /\ g.events \in {f.events, f.events \cup {e}}
<1>1. f.events \in SUBSET (1..MaxEvents)
  BY DEF FileType
<1>2. Written(f, e) \in FileType /\ Written(f, e).events \in {f.events, f.events \cup {e}}
  <2>1. CASE f.torn
    <3>1. Written(f, e) = [f EXCEPT !.torn = FALSE]
      BY <2>1 DEF Written
    <3> QED BY <3>1 DEF FileType
  <2>2. CASE ~f.torn
    <3>1. Written(f, e) = [f EXCEPT !.events = f.events \cup {e}]
      BY <2>2 DEF Written, FileType
    <3> QED BY <1>1, <3>1 DEF FileType
  <2> QED BY <2>1, <2>2
<1>3. [f EXCEPT !.torn = TRUE] \in FileType /\ [f EXCEPT !.torn = TRUE].events = f.events
  BY DEF FileType
<1> QED BY <1>2, <1>3 DEF Writes

LEMMA LogHolds ==
  ASSUME NEW e \in 1..MaxEvents, file \in FileType, Log(e)
  PROVE  Logged(file, file', e)
<1> DEFINE empty == EmptyLog
<1>1. empty \in FileType /\ empty.events = {}
  BY DEF EmptyLog, FileType
<1>2. /\ [empty EXCEPT !.open = FALSE] \in FileType
      /\ [empty EXCEPT !.open = FALSE].events = {}
      /\ [file EXCEPT !.open = FALSE] \in FileType
      /\ [file EXCEPT !.open = FALSE].events = file.events
  <2> HIDE DEF empty
  <2> QED BY <1>1 DEF FileType
<1>3. file' \in Writes(file, e) \cup Writes(empty, e)
                \cup {file, [file EXCEPT !.open = FALSE], [empty EXCEPT !.open = FALSE]}
  BY DEF Log, Rotations
<1> HIDE DEF empty
<1>4. CASE file' \in Writes(file, e)
  BY <1>4, WritesHold DEF Logged
<1>5. CASE file' \in Writes(empty, e)
  <2>1. file' \in FileType /\ file'.events \in {empty.events, empty.events \cup {e}}
    BY <1>1, <1>5, WritesHold
  <2> QED BY <1>1, <2>1 DEF Logged
<1>6. CASE file' \in {file, [file EXCEPT !.open = FALSE], [empty EXCEPT !.open = FALSE]}
  BY <1>2, <1>6 DEF Logged
<1> QED BY <1>3, <1>4, <1>5, <1>6

LEMMA RecordKeeps ==
  ASSUME RecorderInv, NEW x \in Exchanges, Record(x) PROVE RecorderInv'
<1> DEFINE n == recorded + 1
           all == recent \cup {n}
<1>1. MaxEvents \in Nat
  BY RecorderAssumption
<1>2. /\ recorded \in 0..MaxEvents /\ since \in 0..recorded /\ notifying \subseteq Exchanges
      /\ recent \subseteq 1..MaxEvents /\ saved \subseteq 1..MaxEvents /\ file \in FileType
      /\ stream \in [Streams -> StreamType] /\ last \in [Streams -> 0..MaxEvents]
  BY DEF RecorderInv, RecorderTypeOK, StreamType, FileType, Events
<1>3. /\ up /\ recorded < MaxEvents /\ recorded' = n /\ recent' = Newest(recent \cup {recorded'})
      /\ Log(recorded') /\ saved' = saved \cup file'.events
      /\ notifying' = notifying \cup {x} /\ UNCHANGED <<up, since, stream, last>>
  BY DEF Record
<1>4. recent' = Newest(all) /\ Log(n)
  BY <1>3
<1>5. n \in 1..MaxEvents /\ n \in Nat /\ recorded < n
  BY <1>1, <1>2, <1>3
<1>6. Logged(file, file', n)
  BY <1>2, <1>4, <1>5, LogHolds
<1>7. all \subseteq 1..MaxEvents
  BY <1>2, <1>5
<1>8. recent' \subseteq all /\ Cardinality(recent') <= RecentLimit
  BY <1>4, <1>7, NewestKeeps, NewestLimited
<1>9. file.events \subseteq 1..MaxEvents /\ file'.events \subseteq file.events \cup {n}
  BY <1>2, <1>6 DEF Logged, FileType
<1>10. saved' \subseteq saved \cup {n} /\ file'.events \subseteq saved'
  BY <1>3, <1>9 DEF RecorderInv, Ordered
<1>11. RecorderTypeOK'
  <2>1. recorded' \in 0..MaxEvents /\ since' \in 0..recorded'
    BY <1>1, <1>2, <1>3, <1>5
  <2>2. recent' \subseteq 1..MaxEvents /\ saved' \subseteq 1..MaxEvents /\ file' \in FileType
    BY <1>2, <1>5, <1>6, <1>7, <1>8, <1>10 DEF Logged
  <2>3. up' \in BOOLEAN /\ notifying' \subseteq Exchanges
    BY <1>2, <1>3 DEF RecorderInv, RecorderTypeOK
  <2>4. stream' \in [Streams -> StreamType] /\ last' \in [Streams -> 0..MaxEvents]
    BY <1>2, <1>3
  <2> QED BY <1>8, <2>1, <2>2, <2>3, <2>4 DEF RecorderTypeOK, Events, StreamType, FileType
<1>12. \A e \in recent \cup saved \cup file.events : e < n
  <2>1. ASSUME NEW e \in recent \cup saved \cup file.events PROVE e < n
    <3>1. e \in Nat /\ e <= recorded
      BY <1>2, <1>9 DEF RecorderInv, Known
    <3> QED BY <1>2, <1>5, <3>1
  <2> QED BY <2>1
<1>13. Known'
  <2>1. \A e \in recent' \cup saved' \cup file'.events : e <= recorded'
    <3>1. recent' \cup saved' \cup file'.events \subseteq recent \cup saved \cup file.events \cup {n}
      BY <1>8, <1>9, <1>10
    <3>2. \A e \in recent \cup saved \cup file.events \cup {n} : e <= n
      <4>1. \A e \in 1..MaxEvents : e \in Nat
        BY <1>1
      <4>2. recent \cup saved \cup file.events \subseteq 1..MaxEvents
        BY <1>2, <1>9
      <4>3. recent \cup saved \cup file.events \subseteq Nat
        BY <4>1, <4>2
      <4> HIDE DEF n
      <4> QED BY <1>5, <1>12, <4>3
    <3> QED BY <1>3, <3>1, <3>2
  <2>2. ASSUME NEW s \in Streams
        PROVE  /\ last'[s] <= recorded' /\ stream'[s].after <= recorded'
               /\ \A e \in stream'[s].todo : e <= recorded'
    <3>1. /\ last[s] <= recorded /\ stream[s].after <= recorded
          /\ \A e \in stream[s].todo : e <= recorded
      BY DEF RecorderInv, Known
    <3>2. last[s] \in Nat /\ stream[s].after \in Nat /\ stream[s].todo \subseteq Nat
      <4>1. stream[s] \in StreamType /\ last[s] \in 0..MaxEvents
        BY <1>2
      <4>2. stream[s].after \in 0..MaxEvents /\ stream[s].todo \subseteq 1..MaxEvents
        BY <4>1 DEF StreamType
      <4> QED BY <4>1, <4>2
    <3>3. \A e \in Nat : e <= recorded => e <= n
      BY <1>2
    <3>4. /\ last[s] <= n /\ stream[s].after <= n /\ \A e \in stream[s].todo : e <= n
      BY <3>1, <3>2, <3>3
    <3> QED BY <1>3, <3>4
  <2> QED BY <2>1, <2>2 DEF Known
<1>14. Ordered'
  <2> DEFINE mine == (since + 1)..recorded
  <2>1. Covers(recent, saved) /\ Covers(recent, mine) /\ Covers(file.events, saved)
    BY <1>3 DEF RecorderInv, Ordered
  <2>2. saved \subseteq Nat /\ recent \subseteq Nat /\ file.events \subseteq Nat
        /\ \A e \in saved : e < n
    BY <1>2, <1>9, <1>12
  <2>3. mine \subseteq Nat /\ (\A e \in mine : e < n) /\ (since' + 1)..recorded' = mine \cup {n}
    BY <1>2, <1>3
  <2> HIDE DEF mine
  <2>4. Covers(all, saved \cup {n}) /\ Covers(all, mine \cup {n})
    <3> HIDE DEF n
    <3> QED BY <1>5, <2>1, <2>2, <2>3, NextCovers
  <2>5. Covers(recent', saved \cup {n}) /\ Covers(recent', mine \cup {n})
    <3>1. saved \cup {n} \subseteq Nat /\ mine \cup {n} \subseteq Nat
      BY <1>5, <2>2, <2>3
    <3> HIDE DEF all, n
    <3> QED BY <1>4, <1>7, <2>4, <3>1, NewestCovers
  <2>6. Covers(recent', saved')
    BY <1>10, <2>5 DEF Covers
  <2>7. Covers(file'.events, saved')
    <3>1. CASE file'.events = file.events
      <4>1. saved' = saved
        BY <1>3, <3>1 DEF RecorderInv, Ordered
      <4> QED BY <2>1, <3>1, <4>1
    <3>2. CASE file'.events = file.events \cup {n}
      <4> HIDE DEF n
      <4>1. Covers(file.events \cup {n}, saved \cup {n})
        BY <1>5, <2>1, <2>2, NextCovers
      <4> QED BY <1>10, <3>2, <4>1 DEF Covers
    <3>3. CASE file'.events = {}
      BY <3>3 DEF Covers
    <3>4. CASE file'.events = {n}
      <4> HIDE DEF n
      <4> QED BY <1>10, <2>2, <3>4 DEF Covers
    <3> QED BY <1>6, <3>1, <3>2, <3>3, <3>4 DEF Logged
  <2>8. Covers(recent', (since' + 1)..recorded')
    BY <2>3, <2>5
  <2> QED BY <1>10, <2>6, <2>7, <2>8 DEF Ordered
<1>15. ASSUME NEW s \in Streams PROVE Following(stream[s])'
  <2>1. stream'[s] = stream[s] /\ stream[s] \in StreamType
    BY <1>2, <1>3
  <2>2. Following(stream[s])
    BY DEF RecorderInv
  <2>3. stream[s].after <= recorded /\ stream[s].after \in Nat
    <3>1. stream[s].after \in 0..MaxEvents
      BY <2>1 DEF StreamType
    <3> QED BY <1>1, <3>1 DEF RecorderInv, Known
  <2>4. stream[s].after \in saved' => stream[s].after \in saved
    <3>1. stream[s].after # n
      BY <1>2, <2>3
    <3> QED BY <1>10, <3>1
  <2>5. notifying' # {}
    BY <1>3
  <2> QED BY <1>3, <2>1, <2>2, <2>4, <2>5 DEF Following
<1>16. Connected'
  BY <1>3 DEF Connected
<1> QED BY <1>11, <1>13, <1>14, <1>15, <1>16 DEF RecorderInv

LEMMA NotifyKeeps ==
  ASSUME RecorderInv, NEW x \in Exchanges, NotifySubscribers(x)
  PROVE  RecorderInv'
<1>1. stream \in [Streams -> StreamType]
  BY DEF RecorderInv, RecorderTypeOK, StreamType, Events
<1>2. /\ notifying' = notifying \ {x}
      /\ stream' = [s \in Streams |->
                      [stream[s] EXCEPT !.updates = stream[s].updates \/ Signals(s)]]
      /\ UNCHANGED <<up, recorded, since, recent, file, saved, last>>
  BY <1>1 DEF NotifySubscribers, logVars
<1>3. ASSUME NEW s \in Streams
      PROVE  /\ stream'[s] \in StreamType /\ stream'[s].pc = stream[s].pc
             /\ stream'[s].after = stream[s].after /\ stream'[s].todo = stream[s].todo
             /\ stream[s].pc # "closed" => stream'[s].updates
  <2>1. stream[s] \in StreamType
    BY <1>1
  <2>2. stream'[s] = [stream[s] EXCEPT !.updates = stream[s].updates \/ Signals(s)]
    BY <1>2
  <2>3. Signals(s) \in BOOLEAN /\ (stream[s].pc # "closed" => Signals(s))
    BY DEF Signals
  <2> QED BY <2>1, <2>2, <2>3 DEF StreamType
<1>4. stream' \in [Streams -> StreamType]
  BY <1>2, <1>3
<1>5. RecorderTypeOK'
  BY <1>2, <1>4 DEF RecorderInv, RecorderTypeOK, StreamType, Events
<1>6. Known'
  BY <1>2, <1>3 DEF RecorderInv, Known
<1>7. Ordered' /\ Connected'
  BY <1>2, <1>3 DEF RecorderInv, Ordered, Connected, Covers
<1>8. ASSUME NEW s \in Streams PROVE Following(stream[s])'
  <2>1. Following(stream[s])
    BY DEF RecorderInv
  <2> DEFINE r == stream'[s]
  <2>2. /\ r.pc = stream[s].pc /\ r.after = stream[s].after /\ r.todo = stream[s].todo
        /\ stream[s].pc # "closed" => r.updates
    BY <1>3
  <2>3. since' = since /\ saved' = saved
    BY <1>2
  <2> HIDE DEF r
  <2>4. r.pc # "closed" =>
          /\ r.updates
          /\ r.after = 0 \/ r.after > since' \/ r.after \in saved' =>
               \A e \in r.todo : e > r.after
    BY <2>1, <2>2, <2>3 DEF Following
  <2> QED BY <2>4 DEF r, Following
<1> QED BY <1>5, <1>6, <1>7, <1>8 DEF RecorderInv

LEMMA StartKeeps ==
  ASSUME RecorderInv, Start PROVE RecorderInv'
<1>1. MaxEvents \in Nat
  BY RecorderAssumption
<1>2. /\ recorded \in 0..MaxEvents /\ saved \subseteq 1..MaxEvents /\ file \in FileType
      /\ stream \in [Streams -> StreamType]
  BY DEF RecorderInv, RecorderTypeOK, StreamType, FileType, Events
<1>3. /\ ~up /\ up' = TRUE /\ recent' = Newest(file.events)
      /\ file' = [file EXCEPT !.open = TRUE] /\ since' = recorded
      /\ UNCHANGED <<recorded, saved, notifying, stream, last>>
  BY DEF Start
<1>4. file' \in FileType /\ file'.events = file.events /\ file.events \subseteq 1..MaxEvents
  BY <1>2, <1>3 DEF FileType
<1>5. recent' \subseteq file.events /\ Cardinality(recent') <= RecentLimit
  BY <1>3, <1>4, NewestKeeps, NewestLimited
<1>6. RecorderTypeOK'
  <2>1. since' \in 0..recorded' /\ recent' \subseteq 1..MaxEvents
    BY <1>1, <1>2, <1>3, <1>4, <1>5
  <2> QED BY <1>3, <1>4, <1>5, <2>1 DEF RecorderInv, RecorderTypeOK, Events, FileType
<1>7. Known'
  BY <1>3, <1>4, <1>5 DEF RecorderInv, Known
<1>8. Ordered'
  <2>1. Covers(file.events, saved)
    BY DEF RecorderInv, Ordered
  <2>2. saved \subseteq Nat
    BY <1>2
  <2>3. Covers(recent', saved)
    BY <1>3, <1>4, <2>1, <2>2, NewestCovers
  <2>4. (since' + 1)..recorded' = {}
    BY <1>1, <1>2, <1>3
  <2>5. Covers(recent', (since' + 1)..recorded')
    BY <2>4 DEF Covers
  <2>6. file'.events \subseteq saved' /\ Covers(file'.events, saved')
    BY <1>3, <1>4, <2>1 DEF RecorderInv, Ordered
  <2> QED BY <1>3, <2>3, <2>5, <2>6 DEF Ordered
<1>9. ASSUME NEW s \in Streams PROVE Following(stream[s])'
  BY <1>3 DEF RecorderInv, Connected, Following
<1>10. Connected'
  BY <1>3 DEF Connected
<1> QED BY <1>6, <1>7, <1>8, <1>9, <1>10 DEF RecorderInv

LEMMA KilledKeeps ==
  ASSUME RecorderInv, Killed PROVE RecorderInv'
<1> DEFINE c == Closed
<1>1. MaxEvents \in Nat /\ RecentLimit \in Nat
  BY RecorderAssumption
<1>2. /\ recorded \in 0..MaxEvents /\ since \in 0..recorded /\ saved \subseteq 1..MaxEvents
      /\ file \in FileType /\ last \in [Streams -> 0..MaxEvents]
  BY DEF RecorderInv, RecorderTypeOK, FileType, Events
<1>3. /\ up' = FALSE /\ recent' = {} /\ notifying' = {} /\ stream' = [s \in Streams |-> c]
      /\ UNCHANGED <<recorded, since, saved, last>>
  BY DEF Killed
<1>4. c \in StreamType /\ c.pc = "closed" /\ c.after = 0 /\ c.todo = {}
  BY ClosedType
<1> HIDE DEF c
<1>5. stream' \in [Streams -> StreamType] /\ \A s \in Streams : stream'[s] = c
  BY <1>3, <1>4
<1>6. file' \in FileType /\ file'.events = file.events
  <2>1. PICK torn \in {file.torn, file.open \/ file.torn} :
          file' = [file EXCEPT !.open = FALSE, !.torn = torn]
    BY DEF Killed
  <2>2. torn \in BOOLEAN
    BY <1>2, <2>1 DEF FileType
  <2> QED BY <1>2, <2>1, <2>2 DEF FileType
<1>7. RecorderTypeOK'
  <2>1. Cardinality(recent') <= RecentLimit
    <3>1. Cardinality(recent') = 0
      BY <1>3, FS_EmptySet
    <3>2. Cardinality(recent') <= RecentLimit
      BY <1>1, <3>1
    <3> QED BY <3>2
  <2>2. up' \in BOOLEAN /\ notifying' \subseteq Exchanges /\ recent' \subseteq 1..MaxEvents
    BY <1>3
  <2> QED BY <1>2, <1>3, <1>5, <1>6, <2>1, <2>2
      DEF RecorderTypeOK, Events, FileType, StreamType
<1>8. Known'
  <2>1. ASSUME NEW s \in Streams
        PROVE  /\ last'[s] <= recorded' /\ stream'[s].after <= recorded'
               /\ \A e \in stream'[s].todo : e <= recorded'
    BY <1>1, <1>2, <1>3, <1>4, <1>5, <2>1 DEF RecorderInv, Known
  <2>2. \A e \in recent' \cup saved' \cup file'.events : e <= recorded'
    BY <1>3, <1>6 DEF RecorderInv, Known
  <2> QED BY <2>1, <2>2 DEF Known
<1>9. Ordered'
  BY <1>3, <1>6 DEF RecorderInv, Ordered
<1>10. Connected' /\ \A s \in Streams : Following(stream[s])'
  BY <1>4, <1>5 DEF Connected, Following
<1> QED BY <1>7, <1>8, <1>9, <1>10 DEF RecorderInv

-----------------------------------------------------------------------------
LEMMA RecorderBegins == ASSUME RecorderInit PROVE RecorderInv
<1> DEFINE c == Closed
           empty == EmptyLog
<1>1. MaxEvents \in Nat /\ RecentLimit \in Nat
  BY RecorderAssumption
<1>2. /\ up = FALSE /\ recorded = 0 /\ since = 0 /\ recent = {} /\ saved = {} /\ notifying = {}
      /\ file = [empty EXCEPT !.open = FALSE]
      /\ stream = [s \in Streams |-> c] /\ last = [s \in Streams |-> 0]
  BY DEF RecorderInit
<1>3. c \in StreamType /\ c.pc = "closed" /\ c.after = 0 /\ c.todo = {}
  BY ClosedType
<1>4. empty \in FileType /\ empty.events = {}
  BY DEF EmptyLog, FileType
<1> HIDE DEF c, empty
<1>5. file \in FileType /\ file.events = {}
  BY <1>2, <1>4 DEF FileType
<1>6. /\ stream \in [Streams -> StreamType] /\ last \in [Streams -> 0..MaxEvents]
      /\ \A s \in Streams : stream[s] = c /\ last[s] = 0
  BY <1>1, <1>2, <1>3
<1>7. RecorderTypeOK
  <2>1. Cardinality(recent) <= RecentLimit
    <3>1. Cardinality(recent) = 0
      BY <1>2, FS_EmptySet
    <3>2. Cardinality(recent) <= RecentLimit
      BY <1>1, <3>1
    <3> QED BY <3>2
  <2>2. recorded \in 0..MaxEvents /\ since \in 0..recorded
    BY <1>1, <1>2
  <2> QED BY <1>2, <1>5, <1>6, <2>1, <2>2 DEF RecorderTypeOK, Events, FileType, StreamType
<1>8. Known
  BY <1>2, <1>3, <1>5, <1>6 DEF Known
<1>9. Ordered
  BY <1>2, <1>5 DEF Ordered, Covers
<1>10. Connected /\ \A s \in Streams : Following(stream[s])
  BY <1>3, <1>6 DEF Connected, Following
<1> QED BY <1>7, <1>8, <1>9, <1>10 DEF RecorderInv

LEMMA RecorderKeeps ==
  ASSUME RecorderInv, [RecorderNext]_(recorderVars) PROVE RecorderInv'
<1>1. ASSUME NEW x \in Exchanges, Record(x) \/ NotifySubscribers(x) PROVE RecorderInv'
  BY <1>1, RecordKeeps, NotifyKeeps
<1>2. ASSUME NEW s \in Streams,
             \/ Refresh(s) \/ Subscribe(s) \/ ReadAvailable(s) \/ SendEvent(s)
             \/ Wait(s) \/ Wake(s) \/ Disconnect(s)
      PROVE  RecorderInv'
  BY <1>2, RefreshKeeps, SubscribeKeeps, ReadKeeps, SendKeeps, WaitKeeps, DisconnectKeeps
<1>3. CASE UNCHANGED recorderVars
  <2>1. UNCHANGED <<up, recorded, since, recent, file, saved, notifying, stream, last>>
    BY <1>3 DEF recorderVars
  <2>2. RecorderTypeOK' /\ Known'
    BY <2>1 DEF RecorderInv, RecorderTypeOK, Known
  <2>3. Ordered' /\ Connected'
    BY <2>1 DEF RecorderInv, Ordered, Connected, Covers
  <2>4. \A s \in Streams : Following(stream[s])'
    BY <2>1 DEF RecorderInv, Following, Sent
  <2> QED BY <2>2, <2>3, <2>4 DEF RecorderInv
<1> QED BY <1>1, <1>2, <1>3, StartKeeps, KilledKeeps DEF RecorderNext

\* The variables keep their types; the timeline keeps to its limit.
THEOREM RecorderTypes == RecorderSpec => []RecorderTypeOK
<1>1. RecorderInit => RecorderInv
  BY RecorderBegins
<1>2. RecorderInv /\ [RecorderNext]_(recorderVars) => RecorderInv'
  BY RecorderKeeps
<1>3. RecorderInv => RecorderTypeOK
  BY DEF RecorderInv
<1> QED BY <1>1, <1>2, <1>3, PTL DEF RecorderSpec

\* (Recorder.StreamsComplete) A stream misses no event of the timeline
\* without a reason to read again, and sends no event twice.
THEOREM StreamsMissNothing == RecorderSpec => []StreamsComplete
<1>1. RecorderInit => RecorderInv
  BY RecorderBegins
<1>2. RecorderInv /\ [RecorderNext]_(recorderVars) => RecorderInv'
  BY RecorderKeeps
<1>3. RecorderInv => StreamsComplete
  <2> SUFFICES ASSUME RecorderInv, NEW s \in Streams, stream[s].pc # "closed"
               PROVE  /\ \/ stream[s].pc = "read" \/ stream[s].updates \/ notifying # {}
                         \/ {e \in recent : e > stream[s].after} \subseteq stream[s].todo
                      /\ stream[s].after = 0 \/ stream[s].after > since
                           \/ stream[s].after \in saved =>
                         \A e \in stream[s].todo : e > stream[s].after
    BY DEF StreamsComplete
  <2>1. Following(stream[s])
    BY DEF RecorderInv
  <2>2. Sent(stream[s]) => {e \in recent : e > stream[s].after} \subseteq stream[s].todo
    <3>1. stream[s].after \in Nat /\ recent \subseteq Nat
      <4>1. stream[s] \in StreamType /\ recent \subseteq 1..MaxEvents
        BY DEF RecorderInv, RecorderTypeOK, StreamType, Events
      <4>2. stream[s].after \in 0..MaxEvents
        BY <4>1 DEF StreamType
      <4> QED BY <4>1, <4>2
    <3>2. ASSUME Sent(stream[s]), NEW e \in recent, e > stream[s].after
          PROVE  e \in stream[s].todo
      <4>1. e \in Nat /\ ~(e <= stream[s].after)
        BY <3>1, <3>2
      <4> QED BY <3>2, <4>1 DEF Sent
    <3> QED BY <3>2
  <2> QED BY <2>1, <2>2 DEF Following
<1> QED BY <1>1, <1>2, <1>3, PTL DEF RecorderSpec
=============================================================================
