---------------------------- MODULE Reservations ----------------------------
(***************************************************************************)
(* Account reservations and game sessions in the SQLite database shared by *)
(* the control panel and by one ptcgp-server process per emulator          *)
(* (internal/store/emulators.go, the session half of internal/store/       *)
(* store.go, internal/player/manager.go).                                  *)
(*                                                                         *)
(* A transaction of the store is one action: it either takes the write     *)
(* lock first or is refused by SQLite when another process wrote in        *)
(* between.  What the code does in several statements or transactions is   *)
(* several actions: a login authorizes and then records the authorization, *)
(* a game request reads its session and then the reservation, and the      *)
(* administration of a server opens an account in three steps.  A refused  *)
(* call changes nothing and is not an action.                              *)
(***************************************************************************)
EXTENDS Naturals

CONSTANTS Serials,      \* the emulators, by ADB serial
          Players,      \* every profile that may exist during a behaviour
          Credentials,  \* device accounts games present; clones share them
          ServerAdmin,  \* emulators whose server is administered directly
          MaxSessions,  \* bound on the sessions issued in a behaviour
          NoPlayer, NoAccount, Nobody, Idle

ASSUME ReservationsAssumption ==
  /\ MaxSessions \in Nat
  /\ ServerAdmin \subseteq Serials
  /\ NoPlayer \notin Players
  /\ Nobody \notin Serials
  /\ NoAccount \notin Serials \X Credentials
  /\ Idle \notin Serials \X Credentials

\* Fault: credentials not namespaced, as if all emulators were one.
AccountOf_Shared(s, c) == <<CHOOSE t \in Serials : TRUE, c>>

\* AuthorizeEmulator namespaces the game's device account with its emulator.
AccountOf(s, c) == <<s, c>>

Account == Serials \X Credentials
Session == [id : 1..MaxSessions, player : Players, account : Account]
Reservation == [player : Players \cup {NoPlayer},
                account : Account \cup {NoAccount}, active : BOOLEAN]
AdminIdle == [pc |-> "idle", device |-> NoAccount]
NoReservation == [player |-> NoPlayer, account |-> NoAccount, active |-> FALSE]

VARIABLES
  profile,        \* players table: has the profile been created, deleted
  emulator,       \* emulator_profiles: selection, device account, active flag
  activeProfile,  \* active_profiles: the profile of a device account
  sessions,       \* rows of sessions that are neither revoked nor expired
  issued,         \* number of sessions issued so far
  lastDevice,     \* the device account whose authorization was recorded last
  login,          \* per emulator, an authorization not recorded yet
  request,        \* per emulator, a request that passed the session lookup
  adminOpen,      \* per emulator, an open through the server's administration
  accepted        \* the last game request that was accepted

store == <<profile, emulator, activeProfile, sessions, issued, lastDevice>>
procs == <<login, request, adminOpen, accepted>>
vars  == <<profile, emulator, activeProfile, sessions, issued, lastDevice,
           login, request, adminOpen, accepted>>

TypeOK ==
  /\ profile \in [Players -> {"unused", "live", "deleted"}]
  /\ emulator \in [Serials -> Reservation]
  /\ activeProfile \in [Account -> Players \cup {NoPlayer}]
  /\ sessions \subseteq Session
  /\ issued \in 0..MaxSessions
  /\ lastDevice \in Account \cup {NoAccount}
  /\ login \in [Serials -> [player : Players, account : Account] \cup {Idle}]
  /\ request \in [Serials -> Session \cup {Idle}]
  /\ adminOpen \in [Serials -> [pc : {"idle", "selected", "revoking"},
                                device : Account \cup {NoAccount}]]
  /\ accepted \in (Serials \X Players) \cup {<<>>}

Init ==
  /\ profile = [p \in Players |-> "unused"]
  /\ emulator = [s \in Serials |-> NoReservation]
  /\ activeProfile = [a \in Account |-> NoPlayer]
  /\ sessions = {}
  /\ issued = 0
  /\ lastDevice = NoAccount
  /\ login = [s \in Serials |-> Idle]
  /\ request = [s \in Serials |-> Idle]
  /\ adminOpen = [s \in Serials |-> AdminIdle]
  /\ accepted = <<>>

Live(p) == profile[p] = "live"
Reserved(s) == emulator[s].active /\ emulator[s].player # NoPlayer
Holds(s, p) == emulator[s].active /\ emulator[s].player = p

\* UPDATE sessions SET revoked_at ... WHERE device_account IN accounts.
Revoke(accounts) == {x \in sessions : x.account \notin accounts}

-----------------------------------------------------------------------------
(* The transactions of internal/store.                                     *)

\* Fault: no search for another emulator that holds the profile.
SelectEmulatorPlayer_NoOwnerCheck(s, p, active) ==
  /\ Live(p)
  /\ emulator' = [emulator EXCEPT ![s] =
       [player |-> p, account |-> @.account, active |-> active]]
  /\ sessions' = Revoke({emulator[s].account})
  /\ UNCHANGED <<profile, activeProfile, issued, lastDevice>>

\* The upsert takes the write lock, so the search for another owner cannot be
\* overtaken by a second process.
SelectEmulatorPlayer(s, p, active) ==
  /\ Live(p)
  /\ \A t \in Serials \ {s} : ~Holds(t, p)
  /\ emulator' = [emulator EXCEPT ![s] =
       [player |-> p, account |-> @.account, active |-> active]]
  /\ sessions' = Revoke({emulator[s].account})
  /\ UNCHANGED <<profile, activeProfile, issued, lastDevice>>

\* Fault: the reservation goes, its sessions stay.
ReleaseEmulator_KeepSessions(s) ==
  /\ emulator' = [emulator EXCEPT ![s] =
       [player |-> @.player, account |-> @.account, active |-> FALSE]]
  /\ UNCHANGED <<profile, activeProfile, sessions, issued, lastDevice>>

\* The selection and the device account stay; only the reservation goes.
ReleaseEmulator(s) ==
  /\ emulator' = [emulator EXCEPT ![s] =
       [player |-> @.player, account |-> @.account, active |-> FALSE]]
  /\ sessions' = Revoke({emulator[s].account})
  /\ UNCHANGED <<profile, activeProfile, issued, lastDevice>>

\* A game logs in on its emulator's server: the device account gets the profile
\* and a new session, and the given sessions are revoked.
Authorize(s, c, allowed, revoked, active) ==
  LET account == AccountOf(s, c)
  IN /\ allowed /\ issued < MaxSessions
     /\ activeProfile' = [activeProfile EXCEPT ![account] = active]
     /\ sessions' = Revoke(revoked) \cup
          {[id |-> issued + 1, player |-> emulator[s].player, account |-> account]}
     /\ issued' = issued + 1
     /\ emulator' = [emulator EXCEPT ![s] =
          [player |-> @.player, account |-> account, active |-> @.active]]
     /\ UNCHANGED <<profile, lastDevice>>

\* The row must be a reservation; the sessions of both the new and the
\* previous device account of the emulator are revoked.
AuthorizeEmulator(s, c) ==
  Authorize(s, c, Reserved(s), {AccountOf(s, c), emulator[s].account}, emulator[s].player)

RevokeDeviceSessions(account) ==
  /\ sessions' = Revoke({account})
  /\ UNCHANGED <<profile, emulator, activeProfile, issued, lastDevice>>

\* A profile an emulator holds cannot be deleted.  The device accounts it was
\* active on get another existing profile (which one depends on links and on
\* the display order, left open here) and lose their sessions; with no profile
\* left they get none, and the foreign keys drop the rows of the profile.
DeletePlayer(p) ==
  LET orphans == {a \in Account : activeProfile[a] = p}
      others == {q \in Players \ {p} : Live(q)}
  IN /\ Live(p)
     /\ \A s \in Serials : ~Holds(s, p)
     /\ profile' = [profile EXCEPT ![p] = "deleted"]
     /\ emulator' = [s \in Serials |->
          [player  |-> IF emulator[s].player = p THEN NoPlayer ELSE emulator[s].player,
           account |-> emulator[s].account,
           active  |-> emulator[s].active]]
     /\ \E heir \in [orphans -> IF others = {} THEN {NoPlayer} ELSE others] :
          activeProfile' = [a \in Account |-> IF a \in orphans THEN heir[a]
                                              ELSE activeProfile[a]]
     /\ sessions' = {x \in Revoke(IF others = {} THEN {} ELSE orphans) : x.player # p}
     /\ UNCHANGED <<issued, lastDevice>>

\* Identifiers are random UUIDs: a deleted profile's is never used again.
CreatePlayer(p) ==
  /\ profile[p] = "unused"
  /\ profile' = [profile EXCEPT ![p] = "live"]
  /\ UNCHANGED <<emulator, activeProfile, sessions, issued, lastDevice>>

-----------------------------------------------------------------------------
(* The callers: the panel, the games' servers and their administration.    *)

\* MultiRunner.OpenPlayer, or "select" in the administration.
Open(s, p) == SelectEmulatorPlayer(s, p, TRUE) /\ UNCHANGED procs

\* OpenPlayer gives an inactive selection back after a failed launch.
Reselect(s, p) == SelectEmulatorPlayer(s, p, FALSE) /\ UNCHANGED procs

\* Official, Stop all, or a status request that finds the game stopped.
Release(s) == ReleaseEmulator(s) /\ UNCHANGED procs

Create(p) == CreatePlayer(p) /\ UNCHANGED procs
Delete(p) == DeletePlayer(p) /\ UNCHANGED procs

\* A session reaches its expires_at.
Expire(x) ==
  /\ sessions' = sessions \ {x}
  /\ UNCHANGED <<profile, emulator, activeProfile, issued, lastDevice>>
  /\ UNCHANGED procs

\* Manager.Authorize: the session exists before the authorization is recorded.
Login(s, c) ==
  /\ login[s] = Idle
  /\ AuthorizeEmulator(s, c)
  /\ login' = [login EXCEPT ![s] = [player |-> emulator[s].player,
                                    account |-> AccountOf(s, c)]]
  /\ UNCHANGED <<request, adminOpen, accepted>>

RecordAuthorization(s) ==
  /\ login[s] # Idle
  /\ lastDevice' = login[s].account
  /\ login' = [login EXCEPT ![s] = Idle]
  /\ UNCHANGED <<profile, emulator, activeProfile, sessions, issued>>
  /\ UNCHANGED <<request, adminOpen, accepted>>

\* Manager.PlayerBySession, first read.  The game may present any session, its
\* own or one copied with the Android state of another emulator.
LookUpSession(s, x) ==
  /\ request[s] = Idle
  /\ x \in sessions /\ activeProfile[x.account] = x.player
  /\ request' = [request EXCEPT ![s] = x]
  /\ UNCHANGED store
  /\ UNCHANGED <<login, adminOpen, accepted>>

\* Fault: the reservation may be for another profile by now.
ReservationAdmits_AnyPlayer(s, x) ==
  emulator[s].active /\ emulator[s].account = x.account

\* Second read: the reservation of the server's own emulator, as it is now.
ReservationAdmits(s, x) ==
  /\ emulator[s].active
  /\ emulator[s].player = x.player
  /\ emulator[s].account = x.account

CheckReservation(s) ==
  /\ request[s] # Idle
  /\ accepted' = IF ReservationAdmits(s, request[s])
                 THEN <<s, request[s].player>> ELSE accepted
  /\ request' = [request EXCEPT ![s] = Idle]
  /\ UNCHANGED store
  /\ UNCHANGED <<login, adminOpen>>

\* Manager.OpenInGame in a server: its launcher cannot open a player, so the
\* server selects the profile itself, asks for the current device and revokes
\* that device's sessions.
AdminSelect(s, p) ==
  /\ s \in ServerAdmin
  /\ adminOpen[s].pc = "idle"
  /\ SelectEmulatorPlayer(s, p, TRUE)
  /\ adminOpen' = [adminOpen EXCEPT ![s] = [pc |-> "selected", device |-> NoAccount]]
  /\ UNCHANGED <<login, request, accepted>>

AdminCurrentDevice(s) ==
  /\ adminOpen[s].pc = "selected"
  /\ adminOpen' = [adminOpen EXCEPT ![s] = [pc |-> "revoking", device |-> lastDevice]]
  /\ UNCHANGED store
  /\ UNCHANGED <<login, request, accepted>>

AdminRevoke(s) ==
  /\ adminOpen[s].pc = "revoking"
  /\ RevokeDeviceSessions(adminOpen[s].device)
  /\ adminOpen' = [adminOpen EXCEPT ![s] = AdminIdle]
  /\ UNCHANGED <<login, request, accepted>>

\* What one emulator's panel actions, game and administration may do.
Acts(s) ==
  \/ \E p \in Players : Open(s, p) \/ Reselect(s, p) \/ AdminSelect(s, p)
  \/ Release(s)
  \/ \E c \in Credentials : Login(s, c)
  \/ RecordAuthorization(s)
  \/ \E x \in sessions : LookUpSession(s, x)
  \/ CheckReservation(s)
  \/ AdminCurrentDevice(s)
  \/ AdminRevoke(s)

Next ==
  \/ \E s \in Serials : Acts(s)
  \/ \E p \in Players : Create(p) \/ Delete(p)
  \/ \E x \in sessions : Expire(x)

Spec == Init /\ [][Next]_vars

-----------------------------------------------------------------------------
(* Properties.                                                             *)

\* A reservation's device account is one of its own emulator.
AccountsNamespaced ==
  \A s \in Serials : emulator[s].account = NoAccount \/ emulator[s].account[1] = s

\* No profile is reserved by two emulators at once, whatever processes raced
\* to select it (emulators.go:80, the unique index of migrate.go:59).
ExclusiveReservation ==
  \A s, t \in Serials : \A p \in Players : Holds(s, p) /\ Holds(t, p) => s = t

\* A session that still works belongs to the current reservation of the
\* emulator it was issued to, with the same profile and device account: none
\* survives a change of account, Official, Stop all or a new login, and cloned
\* credentials never make one emulator's session work for another.
SessionsFollowReservation ==
  \A x \in sessions : \E s \in Serials :
     Holds(s, x.player) /\ emulator[s].account = x.account

\* An emulator's game has at most one working session (AuthorizeEmulator
\* revokes the sessions of both the old and the new device account).
OneSessionPerEmulator ==
  \A x, y \in sessions : x.account[1] = y.account[1] => x = y

\* A working session always resolves: nothing changes the profile of a device
\* account without revoking its sessions (PlayerBySession joins the two).
SessionsResolve == \A x \in sessions : activeProfile[x.account] = x.player

\* "Only the selected emulator's previous session is revoked; other emulators
\* keep playing" (emulators.go:81): no selection, release, login or lookup for
\* one emulator ever ends a session of another.
SparesOthers(s) == \A x \in sessions : x.account[1] # s => x \in sessions'
OtherDevicesKeepPlaying ==
  [][\A s \in Serials : Acts(s) /\ ~AdminRevoke(s) => SparesOthers(s)]_vars

\* The reservations implement the lease.
HolderOf(p) == IF \E s \in Serials : Holds(s, p)
               THEN CHOOSE s \in Serials : Holds(s, p)
               ELSE Nobody

Lease == INSTANCE ProfileLease WITH holder <- [p \in Players |-> HolderOf(p)],
                                    played <- accepted
ImplementsLease == Lease!Spec
=============================================================================
