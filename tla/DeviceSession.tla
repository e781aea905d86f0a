--------------------------- MODULE DeviceSession ---------------------------
(***************************************************************************)
(* One phone and the accounts that sign in on it: the tokens, the cached   *)
(* vault and whose it is, the unlocked session, and the biometric key.     *)
(* The actions are the sign-in and pairing screens with what they ask of a *)
(* browser and the server, the flows of src/auth/session.ts (launch,       *)
(* sign-in, sign-out), the refresh of src/api/axios-instance.ts, and the   *)
(* unlock, lock and enrolment of src/vault.  A step is what runs between two *)
(* awaits on the network, the key store, a file or a key derivation.  The  *)
(* process may be killed between any two of them.                          *)
(***************************************************************************)
EXTENDS Naturals, FiniteSets

CONSTANTS Account,   \* the accounts that may sign in on this phone
          None,      \* no account
          Overlap    \* what may be under way when its session ends (below)

(***************************************************************************)
(* "refresh", "unlock", "enroll": such a call may outlive the session it   *)
(* belongs to, or an enrolment begin before its unlock has ended.          *)
(* "kill": the app may be killed, or lose the network, after a sign-in has *)
(* its tokens and before it has looked at whose vault is on the phone, or  *)
(* between the deletions of a sign-out or of a change of accounts.         *)
(* "signin": a sign-in may be begun, or its answer come, while another goes *)
(* on or has gone through, or the deletions of a sign-out are not done.    *)
(* The program excludes none of them.                                      *)
(***************************************************************************)
ASSUME NoneIsNoAccount == None \notin Account
ASSUME OverlapIsKinds  == Overlap \subseteq {"refresh", "unlock", "enroll", "kill", "signin"}

VARIABLES
  refresh,   \* key store: the refresh token, its account, and whether the server still takes it
  dek,       \* key store: the account whose vault key lies behind biometrics
  flag,      \* key store: the prompt-free mirror "a key is enrolled"
  blob,      \* file: whose vault is cached
  meta,      \* file: the account the cached vault is recorded to belong to
  access,    \* memory: the account of the access token
  auth,      \* Redux: status and user
  session,   \* memory: whose vault is decrypted
  password,  \* memory: the master password is held
  vault,     \* Redux: locked or unlocked
  projects,  \* Redux: whose project hosts are listed
  enrolled,  \* Redux: what the unlock screen believes of biometrics
  entry,     \* what a sign-in screen has asked for: the browser, or the server
  login,     \* the launch, or the sign-in that has its answer, under way
  unlocking, \* the unlock under way
  refreshing,\* the refresh in flight
  enrolling, \* the enrolment under way: its prompt, then its flag
  out,       \* the sign-out: none, its deletions under way, done
  noVault,   \* what the unlock screen shows: that the account has no vault
  alert,     \* the system's dialog on top: an offer to enrol, a sign-out to confirm
  app        \* active, in the background, or not running

disk   == <<refresh, dek, flag, blob, meta>>
secret == <<session, password, vault, noVault>>
redux  == <<auth, projects, enrolled>>
calls  == <<entry, login, unlocking, refreshing, enrolling, out>>
ui     == <<alert, app>>
vars   == <<disk, access, secret, redux, calls, ui>>

Maybe   == Account \cup {None}
NoToken == [acct |-> None, live |-> FALSE]
Token   == [acct : Account, live : BOOLEAN] \cup {NoToken}
Live(a) == [acct |-> a, live |-> TRUE]

Unknown       == [status |-> "unknown", user |-> None]
Anonymous     == [status |-> "anonymous", user |-> None]
SignedIn(a)   == [status |-> "authenticated", user |-> a]
Authenticated == auth.status = "authenticated"

Way         == {"email", "provider", "pairing"}
NoEntry     == [pc |-> "idle", by |-> "none"]
Idle        == [pc |-> "idle", acct |-> None, by |-> "none"]
NoUnlock    == [pc |-> "idle", bio |-> FALSE, typed |-> None, blob |-> None]
NoEnrol     == [pc |-> "idle", key |-> None]
NoRefresh   == [pc |-> "idle", acct |-> None]
LoginPc     == {"idle", "read", "rotated", "who", "reconcile", "forget", "publish",
                "rejected", "unreached"}

TypeOK ==
  /\ refresh \in Token /\ dek \in Maybe /\ flag \in BOOLEAN
  /\ blob \in Maybe /\ meta \in Maybe /\ access \in Maybe
  /\ auth \in {Unknown, Anonymous} \cup {SignedIn(a) : a \in Account}
  /\ session \in Maybe /\ password \in BOOLEAN /\ vault \in {"locked", "unlocked"}
  /\ projects \in Maybe /\ enrolled \in BOOLEAN
  /\ entry \in [pc : {"browser", "ask"}, by : Way] \cup {NoEntry}
  /\ login \in [pc : LoginPc, acct : Maybe, by : Way \cup {"launch", "none"}]
  /\ login.pc \in {"rotated", "who", "reconcile", "forget", "publish"} => login.acct \in Account
  /\ unlocking \in [pc : {"idle", "pull", "derive", "baseline", "patch"},
                    bio : BOOLEAN, typed : Maybe, blob : Maybe]
  /\ unlocking.pc = "derive" => unlocking.blob \in Account
  /\ unlocking.pc = "patch" => unlocking.typed \in Account
  /\ refreshing \in [pc : {"idle", "read", "ok", "rejected", "lost"}, acct : Maybe]
  /\ refreshing.pc = "ok" => refreshing.acct \in Account
  /\ enrolling \in [pc : {"idle", "prompt", "flag"}, key : Maybe]
  /\ out \in {"none", "deleting", "done"}
  /\ noVault \in BOOLEAN /\ alert \in {"none", "offer", "sign-out"}
  /\ app \in {"active", "background", "dead"}

Init ==
  /\ refresh = NoToken /\ dek = None /\ flag = FALSE /\ blob = None /\ meta = None
  /\ access = None /\ auth = Unknown
  /\ session = None /\ password = FALSE /\ vault = "locked"
  /\ projects = None /\ enrolled = FALSE
  /\ entry = NoEntry /\ login = Idle /\ unlocking = NoUnlock /\ refreshing = NoRefresh
  /\ enrolling = NoEnrol /\ out = "none"
  /\ noVault = FALSE /\ alert = "none" /\ app = "dead"

-----------------------------------------------------------------------------
(* What several flows share.                                               *)

\* Mutant of ForgetSecrets: the master password is not cleared.
ForgetSecretsKeepPassword ==
  session' = None /\ vault' = "locked" /\ noVault' = FALSE /\ UNCHANGED password

ForgetPassword == password' = FALSE

\* Secrets dropped, vault locked: the part of a lock that a lost session shares.
\* The unlock screen, if it was there, goes or is a new one.
ForgetSecrets == session' = None /\ ForgetPassword /\ vault' = "locked" /\ noVault' = FALSE

\* The session is over: secrets and signed-in user go; project views, host
\* probes and the biometric flag in Redux stay.
TearDown == ForgetSecrets /\ auth' = Anonymous /\ UNCHANGED <<projects, enrolled>>

\* The listener of the access token ends a signed-in session.
TokenLost == IF Authenticated THEN TearDown ELSE UNCHANGED <<secret, redux>>

\* The access token is dropped, and its listener told.
LoseAccess == access' = None /\ TokenLost

\* A request carries the token there is at that moment.
Asks(a) == access = a

ForgetVault == blob' = None /\ meta' = None
ForgetDek   == dek' = None /\ flag' = FALSE

\* Nothing but what Overlap tolerates outlives a session that ends.
QuietEnd ==
  /\ "unlock" \in Overlap \/ unlocking.pc = "idle"
  /\ "enroll" \in Overlap \/ enrolling = NoEnrol

\* The server is asked for a new token pair.  It spends the token it takes; a
\* token it has spent or revoked is refused, an answer may be lost on the way.
Exchange(answer) ==
  \/ answer = "ok"   /\ refresh.live  /\ refresh' = [refresh EXCEPT !.live = FALSE]
  \/ answer = "rejected" /\ ~refresh.live /\ UNCHANGED refresh
  \/ answer = "lost" /\ refresh' \in {refresh, [refresh EXCEPT !.live = FALSE]}

\* The screens that a state admits; the others unmount when it changes.
Admitted ==
  CASE auth.status = "unknown"             -> {}
    [] auth.status = "anonymous"           -> {"sign-in", "pair"}
    [] Authenticated /\ vault = "locked"   -> {"unlock"}
    [] Authenticated /\ vault = "unlocked" -> {"tabs"}

\* The screen one is sent to when another is not admitted.
Landing ==
  IF ~Authenticated THEN "sign-in" ELSE IF vault = "locked" THEN "unlock" ELSE "tabs"

\* The user may use this screen: nothing lies over it.
Shows(screen) == app = "active" /\ screen \in Admitted /\ alert = "none"

\* An unlock begins: the cached vault is read, or there is none yet.
NewUnlock(bio, typed) ==
  [pc |-> IF blob = None THEN "pull" ELSE "derive", bio |-> bio, typed |-> typed, blob |-> blob]

-----------------------------------------------------------------------------
(* Launch: the silent refresh, or the cached account when offline.         *)

Launch ==
  /\ app = "dead"
  /\ app' = "active"
  /\ login' = [pc |-> "read", acct |-> None, by |-> "launch"]
  /\ UNCHANGED <<disk, access, secret, redux, entry, unlocking, refreshing, enrolling, out, alert>>

\* No stored token, or one the server refused: anonymous.
BootAnonymous ==
  /\ \/ login.pc = "read" /\ refresh = NoToken
     \/ login.pc = "rejected"
  /\ refresh' = NoToken
  /\ auth' = Anonymous
  /\ login' = Idle
  /\ UNCHANGED <<dek, flag, blob, meta, access, secret, projects, enrolled,
                 unlocking, refreshing, enrolling, out, entry, ui>>

BootExchange ==
  /\ login.pc = "read" /\ refresh # NoToken
  /\ \E answer \in {"ok", "rejected", "lost"} :
       /\ Exchange(answer)
       /\ login' = [login EXCEPT !.pc = CASE answer = "ok" -> "rotated"
                                          [] answer = "rejected" -> "rejected"
                                          [] OTHER -> "unreached",
                                 !.acct = refresh.acct]
  /\ UNCHANGED <<dek, flag, blob, meta, access, secret, redux,
                 unlocking, refreshing, enrolling, out, entry, ui>>

\* An error that is neither a refusal nor a missing network keeps the token.
BootRefusedOtherwise ==
  /\ login.pc = "read" /\ refresh # NoToken
  /\ auth' = Anonymous
  /\ login' = Idle
  /\ UNCHANGED <<disk, access, secret, projects, enrolled,
                 unlocking, refreshing, enrolling, out, entry, ui>>

BootRotated ==
  /\ login.pc = "rotated"
  /\ access' = login.acct
  /\ refresh' = Live(login.acct)
  /\ login' = [login EXCEPT !.pc = "who"]
  /\ UNCHANGED <<dek, flag, blob, meta, secret, redux,
                 unlocking, refreshing, enrolling, out, entry, ui>>

\* Mutant of BootOffline: nothing is resolved when there is nothing to restore.
BootOfflineOnlyCached ==
  /\ login.pc = "unreached" /\ meta # None /\ blob # None
  /\ auth' = SignedIn(meta) /\ enrolled' = flag
  /\ login' = Idle
  /\ UNCHANGED <<disk, access, secret, projects,
                 unlocking, refreshing, enrolling, out, entry, ui>>

\* Offline: the account recorded with the cached vault is signed in.
BootOffline ==
  /\ login.pc = "unreached"
  /\ IF meta # None /\ blob # None
       THEN auth' = SignedIn(meta) /\ enrolled' = flag
       ELSE auth' = Anonymous /\ UNCHANGED enrolled
  /\ login' = Idle
  /\ UNCHANGED <<disk, access, secret, projects,
                 unlocking, refreshing, enrolling, out, entry, ui>>

-----------------------------------------------------------------------------
(* Sign-in: by password, by a provider in the browser, by a pairing code.  *)

\* The buttons of the sign-in and the pairing screen.  Each blocks itself while its
\* own call is under way, a provider's the other providers'; none blocks the
\* other ways in.
SignInOffers(by) ==
  /\ Shows(IF by = "pairing" THEN "pair" ELSE "sign-in")
  /\ entry = NoEntry /\ by # login.by

\* Both screens may be left: the call goes on.
BeginEntry(by) ==
  /\ SignInOffers(by)
  /\ "signin" \in Overlap \/ login = Idle
  /\ entry' = [pc |-> IF by = "provider" THEN "browser" ELSE "ask", by |-> by]
  /\ UNCHANGED <<disk, access, secret, redux, login, unlocking, refreshing, enrolling, out, ui>>

\* The browser comes back with a code, exchanged as a typed one is; or with an
\* error, or dismissed, which ends it.
BrowserReturns ==
  /\ entry.pc = "browser" /\ app = "active"
  /\ entry' \in {[entry EXCEPT !.pc = "ask"], NoEntry}
  /\ UNCHANGED <<disk, access, secret, redux, login, unlocking, refreshing, enrolling, out, ui>>

\* Wrong password or code, an address not verified, no answer: as before.
EntryRefused ==
  /\ entry.pc = "ask"
  /\ entry' = NoEntry
  /\ UNCHANGED <<disk, access, secret, redux, login, unlocking, refreshing, enrolling, out, ui>>

\* The server answers with a session of the account: its tokens are stored.
SignIn(a) ==
  /\ entry.pc = "ask" /\ login = Idle
  /\ "signin" \in Overlap \/ (auth = Anonymous /\ out # "deleting")
  /\ "refresh" \in Overlap \/ refreshing = NoRefresh
  /\ access' = a
  /\ refresh' = Live(a)
  /\ login' = [pc |-> "who", acct |-> a, by |-> entry.by]
  /\ entry' = NoEntry
  /\ out' = IF out = "deleting" THEN out ELSE "none"
  /\ UNCHANGED <<dek, flag, blob, meta, secret, redux, unlocking, refreshing, enrolling, ui>>

\* The account behind the token is known, from the answer or by a request.
Resolve ==
  /\ login.pc = "who"
  /\ \/ login' = [login EXCEPT !.pc = "reconcile"]
     \/ login.by = "launch" /\ login' = [login EXCEPT !.pc = "unreached"]
     \/ login.by = "launch" /\ ~refresh.live /\ login' = [login EXCEPT !.pc = "rejected"]
     \/ login.by # "launch" /\ "kill" \in Overlap /\ login' = Idle
  /\ UNCHANGED <<disk, access, secret, redux, unlocking, refreshing, enrolling,
                 out, entry, ui>>

\* Mutant of Reconcile: the owner recorded with the vault is not compared.
ReconcileNever ==
  /\ login.pc = "reconcile"
  /\ login' = [login EXCEPT !.pc = "publish"]
  /\ UNCHANGED <<disk, access, secret, redux, unlocking, refreshing, enrolling,
                 out, entry, ui>>

\* A vault recorded for another account is wiped; one with no record is kept.
Reconcile ==
  /\ login.pc = "reconcile"
  /\ IF meta \in {None, login.acct}
       THEN login' = [login EXCEPT !.pc = "publish"] /\ UNCHANGED <<blob, meta>>
       ELSE login' = [login EXCEPT !.pc = "forget"] /\ ForgetVault
  /\ UNCHANGED <<refresh, dek, flag, access, secret, redux,
                 unlocking, refreshing, enrolling, out, entry, ui>>

ReconcileDek ==
  /\ login.pc = "forget"
  /\ ForgetDek
  /\ enrolled' = FALSE
  /\ login' = [login EXCEPT !.pc = "publish"]
  /\ UNCHANGED <<refresh, blob, meta, access, secret, auth, projects,
                 unlocking, refreshing, enrolling, out, entry, ui>>

\* The account is signed in; a password it was signed in with goes on to unlock
\* its vault, unless an unlock of the screen beneath is already under way.
Publish ==
  /\ login.pc = "publish"
  /\ auth' = SignedIn(login.acct)
  /\ enrolled' = flag
  /\ unlocking' = IF login.by = "email" /\ unlocking = NoUnlock
                    THEN NewUnlock(FALSE, login.acct) ELSE unlocking
  /\ login' = Idle
  /\ UNCHANGED <<disk, access, secret, projects, entry, refreshing, enrolling, out, ui>>

-----------------------------------------------------------------------------
(* Sign-out: memory and files at once, then the key store.                 *)

\* The settings ask first.
RequestSignOut ==
  /\ Shows("tabs")
  /\ alert' = "sign-out"
  /\ UNCHANGED <<disk, access, secret, redux, calls, app>>

\* From the unlock screen at once, or confirmed in the dialog, whatever has become of
\* the session under it.
SignOut ==
  /\ Shows("unlock") \/ (app = "active" /\ alert = "sign-out")
  /\ alert' = "none"
  /\ out # "deleting" /\ login = Idle
  /\ QuietEnd
  /\ "refresh" \in Overlap \/ refreshing = NoRefresh
  /\ TearDown
  /\ access' = None
  /\ ForgetVault
  /\ out' = "deleting"
  /\ UNCHANGED <<refresh, dek, flag, login, unlocking, refreshing, enrolling, entry, app>>

\* Mutant of SignOutDone: the flag beside the biometric key is left.
SignOutDoneKeepsFlag ==
  /\ out = "deleting"
  /\ refresh' = NoToken
  /\ dek' = None
  /\ out' = "done"
  /\ UNCHANGED <<flag, blob, meta, access, secret, redux, login, unlocking, refreshing,
                 enrolling, entry, ui>>

SignOutDone ==
  /\ out = "deleting"
  /\ refresh' = NoToken
  /\ ForgetDek
  /\ out' = "done"
  /\ UNCHANGED <<blob, meta, access, secret, redux, login, unlocking, refreshing, enrolling, entry, ui>>

-----------------------------------------------------------------------------
(* The refresh behind a request the server answered with 401.  Requests    *)
(* that meet a refresh in flight wait for it.                              *)

\* A request of the session, or one that was under way when it was signed out.
RefreshStart ==
  /\ app # "dead" /\ refreshing = NoRefresh
  /\ Authenticated \/ out = "done"
  /\ refreshing' = [pc |-> "read", acct |-> None]
  /\ UNCHANGED <<disk, access, secret, redux, login, unlocking, enrolling, out, entry, ui>>

RefreshNoToken ==
  /\ refreshing.pc = "read" /\ refresh = NoToken
  /\ Authenticated => QuietEnd
  /\ LoseAccess
  /\ refreshing' = NoRefresh
  /\ UNCHANGED <<disk, login, unlocking, enrolling, out, entry, ui>>

RefreshExchange ==
  /\ refreshing.pc = "read" /\ refresh # NoToken
  /\ \E answer \in {"ok", "rejected", "lost"} :
       /\ Exchange(answer)
       /\ refreshing' = [pc |-> answer, acct |-> refresh.acct]
  /\ UNCHANGED <<dek, flag, blob, meta, access, secret, redux,
                 login, unlocking, enrolling, out, entry, ui>>

RefreshOk ==
  /\ refreshing.pc = "ok"
  /\ access' = refreshing.acct
  /\ refresh' = Live(refreshing.acct)
  /\ refreshing' = NoRefresh
  /\ UNCHANGED <<dek, flag, blob, meta, secret, redux, login, unlocking, enrolling, out, entry, ui>>

\* Only a refusal by the server drops the stored token; a lost answer keeps it.
RefreshFailed ==
  /\ refreshing.pc \in {"rejected", "lost"}
  /\ Authenticated => QuietEnd
  /\ LoseAccess
  /\ refresh' = IF refreshing.pc = "rejected" THEN NoToken ELSE refresh
  /\ refreshing' = NoRefresh
  /\ UNCHANGED <<dek, flag, blob, meta, login, unlocking, enrolling, out, entry, ui>>

\* The server revokes the session: another device, an expiry.
Revoke ==
  /\ refresh.live
  /\ refresh' = [refresh EXCEPT !.live = FALSE]
  /\ UNCHANGED <<dek, flag, blob, meta, access, secret, redux, calls, ui>>

-----------------------------------------------------------------------------
(* Unlock, by the password of the signed-in account or by biometrics.      *)

\* The unlock screen: the password, and biometrics when a key is enrolled, unless
\* the account was found to have no vault; then only the sign-out is left.
UnlockOffers(bio) ==
  /\ Shows("unlock") /\ ~noVault
  /\ unlocking = NoUnlock
  /\ bio => enrolled

\* Mutant of UnlockStart: an account without a cached vault is not looked up.
UnlockStartNoPull(bio) ==
  /\ UnlockOffers(bio)
  /\ unlocking' = [pc |-> "derive", bio |-> bio, typed |-> auth.user, blob |-> blob]
  /\ UNCHANGED <<disk, access, secret, redux, login, refreshing, enrolling,
                 out, entry, ui>>

UnlockStart(bio) ==
  /\ UnlockOffers(bio)
  /\ unlocking' = NewUnlock(bio, auth.user)
  /\ UNCHANGED <<disk, access, secret, redux, login, refreshing, enrolling,
                 out, entry, ui>>

\* The vault of the account the request speaks for is stored, without an owner.
Pull ==
  /\ unlocking.pc = "pull"
  /\ \E a \in Account :
       /\ Asks(a)
       /\ blob' = a
       /\ unlocking' = [unlocking EXCEPT !.pc = "derive", !.blob = a]
  /\ UNCHANGED <<refresh, dek, flag, meta, access, secret, redux,
                 login, refreshing, enrolling, out, entry, ui>>

\* The account has none yet, which the screen that asked shows for as long as it is
\* there.
PullNothing ==
  /\ unlocking.pc = "pull" /\ access # None
  /\ noVault' = ("unlock" \in Admitted)
  /\ unlocking' = NoUnlock
  /\ UNCHANGED <<disk, access, session, password, vault, redux, login, refreshing, enrolling,
                 out, entry, ui>>

\* The request fails, the prompt is dismissed, the secret does not open the vault:
\* locked as before.
UnlockFails ==
  /\ unlocking.pc \in {"pull", "derive"}
  /\ unlocking' = NoUnlock
  /\ UNCHANGED <<disk, access, secret, redux, login, refreshing, enrolling,
                 out, entry, ui>>

\* Accounts have different passwords, so the one typed opens that account's vault only.
Open ==
  /\ unlocking.pc = "derive"
  /\ unlocking.blob = IF unlocking.bio THEN dek ELSE unlocking.typed
  /\ session' = unlocking.blob
  /\ vault' = "unlocked" /\ noVault' = FALSE
  /\ password' = (password \/ ~unlocking.bio)
  /\ unlocking' = [unlocking EXCEPT !.pc = "baseline"]
  /\ UNCHANGED <<disk, access, redux, login, refreshing, enrolling,
                 out, entry, ui>>

\* The cached key is another account's, or another device has since given the
\* account's vault a new one (VaultKeys): it is dropped.
StaleDek ==
  /\ unlocking.pc = "derive" /\ unlocking.bio /\ dek # None
  /\ ForgetDek
  /\ enrolled' = FALSE
  /\ unlocking' = NoUnlock
  /\ UNCHANGED <<refresh, blob, meta, access, secret, auth, projects,
                 login, refreshing, enrolling, out, entry, ui>>

\* After an unlock by password the biometrics are offered, on a phone that has them
\* and no key behind them; the dialog outlives the screen it came from.
OfferEnrollment ==
  \/ ~unlocking.bio /\ ~flag /\ alert' = "offer"
  \/ UNCHANGED alert

\* The signed-in account is recorded as the owner, unless one is recorded.
Baseline ==
  /\ unlocking.pc = "baseline"
  /\ IF meta = None /\ auth.user # None
       THEN unlocking' = [unlocking EXCEPT !.pc = "patch", !.typed = auth.user] /\ UNCHANGED alert
       ELSE unlocking' = NoUnlock /\ OfferEnrollment
  /\ UNCHANGED <<disk, access, secret, redux, login, refreshing, enrolling,
                 out, entry, app>>

BaselineWrite ==
  /\ unlocking.pc = "patch"
  /\ meta' = unlocking.typed
  /\ unlocking' = NoUnlock
  /\ OfferEnrollment
  /\ UNCHANGED <<refresh, dek, flag, blob, access, secret, redux,
                 login, refreshing, enrolling, out, entry, app>>

-----------------------------------------------------------------------------
(* Lock, biometric enrolment, and the life of the process.                 *)

LockVault == ForgetSecrets /\ projects' = None /\ UNCHANGED <<auth, enrolled>>

Lock ==
  /\ Shows("tabs")
  /\ LockVault
  /\ UNCHANGED <<disk, access, calls, ui>>

\* The switch of the settings screen: on a phone that can, to turn it on; never while
\* a change is under way.
SwitchWorks(on) ==
  /\ Shows("tabs")
  /\ enrolling = NoEnrol
  /\ on => "enroll" \in Overlap \/ unlocking = NoUnlock

\* Leaving the foreground locks a vault that is unlocked at that moment.
Background ==
  /\ app = "active" /\ app' = "background"
  /\ IF vault = "unlocked" THEN LockVault ELSE UNCHANGED <<secret, redux>>
  /\ UNCHANGED <<disk, access, calls, alert>>

Foreground ==
  /\ app = "background" /\ app' = "active"
  /\ UNCHANGED <<disk, access, secret, redux, calls, alert>>

\* The key of this moment, if a vault is open, is stored when the system's prompt is
\* answered.
EnrollSession ==
  enrolling' = IF session = None THEN enrolling ELSE [pc |-> "prompt", key |-> session]

EnrollStart ==
  /\ SwitchWorks(TRUE) /\ ~enrolled
  /\ EnrollSession
  /\ UNCHANGED <<disk, access, secret, redux, login, unlocking, refreshing, out, entry, ui>>

AcceptOffer ==
  /\ app = "active" /\ alert = "offer" /\ alert' = "none"
  /\ "enroll" \in Overlap \/ (enrolling = NoEnrol /\ unlocking = NoUnlock)
  /\ EnrollSession
  /\ UNCHANGED <<disk, access, secret, redux, login, unlocking, refreshing, out, entry, app>>

\* The other button of a dialog, or a dismissal of it.
DismissAlert ==
  /\ app = "active" /\ alert # "none" /\ alert' = "none"
  /\ UNCHANGED <<disk, access, secret, redux, calls, app>>

EnrollStore ==
  /\ enrolling.pc = "prompt"
  /\ \/ dek' = enrolling.key /\ enrolling' = [enrolling EXCEPT !.pc = "flag"]
     \/ UNCHANGED dek /\ enrolling' = NoEnrol
  /\ UNCHANGED <<refresh, flag, blob, meta, access, secret, redux,
                 login, unlocking, refreshing, out, entry, ui>>

EnrollFlag ==
  /\ enrolling.pc = "flag"
  /\ flag' = TRUE
  /\ enrolled' = TRUE
  /\ enrolling' = NoEnrol
  /\ UNCHANGED <<refresh, dek, blob, meta, access, secret, auth, projects,
                 login, unlocking, refreshing, out, entry, ui>>

Disenroll ==
  /\ SwitchWorks(FALSE) /\ enrolled
  /\ ForgetDek
  /\ enrolled' = FALSE
  /\ UNCHANGED <<refresh, blob, meta, access, secret, auth, projects, calls, ui>>

\* A pass over the account's projects ends and lists their hosts.
ProjectsLoaded ==
  /\ Authenticated /\ vault = "unlocked"
  /\ projects' = auth.user
  /\ UNCHANGED <<disk, access, secret, auth, enrolled, calls, ui>>

\* The process ends; memory is gone, what is on disk stays as it is.
Kill ==
  /\ app # "dead"
  /\ \/ "kill" \in Overlap
     \/ out # "deleting" /\ (login.by = "launch" \/ login.pc \notin {"who", "reconcile"})
        /\ login.pc # "forget"
  /\ access' = None /\ auth' = Unknown
  /\ ForgetSecrets
  /\ projects' = None /\ enrolled' = FALSE
  /\ entry' = NoEntry /\ login' = Idle /\ unlocking' = NoUnlock /\ refreshing' = NoRefresh
  /\ enrolling' = NoEnrol /\ out' = "none"
  /\ alert' = "none" /\ app' = "dead"
  /\ UNCHANGED disk

-----------------------------------------------------------------------------
Booting == BootAnonymous \/ BootExchange \/ BootRefusedOtherwise \/ BootRotated \/ BootOffline
Entering     == (\E by \in Way : BeginEntry(by)) \/ BrowserReturns \/ EntryRefused
Establishing == (\E a \in Account : SignIn(a)) \/ Resolve \/ Reconcile \/ ReconcileDek \/ Publish
SigningOut   == RequestSignOut \/ SignOut \/ SignOutDone
Refreshing   == RefreshStart \/ RefreshNoToken \/ RefreshExchange \/ RefreshOk \/ RefreshFailed
Unlocking    == \/ \E bio \in BOOLEAN : UnlockStart(bio)
                \/ Pull \/ PullNothing \/ UnlockFails \/ Open \/ StaleDek \/ Baseline \/ BaselineWrite
Device       == \/ Launch \/ Lock \/ Background \/ Foreground \/ Kill
                \/ EnrollStart \/ AcceptOffer \/ DismissAlert \/ EnrollStore \/ EnrollFlag \/ Disenroll \/ ProjectsLoaded \/ Revoke

Next == Booting \/ Entering \/ Establishing \/ SigningOut \/ Refreshing \/ Unlocking \/ Device

Spec == Init /\ [][Next]_vars

\* The key store, the files and the network answer, if only with an error.
FairSpec ==
  /\ Spec
  /\ WF_vars(Booting)
  /\ WF_vars(Resolve \/ Reconcile \/ ReconcileDek \/ Publish)
  /\ WF_vars(SignOutDone)
  /\ WF_vars(RefreshNoToken \/ RefreshExchange \/ RefreshOk \/ RefreshFailed)
-----------------------------------------------------------------------------
(* Properties.                                                             *)

\* What is decrypted, the host list's lock state and the master password go
\* together: no flow that ends a session leaves one of them behind.  For every
\* Overlap.  (lockVault, tearDownSessionState, the unlocks.)
SecretsTogether ==
  /\ (session # None) <=> (vault = "unlocked")
  /\ password => session # None

\* What a signed-in user sees of a vault is that user's, and the vault on disk is
\* recorded as no one else's.  (reconcileVaultAccount before sessionEstablished,
\* establishSyncBaseline, restoreOfflineSession.)
VaultIsUsers ==
  Authenticated => session \in {None, auth.user} /\ meta \in {None, auth.user}

\* And so are the tokens, so that nothing is asked of the server in another account's
\* name, a launch without a network included.
TokensAreUsers ==
  Authenticated => refresh.acct \in {None, auth.user} /\ access \in {None, auth.user}

\* No session of one account stands on anything of another.
StoredIsUsers == VaultIsUsers /\ TokensAreUsers

\* After a sign-out nothing of the account is on the device.  (clearSession.)
NoResidue ==
  out = "done" => refresh = NoToken /\ dek = None /\ ~flag /\ blob = None /\ meta = None

\* What ends, a session or the stay of an account, ends whole.
NothingIsLeft == SecretsTogether /\ NoResidue

\* The project hosts listed are those of the signed-in user.  (The reset on lock
\* that the projects slice names; the account switch that account.ts guards.)
ProjectsAreUsers ==
  Authenticated /\ vault = "unlocked" => projects \in {None, auth.user}

\* A launch ends at the sign-in screen, the unlock screen or with the app killed;
\* the splash does not stay, and the screen one is sent to is one of those the guards
\* admit.  (runBootstrap, RootNavigator, Index.)
BootResolves == app # "dead" /\ auth = Unknown ~> Landing \in Admitted \/ app = "dead"
=============================================================================
