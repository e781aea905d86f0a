# Wharf Mobile in TLA+

Wharf Mobile is the phone client of an end-to-end encrypted SSH vault. The
vault, a JSON document of hosts, keys and identity, is sealed on the device; the
server keeps one versioned row of ciphertext per account and refuses an upload
that does not name the current version. The phone edits the vault, syncs it with
the account's other devices, shares project vaults with other accounts, and
opens SSH terminals with what it holds.

This directory models the parts of that program in which order, failure and
concurrency decide whether it is right, checks them with TLC on small instances,
and proves what matters most with TLAPS for every value of the constants.

## Inventory

| Component | State | Operations | Talks to |
|---|---|---|---|
| Personal sync pass (`src/sync/personal.ts`) | stashed conflict (`pending`) | `sync`, `resolve` | its effects |
| Effects (`src/sync/deps.ts`) | none | load, fetch, push, open, adopt, commit, baseline backfill | server, disk, session, Redux |
| Local vault (`src/vault/storage.ts`, `vaultSession.ts`) | blob file, metadata file, session buffer | write, read-merge-write, replace, zero-fill | everything |
| Host edits (`src/vault/hostMutations.ts`) | none | add, edit, delete, set password | local vault, orchestrator |
| Orchestrator (`src/sync/engine.ts`, `projectsEngine.ts`) | running pass, re-run flag, debounce timer, engine object | run, schedule, resolve, start, stop | passes, Redux, app state, connectivity |
| Unlock and lock (`src/vault/unlock.ts`, `biometric.ts`, `useLockOnBackground.ts`) | session, master password, biometric key and flag | unlock by password or biometrics, lock, enrol | local vault, SSH module |
| Project identity (`src/vault/identity.ts`) | key mismatch flag; keypair in the vault, public key at the server | ensure, generate, upgrade, republish | server, local vault, sync |
| Project sync and finalize (`src/sync/projects.ts`, `finalize.ts`) | cached blobs, bookkeeping | pass, seal keys to members | server, storage, identity |
| Project writes (`src/sync/projectVaultWrite.ts`) | none | write with bounded retry, move a host | server, host edits |
| Auth session (`src/auth/`, `src/api/axios-instance.ts`, `src/sync/account.ts`) | access and refresh token, refresh in flight | bootstrap, establish, refresh, sign out, reconcile | server, secure store, local vault |
| SSH engine (`sshengine/`) | pending connects, sessions, prompts, known_hosts | connect, cancel, close, resolve prompts | SSH server, native module |
| Crypto (`src/crypto`) | none | seal and open a vault, wrap and unwrap a project key, classical or hybrid | unlock, effects, identity, projects |
| Document mutations (`src/vault/mutate.ts`, `document.ts`, `hostForm`) | the form and the menu open | add, edit, delete, move, remember a password, strip secrets for the list | host edits, terminal |
| Screens and their guards (`app/_layout.tsx`, `app/index.tsx`, sign-in, pairing, unlock, settings) | calls under way, dialogs | land, sign in three ways, unlock, enrol, sign out | auth session, unlock |
| Project screens (`src/features/projects`, `app/(tabs)/projects`) | sheets, requests under way, fetched details | create, invite, answer, rename, leave, delete, republish | project sync, server |
| Hosts tab and probes (`src/features/hosts`, `probesSlice.ts`) | stack of screens, results, time of the last sweep | list, search, open, probe | slices, SSH module |
| Native bridge (`modules/wharf-ssh`) | module queue, callback executor | one call per engine operation, events back | engine, JavaScript |
| Terminal screen (`src/features/terminal`, `src/terminal`) | current session, phase, prompts, password to remember; the page, its write buffer and size | start, reconnect, close, answer, write, resize | native bridge, host edits |

What is hard in them: every `await` of a pass lets an edit, a lock, a sign-out
or another pass in; the metadata file is read, awaited and written by several
callers; a request may be lost after the server handled it, or be handled after
the phone gave up on it; the app is killed anywhere; the conflict is settled by
a person while passes go on; a connect runs on its own thread and asks questions
whose answers race its deadline; calls into the native module are not waited
for. `PROJECT.json` lists each such hazard at its line, with the properties that
would catch it.

What makes them correct:

- sync: no upload replaces a version the phone has not looked at; no local
  change is dropped without a question; the recorded baseline is what the server
  held; phone and server agree in the end;
- local vault: disk and memory hold one document; nothing recorded is undone;
- orchestrator: an edit reaches a pass that begins after it; one pass at a time;
- identity: the published key has its private half in the vault; the alarm is
  raised for a foreign key and for no other; one identity per account;
- auth: nothing of an account outlives its sign-out, or is used for another;
- keys: whatever is stored opens, also after another client changed the password;
- projects: a retried write loses nothing; every member that is keyed can open;
  what is cached is on the list; a sheet is its user's;
- documents: names are unique; what a form does not show survives; a stored
  password goes only where it was stored for;
- hosts tab: it says nothing it cannot know, and comes to say what is true;
- SSH: secrets go to trusted keys only; the screen tells the truth; whatever is
  started ends; no shell behind a lock.

## Modules

| Module | What it is | Composed with |
|---|---|---|
| `PersonalSync` | the pass, its effects, the local vault, edits, lock, unlock, crashes, the server's row, other devices | implements `SyncContract` |
| `SyncContract` | the table of the header of `personal.ts` as an abstract specification | |
| `SyncOrchestrator` | both orchestrators of passes, `syncSlice`, the notices of `projectsSlice` | implements `TrailingRun`, twice |
| `TrailingRun` | what an orchestrator promises: one pass at a time, a pass after every trigger | |
| `IdentityBootstrap` | the project identity of the phones of one account | a sync in one step, as `PersonalSync` has it |
| `VaultKeys` | which password, recovery code and DEK open which blob | |
| `DeviceSession` | accounts, tokens, cached vault, session, biometric key, sign-in screens, guards of the screens | |
| `HostDocument` | the hosts of a document, the form, menu and terminal they come from | |
| `HostsTab` | what the Hosts tab and a host's screen show, and the probes | |
| `ProjectSharing` | a shared project: writes, pass, cache, sealing to members | |
| `ProjectScreens` | list and screen of projects, sheets, requests, the pass over the list | keys of `ProjectCrypto` |
| `ProjectCrypto` | identities, wrapped DEKs and project blobs, symbolically | |
| `SshSession` | connection attempts, prompts, bridge, terminal screen, lock | |
| `Terminal` | the page beside its session: output, write buffer, size | extends `SshSession` |

The theorems about a module are in the module of its name with `_proofs`; those
about `Terminal` are in `SshSession_proofs`, those about `ProjectCrypto` in
`ProjectSharing_proofs`, those about `VaultKeys` in `SyncOrchestrator_proofs`,
those about `HostsTab` in `DeviceSession_proofs`: the screens fill and forget with
the session, the keys open what the orchestrated passes carry. Where two modules
meet so, the second has names of its own (`KeysSpec`, `KeysTypeOK`, `LockVault`;
`TabSpec`, `TabTypeOK`, `TabLock`). The `MC` modules hold what only TLC needs: symmetry, and
the functions and sets that a configuration cannot write.

How a definition corresponds to the code is in `PROJECT.json` under `map`, line
by line. What follows says how the state does.

Everywhere, a step is what runs between two awaits on the network, a file, the
key store, a key derivation, a thread or a timer. Sealing and fingerprinting are
synchronous code behind `async` functions and belong to the step around them.

`Overlap` (in `HostsTab`: `Meanwhile`, in `Terminal`: `Early`) names what may happen while something is under
way. **The program excludes none of it.** A run with a smaller set checks what
holds while the rest stays away; *What fails* below says, kind by kind, what
breaks when it does not. A theorem either holds for every `Overlap` or names
the kinds it excludes; each of these breaks it, with one exception named under
*Proofs*.

### PersonalSync and SyncContract

`adopt` is two steps (blob file; then, after the awaited read of the metadata,
metadata, session and host list), `pushRemote` three (read the blob, the request
at the server, the answer). A document is the set of its hosts: the pass tells
documents apart by fingerprint, which is equality, and counts hosts. `remote`
keeps every document the server ever held, so that a version names its document.

`flight` holds the passes in flight. There may be two, since `resolveConflict`
calls the engine without looking at the pass `runSync` may have under way. `fp`
is the fingerprint taken at the beginning, `wiped` says that the captured buffer
was zero-filled so that `countHosts` finds nothing in it, `live` that the engine
object still is the one `engine.ts` refers to. `patch` is a read-merge-write of
the metadata by another caller. `endorsed` is a history variable: the versions
the phone took in, found without hosts, or was told by its user to overwrite.

`SyncContract` has three documents, local, last agreed and remote, and says when
each may take another's place: the rows of the table, the rule for a side without
hosts, the user's choice. Under the mapping, `local` is the session, or the blob
while locked; `base` is the metadata; `travelling` is the set of uploads under
way, those the phone has given up on included.

### SyncOrchestrator and TrailingRun

A pass is one call that ends with an outcome. `due` (`pdue`) is a history
variable: a trigger no pass has begun after. `TrailingRun` is instantiated for
each orchestrator, `wanted` being `due` and `busy` being `loops # 0`.

### IdentityBootstrap

Phones of one account, the row of the vault and the published key. An identity is
the pair of the numbers of its X25519 keypair and its ML-KEM seed, counted as
they are minted, so that two mints never coincide. `call` is a bootstrap under
way, with what it captured: the document, the version Redux showed, whether it is
an upgrade. `made` is a history variable: the hosts that no user has given up.

### VaultKeys

A blob is a record: the password and the recovery code of its slots, the DEK
they wrap, the DEK its body is sealed under, and the document. `0` is the DEK a
lock has zero-filled. Other clients edit, change the password, or reset it with
the recovery code, which may draw a fresh DEK.

### DeviceSession

Every variable holds whose it is: an account or none. `login`, `unlocking`,
`refreshing`, `enrolling` and `out` are the calls under way; `entry` is a sign-in
that waits for the browser or the server; `alert` the dialog of the system, which
survives a change of screens; `app` the process. `Admitted` is what the guards of
`app/_layout.tsx` let in, `Landing` where `app/index.tsx` sends.

### HostDocument and HostsTab

`HostDocument` keeps a host as a record in which `key` stands for all that no
form touches; `Fold` is trimming and lower case, given as a function so that two
spellings of a name can be equal. `stored` is a history variable: the addresses
and passwords that were once stored together. `move` is a move to the project: the
raw host as it was taken, and whether the project has been given it (`MoveTake`,
`MovePut`, `MoveDelete`); in between it may fail, hear no answer or find the vault
locked, and then the host, with its id, is in both documents, where the two copies
go their own ways. What the move does to the vaults, versions and retries included,
is `ProjectSharing`. Trimming and the list of tags are part of `Addr` and `Fold`.

`HostsTab` knows a document by its hosts. A personal pass looks at the session for
the last time when it begins to adopt (`sync = "adopting"`) and tells the slice
whatever has become of it since (`SyncTells`); so does an identity bootstrap
(`PersistIdentity`), `minting` being one that began before a lock. A lock empties
the slices and stops neither, nor a pass over the projects, nor a probe. A probe's
result is `"true"` or `"false"`: whether it is that of the address shown. `due` are
the effects that the last render left to run.

### ProjectSharing, ProjectScreens, ProjectCrypto

`ProjectSharing` is one project in depth: its vault with version, DEK and hosts,
the copies of the DEK, the two cache files, the write with its retries and the
pass with its sealing. `ProjectScreens` is the list of projects and what a user
does with it: a request is a record (`op`, project, where it is, whether the sheet
or screen that made it still stands); `told` is a history variable, the changes
that were reported and that no list has shown. `ProjectCrypto` is free of state:
seal and open as functions on symbolic keys, hybrid or classical.

### SshSession and Terminal

One attempt per session id, as the screen makes a fresh id for each. `pc` says
where the goroutine of `Connect` is, `stop` that its context is cancelled or timed
out, `db` which keys of the host it read from known_hosts when it began, `key` the
one presented. `events` and `promise` are on their way to JavaScript and may
arrive in any order relative to each other. `calls` is the queue of the module:
`cancelConnect`, `close` and `closeAll` are not waited for. The window between
handshake and registration is `pc = "shell"`: the watcher of the context is gone
there, and the session is not in the map yet. An answer is given to the goroutine
in the step in which the user gives it: whether it arrives before or after the
goroutine gave up makes no difference, since a goroutine with both takes either.

`Terminal` adds the page. `wire` carries output to it, `buffer` what came before
it was ready, `resizes` the calls the other way. Every step of `SshSession` takes
the page along (`Follows`).

## Runs

All runs pass. Every action and disjunct of their next-state relations fires.

| Run | Instance | Properties | Distinct states |
|---|---|---|---|
| `sync_overlap` | 2 hosts, 1 edit, versions to 3; edits, locks, metadata writes and late uploads overlap a pass | `TypeOK`, `NoBlindOverwrite` | 1,107,766, by symmetry |
| `sync_contract` | 2 hosts, 2 edits, versions to 7; crashes and other devices meet a pass | `DiskHonest`, `MeetsContract`, `Convergence` | 97,953 |
| `sync_orchestrator` | no parameters | `TypeOK`, `BeginsAlone`, `EachRunTrails` | 44,799 |
| `identity_bootstrap` | 2 phones, 2 hosts, 16 minted secrets, 3 faults | `TypeOK`, `NothingIsStranded`, `AlarmIsHonest`, `IdentitySettles` | 257,515 |
| `vault_keys` | 2 passwords, 3 document versions, 1 reset, 1 fault; password changed and DEK redrawn elsewhere | `KeysTypeOK`, `VaultOpens` | 819,792 |
| `device_session` | 2 accounts | `TypeOK`, `NothingIsLeft`, `StoredIsUsers`, `BootResolves` | 19,267 |
| `host_document` | 2 ids, 2 names in 3 spellings, ports 0, 80 and 65536, 3 edits | `TypeOK`, `NamesUnique`, `SecretGoesHome`, `EditsKeep`, `SavedAsSeen` | 674,042, by symmetry |
| `hosts_tab` | 1 personal host, 1 project host, 1 change of address | `TabTypeOK`, `TabTells` | 152,554 |
| `project_sharing` | 1 host, the user as admin, 1 other member, 2 attempts, 2 edits, 2 acts of others, 1 fault | `TypeOK`, `HostNeverLost`, `CopiesOpen`, `NoSealUnderMismatch`, `WrittenIsCached` | 729,973 |
| `project_screens` | 1 project, 2 requests, 1 lost call, kill or act of another | `TypeOK`, `CacheIsShown`, `ScreenIsUsers`, `ListIsCurrent` | 597,928 |
| `ssh_session` | 2 attempts, 2 host keys, 2 password prompts | `TypeOK`, `OnlyTrusted`, `ScreenIsBacked` | 809,000, by symmetry |
| `ssh_progress` | 1 attempt, 2 host keys, 3 prompts, 2 sizes, 2 chunks | `TerminalTypeOK`, `PageAgrees`, `TerminalMoves` | 119,000 |

What they show:

- **Sync.** No upload of this phone replaces a version it has not taken in, found
  empty or been told to overwrite, whatever overlaps a pass and with uploads the
  server handles after the phone gave up on them (`NoBlindOverwrite`). With one
  thing at a time, a pass does what the table of its header says, through crashes
  between its two files, lost answers and the retry after a 409
  (`MeetsContract`); disk and memory hold one document (`DiskHonest`); and phone
  and server agree in the end (`Convergence`).
- **Orchestrators.** A pass begins beside no other that would be joined, nor
  behind the lock (`BeginsAlone`), and every trigger is followed by a pass that
  begins after it (`EachRunTrails`, the two refinements of `TrailingRun`).
- **Identity.** The published key has its private half in the vault and no host
  is lost on the way (`NothingIsStranded`); the warning shows a key that is
  foreign and no other (`AlarmIsHonest`); in the end every phone holds the one
  published identity (`IdentitySettles`).
- **Keys.** Every stored blob opens with its slots and with the DEK behind
  biometrics, through password changes and re-keying elsewhere.
- **Sessions.** What ends, ends whole; no session of one account stands on
  anything of another; a launch comes to a screen that the guards admit.
- **Documents.** In each document ids and names stay unique however spelled; no
  edit loses what the form does not show, and no move, wherever it stops, a host; a
  field left alone stays as it is; a stored password goes only where it was stored
  for.
- **Hosts tab.** Behind a lock nothing is left, also if a personal pass that has
  not adopted yet is out; the tab never says "No hosts yet" before it can know; no
  skeleton stays; every host in front comes to have a status, and, if what the screen is
  made of keeps coming, that of its present address.
- **Projects.** A move loses no host, whatever fails; no member is keyed and shut
  out; nothing is sealed under a mismatch; a remembered password reaches the
  cache. What is cached is on the list; a sheet stays with what was typed into
  it; what a request changed comes to be shown.
- **SSH.** No attempt gets past the key exchange on an untrusted key; the screen
  tells the truth of shell and prompt; what is started ends, also when nobody
  answers; output arrives whole, in order, in a shell of the size of the page.

Deadlock is checked, except in `identity_bootstrap` and `project_sharing`: there
everything may have been done that the bounds allow.

Each property has a mutant in `PROJECT.json`: a plausible slip in one mapped
definition, defined beside it, with which TLC finds the property violated.

### Bounds

Two hosts give four documents: the base, a local change, a remote change, the
empty vault, which is what the table tells apart; version 3 is an edit, another
device's write and a push, version 7 has room for a conflict, its resolution over
a 409, and another change after it. Two phones make every race for the identity
and two accounts every change of user. Two attempts are what one screen can have
at once that matter: the one it shows and the one it left. Two host keys make a
changed key; two prompts a retry, three the limit of the server. A port of 0 is
the default, 65536 the first that is none. `MaxAttempts = 2` makes a retry that
succeeds and one that gives up; the code has a larger constant, and only its end
differs. With one project, a second one's screen is out of reach: see `"back"`
below. One fault meets any one step; most runs were also explored with two. The
identity has three: a first one can leave a phone behind the row, and only later
ones make it act on that; with one host it was explored with nine.
`sync_overlap` leaves out a second pass (`"resolve"`), whose states with
everything else are beyond TLC in a few minutes; the theorems hold with it.
`DeviceSession` has one unlock under way at a time.

### Fairness

Nothing is ever asked of the user, of other devices, of locks, crashes or
failures: they may stop at any time, and do by their bounds. What is assumed:

- `PersonalSync`: reads of the disk and requests come back, with an answer or an
  error; the app is opened and unlocked again, which starts a pass; a conflict
  sheet that keeps coming back is answered at last.
- `SyncOrchestrator`: passes end, timers fire, effects run after a render; and
  a loop ends while nobody has queued another run, again and again (SF): without
  this, triggers without end put off the passes of the projects for ever.
- `IdentityBootstrap`: a bootstrap goes on; per phone, a pass begins, a sync goes
  through and a conflict is settled again and again (SF), as triggers recur.
- `DeviceSession`: key store, files and network answer, if only with an error.
- `HostsTab`: effects run, probes answer within their three seconds, half a
  minute goes by, passes end.
- `ProjectSharing`, `ProjectScreens`: a pass that was asked for begins, and its
  requests are answered or fail.
- `SshSession`, `Terminal`: goroutines, module queue, bridge and page run; a
  deadline passes; once it has, the connection is closed, so that an attempt that
  keeps coming back to the network fails. That a server answers the request for a
  shell is an assumption: the engine has no deadline there (`dial.go:79`).

## What fails

Found while modelling: with these overlaps, which the program allows, TLC finds
the property violated. Where two kinds break the same property, one is enough.

| Module | Overlap | Breaks | How |
|---|---|---|---|
| `PersonalSync` | `edit` | `MeetsContract`, `DiskHonest` | a pass decides on the fingerprint of its beginning (`personal.ts:85`) and adopts over an edit made since, unasked; the header (`:7-9`) promises a conflict. And the blob is read for the upload after the fingerprint was taken, so that the recorded baseline is not what was uploaded |
| | `meta` | both | a metadata write of another caller takes version and fingerprint back (`storage.ts:81`) |
| | `resolve` | both | the conflict is settled, over what a pass under way has read |
| | `lock` | `MeetsContract` | a lock zero-fills the captured payload: `countHosts` is 0, and a conflict is settled for the remote |
| | `late` | `Convergence` | an upload handled after it was given up |
| `VaultKeys` | `relock` | `VaultOpens` | the retry of the identity push seals under a zero-filled DEK |
| | `password` | `PasswordOpens` (not run) | `adopt` re-seals under the phone's old slots; the next push puts the old password back |
| `IdentityBootstrap` | `mint` | `PublishedIsHeld`, `AlarmIsHonest` | on a 409 the second phone puts its identity over the one just published |
| | `edit` | `HostsKept` | the identity is sealed onto a document captured before a request, and the host added since is gone; the alarm stays honest |
| | `diverge` | `PublishedIsHeld`, `HostsKept`, `AlarmIsHonest` | the same in place of a document with other hosts. And: a phone with hosts it has not sent uploads its identity, the answer is lost, and its user, asked about the conflict, keeps the document of the phone, which has none |
| | `upgrade` | `PublishedIsHeld`, `AlarmIsHonest` | an upgrade that failed half way looks like a substituted key, where the comment (`identity.ts:249-252`) says that the next pass tries again; and a second phone that upgrades from the version before, refused and fetching again, puts its own seed over one that is published |
| | `stale` | `PublishedIsHeld`, `AlarmIsHonest` | the key of a vault that is behind the row is published: by its user, or by a pass that finds none. The latter takes four faults: two phones mint one after the other, the first keeps its keypair because its sync fails, and finds none published |
| | `foreign` | `AlarmIsHonest` | the published key is not compared again before an upgrade replaces it: one that the server has substituted meanwhile goes unnoticed |
| `DeviceSession` | `refresh`, `unlock`, `enroll`, `signin` | `NoResidue`, `VaultIsUsers` | a call of one session ends in the next, or after the sign-out |
| | `kill` | `VaultIsUsers`, `TokensAreUsers` | killed between the tokens of a sign-in and the look at whose vault is on the phone, or in the midst of a sign-out |
| | any | `ProjectsAreUsers` (not run) | `tearDownSessionState` does not reset the projects slice (`session.ts:57`) |
| `ProjectSharing` | `edit` | `HostNeverLost` | a host edited while it is moved is deleted with its edit |
| | `kill` | `CopiesOpen` | killed between the two cache files after a rotation |
| | `identity` | `NoSealUnderMismatch` | the interlock is looked at once, before all sealing |
| | `rekey` | `CopiesOpen` | a member rotates its key while a DEK is sealed to the old one |
| `ProjectScreens` | `reseed` | `ScreenIsUsers` | the edit sheet is filled anew when a pass changes what it began with; its comment takes those values for stable |
| | `sheet`, `back` | `ScreenIsUsers` | a success closes a sheet opened since, or goes back from another project's screen |
| `HostDocument` | `form` | `SavedAsSeen` | a form saves all it was seeded with over what has come since |
| | `pass` | `SecretGoesHome` | a project's password is read from a cache that no longer is the list's |
| | `move` | `EditsKeep` | the personal host is changed between the project's write and the deletion (`projectVaultWrite.ts:127`, `:172`): the change goes with it |
| | `again` | `NamesUnique`, `SecretGoesHome` | a move stops between the two writes, a copy is renamed and moved again: `addRawHostToPayload` compares names only (`mutate.ts:187-193`), and the project has one id twice; then one is dialled with the password of the other. Takes 4 edits, and 5 |
| `HostsTab` | `adopt` | `LockForgets` | a document adopted, or an identity persisted, is shown after the lock: neither looks at the session after the metadata is written (`deps.ts:124-127`, `identity.ts:177-181`) |
| | `pass` | `LockForgets`, `EmptyIsHonest` | a pass over the projects fills the slice of the locked vault; the next unlock joins it and shows "No hosts yet" |
| | `probe` | `LockForgets` | a probe answers behind the lock |
| | `throw` | `ComesToBeProbed` | a probe that throws says nothing, and nothing asks again while the screen stays |
| `Terminal` | `Early` | `PageAgrees` | a size reported while the session connects reaches neither `connect` nor the session |
| `SshSession` | | `LockEndsShells`, `SavedWorks` (not run) | a cancel between handshake and registration reaches nobody, and the shell opens behind the lock screen; the password to remember outlives its refusal |

What holds whatever overlaps: `NoBlindOverwrite`, `OnlyTrusted`, `ScreenIsBacked`,
`SecretsTogether` of `DeviceSession`, `CacheIsShown`, `ListIsCurrent`, that ids and
names are unique in the personal document (`OneHostEach(doc)`), and, one kind at a
time, of `HostsTab` that no skeleton stays. Of what may be out at a lock none
keeps a host in front from being probed. `NothingIsStranded` is
`PublishedIsHeld` and `HostsKept`; `TabTells` begins with `LockForgets` and
`EmptyIsHonest`.

Smaller things the models show and no property states: the phase of
`SyncOrchestrator` says idle while another pass goes on, and a lock leaves the
outcome of an old pass behind it; a conflict sheet is not cleared by a later pass
that settles; a first list that cannot be had, with nothing cached, reads "No
projects" under the notice that the phone is offline; the error of the unlock
screen that the account has no vault stays until the screen is left; after an unlock that joins a personal pass
begun before the lock, no skeleton stands for the hosts it will bring; and an id
that a half-moved host has in both documents is one probe result for two rows.

## Proofs

All theorems hold for every set of hosts, sessions, passwords, keys, names and
addresses and for every bound, from the assumptions named in the modules, which
TLC evaluates in the runs.

`PersonalSync_proofs`. For every `Overlap`: that a base is endorsed is not
inductive without types and `VersionsIssued` (a version in hand is one the server
issued: otherwise "endorsed" could run ahead of the row). `IInv` is their
conjunction; one lemma per group of actions, then `Invariance`, `TypeCorrect`,
`BasesAreEndorsed`, and `NeverBlind`: `Spec => NoBlindOverwrite`, since an upload
replaces the version it names as its base, and that base is endorsed.
For `Overlap \subseteq {"late"}`: `DiskStaysHonest` and `PassesMeetContract`. The
invariant is `Honest`. At most one pass is in flight (`Lone`); what it holds is
what the phone holds, and it has decided by the table (`AllHeld`); a fingerprint
still to be recorded is that of the blob at its version (`Based`); what was edited
is on disk (`EditDurable`). Without `AllHeld` an adoption could replace a document
that the pass has not compared. The refinement has an initial step and one lemma
per action: each maps to a row of `SyncContract` or to a stutter. Each kind left
out breaks the contract; of `DiskHonest` a lock alone is harmless, which only TLC
has checked.

`SshSession_proofs`. `OnlyTrusted` needs to know where a key comes from: what an
attempt has read of known_hosts is still there (`db \subseteq known`), and the key
it asks about is a key of the host. `Trusts(a, K)` says this of one record, apart
from the state, so that the lemmas are about records: each setter keeps it, and
each action is a composition of setters. Then `SshInvariance`, `SshTypeCorrect`
with the bound on password prompts, and `SecretsOnlyToTrusted`. `ScreenStaysBacked`
needs more than the phase on the screen: which events and promises of the attempt
shown may still be under way, at each `pc` (`Behind`), and that nothing is heard of
the attempts the screen has left (`Backed`).
Of the page: `TerminalTypes`; `OutputArrives` by `Streamed`, where what is shown,
held back and on the wire, taken together, is what the shell wrote; and
`PageAndShellAgree` by `Sized`, which follows a size from the page through
`connect`, session and calls under way to the shell. The last needs `Early = FALSE`:
a size reported before the session is registered is dropped.

`HostDocument_proofs`. What forms, menus and terminals captured stays related to
the document: a form's host by its id, a terminal's address and password by
`stored`. Each document is taken by itself, since a move may leave its id in both:
`NamesStayUnique` says that ids and names are unique in the personal document
whatever overlaps, and in the project without `"again"`. From `HostInvariance`
follow besides `HostTypes` and, without `"pass"` and `"again"`, `PasswordsGoHome`.
Two facts are of the capture of a host and stand apart. Without `"move"`, what a
move has taken is what the document has, if it still has it (`MoveIsCurrent`), so
that the deletion loses nothing that the project was not given: `EditsLoseNothing`.
Without `"form"`, the form shows what the document holds (`FormIsCurrent`), whence
`FormsSaveWhatIsSeen`.

`SyncOrchestrator_proofs`. `OrchInv` adds to types and single flight `Remembered`: a
trigger that no pass has begun after is in the debounce timer, or in the re-run
flag of a loop that runs. It is what the refinement needs, since `TrailingRun`
forgets no trigger but at a lock: `StepsTrail` proves the safety part of
`EachRunTrails` for both orchestrators, `PassesBeginAlone` the other property.

Of `VaultKeys`, in the same module: `VaultOpens` needs that every blob in hand is
sealed under the DEK of its slots: those a pass fetched, those an identity push
holds, and the unlocked session. `KeyInvariance` and `KeyTypes` hold for every
`Overlap`; `StoredOpens` names its premise, that the vault is not locked while an
identity is pushed, which the table above shows to be needed.

`DeviceSession_proofs`. Three layers. Types and `SecretsGoTogether` for every
`Overlap`. `EndsWhole` adds what a sign-out has cleared at each of its steps, and
that no call of a session that was signed out goes on (`Over`): with kills alone
meeting the calls under way, `SignOutLeavesNothing`. `Ownership` adds whose every
call, key and file is, and that a process that does not run has nothing in memory:
with no overlap at all, `NothingOfAnother`. A kill breaks that one, as the table
above has it, and so does each of the other kinds.

Of `HostsTab`, in the same module. `TabLocked` is what is gone behind the lock, part
by part. `LockForgets` alone is not inductive: an adoption, a pass or a probe that
is out when the vault is locked fills its slice again, so the invariant says besides
that none is, where the premise excludes it. `LockForgetsByPart` states each part
under the kind that breaks it and no other. `TabAsked` says who has asked for the
first pass: on the list, one has told its outcome, or one is under way and shown so,
or the focus that will ask is still due; without the middle part the tab could be
empty with a pass that nobody sees. From it `TabIsHonest`: `EmptyIsHonest` without
`"pass"`, whatever else is out, and `LockForgets` with nothing out. These premises
are exact: with each kind TLC finds the part violated. `TabTypes` holds for all.

`ProjectSharing_proofs`. `HostsNeverLost` by `Kept`: what a write puts back is
what it fetched, with its host, as long as the version is the one it fetched;
and a host on the move is in the vault of the phone as it set out, until it is
in the project. `KeyedMembersCanOpen` by `Keyed`: what a pass has sealed is the
current DEK, or of a version that the server will refuse, for the present key of
its member. `CopiesAlwaysOpen` adds the two cache files, `SealsUnwarned` the
interlock. Each names the one or two kinds that break it and no other. Of
`ProjectCrypto`, facts about the operators for every key: a DEK sealed before
the hybrid upgrade of an identity opens after it (`UpgradeKeepsProjects`); a
hybrid copy opens for nobody without both halves (`OnlyRecipientOpens`); the
maker of a project reads it (`CreatedIsRead`).

`ProjectScreens_proofs`, for any number of projects and requests. Lemmas say once
what a step makes of the server, the requests, the pass and the screens
(`StepsAre`); each part of `ScreensInv` is proved from those. For every `Overlap`:
`ScreensTypes`, and `CacheIsAlwaysShown` by `CacheCovered`: while projects are read,
a cached one is still to be read or goes on the list. That a screen, a sheet and what
is typed stay is `KeptByPart`, each under the kinds that break it and no other;
`ScreenStaysUsers` is `ScreenIsUsers` without any. A success goes back from the
screen it is about: `EndsHere`, which needs that no project is left and deleted at
once, hence that what list, cache, pass and details say of a role agrees with the
server (`RolesKnown`), and that nothing is asked twice at a time (`Once`). A success
closes the sheet it came from: `SheetWaits`. The edit sheet is filled anew when a pass
brings another name: none does that is not known (`EditStable`), since names only
move on, from server to list to pass to view (`NamesGrow`).

`IdentityBootstrap_proofs`, for any number of phones, hosts and faults. For
every `Overlap`: `IdentityTypes`. Without `foreign`: `ForeignIsNoticed`, since
an upgrade begins with the account's own key published. `Versions` says that no
phone is ahead of the row, that what it agreed on at the row's version is the
row, and that what a call would put in its place has all its hosts. On it stand
two more. `HostsHeld`: a host is in the row or not yet sent by a phone, and a
call that persists has none to send; without `edit` and `diverge`, `HostsStay`.
`Settling`, with nothing but `edit` and `foreign`: a phone is behind the row by
an upgrade at most, or has a keypair nobody is minting (`Known`); a call that
mints does so for an account without a key, and one that upgrades finds the old
form in the row (`Sound`); the published key is the row's, or about to be
(`Held`). From it `KeyIsHeld` and `AlarmsAreHonest`, and with `HostsStay`,
`NothingStranded`. These premises are exact: each kind excluded breaks its
conclusion, each kind allowed was also explored with TLC.

Assumptions beyond the shape of the constants: `SomethingIsTried`, that a write is
tried at least once and hosts have contents; `HostsAreFinite`, since the pass counts the hosts of a
document; `MintedIsNat`, that the bound on mints leaves room for the keypair an
account comes with.

Every safety property that a run checks is stated by a theorem, those that are one
half of a property with liveness included. Only model-checked:

- all liveness, for which the prover has no fairness: `Convergence`, `BootResolves`,
  `IdentitySettles`, `ListIsCurrent`, `TerminalMoves`, `WrittenIsCached`, and the
  parts of `EachRunTrails` and `TabTells` that something comes;
- that a theorem's premise is needed: the violations of *What fails*.

## Not modelled

- Byte formats, argon2, the recovery code's alphabet: covered by fixtures shared
  with the other clients; the models have seal and open on symbolic keys.
- In the SSH engine, `write`, the snapshot of the ring, and a server that wants a
  second factor after an accepted password. In the bridge, the iOS half, which
  makes the same calls in the same order. On the terminal screen, keys and their
  modifiers: each is one call.
- Steps taken together where no property tells them apart: the blob and the record
  of its version in `storeVaultBlob` (`PersonalSync.Unlock`), the writes of
  `persistIdentityLocally` in `IdentityBootstrap` (apart in `HostsTab`, where a lock
  between them matters). A cancelled password prompt ends the attempt, without the
  fallback to keyboard-interactive that some servers offer. Of each kind one request
  for a project is under way at a time, where a sheet that is reset lets a second be
  sent; and one move of a host.
- Revoking an invite, which changes nothing on the phone but the details fetched
  again; the list of synced keys, which is read only.
- The generated API client, the self test, toasts, wording, theme, layout, and
  the build scripts.
