------------------------------ MODULE VaultKeys ------------------------------
(***************************************************************************)
(* The keys of the personal vault.  A blob (wharfv.ts) seals its document  *)
(* under a DEK, and wraps that DEK in two slots, one for the password and  *)
(* one for the recovery code.  A phone keeps a blob on disk and opens it   *)
(* with the password or with a DEK behind biometrics (unlock.ts); its sync *)
(* pass (sync/deps.ts) and its identity bootstrap (identity.ts) seal what  *)
(* they take from the server under the phone's own DEK and slots, while    *)
(* other clients edit the vault and change what opens it.                  *)
(***************************************************************************)
EXTENDS Naturals

CONSTANTS Password,   \* what the user has for a master password
          None,       \* no password
          MaxRev,     \* bound: versions of the document
          MaxResets,  \* bound: changes of what opens the vault
          MaxFaults,  \* bound: answers lost
          Overlap     \* what may happen meanwhile (below)

(***************************************************************************)
(* "password": another client changes the password, or resets it with the  *)
(*             recovery code.                                              *)
(* "rekey":    such a reset draws a fresh DEK.                             *)
(* "relock":   the vault is locked, or the phone signed out, while the     *)
(*             identity is pushed or an unlock derives its key.            *)
(* The program excludes none of them.                                      *)
(***************************************************************************)
ASSUME NoneIsNoPassword == None \notin Password
ASSUME BoundsAreNat     == MaxRev \in Nat \ {0} /\ {MaxResets, MaxFaults} \subseteq Nat
ASSUME OverlapIsKinds   == Overlap \subseteq {"password", "rekey", "relock"}

VARIABLES
  srv, ver,   \* the blob at the server, and its version
  auth, code, \* the password and the recovery code the account goes by
  disk, meta, \* the phone's blob; the version and document last agreed
  session,    \* the unlocked vault: slots, DEK and document
  master,     \* the password kept while unlocked by it
  bio,        \* the DEK behind biometrics; 0: none
  unlocking,  \* a key derivation under way
  pass,       \* the sync pass under way
  ident,      \* the push of an identity under way
  rev, resets, faults \* bounds

server   == <<srv, ver, auth, code>>
phone    == <<disk, meta, session, master, bio>>
calls    == <<unlocking, pass, ident>>
bounds   == <<rev, resets, faults>>
keysVars == <<server, phone, calls, bounds>>

\* A blob: its slots' password, recovery code and DEK, its body's DEK and document.
\* An unlocked vault has the same parts; one that was locked has the DEK 0.
Blob   == [pw : Password \cup {None}, rec : Nat, slot : Nat, dek : Nat, doc : Nat]
NoBlob == [pw |-> None, rec |-> 0, slot |-> 0, dek |-> 0, doc |-> 0]

NoUnlock == [blob |-> NoBlob, pw |-> None, ver |-> 0]
NoPass   == [pc |-> "idle", fp |-> 0, got |-> NoBlob, ver |-> 0]
NoIdent  == [pc |-> "idle", held |-> NoBlob, blob |-> NoBlob, ver |-> 0]

KeysTypeOK ==
  /\ srv \in Blob /\ ver \in Nat /\ auth \in Password /\ code \in Nat
  /\ disk \in Blob /\ meta \in [ver : Nat, fp : Nat] /\ session \in Blob
  /\ master \in Password \cup {None} /\ bio \in Nat
  /\ unlocking \in [blob : Blob, pw : Password \cup {None}, ver : Nat]
  /\ pass \in [pc : {"idle", "open", "adopt", "put"}, fp : Nat, got : Blob, ver : Nat]
  /\ ident \in [pc : {"idle", "put", "retry", "reput", "persist"}, held : Blob, blob : Blob, ver : Nat]
  /\ rev \in 0..MaxRev /\ resets \in 0..MaxResets /\ faults \in 0..MaxFaults
  /\ session # NoBlob => disk # NoBlob \/ "relock" \in Overlap

\* buildBlob: a DEK wrapped under a password and under a recovery code.
BuildBlob(dek, doc, pw, rec) == [pw |-> pw, rec |-> rec, slot |-> dek, dek |-> dek, doc |-> doc]

\* createVault: a fresh DEK and a fresh recovery code.
CreateVault(pw) == BuildBlob(1, 1, pw, 1)

\* The account was made with another client; the phone has only signed in.
KeysInit ==
  /\ \E p \in Password : srv = CreateVault(p) /\ auth = p
  /\ ver = 1 /\ code = 1
  /\ disk = NoBlob /\ meta = [ver |-> 0, fp |-> 0] /\ session = NoBlob
  /\ master = None /\ bio = 0
  /\ unlocking = NoUnlock /\ pass = NoPass /\ ident = NoIdent
  /\ rev = 1 /\ resets = 0 /\ faults = 0

-----------------------------------------------------------------------------
Edits  == rev < MaxRev /\ rev' = rev + 1
Fails  == faults < MaxFaults /\ faults' = faults + 1
Resets == resets < MaxResets /\ resets' = resets + 1

\* sealPayload: another document under the same slots and the same DEK.
Seal(unlocked, doc) == [unlocked EXCEPT !.doc = doc]

\* unlockWithPassword, unlockWithRecovery: a secret opens its slot, the DEK in it the body.
OpensWith(blob, pw)      == pw # None /\ blob.pw = pw /\ blob.slot = blob.dek
OpensWithCode(blob, rec) == blob.rec = rec /\ blob.slot = blob.dek

\* unlockVaultWithDek: the slots are not needed.
OpensWithDek(blob, dek) == blob.dek = dek

\* openRemote: by the DEK of an unlocked vault, else by the kept password.
Readable(blob, unlocked) == OpensWithDek(blob, unlocked.dek) \/ OpensWith(blob, master)

\* reEncrypt: a new password and a new recovery code around the same document.  It
\* keeps the DEK; sync/deps.ts reckons with a reset that draws it again.
ReEncrypt(blob, pw, dek) == BuildBlob(dek, blob.doc, pw, code + 1)

Takes(blob, v) == v = ver /\ srv' = blob /\ ver' = ver + 1

-----------------------------------------------------------------------------
(* Other clients, which the account's password lets in.                    *)

AtServer == OpensWith(srv, auth)

OtherEdit ==
  /\ AtServer /\ Edits
  /\ Takes(Seal(srv, rev'), ver)
  /\ UNCHANGED <<auth, code, phone, calls, resets, faults>>

\* The password is changed: the server takes the new one and the vault wrapped in it.
ChangePassword(p) ==
  /\ "password" \in Overlap /\ AtServer /\ p # auth /\ Resets
  /\ auth' = p
  /\ Takes([srv EXCEPT !.pw = p], ver)
  /\ UNCHANGED <<code, phone, calls, rev, faults>>

\* A password is set with the recovery code, which is used up.
RecoverReset(p) ==
  /\ "password" \in Overlap /\ OpensWithCode(srv, code) /\ p # auth /\ Resets
  /\ auth' = p /\ code' = code + 1
  /\ \E dek \in {srv.dek, srv.dek + 1} :
       /\ dek # srv.dek => "rekey" \in Overlap
       /\ Takes(ReEncrypt(srv, p, dek), ver)
  /\ UNCHANGED <<phone, calls, rev, faults>>

-----------------------------------------------------------------------------
(* Unlock, lock, biometrics, sign-out.                                     *)

\* ensureVaultBlob, the first time.
Pull ==
  /\ disk = NoBlob
  /\ disk' = srv /\ meta' = [ver |-> ver, fp |-> 0]
  /\ UNCHANGED <<server, session, master, bio, calls, bounds>>

\* A password is tried; its key takes a while to derive.
UnlockStart(p) ==
  /\ disk # NoBlob /\ session = NoBlob /\ unlocking = NoUnlock
  /\ unlocking' = [blob |-> disk, pw |-> p, ver |-> meta.ver]
  /\ UNCHANGED <<server, phone, pass, ident, bounds>>

\* publishUnlocked: the baseline is filled in where there is none.
Publish(blob) ==
  /\ session' = blob
  /\ meta' = [meta EXCEPT !.fp = IF @ = 0 THEN blob.doc ELSE @]

UnlockDone ==
  /\ unlocking # NoUnlock
  /\ unlocking' = NoUnlock
  /\ IF OpensWith(unlocking.blob, unlocking.pw)
       THEN Publish(unlocking.blob) /\ master' = unlocking.pw
       ELSE UNCHANGED <<session, meta, master>>
  /\ UNCHANGED <<server, disk, bio, pass, ident, bounds>>

\* The DEK behind biometrics opens the body; one that does not is dropped.
UnlockBiometric ==
  /\ bio # 0 /\ disk # NoBlob /\ session = NoBlob
  /\ IF OpensWithDek(disk, bio)
       THEN Publish(disk) /\ UNCHANGED bio
       ELSE bio' = 0 /\ UNCHANGED <<session, meta>>
  /\ UNCHANGED <<server, disk, master, calls, bounds>>

EnrollBiometric ==
  /\ session # NoBlob /\ bio = 0
  /\ bio' = session.dek
  /\ UNCHANGED <<server, disk, meta, session, master, calls, bounds>>

\* The secrets in memory are dropped, the DEK zero-filled also for who still holds it.
Forget ==
  /\ session' = NoBlob /\ master' = None
  /\ ident' = IF session = NoBlob THEN ident ELSE [ident EXCEPT !.held.dek = 0]

LockVault ==
  /\ session # NoBlob
  /\ "relock" \in Overlap \/ (ident = NoIdent /\ unlocking = NoUnlock)
  /\ Forget
  /\ UNCHANGED <<server, disk, meta, bio, unlocking, pass, bounds>>

\* Mutant of SignOut: the unlocked vault stays in memory.
SignOutUnlocked ==
  /\ disk # NoBlob
  /\ "relock" \in Overlap \/ (ident = NoIdent /\ unlocking = NoUnlock)
  /\ disk' = NoBlob /\ meta' = [ver |-> 0, fp |-> 0] /\ bio' = 0
  /\ UNCHANGED <<server, session, master, calls, bounds>>

SignOut ==
  /\ disk # NoBlob
  /\ "relock" \in Overlap \/ (ident = NoIdent /\ unlocking = NoUnlock)
  /\ Forget
  /\ disk' = NoBlob /\ meta' = [ver |-> 0, fp |-> 0] /\ bio' = 0
  /\ UNCHANGED <<server, unlocking, pass, bounds>>

\* commitPayload: an edit on the phone.
Commit ==
  /\ session # NoBlob /\ Edits
  /\ disk' = Seal(session, rev') /\ session' = disk'
  /\ UNCHANGED <<server, meta, master, bio, calls, resets, faults>>

-----------------------------------------------------------------------------
(* The sync pass.                                                          *)

Ends == pass' = NoPass

\* The vault is fetched, and compared with the last agreement.
PassFetch ==
  /\ pass = NoPass /\ session # NoBlob
  /\ \/ /\ ver # meta.ver
        /\ pass' = [pc |-> "open", fp |-> session.doc, got |-> srv, ver |-> ver]
     \/ /\ ver = meta.ver /\ session.doc # meta.fp
        /\ pass' = [pc |-> "put", fp |-> session.doc, got |-> NoBlob, ver |-> ver]
  /\ UNCHANGED <<server, phone, unlocking, ident, bounds>>

\* The remote document is agreed to, adopted, overwritten, or left to the user; a
\* blob that neither the DEK nor the password opens is left alone.
PassOpen ==
  /\ pass.pc = "open"
  /\ \/ /\ session # NoBlob /\ Readable(pass.got, session)
        /\ \/ /\ pass.got.doc = pass.fp
              /\ meta' = [ver |-> pass.ver, fp |-> pass.fp] /\ Ends
           \/ /\ pass.got.doc # pass.fp
              /\ pass' = [pass EXCEPT !.pc = "adopt"] /\ UNCHANGED meta
           \/ /\ pass.got.doc # pass.fp /\ pass.fp # meta.fp
              /\ pass' = [pass EXCEPT !.pc = "put"] /\ UNCHANGED meta
     \/ /\ ~(session # NoBlob /\ Readable(pass.got, session))
        /\ Ends /\ UNCHANGED meta
  /\ UNCHANGED <<server, disk, session, master, bio, unlocking, ident, bounds>>

\* Mutant of PassAdopt: the phone's slots around a body under the remote DEK.
PassAdoptMixed ==
  /\ pass.pc = "adopt" /\ session # NoBlob
  /\ disk' = [session EXCEPT !.dek = pass.got.dek, !.doc = pass.got.doc]
  /\ session' = Seal(session, pass.got.doc)
  /\ meta' = [ver |-> pass.ver, fp |-> pass.got.doc] /\ Ends
  /\ UNCHANGED <<server, master, bio, unlocking, ident, bounds>>

\* adopt: the remote document, sealed with the slots and the DEK of the phone.
PassAdopt ==
  /\ pass.pc = "adopt" /\ session # NoBlob
  /\ disk' = Seal(session, pass.got.doc) /\ session' = disk'
  /\ meta' = [ver |-> pass.ver, fp |-> pass.got.doc] /\ Ends
  /\ UNCHANGED <<server, master, bio, unlocking, ident, bounds>>

\* pushRemote: the blob on disk, with the slots it has.
PassPut ==
  /\ pass.pc = "put" /\ disk # NoBlob
  /\ Takes(disk, pass.ver)
  /\ \/ meta' = [ver |-> ver', fp |-> pass.fp] /\ UNCHANGED faults
     \/ Fails /\ UNCHANGED meta
  /\ Ends
  /\ UNCHANGED <<auth, code, disk, session, master, bio, unlocking, ident, rev, resets>>

\* The version is stale, or what the pass needs is gone.
PassDrops ==
  /\ \/ pass.pc = "adopt" /\ session = NoBlob
     \/ pass.pc = "put" /\ (disk = NoBlob \/ pass.ver # ver)
  /\ Ends
  /\ UNCHANGED <<server, phone, unlocking, ident, bounds>>

-----------------------------------------------------------------------------
(* pushIdentity: it holds the vault that was unlocked when it began.       *)

Held == ident.held

\* The identity is minted, or upgraded, and sealed into the vault.
IdentStart ==
  /\ ident = NoIdent /\ session # NoBlob /\ Edits
  /\ ident' = [pc |-> "put", held |-> session, blob |-> Seal(session, rev'), ver |-> meta.ver]
  /\ UNCHANGED <<server, phone, unlocking, pass, resets, faults>>

\* It is pushed: taken, refused, or not answered; a second refusal is the last.
IdentPut ==
  /\ ident.pc \in {"put", "reput"}
  /\ \/ /\ Takes(ident.blob, ident.ver)
        /\ \/ ident' = [ident EXCEPT !.pc = "persist", !.ver = ver'] /\ UNCHANGED faults
           \/ Fails /\ ident' = NoIdent
     \/ /\ ident.ver # ver
        /\ ident' = IF ident.pc = "put" THEN [ident EXCEPT !.pc = "retry"] ELSE NoIdent
        /\ UNCHANGED <<srv, ver, faults>>
  /\ UNCHANGED <<auth, code, phone, unlocking, pass, rev, resets>>

\* The remote vault is fetched and opened, the identity sealed into it.
IdentRetry ==
  /\ ident.pc = "retry"
  /\ ident' = IF Readable(srv, Held)
       THEN [pc |-> "reput", held |-> Held, blob |-> Seal(Held, ident.blob.doc), ver |-> ver]
       ELSE NoIdent
  /\ UNCHANGED <<server, phone, unlocking, pass, bounds>>

\* persistIdentityLocally.
IdentPersist ==
  /\ ident.pc = "persist"
  /\ disk' = ident.blob /\ meta' = [ver |-> ident.ver, fp |-> ident.blob.doc]
  /\ session' = IF session = NoBlob THEN NoBlob ELSE Seal(session, ident.blob.doc)
  /\ ident' = NoIdent
  /\ UNCHANGED <<server, master, bio, unlocking, pass, bounds>>

-----------------------------------------------------------------------------
Others  == OtherEdit \/ \E p \in Password : ChangePassword(p) \/ RecoverReset(p)
Unlocks == Pull \/ (\E p \in Password : UnlockStart(p)) \/ UnlockDone \/ UnlockBiometric
Device  == Unlocks \/ EnrollBiometric \/ LockVault \/ SignOut \/ Commit
Passes  == PassFetch \/ PassOpen \/ PassAdopt \/ PassPut \/ PassDrops
Idents  == IdentStart \/ IdentPut \/ IdentRetry \/ IdentPersist

KeysNext == Others \/ Device \/ Passes \/ Idents
KeysSpec == KeysInit /\ [][KeysNext]_keysVars
-----------------------------------------------------------------------------
(* Properties.                                                             *)

\* Whatever is stored opens: the slots of a blob, on disk or at the server, wrap the
\* DEK its body is sealed under; and the DEK behind biometrics opens the blob on disk,
\* whatever was adopted and whatever happened to the password elsewhere.  (identity.ts:
\* "never losing a concurrent remote edit"; sync/deps.ts: "the biometric DEK cache stays
\* valid across adopts".)
VaultOpens ==
  /\ \A blob \in {disk, srv} : blob.slot = blob.dek
  /\ bio # 0 => disk.dek = bio

\* What the account goes by opens its vault: who signs in with the password, or comes
\* with the recovery code, can read the document.  (changePassword.)
PasswordOpens == srv.pw = auth /\ srv.rec = code
=============================================================================
