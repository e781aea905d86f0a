------------------------- MODULE IdentityBootstrap -------------------------
(***************************************************************************)
(* How the phones of one account come to hold one project identity         *)
(* (src/vault/identity.ts): the keypair lies inside the vault, whose row   *)
(* at the server is versioned; its public half is published at the server. *)
(* The sync of the vault is taken from PersonalSync in one step.           *)
(***************************************************************************)
EXTENDS Naturals, FiniteSets

CONSTANTS Phone,      \* the phones of the account
          MaxMinted,  \* bound: key pairs and ML-KEM seeds minted, numbered from 1
          Host,       \* the hosts a user may add
          Foreign,    \* a key at the server that is not the account's
          MaxFaults,  \* bound: lost requests and answers, kills
          Overlap     \* what may meet a bootstrap under way (below)

(***************************************************************************)
(* "mint":     two phones may bootstrap at once.                           *)
(* "edit":     a host may be added, or a conflict settled in favour of     *)
(*             the phone, while the phone bootstraps.                      *)
(* "diverge":  an identity may be uploaded while a phone, this one         *)
(*             included, has hosts that the server does not have.          *)
(* "upgrade":  the publication of an upgraded key may fail.                *)
(* "stale":    the key of a vault that is behind may be published, by a    *)
(*             pass that finds none or by a user.                          *)
(* "foreign":  the server may substitute a key during a bootstrap.         *)
(* The program excludes none of them.                                      *)
(***************************************************************************)
ASSUME MintedIsNat    == MaxMinted \in Nat \ {0}  \* an account may come with a key pair
ASSUME ForeignIsOther == Foreign \notin Nat
ASSUME FaultsAreNat   == MaxFaults \in Nat
ASSUME OverlapIsKinds == Overlap \subseteq {"mint", "edit", "diverge", "upgrade", "stale", "foreign"}

VARIABLES
  row,       \* the vault at the server: its version and document
  published, \* the account's public key at the server
  local,     \* each phone's document, on disk and in memory
  base,      \* ... the document it last agreed on with the server
  ver,       \* ... and its version, in the metadata file
  shown,     \* ... the version Redux holds
  call,      \* ... its bootstrap under way
  mismatch,  \* ... that the published key is not the one in its vault
  minted,    \* how many secrets have been minted
  made,      \* the hosts added, less those a user chose to discard
  faults     \* how much has failed

server == <<row, published>>
phone  == <<local, base, ver, shown>>
vars   == <<server, phone, call, mismatch, minted, made, faults>>

\* An identity: the X25519 keypair, and the ML-KEM seed of a hybrid one.
None     == 0
Identity == [key : 1..MaxMinted, seed : 0..MaxMinted]
NoIdent  == [key |-> None, seed |-> None]
Doc      == [ident : Identity \cup {NoIdent}, hosts : SUBSET Host]
NoDoc    == [ident |-> NoIdent, hosts |-> {}]

Idle == [pc |-> "idle", doc |-> NoDoc, exp |-> 0, seen |-> NoIdent, up |-> FALSE]
ForeignKey == [key |-> Foreign, seed |-> None]

TypeOK ==
  /\ row \in [ver : Nat, doc : Doc]
  /\ published \in Identity \cup {NoIdent, ForeignKey}
  /\ local \in [Phone -> Doc] /\ base \in [Phone -> Doc]
  /\ ver \in [Phone -> Nat] /\ shown \in [Phone -> Nat]
  /\ call \in [Phone -> [pc : {"idle", "sync", "asked", "resync", "push", "refetch",
                               "repush", "persist", "publish"},
                         doc : Doc, exp : Nat, seen : Identity \cup {NoIdent, ForeignKey},
                         up : BOOLEAN]]
  /\ mismatch \in [Phone -> BOOLEAN]
  /\ minted \in 0..MaxMinted /\ made \subseteq Host /\ faults \in 0..MaxFaults

\* A new account, or one whose identity dates from before the hybrid upgrade.
Init ==
  /\ \E k \in 0..1 :
       LET d == [ident |-> [key |-> k, seed |-> None], hosts |-> {}]
       IN  /\ row = [ver |-> 1, doc |-> d]
           /\ published = d.ident
           /\ minted = k
           /\ local = [p \in Phone |-> d] /\ base = local
  /\ ver = [p \in Phone |-> 1] /\ shown = ver
  /\ call = [p \in Phone |-> Idle]
  /\ mismatch = [p \in Phone |-> FALSE]
  /\ made = {} /\ faults = 0

-----------------------------------------------------------------------------
Goto(p, pc)      == call' = [call EXCEPT ![p].pc = pc]
Stop(p)          == call' = [call EXCEPT ![p] = Idle]
SetMismatch(p, b) == mismatch' = [mismatch EXCEPT ![p] = b]
Fails            == faults < MaxFaults /\ faults' = faults + 1

\* An identity is put into a document, in the place of one it may have.
WithIdentity(d, i) == [d EXCEPT !.ident = i]

\* The document of phone p becomes d, agreed on with the server at version v.
Agree(p, d, v) ==
  /\ base' = [base EXCEPT ![p] = d]
  /\ ver' = [ver EXCEPT ![p] = v]

\* What phone p uploads leaves no host behind, and no phone has one of its own.
NothingBehind(p) ==
  \/ "diverge" \in Overlap
  \/ local[p].hosts \subseteq call[p].doc.hosts
       /\ \A q \in Phone : local[q].hosts = base[q].hosts

\* The identity of phone p is the one at the server, as far as that matters.
MayPublish(p) == "stale" \in Overlap \/ local[p].ident = row.doc.ident

\* The server takes document d in place of version v, and of no other.
Accepts(v, d) == row.ver = v /\ row' = [ver |-> v + 1, doc |-> d]

-----------------------------------------------------------------------------
(* The personal sync pass, as PersonalSync has it.                         *)

Changed(p) == local[p] # base[p]
Moved(p)   == row.ver > ver[p]
InConflict(p) ==
  /\ Moved(p) /\ Changed(p)
  /\ local[p].hosts # {} /\ row.doc.hosts # {} /\ local[p] # row.doc

\* The push of a pass; the commit does not touch the version in Redux.
SyncPush(p) ==
  /\ Changed(p)
  /\ Moved(p) => /\ local[p] # row.doc
                 /\ local[p].hosts # {} /\ row.doc.hosts = {}
  /\ Accepts(row.ver, local[p])
  /\ Agree(p, local[p], row.ver + 1)
  /\ UNCHANGED <<local, shown>>

SyncAdopt(p) ==
  /\ Moved(p) /\ local[p] # row.doc
  /\ Changed(p) => local[p].hosts = {}
  /\ local' = [local EXCEPT ![p] = row.doc]
  /\ Agree(p, row.doc, row.ver)
  /\ shown' = [shown EXCEPT ![p] = row.ver]
  /\ UNCHANGED row

SyncSame(p) ==
  /\ Moved(p) /\ local[p] = row.doc
  /\ Agree(p, row.doc, row.ver)
  /\ UNCHANGED <<row, local, shown>>

\* A conflict that waits for its user, an offline pass, or nothing to do.
SyncNothing(p) ==
  /\ InConflict(p) \/ ~(Moved(p) \/ Changed(p))
  /\ UNCHANGED <<row, phone>>

SyncStep(p) == SyncPush(p) \/ SyncAdopt(p) \/ SyncSame(p) \/ SyncNothing(p)

Sync(p) ==
  /\ SyncPush(p) \/ SyncAdopt(p) \/ SyncSame(p)
  /\ UNCHANGED <<published, call, mismatch, minted, made, faults>>

MayEdit(p) == "edit" \in Overlap \/ call[p] = Idle

\* The user settles a conflict.
KeepLocal(p) ==
  /\ InConflict(p) /\ MayEdit(p)
  /\ Accepts(row.ver, local[p])
  /\ Agree(p, local[p], row.ver + 1)
  /\ made' = made \ (row.doc.hosts \ local[p].hosts)
  /\ UNCHANGED <<published, local, shown, call, mismatch, minted, faults>>

TakeRemote(p) ==
  /\ InConflict(p)
  /\ local' = [local EXCEPT ![p] = row.doc]
  /\ Agree(p, row.doc, row.ver)
  /\ shown' = [shown EXCEPT ![p] = row.ver]
  /\ made' = made \ (local[p].hosts \ row.doc.hosts)
  /\ UNCHANGED <<server, call, mismatch, minted, faults>>

AddHost(p, h) ==
  /\ h \notin made /\ \A q \in Phone : h \notin local[q].hosts
  /\ MayEdit(p)
  /\ "diverge" \in Overlap \/ local[p].ident = row.doc.ident
  /\ made' = made \cup {h}
  /\ local' = [local EXCEPT ![p].hosts = @ \cup {h}]
  /\ UNCHANGED <<server, base, ver, shown, call, mismatch, minted, faults>>

-----------------------------------------------------------------------------
(* ensureIdentity, after the sync that precedes it in a pass over the      *)
(* projects.                                                               *)

\* The pass over the projects begins with a sync.
Begin(p) ==
  /\ call[p] = Idle
  /\ "mint" \in Overlap \/ \A q \in Phone : call[q] = Idle
  /\ Goto(p, "sync")
  /\ UNCHANGED <<server, phone, mismatch, minted, made, faults>>

\* The session and the version in Redux are taken, and the server is asked for
\* the account.  The sync before may have failed.
Ask(p) ==
  /\ call[p].pc = "sync"
  /\ \/ SyncStep(p) /\ UNCHANGED faults
     \/ Fails /\ UNCHANGED <<row, phone>>
  /\ call' = [call EXCEPT ![p] = [Idle EXCEPT !.pc = "asked", !.doc = local'[p],
                                               !.exp = shown'[p]]]
  /\ UNCHANGED <<published, mismatch, minted, made>>

Answered(p) == call[p].pc = "asked" /\ call[p].doc = local[p]

\* The session taken was replaced meanwhile, and zero-filled: it does not parse.
SessionGone(p) ==
  /\ call[p].pc = "asked" /\ call[p].doc # local[p]
  /\ Stop(p)
  /\ UNCHANGED <<server, phone, mismatch, minted, made, faults>>

\* Mutant of Unpublished: the key is not published again.
UnpublishedAsReady(p) ==
  /\ Answered(p) /\ local[p].ident # NoIdent /\ published = NoIdent
  /\ Stop(p)
  /\ UNCHANGED <<server, phone, mismatch, minted, made, faults>>

\* The vault has an identity, the server no key.
Unpublished(p) ==
  /\ Answered(p) /\ local[p].ident # NoIdent /\ published = NoIdent
  /\ MayPublish(p)
  /\ Goto(p, "publish")
  /\ UNCHANGED <<server, phone, mismatch, minted, made, faults>>

\* Both have one: they are compared.
Compared(p) ==
  /\ Answered(p) /\ local[p].ident # NoIdent /\ published # NoIdent
  /\ published # local[p].ident \/ local[p].ident.seed # None
  /\ SetMismatch(p, published # local[p].ident)
  /\ Stop(p)
  /\ UNCHANGED <<server, phone, minted, made, faults>>

\* The upgrade of this identity: a seed for the key it has.
AddSeed(p) ==
  /\ local[p].ident.seed = None
  /\ minted < MaxMinted /\ minted' = minted + 1
  /\ call' = [call EXCEPT ![p].pc = "push", ![p].up = TRUE,
                          ![p].doc = WithIdentity(@, [@.ident EXCEPT !.seed = minted'])]
  /\ SetMismatch(p, FALSE)
  /\ UNCHANGED <<server, phone, made, faults>>

\* Mutants of Upgrade: whatever key is published; a vault without an identity too.
UpgradeUncompared(p) == Answered(p) /\ local[p].ident # NoIdent /\ AddSeed(p)
UpgradeAnything(p)   == Answered(p) /\ published = local[p].ident /\ AddSeed(p)

\* They agree, and the identity is not hybrid yet.
Upgrade(p) ==
  /\ Answered(p) /\ local[p].ident # NoIdent /\ published = local[p].ident
  /\ AddSeed(p)

\* Mutant of Behind: another identity is minted.
BehindMints(p) ==
  /\ Answered(p) /\ local[p].ident = NoIdent /\ published # NoIdent
  /\ minted + 2 <= MaxMinted /\ minted' = minted + 2
  /\ call' = [call EXCEPT ![p].pc = "push",
              ![p].doc = WithIdentity(@, [key |-> minted + 1, seed |-> minted + 2])]
  /\ UNCHANGED <<server, phone, mismatch, made, faults>>

\* The server has a key, the vault no identity: it may be on its way.
Behind(p) ==
  /\ Answered(p) /\ local[p].ident = NoIdent /\ published # NoIdent
  /\ call' = [call EXCEPT ![p].pc = "resync", ![p].seen = published]
  /\ UNCHANGED <<server, phone, mismatch, minted, made, faults>>

Resync(p) ==
  /\ call[p].pc = "resync"
  /\ \/ SyncStep(p) /\ UNCHANGED faults
     \/ Fails /\ UNCHANGED <<row, phone>>
  /\ IF local'[p].ident = NoIdent
       THEN UNCHANGED mismatch
       ELSE SetMismatch(p, call[p].seen # local'[p].ident)
  /\ Stop(p)
  /\ UNCHANGED <<published, minted, made>>

\* Neither has one.
Mint(p) ==
  /\ Answered(p) /\ local[p].ident = NoIdent /\ published = NoIdent
  /\ minted + 2 <= MaxMinted /\ minted' = minted + 2
  /\ call' = [call EXCEPT ![p].pc = "push",
              ![p].doc = WithIdentity(@, [key |-> minted + 1, seed |-> minted + 2])]
  /\ UNCHANGED <<server, phone, mismatch, made, faults>>

\* The document with the identity is uploaded; the answer may be lost.
Pushed(p) ==
  /\ NothingBehind(p)
  /\ Accepts(call[p].exp, call[p].doc)
  /\ \/ call' = [call EXCEPT ![p].pc = "persist", ![p].exp = row.ver + 1] /\ UNCHANGED faults
     \/ ("upgrade" \in Overlap \/ ~call[p].up) /\ Fails /\ Stop(p)
  /\ UNCHANGED <<published, phone, mismatch, minted, made>>

Push(p) == call[p].pc = "push" /\ Pushed(p)

PushRefused(p) ==
  /\ call[p].pc = "push" /\ row.ver # call[p].exp
  /\ Goto(p, "refetch")
  /\ UNCHANGED <<server, phone, mismatch, minted, made, faults>>

\* Mutant of Refetch: the phone's own document is uploaded again.
RefetchOwn(p) ==
  /\ call[p].pc = "refetch"
  /\ call' = [call EXCEPT ![p].pc = "repush", ![p].exp = row.ver]
  /\ UNCHANGED <<server, phone, mismatch, minted, made, faults>>

\* The identity is put into the document the server holds, over one it may have.
Refetch(p) ==
  /\ call[p].pc = "refetch"
  /\ call' = [call EXCEPT ![p].pc = "repush", ![p].exp = row.ver,
                          ![p].doc = WithIdentity(row.doc, @.ident)]
  /\ UNCHANGED <<server, phone, mismatch, minted, made, faults>>

Repush(p) == call[p].pc = "repush" /\ Pushed(p)

RepushRefused(p) ==
  /\ call[p].pc = "repush" /\ row.ver # call[p].exp
  /\ Stop(p)
  /\ UNCHANGED <<server, phone, mismatch, minted, made, faults>>

\* What was uploaded becomes the phone's document.
Persist(p) ==
  /\ call[p].pc = "persist"
  /\ local' = [local EXCEPT ![p] = call[p].doc]
  /\ Agree(p, call[p].doc, call[p].exp)
  /\ shown' = [shown EXCEPT ![p] = call[p].exp]
  /\ Goto(p, "publish")
  /\ UNCHANGED <<server, mismatch, minted, made, faults>>

\* The public key is published where there is none, and a 409 is as good; that
\* of an upgrade takes the place of the old one.
Publish(p) ==
  /\ call[p].pc = "publish"
  /\ published' = IF call[p].up \/ published = NoIdent THEN call[p].doc.ident ELSE published
  /\ IF call[p].up THEN UNCHANGED mismatch ELSE SetMismatch(p, FALSE)
  /\ Stop(p)
  /\ UNCHANGED <<row, phone, minted, made, faults>>

MayFail(p) == "upgrade" \in Overlap \/ ~(call[p].up /\ call[p].pc \in {"persist", "publish"})

\* A request fails: the pass ends, an upgrade is given up.
Fail(p) ==
  /\ call[p].pc \in {"asked", "push", "refetch", "repush", "publish"}
  /\ MayFail(p) /\ Fails
  /\ Stop(p)
  /\ UNCHANGED <<server, phone, mismatch, minted, made>>

\* The process ends, and starts again with what is on disk.
Kill(p) ==
  /\ MayFail(p) /\ Fails
  /\ Stop(p)
  /\ SetMismatch(p, FALSE)
  /\ shown' = [shown EXCEPT ![p] = ver[p]]
  /\ UNCHANGED <<server, local, base, ver, minted, made>>

-----------------------------------------------------------------------------
(* The warning, and what it is for.                                        *)

\* The user, warned, has the key of this vault published instead.
Republish(p) ==
  /\ mismatch[p] /\ local[p].ident # NoIdent
  /\ MayPublish(p)
  /\ published' = local[p].ident
  /\ SetMismatch(p, FALSE)
  /\ UNCHANGED <<row, phone, call, minted, made, faults>>

\* The server hands out a key that is not the account's.
Substitute ==
  /\ published # NoIdent
  /\ "foreign" \in Overlap \/ \A p \in Phone : call[p] = Idle
  /\ Fails
  /\ published' = ForeignKey
  /\ UNCHANGED <<row, phone, call, mismatch, minted, made>>

-----------------------------------------------------------------------------
Syncing(p) == Sync(p) \/ KeepLocal(p) \/ TakeRemote(p) \/ \E h \in Host : AddHost(p, h)
Ensuring(p) ==
  \/ Ask(p) \/ SessionGone(p) \/ Unpublished(p) \/ Compared(p) \/ Upgrade(p) \/ Behind(p)
  \/ Resync(p) \/ Mint(p) \/ Push(p) \/ PushRefused(p) \/ Refetch(p) \/ Repush(p)
  \/ RepushRefused(p) \/ Persist(p) \/ Publish(p)

Next ==
  \/ \E p \in Phone : Syncing(p) \/ Begin(p) \/ Ensuring(p) \/ Fail(p) \/ Kill(p) \/ Republish(p)
  \/ Substitute

Spec == Init /\ [][Next]_vars

\* Every phone syncs and opens its projects again and again, requests are
\* answered and users settle their conflicts.
FairSpec ==
  /\ Spec
  /\ \A p \in Phone : SF_vars(Begin(p)) /\ WF_vars(Ensuring(p)) /\ SF_vars(Sync(p) \/ KeepLocal(p) \/ TakeRemote(p))
-----------------------------------------------------------------------------
(* Properties.                                                             *)

\* The published key is of the identity in the vault, an upgrade apart that is
\* not published yet: no key sealed to the account is stranded.  (identity.ts.)
PublishedIsHeld ==
  published \notin {NoIdent, ForeignKey} =>
    /\ row.doc.ident.key = published.key
    /\ published.seed \in {None, row.doc.ident.seed}

\* A host that was added is at the server or on a phone until its user chose
\* otherwise: the bootstrap does not lose edits.
HostsKept == \A h \in made : h \in row.doc.hosts \/ \E p \in Phone : h \in local[p].hosts

\* Bringing an identity up costs the account neither keys nor hosts.
NothingIsStranded == PublishedIsHeld /\ HostsKept

\* No phone comes to warn of the very key its own upgrade has not replaced yet.
\* (upgradeToHybrid: a failed upgrade leaves an identity "which still works".)
NoFalseAlarm ==
  [][\A p \in Phone : ~mismatch[p] /\ mismatch'[p] =>
       ~(published.key = local'[p].ident.key /\ published.seed = None)]_vars

\* And a key that is not the account's is replaced by a user who was warned only.
\* (ensureIdentity compares before it upgrades.)
ForeignKeyNoticed ==
  [][published = ForeignKey /\ published' # ForeignKey => \E p \in Phone : mismatch[p]]_vars

AlarmIsHonest == NoFalseAlarm /\ ForeignKeyNoticed

\* In the end every phone holds the one identity, and its key is published.
Settled ==
  /\ published # NoIdent /\ row.doc.ident = published
  /\ \A p \in Phone : local[p].ident = published
IdentitySettles == <>[](Settled \/ published = ForeignKey)
=============================================================================
