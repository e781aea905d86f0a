----------------------- MODULE IdentityBootstrap_proofs -----------------------
(***************************************************************************)
(* Proofs about IdentityBootstrap, for every set of phones and hosts and   *)
(* every number of faults.  Types hold whatever overlaps, and a foreign    *)
(* key is noticed unless it comes during a bootstrap.  That no host is     *)
(* lost (HostsHeld) takes that nobody edits a phone that uploads an        *)
(* identity, and that no phone has changes of its own then; that the       *)
(* published key is held and its own upgrade warned of by nobody           *)
(* (Settling), that only edits and substitutions happen during a           *)
(* bootstrap.  Both rest on Versions: a phone is never ahead of the row,   *)
(* what it agreed on at the row's version is the row, and what a bootstrap *)
(* would put in the place of it has all of its hosts.                      *)
(***************************************************************************)
EXTENDS IdentityBootstrap, TLAPS

-----------------------------------------------------------------------------
(* Records written out: what each EXCEPT of the model makes. *)

Keys  == Identity \cup {NoIdent}
Seen  == Keys \cup {ForeignKey}
Pcs   == {"idle", "sync", "asked", "resync", "push", "refetch", "repush", "persist", "publish"}
Calls == [pc : Pcs, doc : Doc, exp : Nat, seen : Seen, up : BOOLEAN]

Call(a, d, n, s, u) == [pc |-> a, doc |-> d, exp |-> n, seen |-> s, up |-> u]
Ident(k, s)         == [key |-> k, seed |-> s]
Vault(i, H)         == [ident |-> i, hosts |-> H]

\* A document with another identity.
LEMMA WithIdentityIs ==
  ASSUME NEW d \in Doc, NEW i
  PROVE  WithIdentity(d, i) = Vault(i, d.hosts)
BY DEF WithIdentity, Doc, Vault

\* A document is its identity and its hosts.
LEMMA DocIs ==
  ASSUME NEW d \in Doc
  PROVE  d = Vault(d.ident, d.hosts) /\ d.ident \in Keys /\ d.hosts \subseteq Host
BY DEF Doc, Vault, Keys

\* A bootstrap at its next step.
LEMMA CallAt ==
  ASSUME NEW c \in Calls, NEW a, NEW w, w = [c EXCEPT !.pc = a]
  PROVE  w = Call(a, c.doc, c.exp, c.seen, c.up)
<1>1. [c EXCEPT !.pc = a] = Call(a, c.doc, c.exp, c.seen, c.up)
  BY SMT DEF Calls, Call
<1> QED
  BY <1>1, Zenon

\* ... with a document and a version.
LEMMA CallSnaps ==
  ASSUME NEW c \in Calls, NEW a, NEW d, NEW n, NEW w, w = [c EXCEPT !.pc = a, !.doc = d, !.exp = n]
  PROVE  w = Call(a, d, n, c.seen, c.up)
<1>1. [c EXCEPT !.pc = a] = Call(a, c.doc, c.exp, c.seen, c.up)
  BY SMT DEF Calls, Call
<1>2. [Call(a, c.doc, c.exp, c.seen, c.up) EXCEPT !.doc = d] = Call(a, d, c.exp, c.seen, c.up)
  BY SMT DEF Call
<1>3. [Call(a, d, c.exp, c.seen, c.up) EXCEPT !.exp = n] = Call(a, d, n, c.seen, c.up)
  BY SMT DEF Call
<1> QED
  BY <1>1, <1>2, <1>3, Zenon

\* ... with a version.
LEMMA CallStamped ==
  ASSUME NEW c \in Calls, NEW a, NEW n, NEW w, w = [c EXCEPT !.pc = a, !.exp = n]
  PROVE  w = Call(a, c.doc, n, c.seen, c.up)
<1>1. [c EXCEPT !.pc = a] = Call(a, c.doc, c.exp, c.seen, c.up)
  BY SMT DEF Calls, Call
<1>2. [Call(a, c.doc, c.exp, c.seen, c.up) EXCEPT !.exp = n] = Call(a, c.doc, n, c.seen, c.up)
  BY SMT DEF Call
<1> QED
  BY <1>1, <1>2, Zenon

\* ... with the key it saw at the server.
LEMMA CallSees ==
  ASSUME NEW c \in Calls, NEW a, NEW s, NEW w, w = [c EXCEPT !.pc = a, !.seen = s]
  PROVE  w = Call(a, c.doc, c.exp, s, c.up)
<1>1. [c EXCEPT !.pc = a] = Call(a, c.doc, c.exp, c.seen, c.up)
  BY SMT DEF Calls, Call
<1>2. [Call(a, c.doc, c.exp, c.seen, c.up) EXCEPT !.seen = s] = Call(a, c.doc, c.exp, s, c.up)
  BY SMT DEF Call
<1> QED
  BY <1>1, <1>2, Zenon

\* ... with another document.
LEMMA CallHolds ==
  ASSUME NEW c \in Calls, NEW a, NEW d, NEW w, w = [c EXCEPT !.pc = a, !.doc = d]
  PROVE  w = Call(a, d, c.exp, c.seen, c.up)
<1>1. [c EXCEPT !.pc = a] = Call(a, c.doc, c.exp, c.seen, c.up)
  BY SMT DEF Calls, Call
<1>2. [Call(a, c.doc, c.exp, c.seen, c.up) EXCEPT !.doc = d] = Call(a, d, c.exp, c.seen, c.up)
  BY SMT DEF Call
<1> QED
  BY <1>1, <1>2, Zenon

\* ... as an upgrade.
LEMMA CallRises ==
  ASSUME NEW c \in Calls, NEW a, NEW u, NEW d, NEW w, w = [c EXCEPT !.pc = a, !.up = u, !.doc = d]
  PROVE  w = Call(a, d, c.exp, c.seen, u)
<1>1. [c EXCEPT !.pc = a] = Call(a, c.doc, c.exp, c.seen, c.up)
  BY SMT DEF Calls, Call
<1>2. [Call(a, c.doc, c.exp, c.seen, c.up) EXCEPT !.up = u] = Call(a, c.doc, c.exp, c.seen, u)
  BY SMT DEF Call
<1>3. [Call(a, c.doc, c.exp, c.seen, u) EXCEPT !.doc = d] = Call(a, d, c.exp, c.seen, u)
  BY SMT DEF Call
<1> QED
  BY <1>1, <1>2, <1>3, Zenon

\* A phone without a bootstrap.
LEMMA IdleIs == Idle \in Calls /\ Idle = Call("idle", NoDoc, 0, NoIdent, FALSE)
BY DEF Idle, Calls, Call, Doc, NoDoc, Seen, Keys, Pcs

\* An identity with a seed.
LEMMA SeedIs ==
  ASSUME NEW i \in Keys, NEW s
  PROVE  [i EXCEPT !.seed = s] = Ident(i.key, s)
BY DEF Keys, Identity, NoIdent, Ident

\* What each step makes of the bootstrap: it goes on with what it has,
LEMMA GotoEffect ==
  ASSUME call \in [Phone -> Calls], NEW p \in Phone, NEW a, Goto(p, a)
  PROVE  call' = [call EXCEPT ![p] = Call(a, call[p].doc, call[p].exp, call[p].seen, call[p].up)]
<1>1. PICK w : w = [call[p] EXCEPT !.pc = a]
  OBVIOUS
<1>2. call' = [call EXCEPT ![p] = w]
  BY <1>1, Zenon DEF Goto
<1> QED
  BY <1>1, <1>2, CallAt

\* ... upgrades the identity it has,
LEMMA SeedEffect ==
  ASSUME call \in [Phone -> Calls], minted \in Nat, NEW p \in Phone, AddSeed(p)
  PROVE  LET c == call[p] IN
         call' = [call EXCEPT ![p] =
                    Call("push", Vault(Ident(c.doc.ident.key, minted'), c.doc.hosts),
                         c.exp, c.seen, TRUE)]
<1>d. PICK d : d = WithIdentity(call[p].doc, [call[p].doc.ident EXCEPT !.seed = minted'])
  OBVIOUS
<1>1. PICK w : w = [call[p] EXCEPT !.pc = "push", !.up = TRUE, !.doc = d]
  OBVIOUS
<1>2. call' = [call EXCEPT ![p] = w]
  BY <1>d, <1>1, Zenon DEF AddSeed
<1>3. w = Call("push", d, call[p].exp, call[p].seen, TRUE)
  BY <1>1, CallRises
<1>4. call[p].doc \in Doc /\ call[p].doc.ident \in Keys
  BY DocIs DEF Calls
<1>5. d = Vault(Ident(call[p].doc.ident.key, minted'), call[p].doc.hosts)
  BY <1>d, <1>4, WithIdentityIs, SeedIs, Zenon
<1> QED
  BY <1>2, <1>3, <1>5, Zenon

\* ... mints one,
LEMMA MintEffect ==
  ASSUME call \in [Phone -> Calls], minted \in Nat, NEW p \in Phone, Mint(p)
  PROVE  LET c == call[p] IN
         call' = [call EXCEPT ![p] =
                    Call("push", Vault(Ident(minted + 1, minted + 2), c.doc.hosts),
                         c.exp, c.seen, c.up)]
<1>d. PICK d : d = WithIdentity(call[p].doc, Ident(minted + 1, minted + 2))
  OBVIOUS
<1>1. PICK w : w = [call[p] EXCEPT !.pc = "push", !.doc = d]
  OBVIOUS
<1>2. call' = [call EXCEPT ![p] = w]
  BY <1>d, <1>1, Zenon DEF Mint, Ident
<1>3. w = Call("push", d, call[p].exp, call[p].seen, call[p].up)
  BY <1>1, CallHolds
<1>4. call[p].doc \in Doc
  BY DEF Calls
<1>5. d = Vault(Ident(minted + 1, minted + 2), call[p].doc.hosts)
  BY <1>d, <1>4, WithIdentityIs, Zenon
<1> QED
  BY <1>2, <1>3, <1>5, Zenon

\* ... puts it into the document of the row,
LEMMA RefetchEffect ==
  ASSUME call \in [Phone -> Calls], row.doc \in Doc, NEW p \in Phone, Refetch(p)
  PROVE  LET c == call[p] IN
         call' = [call EXCEPT ![p] =
                    Call("repush", Vault(c.doc.ident, row.doc.hosts), row.ver, c.seen, c.up)]
<1>d. PICK d : d = WithIdentity(row.doc, call[p].doc.ident)
  OBVIOUS
<1>n. PICK n : n = row.ver
  OBVIOUS
<1>1. PICK w : w = [call[p] EXCEPT !.pc = "repush", !.exp = n, !.doc = d]
  OBVIOUS
<1>2. call' = [call EXCEPT ![p] = w]
  BY <1>d, <1>n, <1>1, Zenon DEF Refetch
<1>3. w = Call("repush", d, n, call[p].seen, call[p].up)
  BY <1>1, CallSnaps
<1>5. d = Vault(call[p].doc.ident, row.doc.hosts)
  BY <1>d, WithIdentityIs, Zenon
<1> QED
  BY <1>2, <1>3, <1>5, <1>n, Zenon

\* ... takes the session and the version Redux shows,
LEMMA AskEffect ==
  ASSUME call \in [Phone -> Calls], NEW p \in Phone, Ask(p)
  PROVE  call' = [call EXCEPT ![p] = Call("asked", local'[p], shown'[p], NoIdent, FALSE)]
<1>d. PICK d : d = local'[p]
  OBVIOUS
<1>n. PICK n : n = shown'[p]
  OBVIOUS
<1>1. PICK w : w = [Idle EXCEPT !.pc = "asked", !.doc = d, !.exp = n]
  OBVIOUS
<1>2. call' = [call EXCEPT ![p] = w]
  BY <1>d, <1>n, <1>1, Zenon DEF Ask
<1>3. w = Call("asked", d, n, Idle.seen, Idle.up)
  BY <1>1, CallSnaps, IdleIs
<1>4. Idle.seen = NoIdent /\ Idle.up = FALSE
  BY DEF Idle
<1> QED
  BY <1>2, <1>3, <1>4, <1>d, <1>n, Zenon

\* ... remembers the key at the server.
LEMMA BehindEffect ==
  ASSUME call \in [Phone -> Calls], NEW p \in Phone, Behind(p)
  PROVE  LET c == call[p] IN
         call' = [call EXCEPT ![p] = Call("resync", c.doc, c.exp, published, c.up)]
<1>1. PICK w : w = [call[p] EXCEPT !.pc = "resync", !.seen = published]
  OBVIOUS
<1>2. call' = [call EXCEPT ![p] = w]
  BY <1>1, Zenon DEF Behind
<1> QED
  BY <1>1, <1>2, CallSees

\* An upload is answered, or its answer is lost.
LEMMA PushedEffect ==
  ASSUME call \in [Phone -> Calls], NEW p \in Phone, Pushed(p)
  PROVE  LET c == call[p] IN
         \/ call' = [call EXCEPT ![p] = Call("persist", c.doc, row.ver + 1, c.seen, c.up)]
              /\ UNCHANGED faults
         \/ call' = [call EXCEPT ![p] = Idle] /\ ("upgrade" \in Overlap \/ ~c.up) /\ Fails
<1>n. PICK n : n = row.ver + 1
  OBVIOUS
<1>1. PICK w : w = [call[p] EXCEPT !.pc = "persist", !.exp = n]
  OBVIOUS
<1>2. \/ call' = [call EXCEPT ![p] = w] /\ UNCHANGED faults
      \/ call' = [call EXCEPT ![p] = Idle] /\ ("upgrade" \in Overlap \/ ~call[p].up) /\ Fails
  BY <1>n, <1>1, Zenon DEF Pushed, Stop
<1>3. w = Call("persist", call[p].doc, n, call[p].seen, call[p].up)
  BY <1>1, CallStamped
<1> QED
  BY <1>2, <1>3, <1>n, Zenon

\* A host is added.
LEMMA AddEffect ==
  ASSUME local \in [Phone -> Doc], NEW p \in Phone, NEW h \in Host, AddHost(p, h)
  PROVE  local' = [local EXCEPT ![p] = Vault(local[p].ident, local[p].hosts \cup {h})]
<1>H. PICK H : H = local[p].hosts \cup {h}
  OBVIOUS
<1>1. PICK w : w = [local[p] EXCEPT !.hosts = H]
  OBVIOUS
<1>2. local' = [local EXCEPT ![p] = w]
  BY <1>H, <1>1, Zenon DEF AddHost
<1>3. w = Vault(local[p].ident, H)
  BY <1>1 DEF Doc, Vault
<1> QED
  BY <1>2, <1>3, <1>H, Zenon

-----------------------------------------------------------------------------
(* What a step does to the documents. *)

\* The phone's document becomes the server's, the server's the phone's, or they are
\* found the same; what the user gives up is no longer counted.
Sends(p) ==
  /\ Changed(p) /\ Accepts(row.ver, local[p]) /\ Agree(p, local[p], row.ver + 1)
  /\ made' \subseteq made /\ (Moved(p) => row.doc.hosts \cap made' \subseteq local[p].hosts)
  /\ UNCHANGED <<local, shown>>

Takes(p) ==
  /\ local' = [local EXCEPT ![p] = row.doc] /\ Agree(p, row.doc, row.ver)
  /\ shown' = [shown EXCEPT ![p] = row.ver]
  /\ made' \subseteq made /\ (Changed(p) => local[p].hosts \cap made' \subseteq row.doc.hosts)
  /\ UNCHANGED row

Confirms(p) ==
  local[p] = row.doc /\ Agree(p, row.doc, row.ver) /\ UNCHANGED <<row, local, shown, made>>

Adds(p, h) ==
  /\ h \notin local[p].hosts /\ MayEdit(p)
  /\ "diverge" \in Overlap \/ local[p].ident = row.doc.ident
  /\ made' = made \cup {h}
  /\ local' = [local EXCEPT ![p] = Vault(local[p].ident, local[p].hosts \cup {h})]
  /\ UNCHANGED <<row, base, ver, shown>>

Uploads(p) ==
  /\ call[p].pc \in {"push", "repush"} /\ NothingBehind(p)
  /\ Accepts(call[p].exp, call[p].doc)
  /\ UNCHANGED <<phone, made>>

Persists(p) ==
  /\ call[p].pc = "persist"
  /\ local' = [local EXCEPT ![p] = call[p].doc] /\ Agree(p, call[p].doc, call[p].exp)
  /\ shown' = [shown EXCEPT ![p] = call[p].exp]
  /\ UNCHANGED <<row, made>>

Restarts(p) == shown' = [shown EXCEPT ![p] = ver[p]] /\ UNCHANGED <<row, local, base, ver, made>>

DocsSame == UNCHANGED <<row, phone, made>>

\* The steps of a sync, and its failure.
Syncs(p) == Sends(p) \/ Takes(p) \/ Confirms(p) \/ DocsSame

\* A step of the sync, or its failure, in these terms.
LEMMA SyncForms ==
  ASSUME NEW p \in Phone, SyncStep(p) \/ UNCHANGED <<row, phone>>, UNCHANGED made
  PROVE  Syncs(p)
<1>1. CASE SyncPush(p)
  BY <1>1 DEF SyncPush, Syncs, Sends
<1>2. CASE SyncAdopt(p)
  BY <1>2 DEF SyncAdopt, Syncs, Takes
<1>3. CASE SyncSame(p)
  BY <1>3 DEF SyncSame, Syncs, Confirms
<1>4. CASE SyncNothing(p) \/ UNCHANGED <<row, phone>>
  BY <1>4 DEF SyncNothing, Syncs, DocsSame
<1> QED
  BY <1>1, <1>2, <1>3, <1>4 DEF SyncStep

\* The sync alone, before a bootstrap and in it.
LEMMA SyncSyncs ==
  ASSUME NEW p \in Phone, Sync(p) \/ Ask(p) \/ Resync(p)
  PROVE  Syncs(p)
BY SyncForms, Zenon DEF Sync, SyncStep, Ask, Resync

\* The two answers to a conflict.
LEMMA SettleSyncs ==
  ASSUME NEW p \in Phone, KeepLocal(p) \/ TakeRemote(p)
  PROVE  Sends(p) \/ Takes(p)
<1>1. CASE KeepLocal(p)
  BY <1>1 DEF KeepLocal, InConflict, Sends, Accepts, Agree
<1>2. CASE TakeRemote(p)
  BY <1>2 DEF TakeRemote, Takes, server
<1> QED
  BY <1>1, <1>2

\* Both uploads are uploads.
LEMMA PushUploads ==
  ASSUME NEW p \in Phone, Push(p) \/ Repush(p)
  PROVE  Uploads(p)
BY Zenon DEF Push, Repush, Pushed, Uploads

\* What is persisted is what was uploaded.
LEMMA PersistPersists ==
  ASSUME NEW p \in Phone, Persist(p)
  PROVE  Persists(p)
BY DEF Persist, Persists, server

\* A host added.
LEMMA AddAdds ==
  ASSUME local \in [Phone -> Doc], NEW p \in Phone, NEW h \in Host, AddHost(p, h)
  PROVE  Adds(p, h)
BY AddEffect, Zenon DEF AddHost, Adds, server

\* The other steps of a bootstrap leave the documents alone.
Thinks(p) ==
  \/ Begin(p) \/ SessionGone(p) \/ Unpublished(p) \/ Compared(p) \/ Upgrade(p) \/ Behind(p)
  \/ Mint(p) \/ PushRefused(p) \/ Refetch(p) \/ RepushRefused(p) \/ Publish(p) \/ Fail(p)
  \/ Republish(p)

\* They leave the documents alone indeed, and so does the server that substitutes a key.
LEMMA ThinksSame ==
  ASSUME NEW p \in Phone, Thinks(p) \/ Substitute
  PROVE  DocsSame
BY Zenon DEF Thinks, Begin, SessionGone, Unpublished, Compared, Upgrade, AddSeed, Behind, Mint,
             PushRefused, Refetch, RepushRefused, Publish, Fail, Republish, Substitute,
             DocsSame, server

\* A process that starts again shows the version on disk.
LEMMA KillRestarts ==
  ASSUME NEW p \in Phone, Kill(p)
  PROVE  Restarts(p)
BY DEF Kill, Restarts, server

\* The steps, by what they do.
LEMMA NextSplit ==
  ASSUME Next
  PROVE  \/ Substitute
         \/ \E p \in Phone :
              \/ Sync(p) \/ Ask(p) \/ Resync(p) \/ KeepLocal(p) \/ TakeRemote(p)
              \/ Push(p) \/ Repush(p) \/ Persist(p) \/ Thinks(p) \/ Kill(p)
              \/ \E h \in Host : AddHost(p, h)
BY Zenon DEF Next, Syncing, Ensuring, Thinks

\* Every step does one of these to the documents.
LEMMA DocSteps ==
  ASSUME local \in [Phone -> Doc], [Next]_vars
  PROVE  \/ DocsSame
         \/ \E p \in Phone :
              \/ Sends(p) \/ Takes(p) \/ Confirms(p) \/ Uploads(p) \/ Persists(p) \/ Restarts(p)
              \/ \E h \in Host : Adds(p, h)
<1>1. CASE UNCHANGED vars
  BY <1>1 DEF vars, server, phone, DocsSame
<1>2. CASE Substitute
  <2>1. CASE Phone = {}
    BY <1>2 DEF Substitute, DocsSame
  <2> QED
    BY <1>2, <2>1, ThinksSame
<1>3. ASSUME NEW p \in Phone, Sync(p) \/ Ask(p) \/ Resync(p)
      PROVE  Sends(p) \/ Takes(p) \/ Confirms(p) \/ DocsSame
  BY <1>3, SyncSyncs, Zenon DEF Syncs
<1> QED
  BY <1>1, <1>2, <1>3, NextSplit, SettleSyncs, PushUploads, PersistPersists, AddAdds,
     ThinksSame, KillRestarts, Zenon

-----------------------------------------------------------------------------
(* Types. *)

DocsTyped ==
  /\ row \in [ver : Nat, doc : Doc]
  /\ local \in [Phone -> Doc] /\ base \in [Phone -> Doc]
  /\ ver \in [Phone -> Nat] /\ shown \in [Phone -> Nat]
  /\ made \subseteq Host
CallTyped == call \in [Phone -> Calls]
RestTyped ==
  /\ published \in Seen
  /\ mismatch \in [Phone -> BOOLEAN]
  /\ minted \in 0..MaxMinted /\ faults \in 0..MaxFaults

\* The type invariant in three parts.
LEMMA TypedParts == TypeOK <=> DocsTyped /\ CallTyped /\ RestTyped
BY DEF TypeOK, DocsTyped, CallTyped, RestTyped, Calls, Pcs, Seen, Keys

\* The parts of a bootstrap are typed.
LEMMA CallIn ==
  ASSUME CallTyped, NEW p \in Phone
  PROVE  /\ call[p] \in Calls
         /\ call[p].pc \in Pcs /\ call[p].doc \in Doc /\ call[p].exp \in Nat
         /\ call[p].seen \in Seen /\ call[p].up \in BOOLEAN
<1>1. call[p] \in Calls
  BY DEF CallTyped
<1> QED
  BY <1>1 DEF Calls

\* The documents and versions of a phone are typed.
LEMMA DocIn ==
  ASSUME DocsTyped, NEW p \in Phone
  PROVE  /\ local[p] \in Doc /\ base[p] \in Doc /\ ver[p] \in Nat /\ shown[p] \in Nat
         /\ row.ver \in Nat /\ row.doc \in Doc
BY DEF DocsTyped

\* Documents and versions stay typed.
LEMMA DocsTypeStep ==
  ASSUME DocsTyped, CallTyped, [Next]_vars
  PROVE  DocsTyped'
<1> USE DEF DocsTyped
<1>1. CASE DocsSame
  BY <1>1 DEF DocsSame, phone
<1>2. ASSUME NEW p \in Phone, Sends(p) PROVE DocsTyped'
  BY <1>2 DEF Sends, Accepts, Agree
<1>3. ASSUME NEW p \in Phone, Takes(p) PROVE DocsTyped'
  BY <1>3 DEF Takes, Agree
<1>4. ASSUME NEW p \in Phone, Confirms(p) PROVE DocsTyped'
  BY <1>4 DEF Confirms, Agree
<1>5. ASSUME NEW p \in Phone, Uploads(p) PROVE DocsTyped'
  BY <1>5, CallIn DEF Uploads, Accepts, phone
<1>6. ASSUME NEW p \in Phone, Persists(p) PROVE DocsTyped'
  BY <1>6, CallIn DEF Persists, Agree
<1>7. ASSUME NEW p \in Phone, Restarts(p) PROVE DocsTyped'
  BY <1>7 DEF Restarts
<1>8. ASSUME NEW p \in Phone, NEW h \in Host, Adds(p, h) PROVE DocsTyped'
  <2>1. Vault(local[p].ident, local[p].hosts \cup {h}) \in Doc
    BY DEF Vault, Doc
  <2> QED
    BY <1>8, <2>1 DEF Adds
<1> QED
  BY <1>1, <1>2, <1>3, <1>4, <1>5, <1>6, <1>7, <1>8, DocSteps

\* A bootstrap of typed parts is one.
LEMMA CallMake ==
  ASSUME NEW a \in Pcs, NEW d \in Doc, NEW n \in Nat, NEW s \in Seen, NEW u \in BOOLEAN
  PROVE  Call(a, d, n, s, u) \in Calls
BY DEF Call, Calls

\* A step of one bootstrap to a typed one keeps all typed.
LEMMA CallOut ==
  ASSUME CallTyped, NEW p \in Phone, NEW c \in Calls, call' = [call EXCEPT ![p] = c]
  PROVE  CallTyped'
BY DEF CallTyped

\* Where a bootstrap goes without taking anything along.
Targets == {"sync", "refetch", "publish"}

\* What a step does to the bootstrap of a phone: it goes on, or is over.
LEMMA CallSteps ==
  ASSUME [Next]_vars
  PROVE  \/ UNCHANGED call
         \/ \E p \in Phone :
              \/ Stop(p)
              \/ \E a \in Targets : Goto(p, a)
              \/ Ask(p) \/ Upgrade(p) \/ Behind(p) \/ Mint(p) \/ Pushed(p) \/ Refetch(p)
<1>1. CASE UNCHANGED vars
  BY <1>1 DEF vars
<1>2. CASE Substitute
  BY <1>2 DEF Substitute
<1>3. ASSUME NEW p \in Phone, Sync(p) \/ KeepLocal(p) \/ TakeRemote(p) PROVE UNCHANGED call
  BY <1>3 DEF Sync, KeepLocal, TakeRemote
<1>4. ASSUME NEW p \in Phone, Resync(p) \/ Kill(p) PROVE Stop(p)
  BY <1>4 DEF Resync, Kill
<1>5. ASSUME NEW p \in Phone, Push(p) \/ Repush(p) PROVE Pushed(p)
  BY <1>5 DEF Push, Repush
<1>6. ASSUME NEW p \in Phone, Persist(p) PROVE \E a \in Targets : Goto(p, a)
  BY <1>6, Zenon DEF Persist, Targets
<1>7. ASSUME NEW p \in Phone, Thinks(p)
      PROVE  \/ UNCHANGED call \/ Stop(p) \/ \E a \in Targets : Goto(p, a)
             \/ Upgrade(p) \/ Behind(p) \/ Mint(p) \/ Refetch(p)
  BY <1>7, Zenon DEF Thinks, Begin, SessionGone, Unpublished, Compared, PushRefused,
                     RepushRefused, Publish, Fail, Republish, Targets
<1>8. ASSUME NEW p \in Phone, NEW h \in Host, AddHost(p, h) PROVE UNCHANGED call
  BY <1>8 DEF AddHost
<1> QED
  BY <1>1, <1>2, <1>3, <1>4, <1>5, <1>6, <1>7, <1>8, NextSplit, Zenon

\* What can be seen at the server.
LEMMA KeysSeen == Keys \subseteq Seen /\ NoIdent \in Keys /\ ForeignKey \in Seen
BY DEF Seen, Keys

\* Bootstraps stay typed.
LEMMA CallTypeStep ==
  ASSUME DocsTyped, CallTyped, RestTyped, [Next]_vars
  PROVE  CallTyped'
<1>t. /\ DocsTyped' /\ call \in [Phone -> Calls]
      /\ minted \in Nat /\ row.doc \in Doc /\ row.ver \in Nat
  BY DocsTypeStep, MintedIsNat DEF CallTyped, RestTyped, DocsTyped
<1>0. CASE UNCHANGED call
  BY <1>0 DEF CallTyped
<1>1. ASSUME NEW p \in Phone, Stop(p) PROVE CallTyped'
  BY <1>1, IdleIs, CallOut DEF Stop
<1>2. ASSUME NEW p \in Phone, NEW a \in Targets, Goto(p, a) PROVE CallTyped'
  BY <1>2, <1>t, CallIn, CallMake, CallOut, GotoEffect DEF Targets, Pcs
<1>3. ASSUME NEW p \in Phone, Ask(p) PROVE CallTyped'
  <2>1. local'[p] \in Doc /\ shown'[p] \in Nat
    BY <1>t DEF DocsTyped
  <2>2. "asked" \in Pcs /\ NoIdent \in Seen /\ FALSE \in BOOLEAN
    BY KeysSeen DEF Pcs
  <2>3. Call("asked", local'[p], shown'[p], NoIdent, FALSE) \in Calls
    BY <2>1, <2>2, CallMake, Zenon
  <2> QED
    BY <1>3, <1>t, <2>3, CallOut, AskEffect
<1>4. ASSUME NEW p \in Phone, Upgrade(p) PROVE CallTyped'
  <2>1. local[p] \in Doc /\ call[p].doc = local[p] /\ local[p].ident # NoIdent
    BY <1>4, DocIn DEF Upgrade, Answered
  <2>2. AddSeed(p) /\ minted' \in 0..MaxMinted
    <3>1. AddSeed(p)
      BY <1>4, Zenon DEF Upgrade
    <3>2. minted < MaxMinted /\ minted' = minted + 1
      BY <3>1, Zenon DEF AddSeed
    <3> QED
      BY <1>t, <3>1, <3>2, MintedIsNat
  <2>3. Vault(Ident(call[p].doc.ident.key, minted'), call[p].doc.hosts) \in Doc
    BY <2>1, <2>2 DEF Vault, Ident, Doc, Identity
  <2>4. "push" \in Pcs /\ TRUE \in BOOLEAN /\ call[p].exp \in Nat /\ call[p].seen \in Seen
    BY CallIn DEF Pcs
  <2>5. Call("push", Vault(Ident(call[p].doc.ident.key, minted'), call[p].doc.hosts),
             call[p].exp, call[p].seen, TRUE) \in Calls
    BY <2>3, <2>4, CallMake, Zenon
  <2> QED
    BY <1>t, <2>2, <2>5, SeedEffect, CallOut
<1>5. ASSUME NEW p \in Phone, Behind(p) PROVE CallTyped'
  <2>1. published \in Seen /\ "resync" \in Pcs
    BY DEF RestTyped, Pcs
  <2> QED
    BY <1>5, <1>t, <2>1, CallIn, CallMake, CallOut, BehindEffect
<1>6. ASSUME NEW p \in Phone, Mint(p) PROVE CallTyped'
  <2>1. minted + 1 \in 1..MaxMinted /\ minted + 2 \in 0..MaxMinted
    BY <1>6, <1>t, MintedIsNat DEF Mint
  <2>2. call[p].doc.hosts \subseteq Host /\ "push" \in Pcs
    BY CallIn, DocIs DEF Pcs
  <2>3. Vault(Ident(minted + 1, minted + 2), call[p].doc.hosts) \in Doc
    BY <2>1, <2>2 DEF Vault, Ident, Doc, Identity
  <2> QED
    BY <1>6, <1>t, <2>2, <2>3, CallIn, CallMake, CallOut, MintEffect
<1>7. ASSUME NEW p \in Phone, Pushed(p) PROVE CallTyped'
  <2>1. "persist" \in Pcs /\ row.ver + 1 \in Nat
    BY <1>t DEF Pcs
  <2> QED
    BY <1>7, <1>t, <2>1, IdleIs, CallIn, CallMake, CallOut, PushedEffect
<1>8. ASSUME NEW p \in Phone, Refetch(p) PROVE CallTyped'
  <2>1. call[p].doc.ident \in Keys /\ row.doc.hosts \subseteq Host /\ "repush" \in Pcs
    BY <1>t, CallIn, DocIs DEF Pcs
  <2>2. Vault(call[p].doc.ident, row.doc.hosts) \in Doc
    BY <2>1 DEF Vault, Doc, Keys
  <2> QED
    BY <1>8, <1>t, <2>1, <2>2, CallIn, CallMake, CallOut, RefetchEffect
<1> QED
  BY <1>0, <1>1, <1>2, <1>3, <1>4, <1>5, <1>6, <1>7, <1>8, CallSteps, Zenon

\* The published key is changed by those who publish, and by a server that substitutes it.
LEMMA PublishSteps ==
  ASSUME [Next]_vars
  PROVE  \/ UNCHANGED published
         \/ Substitute
         \/ \E p \in Phone : Publish(p) \/ Republish(p)
<1>1. CASE UNCHANGED vars
  BY <1>1 DEF vars, server
<1>3. ASSUME NEW p \in Phone, Sync(p) \/ KeepLocal(p) \/ TakeRemote(p) \/ Resync(p) \/ Kill(p)
                              \/ Push(p) \/ Repush(p) \/ Persist(p) \/ Ask(p)
      PROVE  UNCHANGED published
  BY <1>3 DEF Sync, KeepLocal, TakeRemote, Resync, Kill, Push, Repush, Pushed, Persist, Ask, server
<1>7. ASSUME NEW p \in Phone, Thinks(p)
      PROVE  \/ UNCHANGED published \/ Publish(p) \/ Republish(p)
  BY <1>7, Zenon DEF Thinks, Begin, SessionGone, Unpublished, Compared, PushRefused, Upgrade, AddSeed,
                     RepushRefused, Fail, Behind, Mint, Refetch, server
<1>8. ASSUME NEW p \in Phone, NEW h \in Host, AddHost(p, h) PROVE UNCHANGED published
  BY <1>8 DEF AddHost, server
<1> QED
  BY <1>1, <1>3, <1>7, <1>8, NextSplit, Zenon

\* The warning is set by a comparison, at the end of a bootstrap, by a user and by a kill.
LEMMA WarnSteps ==
  ASSUME [Next]_vars
  PROVE  \/ UNCHANGED mismatch
         \/ \E p \in Phone :
              \/ SetMismatch(p, FALSE)
              \/ Compared(p)
              \/ Resync(p)
<1>1. CASE UNCHANGED vars
  BY <1>1 DEF vars
<1>2. CASE Substitute
  BY <1>2 DEF Substitute
<1>3. ASSUME NEW p \in Phone, Sync(p) \/ KeepLocal(p) \/ TakeRemote(p)
                              \/ Push(p) \/ Repush(p) \/ Persist(p) \/ Ask(p)
      PROVE  UNCHANGED mismatch
  BY <1>3 DEF Sync, KeepLocal, TakeRemote, Push, Repush, Pushed, Persist, Ask
<1>4. ASSUME NEW p \in Phone, Kill(p) PROVE SetMismatch(p, FALSE)
  BY <1>4 DEF Kill
<1>7. ASSUME NEW p \in Phone, Thinks(p)
      PROVE  \/ UNCHANGED mismatch \/ SetMismatch(p, FALSE) \/ Compared(p)
  BY <1>7, Zenon DEF Thinks, Begin, SessionGone, Unpublished, PushRefused, Upgrade, AddSeed,
                     RepushRefused, Fail, Behind, Mint, Refetch, Publish, Republish
<1>8. ASSUME NEW p \in Phone, NEW h \in Host, AddHost(p, h) PROVE UNCHANGED mismatch
  BY <1>8 DEF AddHost
<1> QED
  BY <1>1, <1>2, <1>3, <1>4, <1>7, <1>8, NextSplit, Zenon

\* The counters count up to their bounds.
LEMMA CountSteps ==
  ASSUME [Next]_vars
  PROVE  /\ \/ UNCHANGED minted
            \/ minted < MaxMinted /\ minted' = minted + 1
            \/ minted + 2 <= MaxMinted /\ minted' = minted + 2
         /\ UNCHANGED faults \/ Fails
<1>1. CASE UNCHANGED vars
  BY <1>1 DEF vars
<1>2. CASE Substitute
  BY <1>2 DEF Substitute
<1>3. ASSUME NEW p \in Phone, Sync(p) \/ KeepLocal(p) \/ TakeRemote(p) \/ Resync(p) \/ Kill(p)
                              \/ Push(p) \/ Repush(p) \/ Persist(p) \/ Ask(p)
      PROVE  UNCHANGED minted /\ (UNCHANGED faults \/ Fails)
  BY <1>3, Zenon DEF Sync, KeepLocal, TakeRemote, Resync, Kill, Push, Repush, Pushed, Persist, Ask
<1>4. ASSUME NEW p \in Phone, Upgrade(p) \/ Mint(p)
      PROVE  /\ \/ minted < MaxMinted /\ minted' = minted + 1
                \/ minted + 2 <= MaxMinted /\ minted' = minted + 2
             /\ UNCHANGED faults
  BY <1>4, Zenon DEF Upgrade, AddSeed, Mint
<1>7. ASSUME NEW p \in Phone, Thinks(p), ~Upgrade(p), ~Mint(p)
      PROVE  UNCHANGED minted /\ (UNCHANGED faults \/ Fails)
  BY <1>7, Zenon DEF Thinks, Begin, SessionGone, Unpublished, PushRefused, Compared,
                     RepushRefused, Fail, Behind, Refetch, Publish, Republish
<1>8. ASSUME NEW p \in Phone, NEW h \in Host, AddHost(p, h) PROVE UNCHANGED <<minted, faults>>
  BY <1>8 DEF AddHost
<1> QED
  BY <1>1, <1>2, <1>3, <1>4, <1>7, <1>8, NextSplit, Zenon

\* Published key, warnings and counters stay typed.
LEMMA RestTypeStep ==
  ASSUME DocsTyped, CallTyped, RestTyped, [Next]_vars
  PROVE  RestTyped'
<1>1. published' \in Seen
  <2>1. ASSUME NEW p \in Phone, Publish(p) PROVE published' \in Seen
    <3>1. published' \in {call[p].doc.ident, published}
      BY <2>1 DEF Publish
    <3> QED
      BY <3>1, CallIn, DocIs, KeysSeen DEF RestTyped
  <2>2. ASSUME NEW p \in Phone, Republish(p) PROVE published' \in Seen
    BY <2>2, DocIn, DocIs, KeysSeen DEF Republish
  <2>3. CASE Substitute
    BY <2>3, KeysSeen DEF Substitute
  <2> QED
    BY <2>1, <2>2, <2>3, PublishSteps DEF RestTyped
<1>2. mismatch' \in [Phone -> BOOLEAN]
  <2>1. ASSUME NEW p \in Phone, NEW b \in BOOLEAN, SetMismatch(p, b)
        PROVE  mismatch' \in [Phone -> BOOLEAN]
    BY <2>1, Zenon DEF SetMismatch, RestTyped
  <2>2. ASSUME NEW p \in Phone, Compared(p) PROVE mismatch' \in [Phone -> BOOLEAN]
    <3>1. SetMismatch(p, published # local[p].ident) /\ (published # local[p].ident) \in BOOLEAN
      BY <2>2, Zenon DEF Compared
    <3> QED
      BY <2>1, <3>1, Zenon
  <2>3. ASSUME NEW p \in Phone, Resync(p) PROVE mismatch' \in [Phone -> BOOLEAN]
    <3>1. \/ UNCHANGED mismatch
          \/ /\ SetMismatch(p, call[p].seen # local'[p].ident)
             /\ (call[p].seen # local'[p].ident) \in BOOLEAN
      BY <2>3, Zenon DEF Resync
    <3> QED
      BY <2>1, <3>1, Zenon DEF RestTyped
  <2>4. FALSE \in BOOLEAN
    BY Zenon
  <2> QED
    BY <2>1, <2>2, <2>3, <2>4, WarnSteps, Zenon DEF RestTyped
<1>3. minted' \in 0..MaxMinted
  BY CountSteps, MintedIsNat DEF RestTyped
<1>4. faults' \in 0..MaxFaults
  BY CountSteps, FaultsAreNat DEF RestTyped, Fails
<1> QED
  BY <1>1, <1>2, <1>3, <1>4 DEF RestTyped

\* Every step keeps the types.
LEMMA TypeStep ==
  ASSUME TypeOK, [Next]_vars
  PROVE  TypeOK'
<1>1. DocsTyped' /\ CallTyped' /\ RestTyped'
  BY TypedParts, DocsTypeStep, CallTypeStep, RestTypeStep
<1>2. TypeOK' <=> DocsTyped' /\ CallTyped' /\ RestTyped'
  BY TypedParts, PTL
<1> QED
  BY <1>1, <1>2

\* An account begins without an identity, or with one from before the upgrade.
LEMMA InitForm ==
  ASSUME Init
  PROVE  \E k \in 0..1 :
           LET d == Vault(Ident(k, None), {})
           IN  /\ row = [ver |-> 1, doc |-> d] /\ d \in Doc
               /\ published = Ident(k, None) /\ published \in Keys /\ minted = k
               /\ local = [p \in Phone |-> d] /\ base = local
               /\ ver = [p \in Phone |-> 1] /\ shown = ver
               /\ call = [p \in Phone |-> Idle] /\ mismatch = [p \in Phone |-> FALSE]
               /\ made = {} /\ faults = 0
<1>1. ASSUME NEW k \in 0..1 PROVE Ident(k, None) \in Keys
  BY MintedIsNat DEF Ident, Keys, Identity, NoIdent, None
<1>2. ASSUME NEW i \in Keys PROVE Vault(i, {}) \in Doc
  BY DEF Vault, Doc, Keys
<1> QED
  BY <1>1, <1>2, Zenon DEF Init, Vault, Ident

\* The initial states are typed.
LEMMA InitTypes ==
  ASSUME Init
  PROVE  TypeOK
<1>1. DocsTyped
  BY InitForm DEF DocsTyped
<1>2. CallTyped
  BY InitForm, IdleIs DEF CallTyped
<1>3. published \in Seen /\ minted \in 0..MaxMinted /\ faults \in 0..MaxFaults
  BY InitForm, KeysSeen, MintedIsNat, FaultsAreNat
<1>4. mismatch \in [Phone -> BOOLEAN]
  BY InitForm, Zenon
<1> QED
  BY <1>1, <1>2, <1>3, <1>4, TypedParts DEF RestTyped

\* In every reachable state row, phones and bootstraps are well typed: what a bootstrap
\* carries is a document, and what is published an identity of the account, or none, or
\* the foreign key.  (identity.ts.)
THEOREM IdentityTypes == Spec => []TypeOK
<1>1. Init => TypeOK
  BY InitTypes
<1>2. TypeOK /\ [Next]_vars => TypeOK'
  BY TypeStep
<1> QED
  BY <1>1, <1>2, PTL DEF Spec

-----------------------------------------------------------------------------
(* Versions, and what a bootstrap has captured of them. *)

\* A phone never is ahead of the server; what it agreed on at the version of the row is
\* the row; and its own changes are additions.
Agreed(p) ==
  /\ ver[p] <= row.ver /\ shown[p] <= ver[p]
  /\ ver[p] = row.ver => base[p] = row.doc
  /\ base[p].ident = local[p].ident /\ base[p].hosts \subseteq local[p].hosts

\* What a bootstrap is about to upload in place of the row has the hosts of the row, and
\* what it has uploaded is the row, as long as that is of the version it knows.
Snap(c, v, d) ==
  /\ c.exp <= v
  /\ c.pc \in {"asked", "push", "repush"} /\ c.exp = v => d.hosts \subseteq c.doc.hosts
  /\ c.pc = "persist" /\ c.exp = v => c.doc = d

Versions == \A p \in Phone : Agreed(p) /\ Snap(call[p], row.ver, row.doc)

\* No step puts a phone ahead of the server.
LEMMA AgreedStep ==
  ASSUME TypeOK, Versions, [Next]_vars, NEW q \in Phone
  PROVE  Agreed(q)'
<1>t. DocsTyped /\ CallTyped
  BY TypedParts
<1>i. \A p \in Phone : Agreed(p) /\ Snap(call[p], row.ver, row.doc)
  BY DEF Versions
<1> USE DEF Agreed
<1>1. CASE DocsSame
  BY <1>1, <1>i DEF DocsSame, phone
<1>2. ASSUME NEW p \in Phone, Sends(p) PROVE Agreed(q)'
  BY <1>2, <1>i, <1>t, DocIn DEF Sends, Accepts, Agree, DocsTyped
<1>3. ASSUME NEW p \in Phone, Takes(p) PROVE Agreed(q)'
  BY <1>3, <1>i, <1>t, DocIn DEF Takes, Agree, DocsTyped
<1>4. ASSUME NEW p \in Phone, Confirms(p) PROVE Agreed(q)'
  BY <1>4, <1>i, <1>t, DocIn DEF Confirms, Agree, DocsTyped
<1>5. ASSUME NEW p \in Phone, Uploads(p) PROVE Agreed(q)'
  BY <1>5, <1>i, <1>t, DocIn DEF Uploads, Accepts, phone
<1>6. ASSUME NEW p \in Phone, Persists(p) PROVE Agreed(q)'
  BY <1>6, <1>i, <1>t, DocIn, CallIn DEF Persists, Agree, DocsTyped, Snap
<1>7. ASSUME NEW p \in Phone, Restarts(p) PROVE Agreed(q)'
  BY <1>7, <1>i, <1>t, DocIn DEF Restarts, DocsTyped
<1>8. ASSUME NEW p \in Phone, NEW h \in Host, Adds(p, h) PROVE Agreed(q)'
  BY <1>8, <1>i, <1>t, DocIn DEF Adds, DocsTyped, Vault
<1> QED
  BY <1>1, <1>2, <1>3, <1>4, <1>5, <1>6, <1>7, <1>8, <1>t, DocSteps DEF DocsTyped

\* The row stays, or goes to its next version.
LEMMA RowStep ==
  ASSUME DocsTyped, [Next]_vars
  PROVE  row' = row \/ row'.ver = row.ver + 1
<1>1. ASSUME NEW p \in Phone, Sends(p) \/ Uploads(p) PROVE row'.ver = row.ver + 1
  BY <1>1 DEF Sends, Uploads, Accepts
<1> QED
  BY <1>1, DocSteps DEF DocsTyped, DocsSame, Takes, Confirms, Persists, Restarts, Adds

\* What a bootstrap captured gets older at most when others write.
LEMMA SnapStays ==
  ASSUME DocsTyped, [Next]_vars, NEW c \in Calls, Snap(c, row.ver, row.doc)
  PROVE  Snap(c, row'.ver, row'.doc)
<1>1. row.ver \in Nat /\ c.exp \in Nat
  BY DEF DocsTyped, Calls
<1> QED
  BY <1>1, RowStep DEF Snap

\* Every step keeps what bootstraps captured related to the row.
LEMMA SnapStep ==
  ASSUME TypeOK, Versions, [Next]_vars, NEW q \in Phone
  PROVE  Snap(call'[q], row'.ver, row'.doc)
<1>t. /\ DocsTyped /\ CallTyped /\ DocsTyped'
      /\ row.ver \in Nat /\ row'.ver \in Nat /\ row.doc \in Doc
      /\ call \in [Phone -> Calls] /\ minted \in Nat
  BY TypedParts, DocsTypeStep, MintedIsNat DEF DocsTyped, CallTyped, RestTyped
<1>i. \A p \in Phone : Snap(call[p], row.ver, row.doc) /\ Snap(call[p], row'.ver, row'.doc)
                       /\ call[p].exp \in Nat
  BY <1>t, SnapStays, CallIn DEF Versions
<1>0. CASE UNCHANGED call
  BY <1>0, <1>i
<1>1. ASSUME NEW p \in Phone, Stop(p) PROVE Snap(call'[q], row'.ver, row'.doc)
  <2>1. Snap(Idle, row'.ver, row'.doc)
    BY <1>t DEF Idle, Snap
  <2> QED
    BY <1>1, <1>t, <1>i, <2>1 DEF Stop
<1>2. ASSUME NEW p \in Phone, NEW a \in Targets, Goto(p, a) PROVE Snap(call'[q], row'.ver, row'.doc)
  <2>1. Snap(Call(a, call[p].doc, call[p].exp, call[p].seen, call[p].up), row'.ver, row'.doc)
    BY <1>i DEF Call, Snap, Targets
  <2> QED
    BY <1>2, <1>t, <1>i, <2>1, GotoEffect
<1>3. ASSUME NEW p \in Phone, Ask(p) PROVE Snap(call'[q], row'.ver, row'.doc)
  <2>1. Agreed(p)' /\ local'[p] \in Doc /\ shown'[p] \in Nat /\ ver'[p] \in Nat
    BY <1>t, AgreedStep DEF DocsTyped
  <2>2. Snap(Call("asked", local'[p], shown'[p], NoIdent, FALSE), row'.ver, row'.doc)
    BY <1>t, <2>1 DEF Call, Snap, Agreed
  <2> QED
    BY <1>3, <1>t, <1>i, <2>2, AskEffect
<1>4. ASSUME NEW p \in Phone, Upgrade(p) PROVE Snap(call'[q], row'.ver, row'.doc)
  <2>1. AddSeed(p) /\ call[p].pc = "asked"
    BY <1>4, Zenon DEF Upgrade, Answered
  <2>2. Snap(Call("push", Vault(Ident(call[p].doc.ident.key, minted'), call[p].doc.hosts),
                  call[p].exp, call[p].seen, TRUE), row'.ver, row'.doc)
    BY <1>i, <2>1 DEF Call, Vault, Snap
  <2> QED
    BY <1>t, <1>i, <2>1, <2>2, SeedEffect
<1>5. ASSUME NEW p \in Phone, Behind(p) PROVE Snap(call'[q], row'.ver, row'.doc)
  <2>1. Snap(Call("resync", call[p].doc, call[p].exp, published, call[p].up), row'.ver, row'.doc)
    BY <1>i DEF Call, Snap
  <2> QED
    BY <1>5, <1>t, <1>i, <2>1, BehindEffect
<1>6. ASSUME NEW p \in Phone, Mint(p) PROVE Snap(call'[q], row'.ver, row'.doc)
  <2>1. call[p].pc = "asked"
    BY <1>6, Zenon DEF Mint, Answered
  <2>2. Snap(Call("push", Vault(Ident(minted + 1, minted + 2), call[p].doc.hosts),
                  call[p].exp, call[p].seen, call[p].up), row'.ver, row'.doc)
    BY <1>i, <2>1 DEF Call, Vault, Snap
  <2> QED
    BY <1>6, <1>t, <1>i, <2>2, MintEffect
<1>7. ASSUME NEW p \in Phone, Pushed(p) PROVE Snap(call'[q], row'.ver, row'.doc)
  <2>1. row'.ver = row.ver + 1 /\ row'.doc = call[p].doc
    BY <1>7, Zenon DEF Pushed, Accepts
  <2>2. Snap(Call("persist", call[p].doc, row.ver + 1, call[p].seen, call[p].up),
             row'.ver, row'.doc)
    BY <1>t, <2>1 DEF Call, Snap
  <2>3. Snap(Idle, row'.ver, row'.doc)
    BY <1>t DEF Idle, Snap
  <2> QED
    BY <1>7, <1>t, <1>i, <2>2, <2>3, PushedEffect
<1>8. ASSUME NEW p \in Phone, Refetch(p) PROVE Snap(call'[q], row'.ver, row'.doc)
  <2>1. row' = row
    BY <1>8, Zenon DEF Refetch, server
  <2>2. Snap(Call("repush", Vault(call[p].doc.ident, row.doc.hosts), row.ver, call[p].seen,
                  call[p].up), row'.ver, row'.doc)
    BY <1>t, <2>1 DEF Call, Vault, Snap
  <2> QED
    BY <1>8, <1>t, <1>i, <2>2, RefetchEffect
<1> QED
  BY <1>0, <1>1, <1>2, <1>3, <1>4, <1>5, <1>6, <1>7, <1>8, CallSteps, Zenon

\* In every reachable state phones and bootstraps are related to the row so.
LEMMA VersionsAlways == Spec => [](TypeOK /\ Versions)
<1>1. Init => TypeOK /\ Versions
  <2>1. ASSUME Init PROVE Versions
    <3>1. ASSUME NEW p \in Phone PROVE Agreed(p)
      BY <2>1, InitForm DEF Agreed
    <3>2. ASSUME NEW p \in Phone PROVE Snap(call[p], row.ver, row.doc)
      BY <2>1, InitForm DEF Snap, Idle
    <3> QED
      BY <3>1, <3>2 DEF Versions
  <2> QED
    BY <2>1, InitTypes
<1>2. TypeOK /\ Versions /\ [Next]_vars => (TypeOK /\ Versions)'
  BY TypeStep, AgreedStep, SnapStep DEF Versions
<1> QED
  BY <1>1, <1>2, PTL DEF Spec

-----------------------------------------------------------------------------
(* No host is lost. *)

\* The hosts a phone has and has not sent.
Unsynced(p) == local[p].hosts \ base[p].hosts

HostsHeld ==
  /\ \A h \in made : h \in row.doc.hosts \/ \E p \in Phone : h \in Unsynced(p)
  /\ \A p \in Phone : call[p].pc = "persist" => Unsynced(p) = {}

\* An upload that leaves no host behind takes place when no phone has changes of its own.
LEMMA UploadsAlone ==
  ASSUME NEW p \in Phone, NEW q \in Phone, NothingBehind(p), "diverge" \notin Overlap
  PROVE  Unsynced(q) = {}
BY DEF NothingBehind, Unsynced

\* The changes of a phone grow by an edit only.
LEMMA UnsyncedStep ==
  ASSUME TypeOK, Versions, [Next]_vars, NEW q \in Phone
  PROVE  Unsynced(q)' \subseteq Unsynced(q) \/ \E h \in Host : Adds(q, h)
<1>t. DocsTyped /\ local \in [Phone -> Doc] /\ base \in [Phone -> Doc]
  BY TypedParts DEF DocsTyped
<1>a. base[q].hosts \subseteq local[q].hosts
  BY DEF Versions, Agreed
<1> USE DEF Unsynced
<1>1. CASE DocsSame
  BY <1>1 DEF DocsSame, phone
<1>2. ASSUME NEW p \in Phone, Sends(p) \/ Takes(p) \/ Confirms(p)
      PROVE  Unsynced(q)' \subseteq Unsynced(q)
  BY <1>2, <1>t DEF Sends, Takes, Confirms, Agree
<1>3. ASSUME NEW p \in Phone, Uploads(p) \/ Restarts(p)
      PROVE  Unsynced(q)' \subseteq Unsynced(q)
  BY <1>3 DEF Uploads, Restarts, phone
<1>4. ASSUME NEW p \in Phone, Persists(p)
      PROVE  Unsynced(q)' \subseteq Unsynced(q)
  BY <1>4, <1>t DEF Persists, Agree
<1>5. ASSUME NEW p \in Phone, NEW h \in Host, Adds(p, h), p # q
      PROVE  Unsynced(q)' \subseteq Unsynced(q)
  BY <1>5, <1>t DEF Adds
<1> QED
  BY <1>1, <1>2, <1>3, <1>4, <1>5, <1>t, DocSteps

\* A bootstrap comes to persist by an upload that was answered.
LEMMA ComesToPersist ==
  ASSUME CallTyped, DocsTyped, RestTyped, [Next]_vars, NEW q \in Phone, call'[q].pc = "persist"
  PROVE  call'[q] = call[q] \/ Pushed(q)
<1>t. call \in [Phone -> Calls] /\ minted \in Nat /\ row.doc \in Doc
  BY MintedIsNat DEF CallTyped, RestTyped, DocsTyped
<1>1. ASSUME NEW p \in Phone, NEW c, c.pc # "persist" , call' = [call EXCEPT ![p] = c]
      PROVE  call'[q] = call[q]
  BY <1>1, <1>t
<1>2. Idle.pc # "persist"
  BY DEF Idle
<1>3. ASSUME NEW p \in Phone, Stop(p) PROVE call'[q] = call[q]
  BY <1>1, <1>2, <1>3, Zenon DEF Stop
<1>4. \A a, d, n, s, u : Call(a, d, n, s, u).pc = a
  BY DEF Call
<1>5. ASSUME NEW p \in Phone, NEW a \in Targets, Goto(p, a) PROVE call'[q] = call[q]
  <2>1. a # "persist"
    BY DEF Targets
  <2> QED
    BY <1>1, <1>4, <1>5, <1>t, <2>1, GotoEffect
<1>6. ASSUME NEW p \in Phone, Ask(p) \/ Upgrade(p) \/ Behind(p) \/ Mint(p) \/ Refetch(p)
      PROVE  call'[q] = call[q]
  <2>1. CASE Ask(p)
    <3>1. PICK c : c = Call("asked", local'[p], shown'[p], NoIdent, FALSE)
      OBVIOUS
    <3>2. call' = [call EXCEPT ![p] = c]
      BY <1>t, <2>1, <3>1, AskEffect, Zenon
    <3>3. c.pc # "persist"
      BY <3>1 DEF Call
    <3> QED
      BY <1>1, <3>2, <3>3
  <2>2. CASE Upgrade(p)
    <3>1. PICK c : c = Call("push", Vault(Ident(call[p].doc.ident.key, minted'), call[p].doc.hosts),
                        call[p].exp, call[p].seen, TRUE)
      OBVIOUS
    <3>2. call' = [call EXCEPT ![p] = c]
      BY <1>t, <2>2, <3>1, SeedEffect, Zenon DEF Upgrade
    <3>3. c.pc # "persist"
      BY <3>1 DEF Call
    <3> QED
      BY <1>1, <3>2, <3>3
  <2>3. CASE Behind(p)
    <3>1. PICK c : c = Call("resync", call[p].doc, call[p].exp, published, call[p].up)
      OBVIOUS
    <3>2. call' = [call EXCEPT ![p] = c]
      BY <1>t, <2>3, <3>1, BehindEffect, Zenon
    <3>3. c.pc # "persist"
      BY <3>1 DEF Call
    <3> QED
      BY <1>1, <3>2, <3>3
  <2>4. CASE Mint(p)
    <3>1. PICK c : c = Call("push", Vault(Ident(minted + 1, minted + 2), call[p].doc.hosts),
                        call[p].exp, call[p].seen, call[p].up)
      OBVIOUS
    <3>2. call' = [call EXCEPT ![p] = c]
      BY <1>t, <2>4, <3>1, MintEffect, Zenon
    <3>3. c.pc # "persist"
      BY <3>1 DEF Call
    <3> QED
      BY <1>1, <3>2, <3>3
  <2>5. CASE Refetch(p)
    <3>1. PICK c : c = Call("repush", Vault(call[p].doc.ident, row.doc.hosts), row.ver,
                        call[p].seen, call[p].up)
      OBVIOUS
    <3>2. call' = [call EXCEPT ![p] = c]
      BY <1>t, <2>5, <3>1, RefetchEffect, Zenon
    <3>3. c.pc # "persist"
      BY <3>1 DEF Call
    <3> QED
      BY <1>1, <3>2, <3>3
  <2> QED
    BY <1>6, <2>1, <2>2, <2>3, <2>4, <2>5
<1>7. ASSUME NEW p \in Phone, Pushed(p) PROVE call'[q] = call[q] \/ Pushed(q)
  BY <1>7, <1>t, PushedEffect
<1> QED
  BY <1>3, <1>5, <1>6, <1>7, CallSteps, Zenon

\* Between an upload and the writing of it to the phone nothing is edited there.
LEMMA PersistStep ==
  ASSUME "edit" \notin Overlap, "diverge" \notin Overlap,
         TypeOK, Versions, HostsHeld, [Next]_vars, NEW q \in Phone, call'[q].pc = "persist"
  PROVE  Unsynced(q)' = {}
<1>t. CallTyped /\ DocsTyped /\ RestTyped
  BY TypedParts
<1>1. CASE call'[q] = call[q]
  <2>1. Unsynced(q) = {}
    BY <1>1 DEF HostsHeld
  <2>2. ASSUME NEW h \in Host, Adds(q, h) PROVE FALSE
    BY <1>1, <2>2 DEF Adds, MayEdit, Idle
  <2> QED
    BY <2>1, <2>2, UnsyncedStep
<1>2. CASE Pushed(q)
  BY <1>2, UploadsAlone DEF Pushed, Unsynced, phone
<1> QED
  BY <1>1, <1>2, <1>t, ComesToPersist

\* No step loses a host: who overwrites the row has what is in it.
LEMMA MadeStep ==
  ASSUME "edit" \notin Overlap, "diverge" \notin Overlap,
         TypeOK, Versions, HostsHeld, [Next]_vars, NEW h \in made'
  PROVE  h \in row'.doc.hosts \/ \E p \in Phone : h \in Unsynced(p)'
<1>t. /\ DocsTyped /\ local \in [Phone -> Doc] /\ base \in [Phone -> Doc]
      /\ ver \in [Phone -> Nat] /\ row.ver \in Nat
  BY TypedParts DEF DocsTyped
<1>v. \A p \in Phone : Agreed(p) /\ Snap(call[p], row.ver, row.doc)
  BY DEF Versions
<1>h. h \in made => h \in row.doc.hosts \/ \E p \in Phone : h \in Unsynced(p)
  BY DEF HostsHeld
<1>1. CASE DocsSame
  BY <1>1, <1>h DEF DocsSame, phone, Unsynced
<1>2. ASSUME NEW p \in Phone, Sends(p)
      PROVE  h \in row'.doc.hosts \/ \E q \in Phone : h \in Unsynced(q)'
  <2>1. row'.doc = local[p] /\ h \in made /\ \A q \in Phone \ {p} : Unsynced(q)' = Unsynced(q)
    BY <1>2, <1>t DEF Sends, Accepts, Agree, Unsynced
  <2>2. h \in row.doc.hosts => h \in local[p].hosts
    <3>1. CASE Moved(p)
      BY <1>2, <3>1 DEF Sends
    <3>2. CASE ~Moved(p)
      <4>1. Agreed(p) /\ ver[p] \in Nat
        BY <1>t, <1>v
      <4> QED
        BY <1>t, <3>2, <4>1 DEF Moved, Agreed
    <3> QED
      BY <3>1, <3>2
  <2> QED
    BY <1>h, <2>1, <2>2 DEF Unsynced
<1>3. ASSUME NEW p \in Phone, Takes(p)
      PROVE  h \in row'.doc.hosts \/ \E q \in Phone : h \in Unsynced(q)'
  <2>1. row' = row /\ h \in made /\ \A q \in Phone \ {p} : Unsynced(q)' = Unsynced(q)
    BY <1>3, <1>t DEF Takes, Agree, Unsynced
  <2>2. h \in Unsynced(p) => h \in row.doc.hosts
    BY <1>3, <2>1 DEF Takes, Changed, Unsynced
  <2> QED
    BY <1>h, <2>1, <2>2
<1>4. ASSUME NEW p \in Phone, Confirms(p)
      PROVE  h \in row'.doc.hosts \/ \E q \in Phone : h \in Unsynced(q)'
  <2>1. row' = row /\ h \in made /\ \A q \in Phone \ {p} : Unsynced(q)' = Unsynced(q)
    BY <1>4, <1>t DEF Confirms, Agree, Unsynced
  <2>2. h \in Unsynced(p) => h \in row.doc.hosts
    BY <1>4 DEF Confirms, Unsynced
  <2> QED
    BY <1>h, <2>1, <2>2
<1>5. ASSUME NEW p \in Phone, Uploads(p)
      PROVE  h \in row'.doc.hosts \/ \E q \in Phone : h \in Unsynced(q)'
  <2>1. h \in made /\ \A q \in Phone : Unsynced(q) = {}
    BY <1>5, UploadsAlone DEF Uploads
  <2>2. row.doc.hosts \subseteq call[p].doc.hosts /\ row'.doc = call[p].doc
    BY <1>5, <1>v DEF Uploads, Accepts, Snap
  <2> QED
    BY <1>h, <2>1, <2>2
<1>6. ASSUME NEW p \in Phone, Persists(p)
      PROVE  h \in row'.doc.hosts \/ \E q \in Phone : h \in Unsynced(q)'
  <2>1. row' = row /\ h \in made /\ \A q \in Phone \ {p} : Unsynced(q)' = Unsynced(q)
    BY <1>6, <1>t DEF Persists, Agree, Unsynced
  <2>2. Unsynced(p) = {}
    BY <1>6 DEF Persists, HostsHeld
  <2> QED
    BY <1>h, <2>1, <2>2
<1>7. ASSUME NEW p \in Phone, Restarts(p)
      PROVE  h \in row'.doc.hosts \/ \E q \in Phone : h \in Unsynced(q)'
  BY <1>7, <1>h DEF Restarts, Unsynced
<1>8. ASSUME NEW p \in Phone, NEW g \in Host, Adds(p, g)
      PROVE  h \in row'.doc.hosts \/ \E q \in Phone : h \in Unsynced(q)'
  <2>1. row' = row /\ (h \in made \/ h = g) /\ \A q \in Phone : Unsynced(q) \subseteq Unsynced(q)'
    BY <1>8, <1>t DEF Adds, Unsynced, Vault
  <2>2. g \in Unsynced(p)'
    BY <1>8, <1>t, <1>v DEF Adds, Unsynced, Vault, Agreed
  <2> QED
    BY <1>h, <2>1, <2>2
<1> QED
  BY <1>1, <1>2, <1>3, <1>4, <1>5, <1>6, <1>7, <1>8, <1>t, DocSteps

\* A host that was added stays at the server or on a phone until its user gives it up, as
\* long as nobody edits the vault of a phone while it uploads an identity, and no phone has
\* changes of its own then.  (pushIdentity; persistIdentity.)
THEOREM HostsStay ==
  ASSUME "edit" \notin Overlap, "diverge" \notin Overlap
  PROVE  Spec => []HostsKept
<1>1. Init => HostsHeld
  BY InitForm DEF HostsHeld, Idle
<1>2. HostsHeld /\ TypeOK /\ Versions /\ [Next]_vars => HostsHeld'
  BY MadeStep, PersistStep DEF HostsHeld
<1>3. HostsHeld => HostsKept
  BY DEF HostsHeld, HostsKept, Unsynced
<1> QED
  BY <1>1, <1>2, <1>3, VersionsAlways, PTL DEF Spec

-----------------------------------------------------------------------------
(* The identity itself. *)

\* The ways a bootstrap ends.
Ends(p) ==
  \/ SessionGone(p) \/ Compared(p) \/ Resync(p) \/ RepushRefused(p) \/ Publish(p)
  \/ Fail(p) \/ Kill(p)
  \/ Pushed(p) /\ call[p].pc \in {"push", "repush"} /\ ("upgrade" \in Overlap \/ ~call[p].up)

\* What step of bootstrap p leaves it at c.
Forms(p, c) ==
  LET d == call[p].doc  n == call[p].exp  s == call[p].seen  u == call[p].up IN
  \/ Ends(p)        /\ c = Idle
  \/ Begin(p)       /\ c = Call("sync", NoDoc, 0, NoIdent, FALSE)
  \/ Ask(p)         /\ c = Call("asked", local'[p], shown'[p], NoIdent, FALSE)
  \/ Unpublished(p) /\ c = Call("publish", d, n, s, u)
  \/ Upgrade(p)     /\ c = Call("push", Vault(Ident(d.ident.key, minted'), d.hosts), n, s, TRUE)
  \/ Behind(p)      /\ c = Call("resync", d, n, published, u)
  \/ Mint(p)        /\ c = Call("push", Vault(Ident(minted + 1, minted + 2), d.hosts), n, s, u)
  \/ PushRefused(p) /\ c = Call("refetch", d, n, s, u)
  \/ Refetch(p)     /\ c = Call("repush", Vault(d.ident, row.doc.hosts), row.ver, s, u)
  \/ (Push(p) \/ Repush(p)) /\ c = Call("persist", d, row.ver + 1, s, u)
  \/ Persist(p)     /\ c = Call("publish", d, n, s, u)

\* The steps that concern no bootstrap.
Leaves(p) ==
  Sync(p) \/ KeepLocal(p) \/ TakeRemote(p) \/ Republish(p) \/ \E h \in Host : AddHost(p, h)

\* Every step is one of these of one bootstrap, or concerns none.
LEMMA CallForms ==
  ASSUME TypeOK, Next
  PROVE  \/ UNCHANGED call /\ (Substitute \/ \E p \in Phone : Leaves(p))
         \/ \E p \in Phone : \E c : call' = [call EXCEPT ![p] = c] /\ Forms(p, c)
<1>t. /\ call \in [Phone -> Calls] /\ minted \in Nat /\ row.doc \in Doc
  BY TypedParts, MintedIsNat DEF DocsTyped, CallTyped, RestTyped
<1>0. CASE Substitute
  BY <1>0 DEF Substitute
<1>1. ASSUME NEW p \in Phone, Leaves(p) PROVE UNCHANGED call
  BY <1>1, Zenon DEF Leaves, Sync, KeepLocal, TakeRemote, Republish, AddHost
<1> DEFINE Done(p) == \E c : call' = [call EXCEPT ![p] = c] /\ Forms(p, c)
<1>2. ASSUME NEW p \in Phone, Stop(p), Ends(p) PROVE Done(p)
  BY <1>2, Zenon DEF Stop, Forms
<1>3. ASSUME NEW p \in Phone,
             SessionGone(p) \/ Compared(p) \/ Resync(p) \/ RepushRefused(p) \/ Publish(p)
             \/ Fail(p) \/ Kill(p)
      PROVE  Done(p)
  <2>1. Stop(p) /\ Ends(p)
    BY <1>3, Zenon DEF Ends, SessionGone, Compared, Resync, RepushRefused, Publish, Fail, Kill
  <2> QED
    BY <1>2, <2>1
<1>4. ASSUME NEW p \in Phone, Push(p) \/ Repush(p) PROVE Done(p)
  <2>1. Pushed(p) /\ call[p].pc \in {"push", "repush"}
    BY <1>4 DEF Push, Repush
  <2>2. CASE call' = [call EXCEPT ![p] = Idle] /\ ("upgrade" \in Overlap \/ ~call[p].up)
    BY <1>2, <2>1, <2>2, Zenon DEF Stop, Ends
  <2>3. CASE call' = [call EXCEPT ![p] = Call("persist", call[p].doc, row.ver + 1,
                                              call[p].seen, call[p].up)]
    BY <1>4, <2>3, Zenon DEF Forms
  <2> QED
    BY <1>t, <2>1, <2>2, <2>3, PushedEffect
<1>5. ASSUME NEW p \in Phone, Begin(p) PROVE Done(p)
  <2>1. Goto(p, "sync") /\ call[p] = Idle
    BY <1>5, Zenon DEF Begin
  <2>2. call' = [call EXCEPT ![p] = Call("sync", call[p].doc, call[p].exp, call[p].seen,
                                         call[p].up)]
    BY <1>t, <2>1, GotoEffect
  <2>3. Idle.doc = NoDoc /\ Idle.exp = 0 /\ Idle.seen = NoIdent /\ Idle.up = FALSE
    BY Zenon DEF Idle
  <2> QED
    BY <1>5, <2>1, <2>2, <2>3, Zenon DEF Forms
<1>6. ASSUME NEW p \in Phone, Unpublished(p) \/ PushRefused(p) \/ Persist(p) PROVE Done(p)
  <2>1. CASE Unpublished(p)
    BY <1>t, <2>1, GotoEffect, Zenon DEF Unpublished, Forms
  <2>2. CASE PushRefused(p)
    BY <1>t, <2>2, GotoEffect, Zenon DEF PushRefused, Forms
  <2>3. CASE Persist(p)
    BY <1>t, <2>3, GotoEffect, Zenon DEF Persist, Forms
  <2> QED
    BY <1>6, <2>1, <2>2, <2>3
<1>7. ASSUME NEW p \in Phone, Ask(p) \/ Upgrade(p) \/ Behind(p) \/ Mint(p) \/ Refetch(p)
      PROVE  Done(p)
  <2>1. CASE Ask(p)
    BY <1>t, <2>1, AskEffect, Zenon DEF Forms
  <2>2. CASE Upgrade(p)
    <3>1. AddSeed(p)
      BY <2>2, Zenon DEF Upgrade
    <3> QED
      BY <1>t, <2>2, <3>1, SeedEffect, Zenon DEF Forms
  <2>3. CASE Behind(p)
    BY <1>t, <2>3, BehindEffect, Zenon DEF Forms
  <2>4. CASE Mint(p)
    BY <1>t, <2>4, MintEffect, Zenon DEF Forms
  <2>5. CASE Refetch(p)
    BY <1>t, <2>5, RefetchEffect, Zenon DEF Forms
  <2> QED
    BY <1>7, <2>1, <2>2, <2>3, <2>4, <2>5
<1> HIDE DEF Done
<1>8. Substitute \/ \E p \in Phone : Leaves(p) \/ Done(p)
  BY <1>3, <1>4, <1>5, <1>6, <1>7, NextSplit, Zenon DEF Thinks, Leaves
<1> QED
  BY <1>0, <1>1, <1>8, Zenon DEF Done

Pushing == {"push", "refetch", "repush"}
Holding == {"persist", "publish"}

\* What bootstrap c knows of the identity i in the row, the published key b and the
\* secrets minted so far: one that mints does so for an account without a key; one that
\* upgrades finds the old form in the row, and published; what was uploaded still is in
\* the row.
Sound(c, i, b, m) ==
  /\ c.pc \in Pushing \cup Holding => c.doc.ident # NoIdent /\ (~c.up => b = NoIdent)
  /\ c.pc \in Pushing => /\ c.doc.ident.seed # None
                         /\ IF c.up THEN i = Ident(c.doc.ident.key, None) /\ b \in {i, ForeignKey}
                                    ELSE c.doc.ident.key # i.key
  /\ c.pc \in Pushing \cup Holding /\ c.up => b # NoIdent
  /\ c.pc \in Holding => c.doc.ident = i
  /\ c.pc = "resync" => b # NoIdent /\ (i = NoIdent \/ i.seed # None)
  /\ c.up => c.pc \in Pushing \cup Holding
  /\ c.doc.ident.key <= m

OneCall == \A p, q \in Phone : call[p] # Idle /\ call[q] # Idle => p = q
Ahead   == \A p \in Phone : Unsynced(p) # {} => local[p].ident = row.doc.ident
Warned  == \A p \in Phone : mismatch[p] => published # NoIdent

\* The published key is the one in the row, unless a bootstrap is about to publish the
\* upgrade it has uploaded.
Replaces(p) ==
  /\ call[p].up /\ call[p].pc \in Holding
  /\ published.key = row.doc.ident.key /\ published.seed = None
Held == published \in {NoIdent, ForeignKey, row.doc.ident} \/ \E p \in Phone : Replaces(p)

\* A phone is behind the row by an upgrade at most, unless it has another key, which is none
\* that is being minted; one without an identity knows that the old form never was all.
Known(p) ==
  LET i == local[p].ident IN
  /\ i.key <= minted
  /\ i.key = row.doc.ident.key => i.seed \in {None, row.doc.ident.seed}
  /\ i = NoIdent => row.doc.ident = NoIdent \/ row.doc.ident.seed # None
  /\ \A q \in Phone : call[q].pc \in Pushing /\ ~call[q].up => i.key # call[q].doc.ident.key

Settling ==
  /\ OneCall /\ Ahead /\ Warned /\ Held /\ row.doc.ident.key <= minted
  /\ \A p \in Phone : Known(p) /\ Sound(call[p], row.doc.ident, published, minted)

\* What the lemmas below have in common.
Stepping == TypeOK /\ Versions /\ Settling /\ Overlap \subseteq {"edit", "foreign"}

\* Identities are typed wherever they are.
LEMMA IdentIn ==
  ASSUME TypeOK
  PROVE  /\ row.doc.ident \in Keys /\ published \in Seen /\ minted \in Nat
         /\ \A p \in Phone : /\ local[p].ident \in Keys /\ call[p].doc.ident \in Keys
                             /\ call[p].up \in BOOLEAN /\ call[p].pc \in Pcs
<1>1. DocsTyped /\ CallTyped /\ RestTyped
  BY TypedParts
<1>2. minted \in Nat /\ published \in Seen
  BY <1>1, MintedIsNat DEF RestTyped
<1>3. row.doc.ident \in Keys
  BY <1>1, DocIs DEF DocsTyped
<1>4. ASSUME NEW p \in Phone
      PROVE  /\ local[p].ident \in Keys /\ call[p].doc.ident \in Keys
             /\ call[p].up \in BOOLEAN /\ call[p].pc \in Pcs
  BY <1>1, <1>4, CallIn, DocIn, DocIs
<1> QED
  BY <1>2, <1>3, <1>4

\* Identities are pairs of numbers, and the foreign key is none of them.
LEMMA KeyIs ==
  ASSUME NEW i \in Keys
  PROVE  /\ i = Ident(i.key, i.seed) /\ i.key \in Nat /\ i.seed \in Nat
         /\ i # ForeignKey /\ (i = NoIdent <=> i.key = 0)
BY ForeignIsOther, MintedIsNat DEF Keys, Identity, NoIdent, None, Ident, ForeignKey

\* No identity is a pair of zeros, none has the foreign key, and pairs are told by their parts.
LEMMA IdentsAre ==
  /\ NoIdent = Ident(None, None) /\ NoIdent # ForeignKey /\ None = 0
  /\ \A k, s : Ident(k, s).key = k /\ Ident(k, s).seed = s
BY ForeignIsOther DEF NoIdent, Ident, ForeignKey, None

\* Only an upload changes the identity in the row; a phone's changes to that in the row.
Steady ==
  /\ row'.doc.ident = row.doc.ident
  /\ \A q \in Phone : local'[q].ident \in {local[q].ident, row.doc.ident}

\* A phone whose document differs from the one agreed on has a host to send.
LEMMA ChangedIsUnsynced ==
  ASSUME TypeOK, NEW p \in Phone, Agreed(p), Changed(p)
  PROVE  Unsynced(p) # {}
<1>1. local[p] \in Doc /\ base[p] \in Doc
  BY TypedParts, DocIn
<1>2. /\ local[p] = Vault(local[p].ident, local[p].hosts)
      /\ base[p] = Vault(base[p].ident, base[p].hosts)
  BY <1>1, DocIs
<1>3. local[p].hosts # base[p].hosts
  BY <1>2, Zenon DEF Agreed, Changed
<1> QED
  BY <1>3 DEF Agreed, Unsynced

\* The steps of the documents are steady, uploads apart.
LEMMA SteadyForms ==
  ASSUME Stepping, NEW p \in Phone,
         \/ Syncs(p) \/ Sends(p) \/ Takes(p) \/ Persists(p) \/ Restarts(p)
         \/ \E h \in Host : Adds(p, h)
  PROVE  Steady
<1>t. local \in [Phone -> Doc] /\ base \in [Phone -> Doc]
  BY TypedParts DEF Stepping, DocsTyped
<1>v. Agreed(p) /\ Ahead /\ Sound(call[p], row.doc.ident, published, minted)
  BY DEF Stepping, Versions, Settling
<1>1. CASE Sends(p)
  <2>1. local[p].ident = row.doc.ident
    BY <1>1, <1>v, ChangedIsUnsynced DEF Stepping, Sends, Ahead
  <2> QED
    BY <1>1, <2>1 DEF Sends, Accepts, Steady
<1>2. CASE Takes(p)
  BY <1>2, <1>t DEF Takes, Steady
<1>3. CASE Confirms(p) \/ DocsSame \/ Restarts(p)
  BY <1>3 DEF Confirms, DocsSame, Restarts, Steady, phone
<1>4. CASE Persists(p)
  <2>1. call[p].doc.ident = row.doc.ident
    BY <1>4, <1>v DEF Persists, Sound, Holding
  <2> QED
    BY <1>4, <1>t, <2>1 DEF Persists, Steady
<1>5. ASSUME NEW h \in Host, Adds(p, h) PROVE Steady
  BY <1>5, <1>t DEF Adds, Steady, Vault
<1> QED
  BY <1>1, <1>2, <1>3, <1>4, <1>5 DEF Syncs

\* So are the steps of the program.
LEMMA SteadyStep ==
  ASSUME Stepping, NEW p \in Phone,
         \/ Leaves(p) \/ Ask(p) \/ Resync(p) \/ Persist(p) \/ Thinks(p) \/ Kill(p) \/ Substitute
  PROVE  Steady
<1>t. local \in [Phone -> Doc]
  BY TypedParts DEF Stepping, DocsTyped
<1>1. CASE Leaves(p) /\ ~Republish(p)
  BY <1>1, <1>t, SyncSyncs, SettleSyncs, AddAdds, SteadyForms, Zenon DEF Leaves
<1>2. CASE Ask(p) \/ Resync(p)
  BY <1>2, SyncSyncs, SteadyForms, Zenon
<1>3. CASE Persist(p) \/ Kill(p)
  BY <1>3, PersistPersists, KillRestarts, SteadyForms, Zenon
<1>4. CASE Thinks(p) \/ Substitute \/ Republish(p)
  BY <1>4, ThinksSame, SteadyForms, Zenon DEF Syncs, Thinks
<1> QED
  BY <1>1, <1>2, <1>3, <1>4

\* A step from one actor: who else is about rests.
LEMMA FormsBusy ==
  ASSUME NEW p \in Phone, NEW c, Forms(p, c), c # Idle, ~Begin(p)
  PROVE  call[p] # Idle
<1>1. CASE Ask(p)
  <2>1. call[p].pc = "sync"
    BY <1>1, Zenon DEF Ask
  <2> QED
    BY <2>1 DEF Idle
<1>2. CASE Unpublished(p) \/ Upgrade(p) \/ Behind(p) \/ Mint(p)
  <2>1. call[p].pc = "asked"
    BY <1>2, Zenon DEF Unpublished, Upgrade, Behind, Mint, Answered
  <2> QED
    BY <2>1 DEF Idle
<1>3. CASE PushRefused(p) \/ Refetch(p) \/ Push(p) \/ Repush(p) \/ Persist(p)
  <2>1. call[p].pc \in {"push", "refetch", "repush", "persist"}
    BY <1>3, Zenon DEF PushRefused, Refetch, Push, Repush, Persist
  <2> QED
    BY <2>1 DEF Idle
<1> QED
  BY <1>1, <1>2, <1>3, Zenon DEF Forms

\* While a phone's bootstrap takes a step, no other is under way.
LEMMA Alone ==
  ASSUME Stepping, NEW p \in Phone, NEW c, Forms(p, c), c # Idle
  PROVE  \A q \in Phone \ {p} : call[q] = Idle
<1>1. CASE Begin(p)
  BY <1>1, Zenon DEF Begin, Stepping
<1>2. CASE ~Begin(p)
  BY <1>2, FormsBusy DEF Stepping, Settling, OneCall
<1> QED
  BY <1>1, <1>2

\* Another bootstrap begins when all others are over.
LEMMA OneCallStep ==
  ASSUME Stepping, Next
  PROVE  OneCall'
<1>t. call \in [Phone -> Calls] /\ OneCall
  BY TypedParts DEF Stepping, CallTyped, Settling
<1>1. CASE UNCHANGED call
  BY <1>t, <1>1 DEF OneCall
<1>2. ASSUME NEW p \in Phone, NEW c, call' = [call EXCEPT ![p] = c], Forms(p, c) PROVE OneCall'
  <2>1. CASE c = Idle
    BY <1>t, <1>2, <2>1 DEF OneCall
  <2>2. CASE c # Idle
    BY <1>t, <1>2, <2>2, Alone DEF OneCall
  <2> QED
    BY <2>1, <2>2
<1> QED
  BY <1>1, <1>2, CallForms DEF Stepping

\* A phone with hosts to send keeps the identity of the row.
LEMMA AheadStep ==
  ASSUME Stepping, [Next]_vars
  PROVE  Ahead'
<1>t. local \in [Phone -> Doc]
  BY TypedParts DEF Stepping, DocsTyped
<1> SUFFICES ASSUME NEW q \in Phone, Unsynced(q)' # {}
             PROVE  local'[q].ident = row'.doc.ident
  BY DEF Ahead
<1>1. ASSUME NEW p \in Phone, Uploads(p) PROVE FALSE
  <2>1. Unsynced(q) = {}
    BY <1>1, UploadsAlone DEF Uploads, Stepping
  <2> QED
    BY <1>1, <2>1 DEF Uploads, phone, Unsynced
<1>2. CASE Steady
  <2>1. CASE Unsynced(q)' \subseteq Unsynced(q)
    BY <1>2, <2>1 DEF Stepping, Settling, Ahead, Steady
  <2>2. ASSUME NEW h \in Host, Adds(q, h) PROVE local[q].ident = row.doc.ident
    BY <2>2 DEF Adds, Stepping
  <2> QED
    BY <1>2, <2>1, <2>2, UnsyncedStep DEF Stepping, Steady
<1>3. Steady \/ \E p \in Phone : Uploads(p)
  BY <1>t, DocSteps, SteadyForms, Zenon DEF Syncs, DocsSame, Steady, phone
<1> QED
  BY <1>1, <1>2, <1>3

\* What is published stays published, under this key or another.
LEMMA PublishedStays ==
  ASSUME Stepping, [Next]_vars, published # NoIdent
  PROVE  published' # NoIdent
<1>1. ASSUME NEW p \in Phone, Publish(p) PROVE published' # NoIdent
  <2>1. call[p].doc.ident # NoIdent
    BY <1>1 DEF Publish, Stepping, Settling, Sound, Holding
  <2> QED
    BY <1>1, <2>1 DEF Publish
<1>2. ASSUME NEW p \in Phone, Republish(p) PROVE published' # NoIdent
  BY <1>2 DEF Republish
<1>3. CASE Substitute
  BY <1>3, IdentsAre DEF Substitute
<1> QED
  BY <1>1, <1>2, <1>3, PublishSteps

\* Nobody is warned before a key is published.
LEMMA WarnedStep ==
  ASSUME Stepping, [Next]_vars
  PROVE  Warned'
<1>t. mismatch \in [Phone -> BOOLEAN] /\ Warned
  BY TypedParts DEF Stepping, RestTyped, Settling
<1> SUFFICES ASSUME NEW q \in Phone, mismatch'[q]
             PROVE  published # NoIdent
  BY PublishedStays DEF Warned
<1>1. ASSUME NEW p \in Phone, SetMismatch(p, FALSE) PROVE mismatch[q]
  BY <1>1, <1>t, Zenon DEF SetMismatch
<1>2. ASSUME NEW p \in Phone, Compared(p) PROVE published # NoIdent
  BY <1>2, Zenon DEF Compared
<1>3. ASSUME NEW p \in Phone, Resync(p) PROVE published # NoIdent
  BY <1>3 DEF Resync, Stepping, Settling, Sound
<1> QED
  BY <1>1, <1>2, <1>3, <1>t, WarnSteps, Zenon DEF Warned

\* The row takes over an identity that a bootstrap has made: a new one while none is
\* published, or the upgrade of the one that is.
LEMMA UploadMakes ==
  ASSUME Stepping, NEW p \in Phone, Push(p) \/ Repush(p)
  PROVE  LET d == call[p].doc IN
         /\ row'.doc = d /\ UNCHANGED <<local, published, minted>>
         /\ d.ident # NoIdent /\ d.ident.seed # None /\ d.ident.key <= minted
         /\ \/ /\ ~call[p].up /\ published = NoIdent
               /\ \A q \in Phone : local[q].ident.key # d.ident.key
            \/ /\ call[p].up /\ row.doc.ident = Ident(d.ident.key, None)
               /\ published \in {row.doc.ident, ForeignKey} /\ published # NoIdent
<1>0. /\ call[p].pc = "push" \/ call[p].pc = "repush"
      /\ row' = [ver |-> call[p].exp + 1, doc |-> call[p].doc]
      /\ UNCHANGED <<local, published, minted>>
  BY Zenon DEF Push, Repush, Pushed, Accepts, phone
<1>1. call[p].pc \in Pushing /\ row'.doc = call[p].doc /\ UNCHANGED <<local, published, minted>>
  BY <1>0 DEF Pushing
<1>2. Sound(call[p], row.doc.ident, published, minted) /\ Held
  BY DEF Stepping, Settling
<1>3. call[p].up \in BOOLEAN /\ call[p].doc.ident \in Keys /\ row.doc.ident \in Keys
  BY IdentIn DEF Stepping
<1>4. CASE ~call[p].up
  <2>1. \A q \in Phone : local[q].ident.key # call[p].doc.ident.key
    BY <1>1, <1>4 DEF Stepping, Settling, Known
  <2> QED
    BY <1>1, <1>2, <1>4, <2>1 DEF Sound
<1>5. CASE call[p].up
  BY <1>1, <1>2, <1>5 DEF Sound
<1> QED
  BY <1>4, <1>5

\* Every step is steady, or an upload.
LEMMA SteadyOrUpload ==
  ASSUME Stepping, [Next]_vars
  PROVE  Steady \/ \E p \in Phone : Push(p) \/ Repush(p)
<1>1. CASE UNCHANGED vars
  BY <1>1 DEF vars, server, phone, Steady
<1>2. CASE Substitute
  <2>1. CASE Phone = {}
    BY <1>2, <2>1 DEF Substitute, Steady
  <2> QED
    BY <1>2, <2>1, SteadyStep
<1> QED
  BY <1>1, <1>2, NextSplit, SteadyStep, Zenon DEF Leaves

\* Secrets are numbered upwards.
LEMMA MintedGrows ==
  ASSUME TypeOK, [Next]_vars
  PROVE  minted' \in Nat /\ minted <= minted'
BY IdentIn, CountSteps

\* The row holds no key that has not been minted.
LEMMA RowStepsKey ==
  ASSUME Stepping, [Next]_vars
  PROVE  row'.doc.ident.key <= minted'
<1>1. minted' \in Nat /\ minted <= minted' /\ minted \in Nat /\ row.doc.ident.key \in Nat
  BY MintedGrows, IdentIn, KeyIs DEF Stepping
<1>2. CASE Steady
  BY <1>1, <1>2 DEF Steady, Stepping, Settling
<1>3. ASSUME NEW p \in Phone, Push(p) \/ Repush(p) PROVE row'.doc.ident.key <= minted'
  BY <1>3, UploadMakes
<1> QED
  BY <1>2, <1>3, SteadyOrUpload

\* Who mints afterwards did so before, or begins to with a key nobody has.
LEMMA MintsFresh ==
  ASSUME Stepping, [Next]_vars, NEW q \in Phone, call'[q].pc \in Pushing, ~call'[q].up
  PROVE  \/ call[q].pc \in Pushing /\ ~call[q].up /\ call'[q].doc.ident = call[q].doc.ident
         \/ call'[q].doc.ident.key > minted
<1>t. call \in [Phone -> Calls] /\ minted \in Nat /\ \A p \in Phone : call[p].up \in BOOLEAN
  BY TypedParts, IdentIn DEF Stepping, CallTyped
<1>1. CASE UNCHANGED call
  BY <1>1
<1>2. ASSUME NEW p \in Phone, NEW c, call' = [call EXCEPT ![p] = c], Forms(p, c), p # q
      PROVE  call'[q] = call[q]
  BY <1>2, <1>t
<1>3. ASSUME NEW c, call' = [call EXCEPT ![q] = c], Forms(q, c)
      PROVE  \/ call[q].pc \in Pushing /\ ~call[q].up /\ c.doc.ident = call[q].doc.ident
             \/ c.doc.ident.key > minted
  <2>0. c.pc \in Pushing /\ ~c.up
    BY <1>t, <1>3
  <2>1. CASE c = Idle
    BY <2>0, <2>1 DEF Idle, Pushing
  <2>2. CASE Mint(q) /\ c = Call("push", Vault(Ident(minted + 1, minted + 2), call[q].doc.hosts),
                                 call[q].exp, call[q].seen, call[q].up)
    BY <1>t, <2>2 DEF Call, Vault, Ident
  <2>3. CASE /\ PushRefused(q)
             /\ c = Call("refetch", call[q].doc, call[q].exp, call[q].seen, call[q].up)
    <3>1. call[q].pc \in Pushing
      BY <2>3, Zenon DEF PushRefused, Pushing
    <3> QED
      BY <2>0, <2>3, <3>1 DEF Call
  <2>4. CASE /\ Refetch(q)
             /\ c = Call("repush", Vault(call[q].doc.ident, row.doc.hosts), row.ver,
                         call[q].seen, call[q].up)
    <3>1. call[q].pc \in Pushing
      BY <2>4, Zenon DEF Refetch, Pushing
    <3> QED
      BY <2>0, <2>4, <3>1 DEF Call, Vault
  <2>5. ASSUME NEW a, NEW d, NEW n, NEW s, NEW u, c = Call(a, d, n, s, u)
        PROVE  a \in Pushing /\ u # TRUE
    BY <2>0, <2>5 DEF Call
  <2>6. "sync" \notin Pushing /\ "asked" \notin Pushing /\ "publish" \notin Pushing
        /\ "resync" \notin Pushing /\ "persist" \notin Pushing
    BY DEF Pushing
  <2> QED
    BY <1>3, <2>1, <2>2, <2>3, <2>4, <2>5, <2>6, Zenon DEF Forms
<1>4. CASE UNCHANGED vars
  BY <1>4 DEF vars
<1> QED
  BY <1>1, <1>2, <1>3, <1>4, <1>t, CallForms DEF Stepping

\* Every step keeps what a phone may still have instead of the identity in the row.
LEMMA KnownStep ==
  ASSUME Stepping, [Next]_vars, NEW q \in Phone
  PROVE  Known(q)'
<1>m. minted' \in Nat /\ minted <= minted' /\ minted \in Nat
  BY MintedGrows, IdentIn DEF Stepping
<1>k. /\ \A p \in Phone : Known(p) /\ Sound(call[p], row.doc.ident, published, minted)
      /\ row.doc.ident.key <= minted
      /\ row.doc.ident \in Keys /\ row.doc.ident.key \in Nat
      /\ \A p \in Phone : local[p].ident \in Keys /\ local[p].ident.key \in Nat
                          /\ call[p].doc.ident.key \in Nat
  BY IdentIn, KeyIs DEF Stepping, Settling
<1>1. local'[q].ident.key <= minted' /\ local'[q].ident.key <= minted
  BY <1>m, <1>k, SteadyOrUpload, UploadMakes DEF Known, Steady
<1>2. ASSUME local'[q].ident.key = row'.doc.ident.key
      PROVE  local'[q].ident.seed \in {None, row'.doc.ident.seed}
  <2>1. CASE Steady
    BY <1>2, <1>k, <2>1 DEF Steady, Known
  <2>2. ASSUME NEW p \in Phone, Push(p) \/ Repush(p)
        PROVE  local'[q].ident.seed \in {None, row'.doc.ident.seed}
    BY <1>2, <1>k, <2>2, UploadMakes, IdentsAre DEF Known
  <2> QED
    BY <2>1, <2>2, SteadyOrUpload
<1>3. ASSUME local'[q].ident = NoIdent
      PROVE  row'.doc.ident = NoIdent \/ row'.doc.ident.seed # None
  <2>1. CASE Steady
    BY <1>3, <1>k, <2>1 DEF Steady, Known
  <2>2. ASSUME NEW p \in Phone, Push(p) \/ Repush(p) PROVE row'.doc.ident.seed # None
    BY <2>2, UploadMakes
  <2> QED
    BY <2>1, <2>2, SteadyOrUpload
<1>4. ASSUME NEW r \in Phone, call'[r].pc \in Pushing, ~call'[r].up
      PROVE  local'[q].ident.key # call'[r].doc.ident.key
  <2>1. CASE call'[r].doc.ident.key > minted
    BY <1>m, <1>k, <1>1, <2>1, SteadyOrUpload, UploadMakes DEF Steady
  <2>2. CASE call[r].pc \in Pushing /\ ~call[r].up /\ call'[r].doc.ident = call[r].doc.ident
    <3>1. call[r].doc.ident.key # row.doc.ident.key /\ call[r].doc.ident.key # local[q].ident.key
      BY <1>k, <2>2 DEF Known, Sound
    <3> QED
      BY <2>2, <3>1, SteadyOrUpload, UploadMakes DEF Steady
  <2> QED
    BY <1>4, <2>1, <2>2, MintsFresh
<1> QED
  BY <1>1, <1>2, <1>3, <1>4 DEF Known

-----------------------------------------------------------------------------
\* What a bootstrap that rests knows is nothing; and what one knows lasts.
LEMMA SoundIdle ==
  ASSUME NEW i, NEW b, NEW m \in Nat
  PROVE  Sound(Idle, i, b, m)
BY DEF Sound, Idle, Pushing, Holding, NoDoc, NoIdent, None

\* Later mints change nothing about what a bootstrap knows.
LEMMA SoundLasts ==
  ASSUME NEW c, NEW i, NEW b, NEW m \in Nat, NEW n \in Nat, m <= n,
         c.doc.ident.key \in Nat, Sound(c, i, b, m)
  PROVE  Sound(c, i, b, n)
BY DEF Sound

\* A phone whose step this is has a bootstrap under way, is killed, or begins one.
LEMMA EndsBusy ==
  ASSUME NEW p \in Phone, Ends(p), ~Kill(p)
  PROVE  call[p] # Idle
<1>1. call[p].pc \in {"asked", "resync", "repush", "publish", "push", "refetch"}
  BY Zenon DEF Ends, SessionGone, Compared, Answered, Resync, RepushRefused, Publish, Fail
<1> QED
  BY <1>1 DEF Idle

\* What another phone's bootstrap knows is not touched by a step of this one's.
LEMMA SoundOthers ==
  ASSUME Stepping, [Next]_vars, NEW p \in Phone, NEW c, Forms(p, c), NEW q \in Phone \ {p}
  PROVE  Sound(call[q], row'.doc.ident, published', minted')
<1>m. minted' \in Nat /\ minted <= minted' /\ minted \in Nat
  BY MintedGrows, IdentIn DEF Stepping
<1>1. CASE call[q] = Idle
  BY <1>m, <1>1, SoundIdle
<1>2. CASE call[q] # Idle
  <2>0. c = Idle
    BY <1>2, Alone
  <2>c. \A a, d, n, s, u : a # "idle" => Call(a, d, n, s, u) # Idle
    BY DEF Call, Idle
  <2>p. /\ "sync" # "idle" /\ "asked" # "idle" /\ "publish" # "idle" /\ "resync" # "idle"
        /\ "push" # "idle" /\ "persist" # "idle" /\ "refetch" # "idle" /\ "repush" # "idle"
    OBVIOUS
  <2>1. Ends(p)
    BY <2>0, <2>c, <2>p, Zenon DEF Forms
  <2>2. Kill(p)
    BY <1>2, <2>1, EndsBusy DEF Stepping, Settling, OneCall
  <2>3. UNCHANGED <<row, published, minted>>
    BY <2>2, Zenon DEF Kill, server
  <2> QED
    BY <2>3 DEF Stepping, Settling
<1> QED
  BY <1>1, <1>2

\* A step that concerns no bootstrap leaves what they know.
LEMMA SoundLeaves ==
  ASSUME Stepping, Next, UNCHANGED call, Substitute \/ \E p \in Phone : Leaves(p), NEW q \in Phone
  PROVE  Sound(call'[q], row'.doc.ident, published', minted')
<1>m. minted' \in Nat /\ minted <= minted' /\ minted \in Nat /\ call[q].doc.ident.key \in Nat
  BY MintedGrows, IdentIn, KeyIs DEF Stepping
<1>s. Sound(call[q], row.doc.ident, published, minted)
  BY DEF Stepping, Settling
<1>1. CASE Substitute
  <2>1. published # NoIdent /\ published' = ForeignKey /\ UNCHANGED <<row, minted>>
    BY <1>1, Zenon DEF Substitute
  <2> QED
    BY <1>s, <2>1, IdentsAre DEF Stepping, Sound
<1>2. ASSUME NEW p \in Phone, Leaves(p), ~Republish(p)
      PROVE  Sound(call'[q], row'.doc.ident, published', minted')
  <2>1. UNCHANGED published
    BY <1>2, Zenon DEF Leaves, Sync, KeepLocal, TakeRemote, AddHost, server
  <2>2. row'.doc.ident = row.doc.ident
    BY <1>2, SteadyStep DEF Steady
  <2> QED
    BY <1>m, <1>s, <2>1, <2>2, SoundLasts
<1>3. ASSUME NEW p \in Phone, Republish(p)
      PROVE  Sound(call'[q], row'.doc.ident, published', minted')
  <2>1. /\ row' = row /\ published' = local[p].ident /\ local[p].ident = row.doc.ident
        /\ published # NoIdent /\ local[p].ident # NoIdent
    BY <1>3 DEF Republish, MayPublish, Stepping, Settling, Warned
  <2>2. Sound(call[q], row.doc.ident, published', minted)
    BY <1>s, <2>1 DEF Sound
  <2> QED
    BY <1>m, <2>1, <2>2, SoundLasts
<1> QED
  BY <1>1, <1>2, <1>3

\* What a bootstrap knows after its own step.
LEMMA SoundOwn ==
  ASSUME Stepping, [Next]_vars, NEW p \in Phone, NEW c, Forms(p, c)
  PROVE  Sound(c, row'.doc.ident, published', minted')
<1>m. minted' \in Nat /\ minted <= minted' /\ minted \in Nat
  BY MintedGrows, IdentIn DEF Stepping
<1>s. Sound(call[p], row.doc.ident, published, minted) /\ Known(p)
  BY DEF Stepping, Settling
<1>k. /\ local[p].ident \in Keys /\ call[p].doc.ident \in Keys /\ row.doc.ident \in Keys
      /\ local[p].ident.key \in Nat /\ call[p].doc.ident.key \in Nat /\ row.doc.ident.key \in Nat
      /\ row.doc.ident.key <= minted /\ call[p].up \in BOOLEAN
  BY IdentIn, KeyIs DEF Stepping, Settling
<1>0. CASE c = Idle
  BY <1>m, <1>0, SoundIdle
<1>1. CASE Begin(p) /\ c = Call("sync", NoDoc, 0, NoIdent, FALSE)
  BY <1>m, <1>1 DEF Sound, Call, NoDoc, NoIdent, None, Pushing, Holding
<1>2. CASE Ask(p) /\ c = Call("asked", local'[p], shown'[p], NoIdent, FALSE)
  <2>1. local'[p].ident.key <= minted'
    BY KnownStep DEF Known
  <2> QED
    BY <1>2, <2>1 DEF Sound, Call, Pushing, Holding
<1>a. Answered(p) => /\ call[p].doc = local[p]
                     /\ call[p].pc = "asked" /\ ~call[p].up
  BY <1>s DEF Answered, Sound, Pushing, Holding
<1>3. CASE /\ Unpublished(p)
           /\ c = Call("publish", call[p].doc, call[p].exp, call[p].seen, call[p].up)
  <2>1. Answered(p) /\ local[p].ident # NoIdent /\ published = NoIdent /\ MayPublish(p)
        /\ UNCHANGED <<row, published, minted>>
    BY <1>3, Zenon DEF Unpublished, server
  <2>2. local[p].ident = row.doc.ident
    BY <2>1 DEF MayPublish, Stepping
  <2> QED
    BY <1>3, <1>a, <1>k, <2>1, <2>2 DEF Sound, Call, Pushing, Holding
<1>4. CASE /\ Upgrade(p)
           /\ c = Call("push", Vault(Ident(call[p].doc.ident.key, minted'), call[p].doc.hosts),
                       call[p].exp, call[p].seen, TRUE)
  <2>1. /\ Answered(p) /\ published = local[p].ident /\ local[p].ident # NoIdent
        /\ local[p].ident.seed = None /\ UNCHANGED <<row, published>> /\ minted' = minted + 1
    BY <1>4, Zenon DEF Upgrade, AddSeed, server
  <2>2. published = Ident(call[p].doc.ident.key, None)
    BY <1>a, <1>k, <2>1, KeyIs
  <2>3. /\ c.pc = "push" /\ c.up /\ c.doc.ident = Ident(call[p].doc.ident.key, minted')
        /\ c.doc.ident.key = call[p].doc.ident.key /\ c.doc.ident.seed = minted'
    BY <1>4 DEF Call, Vault, Ident
  <2>4. c.doc.ident # NoIdent /\ c.doc.ident.seed # None /\ c.doc.ident.key <= minted'
    BY <1>m, <1>s, <1>k, <2>1, <2>3, IdentsAre DEF Sound
  <2>5. ASSUME NEW q \in Phone, Replaces(q) PROVE FALSE
    <3>1. call[p].pc = "asked" /\ call[q].pc # "asked" /\ call[q].pc # "idle"
      BY <2>1, <2>5 DEF Answered, Replaces, Holding
    <3> QED
      BY <3>1 DEF Stepping, Settling, OneCall, Idle
  <2>6. published = row.doc.ident
    BY <1>k, <2>1, <2>5, KeyIs DEF Stepping, Settling, Held
  <2> QED
    BY <2>1, <2>2, <2>3, <2>4, <2>6 DEF Sound, Pushing, Holding
<1>5. CASE Behind(p) /\ c = Call("resync", call[p].doc, call[p].exp, published, call[p].up)
  <2>1. Answered(p) /\ local[p].ident = NoIdent /\ published # NoIdent
        /\ UNCHANGED <<row, published, minted>>
    BY <1>5, Zenon DEF Behind, server
  <2> QED
    BY <1>5, <1>a, <1>s, <2>1 DEF Sound, Known, Call, Pushing, Holding
<1>6. CASE /\ Mint(p)
           /\ c = Call("push", Vault(Ident(minted + 1, minted + 2), call[p].doc.hosts),
                       call[p].exp, call[p].seen, call[p].up)
  <2>1. Answered(p) /\ published = NoIdent /\ UNCHANGED <<row, published>> /\ minted' = minted + 2
    BY <1>6, Zenon DEF Mint, server
  <2>2. /\ c.pc = "push" /\ ~c.up /\ c.doc.ident.key = minted + 1
        /\ c.doc.ident.seed = minted + 2
    BY <1>6, <1>a, <2>1 DEF Call, Vault, Ident
  <2>3. c.doc.ident # NoIdent /\ c.doc.ident.seed # None /\ c.doc.ident.key # row.doc.ident.key
    BY <1>m, <1>k, <2>2, IdentsAre
  <2> QED
    BY <1>m, <2>1, <2>2, <2>3 DEF Sound, Pushing, Holding
<1>7. CASE /\ PushRefused(p)
           /\ c = Call("refetch", call[p].doc, call[p].exp, call[p].seen, call[p].up)
  <2>1. call[p].pc = "push" /\ UNCHANGED <<row, published, minted>>
    BY <1>7, Zenon DEF PushRefused, server
  <2> QED
    BY <1>7, <1>s, <2>1 DEF Sound, Call, Pushing, Holding
<1>8. CASE /\ Refetch(p)
           /\ c = Call("repush", Vault(call[p].doc.ident, row.doc.hosts), row.ver,
                       call[p].seen, call[p].up)
  <2>1. call[p].pc = "refetch" /\ UNCHANGED <<row, published, minted>>
    BY <1>8, Zenon DEF Refetch, server
  <2> QED
    BY <1>8, <1>s, <2>1 DEF Sound, Call, Vault, Pushing, Holding
<1>9. CASE /\ Push(p) \/ Repush(p)
           /\ c = Call("persist", call[p].doc, row.ver + 1, call[p].seen, call[p].up)
  <2>1. /\ row'.doc = call[p].doc /\ UNCHANGED <<published, minted>>
        /\ call[p].doc.ident # NoIdent /\ call[p].doc.ident.key <= minted
        /\ call[p].up <=> published # NoIdent
    BY <1>9, <1>k, UploadMakes
  <2> QED
    BY <1>9, <2>1 DEF Sound, Call, Pushing, Holding
<1>10. CASE /\ Persist(p)
            /\ c = Call("publish", call[p].doc, call[p].exp, call[p].seen, call[p].up)
  <2>1. call[p].pc = "persist" /\ UNCHANGED <<row, published, minted>>
    BY <1>10, Zenon DEF Persist, server
  <2> QED
    BY <1>10, <1>s, <2>1 DEF Sound, Call, Pushing, Holding
<1> QED
  BY <1>0, <1>1, <1>2, <1>3, <1>4, <1>5, <1>6, <1>7, <1>8, <1>9, <1>10, Zenon DEF Forms

\* Every step keeps what bootstraps know.
LEMMA SoundStep ==
  ASSUME Stepping, [Next]_vars, NEW q \in Phone
  PROVE  Sound(call'[q], row'.doc.ident, published', minted')
<1>t. call \in [Phone -> Calls]
  BY TypedParts DEF Stepping, CallTyped
<1>1. CASE UNCHANGED vars
  BY <1>1 DEF vars, server, Stepping, Settling
<1>2. ASSUME NEW p \in Phone, NEW c, call' = [call EXCEPT ![p] = c], Forms(p, c)
      PROVE  Sound(call'[q], row'.doc.ident, published', minted')
  <2>1. CASE q = p
    BY <1>t, <1>2, <2>1, SoundOwn
  <2>2. CASE q # p
    BY <1>t, <1>2, <2>2, SoundOthers
  <2> QED
    BY <2>1, <2>2
<1>3. CASE Next /\ UNCHANGED call /\ (Substitute \/ \E p \in Phone : Leaves(p))
  BY <1>3, SoundLeaves
<1> QED
  BY <1>1, <1>2, <1>3, CallForms, Zenon DEF Stepping

\* Every step keeps the published key that of the row, or about to be replaced.
LEMMA HeldStep ==
  ASSUME Stepping, [Next]_vars
  PROVE  Held'
<1>t. call \in [Phone -> Calls] /\ Held /\ row.doc.ident \in Keys
  BY TypedParts, IdentIn DEF Stepping, CallTyped, Settling
<1>1. CASE UNCHANGED vars
  BY <1>t, <1>1 DEF vars, server, Held, Replaces
<1>2. CASE UNCHANGED call /\ (Substitute \/ \E p \in Phone : Leaves(p))
  <2>1. CASE Substitute
    BY <2>1 DEF Substitute, Held
  <2>2. ASSUME NEW p \in Phone, Leaves(p), ~Republish(p) PROVE Held'
    <3>1. UNCHANGED published
      BY <2>2, Zenon DEF Leaves, Sync, KeepLocal, TakeRemote, AddHost, server
    <3>2. row'.doc.ident = row.doc.ident
      BY <2>2, SteadyStep DEF Steady
    <3> QED
      BY <1>t, <1>2, <3>1, <3>2 DEF Held, Replaces
  <2>3. ASSUME NEW p \in Phone, Republish(p) PROVE Held'
    BY <2>3 DEF Republish, MayPublish, Stepping, Held
  <2> QED
    BY <1>2, <2>1, <2>2, <2>3
<1>3. ASSUME NEW p \in Phone, NEW c, call' = [call EXCEPT ![p] = c], Forms(p, c) PROVE Held'
  <2>1. CASE Push(p) \/ Repush(p)
    <3>1. CASE ~call[p].up
      BY <2>1, <3>1, UploadMakes DEF Held
    <3>2. CASE call[p].up
      <4>1. c = Call("persist", call[p].doc, row.ver + 1, call[p].seen, call[p].up)
        <5>1. call[p].pc = "push" \/ call[p].pc = "repush"
          BY <2>1 DEF Push, Repush
        <5>2. Idle.pc # "persist" /\ Idle.up = FALSE
          BY DEF Idle
        <5>3. Pushed(p)
          BY <2>1 DEF Push, Repush
        <5>4. call'[p] = c
          BY <1>3, <1>t
        <5> QED
          BY <1>t, <3>2, <5>3, <5>4, PushedEffect DEF Stepping
      <4>2. call'[p].pc = "persist" /\ call'[p].up
        BY <1>3, <1>t, <3>2, <4>1 DEF Call
      <4>3. published' \in {Ident(row'.doc.ident.key, None), ForeignKey}
        BY <2>1, <3>2, UploadMakes
      <4>4. published' # ForeignKey => published'.key = row'.doc.ident.key /\ published'.seed = None
        BY <4>3, IdentsAre
      <4>5. published' # ForeignKey => Replaces(p)'
        BY <4>2, <4>4 DEF Replaces, Holding
      <4> QED
        BY <4>5 DEF Held
    <3> QED
      BY <3>1, <3>2
  <2>2. CASE Publish(p)
    <3>1. row' = row /\ published' = (IF call[p].up \/ published = NoIdent THEN call[p].doc.ident
                                                                           ELSE published)
          /\ call[p].pc = "publish"
      BY <2>2, Zenon DEF Publish
    <3>2. call[p].doc.ident = row.doc.ident /\ (~call[p].up => published = NoIdent)
      BY <3>1 DEF Stepping, Settling, Sound, Holding
    <3> QED
      BY <3>1, <3>2 DEF Held
  <2>3. CASE ~(Push(p) \/ Repush(p) \/ Publish(p))
    <3>0. ~(Pushed(p) /\ call[p].pc \in {"push", "repush"})
      BY <2>3 DEF Push, Repush
    <3>1. UNCHANGED published
      BY <1>3, <2>3, <3>0, Zenon
         DEF Forms, Ends, SessionGone, Compared, Resync, RepushRefused, Fail, Kill, Begin, Ask,
             Unpublished, Upgrade, AddSeed, Behind, Mint, PushRefused, Refetch, Persist, server
    <3>2. row'.doc.ident = row.doc.ident
      BY <1>3, <2>3, <3>0, SteadyStep, Zenon DEF Forms, Ends, Thinks, Steady
    <3>3. CASE published \in {NoIdent, ForeignKey, row.doc.ident}
      BY <3>1, <3>2, <3>3 DEF Held
    <3>4. ASSUME NEW q \in Phone, Replaces(q) PROVE Replaces(q)'
      <4>1. CASE q # p
        BY <1>t, <1>3, <3>1, <3>2, <3>4, <4>1 DEF Replaces
      <4>2. CASE q = p
        <5>1. call[p].up /\ call[p].pc \in Holding
          BY <3>4, <4>2 DEF Replaces
        <5>2. ~MayFail(p)
          BY <5>1 DEF MayFail, Holding, Stepping
        <5>3. call[p].pc = "persist" \/ call[p].pc = "publish"
          BY <5>1 DEF Holding
        <5>4. ~Begin(p)
          BY <5>3 DEF Begin, Idle
        <5>5. c = Call("publish", call[p].doc, call[p].exp, call[p].seen, call[p].up)
          BY <1>3, <2>3, <3>0, <5>2, <5>3, <5>4
             DEF Forms, Ends, SessionGone, Compared, Resync, RepushRefused, Fail, Kill, Ask, Answered,
                 Unpublished, Upgrade, AddSeed, Behind, Mint, PushRefused, Refetch, Persist
        <5>6. call'[p].up /\ call'[p].pc = "publish"
          BY <1>t, <1>3, <5>1, <5>5 DEF Call
        <5> QED
          BY <3>1, <3>2, <3>4, <4>2, <5>6 DEF Replaces, Holding
      <4> QED
        BY <4>1, <4>2
    <3> QED
      BY <1>t, <3>3, <3>4 DEF Held
  <2> QED
    BY <2>1, <2>2, <2>3
<1> QED
  BY <1>1, <1>2, <1>3, CallForms, Zenon DEF Stepping

-----------------------------------------------------------------------------
\* So the invariant is inductive.
LEMMA SettlingStep ==
  ASSUME Stepping, [Next]_vars
  PROVE  Settling'
<1>1. OneCall'
  BY OneCallStep DEF Stepping, Settling, OneCall, vars
<1>2. Ahead' /\ Warned' /\ Held' /\ row'.doc.ident.key <= minted'
  BY AheadStep, WarnedStep, HeldStep, RowStepsKey
<1>3. ASSUME NEW q \in Phone
      PROVE  Known(q)' /\ Sound(call'[q], row'.doc.ident, published', minted')
  BY KnownStep, SoundStep
<1> QED
  BY <1>1, <1>2, <1>3 DEF Settling

\* It holds of a new account, and of one from before the upgrade.
LEMMA InitSettling ==
  ASSUME Init
  PROVE  Settling
<1>1. PICK k \in 0..1 :
        LET d == Vault(Ident(k, None), {})
        IN  /\ row = [ver |-> 1, doc |-> d]
            /\ published = Ident(k, None) /\ minted = k
            /\ local = [p \in Phone |-> d] /\ base = local
            /\ call = [p \in Phone |-> Idle] /\ mismatch = [p \in Phone |-> FALSE]
  BY InitForm
<1>2. /\ row.doc.ident = Ident(k, None) /\ minted \in Nat
      /\ \A p \in Phone : local[p].ident = Ident(k, None) /\ call[p] = Idle /\ ~mismatch[p]
                          /\ Unsynced(p) = {}
  BY <1>1 DEF Vault, Unsynced
<1>3. OneCall /\ Ahead /\ Warned
  BY <1>2 DEF OneCall, Ahead, Warned
<1>4. Held
  BY <1>1, <1>2 DEF Held
<1>5. row.doc.ident.key <= minted
  BY <1>1, <1>2, IdentsAre
<1>6. ASSUME NEW p \in Phone PROVE Sound(call[p], row.doc.ident, published, minted)
  BY <1>2, SoundIdle
<1>7. ASSUME NEW p \in Phone PROVE Known(p)
  BY <1>1, <1>2, IdentsAre DEF Known, Idle, Pushing
<1> QED
  BY <1>3, <1>4, <1>5, <1>6, <1>7 DEF Settling

\* It holds in every reachable state.
LEMMA SettlingAlways ==
  ASSUME Overlap \subseteq {"edit", "foreign"}
  PROVE  Spec => []Stepping
<1>1. Init => Settling
  BY InitSettling
<1>2. TypeOK /\ Versions /\ Settling /\ [Next]_vars => Settling'
  BY SettlingStep DEF Stepping
<1>3. Spec => [](TypeOK /\ Versions /\ Settling)
  BY <1>1, <1>2, VersionsAlways, PTL DEF Spec
<1>4. TypeOK /\ Versions /\ Settling => Stepping
  BY DEF Stepping
<1> QED
  BY <1>3, <1>4, PTL

\* In every reachable state the published key is that of the identity in the vault, or of
\* the same before its upgrade, so that nothing is sealed to a key whose private half is
\* lost.  Of the kinds of overlap it allows edits and a key that the server substitutes;
\* it takes one bootstrap at a time, on phones whose changes are sent, whose upgrades do
\* not fail half way, and no key published from a vault that is behind.  (ensureIdentity,
\* pushIdentity, publish.)
THEOREM KeyIsHeld ==
  ASSUME Overlap \subseteq {"edit", "foreign"}
  PROVE  Spec => []PublishedIsHeld
<1>1. Stepping => PublishedIsHeld
  BY DEF Stepping, Settling, Held, Replaces, PublishedIsHeld
<1> QED
  BY <1>1, SettlingAlways, PTL

\* Bringing an identity up strands no key and loses no host, while none of the overlaps
\* happens but a key that the server substitutes: each of the others breaks it.
THEOREM NothingStranded ==
  ASSUME Overlap \subseteq {"foreign"}
  PROVE  Spec => []NothingIsStranded
<1>1. Spec => []PublishedIsHeld
  BY KeyIsHeld
<1>2. Spec => []HostsKept
  BY HostsStay
<1>3. PublishedIsHeld /\ HostsKept => NothingIsStranded
  BY DEF NothingIsStranded
<1> QED
  BY <1>1, <1>2, <1>3, PTL

-----------------------------------------------------------------------------
(* The warning. *)

\* No upgrade is under way while the server hands out the foreign key.
ForeignUnseen == \A p \in Phone : call[p].up => published # ForeignKey

\* No key is substituted during a bootstrap, and upgrades begin with the own.
LEMMA ForeignStep ==
  ASSUME "foreign" \notin Overlap, TypeOK, ForeignUnseen, [Next]_vars
  PROVE  ForeignUnseen'
<1>t. /\ call \in [Phone -> Calls]
      /\ \A p \in Phone : local[p].ident # ForeignKey /\ call[p].doc.ident # ForeignKey
  BY TypedParts, IdentIn, KeyIs DEF CallTyped
<1>p. published # ForeignKey => published' # ForeignKey \/ Substitute
  BY <1>t, PublishSteps DEF Publish, Republish
<1>1. CASE Substitute
  BY <1>1 DEF Substitute, ForeignUnseen, Idle
<1>2. CASE UNCHANGED call /\ ~Substitute
  BY <1>p, <1>2 DEF ForeignUnseen
<1>3. ASSUME NEW p \in Phone, NEW c, call' = [call EXCEPT ![p] = c], Forms(p, c), ~Substitute
      PROVE  ForeignUnseen'
  <2>1. c.up => call[p].up \/ Upgrade(p)
    <3>1. ASSUME NEW a, NEW d, NEW n, NEW s, c = Call(a, d, n, s, FALSE) PROVE ~c.up
      BY <3>1 DEF Call
    <3>2. ASSUME NEW a, NEW d, NEW n, NEW s, c = Call(a, d, n, s, call[p].up)
          PROVE  c.up = call[p].up
      BY <3>2 DEF Call
    <3>3. c = Idle => ~c.up
      BY DEF Idle
    <3> QED
      BY <1>3, <3>1, <3>2, <3>3, Zenon DEF Forms
  <2>2. Upgrade(p) => published # ForeignKey
    BY <1>t, Zenon DEF Upgrade
  <2> QED
    BY <1>t, <1>p, <1>3, <2>1, <2>2 DEF ForeignUnseen
<1>4. CASE UNCHANGED vars
  BY <1>4 DEF vars, server, ForeignUnseen
<1> QED
  BY <1>1, <1>2, <1>3, <1>4, CallForms

\* As long as no key is substituted during a bootstrap: one that is not the account's is
\* never replaced but by a user who was warned of it, whatever else overlaps and whatever
\* fails.  (ensureIdentity compares before it upgrades, and not again.)
THEOREM ForeignIsNoticed ==
  ASSUME "foreign" \notin Overlap
  PROVE  Spec => ForeignKeyNoticed
<1>1. Init => ForeignUnseen
  BY InitForm DEF ForeignUnseen, Idle
<1>2. TypeOK /\ ForeignUnseen /\ [Next]_vars => ForeignUnseen'
  BY ForeignStep
<1>3. ASSUME TypeOK, ForeignUnseen, [Next]_vars, published = ForeignKey, published' # ForeignKey
      PROVE  \E p \in Phone : mismatch[p]
  <2>1. ASSUME NEW p \in Phone, Publish(p) PROVE FALSE
    BY <1>3, <2>1, IdentsAre DEF Publish, ForeignUnseen
  <2>2. ASSUME NEW p \in Phone, Republish(p) PROVE mismatch[p]
    BY <2>2, Zenon DEF Republish
  <2>3. ~Substitute
    BY <1>3 DEF Substitute
  <2> QED
    BY <1>3, <2>1, <2>2, <2>3, PublishSteps
<1>4. /\ TypeOK /\ ForeignUnseen
      /\ [Next]_vars
      => [published = ForeignKey /\ published' # ForeignKey => \E p \in Phone : mismatch[p]]_vars
  BY <1>3
<1> QED
  BY <1>1, <1>2, <1>4, IdentityTypes, PTL DEF Spec, ForeignKeyNoticed

\* The old form of an upgraded key is published no more; with what a phone compares it, it
\* is the same or has another key.
LEMMA NoFalseStep ==
  ASSUME Stepping, [Next]_vars, NEW p \in Phone, ~mismatch[p], mismatch'[p]
  PROVE  ~(published.key = local'[p].ident.key /\ published.seed = None)
<1>t. /\ mismatch \in [Phone -> BOOLEAN] /\ published \in Seen
      /\ local[p].ident \in Keys /\ local'[p].ident \in Keys /\ row.doc.ident \in Keys
  <2>1. local'[p] \in Doc
    BY TypedParts, DocsTypeStep DEF Stepping, DocsTyped
  <2>2. local'[p].ident \in Keys
    BY <2>1, DocIs
  <2> QED
    BY <2>2, TypedParts, IdentIn DEF Stepping, RestTyped
<1>s. /\ Held /\ OneCall /\ Warned /\ Known(p)
      /\ Sound(call[p], row.doc.ident, published, minted)
  BY DEF Stepping, Settling
<1> SUFFICES ASSUME published.key = local'[p].ident.key, published.seed = None
             PROVE  FALSE
  OBVIOUS
<1>1. published # ForeignKey
  <2>1. ForeignKey.key = Foreign /\ local'[p].ident.key \in Nat
    BY <1>t, KeyIs DEF ForeignKey
  <2> QED
    BY <2>1, ForeignIsOther
<1>2. ASSUME NEW q \in Phone, SetMismatch(q, FALSE) PROVE FALSE
  BY <1>2, <1>t, Zenon DEF SetMismatch
<1>3. ASSUME call[p].pc \in {"asked", "resync"}, published # NoIdent
      PROVE  published = row.doc.ident
  <2>1. ASSUME NEW r \in Phone, Replaces(r) PROVE FALSE
    <3>1. call[r].pc # "idle" /\ call[p].pc # "idle" /\ call[p] # call[r]
      BY <1>3, <2>1 DEF Replaces, Holding
    <3> QED
      BY <1>s, <3>1 DEF OneCall, Idle
  <2> QED
    BY <1>1, <1>3, <1>s, <2>1 DEF Held
<1>4. ASSUME NEW q \in Phone, Compared(q) PROVE FALSE
  <2>1. /\ Answered(q) /\ published # NoIdent /\ SetMismatch(q, published # local[q].ident)
        /\ local' = local
    BY <1>4, Zenon DEF Compared, phone
  <2>2. q = p /\ published # local[p].ident
    BY <1>t, <2>1, Zenon DEF SetMismatch
  <2>3. published = row.doc.ident
    BY <1>3, <2>1, <2>2 DEF Answered
  <2>4. local[p].ident.seed = None
    BY <1>s, <2>1, <2>3 DEF Known
  <2>5. published = local[p].ident
    <3>1. published = Ident(published.key, published.seed)
      BY <1>t, <2>3, KeyIs, Zenon
    <3>2. local[p].ident = Ident(local[p].ident.key, local[p].ident.seed)
      BY <1>t, KeyIs, Zenon
    <3> QED
      BY <2>1, <2>4, <3>1, <3>2, Zenon
  <2> QED
    BY <2>2, <2>5
<1>5. ASSUME NEW q \in Phone, Resync(q) PROVE FALSE
  <2>1. /\ call[q].pc = "resync"
        /\ UNCHANGED mismatch \/ SetMismatch(q, call[q].seen # local'[q].ident)
    BY <1>5, Zenon DEF Resync
  <2>2. q = p
    BY <1>t, <2>1, Zenon DEF SetMismatch
  <2>3. published # NoIdent /\ (row.doc.ident = NoIdent \/ row.doc.ident.seed # None)
    BY <1>s, <2>1, <2>2 DEF Sound
  <2> QED
    BY <1>3, <2>1, <2>2, <2>3
<1> QED
  BY <1>2, <1>4, <1>5, WarnSteps

\* The warning comes for a key that is not in the phone's vault, and for no other, while of
\* the overlaps no more than an edit happens.  (ensureIdentity; the alarm of the projects.)
THEOREM AlarmsAreHonest ==
  ASSUME Overlap \subseteq {"edit"}
  PROVE  Spec => AlarmIsHonest
<1>0. Overlap \subseteq {"edit", "foreign"} /\ "foreign" \notin Overlap
  OBVIOUS
<1>1. Stepping /\ [Next]_vars =>
        [\A p \in Phone : ~mismatch[p] /\ mismatch'[p] =>
           ~(published.key = local'[p].ident.key /\ published.seed = None)]_vars
  BY NoFalseStep
<1>2. Spec => NoFalseAlarm
  BY <1>0, <1>1, SettlingAlways, PTL DEF Spec, NoFalseAlarm
<1>3. Spec => ForeignKeyNoticed
  BY <1>0, ForeignIsNoticed
<1> QED
  BY <1>2, <1>3 DEF AlarmIsHonest
=============================================================================
