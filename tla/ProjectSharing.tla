--------------------------- MODULE ProjectSharing ---------------------------
(***************************************************************************)
(* A project whose hosts are shared: a phone's writes to its vault         *)
(* (projectVaultWrite.ts), the pass that reads and caches it (projects.ts) *)
(* and the sealing of its key to members without one (finalize.ts), among  *)
(* other members who edit, rotate, invite and remove.                      *)
(***************************************************************************)
EXTENDS Naturals, FiniteSets

CONSTANTS Host,       \* the hosts of the phone's user and of the project
          Me,         \* the phone's user
          Member,     \* the other users the phone may have to seal for
          Admins,     \* who may seal
          None,       \* no user, no host
          MaxAttempts,\* how often a write is tried
          MaxRev,     \* bound: edits of hosts
          MaxOther,   \* bound: what other users do to the project
          MaxFaults,  \* bound: lost requests and answers, kills, a false directory
          Overlap     \* what may meet a call under way (below)

(***************************************************************************)
(* "edit":     the user may edit a host that is on its way to the project. *)
(* "kill":     the process may end between the two writes of the cache.    *)
(* "rekey":    a member may rotate its key while a pass seals to it.       *)
(* "identity": the published key of the account may be found wrong while   *)
(*             a pass seals.                                               *)
(* The program excludes none of them.                                      *)
(***************************************************************************)
User == Member \cup {Me}
ASSUME UsersDiffer    == Me \notin Member /\ None \notin User \cup Host
ASSUME AdminsAreUsers == Admins \subseteq User
ASSUME BoundsAreNat   == {MaxAttempts, MaxRev, MaxOther, MaxFaults} \subseteq Nat
ASSUME SomethingIsTried == MaxAttempts > 0 /\ MaxRev > 0
ASSUME OverlapIsKinds == Overlap \subseteq {"edit", "kill", "rekey", "identity"}

VARIABLES
  proj,     \* the project's vault at the server: version, DEK, content of its hosts
  rotated,  \* ... the version of the last rotation
  members,  \* the users of the project
  wrapped,  \* each user's copy of the DEK: which DEK, sealed to which key
  keys,     \* each user's published key, counted
  personal, \* the content of the hosts in the phone's own vault
  cache,    \* the project on the phone's disk: the blob, and its metadata entry
  call,     \* the write under way
  pass,     \* the pass under way
  pull,     \* a pass was asked for that has not begun
  mismatch, \* the published key of the account is not the one in the vault
  rev,      \* edits so far; each gives a host a content of its own
  latest,   \* what each host's last editor made of it; 0: nothing, or deleted
  wrote,    \* the version of the last write that reported success
  missed,   \* the last pass did not cache the project
  others, faults \* bounds

server == <<proj, rotated, members, wrapped, keys>>
vars   == <<server, personal, cache, call, pass, pull, mismatch, rev, latest, wrote, missed,
            others, faults>>

Hosts  == [Host -> 0..MaxRev]
Vault  == [ver : Nat, dek : Nat, hosts : Hosts]
Copy   == [dek : Nat, key : Nat]
NoCopy == [dek |-> 0, key |-> 0]
NoHosts == [h \in Host |-> 0]
NoVault == [ver |-> 0, dek |-> 0, hosts |-> NoHosts]

NoCall == [pc |-> "idle", move |-> FALSE, host |-> None, val |-> 0, tries |-> 0, got |-> NoVault]
NoPass == [pc |-> "idle", got |-> NoVault, copy |-> NoCopy, pend |-> {}]
NoCache == [blob |-> NoVault, ver |-> 0, copy |-> NoCopy]

TypeOK ==
  /\ proj \in Vault /\ rotated \in 0..proj.ver
  /\ members \subseteq User
  /\ wrapped \in [User -> Copy] /\ keys \in [User -> Nat]
  /\ \A u \in User \ members : wrapped[u] = NoCopy
  /\ personal \in Hosts /\ latest \in Hosts /\ rev \in 0..MaxRev
  /\ cache \in [blob : Vault, ver : Nat, copy : Copy]
  /\ call \in [pc : {"idle", "identity", "fetch", "put", "delete"}, move : BOOLEAN,
               host : Host \cup {None}, val : 0..MaxRev, tries : 0..MaxAttempts - 1, got : Vault]
  /\ pass \in [pc : {"idle", "identity", "list", "vault", "blob", "meta", "interlock", "fetch",
                     "pending", "submit"},
               got : Vault, copy : Copy, pend : SUBSET (User \X Nat)]
  /\ pull \in BOOLEAN /\ mismatch \in BOOLEAN /\ missed \in BOOLEAN
  /\ wrote \in 0..proj.ver /\ others \in 0..MaxOther /\ faults \in 0..MaxFaults

\* The user has hosts; the project is not made yet, or everyone has its DEK.
Init ==
  /\ keys = [u \in User |-> 1]
  /\ \/ /\ proj = NoVault /\ rotated = 0 /\ members = {}
        /\ wrapped = [u \in User |-> NoCopy]
     \/ /\ proj = [NoVault EXCEPT !.ver = 1, !.dek = 1] /\ rotated = 1 /\ members = User
        /\ wrapped = [u \in User |-> [dek |-> 1, key |-> 1]]
  /\ personal = [h \in Host |-> 1]
  /\ rev = 1 /\ latest = personal
  /\ cache = NoCache /\ call = NoCall /\ pass = NoPass
  /\ pull = FALSE /\ mismatch = FALSE /\ wrote = 0 /\ missed = FALSE
  /\ others = 0 /\ faults = 0

-----------------------------------------------------------------------------
Fails  == faults < MaxFaults /\ faults' = faults + 1
Edits  == rev < MaxRev /\ rev' = rev + 1
Others == others < MaxOther /\ others' = others + 1

\* A copy of the DEK opens with its user's key.
Opens(u, copy) == copy # NoCopy /\ copy.key = keys[u]

\* The phone's copy of a host of the project: the cache, if it opens.
Cached(h) ==
  IF Opens(Me, cache.copy) /\ cache.copy.dek = cache.blob.dek THEN cache.blob.hosts[h] ELSE 0

\* The server takes hosts H in place of version v of the project, and of no other.
Takes(v, H) == proj.ver = v /\ Me \in members /\ proj' = [proj EXCEPT !.ver = v + 1, !.hosts = H]

\* The server takes a copy for a user without one, if the DEK of version v is the current.
Accepts(u, copy, v) ==
  wrapped' = IF u \in members /\ wrapped[u] = NoCopy /\ v >= rotated
               THEN [wrapped EXCEPT ![u] = copy] ELSE wrapped

Pass(pc)  == pass' = [pass EXCEPT !.pc = pc]
Called(c) == call' = c

-----------------------------------------------------------------------------
(* The other users, and what the phone's user does to the project through  *)
(* one request.                                                            *)

untouched == <<personal, cache, call, pass, mismatch, wrote, missed, faults>>

\* The project is made, its DEK sealed to its owner.
Create ==
  /\ proj = NoVault
  /\ \E u \in User :
       /\ u = Me => ~mismatch
       /\ members' = {u}
       /\ wrapped' = [wrapped EXCEPT ![u] = [dek |-> 1, key |-> keys[u]]]
       /\ pull' = (u = Me)
  /\ proj' = [NoVault EXCEPT !.ver = 1, !.dek = 1]
  /\ rotated' = 1
  /\ UNCHANGED <<keys, untouched, rev, latest, others>>

\* An invite is accepted; the phone asks for a pass when it was its user's.
Join(u) ==
  /\ proj # NoVault /\ u \notin members /\ Others
  /\ members' = members \cup {u}
  /\ pull' = (pull \/ u = Me)
  /\ UNCHANGED <<proj, rotated, wrapped, keys, untouched, rev, latest>>

\* A user leaves, or is removed; the phone asks for a pass when its user left.
Leave(u) ==
  /\ u \in members /\ Others
  /\ \/ UNCHANGED pull
     \/ u = Me /\ pull' = TRUE
  /\ members' = members \ {u}
  /\ wrapped' = [wrapped EXCEPT ![u] = NoCopy]
  /\ UNCHANGED <<proj, rotated, keys, untouched, rev, latest>>

\* Another member puts a host into the project, edits or deletes one.
OtherEdit(h) ==
  /\ \E u \in Member : wrapped[u] # NoCopy
  /\ Others
  /\ \/ /\ Edits
        /\ proj' = [proj EXCEPT !.ver = @ + 1, !.hosts[h] = rev']
        /\ latest' = [latest EXCEPT ![h] = rev']
     \/ /\ proj.hosts[h] # 0
        /\ proj' = [proj EXCEPT !.ver = @ + 1, !.hosts[h] = 0]
        /\ latest' = [latest EXCEPT ![h] = 0]
        /\ UNCHANGED rev
  /\ UNCHANGED <<rotated, members, wrapped, keys, untouched, pull>>

\* The project gets a new DEK, sealed to the members who had the old one, less one
\* who may be removed.
Rotate(out) ==
  /\ \E u \in Member \ {out} : wrapped[u] # NoCopy
  /\ Others
  /\ proj' = [proj EXCEPT !.ver = @ + 1, !.dek = @ + 1]
  /\ rotated' = proj'.ver
  /\ members' = members \ {out}
  /\ wrapped' = [u \in User |->
       IF u = out \/ wrapped[u] = NoCopy THEN NoCopy ELSE [dek |-> proj'.dek, key |-> keys[u]]]
  /\ UNCHANGED <<keys, untouched, pull, rev, latest>>

\* Another member seals the DEK to one without a copy.
OtherSeals(u) ==
  /\ \E v \in Member \ {u} : wrapped[v] # NoCopy
  /\ u \in members /\ wrapped[u] = NoCopy
  /\ Accepts(u, [dek |-> proj.dek, key |-> keys[u]], proj.ver)
  /\ UNCHANGED <<proj, rotated, members, keys, untouched, pull, rev, latest, others>>

\* A member rotates its key; the server forgets its copies.
Rekey(u) ==
  /\ Others
  /\ "rekey" \in Overlap \/ <<u, keys[u]>> \notin pass.pend
  /\ keys' = [keys EXCEPT ![u] = @ + 1]
  /\ wrapped' = [wrapped EXCEPT ![u] = NoCopy]
  /\ UNCHANGED <<proj, rotated, members, untouched, pull, rev, latest>>

\* The phone's user, warned of the key, has the one in the vault published again.
Republish ==
  /\ mismatch /\ mismatch' = FALSE
  /\ wrapped' = [wrapped EXCEPT ![Me] = NoCopy]
  /\ pull' = TRUE
  /\ UNCHANGED <<proj, rotated, members, keys, personal, cache, call, pass, rev, latest,
                 wrote, missed, others, faults>>

-----------------------------------------------------------------------------
(* The hosts in the phone's own vault.                                     *)

EditPersonal(h) ==
  /\ personal[h] # 0 /\ Edits
  /\ "edit" \in Overlap \/ ~(call.move /\ call.host = h)
  /\ personal' = [personal EXCEPT ![h] = rev'] /\ latest' = [latest EXCEPT ![h] = rev']
  /\ UNCHANGED <<server, cache, call, pass, pull, mismatch, wrote, missed, others, faults>>

DeletePersonal(h) ==
  /\ personal[h] # 0
  /\ personal' = [personal EXCEPT ![h] = 0]
  /\ latest' = [latest EXCEPT ![h] = proj.hosts[h]]
  /\ UNCHANGED <<server, cache, call, pass, pull, mismatch, rev, wrote, missed, others, faults>>

-----------------------------------------------------------------------------
(* moveHostToProject and setProjectHostPassword.                           *)

unwritten == <<rotated, members, wrapped, keys, cache, pass, missed, others>>

\* Its own vault, a project whose DEK the phone could open: the host may be moved.
MoveStart(h) ==
  /\ call = NoCall /\ personal[h] # 0 /\ cache # NoCache
  /\ Called([NoCall EXCEPT !.pc = "identity", !.move = TRUE, !.host = h, !.val = personal[h]])
  /\ UNCHANGED <<unwritten, proj, personal, pull, mismatch, rev, latest, wrote, faults>>

\* A connection to a host of the project succeeded, its password is to be kept.
RememberStart(h) ==
  /\ call = NoCall /\ Cached(h) # 0 /\ Edits
  /\ Called([NoCall EXCEPT !.pc = "identity", !.host = h, !.val = rev'])
  /\ UNCHANGED <<unwritten, proj, personal, pull, mismatch, latest, wrote, faults>>

Give(up) == Called(NoCall) /\ UNCHANGED <<proj, personal, pull, latest, wrote, up>>

\* ensureIdentity, which may find the published key wrong; a host of the vault as it
\* was before the call is zero-filled if the vault has changed.
WriteIdentity ==
  /\ call.pc = "identity"
  /\ \/ /\ call.move => personal[call.host] = call.val
        /\ Called([call EXCEPT !.pc = "fetch"]) /\ mismatch' = FALSE
        /\ UNCHANGED <<proj, personal, pull, latest, wrote, faults>>
     \/ Give(mismatch) /\ UNCHANGED faults
     \/ /\ "identity" \in Overlap \/ pass.pc \notin {"fetch", "pending", "submit"}
        /\ Fails /\ mismatch' = TRUE
        /\ Called(NoCall) /\ UNCHANGED <<proj, personal, pull, latest, wrote>>
  /\ UNCHANGED <<unwritten, rev>>

\* The project's vault is fetched, opened and changed.  It may be gone or not open;
\* it may hold a host of that name, or not hold the one whose password this is.
WriteFetch ==
  /\ call.pc = "fetch"
  /\ \/ /\ Opens(Me, wrapped[Me])
        /\ call.move <=> proj.hosts[call.host] = 0
        /\ Called([call EXCEPT !.pc = "put",
                               !.got = [proj EXCEPT !.hosts[call.host] = call.val]])
        /\ UNCHANGED faults
     \/ /\ ~Opens(Me, wrapped[Me]) \/ (call.move <=> proj.hosts[call.host] # 0)
        /\ Called(NoCall) /\ UNCHANGED faults
     \/ Fails /\ Called(NoCall)
  /\ UNCHANGED <<unwritten, proj, personal, pull, mismatch, rev, latest, wrote>>

\* Mutant of Written: no pass is asked for after a password was written.
WrittenNoPull ==
  /\ latest' = IF call.move THEN latest ELSE [latest EXCEPT ![call.host] = call.val]
  /\ \/ /\ call.move
        /\ Called([call EXCEPT !.pc = "delete", !.got = [NoVault EXCEPT !.ver = proj'.ver]])
        /\ UNCHANGED <<pull, wrote, faults>>
     \/ ~call.move /\ Called(NoCall) /\ wrote' = proj'.ver /\ UNCHANGED <<pull, faults>>
     \/ Fails /\ Called(NoCall) /\ UNCHANGED <<pull, wrote>>

\* It is put back: a moved host is then to be deleted, a remembered password is done.
Written ==
  /\ latest' = IF call.move THEN latest ELSE [latest EXCEPT ![call.host] = call.val]
  /\ \/ /\ call.move /\ Called([call EXCEPT !.pc = "delete", !.got = [NoVault EXCEPT !.ver = proj'.ver]])
        /\ UNCHANGED <<pull, wrote, faults>>
     \/ /\ ~call.move /\ Called(NoCall)
        /\ pull' = TRUE /\ wrote' = proj'.ver
        /\ UNCHANGED faults
     \/ Fails /\ Called(NoCall) /\ UNCHANGED <<pull, wrote>>

WritePut ==
  /\ call.pc = "put"
  /\ Takes(call.got.ver, call.got.hosts)
  /\ Written
  /\ UNCHANGED <<unwritten, personal, mismatch, rev>>

\* Mutant of WriteRefused: the attempts are not counted.
WriteRefusedForever ==
  /\ call.pc = "put" /\ proj.ver # call.got.ver
  /\ Called([call EXCEPT !.pc = "fetch", !.tries = @ + 1, !.got = NoVault])
  /\ UNCHANGED <<unwritten, proj, personal, pull, mismatch, rev, latest, wrote, faults>>

\* The version is stale: the project is fetched again, a few times.
WriteRefused ==
  /\ call.pc = "put" /\ proj.ver # call.got.ver
  /\ IF call.tries + 1 < MaxAttempts
       THEN Called([call EXCEPT !.pc = "fetch", !.tries = @ + 1, !.got = NoVault])
       ELSE Called(NoCall)
  /\ UNCHANGED <<unwritten, proj, personal, pull, mismatch, rev, latest, wrote, faults>>

\* Mutant of WriteFails: the host is deleted all the same.
WriteFailsDeletes ==
  /\ call.pc = "put"
  /\ \/ Me \notin members /\ UNCHANGED faults
     \/ Fails
  /\ Called([call EXCEPT !.pc = "delete"])
  /\ UNCHANGED <<unwritten, proj, personal, pull, mismatch, rev, latest, wrote>>

\* The write fails otherwise, or the user is no longer a member.
WriteFails ==
  /\ call.pc = "put"
  /\ \/ Me \notin members /\ UNCHANGED faults
     \/ Fails
  /\ Called(NoCall)
  /\ UNCHANGED <<unwritten, proj, personal, pull, mismatch, rev, latest, wrote>>

\* The host leaves the phone's own vault, unless that is locked by now or the host
\* is not there any more.
WriteDelete ==
  /\ call.pc = "delete"
  /\ \/ /\ personal[call.host] # 0
        /\ personal' = [personal EXCEPT ![call.host] = 0]
        /\ pull' = TRUE /\ wrote' = call.got.ver
        /\ UNCHANGED faults
     \/ personal[call.host] = 0 /\ UNCHANGED <<personal, pull, wrote, faults>>
     \/ Fails /\ UNCHANGED <<personal, pull, wrote>>
  /\ Called(NoCall)
  /\ UNCHANGED <<unwritten, proj, mismatch, rev, latest>>

-----------------------------------------------------------------------------
(* The pass: runProjectsSync, ProjectSyncEngine.sync, runFinalizePass.     *)

unread == <<proj, rotated, members, keys, personal, call, rev, latest, wrote, others>>

\* The Projects tab gets the focus.
Focus ==
  /\ ~pull /\ pull' = TRUE
  /\ UNCHANGED <<unread, wrapped, cache, pass, mismatch, missed, faults>>

PassStart ==
  /\ pass = NoPass /\ pull
  /\ Pass("identity") /\ pull' = FALSE
  /\ UNCHANGED <<unread, wrapped, cache, mismatch, missed, faults>>

Ends   == pass' = NoPass
Misses == missed' = TRUE

PassIdentity ==
  /\ pass.pc = "identity"
  /\ \/ Pass("list") /\ mismatch' = FALSE /\ UNCHANGED <<missed, faults>>
     \/ Ends /\ Misses /\ mismatch' = TRUE /\ Fails
     \/ Ends /\ Misses /\ Fails /\ UNCHANGED mismatch
  /\ UNCHANGED <<unread, wrapped, cache, pull>>

\* The list of projects: a cached project that is not on it is dropped; one without a
\* copy of the DEK for the user waits for its key.
PassList ==
  /\ pass.pc = "list"
  /\ \/ Me \notin members /\ cache' = NoCache /\ Ends /\ Misses /\ UNCHANGED faults
     \/ /\ Me \in members /\ wrapped[Me] = NoCopy
        /\ Pass("interlock") /\ Misses /\ UNCHANGED <<cache, faults>>
     \/ wrapped[Me] # NoCopy /\ Pass("vault") /\ UNCHANGED <<cache, missed, faults>>
     \/ Fails /\ Ends /\ Misses /\ UNCHANGED cache
  /\ UNCHANGED <<unread, wrapped, pull, mismatch>>

\* The vault of the project: it may be gone by now, or not open.
PassVault ==
  /\ pass.pc = "vault"
  /\ \/ /\ Opens(Me, wrapped[Me])
        /\ pass' = [pass EXCEPT !.pc = "blob", !.got = proj, !.copy = wrapped[Me]]
        /\ UNCHANGED <<cache, missed, faults>>
     \/ /\ Me \in members /\ ~Opens(Me, wrapped[Me])
        /\ Pass("interlock") /\ Misses /\ UNCHANGED <<cache, faults>>
     \/ Me \notin members /\ cache' = NoCache /\ Ends /\ Misses /\ UNCHANGED faults
     \/ Fails /\ Ends /\ Misses /\ UNCHANGED cache
  /\ UNCHANGED <<unread, wrapped, pull, mismatch>>

\* cacheProject: the blob, then the entry with its version and copy of the DEK.
CacheBlob ==
  /\ pass.pc = "blob"
  /\ cache' = [cache EXCEPT !.blob = [pass.got EXCEPT !.ver = 0]]
  /\ Pass("meta")
  /\ UNCHANGED <<unread, wrapped, pull, mismatch, missed, faults>>

CacheMeta ==
  /\ pass.pc = "meta"
  /\ cache' = [cache EXCEPT !.ver = pass.got.ver, !.copy = pass.copy]
  /\ pass' = [NoPass EXCEPT !.pc = "interlock"] /\ missed' = FALSE
  /\ UNCHANGED <<unread, wrapped, pull, mismatch, faults>>

\* Mutant of Interlock: a mismatch is not looked at.
InterlockOpen ==
  /\ pass.pc = "interlock"
  /\ IF Me \notin Admins THEN Ends ELSE Pass("fetch")
  /\ UNCHANGED <<unread, wrapped, cache, pull, mismatch, missed, faults>>

\* Whether the phone may seal for others is looked at once, before it does.
Interlock ==
  /\ pass.pc = "interlock"
  /\ IF mismatch \/ Me \notin Admins THEN Ends ELSE Pass("fetch")
  /\ UNCHANGED <<unread, wrapped, cache, pull, mismatch, missed, faults>>

\* The vault is fetched again, and the DEK opened.
SealFetch ==
  /\ pass.pc = "fetch"
  /\ \/ /\ Opens(Me, wrapped[Me])
        /\ pass' = [pass EXCEPT !.pc = "pending", !.got = [proj EXCEPT !.hosts = NoHosts]] /\ UNCHANGED faults
     \/ ~Opens(Me, wrapped[Me]) /\ Ends /\ UNCHANGED faults
     \/ Fails /\ Ends
  /\ UNCHANGED <<unread, wrapped, cache, pull, mismatch, missed>>

SealPending ==
  /\ pass.pc = "pending"
  /\ \/ pass' = [pass EXCEPT !.pc = "submit",
          !.pend = {<<u, keys[u]>> : u \in {v \in members : wrapped[v] = NoCopy}}]
        /\ UNCHANGED faults
     \/ Fails /\ Ends
  /\ UNCHANGED <<unread, wrapped, cache, pull, mismatch, missed>>

\* Mutant of SealSubmit: the version submitted is not that of the DEK.
SealSubmitUnversioned ==
  /\ pass.pc = "submit"
  /\ \E m \in pass.pend :
       /\ pass' = [pass EXCEPT !.pend = @ \ {m}]
       /\ \/ Accepts(m[1], [dek |-> pass.got.dek, key |-> m[2]], proj.ver)
             /\ UNCHANGED faults
          \/ Fails /\ UNCHANGED wrapped
  /\ UNCHANGED <<unread, cache, pull, mismatch, missed>>

\* The DEK is sealed to a member's key and submitted, with the version it was read at.
SealSubmit ==
  /\ pass.pc = "submit"
  /\ \E m \in pass.pend :
       /\ pass' = [pass EXCEPT !.pend = @ \ {m}]
       /\ \/ Accepts(m[1], [dek |-> pass.got.dek, key |-> m[2]], pass.got.ver)
             /\ UNCHANGED faults
          \/ Fails /\ UNCHANGED wrapped
  /\ UNCHANGED <<unread, cache, pull, mismatch, missed>>

SealDone ==
  /\ pass.pc = "submit" /\ pass.pend = {}
  /\ Ends
  /\ UNCHANGED <<unread, wrapped, cache, pull, mismatch, missed, faults>>

\* The process ends.
Kill ==
  /\ "kill" \in Overlap \/ pass.pc # "meta"
  /\ Fails
  /\ Called(NoCall) /\ Ends /\ Misses /\ pull' = FALSE /\ mismatch' = FALSE
  /\ UNCHANGED <<server, personal, cache, rev, latest, wrote, others>>

-----------------------------------------------------------------------------
Sharing ==
  \/ Create \/ Republish
  \/ \E u \in User : Join(u) \/ Leave(u) \/ OtherSeals(u)
  \/ \E u \in Member : Rekey(u)
  \/ \E h \in Host : OtherEdit(h)
  \/ \E out \in User \cup {None} : Rotate(out)
Personal == \E h \in Host : EditPersonal(h) \/ DeletePersonal(h) \/ MoveStart(h) \/ RememberStart(h)
Writing  == WriteIdentity \/ WriteFetch \/ WritePut \/ WriteRefused \/ WriteFails \/ WriteDelete
Reading  == PassIdentity \/ PassList \/ PassVault \/ CacheBlob \/ CacheMeta
Sealing  == Interlock \/ SealFetch \/ SealPending \/ SealSubmit \/ SealDone

Next == Sharing \/ Personal \/ Writing \/ Focus \/ PassStart \/ Reading \/ Sealing \/ Kill
Spec == Init /\ [][Next]_vars

\* A pass that was asked for begins, and its requests are answered.
FairSpec == Spec /\ WF_vars(PassStart) /\ WF_vars(Reading \/ Sealing)
-----------------------------------------------------------------------------
(* Properties.                                                             *)

\* Whatever the last editor of a host made of it is in the phone's vault or in the
\* project: a move that fails, is refused or meets other writers loses nothing.
\* (moveHostToProject: "a failure never loses the host".)
HostNeverLost == \A h \in Host : latest[h] # 0 => latest[h] \in {personal[h], proj.hosts[h]}

\* Every copy of the DEK at the server is of the DEK its vault is sealed under, and
\* opens with its user's key: no member is keyed and shut out.  (finalizeProject.)
KeyedCanOpen ==
  \A u \in User : wrapped[u] # NoCopy => wrapped[u].dek = proj.dek /\ Opens(u, wrapped[u])

\* And the cached blob opens with the cached copy of the DEK, without the network,
\* except while the one is written and the other is not yet.
\* (cachedViews, readProjectStoredPassword.)
CacheOpens == cache.copy # NoCopy /\ pass.pc # "meta" => cache.copy.dek = cache.blob.dek
CopiesOpen == KeyedCanOpen /\ CacheOpens

\* The phone seals for nobody while it knows the account's published key to be wrong.
\* (identityMismatch.ts: interlocks "that must not run while it holds".)
NoSealUnderMismatch ==
  [][mismatch => \A u \in User : pass'.pend # pass.pend => wrapped'[u] = wrapped[u]]_vars

\* What a write that reported success put into the project comes to be in the cache,
\* unless a pass could not read it.  (setProjectHostPassword: "The re-pull is REQUIRED,
\* not optional".)
WrittenIsCached ==
  wrote > cache.ver ~> (cache.ver >= wrote \/ missed)
=============================================================================
