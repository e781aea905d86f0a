------------------------ MODULE ProjectSharing_proofs ------------------------
(***************************************************************************)
(* Proofs about the keys of projects (ProjectCrypto), for every key, and   *)
(* about ProjectSharing, for every set of users and hosts.  There, types   *)
(* hold whatever overlaps.  That no host is lost (Kept), that every member *)
(* with a copy of the key can open it (Keyed), that the cache opens, and   *)
(* that nobody is sealed for under a warning, need each that one kind of   *)
(* overlap does not happen: the one the program would have to exclude.     *)
(***************************************************************************)
EXTENDS ProjectSharing, ProjectCrypto, TLAPS

-----------------------------------------------------------------------------
(* Records written out: what each EXCEPT of the model makes. *)

\* A vault with another version.
LEMMA VaultVersion ==
  ASSUME NEW V, NEW D, NEW H,
         NEW v \in [ver : V, dek : D, hosts : H], NEW n,
         NEW w, w = [v EXCEPT !.ver = n]
  PROVE  w = [ver |-> n, dek |-> v.dek, hosts |-> v.hosts]
<1>1. [v EXCEPT !.ver = n]
      = [ver |-> n, dek |-> v.dek, hosts |-> v.hosts]
  BY SMT
<1> QED
  BY <1>1, Zenon

\* A vault with other hosts.
LEMMA VaultHosts ==
  ASSUME NEW V, NEW D, NEW H,
         NEW v \in [ver : V, dek : D, hosts : H], NEW x,
         NEW w, w = [v EXCEPT !.hosts = x]
  PROVE  w = [ver |-> v.ver, dek |-> v.dek, hosts |-> x]
<1>1. [v EXCEPT !.hosts = x]
      = [ver |-> v.ver, dek |-> v.dek, hosts |-> x]
  BY SMT
<1> QED
  BY <1>1, Zenon

\* A vault with one host changed.
LEMMA VaultHost ==
  ASSUME NEW V, NEW D, NEW H,
         NEW v \in [ver : V, dek : D, hosts : H], NEW h, NEW x,
         NEW w, w = [v EXCEPT !.hosts[h] = x]
  PROVE  w = [ver |-> v.ver, dek |-> v.dek, hosts |-> [v.hosts EXCEPT ![h] = x]]
<1>1. [v EXCEPT !.hosts[h] = x]
      = [ver |-> v.ver, dek |-> v.dek, hosts |-> [v.hosts EXCEPT ![h] = x]]
  BY SMT
<1> QED
  BY <1>1, Zenon

\* A vault of another version under another key.
LEMMA VaultMade ==
  ASSUME NEW V, NEW D, NEW H,
         NEW v \in [ver : V, dek : D, hosts : H], NEW n, NEW d,
         NEW w, w = [v EXCEPT !.ver = n, !.dek = d]
  PROVE  w = [ver |-> n, dek |-> d, hosts |-> v.hosts]
<1>1. [v EXCEPT !.ver = n]
      = [ver |-> n, dek |-> v.dek, hosts |-> v.hosts]
  BY SMT
<1>2. [[ver |-> n, dek |-> v.dek, hosts |-> v.hosts] EXCEPT !.dek = d]
      = [ver |-> n, dek |-> d, hosts |-> v.hosts]
  BY SMT
<1> QED
  BY <1>1, <1>2, Zenon

\* A vault whose hosts were written.
LEMMA VaultTaken ==
  ASSUME NEW V, NEW D, NEW H,
         NEW v \in [ver : V, dek : D, hosts : H], NEW n, NEW x,
         NEW w, w = [v EXCEPT !.ver = n, !.hosts = x]
  PROVE  w = [ver |-> n, dek |-> v.dek, hosts |-> x]
<1>1. [v EXCEPT !.ver = n]
      = [ver |-> n, dek |-> v.dek, hosts |-> v.hosts]
  BY SMT
<1>2. [[ver |-> n, dek |-> v.dek, hosts |-> v.hosts] EXCEPT !.hosts = x]
      = [ver |-> n, dek |-> v.dek, hosts |-> x]
  BY SMT
<1> QED
  BY <1>1, <1>2, Zenon

\* A vault of which one host was written.
LEMMA VaultEdited ==
  ASSUME NEW V, NEW D, NEW H,
         NEW v \in [ver : V, dek : D, hosts : H], NEW h, NEW x,
         NEW w, w = [v EXCEPT !.ver = @ + 1, !.hosts[h] = x]
  PROVE  w = [ver |-> v.ver + 1, dek |-> v.dek, hosts |-> [v.hosts EXCEPT ![h] = x]]
<1>1. PICK n1 : n1 = v.ver + 1
  OBVIOUS
<1>2. [v EXCEPT !.ver = n1]
      = [ver |-> n1, dek |-> v.dek, hosts |-> v.hosts]
  BY SMT
<1>3. [[ver |-> n1, dek |-> v.dek, hosts |-> v.hosts] EXCEPT !.hosts[h] = x]
      = [ver |-> n1, dek |-> v.dek, hosts |-> [v.hosts EXCEPT ![h] = x]]
  BY SMT
<1> QED
  BY <1>1, <1>2, <1>3, Zenon

\* A vault under its next key.
LEMMA VaultRotated ==
  ASSUME NEW V, NEW D, NEW H,
         NEW v \in [ver : V, dek : D, hosts : H],
         NEW w, w = [v EXCEPT !.ver = @ + 1, !.dek = @ + 1]
  PROVE  w = [ver |-> v.ver + 1, dek |-> v.dek + 1, hosts |-> v.hosts]
<1>1. PICK n1 : n1 = v.ver + 1
  OBVIOUS
<1>2. PICK n2 : n2 = v.dek + 1
  OBVIOUS
<1>3. [v EXCEPT !.ver = n1]
      = [ver |-> n1, dek |-> v.dek, hosts |-> v.hosts]
  BY SMT
<1>4. [[ver |-> n1, dek |-> v.dek, hosts |-> v.hosts] EXCEPT !.dek = n2]
      = [ver |-> n1, dek |-> n2, hosts |-> v.hosts]
  BY SMT
<1> QED
  BY <1>1, <1>2, <1>3, <1>4, Zenon

\* A write at its next step.
LEMMA CallAt ==
  ASSUME NEW P, NEW B, NEW S, NEW X, NEW T, NEW G,
         NEW c \in [pc : P, move : B, host : S, val : X, tries : T, got : G], NEW a,
         NEW w, w = [c EXCEPT !.pc = a]
  PROVE  w = [pc |-> a, move |-> c.move, host |-> c.host, val |-> c.val, tries |-> c.tries,
              got |-> c.got]
<1>1. [c EXCEPT !.pc = a]
      = [pc |-> a, move |-> c.move, host |-> c.host, val |-> c.val, tries |-> c.tries,
         got |-> c.got]
  BY SMT
<1> QED
  BY <1>1, Zenon

\* A write with what it fetched.
LEMMA CallFetched ==
  ASSUME NEW P, NEW B, NEW S, NEW X, NEW T, NEW G,
         NEW c \in [pc : P, move : B, host : S, val : X, tries : T, got : G], NEW a, NEW g,
         NEW w, w = [c EXCEPT !.pc = a, !.got = g]
  PROVE  w = [pc |-> a, move |-> c.move, host |-> c.host, val |-> c.val, tries |-> c.tries,
              got |-> g]
<1>1. [c EXCEPT !.pc = a]
      = [pc |-> a, move |-> c.move, host |-> c.host, val |-> c.val, tries |-> c.tries,
         got |-> c.got]
  BY SMT
<1>2. [[pc |-> a, move |-> c.move, host |-> c.host, val |-> c.val, tries |-> c.tries,
        got |-> c.got] EXCEPT !.got = g]
      = [pc |-> a, move |-> c.move, host |-> c.host, val |-> c.val, tries |-> c.tries, got |-> g]
  BY SMT
<1> QED
  BY <1>1, <1>2, Zenon

\* A write tried again.
LEMMA CallRetried ==
  ASSUME NEW P, NEW B, NEW S, NEW X, NEW T, NEW G,
         NEW c \in [pc : P, move : B, host : S, val : X, tries : T, got : G], NEW a, NEW g,
         NEW w, w = [c EXCEPT !.pc = a, !.tries = @ + 1, !.got = g]
  PROVE  w = [pc |-> a, move |-> c.move, host |-> c.host, val |-> c.val, tries |-> c.tries + 1,
              got |-> g]
<1>1. PICK n1 : n1 = c.tries + 1
  OBVIOUS
<1>2. [c EXCEPT !.pc = a]
      = [pc |-> a, move |-> c.move, host |-> c.host, val |-> c.val, tries |-> c.tries,
         got |-> c.got]
  BY SMT
<1>3. [[pc |-> a, move |-> c.move, host |-> c.host, val |-> c.val, tries |-> c.tries,
        got |-> c.got] EXCEPT !.tries = n1]
      = [pc |-> a, move |-> c.move, host |-> c.host, val |-> c.val, tries |-> n1, got |-> c.got]
  BY SMT
<1>4. [[pc |-> a, move |-> c.move, host |-> c.host, val |-> c.val, tries |-> n1,
        got |-> c.got] EXCEPT !.got = g]
      = [pc |-> a, move |-> c.move, host |-> c.host, val |-> c.val, tries |-> n1, got |-> g]
  BY SMT
<1> QED
  BY <1>1, <1>2, <1>3, <1>4, Zenon

\* A write that moves a host.
LEMMA CallMoves ==
  ASSUME NEW P, NEW B, NEW S, NEW X, NEW T, NEW G,
         NEW c \in [pc : P, move : B, host : S, val : X, tries : T, got : G], NEW a, NEW b,
         NEW s, NEW x,
         NEW w, w = [c EXCEPT !.pc = a, !.move = b, !.host = s, !.val = x]
  PROVE  w = [pc |-> a, move |-> b, host |-> s, val |-> x, tries |-> c.tries, got |-> c.got]
<1>1. [c EXCEPT !.pc = a]
      = [pc |-> a, move |-> c.move, host |-> c.host, val |-> c.val, tries |-> c.tries,
         got |-> c.got]
  BY SMT
<1>2. [[pc |-> a, move |-> c.move, host |-> c.host, val |-> c.val, tries |-> c.tries,
        got |-> c.got] EXCEPT !.move = b]
      = [pc |-> a, move |-> b, host |-> c.host, val |-> c.val, tries |-> c.tries, got |-> c.got]
  BY SMT
<1>3. [[pc |-> a, move |-> b, host |-> c.host, val |-> c.val, tries |-> c.tries,
        got |-> c.got] EXCEPT !.host = s]
      = [pc |-> a, move |-> b, host |-> s, val |-> c.val, tries |-> c.tries, got |-> c.got]
  BY SMT
<1>4. [[pc |-> a, move |-> b, host |-> s, val |-> c.val, tries |-> c.tries,
        got |-> c.got] EXCEPT !.val = x]
      = [pc |-> a, move |-> b, host |-> s, val |-> x, tries |-> c.tries, got |-> c.got]
  BY SMT
<1> QED
  BY <1>1, <1>2, <1>3, <1>4, Zenon

\* A write that keeps a password.
LEMMA CallKeeps ==
  ASSUME NEW P, NEW B, NEW S, NEW X, NEW T, NEW G,
         NEW c \in [pc : P, move : B, host : S, val : X, tries : T, got : G], NEW a, NEW s, NEW x,
         NEW w, w = [c EXCEPT !.pc = a, !.host = s, !.val = x]
  PROVE  w = [pc |-> a, move |-> c.move, host |-> s, val |-> x, tries |-> c.tries, got |-> c.got]
<1>1. [c EXCEPT !.pc = a]
      = [pc |-> a, move |-> c.move, host |-> c.host, val |-> c.val, tries |-> c.tries,
         got |-> c.got]
  BY SMT
<1>2. [[pc |-> a, move |-> c.move, host |-> c.host, val |-> c.val, tries |-> c.tries,
        got |-> c.got] EXCEPT !.host = s]
      = [pc |-> a, move |-> c.move, host |-> s, val |-> c.val, tries |-> c.tries, got |-> c.got]
  BY SMT
<1>3. [[pc |-> a, move |-> c.move, host |-> s, val |-> c.val, tries |-> c.tries,
        got |-> c.got] EXCEPT !.val = x]
      = [pc |-> a, move |-> c.move, host |-> s, val |-> x, tries |-> c.tries, got |-> c.got]
  BY SMT
<1> QED
  BY <1>1, <1>2, <1>3, Zenon

\* A pass at its next step.
LEMMA PassAt ==
  ASSUME NEW P, NEW G, NEW C, NEW Q,
         NEW p \in [pc : P, got : G, copy : C, pend : Q], NEW a,
         NEW w, w = [p EXCEPT !.pc = a]
  PROVE  w = [pc |-> a, got |-> p.got, copy |-> p.copy, pend |-> p.pend]
<1>1. [p EXCEPT !.pc = a]
      = [pc |-> a, got |-> p.got, copy |-> p.copy, pend |-> p.pend]
  BY SMT
<1> QED
  BY <1>1, Zenon

\* A pass with the vault and its copy of the key.
LEMMA PassRead ==
  ASSUME NEW P, NEW G, NEW C, NEW Q,
         NEW p \in [pc : P, got : G, copy : C, pend : Q], NEW a, NEW g, NEW k,
         NEW w, w = [p EXCEPT !.pc = a, !.got = g, !.copy = k]
  PROVE  w = [pc |-> a, got |-> g, copy |-> k, pend |-> p.pend]
<1>1. [p EXCEPT !.pc = a]
      = [pc |-> a, got |-> p.got, copy |-> p.copy, pend |-> p.pend]
  BY SMT
<1>2. [[pc |-> a, got |-> p.got, copy |-> p.copy, pend |-> p.pend] EXCEPT !.got = g]
      = [pc |-> a, got |-> g, copy |-> p.copy, pend |-> p.pend]
  BY SMT
<1>3. [[pc |-> a, got |-> g, copy |-> p.copy, pend |-> p.pend] EXCEPT !.copy = k]
      = [pc |-> a, got |-> g, copy |-> k, pend |-> p.pend]
  BY SMT
<1> QED
  BY <1>1, <1>2, <1>3, Zenon

\* A pass with the vault it is to seal.
LEMMA PassFetched ==
  ASSUME NEW P, NEW G, NEW C, NEW Q,
         NEW p \in [pc : P, got : G, copy : C, pend : Q], NEW a, NEW g,
         NEW w, w = [p EXCEPT !.pc = a, !.got = g]
  PROVE  w = [pc |-> a, got |-> g, copy |-> p.copy, pend |-> p.pend]
<1>1. [p EXCEPT !.pc = a]
      = [pc |-> a, got |-> p.got, copy |-> p.copy, pend |-> p.pend]
  BY SMT
<1>2. [[pc |-> a, got |-> p.got, copy |-> p.copy, pend |-> p.pend] EXCEPT !.got = g]
      = [pc |-> a, got |-> g, copy |-> p.copy, pend |-> p.pend]
  BY SMT
<1> QED
  BY <1>1, <1>2, Zenon

\* A pass with the members it is to seal for.
LEMMA PassPending ==
  ASSUME NEW P, NEW G, NEW C, NEW Q,
         NEW p \in [pc : P, got : G, copy : C, pend : Q], NEW a, NEW q,
         NEW w, w = [p EXCEPT !.pc = a, !.pend = q]
  PROVE  w = [pc |-> a, got |-> p.got, copy |-> p.copy, pend |-> q]
<1>1. [p EXCEPT !.pc = a]
      = [pc |-> a, got |-> p.got, copy |-> p.copy, pend |-> p.pend]
  BY SMT
<1>2. [[pc |-> a, got |-> p.got, copy |-> p.copy, pend |-> p.pend] EXCEPT !.pend = q]
      = [pc |-> a, got |-> p.got, copy |-> p.copy, pend |-> q]
  BY SMT
<1> QED
  BY <1>1, <1>2, Zenon

\* A pass with one member less.
LEMMA PassSealed ==
  ASSUME NEW P, NEW G, NEW C, NEW Q,
         NEW p \in [pc : P, got : G, copy : C, pend : Q], NEW m,
         NEW w, w = [p EXCEPT !.pend = @ \ {m}]
  PROVE  w = [pc |-> p.pc, got |-> p.got, copy |-> p.copy, pend |-> p.pend \ {m}]
<1>1. PICK n1 : n1 = p.pend \ {m}
  OBVIOUS
<1>2. [p EXCEPT !.pend = n1]
      = [pc |-> p.pc, got |-> p.got, copy |-> p.copy, pend |-> n1]
  BY SMT
<1> QED
  BY <1>1, <1>2, Zenon

\* The cache with a new blob.
LEMMA CacheBlobbed ==
  ASSUME NEW L, NEW V, NEW C,
         NEW c \in [blob : L, ver : V, copy : C], NEW x,
         NEW w, w = [c EXCEPT !.blob = x]
  PROVE  w = [blob |-> x, ver |-> c.ver, copy |-> c.copy]
<1>1. [c EXCEPT !.blob = x]
      = [blob |-> x, ver |-> c.ver, copy |-> c.copy]
  BY SMT
<1> QED
  BY <1>1, Zenon

\* The cache with a new entry.
LEMMA CacheEntered ==
  ASSUME NEW L, NEW V, NEW C,
         NEW c \in [blob : L, ver : V, copy : C], NEW n, NEW k,
         NEW w, w = [c EXCEPT !.ver = n, !.copy = k]
  PROVE  w = [blob |-> c.blob, ver |-> n, copy |-> k]
<1>1. [c EXCEPT !.ver = n]
      = [blob |-> c.blob, ver |-> n, copy |-> c.copy]
  BY SMT
<1>2. [[blob |-> c.blob, ver |-> n, copy |-> c.copy] EXCEPT !.copy = k]
      = [blob |-> c.blob, ver |-> n, copy |-> k]
  BY SMT
<1> QED
  BY <1>1, <1>2, Zenon

-----------------------------------------------------------------------------
(* The flags, apart. *)

\* The flags among the variables.
Flags == pull \in BOOLEAN /\ mismatch \in BOOLEAN /\ missed \in BOOLEAN

\* Proved apart: a flag assigned a truth value is a flag.
LEMMA FlagsStep == Flags /\ [Next]_vars => Flags'
<1> SUFFICES ASSUME Flags, [Next]_vars PROVE Flags'
  OBVIOUS
<1> USE DEF Flags, server, untouched, unwritten, unread, Fails, Edits, Others, Pass,
        Called, Ends, Misses, Give, Written
<1>1. CASE Create
  BY <1>1, Zenon DEF Create
<1>2. CASE Republish
  BY <1>2, Zenon DEF Republish
<1>3. ASSUME NEW u \in User, Join(u) PROVE Flags'
  BY <1>3, Zenon DEF Join
<1>4. ASSUME NEW u \in User, Leave(u) PROVE Flags'
  BY <1>4, Zenon DEF Leave
<1>5. ASSUME NEW u \in User, OtherSeals(u) PROVE Flags'
  BY <1>5, Zenon DEF OtherSeals
<1>6. ASSUME NEW u \in Member, Rekey(u) PROVE Flags'
  BY <1>6, Zenon DEF Rekey
<1>7. ASSUME NEW h \in Host, OtherEdit(h) PROVE Flags'
  BY <1>7, Zenon DEF OtherEdit
<1>8. ASSUME NEW out \in User \cup {None}, Rotate(out) PROVE Flags'
  BY <1>8, Zenon DEF Rotate
<1>9. ASSUME NEW h \in Host, EditPersonal(h) PROVE Flags'
  BY <1>9, Zenon DEF EditPersonal
<1>10. ASSUME NEW h \in Host, DeletePersonal(h) PROVE Flags'
  BY <1>10, Zenon DEF DeletePersonal
<1>11. ASSUME NEW h \in Host, MoveStart(h) PROVE Flags'
  BY <1>11, Zenon DEF MoveStart
<1>12. ASSUME NEW h \in Host, RememberStart(h) PROVE Flags'
  BY <1>12, Zenon DEF RememberStart
<1>13. CASE WriteIdentity
  BY <1>13, Zenon DEF WriteIdentity
<1>14. CASE WriteFetch
  BY <1>14, Zenon DEF WriteFetch
<1>15. CASE WritePut
  BY <1>15, Zenon DEF WritePut
<1>16. CASE WriteRefused
  BY <1>16, Zenon DEF WriteRefused
<1>17. CASE WriteFails
  BY <1>17, Zenon DEF WriteFails
<1>18. CASE WriteDelete
  BY <1>18, Zenon DEF WriteDelete
<1>19. CASE Focus
  BY <1>19, Zenon DEF Focus
<1>20. CASE PassStart
  BY <1>20, Zenon DEF PassStart
<1>21. CASE PassIdentity
  BY <1>21, Zenon DEF PassIdentity
<1>22. CASE PassList
  BY <1>22, Zenon DEF PassList
<1>23. CASE PassVault
  BY <1>23, Zenon DEF PassVault
<1>24. CASE CacheBlob
  BY <1>24, Zenon DEF CacheBlob
<1>25. CASE CacheMeta
  BY <1>25, Zenon DEF CacheMeta
<1>26. CASE Interlock
  BY <1>26, Zenon DEF Interlock
<1>27. CASE SealFetch
  BY <1>27, Zenon DEF SealFetch
<1>28. CASE SealPending
  BY <1>28, Zenon DEF SealPending
<1>29. CASE SealSubmit
  BY <1>29, Zenon DEF SealSubmit
<1>30. CASE SealDone
  BY <1>30, Zenon DEF SealDone
<1>31. CASE Kill
  BY <1>31, Zenon DEF Kill
<1>32. CASE UNCHANGED vars
  BY <1>32, Zenon DEF vars
<1> QED
  BY <1>1, <1>2, <1>3, <1>4, <1>5, <1>6, <1>7, <1>8, <1>9, <1>10, <1>11, <1>12, <1>13, <1>14,
     <1>15, <1>16, <1>17, <1>18, <1>19, <1>20, <1>21, <1>22, <1>23, <1>24, <1>25, <1>26, <1>27,
     <1>28, <1>29, <1>30, <1>31, <1>32
    DEF Next, Sharing, Personal, Writing, Reading, Sealing

-----------------------------------------------------------------------------
(* What the steps make of the project, the write and the pass. *)

\* The steps of a write, and of a pass.
CallPc == {"idle", "identity", "fetch", "put", "delete"}
PassPc == {"idle", "identity", "list", "vault", "blob", "meta", "interlock", "fetch", "pending",
           "submit"}

\* The writes, with any set of values for their flag.
Calls(B) == [pc : CallPc, move : B, host : Host \cup {None}, val : 0..MaxRev,
             tries : 0..MaxAttempts - 1, got : Vault]
\* The passes and the caches.
Passes   == [pc : PassPc, got : Vault, copy : Copy, pend : SUBSET (User \X Nat)]
Caches   == [blob : Vault, ver : Nat, copy : Copy]

\* The records among the variables.
Records == proj \in Vault /\ call \in Calls(BOOLEAN) /\ pass \in Passes /\ cache \in Caches

\* The constants are what their names say.
LEMMA Constants ==
  /\ NoHosts \in Hosts /\ NoVault \in Vault /\ NoCopy \in Copy /\ NoPass \in Passes
     /\ NoCache \in Caches
  /\ NoCall \in Calls(BOOLEAN)
  /\ MaxAttempts \in Nat \ {0} /\ MaxRev \in Nat \ {0} /\ MaxOther \in Nat /\ MaxFaults \in Nat
<1>1. MaxAttempts \in Nat \ {0} /\ MaxRev \in Nat \ {0} /\ MaxOther \in Nat /\ MaxFaults \in Nat
  BY BoundsAreNat, SomethingIsTried
<1>2. 0 \in 0..MaxRev /\ 0 \in 0..MaxAttempts - 1
  BY <1>1
<1>3. NoHosts \in Hosts /\ NoCopy \in Copy
  BY <1>2 DEF NoHosts, Hosts, NoCopy, Copy
<1>4. NoVault \in Vault
  BY <1>3 DEF NoVault, Vault
<1>5. NoPass \in Passes /\ NoCache \in Caches
  BY <1>3, <1>4 DEF NoPass, Passes, PassPc, NoCache, Caches
<1>6. ASSUME NEW B, NEW b \in B
      PROVE  [pc |-> "idle", move |-> b, host |-> None, val |-> 0, tries |-> 0,
              got |-> NoVault] \in Calls(B)
  BY <1>2, <1>4 DEF Calls, CallPc
<1>7. NoCall \in Calls(BOOLEAN)
  BY <1>6, Zenon DEF NoCall
<1> QED
  BY <1>1, <1>3, <1>4, <1>5, <1>7

\* The project as it is made.
LEMMA CreateEffect ==
  ASSUME Create
  PROVE  proj' = [ver |-> 1, dek |-> 1, hosts |-> NoHosts]
<1>1. proj' = [NoVault EXCEPT !.ver = 1, !.dek = 1]
  BY DEF Create
<1>2. proj' = [ver |-> 1, dek |-> 1, hosts |-> NoVault.hosts]
  BY <1>1, Constants, VaultMade, Zenon DEF Vault
<1> QED
  BY <1>2 DEF NoVault

\* The project after another member's edit or deletion of a host, at its next version.
LEMMA EditEffect ==
  ASSUME proj \in Vault, rev \in 0..MaxRev, NEW h \in Host, OtherEdit(h)
  PROVE  \E x \in 0..MaxRev :
           /\ proj' = [ver |-> proj.ver + 1, dek |-> proj.dek,
                       hosts |-> [proj.hosts EXCEPT ![h] = x]]
           /\ latest' = [latest EXCEPT ![h] = x]
           /\ rev' \in 0..MaxRev
<1>1. CASE /\ Edits
           /\ proj' = [proj EXCEPT !.ver = @ + 1, !.hosts[h] = rev']
           /\ latest' = [latest EXCEPT ![h] = rev']
  <2>1. rev' \in 0..MaxRev
    BY <1>1, Constants DEF Edits
  <2>2. proj' = [ver |-> proj.ver + 1, dek |-> proj.dek, hosts |-> [proj.hosts EXCEPT ![h] = rev']]
    BY <1>1, VaultEdited, Zenon DEF Vault
  <2> QED
    BY <1>1, <2>1, <2>2
<1>2. CASE /\ proj' = [proj EXCEPT !.ver = @ + 1, !.hosts[h] = 0]
           /\ latest' = [latest EXCEPT ![h] = 0]
           /\ UNCHANGED rev
  <2>1. 0 \in 0..MaxRev
    BY Constants
  <2>2. proj' = [ver |-> proj.ver + 1, dek |-> proj.dek, hosts |-> [proj.hosts EXCEPT ![h] = 0]]
    BY <1>2, VaultEdited, Zenon DEF Vault
  <2> QED
    BY <1>2, <2>1, <2>2
<1> QED
  BY <1>1, <1>2, Zenon DEF OtherEdit

\* The project under its next key, at its next version.
LEMMA RotateEffect ==
  ASSUME proj \in Vault, NEW out, Rotate(out)
  PROVE  proj' = [ver |-> proj.ver + 1, dek |-> proj.dek + 1, hosts |-> proj.hosts]
<1>1. proj' = [proj EXCEPT !.ver = @ + 1, !.dek = @ + 1]
  BY Zenon DEF Rotate
<1> QED
  BY <1>1, VaultRotated, Zenon DEF Vault

\* The project as the server takes a write of its current version.
LEMMA TakesEffect ==
  ASSUME proj \in Vault, NEW v, NEW H, Takes(v, H)
  PROVE  proj' = [ver |-> proj.ver + 1, dek |-> proj.dek, hosts |-> H] /\ proj.ver = v
<1>1. PICK n : n = v + 1 /\ proj' = [proj EXCEPT !.ver = n, !.hosts = H]
  BY Zenon DEF Takes
<1>2. proj' = [ver |-> n, dek |-> proj.dek, hosts |-> H]
  BY <1>1, VaultTaken, Zenon DEF Vault
<1> QED
  BY <1>1, <1>2 DEF Takes

\* The write under way, at another step.
LEMMA CallEffect ==
  ASSUME Records, NEW a \in CallPc, call' = [call EXCEPT !.pc = a]
  PROVE  call' = [pc |-> a, move |-> call.move, host |-> call.host, val |-> call.val,
                  tries |-> call.tries, got |-> call.got]
BY CallAt, Zenon DEF Records, Calls

\* The write with the vault it fetched, its host put in.
LEMMA FetchEffect ==
  ASSUME Records, call.host \in Host,
         call' = [call EXCEPT !.pc = "put", !.got = [proj EXCEPT !.hosts[call.host] = call.val]]
  PROVE  call' = [pc |-> "put", move |-> call.move, host |-> call.host, val |-> call.val,
                  tries |-> call.tries,
                  got |-> [ver |-> proj.ver, dek |-> proj.dek,
                           hosts |-> [proj.hosts EXCEPT ![call.host] = call.val]]]
<1>1. PICK g : g = [proj EXCEPT !.hosts[call.host] = call.val]
  OBVIOUS
<1>2. g = [ver |-> proj.ver, dek |-> proj.dek,
           hosts |-> [proj.hosts EXCEPT ![call.host] = call.val]]
  BY <1>1, VaultHost, Zenon DEF Records, Vault
<1>3. call' = [call EXCEPT !.pc = "put", !.got = g]
  BY <1>1
<1>4. call' = [pc |-> "put", move |-> call.move, host |-> call.host, val |-> call.val,
               tries |-> call.tries, got |-> g]
  BY <1>3, CallFetched, Zenon DEF Records, Calls
<1> QED
  BY <1>2, <1>4

\* The write begun again, one attempt later.
LEMMA RetryEffect ==
  ASSUME Records, call' = [call EXCEPT !.pc = "fetch", !.tries = @ + 1, !.got = NoVault]
  PROVE  call' = [pc |-> "fetch", move |-> call.move, host |-> call.host, val |-> call.val,
                  tries |-> call.tries + 1, got |-> NoVault]
BY CallRetried, Zenon DEF Records, Calls

\* The write that moves a host, as it begins.
LEMMA MoveEffect ==
  ASSUME NEW h, NEW x, call' = [NoCall EXCEPT !.pc = "identity", !.move = TRUE, !.host = h,
                                !.val = x]
  PROVE  call' = [pc |-> "identity", move |-> TRUE, host |-> h, val |-> x, tries |-> 0,
                  got |-> NoVault]
<1>1. call' = [pc |-> "identity", move |-> TRUE, host |-> h, val |-> x,
               tries |-> NoCall.tries, got |-> NoCall.got]
  BY Constants, CallMoves, Zenon DEF Calls
<1> QED
  BY <1>1, Zenon DEF NoCall

\* The write that keeps a password, as it begins.
LEMMA RememberEffect ==
  ASSUME NEW h, NEW x, call' = [NoCall EXCEPT !.pc = "identity", !.host = h, !.val = x]
  PROVE  call' = [pc |-> "identity", move |-> FALSE, host |-> h, val |-> x, tries |-> 0,
                  got |-> NoVault]
<1>1. call' = [pc |-> "identity", move |-> NoCall.move, host |-> h, val |-> x,
               tries |-> NoCall.tries, got |-> NoCall.got]
  BY Constants, CallKeeps, Zenon DEF Calls
<1> QED
  BY <1>1, Zenon DEF NoCall

\* The moved host that is now to be deleted, with the version it was written at.
LEMMA DeleteEffect ==
  ASSUME Records, proj' \in Vault,
         call' = [call EXCEPT !.pc = "delete", !.got = [NoVault EXCEPT !.ver = proj'.ver]]
  PROVE  call' = [pc |-> "delete", move |-> call.move, host |-> call.host, val |-> call.val,
                  tries |-> call.tries, got |-> [ver |-> proj'.ver, dek |-> 0, hosts |-> NoHosts]]
<1>1. PICK g : g = [NoVault EXCEPT !.ver = proj'.ver]
  OBVIOUS
<1>2. g = [ver |-> proj'.ver, dek |-> NoVault.dek, hosts |-> NoVault.hosts]
  BY <1>1, Constants, VaultVersion, Zenon DEF Vault
<1>3. g = [ver |-> proj'.ver, dek |-> 0, hosts |-> NoHosts]
  BY <1>2 DEF NoVault
<1>4. call' = [pc |-> "delete", move |-> call.move, host |-> call.host, val |-> call.val,
               tries |-> call.tries, got |-> g]
  BY <1>1, CallFetched, Zenon DEF Records, Calls
<1> QED
  BY <1>3, <1>4

\* The pass under way, at another step.
LEMMA PassEffect ==
  ASSUME Records, NEW a \in PassPc, Pass(a)
  PROVE  pass' = [pc |-> a, got |-> pass.got, copy |-> pass.copy, pend |-> pass.pend]
BY PassAt, Zenon DEF Records, Passes, Pass

\* The pass with the project's vault and the user's copy of its key.
LEMMA ReadEffect ==
  ASSUME Records, pass' = [pass EXCEPT !.pc = "blob", !.got = proj, !.copy = wrapped[Me]]
  PROVE  pass' = [pc |-> "blob", got |-> proj, copy |-> wrapped[Me], pend |-> pass.pend]
BY PassRead, Zenon DEF Records, Passes

\* The cache with the blob the pass read, its entry the old one.
LEMMA BlobEffect ==
  ASSUME Records, CacheBlob
  PROVE  /\ cache' = [blob |-> [ver |-> 0, dek |-> pass.got.dek, hosts |-> pass.got.hosts],
                      ver |-> cache.ver, copy |-> cache.copy]
         /\ pass' = [pc |-> "meta", got |-> pass.got, copy |-> pass.copy, pend |-> pass.pend]
<1>0. pass.got \in Vault
  BY DEF Records, Passes
<1>1. PICK b : b = [pass.got EXCEPT !.ver = 0]
  OBVIOUS
<1>2. b = [ver |-> 0, dek |-> pass.got.dek, hosts |-> pass.got.hosts]
  BY <1>0, <1>1, VaultVersion, Zenon DEF Vault
<1>3. cache' = [cache EXCEPT !.blob = b]
  BY <1>1, Zenon DEF CacheBlob
<1>4. cache' = [blob |-> b, ver |-> cache.ver, copy |-> cache.copy]
  BY <1>3, CacheBlobbed, Zenon DEF Records, Caches
<1>5. Pass("meta") /\ "meta" \in PassPc
  BY DEF CacheBlob, PassPc
<1> QED
  BY <1>2, <1>4, <1>5, PassEffect

\* The cache with the entry as well; the pass forgets what it read.
LEMMA MetaEffect ==
  ASSUME Records, CacheMeta
  PROVE  /\ cache' = [blob |-> cache.blob, ver |-> pass.got.ver, copy |-> pass.copy]
         /\ pass' = [pc |-> "interlock", got |-> NoVault, copy |-> NoCopy, pend |-> {}]
<1>1. cache' = [cache EXCEPT !.ver = pass.got.ver, !.copy = pass.copy]
  BY Zenon DEF CacheMeta
<1>2. cache' = [blob |-> cache.blob, ver |-> pass.got.ver, copy |-> pass.copy]
  BY <1>1, CacheEntered, Zenon DEF Records, Caches
<1>3. pass' = [NoPass EXCEPT !.pc = "interlock"]
  BY Zenon DEF CacheMeta
<1>4. pass' = [pc |-> "interlock", got |-> NoPass.got, copy |-> NoPass.copy, pend |-> NoPass.pend]
  BY <1>3, Constants, PassAt, Zenon DEF Passes
<1> QED
  BY <1>2, <1>4 DEF NoPass

\* The pass with the key it is to seal, and the version that key was read at.
LEMMA SealFetchEffect ==
  ASSUME Records, pass' = [pass EXCEPT !.pc = "pending", !.got = [proj EXCEPT !.hosts = NoHosts]]
  PROVE  pass' = [pc |-> "pending", got |-> [ver |-> proj.ver, dek |-> proj.dek, hosts |-> NoHosts],
                  copy |-> pass.copy, pend |-> pass.pend]
<1>1. PICK g : g = [proj EXCEPT !.hosts = NoHosts]
  OBVIOUS
<1>2. g = [ver |-> proj.ver, dek |-> proj.dek, hosts |-> NoHosts]
  BY <1>1, VaultHosts, Zenon DEF Records, Vault
<1>3. pass' = [pc |-> "pending", got |-> g, copy |-> pass.copy, pend |-> pass.pend]
  BY <1>1, PassFetched, Zenon DEF Records, Passes
<1> QED
  BY <1>2, <1>3

\* The members without a copy, each with the key it has.
Pending == {<<u, keys[u]>> : u \in {v \in members : wrapped[v] = NoCopy}}

\* The pass with the members it is to seal for, each with the key it has now.
LEMMA PendingEffect ==
  ASSUME Records, SealPending
  PROVE  \/ pass' = [pc |-> "submit", got |-> pass.got, copy |-> pass.copy, pend |-> Pending]
         \/ pass' = NoPass
<1>1. PICK q : q = Pending
  OBVIOUS
<1>2. pass' = [pass EXCEPT !.pc = "submit", !.pend = q] \/ pass' = NoPass
  BY <1>1, Zenon DEF SealPending, Pending, Ends
<1>3. ASSUME pass' = [pass EXCEPT !.pc = "submit", !.pend = q]
      PROVE  pass' = [pc |-> "submit", got |-> pass.got, copy |-> pass.copy, pend |-> q]
  BY <1>3, PassPending, Zenon DEF Records, Passes
<1> QED
  BY <1>1, <1>2, <1>3

\* The pass less one member, which the server may have taken a copy for.
LEMMA SubmitEffect ==
  ASSUME Records, SealSubmit
  PROVE  \E m \in pass.pend :
           /\ pass' = [pc |-> pass.pc, got |-> pass.got, copy |-> pass.copy,
                       pend |-> pass.pend \ {m}]
           /\ \/ Accepts(m[1], [dek |-> pass.got.dek, key |-> m[2]], pass.got.ver)
                 /\ UNCHANGED faults
              \/ Fails /\ UNCHANGED wrapped
<1>1. PICK m \in pass.pend :
        /\ pass' = [pass EXCEPT !.pend = @ \ {m}]
        /\ \/ Accepts(m[1], [dek |-> pass.got.dek, key |-> m[2]], pass.got.ver) /\ UNCHANGED faults
           \/ Fails /\ UNCHANGED wrapped
  BY Zenon DEF SealSubmit
<1>2. pass' = [pc |-> pass.pc, got |-> pass.got, copy |-> pass.copy, pend |-> pass.pend \ {m}]
  BY <1>1, PassSealed, Zenon DEF Records, Passes
<1> QED
  BY <1>1, <1>2

-----------------------------------------------------------------------------
(* Who changes what: every step is looked at. *)

USE DEF Next, Sharing, Personal, Writing, Reading, Sealing, Create, Republish, Join,
        Leave, OtherSeals, Rekey, OtherEdit, Rotate, EditPersonal, DeletePersonal, MoveStart,
        RememberStart, WriteIdentity, WriteFetch, WritePut, WriteRefused, WriteFails,
        WriteDelete, Focus, PassStart, PassIdentity, PassList, PassVault, CacheBlob, CacheMeta,
        Interlock, SealFetch, SealPending, SealSubmit, SealDone, Kill, vars, server, untouched,
        unwritten, unread, Fails, Edits, Others, Pass, Called, Ends, Misses, Give, Written

\* Only the steps of a pass, and the end of the process, change the pass.
LEMMA WhoPasses == [Next]_vars => UNCHANGED pass \/ PassStart \/ Reading \/ Sealing \/ Kill
BY Zenon

\* Only the steps of a write, and the end of the process, change the write.
LEMMA WhoCalls ==
  [Next]_vars => \/ UNCHANGED call \/ Writing \/ Kill
                 \/ \E h \in Host : MoveStart(h) \/ RememberStart(h)
BY Zenon

\* Only the steps that read change the cache.
LEMMA WhoCaches ==
  [Next]_vars => UNCHANGED cache \/ PassList \/ PassVault \/ CacheBlob \/ CacheMeta
BY Zenon

\* Only these change the project.
LEMMA WhoWrites ==
  [Next]_vars => \/ UNCHANGED <<proj, rotated>> \/ Create \/ WritePut
                 \/ \E h \in Host : OtherEdit(h)
                 \/ \E out \in User \cup {None} : Rotate(out)
BY Zenon

\* Only these change its members, their copies of its key, or their keys.
LEMMA WhoKeys ==
  [Next]_vars => \/ UNCHANGED <<members, wrapped, keys>> \/ Create \/ Republish \/ SealSubmit
                 \/ \E u \in User : Join(u) \/ Leave(u) \/ OtherSeals(u)
                 \/ \E u \in Member : Rekey(u)
                 \/ \E out \in User \cup {None} : Rotate(out)
BY Zenon

\* Only these change what the phone's vault holds, or what a host's last editor made of it.
LEMMA WhoEdits ==
  [Next]_vars => \/ UNCHANGED <<personal, latest>> \/ WritePut \/ WriteDelete
                 \/ \E h \in Host : OtherEdit(h) \/ EditPersonal(h) \/ DeletePersonal(h)
BY Zenon

\* Only a write that succeeds is remembered as one.
LEMMA WhoClaims ==
  [Next]_vars => UNCHANGED wrote \/ WritePut \/ WriteDelete
BY Zenon

\* Only these change what is known of the published key.
LEMMA WhoWarns ==
  [Next]_vars => UNCHANGED mismatch \/ Republish \/ WriteIdentity \/ PassIdentity \/ Kill
BY Zenon

HIDE DEF Fails, Edits, Others

\* The bounds count up, one at a time, or stay.
LEMMA WhoCounts ==
  [Next]_vars => (UNCHANGED rev \/ Edits) /\ (UNCHANGED others \/ Others)
  /\ (UNCHANGED faults \/ Fails)
BY Zenon

HIDE DEF Next, Sharing, Personal, Writing, Reading, Sealing, Create, Republish, Join,
         Leave, OtherSeals, Rekey, OtherEdit, Rotate, EditPersonal, DeletePersonal, MoveStart,
         RememberStart, WriteIdentity, WriteFetch, WritePut, WriteRefused, WriteFails,
         WriteDelete, Focus, PassStart, PassIdentity, PassList, PassVault, CacheBlob, CacheMeta,
         Interlock, SealFetch, SealPending, SealSubmit, SealDone, Kill, vars, server, untouched,
         unwritten, unread, Pass, Called, Ends, Misses, Give, Written

-----------------------------------------------------------------------------
(* Types. *)

\* What the types rest on: a moved host whose deletion is left was written at a version
\* the project has had, and a project that is not made has no members.
Known ==
  /\ proj = NoVault => members = {}
  /\ call.pc = "delete" => call.got.ver <= proj.ver
  /\ call.pc # "idle" => call.host \in Host

Typed == TypeOK /\ Known

\* The invariant of types and Known, taken apart.
ProjTyped  == proj \in Vault /\ rotated \in 0..proj.ver
ClaimTyped == wrote \in 0..proj.ver /\ (call.pc = "delete" => call.got.ver <= proj.ver)
KeysTyped  ==
  /\ members \subseteq User /\ wrapped \in [User -> Copy] /\ keys \in [User -> Nat]
  /\ \A u \in User \ members : wrapped[u] = NoCopy
  /\ proj = NoVault => members = {}
HostsTyped == personal \in Hosts /\ latest \in Hosts
CountTyped == rev \in 0..MaxRev /\ others \in 0..MaxOther /\ faults \in 0..MaxFaults
CallTyped  == call \in Calls(BOOLEAN) /\ (call.pc # "idle" => call.host \in Host)

\* The invariant of types, variable by variable.
LEMMA TypedParts ==
  Typed <=> /\ ProjTyped /\ ClaimTyped /\ KeysTyped /\ HostsTyped /\ CountTyped /\ CallTyped
            /\ pass \in Passes /\ cache \in Caches /\ Flags
BY Zenon DEF Typed, TypeOK, Known, ProjTyped, ClaimTyped, KeysTyped, HostsTyped, CountTyped,
   CallTyped,
             Flags, Calls, CallPc, Passes, PassPc, Caches

\* A write of any flag is typed if its fields are.
LEMMA CallIn ==
  ASSUME NEW B, NEW p \in CallPc, NEW b \in B, NEW h \in Host \cup {None}, NEW x \in 0..MaxRev,
         NEW t \in 0..MaxAttempts - 1, NEW g \in Vault
  PROVE  [pc |-> p, move |-> b, host |-> h, val |-> x, tries |-> t, got |-> g] \in Calls(B)
BY DEF Calls

\* The fields of a write, one by one.
LEMMA CallOut ==
  ASSUME NEW B, NEW c \in Calls(B)
  PROVE  /\ c.pc \in CallPc /\ c.move \in B /\ c.host \in Host \cup {None} /\ c.val \in 0..MaxRev
         /\ c.tries \in 0..MaxAttempts - 1 /\ c.got \in Vault
BY DEF Calls

\* What it says of the fields the steps read.
LEMMA TypedFields ==
  ASSUME Typed
  PROVE  /\ Records /\ ProjTyped /\ ClaimTyped /\ KeysTyped /\ HostsTyped /\ CountTyped /\ CallTyped
         /\ call.pc \in CallPc /\ call.move \in BOOLEAN /\ call.host \in Host \cup {None}
         /\ call.val \in 0..MaxRev /\ call.tries \in 0..MaxAttempts - 1 /\ call.got \in Vault
         /\ pass.pc \in PassPc /\ pass.got \in Vault /\ pass.copy \in Copy
            /\ pass.pend \subseteq User \X Nat
<1>1. Records /\ CallTyped /\ pass \in Passes
  BY TypedParts DEF Records, ProjTyped, CallTyped
<1>2. /\ pass.pc \in PassPc /\ pass.got \in Vault /\ pass.copy \in Copy
      /\ pass.pend \subseteq User \X Nat
  BY <1>1 DEF Passes
<1> QED
  BY <1>1, <1>2, TypedParts, CallOut, Zenon DEF CallTyped

\* The bounds are kept.
LEMMA CountStep == CountTyped /\ [Next]_vars => CountTyped'
BY WhoCounts, Constants DEF CountTyped, Edits, Others, Fails

\* A pass keeps its type.
LEMMA PassTypeStep == Typed /\ [Next]_vars => pass' \in Passes
<1> SUFFICES ASSUME Typed, [Next]_vars PROVE pass' \in Passes
  OBVIOUS
<1> USE TypedFields, Constants
<1>p. ASSUME NEW a \in PassPc, Pass(a) PROVE pass' \in Passes
  BY <1>p, PassEffect DEF Passes
<1>e. Ends => pass' \in Passes
  BY DEF Ends
<1>q. {"identity", "list", "vault", "interlock", "fetch"} \subseteq PassPc
  BY DEF PassPc
<1>1. CASE PassStart \/ PassIdentity \/ PassList \/ Interlock \/ SealDone \/ Kill
  BY <1>1, <1>p, <1>e, <1>q, Zenon DEF PassStart, PassIdentity, PassList, Interlock, SealDone, Kill
<1>2. CASE PassVault
  <2>1. CASE Opens(Me, wrapped[Me])
             /\ pass' = [pass EXCEPT !.pc = "blob", !.got = proj, !.copy = wrapped[Me]]
    <3>1. wrapped[Me] \in Copy /\ proj \in Vault /\ "blob" \in PassPc
      BY DEF KeysTyped, ProjTyped, User, PassPc
    <3> QED
      BY <2>1, <3>1, ReadEffect DEF Passes
  <2> QED
    BY <1>2, <2>1, <1>p, <1>e, <1>q, Zenon DEF PassVault
<1>3. CASE CacheBlob
  BY <1>3, BlobEffect DEF Passes, PassPc
<1>4. CASE CacheMeta
  BY <1>4, MetaEffect DEF Passes, PassPc
<1>5. CASE SealFetch
  <2>1. CASE pass' = [pass EXCEPT !.pc = "pending", !.got = [proj EXCEPT !.hosts = NoHosts]]
    BY <2>1, SealFetchEffect DEF Passes, PassPc, ProjTyped, Vault
  <2> QED
    BY <1>5, <2>1, <1>e, Zenon DEF SealFetch
<1>6. CASE SealPending
  <2>1. Pending \in SUBSET (User \X Nat)
    BY DEF Pending, KeysTyped
  <2>2. [pc |-> "submit", got |-> pass.got, copy |-> pass.copy, pend |-> Pending] \in Passes
    BY <2>1 DEF Passes, PassPc
  <2>3. Records /\ NoPass \in Passes
    BY TypedFields, Constants
  <2> QED
    BY <1>6, <2>2, <2>3, PendingEffect, Zenon
<1>7. CASE SealSubmit
  <2>1. PICK m : pass' = [pc |-> pass.pc, got |-> pass.got, copy |-> pass.copy,
                          pend |-> pass.pend \ {m}]
    BY <1>7, SubmitEffect
  <2> QED
    BY <2>1 DEF Passes
<1>8. CASE UNCHANGED pass
  BY <1>8 DEF Records
<1> QED
  BY <1>1, <1>2, <1>3, <1>4, <1>5, <1>6, <1>7, <1>8, WhoPasses, Zenon DEF Reading, Sealing

\* The cache keeps its type.
LEMMA CacheTypeStep == Typed /\ [Next]_vars => cache' \in Caches
<1> SUFFICES ASSUME Typed, [Next]_vars PROVE cache' \in Caches
  OBVIOUS
<1> USE TypedFields, Constants
<1>1. CASE PassList \/ PassVault \/ UNCHANGED cache
  BY <1>1 DEF PassList, PassVault, Records
<1>2. CASE CacheBlob
  BY <1>2, BlobEffect DEF Caches, Records, Vault
<1>3. CASE CacheMeta
  BY <1>3, MetaEffect DEF Caches, Records, Vault
<1> QED
  BY <1>1, <1>2, <1>3, WhoCaches

\* The contents of hosts keep their type.
LEMMA HostsTypeStep == Typed /\ [Next]_vars => HostsTyped'
<1> SUFFICES ASSUME Typed, [Next]_vars PROVE HostsTyped'
  OBVIOUS
<1>t. Typed /\ personal \in Hosts /\ latest \in Hosts /\ proj.hosts \in Hosts /\ proj \in Vault
  BY TypedFields DEF HostsTyped, ProjTyped, Vault
<1>r. rev \in 0..MaxRev /\ rev' \in 0..MaxRev /\ call.val \in 0..MaxRev /\ 0 \in 0..MaxRev
  BY CountStep, TypedFields, Constants DEF CountTyped
<1>1. CASE WritePut
  BY <1>1, <1>t, <1>r DEF WritePut, Written, unwritten, HostsTyped, Hosts
<1>2. CASE WriteDelete
  BY <1>2, <1>t, <1>r DEF WriteDelete, HostsTyped, Hosts
<1>3. ASSUME NEW h \in Host, OtherEdit(h) PROVE HostsTyped'
  BY <1>3, <1>t, <1>r DEF OtherEdit, untouched, Edits, HostsTyped, Hosts
<1>4. ASSUME NEW h \in Host, EditPersonal(h) PROVE HostsTyped'
  BY <1>4, <1>t, <1>r DEF EditPersonal, Edits, HostsTyped, Hosts
<1>5. ASSUME NEW h \in Host, DeletePersonal(h) PROVE HostsTyped'
  BY <1>5, <1>t, <1>r DEF DeletePersonal, HostsTyped, Hosts
<1>6. CASE UNCHANGED <<personal, latest>>
  BY <1>6, <1>t DEF HostsTyped
<1> QED
  BY <1>1, <1>2, <1>3, <1>4, <1>5, <1>6, WhoEdits

\* The project keeps its type, and its version does not go back.
LEMMA ProjTypeStep == Typed /\ [Next]_vars => ProjTyped' /\ proj'.ver >= proj.ver
<1> SUFFICES ASSUME Typed, [Next]_vars PROVE ProjTyped' /\ proj'.ver >= proj.ver
  OBVIOUS
<1>t. /\ proj \in Vault /\ rotated \in 0..proj.ver /\ call.got \in Vault /\ rev \in 0..MaxRev
      /\ proj.ver \in Nat /\ proj.dek \in Nat /\ proj.hosts \in Hosts /\ call.got.hosts \in Hosts
  BY TypedFields DEF ProjTyped, CountTyped, Vault
<1>1. CASE Create
  <2>1. proj.ver = 0 /\ rotated' = 1
    BY <1>1, Zenon DEF Create, NoVault
  <2>2. proj' = [ver |-> 1, dek |-> 1, hosts |-> NoHosts]
    BY <1>1, CreateEffect
  <2>3. proj' \in Vault /\ proj'.ver = 1
    BY <2>2, Constants DEF Vault
  <2> QED
    BY <2>1, <2>3 DEF ProjTyped
<1>2. CASE WritePut
  BY <1>2, <1>t, TakesEffect DEF WritePut, unwritten, ProjTyped, Vault
<1>3. ASSUME NEW h \in Host, OtherEdit(h) PROVE ProjTyped' /\ proj'.ver >= proj.ver
  <2>1. UNCHANGED rotated
    BY <1>3, Zenon DEF OtherEdit
  <2> QED
    BY <1>3, <2>1, <1>t, EditEffect DEF ProjTyped, Vault, Hosts
<1>4. ASSUME NEW out \in User \cup {None}, Rotate(out) PROVE ProjTyped' /\ proj'.ver >= proj.ver
  <2>1. rotated' = proj'.ver
    BY <1>4, Zenon DEF Rotate
  <2> QED
    BY <1>4, <2>1, <1>t, RotateEffect DEF ProjTyped, Vault
<1>5. CASE UNCHANGED <<proj, rotated>>
  BY <1>5, <1>t DEF ProjTyped
<1> QED
  BY <1>1, <1>2, <1>3, <1>4, <1>5, WhoWrites

\* Members, copies and keys keep their types; who is no member has no copy.
LEMMA KeysTypeStep == Typed /\ [Next]_vars => KeysTyped'
<1> SUFFICES ASSUME Typed, [Next]_vars PROVE KeysTyped'
  OBVIOUS
<1>t. /\ KeysTyped /\ proj \in Vault /\ proj.dek \in Nat /\ proj.ver \in Nat /\ NoCopy \in Copy
      /\ NoVault.ver = 0 /\ proj'.dek \in Nat
  BY ProjTypeStep, TypedFields, Constants DEF ProjTyped, Vault, NoVault
<1>m. proj' = NoVault => UNCHANGED <<proj, rotated>>
  <2>1. proj'.ver = 0 => UNCHANGED <<proj, rotated>>
    BY <1>t, TypedFields, WhoWrites, CreateEffect, EditEffect, RotateEffect,
       TakesEffect DEF WritePut, ProjTyped, CountTyped
  <2> QED
    BY <1>t, <2>1
<1>c. ASSUME NEW d \in Nat, NEW k \in Nat PROVE [dek |-> d, key |-> k] \in Copy
  BY DEF Copy
<1>1. CASE Create
  <2>1. PICK u \in User : members' = {u}
        /\ wrapped' = [wrapped EXCEPT ![u] = [dek |-> 1, key |-> keys[u]]]
    BY <1>1, Zenon DEF Create
  <2>2. proj = NoVault /\ UNCHANGED keys /\ proj' # NoVault
    <3>1. proj'.ver = 1
      BY <1>1, CreateEffect
    <3>2. proj = NoVault /\ UNCHANGED keys
      BY <1>1, Zenon DEF Create
    <3> QED
      BY <1>t, <3>1, <3>2
  <2>3. members = {} /\ [dek |-> 1, key |-> keys[u]] \in Copy
    BY <2>2, <1>t, <1>c DEF KeysTyped
  <2> QED
    BY <2>1, <2>2, <2>3, <1>t DEF KeysTyped
<1>2. CASE Republish
  BY <1>2, <1>t, <1>m DEF Republish, KeysTyped
<1>3. CASE SealSubmit
  <2>1. PICK m \in pass.pend :
          Accepts(m[1], [dek |-> pass.got.dek, key |-> m[2]], pass.got.ver) \/ UNCHANGED wrapped
    BY <1>3, SubmitEffect, TypedFields
  <2>2. m[1] \in User /\ m[2] \in Nat /\ pass.got.dek \in Nat
    BY <2>1, TypedFields DEF Vault
  <2>3. UNCHANGED <<members, keys>>
    BY <1>3 DEF SealSubmit, unread
  <2> QED
    BY <2>1, <2>2, <2>3, <1>t, <1>m, <1>c DEF Accepts, KeysTyped
<1>4. ASSUME NEW u \in User, Join(u) PROVE KeysTyped'
  BY <1>4, <1>t, <1>m DEF Join, KeysTyped
<1>5. ASSUME NEW u \in User, Leave(u) PROVE KeysTyped'
  BY <1>5, <1>t, <1>m DEF Leave, KeysTyped
<1>6. ASSUME NEW u \in User, OtherSeals(u) PROVE KeysTyped'
  BY <1>6, <1>t, <1>m, <1>c DEF OtherSeals, Accepts, KeysTyped
<1>7. ASSUME NEW u \in Member, Rekey(u) PROVE KeysTyped'
  BY <1>7, <1>t, <1>m DEF Rekey, KeysTyped, User
<1>8. ASSUME NEW out \in User \cup {None}, Rotate(out) PROVE KeysTyped'
  BY <1>8, <1>t, <1>m, <1>c DEF Rotate, KeysTyped
<1>9. CASE UNCHANGED <<members, wrapped, keys>>
  BY <1>9, <1>t, <1>m DEF KeysTyped
<1> QED
  BY <1>1, <1>2, <1>3, <1>4, <1>5, <1>6, <1>7, <1>8, <1>9, WhoKeys

\* A write keeps its type; what it claims to have written is a version the project had.
LEMMA CallTypeStep == Typed /\ [Next]_vars => CallTyped' /\ ClaimTyped'
<1> SUFFICES ASSUME Typed, [Next]_vars PROVE CallTyped' /\ ClaimTyped'
  OBVIOUS
<1> USE TypedFields, Constants
<1>v. /\ ProjTyped' /\ proj'.ver >= proj.ver /\ proj'.ver \in Nat /\ proj.ver \in Nat
         /\ call.got.ver \in Nat
      /\ NoVault.ver = 0 /\ proj' \in Vault
  BY ProjTypeStep DEF ProjTyped, Vault, NoVault
<1>w. CASE UNCHANGED call /\ UNCHANGED wrote
  BY <1>w, <1>v DEF CallTyped, ClaimTyped
<1>n. call' = NoCall => CallTyped' /\ (UNCHANGED wrote => ClaimTyped')
  <2>1. NoCall.pc = "idle"
    BY DEF NoCall
  <2> QED
    BY <2>1, <1>v DEF CallTyped, ClaimTyped
<1>i. ASSUME NEW p \in CallPc, NEW b \in BOOLEAN, NEW h \in Host, NEW x \in 0..MaxRev,
             NEW t \in 0..MaxAttempts - 1, NEW g \in Vault,
             call' = [pc |-> p, move |-> b, host |-> h, val |-> x, tries |-> t, got |-> g],
             p = "delete" => g.ver <= proj'.ver, UNCHANGED wrote
      PROVE  CallTyped' /\ ClaimTyped'
  <2>1. call' \in Calls(BOOLEAN)
    BY <1>i, CallIn, Zenon
  <2>2. call'.pc = p /\ call'.host = h /\ call'.got = g
    BY <1>i, Zenon
  <2> QED
    BY <1>i, <2>1, <2>2, <1>v DEF CallTyped, ClaimTyped
<1>p. CallPc = {"idle", "identity", "fetch", "put", "delete"} /\ TRUE \in BOOLEAN
      /\ FALSE \in BOOLEAN
      /\ 0 \in 0..MaxAttempts - 1
  BY DEF CallPc
<1>h. call.pc # "idle" => call.host \in Host
  BY DEF CallTyped
<1>1. ASSUME NEW h \in Host, MoveStart(h) PROVE CallTyped' /\ ClaimTyped'
  <2>1. call' = [NoCall EXCEPT !.pc = "identity", !.move = TRUE, !.host = h, !.val = personal[h]]
    BY <1>1, Zenon DEF MoveStart, Called
  <2>b. PICK b \in BOOLEAN : b = TRUE
    BY Zenon
  <2>2. call' = [pc |-> "identity", move |-> b, host |-> h, val |-> personal[h], tries |-> 0,
                 got |-> NoVault]
    BY <2>1, <2>b, MoveEffect
  <2>4. UNCHANGED wrote
    BY <1>1, Zenon DEF MoveStart
  <2>3. personal[h] \in 0..MaxRev
    BY DEF HostsTyped, Hosts
  <2> QED
    BY <2>2, <2>3, <2>4, <1>i, <1>p
<1>2. ASSUME NEW h \in Host, RememberStart(h) PROVE CallTyped' /\ ClaimTyped'
  <2>1. call' = [NoCall EXCEPT !.pc = "identity", !.host = h, !.val = rev']
    BY <1>2, Zenon DEF RememberStart, Called
  <2>b. PICK b \in BOOLEAN : b = FALSE
    BY Zenon
  <2>2. call' = [pc |-> "identity", move |-> b, host |-> h, val |-> rev', tries |-> 0,
                 got |-> NoVault]
    BY <2>1, <2>b, RememberEffect
  <2>4. UNCHANGED wrote
    BY <1>2, Zenon DEF RememberStart
  <2>3. rev' \in 0..MaxRev
    BY CountStep DEF CountTyped
  <2> QED
    BY <2>2, <2>3, <2>4, <1>i, <1>p
<1>3. CASE WriteIdentity
  <2>1. \/ call' = [call EXCEPT !.pc = "fetch"]
        \/ call' = NoCall
    BY <1>3, Zenon DEF WriteIdentity, Called, Give
  <2>2. UNCHANGED wrote /\ call.pc = "identity"
    BY <1>3, Zenon DEF WriteIdentity, Give
  <2> QED
    BY <2>1, <2>2, CallEffect, <1>n, <1>i, <1>p, <1>h
<1>4. CASE WriteFetch
  <2>1. \/ call' = [call EXCEPT !.pc = "put", !.got = [proj EXCEPT !.hosts[call.host] = call.val]]
        \/ call' = NoCall
    BY <1>4, Zenon DEF WriteFetch, Called
  <2>2. UNCHANGED wrote /\ call.pc = "fetch"
    BY <1>4, Zenon DEF WriteFetch
  <2>3. [ver |-> proj.ver, dek |-> proj.dek,
         hosts |-> [proj.hosts EXCEPT ![call.host] = call.val]] \in Vault
    BY DEF ProjTyped, Vault, Hosts
  <2> QED
    BY <2>1, <2>2, <2>3, FetchEffect, <1>n, <1>i, <1>p, <1>h
<1>5. CASE WritePut
  <2>1. \/ call' = [call EXCEPT !.pc = "delete", !.got = [NoVault EXCEPT !.ver = proj'.ver]]
           /\ UNCHANGED wrote
        \/ call' = NoCall /\ wrote' = proj'.ver
        \/ call' = NoCall /\ UNCHANGED wrote
    BY <1>5, Zenon DEF WritePut, Written, Called
  <2>2. call.pc = "put"
    BY <1>5, Zenon DEF WritePut
  <2>3. [ver |-> proj'.ver, dek |-> 0, hosts |-> NoHosts] \in Vault
    BY <1>v DEF Vault
  <2>4. CASE call' = [call EXCEPT !.pc = "delete", !.got = [NoVault EXCEPT !.ver = proj'.ver]]
             /\ UNCHANGED wrote
    BY <2>2, <2>3, <2>4, DeleteEffect, <1>v, <1>i, <1>p, <1>h
  <2>5. CASE call' = NoCall /\ wrote' = proj'.ver
    BY <2>5, <1>n, <1>v DEF ClaimTyped, NoCall
  <2> QED
    BY <2>1, <2>4, <2>5, <1>n
<1>6. CASE WriteRefused
  <2>1. \/ call' = [call EXCEPT !.pc = "fetch", !.tries = @ + 1, !.got = NoVault]
           /\ call.tries + 1 < MaxAttempts
        \/ call' = NoCall
    BY <1>6, Zenon DEF WriteRefused, Called
  <2>2. UNCHANGED wrote /\ call.pc = "put"
    BY <1>6, Zenon DEF WriteRefused
  <2>3. call.tries + 1 < MaxAttempts => call.tries + 1 \in 0..MaxAttempts - 1
    OBVIOUS
  <2> QED
    BY <2>1, <2>2, <2>3, RetryEffect, <1>n, <1>i, <1>p, <1>h
<1>7. CASE WriteFails \/ Kill
  BY <1>7, <1>n, Zenon DEF WriteFails, Kill, Called
<1>8. CASE WriteDelete
  <2>1. call' = NoCall /\ (wrote' = call.got.ver \/ UNCHANGED wrote) /\ call.pc = "delete"
    BY <1>8, Zenon DEF WriteDelete, Called
  <2> QED
    BY <2>1, <1>n, <1>v DEF ClaimTyped, NoCall
<1>9. CASE UNCHANGED call
  <2>1. CASE WritePut \/ WriteDelete
    BY <2>1, <1>5, <1>8
  <2> QED
    BY <1>9, <2>1, <1>w, WhoClaims
<1> QED
  BY <1>1, <1>2, <1>3, <1>4, <1>5, <1>6, <1>7, <1>8, <1>9, WhoCalls, Zenon DEF Writing

\* Every step keeps every type.
LEMMA TypeStep == Typed /\ [Next]_vars => Typed'
<1> SUFFICES ASSUME Typed, [Next]_vars PROVE Typed'
  OBVIOUS
<1>1. CountTyped' /\ Flags'
  BY CountStep, FlagsStep, TypedParts
<1>2. pass' \in Passes /\ cache' \in Caches /\ HostsTyped' /\ ProjTyped' /\ KeysTyped'
      /\ CallTyped' /\ ClaimTyped'
  BY PassTypeStep, CacheTypeStep, HostsTypeStep, ProjTypeStep, KeysTypeStep, CallTypeStep
<1> QED
  BY <1>1, <1>2, Zenon DEF Typed, TypeOK, Known, ProjTyped, ClaimTyped, KeysTyped,
     HostsTyped, CountTyped, CallTyped,
             Flags, Calls, CallPc, Passes, PassPc, Caches

-----------------------------------------------------------------------------
(* A host is never lost. *)

\* The project's version tells its content: what a write is to put back is what it
\* fetched, with its host, as long as the version is the one it fetched.
PutFollows ==
  call.pc = "put" =>
    /\ call.got.ver <= proj.ver
    /\ call.got.ver = proj.ver =>
         /\ call.got.hosts = [proj.hosts EXCEPT ![call.host] = call.val]
         /\ call.move => proj.hosts[call.host] = 0

\* A host on its way keeps the content it set out with, or is deleted; once it is in
\* the project, that is where its last editor's content is.
MoveHolds ==
  /\ call.move => call.pc # "idle" /\ personal[call.host] \in {0, call.val}
  /\ call.pc = "delete" => call.move /\ latest[call.host] \in {0, proj.hosts[call.host]}

\* The inductive invariant of the hosts.
Kept == Typed /\ PutFollows /\ MoveHolds /\ HostNeverLost

\* A change of the project gives it its next version, and only a write changes hosts.
LEMMA NextVersion ==
  ASSUME Typed, [Next]_vars
  PROVE  /\ proj' = proj \/ proj'.ver = proj.ver + 1
         /\ proj'.hosts = proj.hosts \/ WritePut \/ \E h \in Host : OtherEdit(h)
         /\ (rotated' = rotated /\ proj'.dek = proj.dek)
            \/ (rotated' = proj'.ver /\ proj'.ver = proj.ver + 1
               /\ (Create \/ \E out \in User \cup {None} : Rotate(out)))
<1>t. /\ proj \in Vault /\ rev \in 0..MaxRev
  BY TypedFields DEF ProjTyped, CountTyped
<1>1. CASE Create
  <2>1. proj = NoVault /\ rotated' = 1
    BY <1>1, Zenon DEF Create
  <2> QED
    BY <1>1, <2>1, CreateEffect DEF NoVault
<1>2. CASE WritePut
  BY <1>2, <1>t, TakesEffect DEF WritePut, unwritten
<1>3. ASSUME NEW h \in Host, OtherEdit(h)
      PROVE  proj'.ver = proj.ver + 1 /\ proj'.dek = proj.dek /\ rotated' = rotated
  <2>1. rotated' = rotated
    BY <1>3, Zenon DEF OtherEdit
  <2> QED
    BY <1>3, <2>1, <1>t, EditEffect
<1>4. ASSUME NEW out \in User \cup {None}, Rotate(out)
      PROVE  proj'.ver = proj.ver + 1 /\ proj'.hosts = proj.hosts /\ rotated' = proj'.ver
  <2>1. rotated' = proj'.ver
    BY <1>4, Zenon DEF Rotate
  <2> QED
    BY <1>4, <2>1, <1>t, RotateEffect
<1> QED
  BY <1>1, <1>2, <1>3, <1>4, WhoWrites

\* Every step keeps it: whoever changes the project in between changes its version.
LEMMA PutStep == Typed /\ PutFollows /\ [Next]_vars => PutFollows'
<1> SUFFICES ASSUME Typed, PutFollows, [Next]_vars PROVE PutFollows'
  OBVIOUS
<1>t. Records /\ proj.ver \in Nat /\ call.got.ver \in Nat /\ proj'.ver \in Nat /\ NoCall.pc = "idle"
      /\ (call.pc # "idle" => call.host \in Host)
  BY TypedFields, ProjTypeStep DEF ProjTyped, Vault, NoCall, CallTyped
<1>1. CASE UNCHANGED call
  BY <1>1, <1>t, NextVersion DEF PutFollows
<1>2. CASE WriteFetch
  <2>1. \/ call' = [call EXCEPT !.pc = "put", !.got = [proj EXCEPT !.hosts[call.host] = call.val]]
        \/ call' = NoCall
    BY <1>2, Zenon DEF WriteFetch, Called
  <2>2. UNCHANGED proj /\ call.pc = "fetch"
    BY <1>2, Zenon DEF WriteFetch
  <2>3. call' # NoCall /\ call.move => proj.hosts[call.host] = 0
    BY <1>2, Zenon DEF WriteFetch, Called
  <2>4. call' # NoCall =>
          call' = [pc |-> "put", move |-> call.move, host |-> call.host, val |-> call.val,
                   tries |-> call.tries,
                   got |-> [ver |-> proj.ver, dek |-> proj.dek,
                            hosts |-> [proj.hosts EXCEPT ![call.host] = call.val]]]
    BY <2>1, <2>2, <1>t, FetchEffect
  <2> QED
    BY <2>2, <2>3, <2>4, <1>t DEF PutFollows
<1>3. call' = NoCall => PutFollows'
  BY <1>t DEF PutFollows
<1>4. CASE WriteIdentity \/ WriteFails \/ Kill \/ WriteDelete
  <2>1. call' = NoCall \/ call' = [call EXCEPT !.pc = "fetch"]
    BY <1>4, Zenon DEF WriteIdentity, Give, WriteFails, Kill, WriteDelete, Called
  <2> QED
    BY <2>1, <1>3, <1>t, CallEffect DEF PutFollows, CallPc
<1>5. CASE WritePut
  <2>1. \/ call' = [call EXCEPT !.pc = "delete", !.got = [NoVault EXCEPT !.ver = proj'.ver]]
        \/ call' = NoCall
    BY <1>5, Zenon DEF WritePut, Written, Called
  <2>2. proj' \in Vault
    BY ProjTypeStep DEF ProjTyped
  <2> QED
    BY <2>1, <2>2, <1>3, <1>t, DeleteEffect DEF PutFollows
<1>6. CASE WriteRefused
  <2>1. \/ call' = [call EXCEPT !.pc = "fetch", !.tries = @ + 1, !.got = NoVault]
        \/ call' = NoCall
    BY <1>6, Zenon DEF WriteRefused, Called
  <2> QED
    BY <2>1, <1>3, <1>t, RetryEffect DEF PutFollows
<1>7. ASSUME NEW h \in Host, MoveStart(h) PROVE PutFollows'
  <2>1. call' = [NoCall EXCEPT !.pc = "identity", !.move = TRUE, !.host = h, !.val = personal[h]]
    BY <1>7, Zenon DEF MoveStart, Called
  <2>m. call' = [pc |-> "identity", move |-> TRUE, host |-> h, val |-> personal[h], tries |-> 0,
                 got |-> NoVault]
    BY <2>1, MoveEffect
  <2> QED
    BY <2>m DEF PutFollows
<1>8. ASSUME NEW h \in Host, RememberStart(h) PROVE PutFollows'
  <2>1. call' = [NoCall EXCEPT !.pc = "identity", !.host = h, !.val = rev']
    BY <1>8, Zenon DEF RememberStart, Called
  <2>m. call' = [pc |-> "identity", move |-> FALSE, host |-> h, val |-> rev', tries |-> 0,
                 got |-> NoVault]
    BY <2>1, RememberEffect
  <2> QED
    BY <2>m DEF PutFollows
<1> QED
  BY <1>1, <1>2, <1>4, <1>5, <1>6, <1>7, <1>8, WhoCalls, Zenon DEF Writing

\* Every step keeps it, as long as nobody edits a host that is on its way.
LEMMA MoveStep ==
  ASSUME "edit" \notin Overlap, Kept, [Next]_vars
  PROVE  MoveHolds'
<1>t. /\ Typed /\ Records /\ call.val \in Nat /\ (call.pc # "idle" => call.host \in Host)
      /\ NoCall.pc = "idle" /\ NoCall.move = FALSE
      /\ personal \in Hosts /\ latest \in Hosts /\ proj.hosts \in Hosts /\ proj'.hosts \in Hosts
  BY TypedFields, ProjTypeStep DEF Kept, CallTyped, NoCall, HostsTyped, ProjTyped, Vault
<1>0. PutFollows /\ MoveHolds /\ HostNeverLost
  BY DEF Kept
<1>1. CASE UNCHANGED call
  <2>1. CASE WritePut \/ WriteDelete
    <3>1. \/ call' = [call EXCEPT !.pc = "delete", !.got = [NoVault EXCEPT !.ver = proj'.ver]]
          \/ call' = NoCall
      BY <2>1, Zenon DEF WritePut, WriteDelete, Written, Called
    <3>2. call.pc = "put" \/ (call.pc = "delete" /\ call' = NoCall)
      BY <2>1, Zenon DEF WritePut, WriteDelete, Called
    <3>3. proj' \in Vault
      BY <1>t, ProjTypeStep DEF ProjTyped
    <3>4. call'.pc \in {"idle", "delete"} /\ (call'.pc = "delete" => call' # NoCall)
      BY <1>t, <3>1, <3>3, DeleteEffect
    <3> QED
      BY <1>1, <1>t, <3>2, <3>4
  <2>2. ASSUME NEW h \in Host, OtherEdit(h) PROVE MoveHolds'
    <3>1. UNCHANGED personal
      BY <2>2, Zenon DEF OtherEdit, untouched
    <3>2. PICK x \in 0..MaxRev :
            /\ proj' = [ver |-> proj.ver + 1, dek |-> proj.dek,
                        hosts |-> [proj.hosts EXCEPT ![h] = x]]
            /\ latest' = [latest EXCEPT ![h] = x]
      BY <2>2, <1>t, EditEffect, TypedFields DEF CountTyped, ProjTyped
    <3>3. proj'.hosts = [proj.hosts EXCEPT ![h] = x]
      BY <3>2
    <3> QED
      BY <1>1, <1>t, <1>0, <3>1, <3>2, <3>3 DEF MoveHolds, Hosts
  <2>3. ASSUME NEW h \in Host, EditPersonal(h) PROVE MoveHolds'
    BY <1>1, <1>t, <1>0, <2>3 DEF EditPersonal, server, MoveHolds, Hosts
  <2>4. ASSUME NEW h \in Host, DeletePersonal(h) PROVE MoveHolds'
    BY <1>1, <1>t, <1>0, <2>4 DEF DeletePersonal, server, MoveHolds, Hosts
  <2>5. CASE UNCHANGED <<personal, latest>>
    BY <1>1, <1>t, <1>0, <2>5, <2>1, <2>2, NextVersion DEF MoveHolds
  <2> QED
    BY <2>1, <2>2, <2>3, <2>4, <2>5, WhoEdits
<1>3. call' = NoCall => MoveHolds'
  BY <1>t DEF MoveHolds
<1>4. ASSUME NEW h \in Host, MoveStart(h) PROVE MoveHolds'
  <2>1. call' = [NoCall EXCEPT !.pc = "identity", !.move = TRUE, !.host = h, !.val = personal[h]]
    BY <1>4, Zenon DEF MoveStart, Called
  <2>m. call' = [pc |-> "identity", move |-> TRUE, host |-> h, val |-> personal[h], tries |-> 0,
                 got |-> NoVault]
    BY <2>1, MoveEffect
  <2>2. UNCHANGED personal
    BY <1>4, Zenon DEF MoveStart
  <2> QED
    BY <2>m, <2>2 DEF MoveHolds
<1>5. ASSUME NEW h \in Host, RememberStart(h) PROVE MoveHolds'
  <2>1. call' = [NoCall EXCEPT !.pc = "identity", !.host = h, !.val = rev']
    BY <1>5, Zenon DEF RememberStart, Called
  <2>m. call' = [pc |-> "identity", move |-> FALSE, host |-> h, val |-> rev', tries |-> 0,
                 got |-> NoVault]
    BY <2>1, RememberEffect
  <2> QED
    BY <2>m DEF MoveHolds
<1>6. CASE WriteIdentity
  <2>1. call' = NoCall \/ call' = [call EXCEPT !.pc = "fetch"]
    BY <1>6, Zenon DEF WriteIdentity, Give, Called
  <2>2. UNCHANGED personal /\ call.pc = "identity"
    BY <1>6, Zenon DEF WriteIdentity, Give
  <2> QED
    BY <2>1, <2>2, <1>0, <1>3, <1>t, CallEffect DEF MoveHolds, CallPc
<1>7. CASE WriteFetch
  <2>1. \/ call' = [call EXCEPT !.pc = "put", !.got = [proj EXCEPT !.hosts[call.host] = call.val]]
        \/ call' = NoCall
    BY <1>7, Zenon DEF WriteFetch, Called
  <2>2. UNCHANGED personal /\ call.pc = "fetch"
    BY <1>7, Zenon DEF WriteFetch
  <2> QED
    BY <2>1, <2>2, <1>0, <1>3, <1>t, FetchEffect DEF MoveHolds
<1>8. CASE WritePut
  <2>1. \/ call.move
           /\ call' = [call EXCEPT !.pc = "delete", !.got = [NoVault EXCEPT !.ver = proj'.ver]]
        \/ call' = NoCall
    BY <1>8, Zenon DEF WritePut, Written, Called
  <2>2. UNCHANGED personal /\ call.pc = "put"
    BY <1>8, Zenon DEF WritePut
  <2>3. call.move => UNCHANGED latest
    BY <1>8, Zenon DEF WritePut, Written
  <2>4. proj' \in Vault /\ proj'.hosts = call.got.hosts /\ proj.ver = call.got.ver
    BY <1>8, <1>t, ProjTypeStep, TakesEffect DEF WritePut, Records, ProjTyped
  <2>5. call.move => latest[call.host] \in {0, personal[call.host]}
        /\ proj'.hosts[call.host] = call.val
    BY <2>2, <2>4, <1>0, <1>t DEF PutFollows, HostNeverLost, Hosts
  <2>6. call' # NoCall =>
          call' = [pc |-> "delete", move |-> call.move, host |-> call.host, val |-> call.val,
                   tries |-> call.tries, got |-> [ver |-> proj'.ver, dek |-> 0, hosts |-> NoHosts]]
    BY <2>1, <2>4, <1>t, DeleteEffect
  <2>7. call.move => personal[call.host] \in {0, call.val}
    BY <1>0 DEF MoveHolds
  <2> QED
    BY <2>1, <2>2, <2>3, <2>5, <2>6, <2>7, <1>3 DEF MoveHolds
<1>9. CASE WriteRefused
  <2>1. \/ call' = [call EXCEPT !.pc = "fetch", !.tries = @ + 1, !.got = NoVault]
        \/ call' = NoCall
    BY <1>9, Zenon DEF WriteRefused, Called
  <2>2. UNCHANGED personal /\ call.pc = "put"
    BY <1>9, Zenon DEF WriteRefused
  <2> QED
    BY <2>1, <2>2, <1>0, <1>3, <1>t, RetryEffect DEF MoveHolds
<1>10. CASE WriteFails \/ WriteDelete \/ Kill
  BY <1>10, <1>3, Zenon DEF WriteFails, WriteDelete, Kill, Called
<1> QED
  BY <1>1, <1>4, <1>5, <1>6, <1>7, <1>8, <1>9, <1>10, WhoCalls, Zenon DEF Writing

\* What the two invariants say is what a write, a deletion and an edit need to lose nothing.
LEMMA LostStep ==
  ASSUME Kept, [Next]_vars
  PROVE  HostNeverLost'
<1>t. /\ Typed /\ Records /\ (call.pc # "idle" => call.host \in Host)
      /\ personal \in Hosts /\ latest \in Hosts /\ proj.hosts \in Hosts /\ proj'.hosts \in Hosts
  BY TypedFields, ProjTypeStep DEF Kept, CallTyped, HostsTyped, ProjTyped, Vault
<1>0. PutFollows /\ MoveHolds /\ HostNeverLost
  BY DEF Kept
<1>1. CASE WritePut
  <2>1. call.pc = "put" /\ UNCHANGED personal
        /\ latest' = IF call.move THEN latest ELSE [latest EXCEPT ![call.host] = call.val]
    BY <1>1, Zenon DEF WritePut, Written
  <2>2. proj'.hosts = call.got.hosts /\ proj.ver = call.got.ver
    BY <1>1, <1>t, TakesEffect DEF WritePut, Records
  <2>3. /\ proj'.hosts = [proj.hosts EXCEPT ![call.host] = call.val]
        /\ call.move => proj.hosts[call.host] = 0
    BY <2>1, <2>2, <1>0 DEF PutFollows
  <2> QED
    BY <2>1, <2>3, <1>0, <1>t DEF HostNeverLost, Hosts
<1>2. CASE WriteDelete
  <2>1. /\ call.pc = "delete" /\ UNCHANGED <<latest, proj>>
        /\ personal' = [personal EXCEPT ![call.host] = 0] \/ UNCHANGED personal
    BY <1>2, Zenon DEF WriteDelete
  <2> QED
    BY <2>1, <1>0, <1>t DEF MoveHolds, HostNeverLost, Hosts
<1>3. ASSUME NEW h \in Host, OtherEdit(h) PROVE HostNeverLost'
  <2>1. UNCHANGED personal
    BY <1>3, Zenon DEF OtherEdit, untouched
  <2>2. PICK x \in 0..MaxRev :
          /\ proj' = [ver |-> proj.ver + 1, dek |-> proj.dek,
                      hosts |-> [proj.hosts EXCEPT ![h] = x]]
          /\ latest' = [latest EXCEPT ![h] = x]
    BY <1>3, <1>t, EditEffect, TypedFields DEF CountTyped, ProjTyped
  <2>3. proj'.hosts = [proj.hosts EXCEPT ![h] = x]
    BY <2>2
  <2> QED
    BY <2>1, <2>2, <2>3, <1>0, <1>t DEF HostNeverLost, Hosts
<1>4. ASSUME NEW h \in Host, EditPersonal(h) PROVE HostNeverLost'
  BY <1>4, <1>0, <1>t DEF EditPersonal, server, HostNeverLost, Hosts
<1>5. ASSUME NEW h \in Host, DeletePersonal(h) PROVE HostNeverLost'
  BY <1>5, <1>0, <1>t DEF DeletePersonal, server, HostNeverLost, Hosts
<1>6. CASE UNCHANGED <<personal, latest>>
  BY <1>6, <1>0, <1>t, <1>1, <1>3, NextVersion DEF HostNeverLost
<1> QED
  BY <1>1, <1>2, <1>3, <1>4, <1>5, <1>6, WhoEdits

-----------------------------------------------------------------------------
(* Every copy of the key opens. *)

\* The key a pass seals is the project's, as long as the project was not rotated past
\* the version it was read at.
SealFollows ==
  pass.pc \in {"pending", "submit"} =>
    /\ pass.got.ver <= proj.ver
    /\ pass.got.ver >= rotated => pass.got.dek = proj.dek

\* It is sealed to the keys its members have.
PendingKeys ==
  /\ \A m \in pass.pend : m[2] = keys[m[1]]
  /\ pass.pend # {} => pass.pc = "submit"

\* What is being cached opens with the copy that is cached with it.
CacheFollows ==
  /\ pass.pc \in {"blob", "meta"} => pass.copy.dek = pass.got.dek
  /\ pass.pc = "meta" => cache.blob.dek = pass.got.dek

\* What a pass becomes, by its next step.
LEMMA PassSteps ==
  ASSUME Typed, [Next]_vars
  PROVE  \/ UNCHANGED pass
         \/ pass' = NoPass
         \/ /\ pass'.pc \in {"identity", "list", "vault", "interlock", "fetch"}
            /\ pass'.pend = pass.pend /\ pass.pc \notin {"pending", "submit"}
         \/ PassVault
            /\ pass' = [pc |-> "blob", got |-> proj, copy |-> wrapped[Me], pend |-> pass.pend]
         \/ CacheBlob \/ CacheMeta \/ SealSubmit
         \/ /\ SealFetch
            /\ pass' = [pc |-> "pending", got |-> [ver |-> proj.ver, dek |-> proj.dek,
                                                   hosts |-> NoHosts],
                        copy |-> pass.copy, pend |-> pass.pend]
         \/ /\ SealPending
            /\ pass' = [pc |-> "submit", got |-> pass.got, copy |-> pass.copy, pend |-> Pending]
<1>r. Records
  BY TypedFields
<1>p. ASSUME NEW a \in {"identity", "list", "vault", "interlock", "fetch"}, Pass(a),
             pass.pc \notin {"pending", "submit"}
      PROVE  /\ pass'.pc \in {"identity", "list", "vault", "interlock", "fetch"}
             /\ pass'.pend = pass.pend /\ pass.pc \notin {"pending", "submit"}
  BY <1>p, <1>r, PassEffect DEF PassPc
<1>n. NoPass.pc = "idle"
  BY DEF NoPass
<1>1. CASE PassStart \/ PassIdentity \/ PassList \/ Interlock \/ SealDone \/ Kill
  <2>1. pass' = NoPass \/ pass.pc \in {"idle", "identity", "list", "interlock"}
    BY <1>1, <1>n, Zenon DEF PassStart, PassIdentity, PassList, Interlock, SealDone, Kill, Ends
  <2>2. pass' = NoPass \/ Pass("identity") \/ Pass("list") \/ Pass("vault")
        \/ Pass("interlock") \/ Pass("fetch")
    BY <1>1, Zenon DEF PassStart, PassIdentity, PassList, Interlock, SealDone, Kill, Ends
  <2> QED
    BY <2>1, <2>2, <1>p, Zenon
<1>2. CASE PassVault
  <2>1. pass.pc = "vault"
    BY <1>2, Zenon DEF PassVault
  <2>2. \/ pass' = [pass EXCEPT !.pc = "blob", !.got = proj, !.copy = wrapped[Me]]
        \/ pass' = NoPass \/ Pass("interlock")
    BY <1>2, Zenon DEF PassVault, Ends
  <2> QED
    BY <1>2, <2>1, <2>2, <1>p, <1>r, ReadEffect, Zenon
<1>3. CASE SealFetch
  <2>1. \/ pass' = [pass EXCEPT !.pc = "pending", !.got = [proj EXCEPT !.hosts = NoHosts]]
        \/ pass' = NoPass
    BY <1>3, Zenon DEF SealFetch, Ends
  <2> QED
    BY <1>3, <2>1, <1>r, SealFetchEffect, Zenon
<1>4. CASE SealPending
  BY <1>4, <1>r, PendingEffect, Zenon
<1> QED
  BY <1>1, <1>2, <1>3, <1>4, WhoPasses, Zenon DEF Reading, Sealing

\* Every step keeps it: a rotation moves the mark past what the pass has read.
LEMMA SealStep == Typed /\ SealFollows /\ [Next]_vars => SealFollows'
<1> SUFFICES ASSUME Typed, SealFollows, [Next]_vars PROVE SealFollows'
  OBVIOUS
<1>t. Records /\ proj.ver \in Nat /\ pass.got.ver \in Nat /\ proj'.ver \in Nat
      /\ NoPass.pc = "idle" /\ rotated \in 0..proj.ver
  BY TypedFields, ProjTypeStep DEF ProjTyped, Vault, NoPass
<1>1. ASSUME pass'.pc \in {"pending", "submit"} => pass.pc \in {"pending", "submit"}
             /\ pass'.got = pass.got
      PROVE  SealFollows'
  BY <1>1, <1>t, NextVersion DEF SealFollows
<1>2. CASE /\ SealFetch
           /\ pass' = [pc |-> "pending", got |-> [ver |-> proj.ver, dek |-> proj.dek,
                                                  hosts |-> NoHosts],
                       copy |-> pass.copy, pend |-> pass.pend]
  <2>1. UNCHANGED <<proj, rotated>>
    BY <1>2, Zenon DEF SealFetch, unread
  <2> QED
    BY <1>2, <2>1, <1>t DEF SealFollows
<1>3. CASE CacheBlob \/ CacheMeta
  BY <1>1, <1>3, <1>t, BlobEffect, MetaEffect
<1>4. CASE SealSubmit
  <2>1. pass.pc = "submit"
    BY <1>4, Zenon DEF SealSubmit
  <2>2. PICK m : pass' = [pc |-> pass.pc, got |-> pass.got, copy |-> pass.copy,
                          pend |-> pass.pend \ {m}]
    BY <1>4, <1>t, SubmitEffect
  <2> QED
    BY <1>1, <2>1, <2>2
<1>5. CASE /\ SealPending
           /\ pass' = [pc |-> "submit", got |-> pass.got, copy |-> pass.copy, pend |-> Pending]
  <2>1. pass.pc = "pending"
    BY <1>5, Zenon DEF SealPending
  <2> QED
    BY <1>1, <1>5, <2>1
<1>6. CASE UNCHANGED pass \/ pass' = NoPass
           \/ pass'.pc \in {"identity", "list", "vault", "interlock", "fetch"}
           \/ pass' = [pc |-> "blob", got |-> proj, copy |-> wrapped[Me], pend |-> pass.pend]
  BY <1>1, <1>6, <1>t
<1> QED
  BY <1>2, <1>3, <1>4, <1>5, <1>6, PassSteps

\* Every step keeps it, as long as nobody changes a key that is being sealed to.
LEMMA PendingStep ==
  ASSUME "rekey" \notin Overlap, Typed, PendingKeys, [Next]_vars
  PROVE  PendingKeys'
<1>t. Records /\ NoPass.pc = "idle" /\ NoPass.pend = {} /\ keys \in [User -> Nat]
      /\ pass.pend \subseteq User \X Nat /\ members \subseteq User
  BY TypedFields DEF NoPass, KeysTyped
<1>k. pass.pend = {} \/ \A m \in pass.pend : keys'[m[1]] = keys[m[1]]
  <2>1. ASSUME NEW u \in Member, Rekey(u) PROVE \A m \in pass.pend : keys'[m[1]] = keys[m[1]]
    <3>1. <<u, keys[u]>> \notin pass.pend /\ keys' = [keys EXCEPT ![u] = @ + 1]
      BY <2>1 DEF Rekey
    <3>2. \A m \in pass.pend : m[1] # u
      BY <3>1, <1>t DEF PendingKeys
    <3> QED
      BY <3>1, <3>2, <1>t
  <2>2. UNCHANGED keys \/ \E u \in Member : Rekey(u)
    BY WhoKeys, Zenon DEF Create, Republish, SealSubmit, unread, Join, Leave, OtherSeals, Rotate
  <2> QED
    BY <2>1, <2>2
<1>1. CASE pass'.pend \subseteq pass.pend /\ (pass'.pend # {} => pass'.pc = "submit")
  BY <1>1, <1>k DEF PendingKeys
<1>2. CASE /\ SealPending
           /\ pass' = [pc |-> "submit", got |-> pass.got, copy |-> pass.copy, pend |-> Pending]
  <2>1. UNCHANGED keys
    BY <1>2, Zenon DEF SealPending, unread
  <2> QED
    BY <1>2, <2>1, <1>t DEF PendingKeys, Pending
<1>3. CASE SealSubmit
  <2>1. pass.pc = "submit"
    BY <1>3, Zenon DEF SealSubmit
  <2>2. PICK m : pass' = [pc |-> pass.pc, got |-> pass.got, copy |-> pass.copy,
                          pend |-> pass.pend \ {m}]
    BY <1>3, <1>t, SubmitEffect
  <2> QED
    BY <1>1, <2>1, <2>2
<1>4. CASE pass.pc # "submit" /\ pass'.pend = pass.pend
  BY <1>1, <1>4 DEF PendingKeys
<1>5. CASE CacheBlob \/ CacheMeta
  <2>1. pass.pc \in {"blob", "meta"}
    BY <1>5, Zenon DEF CacheBlob, CacheMeta
  <2> QED
    BY <1>1, <1>4, <1>5, <2>1, <1>t, BlobEffect, MetaEffect
<1>6. CASE /\ PassVault
           /\ pass' = [pc |-> "blob", got |-> proj, copy |-> wrapped[Me], pend |-> pass.pend]
  <2>1. pass.pc = "vault"
    BY <1>6, Zenon DEF PassVault
  <2> QED
    BY <1>4, <1>6, <2>1
<1>7. CASE /\ SealFetch
           /\ pass' = [pc |-> "pending", got |-> [ver |-> proj.ver, dek |-> proj.dek,
                                                  hosts |-> NoHosts],
                       copy |-> pass.copy, pend |-> pass.pend]
  <2>1. pass.pc = "fetch"
    BY <1>7, Zenon DEF SealFetch
  <2> QED
    BY <1>4, <1>7, <2>1
<1>8. CASE UNCHANGED pass \/ pass' = NoPass
           \/ (pass'.pend = pass.pend /\ pass.pc \notin {"pending", "submit"})
  BY <1>1, <1>4, <1>8, <1>t DEF PendingKeys
<1> QED
  BY <1>2, <1>3, <1>5, <1>6, <1>7, <1>8, PassSteps

\* Whatever copy the server takes opens: of the current key, for the key its user has.
LEMMA KeyStep ==
  ASSUME Typed, SealFollows, PendingKeys, KeyedCanOpen, [Next]_vars
  PROVE  KeyedCanOpen'
<1>t. /\ wrapped \in [User -> Copy] /\ keys \in [User -> Nat] /\ members \subseteq User
      /\ \A u \in User \ members : wrapped[u] = NoCopy
      /\ proj = NoVault => members = {}
      /\ Records /\ pass.pend \subseteq User \X Nat
      /\ \A u \in User : wrapped[u] # NoCopy => wrapped[u].dek = proj.dek
         /\ wrapped[u].key = keys[u]
      /\ NoCopy = [dek |-> 0, key |-> 0]
  BY TypedFields DEF KeysTyped, KeyedCanOpen, Opens, NoCopy
<1>g. (\A u \in User : wrapped'[u] # NoCopy => wrapped'[u].dek = proj'.dek
      /\ wrapped'[u].key = keys'[u])
        => KeyedCanOpen'
  BY DEF KeyedCanOpen, Opens
<1>1. CASE Create
  <2>1. PICK u \in User : wrapped' = [wrapped EXCEPT ![u] = [dek |-> 1, key |-> keys[u]]]
    BY <1>1, Zenon DEF Create
  <2>2. UNCHANGED keys /\ proj = NoVault
    BY <1>1, Zenon DEF Create
  <2>3. proj'.dek = 1
    BY <1>1, CreateEffect
  <2> QED
    BY <2>1, <2>2, <2>3, <1>t, <1>g
<1>2. CASE Republish
  BY <1>2, <1>t, <1>g DEF Republish
<1>3. CASE SealSubmit
  <2>1. PICK m \in pass.pend :
          Accepts(m[1], [dek |-> pass.got.dek, key |-> m[2]], pass.got.ver) \/ UNCHANGED wrapped
    BY <1>3, SubmitEffect, <1>t
  <2>2. UNCHANGED <<proj, rotated, members, keys>> /\ pass.pc = "submit"
    BY <1>3, Zenon DEF SealSubmit, unread
  <2>3. m[1] \in User /\ m[2] = keys[m[1]]
    BY <2>1, <1>t DEF PendingKeys
  <2>4. pass.got.ver >= rotated => pass.got.dek = proj.dek
    BY <2>2 DEF SealFollows
  <2> QED
    BY <2>1, <2>2, <2>3, <2>4, <1>t, <1>g DEF Accepts
<1>4. ASSUME NEW u \in User, Join(u) PROVE KeyedCanOpen'
  BY <1>4, <1>t, <1>g DEF Join
<1>5. ASSUME NEW u \in User, Leave(u) PROVE KeyedCanOpen'
  BY <1>5, <1>t, <1>g DEF Leave
<1>6. ASSUME NEW u \in User, OtherSeals(u) PROVE KeyedCanOpen'
  BY <1>6, <1>t, <1>g DEF OtherSeals, Accepts
<1>7. ASSUME NEW u \in Member, Rekey(u) PROVE KeyedCanOpen'
  BY <1>7, <1>t, <1>g DEF Rekey, User
<1>8. ASSUME NEW out \in User \cup {None}, Rotate(out) PROVE KeyedCanOpen'
  <2>1. /\ UNCHANGED keys
        /\ wrapped' = [u \in User |->
             IF u = out
             \/ wrapped[u] = NoCopy THEN NoCopy ELSE [dek |-> proj'.dek, key |-> keys[u]]]
    BY <1>8, Zenon DEF Rotate
  <2> QED
    BY <2>1, <1>t, <1>g
<1>9. CASE UNCHANGED <<members, wrapped, keys>>
  <2>1. proj'.dek = proj.dek \/ Create \/ \E out \in User \cup {None} : Rotate(out)
    BY NextVersion
  <2> QED
    BY <2>1, <1>1, <1>8, <1>9, <1>t, <1>g
<1> QED
  BY <1>1, <1>2, <1>3, <1>4, <1>5, <1>6, <1>7, <1>8, <1>9, WhoKeys

\* Every step keeps it: a copy that opens at the server is of the key of the server's vault.
LEMMA CacheStep ==
  ASSUME Typed, CacheFollows, KeyedCanOpen, [Next]_vars
  PROVE  CacheFollows'
<1>t. Records /\ NoPass.pc = "idle"
  BY TypedFields DEF NoPass
<1>0. pass'.pc \notin {"blob", "meta"} => CacheFollows'
  BY DEF CacheFollows
<1>1. CASE UNCHANGED pass
  <2>1. CASE UNCHANGED cache
    BY <1>1, <2>1 DEF CacheFollows
  <2>2. CASE CacheBlob
    BY <2>2, <1>1, <1>t, BlobEffect DEF CacheBlob
  <2>3. CASE CacheMeta
    BY <2>3, <1>0, <1>t, MetaEffect
  <2>4. CASE PassList \/ PassVault
    <3>1. pass.pc \in {"list", "vault"}
      BY <2>4, Zenon DEF PassList, PassVault
    <3> QED
      BY <1>0, <1>1, <3>1
  <2> QED
    BY <2>1, <2>2, <2>3, <2>4, WhoCaches
<1>2. CASE /\ PassVault
           /\ pass' = [pc |-> "blob", got |-> proj, copy |-> wrapped[Me], pend |-> pass.pend]
  <2>1. Opens(Me, wrapped[Me])
    <3>1. pass' = NoPass \/ Pass("interlock") \/ Opens(Me, wrapped[Me])
      BY <1>2, Zenon DEF PassVault, Ends
    <3>2. Pass("interlock") => pass'.pc = "interlock"
      BY <1>t, PassEffect DEF PassPc
    <3> QED
      BY <1>2, <1>t, <3>1, <3>2
  <2>2. wrapped[Me].dek = proj.dek
    BY <2>1 DEF KeyedCanOpen, Opens, User
  <2> QED
    BY <1>2, <2>2 DEF CacheFollows
<1>3. CASE CacheBlob
  <2>1. pass.pc = "blob"
    BY <1>3, Zenon DEF CacheBlob
  <2> QED
    BY <1>3, <2>1, <1>t, BlobEffect DEF CacheFollows
<1>4. CASE CacheMeta
  BY <1>0, <1>4, <1>t, MetaEffect
<1>5. CASE SealSubmit
  <2>1. pass.pc = "submit"
    BY <1>5, Zenon DEF SealSubmit
  <2>2. PICK m : pass' = [pc |-> pass.pc, got |-> pass.got, copy |-> pass.copy,
                          pend |-> pass.pend \ {m}]
    BY <1>5, <1>t, SubmitEffect
  <2> QED
    BY <1>0, <2>1, <2>2
<1>6. CASE \/ pass' = NoPass
           \/ pass'.pc \in {"identity", "list", "vault", "interlock", "fetch"}
           \/ pass' = [pc |-> "pending", got |-> [ver |-> proj.ver, dek |-> proj.dek,
                                                  hosts |-> NoHosts],
                       copy |-> pass.copy, pend |-> pass.pend]
           \/ pass' = [pc |-> "submit", got |-> pass.got, copy |-> pass.copy, pend |-> Pending]
  BY <1>0, <1>6, <1>t
<1> QED
  BY <1>1, <1>2, <1>3, <1>4, <1>5, <1>6, PassSteps

\* Every step keeps it, as long as the process does not end between the two writes.
LEMMA OpensStep ==
  ASSUME "kill" \notin Overlap, Typed, CacheFollows, CacheOpens, [Next]_vars
  PROVE  CacheOpens'
<1>t. Records /\ NoCache.copy = NoCopy /\ NoPass.pc = "idle"
  BY TypedFields DEF NoCache, NoPass
<1>1. CASE CacheBlob
  BY <1>1, <1>t, BlobEffect DEF CacheOpens
<1>2. CASE CacheMeta
  <2>1. pass.pc = "meta"
    BY <1>2, Zenon DEF CacheMeta
  <2> QED
    BY <1>2, <2>1, <1>t, MetaEffect DEF CacheFollows, CacheOpens
<1>3. CASE PassList \/ PassVault
  <2>1. pass.pc \in {"list", "vault"} /\ (cache' = NoCache \/ UNCHANGED cache)
    BY <1>3, Zenon DEF PassList, PassVault
  <2> QED
    BY <2>1, <1>t DEF CacheOpens
<1>4. CASE UNCHANGED cache
  <2>1. pass.pc = "meta" => UNCHANGED pass \/ CacheMeta
    <3>1. CASE PassStart \/ Reading \/ Sealing \/ Kill
      <4>1. pass.pc # "meta" \/ CacheMeta
        BY <1>t, <3>1, Zenon DEF PassStart, Reading, Sealing, Kill, PassIdentity, PassList,
           PassVault, CacheBlob, Interlock, SealFetch, SealPending, SealSubmit, SealDone
      <4> QED
        BY <4>1
    <3> QED
      BY <3>1, WhoPasses
  <2> QED
    BY <2>1, <1>2, <1>4 DEF CacheOpens
<1> QED
  BY <1>1, <1>2, <1>3, <1>4, WhoCaches

-----------------------------------------------------------------------------
(* Nobody is sealed for under a warning. *)

\* A pass seals only while the account's published key is not known to be wrong.
Warned == mismatch => pass.pc \notin {"fetch", "pending", "submit"}

\* Every step keeps it, as long as no other call finds the key wrong while a pass seals.
LEMMA WarnedStep ==
  ASSUME "identity" \notin Overlap, Typed, Warned, [Next]_vars
  PROVE  Warned'
<1>t. Records /\ NoPass.pc = "idle"
  BY TypedFields DEF NoPass
<1>m. ~mismatch' \/ UNCHANGED mismatch \/ WriteIdentity \/ PassIdentity
  BY WhoWarns, Zenon DEF Republish, Kill
<1>1. CASE pass'.pc \in {"fetch", "pending", "submit"} => pass.pc \in {"fetch", "pending", "submit"}
  <2>1. CASE WriteIdentity
    <3>1. ~mismatch' \/ UNCHANGED mismatch \/ pass.pc \notin {"fetch", "pending", "submit"}
      BY <2>1, Zenon DEF WriteIdentity, Give
    <3> QED
      BY <1>1, <3>1 DEF Warned
  <2>2. CASE PassIdentity
    <3>1. pass.pc = "identity"
      BY <2>2, Zenon DEF PassIdentity
    <3> QED
      BY <1>1, <3>1 DEF Warned
  <2> QED
    BY <1>1, <1>m, <2>1, <2>2 DEF Warned
<1>2. CASE PassStart \/ PassIdentity \/ PassList \/ SealDone \/ Kill
  <2>1. pass' = NoPass \/ Pass("identity") \/ Pass("list") \/ Pass("vault") \/ Pass("interlock")
    BY <1>2, Zenon DEF PassStart, PassIdentity, PassList, SealDone, Kill, Ends
  <2>2. pass'.pc \notin {"fetch", "pending", "submit"}
    BY <2>1, <1>t, PassEffect DEF PassPc
  <2> QED
    BY <1>1, <2>2
<1>3. CASE PassVault
  <2>1. \/ pass' = [pass EXCEPT !.pc = "blob", !.got = proj, !.copy = wrapped[Me]]
        \/ pass' = NoPass \/ Pass("interlock")
    BY <1>3, Zenon DEF PassVault, Ends
  <2>2. pass'.pc \notin {"fetch", "pending", "submit"}
    BY <2>1, <1>t, ReadEffect, PassEffect DEF PassPc
  <2> QED
    BY <1>1, <2>2
<1>4. CASE CacheBlob \/ CacheMeta
  BY <1>1, <1>4, <1>t, BlobEffect, MetaEffect
<1>5. CASE Interlock
  <2>1. UNCHANGED mismatch /\ (mismatch => pass' = NoPass)
    BY <1>5, Zenon DEF Interlock, Ends
  <2> QED
    BY <2>1, <1>t DEF Warned
<1>6. CASE SealFetch \/ SealPending \/ SealSubmit
  <2>1. pass.pc \in {"fetch", "pending", "submit"}
    BY <1>6, Zenon DEF SealFetch, SealPending, SealSubmit
  <2> QED
    BY <1>1, <2>1
<1>7. CASE UNCHANGED pass
  BY <1>1, <1>7
<1> QED
  BY <1>2, <1>3, <1>4, <1>5, <1>6, <1>7, WhoPasses DEF Reading, Sealing

\* A step that seals for a member, knowing the key to be wrong, is one of a pass that seals.
LEMMA SealsWarned ==
  ASSUME Typed, Warned, [Next]_vars
  PROVE  mismatch => \A u \in User : pass'.pend # pass.pend => wrapped'[u] = wrapped[u]
<1>t. Records /\ NoPass.pc = "idle"
  BY TypedFields DEF NoPass
<1>1. CASE SealSubmit
  <2>1. pass.pc = "submit"
    BY <1>1, Zenon DEF SealSubmit
  <2> QED
    BY <2>1 DEF Warned
<1>2. CASE UNCHANGED pass \/ UNCHANGED wrapped
  BY <1>2
<1>3. PassStart \/ Reading \/ Sealing \/ Kill => SealSubmit \/ UNCHANGED wrapped
  BY Zenon DEF PassStart, Reading, Sealing, Kill, PassIdentity, PassList, PassVault, CacheBlob,
     CacheMeta, Interlock, SealFetch, SealPending, SealDone, server
<1> QED
  BY <1>1, <1>2, <1>3, WhoPasses

-----------------------------------------------------------------------------
(* The initial states. *)

\* What a behaviour begins with: nothing under way, and the hosts in the phone's vault.
LEMMA Begins ==
  ASSUME Init
  PROVE  /\ call = NoCall /\ pass = NoPass /\ cache = NoCache /\ mismatch = FALSE
         /\ latest = personal
         /\ \/ /\ proj = NoVault /\ rotated = 0 /\ members = {}
               /\ wrapped = [u \in User |-> NoCopy]
            \/ /\ proj = [ver |-> 1, dek |-> 1, hosts |-> NoHosts] /\ rotated = 1
               /\ members = User /\ wrapped = [u \in User |-> [dek |-> 1, key |-> 1]]
         /\ keys = [u \in User |-> 1]
<1>1. CASE proj = [NoVault EXCEPT !.ver = 1, !.dek = 1]
  <2>1. proj = [ver |-> 1, dek |-> 1, hosts |-> NoVault.hosts]
    BY <1>1, Constants, VaultMade, Zenon DEF Vault
  <2>2. proj = [ver |-> 1, dek |-> 1, hosts |-> NoHosts]
    BY <2>1 DEF NoVault
  <2> QED
    BY <2>2, Zenon DEF Init
<1> QED
  BY <1>1, Zenon DEF Init

\* The initial states have their types.
LEMMA InitTypes == Init => Typed
<1> SUFFICES ASSUME Init PROVE Typed
  OBVIOUS
<1> USE Constants, Begins
<1>1. ProjTyped /\ ClaimTyped
  <2>1. rotated = proj.ver /\ proj \in Vault /\ proj.ver \in Nat
    BY DEF NoVault, Vault
  <2>2. wrote = 0 /\ NoCall.pc = "idle"
    BY Zenon DEF Init, NoCall
  <2> QED
    BY <2>1, <2>2 DEF ProjTyped, ClaimTyped
<1>2. KeysTyped
  BY DEF NoVault, KeysTyped, Copy
<1>3. HostsTyped /\ CountTyped
  <2>1. personal = [h \in Host |-> 1] /\ rev = 1 /\ others = 0 /\ faults = 0
    BY Zenon DEF Init
  <2> QED
    BY <2>1 DEF HostsTyped, CountTyped, Hosts
<1>4. CallTyped
  <2>1. NoCall.pc = "idle"
    BY DEF NoCall
  <2> QED
    BY <2>1, Zenon DEF CallTyped
<1>5. Flags
  BY Zenon DEF Init, Flags
<1> QED
  BY <1>1, <1>2, <1>3, <1>4, <1>5, TypedParts

\* Nothing is under way, so nothing is promised of it yet.
LEMMA InitQuiet ==
  ASSUME Init
  PROVE  /\ PutFollows /\ MoveHolds /\ HostNeverLost
         /\ SealFollows /\ PendingKeys /\ KeyedCanOpen /\ CacheFollows /\ CacheOpens /\ Warned
<1>1. /\ call.pc = "idle" /\ call.move = FALSE /\ pass.pc = "idle" /\ pass.pend = {}
      /\ cache.copy = NoCopy /\ mismatch = FALSE /\ latest = personal
  BY Begins DEF NoCall, NoPass, NoCache
<1>2. KeyedCanOpen
  BY Begins DEF KeyedCanOpen, Opens, NoCopy
<1> QED
  BY <1>1, <1>2
  DEF PutFollows, MoveHolds, HostNeverLost, SealFollows, PendingKeys, CacheFollows,
      CacheOpens, Warned

-----------------------------------------------------------------------------
(* The theorems. *)

\* Every variable keeps its type: among them that a write is never tried more often than
\* it may be, that who is no member has no copy of the key, and that no version is claimed
\* the project has not had.  Whatever meets a call under way.
THEOREM SharingTypes == Spec => []TypeOK
<1>1. Init => Typed
  BY InitTypes
<1>2. Typed /\ [Next]_vars => Typed'
  BY TypeStep
<1>3. Typed => TypeOK
  BY DEF Typed
<1> QED
  BY <1>1, <1>2, <1>3, PTL DEF Spec

\* Whatever the last editor of a host made of it is in the phone's vault or in the project:
\* a move that fails, is refused or meets other writers loses nothing, as long as the host is
\* not edited while it is on its way.  (moveHostToProject.)
THEOREM HostsNeverLost ==
  ASSUME "edit" \notin Overlap
  PROVE  Spec => []HostNeverLost
<1>1. Init => Kept
  BY InitTypes, InitQuiet DEF Kept
<1>2. Kept /\ [Next]_vars => Kept'
  <2> SUFFICES ASSUME Kept, [Next]_vars PROVE Kept'
    OBVIOUS
  <2>1. Typed' /\ PutFollows' /\ MoveHolds' /\ HostNeverLost'
    BY TypeStep, PutStep, MoveStep, LostStep DEF Kept
  <2> QED
    BY <2>1 DEF Kept
<1>3. Kept => HostNeverLost
  BY DEF Kept
<1> QED
  BY <1>1, <1>2, <1>3, PTL DEF Spec

\* The inductive invariant of the keys.
Keyed == Typed /\ SealFollows /\ PendingKeys /\ KeyedCanOpen

\* The inductive invariant of the copies.
LEMMA KeyedAlways ==
  ASSUME "rekey" \notin Overlap
  PROVE  Spec => []Keyed
<1>1. Init => Keyed
  BY InitTypes, InitQuiet DEF Keyed
<1>2. Keyed /\ [Next]_vars => Keyed'
  <2> SUFFICES ASSUME Keyed, [Next]_vars PROVE Keyed'
    OBVIOUS
  <2>1. Typed' /\ SealFollows' /\ PendingKeys' /\ KeyedCanOpen'
    BY TypeStep, SealStep, PendingStep, KeyStep DEF Keyed
  <2> QED
    BY <2>1 DEF Keyed
<1> QED
  BY <1>1, <1>2, PTL DEF Spec

\* No member is keyed and shut out: every copy of the DEK at the server is of the current
\* one and opens with its user's key, as long as no user changes its key while a pass seals
\* to it.  (finalizeProject.)
THEOREM KeyedMembersCanOpen ==
  ASSUME "rekey" \notin Overlap
  PROVE  Spec => []KeyedCanOpen
<1>1. Spec => []Keyed
  BY KeyedAlways
<1>2. Keyed => KeyedCanOpen
  BY DEF Keyed
<1> QED
  BY <1>1, <1>2, PTL

\* And what is cached opens with the copy that is cached with it, as long as the process does
\* not end between the two writes of the cache either.  (cacheProject, cachedViews.)
THEOREM CopiesAlwaysOpen ==
  ASSUME {"rekey", "kill"} \cap Overlap = {}
  PROVE  Spec => []CopiesOpen
<1>k. "rekey" \notin Overlap /\ "kill" \notin Overlap
  OBVIOUS
<1>1. Spec => []Keyed
  BY <1>k, KeyedAlways
<1>2. Init => CacheFollows /\ CacheOpens
  BY InitQuiet
<1>3. Keyed /\ CacheFollows /\ CacheOpens /\ [Next]_vars => CacheFollows' /\ CacheOpens'
  BY <1>k, CacheStep, OpensStep DEF Keyed
<1>4. Keyed /\ CacheOpens => CopiesOpen
  BY DEF Keyed, CopiesOpen
<1> QED
  BY <1>1, <1>2, <1>3, <1>4, PTL DEF Spec

\* The phone seals for nobody while it knows the account's published key to be wrong, as long
\* as no other call finds that out while a pass seals.  (runFinalizePass.)
THEOREM SealsUnwarned ==
  ASSUME "identity" \notin Overlap
  PROVE  Spec => NoSealUnderMismatch
<1>1. Init => Typed /\ Warned
  BY InitTypes, InitQuiet
<1>2. Typed /\ Warned /\ [Next]_vars => Typed' /\ Warned'
  BY TypeStep, WarnedStep
<1>3. Typed /\ Warned /\ [Next]_vars =>
        [mismatch => \A u \in User : pass'.pend # pass.pend => wrapped'[u] = wrapped[u]]_vars
  BY SealsWarned
<1> QED
  BY <1>1, <1>2, <1>3, PTL DEF Spec, NoSealUnderMismatch

-----------------------------------------------------------------------------
(* What the hybrid upgrade promises about the DEKs that are out already. *)

\* What is wrapped for an identity is a box, with the ML-KEM layer around it exactly when
\* the identity is hybrid.  (sealDek.)
LEMMA SealedForm ==
  ASSUME NEW dek, NEW id
  PROVE  LET w == SealDek(dek, EncodeIdentity(id))
             b == BoxSeal(dek, id.x25519) IN
         /\ id.mlkemSeed = NoSeed => w = b /\ ~IsHybridWrapped(w)
         /\ id.mlkemSeed # NoSeed =>
              IsHybridWrapped(w) /\ w.cipherText = id.mlkemSeed /\ w.body = b
BY DEF SealDek, EncodeIdentity, BoxSeal, WrapHybrid, IsHybridWrapped

\* A DEK opens with the identity it was sealed for, in either form.  (sealDek, openDek.)
THEOREM SealedOpens ==
  ASSUME NEW dek, NEW id
  PROVE  OpenDek(SealDek(dek, EncodeIdentity(id)), id) = dek
<1>1. BoxSealOpen(BoxSeal(dek, id.x25519), id.x25519) = dek
  BY DEF BoxSealOpen, BoxSeal
<1>2. CASE id.mlkemSeed = NoSeed
  BY <1>1, <1>2, SealedForm DEF OpenDek
<1>3. CASE id.mlkemSeed # NoSeed
  BY <1>1, <1>3, SealedForm DEF OpenDek
<1> QED BY <1>2, <1>3

\* The upgrade of an identity loses no project: every DEK sealed for it before opens
\* with it after.  (The comment of openDek; upgradeToHybrid.)
THEOREM UpgradeKeepsProjects ==
  ASSUME NEW X, NEW Seeds, NEW id \in Identities(X, Seeds), NEW seed \in Seeds, NEW dek
  PROVE  OpenDek(SealDek(dek, EncodeIdentity(id)), Upgrade(id, seed)) = dek
<1>1. CASE id.mlkemSeed # NoSeed
  BY <1>1, SealedOpens DEF Upgrade
<1>2. CASE id.mlkemSeed = NoSeed
  <2>1. Upgrade(id, seed).x25519 = id.x25519
    BY <1>2 DEF Upgrade, Identities
  <2>2. OpenDek(BoxSeal(dek, id.x25519), Upgrade(id, seed)) = dek
    BY <2>1 DEF OpenDek, BoxSeal, BoxSealOpen, IsHybridWrapped
  <2> QED BY <1>2, <2>2, SealedForm
<1> QED BY <1>1, <1>2

\* A DEK opens for nobody but its recipient: not with another X25519 key, and, sealed
\* for the hybrid form, not with the classical half alone.  (sealDek, unwrapHybrid.)
THEOREM OnlyRecipientOpens ==
  ASSUME NEW dek, dek # WrongSecret, NEW id, NEW other,
         OpenDek(SealDek(dek, EncodeIdentity(id)), other) # WrongSecret
  PROVE  /\ other.x25519 = id.x25519
         /\ id.mlkemSeed # NoSeed => other.mlkemSeed = id.mlkemSeed
<1>1. ASSUME BoxSealOpen(BoxSeal(dek, id.x25519), other.x25519) # WrongSecret
      PROVE  other.x25519 = id.x25519
  BY <1>1 DEF BoxSealOpen, BoxSeal
<1>2. CASE id.mlkemSeed = NoSeed
  <2>1. OpenDek(BoxSeal(dek, id.x25519), other) # WrongSecret
    BY <1>2, SealedForm
  <2>2. ~IsHybridWrapped(BoxSeal(dek, id.x25519))
    BY DEF IsHybridWrapped, BoxSeal
  <2> QED BY <1>1, <1>2, <2>1, <2>2 DEF OpenDek
<1>3. CASE id.mlkemSeed # NoSeed
  <2> DEFINE w == SealDek(dek, EncodeIdentity(id))
  <2>1. IsHybridWrapped(w) /\ w.cipherText = id.mlkemSeed /\ w.body = BoxSeal(dek, id.x25519)
    BY <1>3, SealedForm
  <2>2. OpenDek(w, other) # WrongSecret
    OBVIOUS
  <2> HIDE DEF w
  <2>3. other.mlkemSeed = id.mlkemSeed /\ BoxSealOpen(w.body, other.x25519) # WrongSecret
    BY <2>1, <2>2 DEF OpenDek
  <2> QED BY <1>1, <2>1, <2>3
<1> QED BY <1>2, <1>3

\* The maker of a project reads it, also once the identity is upgraded.
\* (buildCreateProject; the reading of syncOne.)
THEOREM CreatedIsRead ==
  ASSUME NEW X, NEW Seeds, NEW id \in Identities(X, Seeds), NEW seed \in Seeds,
         NEW dek, dek # WrongSecret
  PROVE  LET made == BuildCreateProject(dek, EncodeIdentity(id)) IN
         ReadProject(made.wrappedDek, made.vault, Upgrade(id, seed)) = Empty
BY UpgradeKeepsProjects DEF BuildCreateProject, ReadProject, SealProject, OpenProject
=============================================================================
