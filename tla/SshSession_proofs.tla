------------------------- MODULE SshSession_proofs -------------------------
(***************************************************************************)
(* Proofs about SshSession and Terminal, for every set of sessions and of  *)
(* host keys and every number of password prompts, of chunks and of        *)
(* resizes: types, the trust of host keys, the screen and the attempt      *)
(* behind it, and what travels between a shell and its page.               *)
(***************************************************************************)
EXTENDS Terminal, TLAPS

\* Where an attempt is past the check of the host key.
PastKey == {"auth", "password", "other", "check", "shell", "up", "closing"}

\* The inductive invariant, of one attempt when known_hosts holds the keys K:
\* what it has read of the file is still there, and so is the key it went on
\* with; the one it asks about is a key of the host.
Trusts(a, K) ==
  /\ a \in Attempt
  /\ a.db \subseteq K
  /\ a.pc \in PastKey => a.key \in K
  /\ a.pc = "hostkey" => a.key \in HostKey

\* Of every attempt.
AllTrust ==
  /\ DOMAIN attempt = Session /\ attempt = [s \in Session |-> attempt[s]]
  /\ \A s \in Session : Trusts(attempt[s], known)

\* What it says of the rest of the state.
Shared ==
  /\ known \subseteq HostKey
  /\ calls \in Seq(Call)
  /\ cur \in Session \cup {None}
  /\ phase \in {"off", "connecting", "connected", "ended"}
  /\ modal \in Prompt \cup {"none"}
  /\ remember \in Password \cup {None}
  /\ locked \in BOOLEAN

\* Of the whole state.
SInv == Shared /\ AllTrust

\* The two properties the invariant is for.
LEMMA InvImplies == SInv => TypeOK /\ OnlyTrusted
  BY DEF SInv, Shared, AllTrust, Trusts, TypeOK, OnlyTrusted, Pcs, PastKey

-----------------------------------------------------------------------------
(* The records of attempts. *)

\* The attempt that has not begun.
LEMMA UnbornTrusts ==
  ASSUME NEW K \in SUBSET HostKey
  PROVE  Trusts(Unborn, K)
<1>1. 0 \in 0..(Asks + 1) /\ <<>> \in Seq(Prompt \cup {"closed"}) /\ "unborn" \in Pc
  BY AsksIsNat DEF Pc
<1>2. Unborn \in Attempt
  BY <1>1 DEF Unborn, Attempt
<1>3. Unborn.db = {} /\ Unborn.pc \notin PastKey \cup {"hostkey"}
  BY DEF Unborn, PastKey
<1> QED
  BY <1>2, <1>3 DEF Trusts

\* Nothing is lost when known_hosts grows.
LEMMA TrustsGrows ==
  ASSUME NEW a, NEW K, NEW L, K \subseteq L, Trusts(a, K)
  PROVE  Trusts(a, L)
  BY DEF Trusts

\* An attempt that is past the check of the key stays so.
Placed(a, pc) == [a EXCEPT !.pc = pc]

\* The invariant survives the move, unless it gets past the check by it.
LEMMA PlacedTrusts ==
  ASSUME NEW a, NEW K, Trusts(a, K), NEW pc \in Pc,
         pc \in PastKey => a.pc \in PastKey,
         pc = "hostkey" => a.key \in HostKey
  PROVE  Trusts(Placed(a, pc), K)
  BY DEF Placed, Trusts, Attempt

\* A promise on its way changes neither place nor keys.
Promised(a, p) == [a EXCEPT !.promise = p]

\* The invariant survives it.
LEMMA PromisedTrusts ==
  ASSUME NEW a, NEW K, Trusts(a, K), NEW p \in {"none", "ok", "err"}
  PROVE  Trusts(Promised(a, p), K)
  BY DEF Promised, Trusts, Attempt

\* Neither does an answer, or a password being tried.
Replied(a, r) == [a EXCEPT !.reply = r]

\* The invariant survives it.
LEMMA RepliedTrusts ==
  ASSUME NEW a, NEW K, Trusts(a, K), NEW r \in Password \cup {"yes", "no", None}
  PROVE  Trusts(Replied(a, r), K)
  BY DEF Replied, Trusts, Attempt

\* Neither does a stop.
Stopped(a, b) == [a EXCEPT !.stop = b]

\* The invariant survives it.
LEMMA StoppedTrusts ==
  ASSUME NEW a, NEW K, Trusts(a, K), NEW b \in BOOLEAN
  PROVE  Trusts(Stopped(a, b), K)
  BY DEF Stopped, Trusts, Attempt

\* Neither does a try.
Tried(a, n) == [a EXCEPT !.tries = n]

\* The invariant survives it.
LEMMA TriedTrusts ==
  ASSUME NEW a, NEW K, Trusts(a, K), NEW n \in 0..(Asks + 1)
  PROVE  Trusts(Tried(a, n), K)
  BY DEF Tried, Trusts, Attempt

\* Neither do events.
Noticed(a, e) == [a EXCEPT !.events = e]

\* The invariant survives it.
LEMMA NoticedTrusts ==
  ASSUME NEW a, NEW K, Trusts(a, K), NEW e \in Seq(Prompt \cup {"closed"})
  PROVE  Trusts(Noticed(a, e), K)
  BY DEF Noticed, Trusts, Attempt

\* Nor does forgetting events and promise.
LEMMA UnheardTrusts ==
  ASSUME NEW a, NEW K, Trusts(a, K)
  PROVE  Trusts(Unheard(a), K)
<1>1. <<>> \in Seq(Prompt \cup {"closed"})
  OBVIOUS
<1>2. Trusts(Noticed(a, <<>>), K)
  BY <1>1, NoticedTrusts
<1>3. Trusts(Promised(Noticed(a, <<>>), "none"), K)
  BY <1>2, PromisedTrusts
<1>4. Unheard(a) = Promised(Noticed(a, <<>>), "none")
  BY DEF Unheard, Promised, Noticed, Trusts, Attempt
<1> QED
  BY <1>3, <1>4

\* A key presented before the check is done is not used yet.
Presented(a, k) == [a EXCEPT !.key = k]

\* The invariant survives it, if the key was known or the check is still ahead.
LEMMA PresentedTrusts ==
  ASSUME NEW a, NEW K, Trusts(a, K), NEW k \in HostKey,
         a.pc \in PastKey => k \in K
  PROVE  Trusts(Presented(a, k), K)
  BY DEF Presented, Trusts, Attempt

\* A prompt is raised in the place it names.
LEMMA AskTrusts ==
  ASSUME NEW a, NEW K, Trusts(a, K), NEW p \in Prompt,
         p \in PastKey => a.pc \in PastKey,
         p = "hostkey" => a.key \in HostKey
  PROVE  Trusts(Ask(a, p), K)
<1> DEFINE e == IF \E i \in DOMAIN a.events : a.events[i] = p THEN a.events
                ELSE Append(a.events, p)
           b == Replied(Placed(a, p), None)
<1>1. e \in Seq(Prompt \cup {"closed"})
  BY DEF Trusts, Attempt
<1>2. Trusts(b, K)
  <2>1. p \in Pc
    BY DEF Prompt, Pc, Connecting
  <2> QED
    BY <2>1, PlacedTrusts, RepliedTrusts DEF Password
<1>3. Ask(a, p) = Noticed(b, e)
  BY DEF Ask, Noticed, Replied, Placed, Trusts, Attempt
<1> QED
  BY <1>1, <1>2, <1>3, NoticedTrusts

\* The end of an attempt keeps only its events and promise.
LEMMA OverTrusts ==
  ASSUME NEW a, NEW K \in SUBSET HostKey, Trusts(a, K)
  PROVE  Trusts(Over(a), K)
<1> DEFINE b == Placed(Unborn, "over")
<1>1. Trusts(b, K)
  BY UnbornTrusts, PlacedTrusts DEF Pc, PastKey
<1>2. a.events \in Seq(Prompt \cup {"closed"}) /\ a.promise \in {"none", "ok", "err"}
  BY DEF Trusts, Attempt
<1>3. Trusts(Promised(Noticed(b, a.events), a.promise), K)
  BY <1>1, <1>2, NoticedTrusts, PromisedTrusts
<1>4. Over(a) = Promised(Noticed(b, a.events), a.promise)
  BY DEF Over, Promised, Noticed, Placed, Unborn
<1> QED
  BY <1>3, <1>4

\* The known keys an attempt has read, and its stored password.
Read(a, D) == [a EXCEPT !.db = D]
Given(a, p) == [a EXCEPT !.stored = p]

\* What it reads is in known_hosts at that moment.
LEMMA ReadTrusts ==
  ASSUME NEW a, NEW K, Trusts(a, K), NEW D \in SUBSET HostKey, D \subseteq K
  PROVE  Trusts(Read(a, D), K)
  BY DEF Read, Trusts, Attempt

\* A stored password changes neither place nor keys.
LEMMA GivenTrusts ==
  ASSUME NEW a, NEW K, Trusts(a, K), NEW p \in Password \cup {None}
  PROVE  Trusts(Given(a, p), K)
  BY DEF Given, Trusts, Attempt

\* A finished handshake keeps the key it was made with.
LEMMA ShellTrusts ==
  ASSUME NEW a, NEW K, Trusts(a, K), a.pc \in PastKey
  PROVE  Trusts(Shell(a), K)
<1> DEFINE b == Replied(Tried(Given(Read(Placed(a, "shell"), {}), None), 0), None)
<1>1. "shell" \in Pc /\ 0 \in 0..(Asks + 1)
  BY AsksIsNat DEF Pc
<1>2. Trusts(Given(Read(Placed(a, "shell"), {}), None), K)
  BY <1>1, PlacedTrusts, ReadTrusts, GivenTrusts
<1>3. Trusts(b, K)
  BY <1>1, <1>2, TriedTrusts, RepliedTrusts
<1>4. Shell(a) = b
  BY DEF Shell, Replied, Tried, Given, Read, Placed, Trusts, Attempt
<1> QED
  BY <1>3, <1>4

-----------------------------------------------------------------------------
(* The steps. *)

\* A step that gives one attempt a sound record keeps the others sound,
\* whether the screen still listens to it or not.
LEMMA BecomesTrusts ==
  ASSUME AllTrust, NEW s \in Session, NEW a, Becomes(s, a),
         NEW K, known \subseteq K, known' = K, Trusts(a, K)
  PROVE  AllTrust'
<1> DEFINE b == IF cur = s THEN a ELSE Unheard(a)
<1>1. Trusts(b, K)
  BY UnheardTrusts
<1>2. attempt' = [attempt EXCEPT ![s] = b]
  BY DEF Becomes
<1> HIDE DEF b
<1>3. DOMAIN attempt' = Session /\ attempt' = [r \in Session |-> attempt'[r]]
  BY <1>2 DEF AllTrust
<1>4. \A r \in Session : Trusts(attempt'[r], K)
  <2> SUFFICES ASSUME NEW r \in Session PROVE Trusts(attempt'[r], K)
    OBVIOUS
  <2>1. CASE r = s
    BY <2>1, <1>1, <1>2 DEF AllTrust
  <2>2. CASE r # s
    BY <2>2, <1>2, TrustsGrows DEF AllTrust
  <2> QED
    BY <2>1, <2>2
<1> QED
  BY <1>3, <1>4 DEF AllTrust

\* A step that changes nothing but one attempt.
LEMMA OnlyBecomes ==
  ASSUME SInv, NEW s \in Session, NEW a, Becomes(s, a), Trusts(a, known),
         UNCHANGED <<known, calls, screen, locked>>
  PROVE  SInv'
<1>1. AllTrust'
  BY BecomesTrusts DEF SInv
<1>2. Shared'
  BY DEF SInv, Shared, screen
<1> QED
  BY <1>1, <1>2 DEF SInv

\* A step of an attempt that fails, whatever the reason.
LEMMA FailsSafe ==
  ASSUME SInv, NEW s \in Session, Fails(s), UNCHANGED <<known, calls, screen, locked>>
  PROVE  SInv'
<1> DEFINE a == attempt[s]
<1>1. Trusts(a, known) /\ known \in SUBSET HostKey
  BY DEF SInv, Shared, AllTrust
<1>2. Trusts(Promised(a, "err"), known)
  BY <1>1, PromisedTrusts
<1>3. Trusts(Over(Promised(a, "err")), known)
  BY <1>1, <1>2, OverTrusts
<1>4. Becomes(s, Over(Promised(a, "err")))
  BY DEF Fails, Promised
<1> QED
  BY <1>3, <1>4, OnlyBecomes

\* A step of an attempt that moves it past no check.
LEMMA MovesSafe ==
  ASSUME SInv, NEW s \in Session, NEW pc \in Pc, Moves(s, pc),
         pc \in PastKey => attempt[s].pc \in PastKey, pc # "hostkey",
         UNCHANGED <<known, calls, screen, locked>>
  PROVE  SInv'
<1> DEFINE a == attempt[s]
<1>1. Trusts(a, known)
  BY DEF SInv, AllTrust
<1>2. Trusts(Placed(a, pc), known)
  BY <1>1, PlacedTrusts
<1>3. Becomes(s, Placed(a, pc))
  BY DEF Moves, Placed
<1> QED
  BY <1>2, <1>3, OnlyBecomes

\* From the queue to the key exchange, the failures, and the end.
LEMMA PlainStepsSafe ==
  ASSUME SInv, NEW s \in Session,
         \/ ConnectBegins(s) \/ Dialled(s) \/ HandshakeFails(s)
         \/ HostKeyChanged(s) \/ HostKeyUnwritten(s)
         \/ PasswordTaken(s) \/ PromptRefused(s) \/ ShellFails(s)
         \/ RemoteEnds(s) \/ WatcherCloses(s)
  PROVE  SInv'
<1> DEFINE a == attempt[s]
<1>t. Trusts(a, known) /\ a \in Attempt /\ known \in SUBSET HostKey
  BY DEF SInv, Shared, AllTrust, Trusts
<1>p. {"dial", "handshake", "check", "closing"} \subseteq Pc
  BY DEF Pc, Connecting
<1>1. CASE ConnectBegins(s)
  <2>1. Trusts(Read(Placed(a, "dial"), known), known)
    BY <1>t, <1>p, PlacedTrusts, ReadTrusts DEF PastKey
  <2>2. Becomes(s, Read(Placed(a, "dial"), known))
    <3>1. [a EXCEPT !.pc = "dial", !.db = known] = Read(Placed(a, "dial"), known)
      BY <1>t DEF Read, Placed, Attempt
    <3> QED
      BY <1>1, <3>1 DEF ConnectBegins
  <2> QED
    BY <1>1, <2>1, <2>2, OnlyBecomes DEF ConnectBegins
<1>2. CASE Dialled(s)
  BY <1>2, <1>p, MovesSafe DEF Dialled, PastKey
<1>3. CASE \/ HandshakeFails(s) \/ HostKeyChanged(s) \/ HostKeyUnwritten(s)
          \/ PromptRefused(s) \/ ShellFails(s)
  BY <1>3, FailsSafe DEF HandshakeFails, HostKeyChanged, HostKeyUnwritten,
                         PromptRefused, ShellFails
<1>4. CASE PasswordTaken(s)
  BY <1>4, <1>p, MovesSafe DEF PasswordTaken, Pcs, PastKey
<1>5. CASE RemoteEnds(s) \/ WatcherCloses(s)
  BY <1>5, <1>p, MovesSafe DEF RemoteEnds, WatcherCloses, Pcs, PastKey
<1> QED
  BY <1>1, <1>2, <1>3, <1>4, <1>5

\* The check of the host key: the one place where an attempt gets past it, with
\* a key it read in known_hosts or one that is written there.
LEMMA HostKeySafe ==
  ASSUME SInv, NEW s \in Session,
         HostKeyKnown(s) \/ AskHostKey(s) \/ HostKeyAccepted(s)
  PROVE  SInv'
<1> DEFINE a == attempt[s]
<1>t. Trusts(a, known) /\ a \in Attempt /\ known \in SUBSET HostKey
  BY DEF SInv, Shared, AllTrust, Trusts
<1>p. "auth" \in Pc
  BY DEF Pc, Connecting
<1>1. CASE HostKeyKnown(s)
  <2>1. PICK k \in a.db : Becomes(s, [a EXCEPT !.pc = "auth", !.key = k])
    BY <1>1 DEF HostKeyKnown
  <2>2. k \in known /\ k \in HostKey
    BY <1>t DEF Trusts
  <2>3. Trusts(Presented(a, k), known)
    BY <1>t, <2>2, PresentedTrusts
  <2> DEFINE b == Placed(Presented(a, k), "auth")
  <2>4. Trusts(b, known)
    <3>1. Presented(a, k).key = k
      BY <1>t DEF Presented, Attempt
    <3>2. b \in Attempt /\ b.db = Presented(a, k).db /\ b.key = k
      BY <2>3, <3>1, <1>p DEF Placed, Trusts, Attempt
    <3> HIDE DEF b
    <3> QED
      BY <2>2, <2>3, <3>2 DEF Trusts
  <2>5. [a EXCEPT !.pc = "auth", !.key = k] = b
    BY <1>t DEF Placed, Presented, Attempt
  <2> QED
    BY <1>1, <2>1, <2>4, <2>5, OnlyBecomes DEF HostKeyKnown
<1>2. CASE AskHostKey(s)
  <2>1. PICK k \in HostKey : Becomes(s, Ask([a EXCEPT !.key = k], "hostkey"))
    BY <1>2 DEF AskHostKey
  <2>2. Trusts(Presented(a, k), known)
    BY <1>t, <1>2, PresentedTrusts DEF AskHostKey, Pcs, PastKey
  <2>3. Presented(a, k).key = k
    BY <1>t DEF Presented, Attempt
  <2>4. Trusts(Ask(Presented(a, k), "hostkey"), known)
    BY <2>2, <2>3, AskTrusts DEF Prompt, PastKey
  <2>5. Becomes(s, Ask(Presented(a, k), "hostkey"))
    BY <2>1 DEF Presented
  <2> QED
    BY <1>2, <2>4, <2>5, OnlyBecomes DEF AskHostKey
<1>3. CASE HostKeyAccepted(s)
  <2> DEFINE K == known \cup {a.key}
             b == Placed(Replied(a, None), "auth")
  <2>1. a.pc = "hostkey" /\ known' = K /\ UNCHANGED <<calls, screen, locked>>
    BY <1>3 DEF HostKeyAccepted, Pcs
  <2>2. a.key \in HostKey /\ K \in SUBSET HostKey /\ known \subseteq K
    BY <1>t, <2>1 DEF Trusts
  <2>3. Trusts(Replied(a, None), K)
    BY <1>t, <2>2, TrustsGrows, RepliedTrusts
  <2>4. Trusts(b, K)
    <3>1. b \in Attempt /\ b.db = Replied(a, None).db /\ b.key = a.key /\ b.pc = "auth"
      BY <1>t, <1>p, <2>3 DEF Placed, Replied, Trusts, Attempt
    <3> HIDE DEF b
    <3> QED
      BY <2>3, <3>1 DEF Trusts
  <2>5. Becomes(s, b)
    <3>1. [a EXCEPT !.pc = "auth", !.reply = None] = b
      BY <1>t DEF Placed, Replied, Attempt
    <3> QED
      BY <1>3, <3>1 DEF HostKeyAccepted
  <2>6. AllTrust'
    BY <2>1, <2>2, <2>4, <2>5, BecomesTrusts DEF SInv
  <2>7. Shared'
    BY <2>1, <2>2 DEF SInv, Shared, screen
  <2> QED
    BY <2>6, <2>7 DEF SInv
<1> QED
  BY <1>1, <1>2, <1>3

\* Back to authentication, with no answer left.
LEMMA BackTrusts ==
  ASSUME NEW a, NEW K, Trusts(a, K), a.pc \in PastKey
  PROVE  Trusts([a EXCEPT !.pc = "auth", !.reply = None], K)
<1>1. Trusts(Replied(Placed(a, "auth"), None), K)
  BY PlacedTrusts, RepliedTrusts DEF Pc, Connecting, PastKey
<1>2. [a EXCEPT !.pc = "auth", !.reply = None] = Replied(Placed(a, "auth"), None)
  BY DEF Placed, Replied, Trusts, Attempt
<1> QED
  BY <1>1, <1>2

\* Authentication, until the shell is requested.
LEMMA AuthSafe ==
  ASSUME SInv, NEW s \in Session,
         \/ ServerAccepts(s) \/ ReplayStored(s) \/ AskPassword(s) \/ AskOther(s)
         \/ OtherTaken(s) \/ PassphraseSkipped(s) \/ PasswordChecked(s)
  PROVE  SInv'
<1> DEFINE a == attempt[s]
<1>t. Trusts(a, known) /\ a \in Attempt
  BY DEF SInv, AllTrust, Trusts
<1>p. {"auth", "check"} \subseteq Pc
  BY DEF Pc, Connecting
<1>1. CASE ServerAccepts(s)
  <2>1. Trusts(Shell(a), known)
    BY <1>1, <1>t, ShellTrusts DEF ServerAccepts, Pcs, PastKey
  <2> QED
    BY <1>1, <2>1, OnlyBecomes DEF ServerAccepts
<1>2. CASE ReplayStored(s)
  <2> DEFINE b == Replied(Tried(Placed(a, "check"), 1), a.stored)
  <2>1. a.stored \in Password \cup {"yes", "no", None} /\ 1 \in 0..(Asks + 1)
    BY <1>t, AsksIsNat DEF Attempt
  <2>2. Trusts(Placed(a, "check"), known)
    BY <1>2, <1>t, <1>p, PlacedTrusts DEF ReplayStored, Pcs, PastKey
  <2>3. Trusts(Tried(Placed(a, "check"), 1), known)
    BY <2>1, <2>2, TriedTrusts
  <2>4. Trusts(b, known)
    BY <2>1, <2>3, RepliedTrusts
  <2>5. [a EXCEPT !.pc = "check", !.tries = 1, !.reply = a.stored] = b
    BY <1>t DEF Placed, Tried, Replied, Attempt
  <2> QED
    BY <1>2, <2>4, <2>5, OnlyBecomes DEF ReplayStored
<1>3. CASE AskPassword(s)
  <2> DEFINE b == Tried(a, a.tries + 1)
  <2>1. a.pc = "auth" /\ a.tries < TryLimit(a)
    BY <1>3 DEF AskPassword, Pcs
  <2>2. a.tries + 1 \in 0..(Asks + 1)
    <3>1. a.tries \in Nat /\ TryLimit(a) \in {Asks, Asks + 1}
      BY <1>t DEF Attempt, TryLimit
    <3> QED
      BY <2>1, <3>1, AsksIsNat
  <2>3. Trusts(b, known)
    BY <1>t, <2>2, TriedTrusts
  <2>4. b.pc = "auth"
    BY <1>t, <2>1 DEF Tried, Attempt
  <2>5. Trusts(Ask(b, "password"), known)
    BY <2>3, <2>4, AskTrusts DEF Prompt, PastKey
  <2>6. Becomes(s, Ask(b, "password"))
    BY <1>3 DEF AskPassword, Tried
  <2> QED
    BY <1>3, <2>5, <2>6, OnlyBecomes DEF AskPassword
<1>4. CASE AskOther(s)
  <2>1. Trusts(Ask(a, "other"), known)
    BY <1>4, <1>t, AskTrusts DEF AskOther, Pcs, Prompt, PastKey
  <2> QED
    BY <1>4, <2>1, OnlyBecomes DEF AskOther
<1>5. CASE OtherTaken(s) \/ PassphraseSkipped(s)
  BY <1>5, <1>t, BackTrusts, OnlyBecomes DEF OtherTaken, PassphraseSkipped, Pcs, PastKey
<1>6. CASE PasswordChecked(s)
  <2>1. a.pc \in PastKey
    BY <1>6 DEF PasswordChecked, Pcs, PastKey
  <2>2. Trusts(IF a.reply = "right" THEN Shell(a)
               ELSE [a EXCEPT !.pc = "auth", !.reply = None], known)
    BY <1>t, <2>1, ShellTrusts, BackTrusts
  <2> QED
    BY <1>6, <2>2, OnlyBecomes DEF PasswordChecked
<1> QED
  BY <1>1, <1>2, <1>3, <1>4, <1>5, <1>6

\* The deadline, the shell and the end of it.
LEMMA ShellSafe ==
  ASSUME SInv, NEW s \in Session, Timeout(s) \/ ShellUp(s) \/ End(s)
  PROVE  SInv'
<1> DEFINE a == attempt[s]
<1>t. Trusts(a, known) /\ a \in Attempt /\ known \in SUBSET HostKey
  BY DEF SInv, Shared, AllTrust, Trusts
<1>1. CASE Timeout(s)
  <2>1. Trusts(Stopped(a, TRUE), known)
    BY <1>t, StoppedTrusts
  <2>2. Becomes(s, Stopped(a, TRUE))
    BY <1>1 DEF Timeout, Stopped
  <2> QED
    BY <1>1, <2>1, <2>2, OnlyBecomes DEF Timeout
<1>2. CASE ShellUp(s)
  <2>1. Trusts(Promised(Placed(a, "up"), "ok"), known)
    BY <1>2, <1>t, PlacedTrusts, PromisedTrusts DEF ShellUp, Pcs, Pc, PastKey
  <2>2. [a EXCEPT !.pc = "up", !.promise = "ok"] = Promised(Placed(a, "up"), "ok")
    BY <1>t DEF Promised, Placed, Attempt
  <2> QED
    BY <1>2, <2>1, <2>2, OnlyBecomes DEF ShellUp
<1>3. CASE End(s)
  <2> DEFINE e == Append(a.events, "closed")
  <2>1. e \in Seq(Prompt \cup {"closed"})
    BY <1>t DEF Attempt
  <2>2. Trusts(Noticed(a, e), known)
    BY <1>t, <2>1, NoticedTrusts
  <2>3. Trusts(Over(Noticed(a, e)), known)
    BY <1>t, <2>2, OverTrusts
  <2>4. Becomes(s, Over(Noticed(a, e)))
    BY <1>3 DEF End, Noticed
  <2> QED
    BY <1>3, <2>3, <2>4, OnlyBecomes DEF End
<1> QED
  BY <1>1, <1>2, <1>3

-----------------------------------------------------------------------------
(* The screen and the native module. *)

\* The end of a terminal is a state of the screen.
LEMMA EndWithTyped ==
  ASSUME Shared, EndWith, UNCHANGED <<known, calls, cur, locked>>
  PROVE  Shared'
  BY DEF Shared, EndWith

\* A step of the screen that hears of one attempt.
LEMMA HeardTrusts ==
  ASSUME SInv, NEW s \in Session, NEW a, Becomes(s, a), Trusts(a, known), Shared',
         UNCHANGED known
  PROVE  SInv'
<1>1. AllTrust'
  BY BecomesTrusts DEF SInv
<1> QED
  BY <1>1 DEF SInv

\* What reaches JavaScript.
LEMMA HeardSafe ==
  ASSUME SInv, NEW s \in Session, Heard(s)
  PROVE  SInv'
<1> DEFINE a == attempt[s]
<1>t. Trusts(a, known) /\ a \in Attempt /\ known \in SUBSET HostKey /\ Shared
  BY DEF SInv, Shared, AllTrust, Trusts
<1>e. ASSUME a.events # <<>>
      PROVE  Trusts([a EXCEPT !.events = Tail(a.events)], known)
  <2>1. Tail(a.events) \in Seq(Prompt \cup {"closed"})
    BY <1>t, <1>e DEF Attempt
  <2>2. Trusts(Noticed(a, Tail(a.events)), known)
    BY <1>t, <2>1, NoticedTrusts
  <2> QED
    BY <2>2 DEF Noticed
<1>o. Trusts([a EXCEPT !.promise = "none"], known)
  <2>1. Trusts(Promised(a, "none"), known)
    BY <1>t, PromisedTrusts
  <2> QED
    BY <2>1 DEF Promised
<1>1. CASE Resolved(s)
  <2>1. CASE cur = s
    <3>1. PICK p \in Password \cup {None} :
            Becomes(s, [a EXCEPT !.pc = "queued", !.stored = p])
      BY <1>1, <2>1 DEF Resolved
    <3>2. Trusts(Given(Placed(a, "queued"), p), known)
      BY <1>t, PlacedTrusts, GivenTrusts DEF Pc, PastKey
    <3>3. [a EXCEPT !.pc = "queued", !.stored = p] = Given(Placed(a, "queued"), p)
      BY <1>t DEF Given, Placed, Attempt
    <3> QED
      BY <1>1, <3>1, <3>2, <3>3, OnlyBecomes DEF Resolved
  <2>2. CASE cur # s
    <3>1. Trusts(Over(a), known)
      BY <1>t, OverTrusts
    <3> QED
      BY <1>1, <2>2, <3>1, OnlyBecomes DEF Resolved
  <2> QED
    BY <2>1, <2>2
<1>2. CASE ClosedHeard(s)
  BY <1>2, <1>t, <1>e, EndWithTyped, HeardTrusts DEF ClosedHeard
<1>3. CASE PromptHeard(s)
  <2>1. Shared'
    BY <1>3, <1>t DEF PromptHeard, Shared
  <2> QED
    BY <1>3, <2>1, <1>e, HeardTrusts DEF PromptHeard
<1>4. CASE Connected(s)
  <2>1. Shared'
    BY <1>4, <1>t DEF Connected, Shared
  <2> QED
    BY <1>4, <2>1, <1>o, HeardTrusts DEF Connected
<1>5. CASE Rejected(s)
  BY <1>5, <1>t, <1>o, EndWithTyped, HeardTrusts DEF Rejected
<1> QED
  BY <1>1, <1>2, <1>3, <1>4, <1>5 DEF Heard

\* A teardown queues calls of the module.
LEMMA TeardownTyped ==
  ASSUME calls \in Seq(Call), cur \in Session \cup {None}, Teardown
  PROVE  calls' \in Seq(Call)
<1>1. [op |-> "cancel", id |-> cur] \in Call /\ [op |-> "close", id |-> cur] \in Call
  BY DEF Call
<1>2. <<[op |-> "cancel", id |-> cur], [op |-> "close", id |-> cur]>> \in Seq(Call)
  BY <1>1
<1> QED
  BY <1>2 DEF Teardown

\* A new attempt, with the older ones unheard.
LEMMA StartTrusts ==
  ASSUME SInv, NEW s \in Session, StartSession(s), UNCHANGED <<known, locked>>,
         calls' \in Seq(Call)
  PROVE  SInv'
<1>1. Trusts([Unborn EXCEPT !.pc = "resolve"], known)
  <2>1. Trusts(Placed(Unborn, "resolve"), known)
    BY UnbornTrusts, PlacedTrusts DEF SInv, Shared, Pc, PastKey
  <2> QED
    BY <2>1 DEF Placed
<1>2. \A r \in Session : Trusts(Unheard(attempt[r]), known)
  BY UnheardTrusts DEF SInv, AllTrust
<1>3. AllTrust'
  BY <1>1, <1>2 DEF AllTrust, StartSession
<1>4. Shared'
  BY DEF SInv, Shared, StartSession
<1> QED
  BY <1>3, <1>4 DEF SInv

\* An answer reaches one attempt, or none.
LEMMA AnswerTrusts ==
  ASSUME SInv, NEW r \in Password \cup {"yes", "no"}, Answer(r),
         UNCHANGED known, Shared'
  PROVE  SInv'
<1>1. CASE cur \in Session /\ Becomes(cur, [attempt[cur] EXCEPT !.reply = r])
  <2>1. Trusts(Replied(attempt[cur], r), known)
    <3>1. Trusts(attempt[cur], known)
      BY <1>1 DEF SInv, AllTrust
    <3> QED
      BY <3>1, RepliedTrusts
  <2>2. Becomes(cur, Replied(attempt[cur], r))
    BY <1>1 DEF Replied
  <2> QED
    BY <1>1, <2>1, <2>2, HeardTrusts
<1>2. CASE UNCHANGED attempt
  BY <1>2 DEF SInv, AllTrust
<1>3. CASE cur \notin Session
  <2>1. UNCHANGED attempt
    BY <1>3 DEF Answer, Becomes, SInv, AllTrust
  <2> QED
    BY <2>1, <1>2
<1> QED
  BY <1>1, <1>2, <1>3 DEF Answer

\* What the user does.
LEMMA UserSafe ==
  ASSUME SInv, User
  PROVE  SInv'
<1>t. Shared
  BY DEF SInv
<1>1. ASSUME NEW s \in Session, Open(s)
      PROVE  SInv'
  BY <1>1, <1>t, StartTrusts DEF Open, Shared
<1>2. ASSUME NEW s \in Session, Reconnect(s)
      PROVE  SInv'
  BY <1>2, <1>t, StartTrusts, TeardownTyped DEF Reconnect, Shared
<1>3. CASE Leave
  <2>1. calls' \in Seq(Call)
    BY <1>3, <1>t, TeardownTyped DEF Leave, Shared
  <2>2. Shared'
    BY <1>3, <1>t, <2>1 DEF Leave, Shared
  <2>3. AllTrust'
    <3>1. \A r \in Session : Trusts(Unheard(attempt[r]), known)
      BY UnheardTrusts DEF SInv, AllTrust
    <3> QED
      BY <1>3, <3>1 DEF AllTrust, Leave
  <2> QED
    BY <2>2, <2>3 DEF SInv
<1>4. CASE Lock \/ Unlock
  <2>1. [op |-> "closeAll", id |-> None] \in Call
    BY DEF Call
  <2>2. calls' \in Seq(Call)
    BY <1>4, <1>t, <2>1 DEF Lock, Unlock, Shared
  <2>3. Shared'
    BY <1>4, <1>t, <2>2 DEF Lock, Unlock, Shared, screen
  <2>4. AllTrust'
    BY <1>4 DEF SInv, AllTrust, Lock, Unlock
  <2> QED
    BY <2>3, <2>4 DEF SInv
<1>5. CASE AnswerHostKey
  <2>1. Shared'
    BY <1>5, <1>t DEF AnswerHostKey, Shared
  <2> QED
    BY <1>5, <2>1, AnswerTrusts DEF AnswerHostKey
<1>6. CASE SubmitSecret
  <2>1. PICK r \in Password :
          Answer(r) /\ remember' \in {remember} \cup (IF modal = "password" THEN {r} ELSE {})
    BY <1>6 DEF SubmitSecret, MayRemember
  <2>2. Shared'
    BY <1>6, <1>t, <2>1 DEF SubmitSecret, Shared
  <2> QED
    BY <1>6, <2>1, <2>2, AnswerTrusts DEF SubmitSecret
<1>7. CASE CancelSecret
  <2>1. Shared'
    BY <1>7, <1>t DEF CancelSecret, Shared
  <2> QED
    BY <1>7, <2>1, AnswerTrusts DEF CancelSecret
<1> QED
  BY <1>1, <1>2, <1>3, <1>4, <1>5, <1>6, <1>7 DEF User

\* A call of the module only stops attempts and closes sessions.
LEMMA NativeCallSafe ==
  ASSUME SInv, NativeCall
  PROVE  SInv'
<1> DEFINE c == Head(calls)
           after(s) == CASE c.op = "cancel" /\ s = c.id -> Cancelled(attempt[s])
                         [] c.op = "close" /\ s = c.id  -> Closed(attempt[s])
                         [] c.op = "closeAll"            -> Closed(attempt[s])
                         [] OTHER                        -> attempt[s]
<1>1. \A s \in Session : Trusts(after(s), known)
  <2> SUFFICES ASSUME NEW s \in Session PROVE Trusts(after(s), known)
    OBVIOUS
  <2> DEFINE a == attempt[s]
  <2>1. Trusts(a, known) /\ a \in Attempt
    BY DEF SInv, AllTrust, Trusts
  <2>2. Trusts(Cancelled(a), known)
    <3>1. (a.stop \/ a.pc \in Connecting) \in BOOLEAN
      OBVIOUS
    <3>2. Cancelled(a) = Stopped(a, a.stop \/ a.pc \in Connecting)
      BY DEF Cancelled, Stopped
    <3> QED
      BY <2>1, <3>1, <3>2, StoppedTrusts
  <2>3. Trusts(Closed(a), known)
    <3>1. CASE a.pc = "up"
      <4>1. Trusts(Placed(a, "closing"), known)
        BY <2>1, <3>1, PlacedTrusts DEF Pc, PastKey
      <4>2. Closed(a) = Placed(a, "closing")
        BY <2>1, <3>1 DEF Closed, Placed, Attempt
      <4> QED
        BY <4>1, <4>2
    <3>2. CASE a.pc # "up"
      <4>1. Closed(a) = a
        BY <2>1, <3>2 DEF Closed, Attempt
      <4> QED
        BY <2>1, <4>1
    <3> QED
      BY <3>1, <3>2
  <2> QED
    BY <2>1, <2>2, <2>3
<1>2. attempt' = [s \in Session |-> after(s)]
  BY DEF NativeCall
<1> HIDE DEF after
<1>3. AllTrust'
  BY <1>1, <1>2 DEF AllTrust, NativeCall
<1>4. Shared'
  <2>1. calls' \in Seq(Call)
    BY DEF SInv, Shared, NativeCall
  <2> QED
    BY <2>1 DEF SInv, Shared, NativeCall, screen
<1> QED
  BY <1>3, <1>4 DEF SInv

-----------------------------------------------------------------------------
(* The theorems. *)

\* Nothing has begun, and no key is known.
LEMMA InitSafe == Init => SInv
<1> SUFFICES ASSUME Init PROVE SInv
  OBVIOUS
<1>1. Shared
  <2>1. <<>> \in Seq(Call)
    OBVIOUS
  <2> QED
    BY <2>1 DEF Init, Shared
<1>2. AllTrust
  BY UnbornTrusts DEF Init, AllTrust
<1> QED
  BY <1>1, <1>2 DEF SInv

\* Every step keeps the invariant.
LEMMA StepSafe == SInv /\ [Next]_vars => SInv'
<1> SUFFICES ASSUME SInv, [Next]_vars PROVE SInv'
  OBVIOUS
<1>1. ASSUME NEW s \in Session, Engine(s) \/ RemoteEnds(s) \/ Timeout(s)
      PROVE  SInv'
  BY <1>1, PlainStepsSafe, HostKeySafe, AuthSafe, ShellSafe DEF Engine
<1>2. CASE UNCHANGED vars
  BY <1>2 DEF vars, screen, SInv, Shared, AllTrust
<1> QED
  BY <1>1, <1>2, HeardSafe, NativeCallSafe, UserSafe DEF Next

\* The inductive invariant holds in every reachable state.
THEOREM SshInvariance == Spec => []SInv
  BY InitSafe, StepSafe, PTL DEF Spec

\* Every variable keeps its type; in particular no attempt asks for a password
\* more often than passwordMethod allows.
THEOREM SshTypeCorrect == Spec => []TypeOK
  BY SshInvariance, InvImplies, PTL

\* No attempt gets past the key exchange on a host key that is not in
\* known_hosts, however attempts, prompts and stops interleave.
THEOREM SecretsOnlyToTrusted == Spec => []OnlyTrusted
  BY SshInvariance, InvImplies, PTL

-----------------------------------------------------------------------------
(* What the screen shows, and the attempt behind it. *)

\* The news of the end of an attempt are on their way.
Ended(a) == \E i \in DOMAIN a.events : a.events[i] = "closed"

\* The attempt of the screen, when it is in phase ph with prompt m.  Events and promise
\* agree with where the attempt is; and until something stops it, a prompt it waits at is
\* in one place: on its way, on the screen, or answered.
Behind(a, ph, m) ==
  /\ a.promise = "err" => a.pc = "over"
  /\ Ended(a) => a.pc = "over"
  /\ ph = "ended" => a.pc = "over"
  /\ a.promise = "ok" => a.pc \in {"up", "closing"} \/ Ended(a) \/ ph = "ended"
  /\ ph = "connected" => a.pc \in {"up", "closing"} \/ Ended(a)
  /\ ph = "connecting" /\ ~a.stop /\ a.pc # "over" =>
       /\ a.events \in {<<>>, <<a.pc>>}
       /\ a.events # <<>> => a.pc \in Prompt /\ a.reply = None /\ m = "none"
       /\ m # "none" => a.pc = m /\ a.reply = None

\* The inductive invariant of the screen: of the attempts it has left nothing is heard.
Backed ==
  /\ cur = None <=> phase = "off"
  /\ \A s \in Session : s # cur => attempt[s].events = <<>> /\ attempt[s].promise = "none"
  /\ cur # None => Behind(attempt[cur], phase, modal)

\* It gives what the run checks.
LEMMA BackedShows == SInv /\ Backed => ScreenIsBacked
<1> SUFFICES ASSUME SInv, Backed PROVE ScreenIsBacked
  OBVIOUS
<1>1. CASE phase = "off"
  BY <1>1 DEF ScreenIsBacked, ScreenHasShell, PromptIsAwaited
<1>2. CASE phase # "off"
  <2>1. Behind(attempt[cur], phase, modal) /\ cur \in Session
    BY <1>2 DEF Backed, SInv, Shared
  <2>2. ScreenHasShell
    BY <2>1 DEF ScreenHasShell, Behind, Ended, Pcs
  <2>3. PromptIsAwaited
    <3> SUFFICES ASSUME phase = "connecting", modal # "none", ~attempt[cur].stop, Pcs(cur) # "over"
                 PROVE  attempt[cur].pc = modal /\ Waits(attempt[cur])
      BY DEF PromptIsAwaited
    <3>1. attempt[cur].pc = modal /\ attempt[cur].reply = None /\ attempt[cur].events = <<>>
      BY <2>1 DEF Behind, Pcs
    <3>2. modal \in Prompt
      BY DEF SInv, Shared
    <3> QED
      BY <3>1, <3>2 DEF Waits
  <2> QED
    BY <2>2, <2>3 DEF ScreenIsBacked
<1> QED
  BY <1>1, <1>2

\* An attempt that is neither open nor over: the screen is connecting, and nothing has been
\* promised.
LEMMA Young ==
  ASSUME NEW a \in Attempt, NEW ph \in {"connecting", "connected", "ended"}, NEW m,
         Behind(a, ph, m), a.pc \notin {"up", "closing", "over"}
  PROVE  ph = "connecting" /\ a.promise = "none" /\ ~Ended(a)
  BY DEF Behind, Attempt

\* If it waits for no answer, no prompt is on its way or on the screen.
Unprompted(a) == a.stop \/ a.pc \notin Prompt \/ a.reply # None

\* So then: neither.
LEMMA YoungUnprompted ==
  ASSUME NEW a \in Attempt, NEW m \in Prompt \cup {"none"},
         Behind(a, "connecting", m), a.pc # "over", Unprompted(a), ~a.stop
  PROVE  a.events = <<>> /\ m = "none"
  BY DEF Behind, Unprompted

\* A move that is no prompt and no end.
LEMMA BehindMoves ==
  ASSUME NEW a \in Attempt, NEW ph \in {"connecting", "connected", "ended"},
         NEW m \in Prompt \cup {"none"}, Behind(a, ph, m), a.pc \notin {"up", "closing", "over"},
         Unprompted(a),
         NEW g, g.pc # "over", g.events = a.events, g.promise \in {a.promise, "ok"},
         g.promise = "ok" => g.pc = "up", g.stop = a.stop
  PROVE  Behind(g, ph, m)
<1>1. ph = "connecting" /\ a.promise = "none" /\ ~Ended(a)
  BY Young
<1>2. ~Ended(g)
  BY <1>1 DEF Ended
<1>3. ~a.stop => a.events = <<>> /\ m = "none"
  BY <1>1, YoungUnprompted
<1> QED
  BY <1>1, <1>2, <1>3 DEF Behind

\* The records of a prompt, a finished handshake and an end, and of what is not heard.
LEMMA AskFields ==
  ASSUME NEW a \in Attempt, NEW p \in Prompt
  PROVE  /\ Ask(a, p).pc = p /\ Ask(a, p).reply = None
         /\ Ask(a, p).stop = a.stop /\ Ask(a, p).promise = a.promise
         /\ Ask(a, p).events = IF \E i \in DOMAIN a.events : a.events[i] = p THEN a.events
                               ELSE Append(a.events, p)
<1> DEFINE e == IF \E i \in DOMAIN a.events : a.events[i] = p THEN a.events
                ELSE Append(a.events, p)
<1>1. Ask(a, p) = Noticed(Replied(Placed(a, p), None), e)
  BY DEF Ask, Noticed, Replied, Placed, Attempt
<1> HIDE DEF e
<1>2. /\ Ask(a, p).pc = p /\ Ask(a, p).reply = None
      /\ Ask(a, p).stop = a.stop /\ Ask(a, p).promise = a.promise
      /\ Ask(a, p).events = e
  BY <1>1 DEF Noticed, Replied, Placed, Attempt
<1> QED
  BY <1>2 DEF e

\* The fields of an attempt whose handshake is done.
LEMMA ShellFields ==
  ASSUME NEW a \in Attempt
  PROVE  /\ Shell(a).pc = "shell" /\ Shell(a).stop = a.stop
         /\ Shell(a).promise = a.promise /\ Shell(a).events = a.events
  BY DEF Shell, Attempt

\* The fields of an attempt that is over.
LEMMA OverFields ==
  ASSUME NEW a
  PROVE  /\ Over(a).pc = "over" /\ Over(a).promise = a.promise /\ Over(a).events = a.events
  BY DEF Over, Unborn

\* The fields of an attempt the screen has left.
LEMMA UnheardFields ==
  ASSUME NEW a, {"events", "promise"} \subseteq DOMAIN a
  PROVE  /\ Unheard(a).events = <<>> /\ Unheard(a).promise = "none"
  BY DEF Unheard

\* What is over is behind every screen that has heard of its end, or is about to.
LEMMA BehindOver ==
  ASSUME NEW g, NEW ph, NEW m, g.pc = "over",
         ph = "connected" => Ended(g),
         g.promise = "ok" => Ended(g) \/ ph = "ended"
  PROVE  Behind(g, ph, m)
  BY DEF Behind

\* A step that sets one attempt has to answer for it only if the screen shows it.
LEMMA BecomesBacked ==
  ASSUME SInv, Backed, NEW s \in Session, NEW g, Becomes(s, g),
         {"events", "promise"} \subseteq DOMAIN g, UNCHANGED cur,
         phase' = "off" <=> phase = "off",
         cur = s => Behind(g, phase', modal'),
         cur # s => UNCHANGED <<phase, modal>>
  PROVE  Backed'
<1>1. DOMAIN attempt = Session /\ None \notin Session
  BY NoneIsNoValue DEF SInv, AllTrust
<1>2. /\ attempt'[s] = IF cur = s THEN g ELSE Unheard(g)
      /\ \A r \in Session \ {s} : attempt'[r] = attempt[r]
  BY <1>1 DEF Becomes
<1>3. \A r \in Session : r # cur => attempt'[r].events = <<>> /\ attempt'[r].promise = "none"
  BY <1>2, UnheardFields DEF Backed
<1>4. cur # None => Behind(attempt'[cur], phase', modal')
  <2>1. CASE cur = s
    BY <1>2, <2>1
  <2>2. CASE cur # s /\ cur # None
    <3>1. cur \in Session
      BY <2>2 DEF SInv, Shared
    <3> QED
      BY <1>2, <2>2, <3>1 DEF Backed
  <2> QED
    BY <2>1, <2>2
<1> QED
  BY <1>3, <1>4 DEF Backed

\* What is known of the attempt the screen shows.
LEMMA Showing ==
  ASSUME SInv, Backed, NEW s \in Session
  PROVE  /\ attempt[s] \in Attempt /\ modal \in Prompt \cup {"none"}
         /\ cur = s => /\ Behind(attempt[s], phase, modal)
                       /\ phase \in {"connecting", "connected", "ended"}
         /\ attempt[s].events # <<>> \/ attempt[s].promise # "none" => cur = s
  BY NoneIsNoValue DEF SInv, Shared, AllTrust, Trusts, Backed

-----------------------------------------------------------------------------
(* The steps, and the screen. *)

\* A step of one attempt that the screen does not notice.
LEMMA MovesBacked ==
  ASSUME SInv, Backed, NEW s \in Session, NEW g, Becomes(s, g), UNCHANGED <<cur, phase, modal>>,
         {"events", "promise"} \subseteq DOMAIN g,
         cur = s => Behind(g, phase, modal)
  PROVE  Backed'
  BY BecomesBacked

\* The attempt has failed: the screen will be told.
LEMMA FailsBacked ==
  ASSUME SInv, Backed, NEW s \in Session, Fails(s), UNCHANGED <<cur, phase, modal>>,
         Pcs(s) \notin {"up", "closing", "over"}
  PROVE  Backed'
<1> DEFINE a == attempt[s]
           b == [a EXCEPT !.promise = "err"]
           g == Over(b)
<1>1. /\ a \in Attempt /\ modal \in Prompt \cup {"none"}
      /\ cur = s => Behind(a, phase, modal) /\ phase \in {"connecting", "connected", "ended"}
  BY Showing
<1>2. b.promise = "err"
  BY <1>1 DEF Attempt
<1>3. g.pc = "over" /\ g.promise = "err"
  BY <1>2, OverFields
<1>4. {"events", "promise"} \subseteq DOMAIN g
  BY DEF Over, Unborn
<1>5. Becomes(s, g)
  BY DEF Fails
<1>6. cur = s => phase = "connecting"
  BY <1>1, Young DEF Pcs
<1> HIDE DEF g
<1>7. cur = s => Behind(g, phase, modal)
  BY <1>3, <1>6, BehindOver
<1> QED
  BY <1>4, <1>5, <1>7, MovesBacked

\* A record that has moved on from a, with the same events.
Onward(g, a) ==
  /\ {"events", "promise"} \subseteq DOMAIN g
  /\ g.pc # "over" /\ g.events = a.events /\ g.stop = a.stop
  /\ g.promise = a.promise \/ (g.promise = "ok" /\ g.pc = "up")

\* The screen stays backed by it.
LEMMA OnwardBacked ==
  ASSUME SInv, Backed, NEW s \in Session, NEW g, Becomes(s, g), Onward(g, attempt[s]),
         UNCHANGED <<cur, phase, modal>>,
         Pcs(s) \notin {"up", "closing", "over"}, Unprompted(attempt[s])
  PROVE  Backed'
<1> DEFINE a == attempt[s]
<1>1. /\ a \in Attempt /\ modal \in Prompt \cup {"none"}
      /\ cur = s => Behind(a, phase, modal) /\ phase \in {"connecting", "connected", "ended"}
  BY Showing
<1>2. ASSUME cur = s PROVE Behind(g, phase, modal)
  <2>1. a.promise = "none"
    BY <1>1, <1>2, Young DEF Pcs
  <2> QED
    BY <1>1, <1>2, <2>1, BehindMoves DEF Pcs, Onward
<1> QED
  BY <1>2, MovesBacked DEF Onward

\* The steps of a goroutine that ask nothing, and end nothing.
LEMMA PlainBacked ==
  ASSUME SInv, Backed, NEW s \in Session,
         \/ ConnectBegins(s) \/ Dialled(s) \/ HostKeyKnown(s) \/ HostKeyAccepted(s)
         \/ ServerAccepts(s) \/ ReplayStored(s) \/ PasswordTaken(s) \/ OtherTaken(s)
         \/ PassphraseSkipped(s) \/ PasswordChecked(s) \/ ShellUp(s)
         \/ (Resolved(s) /\ cur = s)
  PROVE  Backed'
<1> DEFINE a == attempt[s]
<1>1. a \in Attempt
  BY Showing
<1>2. UNCHANGED <<cur, phase, modal>>
  BY DEF ConnectBegins, Dialled, HostKeyKnown, HostKeyAccepted, ServerAccepts, ReplayStored,
         PasswordTaken, OtherTaken, PassphraseSkipped, PasswordChecked, ShellUp, Resolved, screen
<1>3. a.pc \notin {"up", "closing", "over"}
  BY DEF ConnectBegins, Dialled, HostKeyKnown, HostKeyAccepted, ServerAccepts, ReplayStored,
         PasswordTaken, OtherTaken, PassphraseSkipped, PasswordChecked, ShellUp, Resolved, Pcs
<1>4. Unprompted(a)
  <2>1. None \notin Password \cup {"yes"}
    BY NoneIsNoValue DEF Password
  <2> QED
    BY <2>1 DEF ConnectBegins, Dialled, HostKeyKnown, HostKeyAccepted, ServerAccepts,
         ReplayStored, PasswordTaken, OtherTaken, PassphraseSkipped, PasswordChecked, ShellUp,
         Resolved, Pcs, Unprompted, Prompt
<1>5. PICK g : Becomes(s, g) /\ Onward(g, a)
  <2>1. CASE ConnectBegins(s)
    <3>1. PICK g : g = [a EXCEPT !.pc = "dial", !.db = known]
      OBVIOUS
    <3>2. Onward(g, a)
      BY <1>1, <3>1 DEF Onward, Attempt
    <3> QED
      BY <2>1, <3>1, <3>2 DEF ConnectBegins
  <2>2. CASE Dialled(s) \/ PasswordTaken(s)
    <3>1. \A pc : pc # "over" => Onward([a EXCEPT !.pc = pc], a)
      BY <1>1 DEF Onward, Attempt
    <3> QED
      BY <2>2, <3>1 DEF Dialled, PasswordTaken, Moves
  <2>3. CASE HostKeyKnown(s)
    <3>1. PICK k : Becomes(s, [a EXCEPT !.pc = "auth", !.key = k])
      BY <2>3 DEF HostKeyKnown
    <3>2. Onward([a EXCEPT !.pc = "auth", !.key = k], a)
      BY <1>1 DEF Onward, Attempt
    <3> QED
      BY <3>1, <3>2
  <2>4. Onward([a EXCEPT !.pc = "auth", !.reply = None], a)
    BY <1>1 DEF Onward, Attempt
  <2>5. CASE HostKeyAccepted(s) \/ OtherTaken(s) \/ PassphraseSkipped(s)
    BY <2>4, <2>5 DEF HostKeyAccepted, OtherTaken, PassphraseSkipped
  <2>6. Onward(Shell(a), a)
    <3>1. DOMAIN Shell(a) = DOMAIN a
      BY <1>1 DEF Shell
    <3> QED
      BY <1>1, <3>1, ShellFields DEF Onward, Attempt
  <2>7. CASE ServerAccepts(s)
    BY <2>6, <2>7 DEF ServerAccepts
  <2>8. CASE ReplayStored(s)
    <3>1. Onward([a EXCEPT !.pc = "check", !.tries = 1, !.reply = a.stored], a)
      BY <1>1 DEF Onward, Attempt
    <3> QED
      BY <2>8, <3>1 DEF ReplayStored
  <2>9. CASE PasswordChecked(s)
    BY <2>4, <2>6, <2>9 DEF PasswordChecked
  <2>10. CASE ShellUp(s)
    <3>1. Onward([a EXCEPT !.pc = "up", !.promise = "ok"], a)
      BY <1>1 DEF Onward, Attempt
    <3> QED
      BY <2>10, <3>1 DEF ShellUp
  <2>11. CASE Resolved(s) /\ cur = s
    <3>1. PICK p : Becomes(s, [a EXCEPT !.pc = "queued", !.stored = p])
      BY <2>11 DEF Resolved
    <3>2. Onward([a EXCEPT !.pc = "queued", !.stored = p], a)
      BY <1>1 DEF Onward, Attempt
    <3> QED
      BY <3>1, <3>2
  <2> QED
    BY <2>1, <2>2, <2>3, <2>5, <2>7, <2>8, <2>9, <2>10, <2>11
<1> QED
  BY <1>2, <1>3, <1>4, <1>5, OnwardBacked DEF Pcs

\* The steps that fail.
LEMMA FailingBacked ==
  ASSUME SInv, Backed, NEW s \in Session,
         HandshakeFails(s) \/ HostKeyChanged(s) \/ HostKeyUnwritten(s) \/ PromptRefused(s)
           \/ ShellFails(s)
  PROVE  Backed'
<1>1. /\ Fails(s) /\ UNCHANGED <<cur, phase, modal>>
      /\ Pcs(s) \notin {"up", "closing", "over"}
  BY DEF HandshakeFails, HostKeyChanged, HostKeyUnwritten, PromptRefused, ShellFails, screen,
         Pcs, Prompt
<1> QED
  BY <1>1, FailsBacked

\* A prompt is raised: it is on its way, and the only one, unless the attempt was stopped.
LEMMA AskBacked ==
  ASSUME SInv, Backed, NEW s \in Session, NEW b \in Attempt, NEW p \in Prompt,
         b.events = attempt[s].events, b.promise = attempt[s].promise, b.stop = attempt[s].stop,
         Becomes(s, Ask(b, p)), UNCHANGED <<cur, phase, modal>>,
         Pcs(s) \in {"handshake", "auth"}
  PROVE  Backed'
<1> DEFINE a == attempt[s]
           g == Ask(b, p)
<1>1. /\ a \in Attempt /\ modal \in Prompt \cup {"none"}
      /\ cur = s => Behind(a, phase, modal) /\ phase \in {"connecting", "connected", "ended"}
  BY Showing
<1>2. /\ g.pc = p /\ g.reply = None /\ g.stop = a.stop /\ g.promise = a.promise
      /\ g.events = IF \E i \in DOMAIN a.events : a.events[i] = p THEN a.events
                    ELSE Append(a.events, p)
  BY AskFields
<1>3. {"events", "promise"} \subseteq DOMAIN g
  BY DEF Ask, Attempt
<1> HIDE DEF g
<1>4. p \in {"hostkey", "password", "other"} /\ a.pc \notin Prompt
  BY DEF Prompt, Pcs
<1>5. ASSUME cur = s PROVE Behind(g, phase, modal)
  <2>1. phase = "connecting" /\ a.promise = "none" /\ ~Ended(a)
    BY <1>1, <1>5, Young DEF Pcs
  <2>2. a.events \in Seq(Prompt \cup {"closed"})
    BY <1>1 DEF Attempt
  <2>3. ~Ended(g)
    BY <1>2, <1>4, <2>1, <2>2 DEF Ended
  <2>4. ~a.stop => a.events = <<>> /\ modal = "none"
    BY <1>1, <1>4, <1>5, <2>1, YoungUnprompted DEF Unprompted, Pcs
  <2>5. ~a.stop => g.events = <<p>>
    <3>1. ~\E i \in DOMAIN <<>> : <<>>[i] = p
      OBVIOUS
    <3>2. a.events = <<>> => g.events = Append(<<>>, p)
      BY <1>2, <3>1
    <3> QED
      BY <2>4, <3>2
  <2> QED
    BY <1>2, <1>4, <2>1, <2>3, <2>4, <2>5 DEF Behind
<1> QED
  BY <1>3, <1>5, MovesBacked DEF g

\* A prompt is raised: it is on its way, and awaited.
LEMMA AskingBacked ==
  ASSUME SInv, Backed, NEW s \in Session, AskHostKey(s) \/ AskPassword(s) \/ AskOther(s)
  PROVE  Backed'
<1> DEFINE a == attempt[s]
<1>1. a \in Attempt
  BY Showing
<1>2. UNCHANGED <<cur, phase, modal>> /\ Pcs(s) \in {"handshake", "auth"}
  BY DEF AskHostKey, AskPassword, AskOther, screen
<1>3. CASE AskHostKey(s)
  <2>1. PICK k \in HostKey : Becomes(s, Ask([a EXCEPT !.key = k], "hostkey"))
    BY <1>3 DEF AskHostKey
  <2>2. PICK b : b = [a EXCEPT !.key = k]
    OBVIOUS
  <2>3. b \in Attempt /\ b.events = a.events /\ b.promise = a.promise /\ b.stop = a.stop
    BY <1>1, <2>2 DEF Attempt
  <2> QED
    BY <1>2, <2>1, <2>2, <2>3, AskBacked DEF Prompt
<1>4. CASE AskPassword(s)
  <2>1. PICK b : b = Tried(a, a.tries + 1) /\ Becomes(s, Ask(b, "password"))
    BY <1>4 DEF AskPassword, Tried
  <2>2. a.tries + 1 \in 0..(Asks + 1)
    <3>1. a.tries \in Nat /\ TryLimit(a) \in {Asks, Asks + 1} /\ a.tries < TryLimit(a)
      BY <1>1, <1>4 DEF AskPassword, Attempt, TryLimit
    <3> QED
      BY <3>1, AsksIsNat
  <2>3. b \in Attempt /\ b.events = a.events /\ b.promise = a.promise /\ b.stop = a.stop
    BY <1>1, <2>1, <2>2 DEF Tried, Attempt
  <2> QED
    BY <1>2, <2>1, <2>3, AskBacked DEF Prompt
<1>5. CASE AskOther(s)
  BY <1>1, <1>2, <1>5, AskBacked DEF AskOther, Prompt
<1> QED
  BY <1>3, <1>4, <1>5

\* The deadline passes, or an open session begins to close: what it is behind of stays.
Waning(g, a) ==
  /\ {"events", "promise"} \subseteq DOMAIN g
  /\ g.events = a.events /\ g.promise = a.promise /\ g.reply = a.reply
  /\ \/ g.pc = a.pc /\ (a.stop => g.stop)
     \/ a.pc = "up" /\ g.pc = "closing" /\ g.stop = a.stop

\* What the screen shows has its counterpart in it still.
LEMMA WaningBehind ==
  ASSUME NEW a, NEW ph, NEW m \in Prompt \cup {"none"}, Behind(a, ph, m), NEW g, Waning(g, a)
  PROVE  Behind(g, ph, m)
<1>1. Ended(g) <=> Ended(a)
  BY DEF Waning, Ended
<1>2. CASE g.pc = a.pc
  BY <1>1, <1>2 DEF Behind, Waning
<1>3. CASE a.pc = "up" /\ g.pc = "closing" /\ g.stop = a.stop
  <2>1. a.promise # "err" /\ ~Ended(a) /\ ph # "ended"
    BY <1>3 DEF Behind
  <2>2. ph = "connecting" /\ ~a.stop => a.events = <<>> /\ (m = "none" \/ m = "up")
    BY <1>3 DEF Behind, Prompt
  <2>3. ph = "connecting" /\ ~a.stop => m = "none"
    BY <2>2 DEF Prompt
  <2> QED
    BY <1>1, <1>3, <2>1, <2>2, <2>3 DEF Behind, Waning
<1> QED
  BY <1>2, <1>3 DEF Waning

\* The steps of that kind.
LEMMA WaningBacked ==
  ASSUME SInv, Backed, NEW s \in Session, Timeout(s) \/ RemoteEnds(s) \/ WatcherCloses(s)
  PROVE  Backed'
<1> DEFINE a == attempt[s]
<1>1. /\ a \in Attempt /\ modal \in Prompt \cup {"none"}
      /\ cur = s => Behind(a, phase, modal)
  BY Showing
<1>2. UNCHANGED <<cur, phase, modal>>
  BY DEF Timeout, RemoteEnds, WatcherCloses, screen
<1>3. PICK g : Becomes(s, g) /\ Waning(g, a)
  <2>1. CASE Timeout(s)
    <3>1. Waning([a EXCEPT !.stop = TRUE], a)
      BY <1>1 DEF Waning, Attempt
    <3> QED
      BY <2>1, <3>1 DEF Timeout
  <2>2. CASE RemoteEnds(s) \/ WatcherCloses(s)
    <3>1. a.pc = "up" => Waning([a EXCEPT !.pc = "closing"], a)
      BY <1>1 DEF Waning, Attempt
    <3> QED
      BY <2>2, <3>1 DEF RemoteEnds, WatcherCloses, Moves, Pcs
  <2> QED
    BY <2>1, <2>2
<1> QED
  BY <1>1, <1>2, <1>3, WaningBehind, MovesBacked DEF Waning

\* end: the news are on their way before the attempt is over.
LEMMA EndBacked ==
  ASSUME SInv, Backed, NEW s \in Session, End(s)
  PROVE  Backed'
<1> DEFINE a == attempt[s]
           b == [a EXCEPT !.events = Append(a.events, "closed")]
           g == Over(b)
<1>1. a \in Attempt
  BY Showing
<1>2. b.events = Append(a.events, "closed") /\ a.events \in Seq(Prompt \cup {"closed"})
  BY <1>1 DEF Attempt
<1>3. g.pc = "over" /\ g.events = Append(a.events, "closed")
  BY <1>2, OverFields
<1>4. {"events", "promise"} \subseteq DOMAIN g
  BY DEF Over, Unborn
<1>5. Becomes(s, g) /\ UNCHANGED <<cur, phase, modal>>
  BY DEF End, screen
<1> HIDE DEF g
<1>6. Ended(g)
  <2>1. g.events[Len(a.events) + 1] = "closed" /\ Len(a.events) + 1 \in DOMAIN g.events
    BY <1>2, <1>3
  <2> QED
    BY <2>1 DEF Ended
<1> QED
  BY <1>3, <1>4, <1>5, <1>6, BehindOver, MovesBacked

\* The native module: calls stop attempts and close sessions, whether the screen shows them
\* or not.
LEMMA NativeCallBacked ==
  ASSUME SInv, Backed, NativeCall
  PROVE  Backed'
<1> DEFINE c == Head(calls)
           after(s) == CASE c.op = "cancel" /\ s = c.id -> Cancelled(attempt[s])
                         [] c.op = "close" /\ s = c.id  -> Closed(attempt[s])
                         [] c.op = "closeAll"            -> Closed(attempt[s])
                         [] OTHER                        -> attempt[s]
<1>1. ASSUME NEW s \in Session PROVE Waning(after(s), attempt[s])
  <2> DEFINE a == attempt[s]
  <2>1. a \in Attempt
    BY Showing
  <2>2. Waning(Cancelled(a), a)
    <3>1. (a.stop \/ a.pc \in Connecting) \in BOOLEAN
      OBVIOUS
    <3>2. Cancelled(a) = Stopped(a, a.stop \/ a.pc \in Connecting)
      BY DEF Cancelled, Stopped
    <3>3. Stopped(a, a.stop \/ a.pc \in Connecting).stop = (a.stop \/ a.pc \in Connecting)
      BY <2>1, Zenon DEF Stopped, Attempt
    <3>4. ASSUME NEW b PROVE
          LET g == Stopped(a, b) IN
          /\ {"events", "promise"} \subseteq DOMAIN g
          /\ g.events = a.events /\ g.promise = a.promise /\ g.reply = a.reply /\ g.pc = a.pc
      BY <2>1 DEF Stopped, Attempt
    <3>5. a.stop => Cancelled(a).stop
      BY <3>2, <3>3
    <3> QED
      BY <3>2, <3>4, <3>5 DEF Waning
  <2>3. Waning(Closed(a), a)
    <3>1. CASE a.pc = "up"
      <4>1. Closed(a) = Placed(a, "closing")
        BY <2>1, <3>1 DEF Closed, Placed, Attempt
      <4> QED
        BY <2>1, <3>1, <4>1 DEF Placed, Waning, Attempt
    <3>2. CASE a.pc # "up"
      <4>1. Closed(a) = a
        BY <2>1, <3>2 DEF Closed, Attempt
      <4> QED
        BY <2>1, <4>1 DEF Waning, Attempt
    <3> QED
      BY <3>1, <3>2
  <2>4. Waning(a, a)
    BY <2>1 DEF Waning, Attempt
  <2> QED
    BY <2>2, <2>3, <2>4
<1>2. attempt' = [s \in Session |-> after(s)] /\ UNCHANGED <<cur, phase, modal>>
  BY DEF NativeCall, screen
<1> HIDE DEF after
<1>3. \A s \in Session : Waning(attempt'[s], attempt[s])
  BY <1>1, <1>2
<1>4. \A s \in Session : s # cur => attempt'[s].events = <<>> /\ attempt'[s].promise = "none"
  BY <1>3 DEF Waning, Backed
<1>5. cur # None => Behind(attempt'[cur], phase, modal)
  <2>1. cur \in Session \cup {None} /\ modal \in Prompt \cup {"none"}
    BY DEF SInv, Shared
  <2> QED
    BY <1>3, <2>1, WaningBehind DEF Backed
<1> QED
  BY <1>2, <1>4, <1>5 DEF Backed

\* What reaches JavaScript.
LEMMA HeardBacked ==
  ASSUME SInv, Backed, NEW s \in Session, Heard(s)
  PROVE  Backed'
<1> DEFINE a == attempt[s]
<1>1. /\ a \in Attempt /\ modal \in Prompt \cup {"none"}
      /\ cur = s => /\ Behind(a, phase, modal)
                    /\ phase \in {"connecting", "connected", "ended"}
      /\ a.events # <<>> \/ a.promise # "none" => cur = s
  BY Showing
<1>e. a.events \in Seq(Prompt \cup {"closed"})
  BY <1>1 DEF Attempt
<1>2. CASE Resolved(s)
  <2>1. CASE cur # s
    <3>1. Becomes(s, Over(a)) /\ UNCHANGED <<cur, phase, modal>>
      BY <1>2, <2>1 DEF Resolved, screen
    <3>2. {"events", "promise"} \subseteq DOMAIN Over(a)
      BY DEF Over, Unborn
    <3> QED
      BY <2>1, <3>1, <3>2, MovesBacked
  <2> QED
    BY <1>2, <2>1, PlainBacked
<1>3. CASE ClosedHeard(s)
  <2>1. PICK g : g = [a EXCEPT !.events = Tail(a.events)] /\ Becomes(s, g)
    BY <1>3 DEF ClosedHeard
  <2>2. g.pc = a.pc /\ {"events", "promise"} \subseteq DOMAIN g
    BY <1>1, <2>1 DEF Attempt
  <2>3. cur = s /\ UNCHANGED cur /\ EndWith
    BY <1>1, <1>3 DEF ClosedHeard
  <2>4. phase' = "ended"
    BY <2>3 DEF EndWith
  <2>5. Ended(a)
    BY <1>3, <1>e DEF ClosedHeard, Ended
  <2>6. g.pc = "over"
    BY <1>1, <2>2, <2>3, <2>5 DEF Behind
  <2>7. Behind(g, phase', modal')
    BY <2>4, <2>6, BehindOver
  <2>8. phase # "off"
    BY <1>1, <2>3
  <2> QED
    BY <2>1, <2>2, <2>3, <2>4, <2>7, <2>8, BecomesBacked
<1>4. CASE PromptHeard(s)
  <2>1. PICK g : g = [a EXCEPT !.events = Tail(a.events)] /\ Becomes(s, g)
    BY <1>4 DEF PromptHeard
  <2>2. /\ g.pc = a.pc /\ {"events", "promise"} \subseteq DOMAIN g /\ g.promise = a.promise
        /\ g.stop = a.stop /\ g.reply = a.reply /\ g.events = Tail(a.events)
    BY <1>1, <2>1 DEF Attempt
  <2>3. /\ cur = s /\ UNCHANGED <<cur, phase>> /\ modal' = Head(a.events)
        /\ a.events # <<>> /\ Head(a.events) \in Prompt
    BY <1>1, <1>4 DEF PromptHeard
  <2>4. Ended(g) <=> Ended(a)
    <3>1. Head(a.events) # "closed"
      BY <2>3 DEF Prompt
    <3>2. ASSUME NEW i \in DOMAIN a.events, a.events[i] = "closed" PROVE Ended(g)
      <4>1. i \in 1..Len(a.events) /\ Len(a.events) \in Nat /\ a.events[1] = Head(a.events)
        BY <1>e, <2>3, <3>2
      <4>2. i - 1 \in 1..(Len(a.events) - 1)
        BY <3>1, <3>2, <4>1
      <4>3. /\ Len(Tail(a.events)) = Len(a.events) - 1
            /\ DOMAIN Tail(a.events) = 1..(Len(a.events) - 1)
        BY <1>e, <2>3
      <4>4. Tail(a.events)[i - 1] = a.events[i]
        BY <1>e, <2>3, <4>1, <4>2
      <4>5. i - 1 \in DOMAIN g.events /\ g.events[i - 1] = "closed"
        BY <2>2, <3>2, <4>2, <4>3, <4>4
      <4> QED
        BY <4>5 DEF Ended
    <3>3. ASSUME NEW i \in DOMAIN g.events, g.events[i] = "closed" PROVE Ended(a)
      <4>1. i + 1 \in DOMAIN a.events /\ a.events[i + 1] = "closed"
        BY <1>e, <2>2, <2>3, <3>3
      <4> QED
        BY <4>1 DEF Ended
    <3> QED
      BY <3>2, <3>3 DEF Ended
  <2>5. Behind(g, phase, modal')
    <3>1. Behind(a, phase, modal)
      BY <1>1, <2>3
    <3>2. ASSUME phase = "connecting", ~a.stop, a.pc # "over"
          PROVE  a.events = <<a.pc>> /\ a.reply = None
      BY <2>3, <3>1, <3>2 DEF Behind
    <3>3. ASSUME phase = "connecting", ~a.stop, a.pc # "over"
          PROVE  g.events = <<>> /\ modal' = a.pc
      <4>1. a.events = <<a.pc>>
        BY <3>2, <3>3
      <4>2. Tail(<<a.pc>>) = <<>> /\ Head(<<a.pc>>) = a.pc
        OBVIOUS
      <4> QED
        BY <2>2, <2>3, <4>1, <4>2
    <3> QED
      BY <2>2, <2>4, <3>1, <3>2, <3>3 DEF Behind
  <2> QED
    BY <2>1, <2>2, <2>3, <2>5, BecomesBacked
<1>5. CASE Connected(s)
  <2>1. PICK g : g = [a EXCEPT !.promise = "none"] /\ Becomes(s, g)
    BY <1>5 DEF Connected
  <2>2. /\ g.pc = a.pc /\ {"events", "promise"} \subseteq DOMAIN g /\ g.promise = "none"
        /\ g.events = a.events
    BY <1>1, <2>1 DEF Attempt
  <2>3. cur = s /\ UNCHANGED <<cur, modal>> /\ a.promise = "ok"
    BY <1>1, <1>5 DEF Connected
  <2>4. phase' = IF phase # "ended" THEN "connected" ELSE phase
    BY <1>5 DEF Connected
  <2>5. Ended(g) <=> Ended(a)
    BY <2>2 DEF Ended
  <2>6. Behind(g, phase', modal')
    BY <1>1, <2>2, <2>3, <2>4, <2>5 DEF Behind
  <2> QED
    BY <1>1, <2>1, <2>2, <2>3, <2>4, <2>6, BecomesBacked
<1>6. CASE Rejected(s)
  <2>1. PICK g : g = [a EXCEPT !.promise = "none"] /\ Becomes(s, g)
    BY <1>6 DEF Rejected
  <2>2. g.pc = a.pc /\ {"events", "promise"} \subseteq DOMAIN g
    BY <1>1, <2>1 DEF Attempt
  <2>3. cur = s /\ UNCHANGED cur /\ EndWith /\ a.promise = "err"
    BY <1>1, <1>6 DEF Rejected
  <2>4. phase' = "ended"
    BY <2>3 DEF EndWith
  <2>5. g.pc = "over"
    BY <1>1, <2>2, <2>3 DEF Behind
  <2>6. Behind(g, phase', modal')
    BY <2>4, <2>5, BehindOver
  <2> QED
    BY <1>1, <2>1, <2>2, <2>3, <2>4, <2>6, BecomesBacked
<1> QED
  BY <1>2, <1>3, <1>4, <1>5, <1>6 DEF Heard

\* An answer goes to the prompt on the screen, and takes it away.
LEMMA AnswerBacked ==
  ASSUME SInv, Backed, NEW r, Answer(r), modal # "none", modal' = "none", UNCHANGED <<cur, phase>>
  PROVE  Backed'
<1>0. cur \in Session \cup {None} /\ None \notin Session /\ DOMAIN attempt = Session
  BY NoneIsNoValue DEF SInv, Shared, AllTrust
<1>1. CASE cur = None
  <2>1. attempt' = attempt
    BY <1>0, <1>1 DEF Answer, Becomes, SInv, AllTrust
  <2> QED
    BY <1>1, <2>1 DEF Backed
<1>2. CASE cur \in Session
  <2> DEFINE a == attempt[cur]
  <2>1. /\ a \in Attempt /\ Behind(a, phase, modal)
        /\ phase \in {"connecting", "connected", "ended"}
    BY <1>2, Showing
  <2>2. ASSUME NEW g, g.pc = a.pc, g.stop = a.stop, g.promise = a.promise, g.events = a.events
        PROVE  Behind(g, phase, "none")
    <3>1. Ended(g) <=> Ended(a)
      BY <2>2 DEF Ended
    <3>2. phase = "connecting" /\ ~a.stop /\ a.pc # "over" => a.events = <<>>
      BY <2>1 DEF Behind
    <3> QED
      BY <2>1, <2>2, <3>1, <3>2 DEF Behind
  <2>3. CASE Becomes(cur, [a EXCEPT !.reply = r])
    <3>1. PICK g : g = [a EXCEPT !.reply = r]
      OBVIOUS
    <3>2. /\ g.pc = a.pc /\ g.stop = a.stop /\ g.promise = a.promise /\ g.events = a.events
          /\ {"events", "promise"} \subseteq DOMAIN g
      BY <2>1, <3>1 DEF Attempt
    <3>3. Behind(g, phase, "none")
      BY <2>2, <3>2
    <3> QED
      BY <1>2, <2>3, <3>1, <3>2, <3>3, BecomesBacked
  <2>4. CASE UNCHANGED attempt
    <3>1. Behind(a, phase, "none")
      BY <2>2
    <3> QED
      BY <2>4, <3>1 DEF Backed
  <2> QED
    BY <2>3, <2>4 DEF Answer
<1> QED
  BY <1>0, <1>1, <1>2

\* What the user does.
LEMMA UserBacked ==
  ASSUME SInv, Backed, User
  PROVE  Backed'
<1>1. ASSUME NEW s \in Session, StartSession(s)
      PROVE  Backed'
  <2>1. /\ cur' = s /\ phase' = "connecting" /\ modal' = "none" /\ s # None
        /\ attempt' = [r \in Session |-> IF r = s THEN [Unborn EXCEPT !.pc = "resolve"]
                                         ELSE Unheard(attempt[r])]
    BY <1>1, NoneIsNoValue DEF StartSession
  <2>2. PICK b : b = [Unborn EXCEPT !.pc = "resolve"]
    OBVIOUS
  <2>3. b.pc = "resolve" /\ b.events = <<>> /\ b.promise = "none"
    BY <2>2 DEF Unborn
  <2>4. Behind(b, "connecting", "none")
    BY <2>3 DEF Behind, Ended
  <2>5. \A r \in Session : /\ Unheard(attempt[r]).events = <<>>
                           /\ Unheard(attempt[r]).promise = "none"
    BY Showing, UnheardFields DEF Attempt
  <2> QED
    BY <2>1, <2>2, <2>4, <2>5 DEF Backed
<1>2. CASE Leave
  <2>1. \A r \in Session : /\ Unheard(attempt[r]).events = <<>>
                           /\ Unheard(attempt[r]).promise = "none"
    BY Showing, UnheardFields DEF Attempt
  <2> QED
    BY <1>2, <2>1 DEF Leave, Backed
<1>3. CASE Lock \/ Unlock
  BY <1>3 DEF Lock, Unlock, screen, Backed
<1>4. CASE AnswerHostKey \/ SubmitSecret \/ CancelSecret
  <2>1. /\ \E r : Answer(r)
        /\ modal # "none" /\ modal' = "none" /\ UNCHANGED <<cur, phase>>
    BY <1>4 DEF AnswerHostKey, SubmitSecret, CancelSecret
  <2> QED
    BY <2>1, AnswerBacked
<1> QED
  BY <1>1, <1>2, <1>3, <1>4 DEF User, Open, Reconnect

\* Nothing is shown, and nothing has begun.
LEMMA InitBacked == Init => Backed
  BY NoneIsNoValue DEF Init, Backed, Unborn

\* Every step keeps it.
LEMMA StepBacked == SInv /\ Backed /\ [Next]_vars => Backed'
<1> SUFFICES ASSUME SInv, Backed, [Next]_vars PROVE Backed'
  OBVIOUS
<1>1. ASSUME NEW s \in Session, Engine(s) \/ RemoteEnds(s) \/ Timeout(s)
      PROVE  Backed'
  BY <1>1, PlainBacked, FailingBacked, AskingBacked, WaningBacked, EndBacked DEF Engine
<1>2. CASE UNCHANGED vars
  BY <1>2 DEF vars, screen, Backed
<1> QED
  BY <1>1, <1>2, HeardBacked, NativeCallBacked, UserBacked DEF Next

\* A terminal that says connected has an open session, or will hear of its end; and a prompt
\* on the screen is one its attempt still waits for, until something has stopped it: in
\* whichever order promise, events, answers, cancels and deadlines arrive (useTerminalLogic.ts).
THEOREM ScreenStaysBacked == Spec => []ScreenIsBacked
<1>1. Spec => []Backed
  BY SshInvariance, InitBacked, StepBacked, PTL DEF Spec
<1> QED
  BY <1>1, SshInvariance, BackedShows, PTL

-----------------------------------------------------------------------------
(* The page beside the session. *)

\* Between the call of connect and the registration of the session.
Setting == {"queued", "shell"} \cup Connecting

\* Where an attempt comes from.
Leads(p, q) ==
  /\ q = "unborn" => p = "unborn"
  /\ q \in Setting => p \in Setting \/ (p = "resolve" /\ q = "queued")
  /\ q = "up" => p \in {"shell", "up"}
  /\ q = "closing" => p \in {"up", "closing"}

\* Of every attempt.
AllLead == \A s \in Session : Leads(attempt[s].pc, attempt'[s].pc)

\* A step that sets one attempt leads on if that one does.
LEMMA BecomesLeads ==
  ASSUME SInv, NEW s \in Session, NEW g, Becomes(s, g), "pc" \in DOMAIN g,
         Leads(attempt[s].pc, g.pc)
  PROVE  AllLead
<1>1. DOMAIN attempt = Session
  BY DEF SInv, AllTrust
<1>2. Unheard(g).pc = g.pc
  BY DEF Unheard
<1>3. attempt'[s].pc = g.pc /\ \A r \in Session \ {s} : attempt'[r] = attempt[r]
  BY <1>1, <1>2 DEF Becomes
<1>4. \A p : Leads(p, p)
  BY DEF Leads
<1> QED
  BY <1>3, <1>4 DEF AllLead

\* The steps of an attempt.
LEMMA EngineLeads ==
  ASSUME SInv, NEW s \in Session, Engine(s) \/ RemoteEnds(s) \/ Timeout(s)
  PROVE  AllLead
<1> DEFINE a == attempt[s]
<1>1. a \in Attempt
  BY DEF SInv, AllTrust, Trusts
<1>2. PICK g : Becomes(s, g) /\ "pc" \in DOMAIN g /\ Leads(a.pc, g.pc)
  <2>1. CASE Fails(s) /\ a.pc # "unborn"
    <3>1. PICK g : g = Over([a EXCEPT !.promise = "err"])
      OBVIOUS
    <3>2. g.pc = "over" /\ "pc" \in DOMAIN g
      BY <3>1, OverFields DEF Over, Unborn
    <3>3. Leads(a.pc, g.pc)
      BY <3>2 DEF Leads, Setting, Connecting, Prompt
    <3> QED
      BY <2>1, <3>1, <3>2, <3>3 DEF Fails
  <2>2. CASE ConnectBegins(s)
    <3>1. PICK g : g = [a EXCEPT !.pc = "dial", !.db = known]
      OBVIOUS
    <3>2. g.pc = "dial" /\ "pc" \in DOMAIN g
      BY <1>1, <3>1 DEF Attempt
    <3> QED
      BY <2>2, <3>1, <3>2 DEF ConnectBegins, Leads, Setting, Connecting, Pcs
  <2>3. ASSUME NEW pc, Moves(s, pc), Leads(a.pc, pc)
        PROVE  \E g : Becomes(s, g) /\ "pc" \in DOMAIN g /\ Leads(a.pc, g.pc)
    <3>1. PICK g : g = [a EXCEPT !.pc = pc]
      OBVIOUS
    <3>2. g.pc = pc /\ "pc" \in DOMAIN g
      BY <1>1, <3>1 DEF Attempt
    <3> QED
      BY <2>3, <3>1, <3>2 DEF Moves
  <2>4. CASE Dialled(s) \/ PasswordTaken(s) \/ RemoteEnds(s) \/ WatcherCloses(s)
    BY <2>3, <2>4 DEF Dialled, PasswordTaken, RemoteEnds, WatcherCloses, Pcs, Leads, Setting,
                      Connecting, Prompt
  <2>5. CASE HostKeyKnown(s)
    <3>1. PICK k : Becomes(s, [a EXCEPT !.pc = "auth", !.key = k])
      BY <2>5 DEF HostKeyKnown
    <3>2. PICK g : g = [a EXCEPT !.pc = "auth", !.key = k]
      OBVIOUS
    <3>3. g.pc = "auth" /\ "pc" \in DOMAIN g
      BY <1>1, <3>2 DEF Attempt
    <3> QED
      BY <2>5, <3>1, <3>2, <3>3 DEF HostKeyKnown, Leads, Setting, Connecting, Pcs
  <2>6. PICK back : back = [a EXCEPT !.pc = "auth", !.reply = None]
    OBVIOUS
  <2>7. back.pc = "auth" /\ "pc" \in DOMAIN back
    BY <1>1, <2>6 DEF Attempt
  <2>8. CASE HostKeyAccepted(s) \/ OtherTaken(s) \/ PassphraseSkipped(s)
    BY <2>6, <2>7, <2>8 DEF HostKeyAccepted, OtherTaken, PassphraseSkipped, Leads, Setting,
                            Connecting, Prompt, Pcs
  <2>9. Shell(a).pc = "shell" /\ "pc" \in DOMAIN Shell(a)
    BY <1>1, ShellFields DEF Shell, Attempt
  <2>10. CASE ServerAccepts(s)
    BY <2>9, <2>10 DEF ServerAccepts, Leads, Setting, Connecting, Pcs
  <2>11. CASE ReplayStored(s)
    <3>1. PICK g : g = [a EXCEPT !.pc = "check", !.tries = 1, !.reply = a.stored]
      OBVIOUS
    <3>2. g.pc = "check" /\ "pc" \in DOMAIN g
      BY <1>1, <3>1 DEF Attempt
    <3> QED
      BY <2>11, <3>1, <3>2 DEF ReplayStored, Leads, Setting, Connecting, Pcs
  <2>12. CASE PasswordChecked(s)
    BY <2>6, <2>7, <2>9, <2>12 DEF PasswordChecked, Leads, Setting, Connecting, Pcs
  <2>13. ASSUME NEW b \in Attempt, NEW p \in Prompt, Becomes(s, Ask(b, p)),
                a.pc \in {"handshake", "auth"}
         PROVE  \E g : Becomes(s, g) /\ "pc" \in DOMAIN g /\ Leads(a.pc, g.pc)
    <3>1. Ask(b, p).pc = p /\ "pc" \in DOMAIN Ask(b, p)
      BY AskFields DEF Ask, Attempt
    <3>2. Leads(a.pc, p)
      BY <2>13 DEF Leads, Setting, Connecting, Prompt
    <3> QED
      BY <2>13, <3>1, <3>2
  <2>14. CASE AskHostKey(s)
    <3>1. PICK k \in HostKey : Becomes(s, Ask([a EXCEPT !.key = k], "hostkey"))
      BY <2>14 DEF AskHostKey
    <3>2. [a EXCEPT !.key = k] \in Attempt
      BY <1>1 DEF Attempt
    <3> QED
      BY <2>13, <2>14, <3>1, <3>2 DEF AskHostKey, Pcs, Prompt
  <2>15. CASE AskPassword(s)
    <3>1. PICK b : b = Tried(a, a.tries + 1) /\ Becomes(s, Ask(b, "password"))
      BY <2>15 DEF AskPassword, Tried
    <3>2. a.tries \in Nat /\ TryLimit(a) \in {Asks, Asks + 1} /\ a.tries < TryLimit(a)
      BY <1>1, <2>15 DEF AskPassword, Attempt, TryLimit
    <3>3. a.tries + 1 \in 0..(Asks + 1)
      BY <3>2, AsksIsNat
    <3>4. b \in Attempt
      BY <1>1, <3>1, <3>3 DEF Tried, Attempt
    <3> QED
      BY <2>13, <2>15, <3>1, <3>4 DEF AskPassword, Pcs, Prompt
  <2>16. CASE AskOther(s)
    BY <1>1, <2>13, <2>16 DEF AskOther, Pcs, Prompt
  <2>17. CASE ShellUp(s)
    <3>1. PICK g : g = [a EXCEPT !.pc = "up", !.promise = "ok"]
      OBVIOUS
    <3>2. g.pc = "up" /\ "pc" \in DOMAIN g
      BY <1>1, <3>1 DEF Attempt
    <3> QED
      BY <2>17, <3>1, <3>2 DEF ShellUp, Leads, Setting, Connecting, Prompt, Pcs
  <2>18. CASE Timeout(s)
    <3>1. PICK g : g = [a EXCEPT !.stop = TRUE]
      OBVIOUS
    <3>2. g.pc = a.pc /\ "pc" \in DOMAIN g
      BY <1>1, <3>1 DEF Attempt
    <3> QED
      BY <2>18, <3>1, <3>2 DEF Timeout, Leads
  <2>19. CASE End(s)
    <3>1. PICK g : g = Over([a EXCEPT !.events = Append(a.events, "closed")]) /\ Becomes(s, g)
      BY <2>19 DEF End
    <3>2. g.pc = "over" /\ "pc" \in DOMAIN g
      BY <3>1, OverFields DEF Over, Unborn
    <3> QED
      BY <3>1, <3>2 DEF Leads, Setting, Connecting, Prompt
  <2>20. CASE HandshakeFails(s) \/ HostKeyChanged(s) \/ HostKeyUnwritten(s) \/ PromptRefused(s)
              \/ ShellFails(s)
    BY <2>1, <2>20 DEF HandshakeFails, HostKeyChanged, HostKeyUnwritten, PromptRefused,
                       ShellFails, Pcs, Prompt
  <2> QED
    BY <2>2, <2>4, <2>5, <2>8, <2>10, <2>11, <2>12, <2>14, <2>15, <2>16, <2>17, <2>18, <2>19,
       <2>20 DEF Engine
<1> QED
  BY <1>2, BecomesLeads

\* What reaches JavaScript, the calls of the module, and the user.
LEMMA HeardLeads ==
  ASSUME SInv, NEW s \in Session, Heard(s)
  PROVE  AllLead
<1> DEFINE a == attempt[s]
<1>1. a \in Attempt
  BY DEF SInv, AllTrust, Trusts
<1>2. CASE Resolved(s)
  <2>1. CASE cur = s
    <3>1. PICK p : Becomes(s, [a EXCEPT !.pc = "queued", !.stored = p])
      BY <1>2, <2>1 DEF Resolved
    <3>2. PICK g : g = [a EXCEPT !.pc = "queued", !.stored = p]
      OBVIOUS
    <3>3. g.pc = "queued" /\ "pc" \in DOMAIN g
      BY <1>1, <3>2 DEF Attempt
    <3>4. Leads(a.pc, g.pc)
      BY <1>2, <3>3 DEF Resolved, Leads, Pcs
    <3> QED
      BY <3>1, <3>2, <3>3, <3>4, BecomesLeads
  <2>2. CASE cur # s
    <3>1. Over(a).pc = "over" /\ "pc" \in DOMAIN Over(a)
      BY DEF Over, Unborn
    <3>2. Leads(a.pc, Over(a).pc)
      BY <3>1 DEF Leads, Setting, Connecting, Prompt
    <3> QED
      BY <1>2, <2>2, <3>1, <3>2, BecomesLeads DEF Resolved
  <2> QED
    BY <2>1, <2>2
<1>3. CASE ClosedHeard(s) \/ PromptHeard(s) \/ Connected(s) \/ Rejected(s)
  <2>1. PICK g : /\ g = [a EXCEPT !.events = Tail(a.events)] \/ g = [a EXCEPT !.promise = "none"]
                 /\ Becomes(s, g)
    BY <1>3 DEF ClosedHeard, PromptHeard, Connected, Rejected
  <2>2. g.pc = a.pc /\ "pc" \in DOMAIN g
    BY <1>1, <2>1 DEF Attempt
  <2> QED
    BY <2>1, <2>2, BecomesLeads DEF Leads
<1> QED
  BY <1>2, <1>3 DEF Heard

\* What a step of the session means to the page: attempts lead on, and a screen that shows
\* another attempt has gone, or shows one that was not there.
LEMMA NextLeads ==
  ASSUME SInv, [Next]_vars
  PROVE  /\ AllLead
         /\ \/ cur' = cur
            \/ cur' = None
            \/ cur' \in Session /\ Pcs(cur') = "unborn" /\ attempt'[cur'].pc = "resolve"
<1>a. DOMAIN attempt = Session /\ \A s \in Session : attempt[s] \in Attempt
  BY DEF SInv, AllTrust, Trusts
<1>s. \A p : Leads(p, p)
  BY DEF Leads
<1>1. CASE \E s \in Session : Engine(s) \/ Timeout(s) \/ RemoteEnds(s) \/ Heard(s)
  <2>1. AllLead
    BY <1>1, EngineLeads, HeardLeads
  <2>2. cur' = cur
    BY <1>1 DEF Engine, Heard, Timeout, RemoteEnds, ConnectBegins, Dialled, HandshakeFails,
         HostKeyKnown, HostKeyChanged, AskHostKey, HostKeyAccepted, HostKeyUnwritten,
         ServerAccepts, ReplayStored, AskPassword, AskOther, PasswordTaken, OtherTaken,
         PromptRefused, PassphraseSkipped, PasswordChecked, ShellUp, ShellFails, WatcherCloses,
         End, Resolved, ClosedHeard, PromptHeard, Connected, Rejected, screen
  <2> QED
    BY <2>1, <2>2
<1>2. CASE NativeCall
  <2>1. ASSUME NEW a \in Attempt
        PROVE  Leads(a.pc, Cancelled(a).pc) /\ Leads(a.pc, Closed(a).pc)
    <3>1. Cancelled(a).pc = a.pc
      BY DEF Cancelled, Attempt
    <3>2. Closed(a).pc = IF a.pc = "up" THEN "closing" ELSE a.pc
      BY DEF Closed, Attempt
    <3>3. a.pc = "up" => Leads(a.pc, "closing")
      BY DEF Leads, Setting, Connecting, Prompt
    <3> QED
      BY <1>s, <3>1, <3>2, <3>3
  <2>2. \A s \in Session : attempt'[s] \in {Cancelled(attempt[s]), Closed(attempt[s]), attempt[s]}
    BY <1>2 DEF NativeCall
  <2>3. AllLead
    BY <1>a, <1>s, <2>1, <2>2 DEF AllLead
  <2> QED
    BY <1>2, <2>3 DEF NativeCall, screen
<1>u. \A s \in Session : Unheard(attempt[s]).pc = attempt[s].pc
  BY <1>a DEF Unheard, Attempt
<1>3. ASSUME NEW s \in Session, StartSession(s)
      PROVE  AllLead /\ cur' = s /\ Pcs(s) = "unborn" /\ attempt'[s].pc = "resolve"
  <2>1. attempt' = [r \in Session |-> IF r = s THEN [Unborn EXCEPT !.pc = "resolve"]
                                      ELSE Unheard(attempt[r])]
    BY <1>3 DEF StartSession
  <2>2. [Unborn EXCEPT !.pc = "resolve"].pc = "resolve"
    BY DEF Unborn
  <2>3. \A p : Leads(p, "resolve")
    BY DEF Leads, Setting, Connecting, Prompt
  <2> QED
    BY <1>3, <1>s, <1>u, <2>1, <2>2, <2>3 DEF StartSession, AllLead
<1>4. CASE Leave
  BY <1>4, <1>s, <1>u DEF Leave, AllLead
<1>5. CASE Lock \/ Unlock \/ UNCHANGED vars
  BY <1>5, <1>s DEF Lock, Unlock, vars, screen, AllLead
<1>6. CASE AnswerHostKey \/ SubmitSecret \/ CancelSecret
  <2>1. PICK r : Answer(r) /\ cur' = cur
    BY <1>6 DEF AnswerHostKey, SubmitSecret, CancelSecret
  <2>2. CASE UNCHANGED attempt
    BY <1>s, <2>1, <2>2 DEF AllLead
  <2>3. CASE cur \in Session /\ Becomes(cur, [attempt[cur] EXCEPT !.reply = r])
    <3>1. PICK g : g = [attempt[cur] EXCEPT !.reply = r]
      OBVIOUS
    <3>2. g.pc = attempt[cur].pc /\ "pc" \in DOMAIN g
      BY <1>a, <2>3, <3>1 DEF Attempt
    <3> QED
      BY <1>s, <2>1, <2>3, <3>1, <3>2, BecomesLeads
  <2>4. cur \notin Session => UNCHANGED attempt
    BY <2>1 DEF Answer, Becomes, SInv, AllTrust
  <2> QED
    BY <2>1, <2>2, <2>3, <2>4 DEF Answer
<1> QED
  BY <1>1, <1>2, <1>3, <1>4, <1>5, <1>6 DEF Next, User, Open, Reconnect

\* A step of the whole is a step of the session, or leaves it alone.
LEMMA SessionSteps == [TerminalNext]_tvars => [Next]_vars
<1>1. Stream => UNCHANGED vars
  BY DEF Stream, ShellWrites, DataHeard, PageReady, PageSized, NativeResize
<1> QED
  BY <1>1 DEF TerminalNext, tvars

\* So what holds of every session holds of one with its page.
LEMMA SessionHolds == TerminalSpec => [](SInv /\ Backed)
<1>1. TerminalInit => SInv /\ Backed
  BY InitSafe, InitBacked DEF TerminalInit
<1>2. SInv /\ Backed /\ [TerminalNext]_tvars => (SInv /\ Backed)'
  BY SessionSteps, StepSafe, StepBacked
<1> QED
  BY <1>1, <1>2, PTL DEF TerminalSpec

\* A step of the whole keeps the types of the page.
LEMMA PageTypes ==
  ASSUME SInv, Backed, TerminalTypeOK, [TerminalNext]_tvars
  PROVE  TerminalTypeOK'
<1>0. cur \in Session \cup {None} /\ (cur = None <=> phase = "off") /\ Chunks \in Nat
  BY BoundsAreNat DEF SInv, Shared, Backed
<1>1. CASE Next /\ Follows
  <2>1. asked' \in [Session -> Size] /\ pty' \in [Session -> Size]
    BY <1>1 DEF Follows, ConnectSize, PtySize, TerminalTypeOK
  <2>2. <<>> \in Seq(Chunk)
    OBVIOUS
  <2>3. /\ ready' \in BOOLEAN /\ size' \in Size
        /\ buffer' \in Seq(Chunk) /\ page' \in Seq(Chunk)
    <3>1. CASE phase' = "off"
      <4>1. ready' = FALSE /\ buffer' = <<>> /\ page' = <<>> /\ size' = Default
        BY <1>1, <3>1, Zenon DEF Follows, Fresh
      <4> QED
        BY <2>2, <4>1, DefaultIsSize
    <3>2. CASE phase' # "off"
      BY <1>1, <3>2 DEF Follows, view, TerminalTypeOK
    <3> QED
      BY <3>1, <3>2
  <2> QED
    BY <1>1, <2>1, <2>3 DEF Follows, TerminalTypeOK
<1>2. ASSUME NEW s \in Session, ShellWrites(s) PROVE TerminalTypeOK'
  <2>1. written[s] + 1 \in 1..Chunks /\ written'[s] = written[s] + 1
    BY <1>0, <1>2 DEF ShellWrites, TerminalTypeOK
  <2>2. written' \in [Session -> 0..Chunks]
    BY <1>0, <1>2, <2>1 DEF ShellWrites, TerminalTypeOK
  <2>3. [id |-> s, n |-> written'[s]] \in Chunk
    BY <2>1 DEF Chunk
  <2>4. wire' \in Seq(Chunk)
    BY <1>2, <2>3 DEF ShellWrites, TerminalTypeOK
  <2> QED
    BY <1>2, <2>2, <2>4 DEF ShellWrites, view, TerminalTypeOK
<1>3. CASE DataHeard
  <2>1. Head(wire) \in Chunk /\ wire' \in Seq(Chunk)
    BY <1>3 DEF DataHeard, TerminalTypeOK
  <2>2. <<Head(wire)>> \in Seq(Chunk)
    BY <2>1
  <2>3. /\ page' \in {page, page \o <<Head(wire)>>}
        /\ buffer' \in {buffer, Append(buffer, Head(wire))}
    BY <1>3, Zenon DEF DataHeard, PushToTerm, Push
  <2>4. buffer \in Seq(Chunk) /\ page \in Seq(Chunk)
    BY DEF TerminalTypeOK
  <2>5. \A q \in Seq(Chunk), d \in Chunk :
          q \o <<d>> \in Seq(Chunk) /\ Append(q, d) \in Seq(Chunk)
    <3> TAKE q \in Seq(Chunk), d \in Chunk
    <3>1. <<d>> \in Seq(Chunk)
      OBVIOUS
    <3> QED
      BY <3>1
  <2>6. buffer' \in Seq(Chunk) /\ page' \in Seq(Chunk)
    BY <2>1, <2>3, <2>4, <2>5, Zenon
  <2> QED
    BY <1>3, <2>1, <2>6 DEF DataHeard, shell, TerminalTypeOK
<1>4. CASE PageReady
  <2>1. buffer' \in Seq(Chunk) /\ page' \in Seq(Chunk) /\ ready' \in BOOLEAN
    BY <1>4 DEF PageReady, Push, TerminalTypeOK
  <2> QED
    BY <1>4, <2>1 DEF PageReady, shell, TerminalTypeOK
<1>5. ASSUME NEW z \in Size, PageSized(z) PROVE TerminalTypeOK'
  <2>1. [id |-> cur, to |-> z] \in [id : Session, to : Size]
    BY <1>0, <1>5 DEF PageSized
  <2>2. resizes' \in Seq([id : Session, to : Size])
    BY <1>5, <2>1 DEF PageSized, TerminalTypeOK
  <2> QED
    BY <1>5, <2>2 DEF PageSized, shell, TerminalTypeOK
<1>6. CASE NativeResize
  <2>0. \A S : \A q \in Seq(S) : q # <<>> => Head(q) \in S /\ Tail(q) \in Seq(S)
    OBVIOUS
  <2>1. Head(resizes) \in [id : Session, to : Size] /\ resizes' \in Seq([id : Session, to : Size])
    BY <1>6, <2>0, Zenon DEF NativeResize, TerminalTypeOK
  <2>2. pty' \in [Session -> Size]
    BY <1>6, <2>1 DEF NativeResize, TerminalTypeOK
  <2> QED
    BY <1>6, <2>1, <2>2 DEF NativeResize, view, TerminalTypeOK
<1>7. CASE UNCHANGED tvars
  BY <1>7 DEF tvars, view, shell, TerminalTypeOK
<1> QED
  BY <1>1, <1>2, <1>3, <1>4, <1>5, <1>6, <1>7 DEF TerminalNext, Stream

\* Every variable of the page keeps its type: in particular a resize always names a session.
THEOREM TerminalTypes == TerminalSpec => []TerminalTypeOK
<1>1. TerminalInit => TerminalTypeOK
  <2> SUFFICES ASSUME TerminalInit PROVE TerminalTypeOK
    OBVIOUS
  <2>1. /\ <<>> \in Seq(Chunk) /\ <<>> \in Seq([id : Session, to : Size])
        /\ 0 \in 0..Chunks /\ Default \in Size
    BY BoundsAreNat, DefaultIsSize
  <2>2. ready = FALSE /\ buffer = <<>> /\ page = <<>> /\ size = Default
    BY Zenon DEF TerminalInit, Fresh
  <2> QED
    BY <2>1, <2>2 DEF TerminalInit, TerminalTypeOK
<1> QED
  BY <1>1, SessionHolds, PageTypes, PTL DEF TerminalSpec

-----------------------------------------------------------------------------
(* What a shell writes, on its way to the page. *)

\* All that has been written and not been dropped, the oldest first.
Out == page \o buffer \o wire

\* The chunks of session c in the sequence q are those up to n, in order.
InOrder(q, c, n) ==
  LET mine == {i \in DOMAIN q : q[i].id = c}
  IN  /\ {q[i].n : i \in mine} = 1..n
      /\ \A i, j \in mine : i < j => q[i].n < q[j].n

\* One more chunk, at the end.
LEMMA OneMore ==
  ASSUME NEW q \in Seq(Chunk), NEW c \in Session, NEW n \in Nat, InOrder(q, c, n),
         NEW d, d.id = c, d.n = n + 1
  PROVE  InOrder(Append(q, d), c, n + 1)
<1> DEFINE r == Append(q, d)
           mine == {i \in DOMAIN q : q[i].id = c}
           ours == {i \in DOMAIN r : r[i].id = c}
           l == Len(q) + 1
<1>1. /\ l \in DOMAIN r /\ r[l] = d /\ DOMAIN r = DOMAIN q \cup {l}
      /\ \A i \in DOMAIN q : r[i] = q[i] /\ i < l /\ i \in Nat
      /\ l \notin DOMAIN q /\ l \in Nat
  OBVIOUS
<1> HIDE DEF r, l
<1>2. ours = mine \cup {l}
  BY <1>1
<1>3. /\ {q[i].n : i \in mine} = 1..n
      /\ \A i, j \in mine : i < j => q[i].n < q[j].n
  BY DEF InOrder
<1>4. {r[i].n : i \in ours} = (1..n) \cup {n + 1}
  BY <1>1, <1>2, <1>3
<1>5. (1..n) \cup {n + 1} = 1..(n + 1)
  OBVIOUS
<1>6. ASSUME NEW i \in ours, NEW j \in ours, i < j PROVE r[i].n < r[j].n
  <2>1. CASE i \in mine /\ j \in mine
    BY <1>1, <1>3, <1>6, <2>1
  <2>2. CASE i \in mine /\ j = l
    <3>1. q[i].n \in 1..n
      BY <1>3, <2>2
    <3> QED
      BY <1>1, <2>2, <3>1
  <2>3. CASE i = l
    BY <1>1, <1>2, <1>6, <2>3
  <2> QED
    BY <1>2, <2>1, <2>2, <2>3
<1> QED
  BY <1>4, <1>5, <1>6 DEF InOrder, r

\* A chunk of another session, anywhere, makes no difference.
LEMMA OneLess ==
  ASSUME NEW p \in Seq(Chunk), NEW w \in Seq(Chunk), w # <<>>, NEW c, Head(w).id # c, NEW n,
         InOrder(p \o w, c, n)
  PROVE  InOrder(p \o Tail(w), c, n)
<1> DEFINE q == p \o w
           r == p \o Tail(w)
           mine == {i \in DOMAIN q : q[i].id = c}
           ours == {i \in DOMAIN r : r[i].id = c}
           k == Len(p) + 1
<1>1. /\ DOMAIN q = 1..(Len(p) + Len(w)) /\ DOMAIN r = 1..(Len(p) + Len(w) - 1)
      /\ Len(p) \in Nat /\ Len(w) \in Nat /\ Len(w) > 0
      /\ q[k] = Head(w)
  OBVIOUS
<1>2. ASSUME NEW i \in DOMAIN r PROVE r[i] = IF i < k THEN q[i] ELSE q[i + 1]
  <2>1. CASE i < k
    BY <1>1, <2>1
  <2>2. CASE i >= k
    <3>1. r[i] = Tail(w)[i - Len(p)]
      BY <1>1, <2>2
    <3>2. i - Len(p) \in 1..Len(Tail(w)) /\ Tail(w)[i - Len(p)] = w[i - Len(p) + 1]
      BY <1>1, <2>2
    <3>3. q[i + 1] = w[i + 1 - Len(p)] /\ i + 1 - Len(p) = i - Len(p) + 1
      BY <1>1, <2>2
    <3> QED
      BY <1>1, <2>2, <3>1, <3>2, <3>3
  <2> QED
    BY <1>1, <2>1, <2>2
<1> HIDE DEF q, r
<1>3. k \in Nat /\ k \in DOMAIN q /\ k \notin mine
  BY <1>1
<1>4. \A i \in ours : IF i < k THEN i \in mine ELSE i + 1 \in mine
  BY <1>1, <1>2, <1>3
<1>5. \A i \in mine : i # k /\ (IF i < k THEN i \in ours ELSE i - 1 \in ours /\ i - 1 >= k)
  BY <1>1, <1>2, <1>3
<1>6. /\ {q[i].n : i \in mine} = 1..n
      /\ \A i, j \in mine : i < j => q[i].n < q[j].n
  BY DEF InOrder, q
<1>7. {r[i].n : i \in ours} = {q[i].n : i \in mine}
  <2>1. ASSUME NEW i \in ours PROVE r[i].n \in {q[j].n : j \in mine}
    BY <1>2, <1>4, <2>1
  <2>2. ASSUME NEW i \in mine PROVE q[i].n \in {r[j].n : j \in ours}
    <3>1. CASE i < k
      BY <1>2, <1>5, <2>2, <3>1
    <3>2. CASE ~(i < k)
      <4>1. i - 1 \in ours /\ i - 1 >= k /\ (i - 1) + 1 = i
        BY <1>1, <1>5, <2>2, <3>2
      <4>2. r[i - 1] = q[i]
        BY <1>1, <1>2, <1>3, <4>1
      <4> QED
        BY <4>1, <4>2
    <3> QED
      BY <3>1, <3>2
  <2> QED
    BY <2>1, <2>2
<1>8. ASSUME NEW i \in ours, NEW j \in ours, i < j PROVE r[i].n < r[j].n
  <2>1. i \in Nat /\ j \in Nat
    BY <1>1
  <2> QED
    BY <1>2, <1>3, <1>4, <1>6, <1>8, <2>1
<1> QED
  BY <1>6, <1>7, <1>8 DEF InOrder, r

\* The inductive invariant of the stream: the page takes over what was held back, and no
\* chunk is of an attempt that has not begun.
Streamed ==
  /\ ready => buffer = <<>>
  /\ \A s \in Session :
       Pcs(s) = "unborn" => written[s] = 0 /\ \A i \in DOMAIN Out : Out[i].id # s
  /\ cur # None => InOrder(Out, cur, written[cur])

\* It gives what the run checks.
LEMMA StreamedShows == Streamed => OutputInOrder
  BY DEF Streamed, OutputInOrder, InOrder, Out

\* A step of the session: the chunks stay where they are, or are left behind.
LEMMA FollowsStreamed ==
  ASSUME SInv, Backed, TerminalTypeOK, Streamed, Next, Follows
  PROVE  Streamed'
<1>1. /\ \A s \in Session : Pcs(s)' = "unborn" => Pcs(s) = "unborn"
      /\ cur' = cur \/ cur' = None \/ (cur' \in Session /\ Pcs(cur') = "unborn")
  BY NextLeads DEF AllLead, Leads, Pcs
<1>2. cur' = None <=> phase' = "off"
  BY StepBacked DEF Backed
<1>3. written' = written /\ wire' = wire
  BY DEF Follows
<1>4. page \in Seq(Chunk) /\ buffer \in Seq(Chunk) /\ wire \in Seq(Chunk)
  BY DEF TerminalTypeOK
<1>5. CASE phase' = "off"
  <2>1. ready' = FALSE /\ buffer' = <<>> /\ page' = <<>>
    BY <1>5, Zenon DEF Follows, Fresh
  <2>2. Out' = wire
    BY <1>3, <1>4, <2>1 DEF Out
  <2>3. ASSUME NEW i \in DOMAIN wire
        PROVE  \E j \in DOMAIN Out : Out[j] = wire[i]
    <3>1. Len(page \o buffer) \in Nat /\ i \in 1..Len(wire)
      BY <1>4
    <3>2. Len(page \o buffer) + i \in DOMAIN Out /\ Out[Len(page \o buffer) + i] = wire[i]
      BY <1>4, <3>1 DEF Out
    <3> QED
      BY <3>2
  <2>4. ASSUME NEW s \in Session, Pcs(s)' = "unborn"
        PROVE  written'[s] = 0 /\ \A i \in DOMAIN Out' : Out'[i].id # s
    <3>1. written[s] = 0 /\ \A j \in DOMAIN Out : Out[j].id # s
      BY <1>1, <2>4 DEF Streamed
    <3> QED
      BY <1>3, <2>2, <2>3, <3>1
  <2> QED
    BY <1>2, <1>5, <2>1, <2>4 DEF Streamed
<1>6. CASE phase' # "off"
  <2>1. UNCHANGED <<ready, buffer, page>>
    BY <1>6 DEF Follows, view
  <2>2. Out' = Out
    BY <1>3, <2>1 DEF Out
  <2>3. CASE cur' = cur
    BY <1>1, <1>3, <2>1, <2>2, <2>3 DEF Streamed
  <2>4. CASE cur' \in Session /\ Pcs(cur') = "unborn"
    <3>1. written[cur'] = 0 /\ \A i \in DOMAIN Out : Out[i].id # cur'
      BY <2>4 DEF Streamed
    <3>2. InOrder(Out, cur', 0)
      BY <3>1 DEF InOrder
    <3> QED
      BY <1>1, <1>3, <2>1, <2>2, <3>1, <3>2 DEF Streamed
  <2> QED
    BY <1>1, <1>2, <1>6, <2>3, <2>4
<1> QED
  BY <1>5, <1>6

\* The stream itself: written at one end, shown at the other, dropped if nobody looks.
LEMMA StreamStreamed ==
  ASSUME SInv, TerminalTypeOK, Streamed, Stream
  PROVE  Streamed'
<1>1. UNCHANGED vars
  BY DEF Stream, ShellWrites, DataHeard, PageReady, PageSized, NativeResize
<1>2. UNCHANGED <<cur, attempt>> /\ \A s \in Session : Pcs(s)' = Pcs(s)
  BY <1>1 DEF vars, screen, Pcs
<1>3. page \in Seq(Chunk) /\ buffer \in Seq(Chunk) /\ wire \in Seq(Chunk)
  BY DEF TerminalTypeOK
<1>4. ASSUME NEW s \in Session, ShellWrites(s) PROVE Streamed'
  <2> DEFINE d == [id |-> s, n |-> written[s] + 1]
  <2>1. /\ written' = [written EXCEPT ![s] = written[s] + 1]
        /\ wire' = Append(wire, d) /\ UNCHANGED <<ready, buffer, page>>
        /\ written[s] \in Nat /\ DOMAIN written = Session
    BY <1>4 DEF ShellWrites, view, TerminalTypeOK
  <2>2. Out' = Append(Out, d) /\ Out \in Seq(Chunk)
    <3> HIDE DEF d
    <3> QED
      BY <1>3, <2>1 DEF Out
  <2>3. d.id = s /\ d.n = written[s] + 1
    OBVIOUS
  <2> HIDE DEF d
  <2>4. /\ DOMAIN Out' = DOMAIN Out \cup {Len(Out) + 1} /\ Out'[Len(Out) + 1] = d
        /\ \A i \in DOMAIN Out : Out'[i] = Out[i]
    BY <2>2
  <2>5. Pcs(s) # "unborn"
    BY <1>4 DEF ShellWrites
  <2>6. ASSUME NEW r \in Session, Pcs(r) = "unborn"
        PROVE  written'[r] = 0 /\ \A i \in DOMAIN Out' : Out'[i].id # r
    BY <2>1, <2>3, <2>4, <2>5, <2>6 DEF Streamed
  <2>7. ASSUME cur # None PROVE InOrder(Out', cur, written'[cur])
    <3>1. InOrder(Out, cur, written[cur]) /\ cur \in Session
      BY <2>7 DEF Streamed, SInv, Shared
    <3>2. CASE cur = s
      BY <2>1, <2>2, <2>3, <3>1, <3>2, OneMore
    <3>3. CASE cur # s
      <4>1. {i \in DOMAIN Out' : Out'[i].id = cur} = {i \in DOMAIN Out : Out[i].id = cur}
        BY <2>3, <2>4, <3>3
      <4>2. written'[cur] = written[cur]
        BY <2>1, <3>1, <3>3
      <4> QED
        BY <2>4, <3>1, <4>1, <4>2 DEF InOrder
    <3> QED
      BY <3>2, <3>3
  <2> QED
    BY <1>2, <2>1, <2>6, <2>7 DEF Streamed
<1>5. ASSUME UNCHANGED written, Out' = Out, ready' => buffer' = <<>> PROVE Streamed'
  BY <1>2, <1>5 DEF Streamed
<1>6. CASE DataHeard
  <2> DEFINE d == Head(wire)
  <2>1. wire # <<>> /\ wire' = Tail(wire) /\ UNCHANGED <<written, ready>> /\ d \in Chunk
    BY <1>3, <1>6 DEF DataHeard, shell
  <2>2. wire = <<d>> \o Tail(wire) /\ Tail(wire) \in Seq(Chunk) /\ <<d>> \in Seq(Chunk)
    BY <1>3, <2>1
  <2>3. CASE d.id = cur /\ ready
    <3>1. buffer = <<>> /\ buffer' = buffer /\ page' = page \o <<d>>
      BY <1>6, <2>3 DEF DataHeard, PushToTerm, Push, Streamed
    <3> HIDE DEF d
    <3>2. (page \o <<d>>) \o Tail(wire) = page \o (<<d>> \o Tail(wire))
      BY <1>3, <2>2
    <3>3. Out' = (page \o <<d>>) \o Tail(wire) /\ Out = page \o wire
      BY <1>3, <2>1, <2>2, <3>1 DEF Out
    <3> QED
      BY <1>5, <2>1, <2>2, <3>1, <3>2, <3>3
  <2>4. CASE d.id = cur /\ ~ready
    <3>1. page' = page /\ buffer' = Append(buffer, d)
      BY <1>6, <2>4 DEF DataHeard, PushToTerm
    <3> HIDE DEF d
    <3>2. Append(buffer, d) = buffer \o <<d>>
      BY <1>3, <2>1
    <3>3. (page \o (buffer \o <<d>>)) \o Tail(wire) = (page \o buffer) \o (<<d>> \o Tail(wire))
      BY <1>3, <2>2
    <3>4. Out' = Out
      BY <2>1, <2>2, <3>1, <3>2, <3>3 DEF Out
    <3> QED
      BY <1>5, <2>1, <2>4, <3>4
  <2>5. CASE d.id # cur
    <3>1. UNCHANGED <<buffer, page>>
      BY <1>6, <2>5 DEF DataHeard
    <3>2. page \o buffer \in Seq(Chunk)
      BY <1>3
    <3>3. InOrder(Out, cur, written[cur]) => InOrder(Out', cur, written[cur])
      BY <1>3, <2>1, <2>5, <3>1, <3>2, OneLess DEF Out
    <3>4. ASSUME NEW i \in DOMAIN Out' PROVE \E j \in DOMAIN Out : Out[j] = Out'[i]
      <4> DEFINE p == page \o buffer
      <4>1. p \in Seq(Chunk) /\ Out = p \o wire /\ Out' = p \o Tail(wire)
        BY <1>3, <2>1, <3>1 DEF Out
      <4> HIDE DEF p
      <4>2. CASE i <= Len(p)
        <5>1. i \in DOMAIN Out /\ Out[i] = Out'[i]
          BY <1>3, <2>1, <2>2, <4>1, <4>2, <3>4
        <5> QED
          BY <5>1
      <4>3. CASE i > Len(p)
        <5>1. i \in Nat /\ i - Len(p) \in 1..Len(Tail(wire)) /\ Out'[i] = Tail(wire)[i - Len(p)]
              /\ Len(p) \in Nat
          BY <1>3, <2>2, <3>4, <4>1, <4>3
        <5>2. Tail(wire)[i - Len(p)] = wire[i - Len(p) + 1] /\ i - Len(p) + 1 \in 1..Len(wire)
          BY <1>3, <2>1, <5>1
        <5> DEFINE k == i - Len(p)
        <5>3. k \in Nat /\ i = Len(p) + k
          BY <5>1
        <5> HIDE DEF k
        <5>4. Len(p) + (k + 1) \in DOMAIN Out /\ Out[Len(p) + (k + 1)] = wire[k + 1]
          <6> DEFINE j == k + 1
          <6>1. j \in 1..Len(wire)
            BY <5>2, <5>3 DEF k
          <6> HIDE DEF j
          <6>2. Len(p) + j \in 1..(Len(p) + Len(wire))
            BY <1>3, <5>1, <6>1
          <6>3. DOMAIN (p \o wire) = 1..(Len(p) + Len(wire)) /\ (p \o wire)[Len(p) + j] = wire[j]
            BY <1>3, <4>1, <5>1, <6>1, <6>2
          <6> QED
            BY <4>1, <6>2, <6>3 DEF j
        <5> QED
          BY <5>1, <5>2, <5>4 DEF k
      <4> QED
        BY <1>3, <2>2, <3>4, <4>1, <4>2, <4>3
    <3> QED
      BY <1>2, <2>1, <3>1, <3>3, <3>4 DEF Streamed
  <2> QED
    BY <2>3, <2>4, <2>5
<1>7. CASE PageReady
  <2>1. /\ page' = page \o buffer /\ buffer' = <<>>
        /\ UNCHANGED <<written, wire>>
    BY <1>7 DEF PageReady, Push, shell
  <2>2. (page \o buffer) \o <<>> = page \o buffer
    BY <1>3
  <2>3. Out' = Out
    BY <2>1, <2>2 DEF Out
  <2> QED
    BY <1>5, <2>1, <2>3
<1>8. CASE NativeResize \/ \E z \in Size : PageSized(z)
  <2>1. UNCHANGED <<written, ready, buffer, page, wire>>
    BY <1>8 DEF NativeResize, PageSized, view, shell
  <2>2. Out' = Out
    BY <2>1 DEF Out
  <2> QED
    BY <1>5, <2>1, <2>2 DEF Streamed
<1> QED
  BY <1>4, <1>6, <1>7, <1>8 DEF Stream

\* Whatever the page reports and when, and be it ready when it may: what is shown, held back
\* and under way is what the shell of the screen has written, each chunk once and in order.
THEOREM OutputArrives == TerminalSpec => []OutputInOrder
<1>1. TerminalInit => Streamed
  <2> SUFFICES ASSUME TerminalInit PROVE Streamed
    OBVIOUS
  <2>1. buffer = <<>> /\ page = <<>> /\ wire = <<>> /\ cur = None
        /\ \A s \in Session : written[s] = 0
    BY Zenon DEF TerminalInit, Fresh, Init
  <2>2. Out = <<>>
    BY <2>1 DEF Out
  <2> QED
    BY <2>1, <2>2 DEF Streamed
<1>2. SInv /\ Backed /\ TerminalTypeOK /\ Streamed /\ [TerminalNext]_tvars => Streamed'
  <2>1. CASE UNCHANGED tvars /\ Streamed
    <3>1. UNCHANGED <<page, buffer, wire, ready, written, cur, attempt>>
      BY <2>1 DEF tvars, vars, screen, view, shell
    <3> QED
      BY <2>1, <3>1 DEF Streamed, Out, Pcs
  <2> QED
    BY <2>1, FollowsStreamed, StreamStreamed DEF TerminalNext
<1> QED
  BY <1>1, <1>2, SessionHolds, TerminalTypes, StreamedShows, PTL DEF TerminalSpec

-----------------------------------------------------------------------------
(* The size of the page, on its way to the shell. *)

\* No resize for session c comes after the i-th of q.
Latest(q, c, i) == \A j \in DOMAIN q : j > i => q[j].id # c

\* The latest resize under way for session c, if there is one, is to z.
Brings(q, c, z) == \A i \in DOMAIN q : q[i].id = c /\ Latest(q, c, i) => q[i].to = z

\* The inductive invariant of the size: at every stage the size of the page is where the
\* shell will find it.
Sized ==
  /\ \A i \in DOMAIN resizes : Pcs(resizes[i].id) # "unborn"
  /\ cur # None =>
       /\ Brings(resizes, cur, size)
       /\ Pcs(cur) \in Setting => asked[cur] = size
       /\ Pcs(cur) \in {"up", "closing"} =>
            pty[cur] = size \/ \E i \in DOMAIN resizes : resizes[i].id = cur

\* It gives what the run checks.
LEMMA SizedAgrees == SInv /\ Backed /\ Sized => SizeAgrees
<1> SUFFICES ASSUME SInv, Backed, Sized, phase = "connected", Pcs(cur) = "up", resizes = <<>>
             PROVE  pty[cur] = size
  BY DEF SizeAgrees
<1>1. cur # None
  BY DEF Backed
<1>2. DOMAIN resizes = {}
  OBVIOUS
<1> QED
  BY <1>1, <1>2 DEF Sized

\* A step of the session: connect takes the size along, the shell starts with it.
LEMMA FollowsSized ==
  ASSUME SInv, Backed, TerminalTypeOK, Sized, Next, Follows
  PROVE  Sized'
<1>1. /\ AllLead
      /\ \/ cur' = cur
         \/ cur' = None
         \/ cur' \in Session /\ Pcs(cur') = "unborn" /\ attempt'[cur'].pc = "resolve"
  BY NextLeads
<1>2. cur' = None <=> phase' = "off"
  BY StepBacked DEF Backed
<1>3. resizes' = resizes /\ asked' = ConnectSize /\ pty' = PtySize
  BY DEF Follows
<1>4. \A i \in DOMAIN resizes : resizes[i].id \in Session
  <2>1. \A S : \A q \in Seq(S) : \A i \in DOMAIN q : q[i] \in S
    OBVIOUS
  <2>2. \A i \in DOMAIN resizes : resizes[i] \in [id : Session, to : Size]
    BY <2>1, Zenon DEF TerminalTypeOK
  <2> QED
    BY <2>2
<1>5. \A i \in DOMAIN resizes : Pcs(resizes[i].id)' # "unborn"
  <2>1. \A s \in Session : Pcs(s)' = "unborn" => Pcs(s) = "unborn"
    BY <1>1 DEF AllLead, Leads, Pcs
  <2> SUFFICES ASSUME NEW i \in DOMAIN resizes PROVE Pcs(resizes[i].id)' # "unborn"
    BY <1>3
  <2>2. Pcs(resizes[i].id) # "unborn"
    BY DEF Sized
  <2>3. resizes[i].id \in Session
    BY <1>4
  <2> QED
    BY <1>3, <2>1, <2>2, <2>3 DEF Pcs
<1>6. CASE cur' = None
  BY <1>3, <1>5, <1>6 DEF Sized
<1>7. ASSUME cur' # None PROVE size' = size
  BY <1>2, <1>7 DEF Follows, view
<1>8. CASE cur' = cur /\ cur # None
  <2>1. cur \in Session
    BY <1>8 DEF SInv, Shared
  <2>2. Leads(Pcs(cur), attempt'[cur].pc) /\ Pcs(cur)' = attempt'[cur].pc
    BY <1>1, <1>8, <2>1 DEF AllLead, Pcs
  <2>3. attempt'[cur].pc \in Setting => asked'[cur] = size
    <3>1. asked'[cur] = IF Pcs(cur) = "resolve" /\ attempt'[cur].pc = "queued"
                        THEN size ELSE asked[cur]
      BY <1>3, <2>1 DEF ConnectSize
    <3> QED
      BY <1>8, <2>2, <3>1 DEF Leads, Sized
  <2>4. attempt'[cur].pc \in {"up", "closing"} =>
          pty'[cur] = size \/ \E i \in DOMAIN resizes : resizes[i].id = cur
    <3>1. pty'[cur] = IF Pcs(cur) = "shell" /\ attempt'[cur].pc = "up"
                      THEN asked[cur] ELSE pty[cur]
      BY <1>3, <2>1 DEF PtySize
    <3>2. "shell" \in Setting
      BY DEF Setting
    <3> QED
      BY <1>8, <2>2, <3>1, <3>2 DEF Leads, Sized
  <2>5. Brings(resizes, cur, size)
    BY <1>8 DEF Sized
  <2>6. cur' = cur /\ size' = size /\ Pcs(cur)' = attempt'[cur].pc
    BY <1>7, <1>8, <2>2
  <2> QED
    BY <1>3, <1>5, <2>3, <2>4, <2>5, <2>6 DEF Sized
<1>9. CASE cur' \in Session /\ Pcs(cur') = "unborn" /\ attempt'[cur'].pc = "resolve"
  <2>1. \A i \in DOMAIN resizes : resizes[i].id # cur'
    BY <1>9 DEF Sized
  <2>2. Brings(resizes, cur', size')
    BY <2>1 DEF Brings
  <2>3. Pcs(cur)' = "resolve" /\ "resolve" \notin Setting
    BY <1>9 DEF Pcs, Setting, Connecting, Prompt
  <2> QED
    BY <1>3, <1>5, <2>2, <2>3 DEF Sized
<1> QED
  BY <1>1, <1>6, <1>8, <1>9

\* The page reports a size, unless the session is being set up, or a report is delivered.
LEMMA StreamSized ==
  ASSUME Early = FALSE, SInv, Backed, TerminalTypeOK, Sized, Stream
  PROVE  Sized'
<1>1. UNCHANGED vars
  BY DEF Stream, ShellWrites, DataHeard, PageReady, PageSized, NativeResize
<1>2. UNCHANGED <<cur, attempt>> /\ Pcs(cur)' = Pcs(cur) /\ \A s : Pcs(s)' = Pcs(s)
  BY <1>1 DEF vars, screen, Pcs
<1>3. resizes \in Seq([id : Session, to : Size])
  BY DEF TerminalTypeOK
<1>4. CASE DataHeard \/ PageReady \/ \E s \in Session : ShellWrites(s)
  <2>1. UNCHANGED <<size, asked, pty, resizes>>
    BY <1>4 DEF DataHeard, PageReady, ShellWrites, view, shell
  <2> QED
    BY <1>2, <2>1 DEF Sized
<1>5. ASSUME NEW z \in Size, PageSized(z) PROVE Sized'
  <2> DEFINE l == Len(resizes) + 1
             d == [id |-> cur, to |-> z]
  <2>1. /\ size' = z /\ resizes' = Append(resizes, d) /\ UNCHANGED <<asked, pty>>
        /\ Pcs(cur) \in {"resolve", "up", "closing", "over"} /\ d.id = cur /\ d.to = z
    BY <1>5 DEF PageSized, shell
  <2> HIDE DEF d
  <2>2. /\ DOMAIN resizes' = DOMAIN resizes \cup {l} /\ l \in DOMAIN resizes'
        /\ resizes'[l] = d /\ \A i \in DOMAIN resizes : resizes'[i] = resizes[i] /\ l > i
    BY <1>3, <2>1
  <2> HIDE DEF l
  <2>3. Pcs(cur) \notin Setting /\ Pcs(cur) # "unborn"
    BY <2>1 DEF Setting, Connecting, Prompt
  <2>4. Brings(resizes', cur, z)
    BY <2>1, <2>2 DEF Brings, Latest
  <2>5. \A i \in DOMAIN resizes' : Pcs(resizes'[i].id) # "unborn"
    BY <2>1, <2>2, <2>3 DEF Sized
  <2> QED
    BY <1>2, <2>1, <2>2, <2>3, <2>4, <2>5 DEF Sized
<1>6. CASE NativeResize
  <2> DEFINE r == Head(resizes)
  <2>1. /\ resizes # <<>> /\ resizes' = Tail(resizes) /\ UNCHANGED <<size, asked>>
        /\ pty' = IF Pcs(r.id) \in {"up", "closing"} THEN [pty EXCEPT ![r.id] = r.to] ELSE pty
    BY <1>6 DEF NativeResize, view
  <2>2. /\ 1 \in DOMAIN resizes /\ r = resizes[1]
        /\ \A i \in DOMAIN resizes' : i + 1 \in DOMAIN resizes /\ resizes'[i] = resizes[i + 1]
                                      /\ i \in Nat
        /\ \A i \in DOMAIN resizes : i # 1 => i - 1 \in DOMAIN resizes' /\ i \in Nat /\ i > 1
    BY <1>3, <2>1
  <2> HIDE DEF r
  <2>3. \A i \in DOMAIN resizes' : Pcs(resizes'[i].id) # "unborn"
    BY <2>2 DEF Sized
  <2>4. \A i \in DOMAIN resizes : i # 1 => resizes'[i - 1] = resizes[i]
    BY <2>2
  <2>5. ASSUME cur # None PROVE Brings(resizes', cur, size)
    <3>1. ASSUME NEW i \in DOMAIN resizes', resizes'[i].id = cur, Latest(resizes', cur, i)
          PROVE  resizes'[i].to = size
      <4>1. Latest(resizes, cur, i + 1)
        <5> SUFFICES ASSUME NEW j \in DOMAIN resizes, j > i + 1 PROVE resizes[j].id # cur
          BY DEF Latest
        <5>1. i \in Nat /\ j \in Nat /\ j # 1
          BY <2>2
        <5>2. j - 1 \in DOMAIN resizes' /\ j - 1 > i /\ resizes'[j - 1] = resizes[j]
          BY <2>2, <2>4, <5>1
        <5> QED
          BY <3>1, <5>2 DEF Latest
      <4> QED
        BY <2>2, <2>5, <3>1, <4>1 DEF Sized, Brings
    <3> QED
      BY <3>1 DEF Brings
  <2>6. ASSUME cur # None, Pcs(cur) \in {"up", "closing"},
               \A i \in DOMAIN resizes' : resizes'[i].id # cur
        PROVE  pty'[cur] = size
    <3>1. \A i \in DOMAIN resizes : i # 1 => resizes[i].id # cur
      BY <2>2, <2>4, <2>6
    <3>2. CASE r.id = cur
      <4>1. Latest(resizes, cur, 1)
        BY <2>2, <3>1 DEF Latest
      <4>2. r.to = size
        BY <2>2, <2>6, <3>2, <4>1 DEF Sized, Brings
      <4>3. cur \in DOMAIN pty
        BY <2>6 DEF TerminalTypeOK, SInv, Shared
      <4> QED
        BY <2>1, <2>6, <3>2, <4>2, <4>3
    <3>3. CASE r.id # cur
      <4>1. pty[cur] = size
        BY <2>2, <2>6, <3>1, <3>3 DEF Sized
      <4>2. pty'[cur] = pty[cur]
        BY <2>1, <3>3
      <4> QED
        BY <4>1, <4>2
    <3> QED
      BY <3>2, <3>3
  <2> QED
    BY <1>2, <2>1, <2>3, <2>5, <2>6 DEF Sized
<1> QED
  BY <1>4, <1>5, <1>6 DEF Stream

\* While the page reports no size between connect and the registration of its session, page
\* and shell agree in what was written and in how much fits.
THEOREM PageAndShellAgree ==
  ASSUME Early = FALSE
  PROVE  TerminalSpec => []PageAgrees
<1>1. TerminalInit => Sized
  <2> SUFFICES ASSUME TerminalInit PROVE Sized
    OBVIOUS
  <2>1. resizes = <<>> /\ cur = None
    BY DEF TerminalInit, Init
  <2>2. DOMAIN resizes = {}
    BY <2>1
  <2> QED
    BY <2>1, <2>2 DEF Sized
<1>2. SInv /\ Backed /\ TerminalTypeOK /\ Sized /\ [TerminalNext]_tvars => Sized'
  <2>1. CASE UNCHANGED tvars /\ Sized
    <3>1. UNCHANGED <<size, asked, pty, resizes, cur, attempt>>
      BY <2>1 DEF tvars, vars, screen, view, shell
    <3> QED
      BY <2>1, <3>1 DEF Sized, Pcs
  <2> QED
    BY <2>1, FollowsSized, StreamSized DEF TerminalNext
<1>3. OutputInOrder /\ SizeAgrees <=> PageAgrees
  BY DEF PageAgrees
<1> QED
  BY <1>1, <1>2, <1>3, SessionHolds, TerminalTypes, SizedAgrees, OutputArrives, PTL
     DEF TerminalSpec
=============================================================================
