----------------------------- MODULE SshSession -----------------------------
(***************************************************************************)
(* SSH sessions of Wharf Mobile: the engine's connection attempts          *)
(* (sshengine: Connect, dial, host-key and secret prompts, session end),   *)
(* the native bridge between it and JavaScript (modules/wharf-ssh), and    *)
(* the terminal screen that drives it (useTerminalLogic.ts), with the lock *)
(* of the vault (lockVault) that must end every shell.                     *)
(*                                                                         *)
(* Four parties run at their own pace: the goroutine of each attempt, the  *)
(* native module queue, the bridge that carries events and promises back,  *)
(* and JavaScript.  A step is what one of them does between two waits.     *)
(*                                                                         *)
(* All attempts are to one host.  Of a password only its rightness counts, *)
(* of a shell only that it is open: what it writes is in Terminal.         *)
(***************************************************************************)
EXTENDS Naturals, Sequences

CONSTANTS
  Session,   \* session ids; each is used for one attempt
  HostKey,   \* the keys the host may present
  Asks,      \* prompts for the login password, at most (3 in the program)
  None

ASSUME NoneIsNoValue == None \notin Session \cup HostKey \cup {"right", "wrong", "yes", "no"}
ASSUME AsksIsNat == Asks \in Nat

VARIABLES
  attempt,   \* the attempts, each with its events and promise under way
  known,     \* disk: the keys of the host in known_hosts
  calls,     \* native module queue: fire-and-forget calls to the engine
  cur,       \* screen: sessionIdRef
  phase,     \* screen: "off" when there is none
  modal,     \* screen: the prompt shown
  remember,  \* screen: the typed password to save once connected
  locked     \* the vault is locked

screen == <<cur, phase, modal, remember>>
vars == <<attempt, known, calls, screen, locked>>

-----------------------------------------------------------------------------

Password == {"right", "wrong"}

\* What the goroutine of an attempt may wait for the user to answer: trust of
\* the host key, the login password, or another secret (the passphrase of a
\* key, a question of the server).
Prompt == {"hostkey", "password", "other"}

\* Where an attempt is.  "resolve": the stored password is being read;
\* "queued": connect waits for a thread; "check": a password is at the server;
\* "shell": authenticated, the shell is being requested; "up": registered;
\* "closing": its connection is closed; "over": nothing of it is left.
Connecting == {"dial", "handshake", "auth", "check"} \cup Prompt
Pc == {"unborn", "resolve", "queued", "shell", "up", "closing", "over"} \cup Connecting

(***************************************************************************)
(* stop: the context of the attempt was cancelled or timed out before the  *)
(* handshake was done; db: the known keys it has read; key: the one        *)
(* presented; tries: passwords tried; reply: the answer in the channel of  *)
(* its prompt, or the password being tried; events: its callbacks on their *)
(* way to JavaScript; promise: the outcome of connect on its way there.    *)
(***************************************************************************)
Attempt ==
  [pc : Pc, stop : BOOLEAN, db : SUBSET HostKey, key : HostKey \cup {None},
   stored : Password \cup {None}, tries : 0..(Asks + 1),
   reply : Password \cup {"yes", "no", None},
   events : Seq(Prompt \cup {"closed"}), promise : {"none", "ok", "err"}]

Unborn ==
  [pc |-> "unborn", stop |-> FALSE, db |-> {}, key |-> None, stored |-> None,
   tries |-> 0, reply |-> None, events |-> <<>>, promise |-> "none"]

Call == [op : {"cancel", "close", "closeAll"}, id : Session \cup {None}]

TypeOK ==
  /\ attempt \in [Session -> Attempt]
  /\ known \subseteq HostKey
  /\ calls \in Seq(Call)
  /\ cur \in Session \cup {None}
  /\ phase \in {"off", "connecting", "connected", "ended"}
  /\ modal \in Prompt \cup {"none"}
  /\ remember \in Password \cup {None}
  /\ locked \in BOOLEAN

Init ==
  /\ attempt = [s \in Session |-> Unborn]
  /\ known = {}
  /\ calls = <<>>
  /\ cur = None
  /\ phase = "off"
  /\ modal = "none"
  /\ remember = None
  /\ locked = FALSE

Pcs(s) == attempt[s].pc

\* isCurrent: events and promise of an attempt the screen has left change
\* nothing any more, and are forgotten at once.
Unheard(a) == [a EXCEPT !.events = <<>>, !.promise = "none"]

Becomes(s, a) == attempt' = [attempt EXCEPT ![s] = IF cur = s THEN a ELSE Unheard(a)]
Moves(s, pc) == Becomes(s, [attempt[s] EXCEPT !.pc = pc])

\* The end of an attempt: what only the goroutine used is forgotten.
Over(a) == [Unborn EXCEPT !.pc = "over", !.events = a.events, !.promise = a.promise]

\* The handshake is done; its fields are not read again.
Shell(a) == [a EXCEPT !.pc = "shell", !.db = {}, !.stored = None, !.tries = 0, !.reply = None]

\* connect throws.
Fails(s) == Becomes(s, Over([attempt[s] EXCEPT !.promise = "err"]))

\* A password is tried as often as it is asked for, and once from the vault.
TryLimit(a) == IF a.stored = None THEN Asks ELSE Asks + 1

-----------------------------------------------------------------------------
(* The screen starts and leaves attempts. *)

\* startSession with a fresh id, after the calls that precede it.
StartSession(s) ==
  /\ Pcs(s) = "unborn"
  /\ attempt' = [r \in Session |-> IF r = s THEN [Unborn EXCEPT !.pc = "resolve"]
                                   ELSE Unheard(attempt[r])]
  /\ cur' = s
  /\ phase' = "connecting"
  /\ modal' = "none"
  /\ remember' = None

\* teardown: cancel the attempt and close the session, and wait for neither.
Teardown == calls' = calls \o <<[op |-> "cancel", id |-> cur], [op |-> "close", id |-> cur]>>

Open(s) ==
  /\ phase = "off"
  /\ ~locked
  /\ StartSession(s)
  /\ UNCHANGED <<known, calls, locked>>

\* Over a terminal that has ended lies the offer to connect again.
EndedOverlay == phase = "ended"

Reconnect(s) ==
  /\ EndedOverlay
  /\ ~locked
  /\ Teardown
  /\ StartSession(s)
  /\ UNCHANGED <<known, locked>>

\* The screen of a terminal: its buttons to close it are there in every phase.
OnScreen == phase # "off"

\* The screen is closed, or unmounted by the router because the vault is locked.
Leave ==
  /\ OnScreen
  /\ Teardown
  /\ attempt' = [s \in Session |-> Unheard(attempt[s])]
  /\ cur' = None
  /\ phase' = "off"
  /\ modal' = "none"
  /\ remember' = None
  /\ UNCHANGED <<known, locked>>

\* The stored password is read: connect, unless the screen has moved on.
Resolved(s) ==
  /\ Pcs(s) = "resolve"
  /\ IF cur = s
     THEN \E p \in Password \cup {None} :
            Becomes(s, [attempt[s] EXCEPT !.pc = "queued", !.stored = p])
     ELSE Becomes(s, Over(attempt[s]))
  /\ UNCHANGED <<known, calls, screen, locked>>

\* lockVault: end the sessions, whatever it takes.
Lock ==
  /\ ~locked
  /\ locked' = TRUE
  /\ calls' = Append(calls, [op |-> "closeAll", id |-> None])
  /\ UNCHANGED <<attempt, known, screen>>

\* The queue of the module is empty long before a vault is unlocked again.
Unlock ==
  /\ locked
  /\ phase = "off"
  /\ calls = <<>>
  /\ locked' = FALSE
  /\ UNCHANGED <<attempt, known, calls, screen>>

-----------------------------------------------------------------------------
(* The goroutine of an attempt, until the handshake is done. *)

\* Connect makes its context and publishes the cancel function; dial reads
\* known_hosts.
ConnectBegins(s) ==
  /\ Pcs(s) = "queued"
  /\ Becomes(s, [attempt[s] EXCEPT !.pc = "dial", !.db = known])
  /\ UNCHANGED <<known, calls, screen, locked>>

Dialled(s) ==
  /\ Pcs(s) = "dial"
  /\ Moves(s, "handshake")
  /\ UNCHANGED <<known, calls, screen, locked>>

\* The network fails, the server gives up or refuses everything, or the
\* watcher closes the connection of a stopped attempt.
HandshakeFails(s) ==
  /\ Pcs(s) \in {"dial", "handshake", "auth", "check"}
  /\ Fails(s)
  /\ UNCHANGED <<known, calls, screen, locked>>

\* A key that was known when the attempt began is accepted, another key of a
\* known host is refused without asking.
HostKeyKnown(s) ==
  /\ Pcs(s) = "handshake"
  /\ \E k \in attempt[s].db :
       Becomes(s, [attempt[s] EXCEPT !.pc = "auth", !.key = k])
  /\ UNCHANGED <<known, calls, screen, locked>>

HostKeyChanged(s) ==
  /\ Pcs(s) = "handshake"
  /\ attempt[s].db # {}
  /\ HostKey \ attempt[s].db # {}
  /\ Fails(s)
  /\ UNCHANGED <<known, calls, screen, locked>>

\* A prompt is raised.  Of two of a kind on their way only the last matters.
Ask(a, p) ==
  [a EXCEPT !.pc = p, !.reply = None,
            !.events = IF \E i \in DOMAIN a.events : a.events[i] = p THEN @ ELSE Append(@, p)]

AskHostKey(s) ==
  /\ Pcs(s) = "handshake"
  /\ attempt[s].db = {}
  /\ \E k \in HostKey : Becomes(s, Ask([attempt[s] EXCEPT !.key = k], "hostkey"))
  /\ UNCHANGED <<known, calls, screen, locked>>

\* A slip the run catches: the accepted key is not written.
HostKeyAcceptedOnce(s) ==
  /\ Pcs(s) = "hostkey"
  /\ attempt[s].reply = "yes"
  /\ Becomes(s, [attempt[s] EXCEPT !.pc = "auth", !.reply = None])
  /\ UNCHANGED <<known, calls, screen, locked>>

HostKeyAccepted(s) ==
  /\ Pcs(s) = "hostkey"
  /\ attempt[s].reply = "yes"
  /\ known' = known \cup {attempt[s].key}
  /\ Becomes(s, [attempt[s] EXCEPT !.pc = "auth", !.reply = None])
  /\ UNCHANGED <<calls, screen, locked>>

\* The accepted key cannot be written: nothing is trusted.
HostKeyUnwritten(s) ==
  /\ Pcs(s) = "hostkey"
  /\ attempt[s].reply = "yes"
  /\ Fails(s)
  /\ UNCHANGED <<known, calls, screen, locked>>

\* Publickey, or the answers to the server's questions, are accepted: before
\* any password, or after the last.
ServerAccepts(s) ==
  /\ Pcs(s) = "auth"
  /\ attempt[s].tries \in {0, TryLimit(attempt[s])}
  /\ Becomes(s, Shell(attempt[s]))
  /\ UNCHANGED <<known, calls, screen, locked>>

\* The stored password is replayed silently, first.
ReplayStored(s) ==
  /\ Pcs(s) = "auth"
  /\ attempt[s].tries = 0
  /\ attempt[s].stored # None
  /\ Becomes(s, [attempt[s] EXCEPT !.pc = "check", !.tries = 1, !.reply = attempt[s].stored])
  /\ UNCHANGED <<known, calls, screen, locked>>

\* A slip the run catches: it asks without end.
AskPasswordAgain(s) ==
  /\ Pcs(s) = "auth"
  /\ Becomes(s, Ask([attempt[s] EXCEPT !.tries = @ + 1], "password"))
  /\ UNCHANGED <<known, calls, screen, locked>>

AskPassword(s) ==
  LET a == attempt[s] IN
  /\ Pcs(s) = "auth"
  /\ a.tries < TryLimit(a)
  /\ a.stored # None => a.tries > 0
  /\ Becomes(s, Ask([a EXCEPT !.tries = @ + 1], "password"))
  /\ UNCHANGED <<known, calls, screen, locked>>

AskOther(s) ==
  /\ Pcs(s) = "auth"
  /\ attempt[s].tries \in {0, TryLimit(attempt[s])}
  /\ Becomes(s, Ask(attempt[s], "other"))
  /\ UNCHANGED <<known, calls, screen, locked>>

\* The user's answer comes out of the channel.
PasswordTaken(s) ==
  /\ Pcs(s) = "password"
  /\ attempt[s].reply \in Password
  /\ Moves(s, "check")
  /\ UNCHANGED <<known, calls, screen, locked>>

OtherTaken(s) ==
  /\ Pcs(s) = "other"
  /\ attempt[s].reply # None
  /\ Becomes(s, [attempt[s] EXCEPT !.pc = "auth", !.reply = None])
  /\ UNCHANGED <<known, calls, screen, locked>>

\* A slip the run catches: the goroutine does not look at the context while it
\* waits for an answer.
PromptRefusedOnly(s) ==
  /\ Pcs(s) \in Prompt
  /\ attempt[s].reply = "no"
  /\ Fails(s)
  /\ UNCHANGED <<known, calls, screen, locked>>

\* A refusal aborts the handshake (a key whose passphrase is refused is only
\* skipped: OtherTaken), and so does a stop.
PromptRefused(s) ==
  /\ Pcs(s) \in Prompt
  /\ attempt[s].reply = "no" \/ attempt[s].stop
  /\ Fails(s)
  /\ UNCHANGED <<known, calls, screen, locked>>

\* A stopped attempt skips the key it asked about, and goes on to the next.
PassphraseSkipped(s) ==
  /\ Pcs(s) = "other"
  /\ attempt[s].stop
  /\ Becomes(s, [attempt[s] EXCEPT !.pc = "auth", !.reply = None])
  /\ UNCHANGED <<known, calls, screen, locked>>

PasswordChecked(s) ==
  /\ Pcs(s) = "check"
  /\ Becomes(s, IF attempt[s].reply = "right"
                THEN Shell(attempt[s])
                ELSE [attempt[s] EXCEPT !.pc = "auth", !.reply = None])
  /\ UNCHANGED <<known, calls, screen, locked>>

\* The deadline of the context passes.
Timeout(s) ==
  /\ Pcs(s) \in Connecting
  /\ ~attempt[s].stop
  /\ Becomes(s, [attempt[s] EXCEPT !.stop = TRUE])
  /\ UNCHANGED <<known, calls, screen, locked>>

-----------------------------------------------------------------------------
(* From the handshake to the end of the session. *)

\* NewSession, RequestPty and Shell: no context bounds them, and a cancel
\* finds the watcher of the connection gone.
ShellUp(s) ==
  /\ Pcs(s) = "shell"
  /\ Becomes(s, [attempt[s] EXCEPT !.pc = "up", !.promise = "ok"])
  /\ UNCHANGED <<known, calls, screen, locked>>

ShellFails(s) ==
  /\ Pcs(s) = "shell"
  /\ Fails(s)
  /\ UNCHANGED <<known, calls, screen, locked>>

\* The remote shell exits, or a keepalive fails.
RemoteEnds(s) ==
  /\ Pcs(s) = "up"
  /\ Moves(s, "closing")
  /\ UNCHANGED <<known, calls, screen, locked>>

\* The watcher of an attempt stopped before its handshake was done closes the
\* connection, be it a moment late.
WatcherCloses(s) ==
  /\ Pcs(s) = "up"
  /\ attempt[s].stop
  /\ Moves(s, "closing")
  /\ UNCHANGED <<known, calls, screen, locked>>

\* end: unregister, and tell JavaScript.
End(s) ==
  /\ Pcs(s) = "closing"
  /\ Becomes(s, Over([attempt[s] EXCEPT !.events = Append(@, "closed")]))
  /\ UNCHANGED <<known, calls, screen, locked>>

-----------------------------------------------------------------------------
(* The native module: one call after the other. *)

\* CancelConnect reaches an attempt whose watcher still looks; Close and
\* CloseAll reach the sessions that are registered.
Cancelled(a) == [a EXCEPT !.stop = @ \/ a.pc \in Connecting]
Closed(a) == [a EXCEPT !.pc = IF @ = "up" THEN "closing" ELSE @]

NativeCall ==
  /\ calls # <<>>
  /\ LET c == Head(calls) IN
     attempt' = [s \in Session |->
       CASE c.op = "cancel" /\ s = c.id -> Cancelled(attempt[s])
         [] c.op = "close" /\ s = c.id  -> Closed(attempt[s])
         [] c.op = "closeAll"            -> Closed(attempt[s])
         [] OTHER                        -> attempt[s]]
  /\ calls' = Tail(calls)
  /\ UNCHANGED <<known, screen, locked>>

-----------------------------------------------------------------------------
(* What reaches the screen, and what the user answers. *)

\* endWith, unless the screen shows the end already.
EndWith ==
  IF phase # "ended"
  THEN phase' = "ended" /\ modal' = "none" /\ remember' = None
  ELSE UNCHANGED <<phase, modal, remember>>

\* A slip the run catches: the end of a session is heard only once connected.
ClosedHeardConnected(s) ==
  /\ attempt[s].events # <<>>
  /\ Head(attempt[s].events) = "closed"
  /\ Becomes(s, [attempt[s] EXCEPT !.events = Tail(@)])
  /\ IF phase = "connected" THEN EndWith ELSE UNCHANGED <<phase, modal, remember>>
  /\ UNCHANGED <<known, calls, cur, locked>>

ClosedHeard(s) ==
  /\ attempt[s].events # <<>>
  /\ Head(attempt[s].events) = "closed"
  /\ Becomes(s, [attempt[s] EXCEPT !.events = Tail(@)])
  /\ EndWith
  /\ UNCHANGED <<known, calls, cur, locked>>

PromptHeard(s) ==
  /\ attempt[s].events # <<>>
  /\ Head(attempt[s].events) \in Prompt
  /\ Becomes(s, [attempt[s] EXCEPT !.events = Tail(@)])
  /\ modal' = Head(attempt[s].events)
  /\ UNCHANGED <<known, calls, cur, phase, remember, locked>>

\* A slip the run catches: a session that has ended already is shown.
ConnectedAnyway(s) ==
  /\ attempt[s].promise = "ok"
  /\ Becomes(s, [attempt[s] EXCEPT !.promise = "none"])
  /\ phase' = "connected"
  /\ UNCHANGED <<known, calls, cur, modal, remember, locked>>

\* connect resolves: the shell is shown, and the typed password is saved.
Connected(s) ==
  /\ attempt[s].promise = "ok"
  /\ Becomes(s, [attempt[s] EXCEPT !.promise = "none"])
  /\ IF phase # "ended"
     THEN phase' = "connected" /\ remember' = None
     ELSE UNCHANGED <<phase, remember>>
  /\ UNCHANGED <<known, calls, cur, modal, locked>>

Rejected(s) ==
  /\ attempt[s].promise = "err"
  /\ Becomes(s, [attempt[s] EXCEPT !.promise = "none"])
  /\ EndWith
  /\ UNCHANGED <<known, calls, cur, locked>>

\* An answer reaches the goroutine that waits for it; that of a prompt it no
\* longer waits for (a later one is on its way, or none) reaches nobody.
Waits(a) ==
  /\ a.pc \in Prompt
  /\ a.reply = None
  /\ \A i \in DOMAIN a.events : a.events[i] # a.pc

Answer(r) ==
  LET a == attempt[cur] IN
  IF a.pc = modal /\ Waits(a)
  THEN Becomes(cur, [a EXCEPT !.reply = r])
  ELSE UNCHANGED attempt

AnswerHostKey ==
  /\ modal = "hostkey"
  /\ \E r \in {"yes", "no"} : Answer(r)
  /\ modal' = "none"
  /\ UNCHANGED <<known, calls, cur, phase, remember, locked>>

\* The toggle to remember what is typed is there for a login password alone, and off
\* at every new prompt.
MayRemember(r) == {remember} \cup (IF modal = "password" THEN {r} ELSE {})

\* submitSecret: a password typed with the toggle on is kept to be saved.
SubmitSecret ==
  /\ modal \in {"password", "other"}
  /\ \E r \in Password :
       /\ Answer(r)
       /\ remember' \in MayRemember(r)
  /\ modal' = "none"
  /\ UNCHANGED <<known, calls, cur, phase, locked>>

CancelSecret ==
  /\ modal \in {"password", "other"}
  /\ Answer("no")
  /\ modal' = "none"
  /\ UNCHANGED <<known, calls, cur, phase, remember, locked>>

-----------------------------------------------------------------------------

\* What the goroutines of an attempt do next on their own, or once the server
\* or the network has answered.
Engine(s) ==
  \/ ConnectBegins(s) \/ Dialled(s) \/ HandshakeFails(s)
  \/ HostKeyKnown(s) \/ HostKeyChanged(s) \/ AskHostKey(s)
  \/ HostKeyAccepted(s) \/ HostKeyUnwritten(s)
  \/ ServerAccepts(s) \/ ReplayStored(s) \/ AskPassword(s) \/ AskOther(s)
  \/ PasswordTaken(s) \/ OtherTaken(s) \/ PromptRefused(s) \/ PassphraseSkipped(s)
  \/ PasswordChecked(s)
  \/ ShellUp(s) \/ ShellFails(s)
  \/ WatcherCloses(s) \/ End(s)

\* What reaches JavaScript.
Heard(s) ==
  \/ Resolved(s)
  \/ ClosedHeard(s) \/ PromptHeard(s)
  \/ Connected(s) \/ Rejected(s)

User ==
  \/ \E s \in Session : Open(s) \/ Reconnect(s)
  \/ Leave \/ Lock \/ Unlock
  \/ AnswerHostKey \/ SubmitSecret \/ CancelSecret

Next ==
  \/ \E s \in Session : Engine(s) \/ Timeout(s) \/ RemoteEnds(s) \/ Heard(s)
  \/ NativeCall
  \/ User

Spec == Init /\ [][Next]_vars

(***************************************************************************)
(* Fairness.  Goroutines, the module queue and the bridge run; the         *)
(* deadline of an attempt passes; once it has, the connection is closed,   *)
(* so that a handshake that keeps coming back to the network fails.  That  *)
(* a server answers the request for a shell is an assumption on the        *)
(* server: the engine has no deadline there.  Nothing is asked of the      *)
(* user.                                                                   *)
(***************************************************************************)
Fairness ==
  /\ WF_vars(NativeCall)
  /\ \A s \in Session :
       /\ WF_vars(Engine(s))
       /\ WF_vars(Heard(s))
       /\ WF_vars(Timeout(s))
       /\ SF_vars(attempt[s].stop /\ HandshakeFails(s))

FairSpec == Spec /\ Fairness

-----------------------------------------------------------------------------
(* Properties. *)

\* engine.go, hostkey.go: no secret and no shell before the key of the server
\* is one the user has trusted, and it stays in known_hosts.
OnlyTrusted ==
  \A s \in Session :
    Pcs(s) \in {"auth", "password", "other", "check", "shell", "up", "closing"}
      => attempt[s].key \in known

\* useTerminalLogic.ts: a screen that says connected has an open session, or
\* the news of its end are on their way, whichever of the promise of connect
\* and the event of the end came first.
ScreenHasShell ==
  phase = "connected" =>
    \/ Pcs(cur) \in {"up", "closing"}
    \/ \E i \in DOMAIN attempt[cur].events : attempt[cur].events[i] = "closed"

\* A prompt on the screen of a connecting terminal is one its attempt waits
\* for, or the attempt has been stopped or has failed: no answer of the user
\* goes astray while the attempt is sound.
PromptIsAwaited ==
  phase = "connecting" /\ modal # "none" =>
    \/ attempt[cur].pc = modal /\ Waits(attempt[cur])
    \/ attempt[cur].stop
    \/ Pcs(cur) = "over"

\* What the screen shows has its counterpart in the engine.
ScreenIsBacked == ScreenHasShell /\ PromptIsAwaited

\* A connecting terminal comes to an end of it: connected, ended or left, even
\* when nobody answers its prompts.
ConnectSettles ==
  \A s \in Session : (cur = s /\ phase = "connecting") ~> ~(cur = s /\ phase = "connecting")

\* The end of a session reaches the screen that shows it.
EndIsShown ==
  \A s \in Session : (cur = s /\ Pcs(s) = "over") ~> (cur # s \/ phase = "ended")

\* unlock.ts on lockVault: a locked vault must not keep a shell open.  The
\* screen is gone and its calls have been made: no session is left open.
LockEndsShells ==
  locked /\ phase = "off" /\ calls = <<>> => \A s \in Session : Pcs(s) # "up"

\* useTerminalLogic.ts: the password saved at the end of a connect is the one
\* the server took.
SavedWorks ==
  [][\A s \in Session : Connected(s) /\ phase' = "connected" => remember # "wrong"]_vars
=============================================================================
