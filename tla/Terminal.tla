------------------------------ MODULE Terminal ------------------------------
(***************************************************************************)
(* The terminal page beside its session: what a shell writes travels by    *)
(* the ring, the callback and the bridge to the page in the WebView, which *)
(* loads at its own pace, and the size of the page travels the other way,  *)
(* with connect or by a resize.  SshSession is the session; a step of it   *)
(* takes the page along (Follows).  Keys are left out: each is one call.   *)
(***************************************************************************)
EXTENDS SshSession, SequencesExt

CONSTANTS
  Size,      \* sizes of the page, in columns and rows
  Default,   \* 80 x 24, until the page reports one
  Chunks,    \* bound: what a shell writes, in chunks
  Resizes,   \* bound: resize calls in the queue of the module
  Early      \* the page may report a size while its session is being set up

ASSUME DefaultIsSize  == Default \in Size
ASSUME BoundsAreNat   == Chunks \in Nat /\ Resizes \in Nat
ASSUME EarlyIsBoolean == Early \in BOOLEAN

VARIABLES
  written,   \* chunks each shell has written
  wire,      \* data events on the bridge
  ready,     \* readyRef: the page has said it takes output
  buffer,    \* writeBufferRef: output held back until then
  page,      \* what the page shows
  size,      \* sizeRef: the size last reported
  asked,     \* the size each connect was called with
  pty,       \* the size each shell believes in
  resizes    \* native module queue: the resize calls

view  == <<ready, buffer, page, size>>
shell == <<written, asked, pty>>
tvars == <<vars, view, shell, wire, resizes>>

Chunk == [id : Session, n : 1..Chunks]

TerminalTypeOK ==
  /\ written \in [Session -> 0..Chunks]
  /\ wire \in Seq(Chunk) /\ buffer \in Seq(Chunk) /\ page \in Seq(Chunk)
  /\ ready \in BOOLEAN /\ size \in Size
  /\ asked \in [Session -> Size] /\ pty \in [Session -> Size]
  /\ resizes \in Seq([id : Session, to : Size])

Fresh(r, b, p, z) == r = FALSE /\ b = <<>> /\ p = <<>> /\ z = Default

TerminalInit ==
  /\ Init
  /\ Fresh(ready, buffer, page, size)
  /\ written = [s \in Session |-> 0]
  /\ asked = [s \in Session |-> Default] /\ pty = [s \in Session |-> Default]
  /\ wire = <<>> /\ resizes = <<>>

-----------------------------------------------------------------------------
\* A slip the run catches: connect is called with the size of before the page.
ConnectSizeDefault == [s \in Session |-> Default]

\* connect is called with the size last reported.
ConnectSize ==
  [s \in Session |->
    IF Pcs(s) = "resolve" /\ attempt'[s].pc = "queued" THEN size ELSE asked[s]]

\* The pseudo-terminal is requested with the size of the call.
PtySize ==
  [s \in Session |->
    IF Pcs(s) = "shell" /\ attempt'[s].pc = "up" THEN asked[s] ELSE pty[s]]

\* What a step of the session means for the page: with the screen it is gone.
Follows ==
  /\ asked' = ConnectSize
  /\ pty' = PtySize
  /\ IF phase' = "off" THEN Fresh(ready', buffer', page', size') ELSE UNCHANGED view
  /\ UNCHANGED <<written, wire, resizes>>

\* The pump reads output of the shell and hands it to the tee, which keeps it
\* in the ring and raises onData.
ShellWrites(s) ==
  /\ Pcs(s) \in {"up", "closing"}
  /\ written[s] < Chunks
  /\ written' = [written EXCEPT ![s] = @ + 1]
  /\ wire' = Append(wire, [id |-> s, n |-> written'[s]])
  /\ UNCHANGED <<vars, view, asked, pty, resizes>>

\* The page is handed output, in one call per message.
Push(cs) == page' = page \o cs

\* pushToTerm: to the page once it is ready, into the buffer until then.
PushToTerm(c) ==
  IF ready THEN Push(<<c>>) /\ UNCHANGED buffer
           ELSE buffer' = Append(buffer, c) /\ UNCHANGED page

\* isCurrent: output of a session the screen has left is dropped.
DataHeard ==
  /\ wire # <<>>
  /\ wire' = Tail(wire)
  /\ IF Head(wire).id = cur THEN PushToTerm(Head(wire)) ELSE UNCHANGED <<buffer, page>>
  /\ UNCHANGED <<vars, shell, ready, size, resizes>>

\* The page has loaded: what was held back goes to it, first come first.
PageReady ==
  /\ phase # "off" /\ ~ready
  /\ ready' = TRUE
  /\ Push(buffer)
  /\ buffer' = <<>>
  /\ UNCHANGED <<vars, shell, size, wire, resizes>>

\* A slip the run catches: a size is passed on whether there is a session or not.
PageSizedUnasked(z) ==
  /\ z # size
  /\ cur = None \/ Early \/ Pcs(cur) \in {"resolve", "up", "closing", "over"}
  /\ Len(resizes) < Resizes
  /\ size' = z
  /\ resizes' = Append(resizes, [id |-> cur, to |-> z])
  /\ UNCHANGED <<vars, shell, ready, buffer, page, wire>>

\* The page fits itself to the screen, and the session of the moment is told.
PageSized(z) ==
  /\ phase # "off" /\ z # size
  /\ Early \/ Pcs(cur) \in {"resolve", "up", "closing", "over"}
  /\ Len(resizes) < Resizes
  /\ size' = z
  /\ resizes' = Append(resizes, [id |-> cur, to |-> z])
  /\ UNCHANGED <<vars, shell, ready, buffer, page, wire>>

\* Only a registered session can be resized: for another the call fails, and
\* nobody looks at it.
NativeResize ==
  /\ resizes # <<>>
  /\ resizes' = Tail(resizes)
  /\ LET r == Head(resizes) IN
     pty' = IF Pcs(r.id) \in {"up", "closing"} THEN [pty EXCEPT ![r.id] = r.to] ELSE pty
  /\ UNCHANGED <<vars, view, written, asked, wire>>

Stream ==
  \/ \E s \in Session : ShellWrites(s)
  \/ DataHeard \/ PageReady
  \/ \E z \in Size : PageSized(z)
  \/ NativeResize

TerminalNext == (Next /\ Follows) \/ Stream

\* The page, the bridge and the module queue run; see Fairness of SshSession.
TerminalSpec ==
  /\ TerminalInit /\ [][TerminalNext]_tvars
  /\ Fairness
  /\ WF_tvars(DataHeard) /\ WF_tvars(PageReady) /\ WF_tvars(NativeResize)

-----------------------------------------------------------------------------
(* Properties. *)

\* useTerminalLogic.ts, session.go: between the shell and the page nothing is
\* lost, doubled or put out of order, be the page ready late.
OutputInOrder ==
  cur # None =>
    LET out  == page \o buffer \o wire
        mine == {i \in DOMAIN out : out[i].id = cur}
    IN  /\ {out[i].n : i \in mine} = 1..written[cur]
        /\ \A i, j \in mine : i < j => out[i].n < out[j].n

\* The shell of a connected terminal has the size of the page, once the calls
\* have been made.  With Early it fails: a size reported between connect and
\* the registration of its session reaches neither.
SizeAgrees ==
  phase = "connected" /\ Pcs(cur) = "up" /\ resizes = <<>> => pty[cur] = size

\* Page and shell agree in what was written and in how much fits.
PageAgrees == OutputInOrder /\ SizeAgrees

\* What a shell has written is shown, unless the terminal is left or started anew.
OutputShown ==
  \A s \in Session : \A n \in 1..Chunks :
    (cur = s /\ written[s] = n) ~> (cur # s \/ Contains(page, [id |-> s, n |-> n]))

\* A connecting terminal settles, an end is shown, and output arrives.
TerminalMoves == ConnectSettles /\ EndIsShown /\ OutputShown
=============================================================================
