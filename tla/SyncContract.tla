---------------------------- MODULE SyncContract ----------------------------
(***************************************************************************)
(* What the personal-vault sync promises, from the table that heads        *)
(* src/sync/personal.ts: three documents, the local one, the one last      *)
(* agreed on and the remote one, and when each may take another's place.   *)
(*   only the local one changed    the local one is uploaded               *)
(*   only the remote one changed   the remote one is adopted               *)
(*   both changed                  the side without hosts yields, else the *)
(*                                 user is asked and decides               *)
(***************************************************************************)
EXTENDS Naturals, Sequences

CONSTANTS Host, None

VARIABLES
  remote,      \* the documents of the vault row, by version
  local,       \* the document of this phone
  base,        \* what was last agreed: a version, and its document if known
  asked,       \* the user has a conflict to decide
  travelling   \* uploads under way to the server

vars == <<remote, local, base, asked, travelling>>

Doc == SUBSET Host
Changed == local # base.fp

Init ==
  /\ \E d \in Doc : remote = <<d>> /\ local = d
  /\ base = [ver |-> 1, fp |-> None]
  /\ asked = FALSE
  /\ travelling = {}

\* The user adds or deletes a host, or another device writes.
UserEdits ==
  /\ \E h \in Host : local' \in {local \cup {h}, local \ {h}}
  /\ UNCHANGED <<remote, base, asked, travelling>>

OtherWrites ==
  /\ \E d \in Doc : remote' = Append(remote, d)
  /\ UNCHANGED <<local, base, asked, travelling>>

\* The local document leaves for the server, to replace version v.
SendOver(v) == travelling' = travelling \cup {[ver |-> v, doc |-> local]}

UploadChange ==
  /\ Changed
  /\ SendOver(base.ver)
  /\ UNCHANGED <<remote, local, base, asked>>

UploadOverEmpty ==
  /\ Changed
  /\ \E v \in DOMAIN remote : remote[v] = {} /\ SendOver(v)
  /\ UNCHANGED <<remote, local, base, asked>>

UploadAsTold ==
  /\ asked
  /\ \E v \in DOMAIN remote : SendOver(v)
  /\ asked' \in BOOLEAN
  /\ UNCHANGED <<remote, local, base>>

\* An upload replaces the version it was meant for, or nothing; or is lost.
Arrive ==
  \E u \in travelling :
    /\ travelling' = travelling \ {u}
    /\ remote' = IF u.ver = Len(remote) THEN Append(remote, u.doc) ELSE remote
    /\ UNCHANGED <<local, base, asked>>

Lose ==
  /\ \E u \in travelling : travelling' = travelling \ {u}
  /\ asked' \in {asked, FALSE}
  /\ UNCHANGED <<remote, local, base>>

\* Both sides hold the same document: agree on it.
Agree ==
  /\ \E v \in DOMAIN remote :
       remote[v] = local /\ base' = [ver |-> v, fp |-> local]
  /\ asked' \in {asked, FALSE}
  /\ UNCHANGED <<remote, local, travelling>>

\* A remote document takes the local one's place, and is agreed on: at once,
\* or later when the phone stops in between.
TakeOver ==
  \E v \in DOMAIN remote :
    /\ local' = remote[v]
    /\ base' \in {base, [ver |-> v, fp |-> remote[v]]}

Adopt ==
  /\ ~Changed \/ local = {}
  /\ TakeOver
  /\ asked' \in {asked, FALSE}
  /\ UNCHANGED <<remote, travelling>>

AdoptAsTold ==
  /\ asked
  /\ TakeOver
  /\ asked' = FALSE
  /\ UNCHANGED <<remote, travelling>>

\* A conflict is put to the user, or the question is withdrawn.
Ask ==
  /\ Changed
  /\ local # {}
  /\ \E v \in DOMAIN remote : remote[v] \notin {local, {}}
  /\ asked' = TRUE
  /\ UNCHANGED <<remote, local, base, travelling>>

Withdraw ==
  /\ asked' = FALSE
  /\ UNCHANGED <<remote, local, base, travelling>>

Next ==
  \/ UserEdits \/ OtherWrites
  \/ UploadChange \/ UploadOverEmpty \/ UploadAsTold
  \/ Arrive \/ Lose
  \/ Agree \/ Adopt \/ AdoptAsTold
  \/ Ask \/ Withdraw

Spec == Init /\ [][Next]_vars
=============================================================================
