------------------------ MODULE DeviceSession_proofs ------------------------
(***************************************************************************)
(* Proofs about DeviceSession, for every set of accounts.  Types and the   *)
(* secrets that go together hold whatever overlaps.  What a sign-out       *)
(* leaves (EndsWhole) needs that only kills meet the calls under way; whose *)
(* everything is (Owned) that nothing outlives its session at all.  Each   *)
(* of the three is inductive on top of the one before it.  At the end,     *)
(* proofs about HostsTab, whose names are its own.                         *)
(***************************************************************************)
EXTENDS DeviceSession, HostsTab, TLAPS

\* The flags among the variables.
Flags == flag \in BOOLEAN /\ password \in BOOLEAN /\ enrolled \in BOOLEAN /\ noVault \in BOOLEAN

\* Proved apart: a flag assigned a truth value is a flag.
LEMMA FlagsStep == Flags /\ [Next]_vars => Flags'
<1> SUFFICES ASSUME Flags, [Next]_vars PROVE Flags'
  OBVIOUS
<1> USE DEF Flags, disk, secret, redux, calls, ui, TearDown, ForgetSecrets,
        ForgetPassword, ForgetDek,
            ForgetVault, TokenLost, LoseAccess, LockVault
<1>1. CASE Launch
  BY <1>1, Zenon DEF Launch
<1>2. CASE BootAnonymous
  BY <1>2, Zenon DEF BootAnonymous
<1>3. CASE BootExchange
  BY <1>3, Zenon DEF BootExchange
<1>4. CASE BootRefusedOtherwise
  BY <1>4, Zenon DEF BootRefusedOtherwise
<1>5. CASE BootRotated
  BY <1>5, Zenon DEF BootRotated
<1>6. CASE BootOffline
  BY <1>6, Zenon DEF BootOffline
<1>7. ASSUME NEW by \in Way, BeginEntry(by) PROVE Flags'
  BY <1>7, Zenon DEF BeginEntry
<1>8. CASE BrowserReturns
  BY <1>8, Zenon DEF BrowserReturns
<1>9. CASE EntryRefused
  BY <1>9, Zenon DEF EntryRefused
<1>10. ASSUME NEW a \in Account, SignIn(a) PROVE Flags'
  BY <1>10, Zenon DEF SignIn
<1>11. CASE Resolve
  BY <1>11, Zenon DEF Resolve
<1>12. CASE Reconcile
  BY <1>12, Zenon DEF Reconcile
<1>13. CASE ReconcileDek
  BY <1>13, Zenon DEF ReconcileDek
<1>14. CASE Publish
  BY <1>14, Zenon DEF Publish
<1>15. CASE RequestSignOut
  BY <1>15, Zenon DEF RequestSignOut
<1>16. CASE SignOut
  BY <1>16, Zenon DEF SignOut
<1>17. CASE SignOutDone
  BY <1>17, Zenon DEF SignOutDone
<1>18. CASE RefreshStart
  BY <1>18, Zenon DEF RefreshStart
<1>19. CASE RefreshNoToken
  BY <1>19, Zenon DEF RefreshNoToken
<1>20. CASE RefreshExchange
  BY <1>20, Zenon DEF RefreshExchange
<1>21. CASE RefreshOk
  BY <1>21, Zenon DEF RefreshOk
<1>22. CASE RefreshFailed
  BY <1>22, Zenon DEF RefreshFailed
<1>23. CASE Revoke
  BY <1>23, Zenon DEF Revoke
<1>24. ASSUME NEW bio \in BOOLEAN, UnlockStart(bio) PROVE Flags'
  BY <1>24, Zenon DEF UnlockStart
<1>25. CASE Pull
  BY <1>25, Zenon DEF Pull
<1>26. CASE PullNothing
  <2>1. ("unlock" \in Admitted) \in BOOLEAN
    OBVIOUS
  <2> QED
    BY <1>26, <2>1, Zenon DEF PullNothing
<1>27. CASE UnlockFails
  BY <1>27, Zenon DEF UnlockFails
<1>28. CASE Open
  BY <1>28, Zenon DEF Open
<1>29. CASE StaleDek
  BY <1>29, Zenon DEF StaleDek
<1>30. CASE Baseline
  BY <1>30, Zenon DEF Baseline
<1>31. CASE BaselineWrite
  BY <1>31, Zenon DEF BaselineWrite
<1>32. CASE Lock
  BY <1>32, Zenon DEF Lock
<1>33. CASE Background
  BY <1>33, Zenon DEF Background
<1>34. CASE Foreground
  BY <1>34, Zenon DEF Foreground
<1>35. CASE EnrollStart
  BY <1>35, Zenon DEF EnrollStart
<1>36. CASE AcceptOffer
  BY <1>36, Zenon DEF AcceptOffer
<1>37. CASE DismissAlert
  BY <1>37, Zenon DEF DismissAlert
<1>38. CASE EnrollStore
  BY <1>38, Zenon DEF EnrollStore
<1>39. CASE EnrollFlag
  BY <1>39, Zenon DEF EnrollFlag
<1>40. CASE Disenroll
  BY <1>40, Zenon DEF Disenroll
<1>41. CASE ProjectsLoaded
  BY <1>41, Zenon DEF ProjectsLoaded
<1>42. CASE Kill
  BY <1>42, Zenon DEF Kill
<1>43. CASE UNCHANGED vars
  BY <1>43, Zenon DEF vars
<1> QED
  BY <1>1, <1>2, <1>3, <1>4, <1>5, <1>6, <1>7, <1>8, <1>9, <1>10, <1>11, <1>12, <1>13, <1>14,
     <1>15, <1>16, <1>17, <1>18, <1>19, <1>20, <1>21, <1>22, <1>23, <1>24, <1>25, <1>26, <1>27,
     <1>28, <1>29, <1>30, <1>31, <1>32, <1>33, <1>34, <1>35, <1>36, <1>37, <1>38, <1>39, <1>40,
     <1>41, <1>42, <1>43
    DEF Next, Booting, Entering, Establishing, SigningOut, Refreshing, Unlocking, Device

-----------------------------------------------------------------------------
(* Types. *)

\* A token that is spent or revoked is still one, and the same account's.
LEMMA SpentIsToken ==
  ASSUME NEW t \in Token, t # NoToken
  PROVE  /\ [t EXCEPT !.live = FALSE] \in Token /\ [t EXCEPT !.live = FALSE] # NoToken
         /\ [t EXCEPT !.live = FALSE].acct = t.acct /\ t.acct \in Account
<1>1. t \in [acct : Account, live : BOOLEAN]
  BY DEF Token
<1>2. ASSUME NEW B, NEW u \in [acct : Account, live : B], NEW b \in B
      PROVE  [u EXCEPT !.live = b] \in [acct : Account, live : B]
             /\ [u EXCEPT !.live = b].acct = u.acct
  BY SMT
<1>3. [t EXCEPT !.live = FALSE] \in [acct : Account, live : BOOLEAN]
      /\ [t EXCEPT !.live = FALSE].acct = t.acct
  BY <1>1, <1>2
<1>4. t.acct \in Account /\ NoToken.acct \notin Account
  BY <1>1, NoneIsNoAccount DEF NoToken
<1> QED
  BY <1>3, <1>4 DEF Token

\* The server never turns the stored token into another account's.
LEMMA ExchangeKeeps ==
  ASSUME refresh \in Token, refresh # NoToken, NEW answer, Exchange(answer)
  PROVE  refresh' \in Token /\ refresh' # NoToken /\ refresh'.acct = refresh.acct
         /\ refresh.acct \in Account
  BY SpentIsToken DEF Exchange

\* An unlock under way, with any set of values for its flag.
Unlocks(B) == [pc : {"idle", "pull", "derive", "baseline", "patch"}, bio : B, typed : Maybe,
               blob : Maybe]

\* The two steps of an unlock that change two of its fields.
LEMMA UnlockSet ==
  ASSUME NEW B, NEW u \in Unlocks(B), NEW a \in Account
  PROVE  /\ [u EXCEPT !.pc = "derive", !.blob = a] \in Unlocks(B)
         /\ [u EXCEPT !.pc = "derive", !.blob = a].pc = "derive"
         /\ [u EXCEPT !.pc = "derive", !.blob = a].blob = a
         /\ [u EXCEPT !.pc = "patch", !.typed = a] \in Unlocks(B)
         /\ [u EXCEPT !.pc = "patch", !.typed = a].pc = "patch"
         /\ [u EXCEPT !.pc = "patch", !.typed = a].typed = a
<1> a \in Maybe
  BY DEF Maybe
<1>1. ASSUME NEW p \in {"derive", "patch"}
      PROVE [u EXCEPT !.pc = p] \in Unlocks(B) /\ [u EXCEPT !.pc = p].pc = p
  BY SMT DEF Unlocks
<1>2. PICK d \in Unlocks(B) : d = [u EXCEPT !.pc = "derive"] /\ d.pc = "derive"
  BY <1>1
<1>3. PICK p \in Unlocks(B) : p = [u EXCEPT !.pc = "patch"] /\ p.pc = "patch"
  BY <1>1
<1>4. [d EXCEPT !.blob = a] \in Unlocks(B) /\ [d EXCEPT !.blob = a].pc = d.pc
      /\ [d EXCEPT !.blob = a].blob = a
  BY SMT DEF Unlocks
<1>5. [p EXCEPT !.typed = a] \in Unlocks(B) /\ [p EXCEPT !.typed = a].pc = p.pc
      /\ [p EXCEPT !.typed = a].typed = a
  BY SMT DEF Unlocks
<1> QED
  BY <1>2, <1>3, <1>4, <1>5

\* A launch whose token was exchanged.
LEMMA LoginSet ==
  ASSUME NEW l \in [pc : LoginPc, acct : Maybe, by : Way \cup {"launch", "none"}],
         NEW p \in {"rotated", "rejected", "unreached"}, NEW a \in Account
  PROVE  /\ [l EXCEPT !.pc = p, !.acct = a] \in [pc : LoginPc, acct : Maybe,
            by : Way \cup {"launch", "none"}]
         /\ [l EXCEPT !.pc = p, !.acct = a].pc = p /\ [l EXCEPT !.pc = p, !.acct = a].acct = a
         /\ [l EXCEPT !.pc = p, !.acct = a].by = l.by
<1> DEFINE L == [pc : LoginPc, acct : Maybe, by : Way \cup {"launch", "none"}]
<1>1. p \in LoginPc /\ a \in Maybe
  BY DEF LoginPc, Maybe
<1>2. ASSUME NEW P, NEW A, NEW W, NEW k \in [pc : P, acct : A, by : W], NEW q \in P, NEW c \in A
      PROVE  /\ [k EXCEPT !.pc = q] \in [pc : P, acct : A, by : W]
                /\ [k EXCEPT !.acct = c] \in [pc : P, acct : A, by : W]
             /\ [k EXCEPT !.pc = q].pc = q /\ [k EXCEPT !.pc = q].by = k.by
             /\ [k EXCEPT !.acct = c].pc = k.pc /\ [k EXCEPT !.acct = c].by = k.by
             /\ [k EXCEPT !.acct = c].acct = c
  BY SMT
<1>3. PICK m : m = [l EXCEPT !.pc = p]
  OBVIOUS
<1>4. m \in L /\ m.pc = p /\ m.by = l.by
  BY <1>1, <1>2, <1>3
<1>5. [m EXCEPT !.acct = a] \in L /\ [m EXCEPT !.acct = a].pc = p
      /\ [m EXCEPT !.acct = a].acct = a /\ [m EXCEPT !.acct = a].by = l.by
  BY <1>1, <1>2, <1>4
<1> QED
  BY <1>3, <1>5

\* Every step keeps every variable's type.
LEMMA TypeStep == TypeOK /\ [Next]_vars => TypeOK'
<1> SUFFICES ASSUME TypeOK, [Next]_vars PROVE TypeOK'
  OBVIOUS
<1>f. Flags'
  BY FlagsStep DEF TypeOK, Flags
<1> USE <1>f, NoneIsNoAccount DEF Flags, TypeOK, Maybe, LoginPc, disk, secret, redux,
        calls, ui, TearDown, ForgetSecrets, ForgetPassword, ForgetDek,
            ForgetVault, TokenLost, LoseAccess, LockVault, Idle, NoEntry, NoUnlock, NoEnrol,
            NoRefresh, Unknown, Anonymous, SignedIn, Token, NoToken, Live, EnrollSession,
            OfferEnrollment, NewUnlock, Way
<1>1. CASE Launch
  BY <1>1, SMT DEF Launch
<1>2. CASE BootAnonymous
  BY <1>2, SMT DEF BootAnonymous
<1>3. CASE BootExchange
  <2>1. PICK answer \in {"ok", "rejected", "lost"} :
          /\ Exchange(answer)
          /\ login' = [login EXCEPT !.pc = CASE answer = "ok" -> "rotated"
                                             [] answer = "rejected" -> "rejected"
                                             [] OTHER -> "unreached",
                                    !.acct = refresh.acct]
    BY <1>3 DEF BootExchange
  <2>2. refresh' \in Token /\ refresh.acct \in Account
    BY <1>3, <2>1, ExchangeKeeps DEF BootExchange, TypeOK
  <2>3. PICK p \in {"rotated", "rejected", "unreached"} : login' = [login EXCEPT !.pc = p,
        !.acct = refresh.acct]
    BY <2>1
  <2>4. /\ login' \in [pc : LoginPc, acct : Maybe, by : Way \cup {"launch", "none"}]
        /\ login'.pc \in {"rotated", "rejected", "unreached"} /\ login'.acct = refresh.acct
    BY <2>2, <2>3, LoginSet DEF TypeOK
  <2> QED
    BY <1>3, <2>2, <2>4, SMT DEF BootExchange
<1>4. CASE BootRefusedOtherwise
  BY <1>4, SMT DEF BootRefusedOtherwise
<1>5. CASE BootRotated
  BY <1>5, SMT DEF BootRotated
<1>6. CASE BootOffline
  BY <1>6, SMT DEF BootOffline
<1>7. ASSUME NEW by \in Way, BeginEntry(by) PROVE TypeOK'
  BY <1>7, SMT DEF BeginEntry
<1>8. CASE BrowserReturns
  BY <1>8, SMT DEF BrowserReturns
<1>9. CASE EntryRefused
  BY <1>9, SMT DEF EntryRefused
<1>10. ASSUME NEW a \in Account, SignIn(a) PROVE TypeOK'
  BY <1>10, SMT DEF SignIn
<1>11. CASE Resolve
  BY <1>11, SMT DEF Resolve
<1>12. CASE Reconcile
  BY <1>12, SMT DEF Reconcile
<1>13. CASE ReconcileDek
  BY <1>13, SMT DEF ReconcileDek
<1>14. CASE Publish
  BY <1>14, SMT DEF Publish
<1>15. CASE RequestSignOut
  BY <1>15, SMT DEF RequestSignOut
<1>16. CASE SignOut
  BY <1>16, SMT DEF SignOut
<1>17. CASE SignOutDone
  BY <1>17, SMT DEF SignOutDone
<1>18. CASE RefreshStart
  BY <1>18, SMT DEF RefreshStart
<1>19. CASE RefreshNoToken
  BY <1>19, SMT DEF RefreshNoToken
<1>20. CASE RefreshExchange
  <2>1. PICK answer \in {"ok", "rejected", "lost"} :
          /\ Exchange(answer)
          /\ refreshing' = [pc |-> answer, acct |-> refresh.acct]
    BY <1>20 DEF RefreshExchange
  <2>2. refresh' \in Token /\ refresh.acct \in Account
    BY <1>20, <2>1, ExchangeKeeps DEF RefreshExchange, TypeOK
  <2> QED
    BY <1>20, <2>1, <2>2, SMT DEF RefreshExchange
<1>21. CASE RefreshOk
  BY <1>21, SMT DEF RefreshOk
<1>22. CASE RefreshFailed
  BY <1>22, SMT DEF RefreshFailed
<1>23. CASE Revoke
  <2>1. refresh # NoToken
    BY <1>23, SMT DEF Revoke
  <2>2. refresh' \in Token
    BY <1>23, <2>1, SpentIsToken DEF Revoke, TypeOK
  <2> QED
    BY <1>23, <2>2, SMT DEF Revoke
<1>24. ASSUME NEW bio \in BOOLEAN, UnlockStart(bio) PROVE TypeOK'
  BY <1>24, SMT DEF UnlockStart
<1>25. CASE Pull
  <2>1. PICK a \in Account : blob' = a
        /\ unlocking' = [unlocking EXCEPT !.pc = "derive", !.blob = a]
    BY <1>25 DEF Pull
  <2>2. unlocking' \in Unlocks(BOOLEAN) /\ unlocking'.pc = "derive" /\ unlocking'.blob = a
    BY <2>1, UnlockSet, Zenon DEF Unlocks, TypeOK
  <2> QED
    BY <1>25, <2>1, <2>2, SMT DEF Pull, Unlocks
<1>26. CASE PullNothing
  BY <1>26, SMT DEF PullNothing
<1>27. CASE UnlockFails
  BY <1>27, SMT DEF UnlockFails
<1>28. CASE Open
  BY <1>28, SMT DEF Open
<1>29. CASE StaleDek
  BY <1>29, SMT DEF StaleDek
<1>30. CASE Baseline
  <2>1. CASE meta = None /\ auth.user # None
    <3>1. unlocking' = [unlocking EXCEPT !.pc = "patch", !.typed = auth.user] /\ UNCHANGED alert
      BY <1>30, <2>1 DEF Baseline
    <3>2. auth.user \in Account
      BY <2>1
    <3>3. unlocking' \in Unlocks(BOOLEAN) /\ unlocking'.pc = "patch" /\ unlocking'.typed = auth.user
      BY <3>1, <3>2, UnlockSet, Zenon DEF Unlocks, TypeOK
    <3> QED
      BY <1>30, <3>1, <3>2, <3>3, SMT DEF Baseline, Unlocks
  <2>2. CASE ~(meta = None /\ auth.user # None)
    <3>1. unlocking' = NoUnlock /\ alert' \in {alert, "offer"}
      BY <1>30, <2>2 DEF Baseline
    <3> QED
      BY <1>30, <3>1, SMT DEF Baseline
  <2> QED
    BY <2>1, <2>2
<1>31. CASE BaselineWrite
  BY <1>31, SMT DEF BaselineWrite
<1>32. CASE Lock
  BY <1>32, SMT DEF Lock
<1>33. CASE Background
  BY <1>33, SMT DEF Background
<1>34. CASE Foreground
  BY <1>34, SMT DEF Foreground
<1>35. CASE EnrollStart
  BY <1>35, SMT DEF EnrollStart
<1>36. CASE AcceptOffer
  BY <1>36, SMT DEF AcceptOffer
<1>37. CASE DismissAlert
  BY <1>37, SMT DEF DismissAlert
<1>38. CASE EnrollStore
  BY <1>38, SMT DEF EnrollStore
<1>39. CASE EnrollFlag
  BY <1>39, SMT DEF EnrollFlag
<1>40. CASE Disenroll
  BY <1>40, SMT DEF Disenroll
<1>41. CASE ProjectsLoaded
  BY <1>41, SMT DEF ProjectsLoaded
<1>42. CASE Kill
  BY <1>42, SMT DEF Kill
<1>43. CASE UNCHANGED vars
  BY <1>43, SMT DEF vars
<1> QED
  BY <1>1, <1>2, <1>3, <1>4, <1>5, <1>6, <1>7, <1>8, <1>9, <1>10, <1>11, <1>12, <1>13, <1>14,
     <1>15, <1>16, <1>17, <1>18, <1>19, <1>20, <1>21, <1>22, <1>23, <1>24, <1>25, <1>26, <1>27,
     <1>28, <1>29, <1>30, <1>31, <1>32, <1>33, <1>34, <1>35, <1>36, <1>37, <1>38, <1>39, <1>40,
     <1>41, <1>42, <1>43
    DEF Next, Booting, Entering, Establishing, SigningOut, Refreshing, Unlocking, Device

\* A phone on which the app has never run.
LEMMA TypeInit == Init => TypeOK
<1> SUFFICES ASSUME Init PROVE TypeOK
  OBVIOUS
<1>1. Flags /\ NoUnlock \in Unlocks(BOOLEAN)
  BY Zenon DEF Init, Flags, NoUnlock, Unlocks, Maybe
<1>2. refresh = NoToken /\ dek = None /\ blob = None /\ meta = None /\ access = None
      /\ session = None /\ projects = None
  BY DEF Init
<1>3. auth = Unknown /\ vault = "locked" /\ entry = NoEntry /\ login = Idle
      /\ unlocking = NoUnlock /\ refreshing = NoRefresh
  BY DEF Init
<1>4. enrolling = NoEnrol /\ out = "none" /\ alert = "none" /\ app = "dead"
  BY DEF Init
<1> QED
  BY <1>1, <1>2, <1>3, <1>4, SMT DEF TypeOK, Flags, Unlocks, NoUnlock, Token, Maybe, NoEntry,
     Idle, LoginPc, NoRefresh, NoEnrol

-----------------------------------------------------------------------------
(* What is decrypted goes together, whatever overlaps. *)

\* No step takes the decrypted vault apart from the lock state or the password.
LEMMA TogetherStep == TypeOK /\ SecretsTogether /\ [Next]_vars => SecretsTogether'
<1> SUFFICES ASSUME TypeOK, SecretsTogether, [Next]_vars PROVE SecretsTogether'
  OBVIOUS
<1>f. TypeOK'
  BY TypeStep
<1>t. Flags /\ Flags' /\ vault \in {"locked", "unlocked"}
      /\ (unlocking.pc = "derive" => unlocking.blob # None)
  BY <1>f, NoneIsNoAccount DEF TypeOK, Flags
<1> USE <1>t DEF SecretsTogether, Flags, disk, secret, redux, calls, ui, TearDown,
        ForgetSecrets, ForgetPassword, ForgetDek, ForgetVault,
            TokenLost, LoseAccess, LockVault
<1>1. CASE Launch
  BY <1>1, SMT DEF Launch
<1>2. CASE BootAnonymous
  BY <1>2, SMT DEF BootAnonymous
<1>3. CASE BootExchange
  BY <1>3, SMT DEF BootExchange
<1>4. CASE BootRefusedOtherwise
  BY <1>4, SMT DEF BootRefusedOtherwise
<1>5. CASE BootRotated
  BY <1>5, SMT DEF BootRotated
<1>6. CASE BootOffline
  BY <1>6, SMT DEF BootOffline
<1>7. ASSUME NEW by \in Way, BeginEntry(by) PROVE SecretsTogether'
  BY <1>7, SMT DEF BeginEntry
<1>8. CASE BrowserReturns
  BY <1>8, SMT DEF BrowserReturns
<1>9. CASE EntryRefused
  BY <1>9, SMT DEF EntryRefused
<1>10. ASSUME NEW a \in Account, SignIn(a) PROVE SecretsTogether'
  BY <1>10, SMT DEF SignIn
<1>11. CASE Resolve
  BY <1>11, SMT DEF Resolve
<1>12. CASE Reconcile
  BY <1>12, SMT DEF Reconcile
<1>13. CASE ReconcileDek
  BY <1>13, SMT DEF ReconcileDek
<1>14. CASE Publish
  BY <1>14, SMT DEF Publish
<1>15. CASE RequestSignOut
  BY <1>15, SMT DEF RequestSignOut
<1>16. CASE SignOut
  BY <1>16, SMT DEF SignOut
<1>17. CASE SignOutDone
  BY <1>17, SMT DEF SignOutDone
<1>18. CASE RefreshStart
  BY <1>18, SMT DEF RefreshStart
<1>19. CASE RefreshNoToken
  BY <1>19, SMT DEF RefreshNoToken
<1>20. CASE RefreshExchange
  BY <1>20, SMT DEF RefreshExchange
<1>21. CASE RefreshOk
  BY <1>21, SMT DEF RefreshOk
<1>22. CASE RefreshFailed
  BY <1>22, SMT DEF RefreshFailed
<1>23. CASE Revoke
  BY <1>23, SMT DEF Revoke
<1>24. ASSUME NEW bio \in BOOLEAN, UnlockStart(bio) PROVE SecretsTogether'
  BY <1>24, SMT DEF UnlockStart
<1>25. CASE Pull
  BY <1>25, SMT DEF Pull
<1>26. CASE PullNothing
  BY <1>26, SMT DEF PullNothing
<1>27. CASE UnlockFails
  BY <1>27, SMT DEF UnlockFails
<1>28. CASE Open
  BY <1>28, SMT DEF Open
<1>29. CASE StaleDek
  BY <1>29, SMT DEF StaleDek
<1>30. CASE Baseline
  BY <1>30, SMT DEF Baseline
<1>31. CASE BaselineWrite
  BY <1>31, SMT DEF BaselineWrite
<1>32. CASE Lock
  BY <1>32, SMT DEF Lock
<1>33. CASE Background
  BY <1>33, SMT DEF Background
<1>34. CASE Foreground
  BY <1>34, SMT DEF Foreground
<1>35. CASE EnrollStart
  BY <1>35, SMT DEF EnrollStart
<1>36. CASE AcceptOffer
  BY <1>36, SMT DEF AcceptOffer
<1>37. CASE DismissAlert
  BY <1>37, SMT DEF DismissAlert
<1>38. CASE EnrollStore
  BY <1>38, SMT DEF EnrollStore
<1>39. CASE EnrollFlag
  BY <1>39, SMT DEF EnrollFlag
<1>40. CASE Disenroll
  BY <1>40, SMT DEF Disenroll
<1>41. CASE ProjectsLoaded
  BY <1>41, SMT DEF ProjectsLoaded
<1>42. CASE Kill
  BY <1>42, SMT DEF Kill
<1>43. CASE UNCHANGED vars
  BY <1>43, SMT DEF vars
<1> QED
  BY <1>1, <1>2, <1>3, <1>4, <1>5, <1>6, <1>7, <1>8, <1>9, <1>10, <1>11, <1>12, <1>13, <1>14,
     <1>15, <1>16, <1>17, <1>18, <1>19, <1>20, <1>21, <1>22, <1>23, <1>24, <1>25, <1>26, <1>27,
     <1>28, <1>29, <1>30, <1>31, <1>32, <1>33, <1>34, <1>35, <1>36, <1>37, <1>38, <1>39, <1>40,
     <1>41, <1>42, <1>43
    DEF Next, Booting, Entering, Establishing, SigningOut, Refreshing, Unlocking, Device

-----------------------------------------------------------------------------
(* What a sign-out leaves, when only kills meet what is under way. *)

\* Once a user has signed out nothing of the session is under way, until the process
\* is killed or another sign-in goes through.
Over ==
  out # "none" =>
    /\ unlocking.pc = "idle" /\ enrolling = NoEnrol /\ login = Idle /\ auth = Anonymous
    /\ session = None /\ blob = None /\ meta = None /\ app # "dead"
    /\ (out = "deleting" => refreshing = NoRefresh) /\ refreshing.pc \in {"idle", "read"}

EndsWhole == TypeOK /\ SecretsTogether /\ Over /\ NoResidue

\* The guards of the screens.
LEMMA ScreensGuarded ==
  ASSUME TypeOK
  PROVE  /\ Shows("unlock") => Authenticated /\ vault = "locked"
         /\ Shows("tabs") => Authenticated /\ vault = "unlocked"
         /\ Shows("sign-in") \/ Shows("pair") => ~Authenticated
<1>1. CASE auth.status = "unknown"
  BY <1>1 DEF Shows, Admitted, Authenticated
<1>2. CASE auth.status = "anonymous"
  BY <1>2 DEF Shows, Admitted, Authenticated
<1>3. CASE auth.status = "authenticated" /\ vault = "locked"
  BY <1>3 DEF Shows, Admitted, Authenticated
<1>4. CASE auth.status = "authenticated" /\ vault = "unlocked"
  BY <1>4 DEF Shows, Admitted, Authenticated
<1>5. auth.status \in {"unknown", "anonymous", "authenticated"} /\ vault \in {"locked", "unlocked"}
  BY DEF TypeOK, Unknown, Anonymous, SignedIn
<1> QED
  BY <1>1, <1>2, <1>3, <1>4, <1>5

\* Only kills meet what is under way: no step brings back what a sign-out has ended.
LEMMA EndsWholeStep == Overlap \subseteq {"kill"} /\ EndsWhole /\ [Next]_vars => Over' /\ NoResidue'
<1> SUFFICES ASSUME Overlap \subseteq {"kill"}, EndsWhole, [Next]_vars PROVE Over' /\ NoResidue'
  OBVIOUS
<1>k. "refresh" \notin Overlap /\ "unlock" \notin Overlap /\ "enroll" \notin Overlap
      /\ "signin" \notin Overlap
  OBVIOUS
<1>f. TypeOK' /\ Flags /\ Flags' /\ out \in {"none", "deleting", "done"}
  BY TypeStep DEF TypeOK, Flags, EndsWhole
<1>t. SecretsTogether /\ Over /\ NoResidue
  BY DEF EndsWhole
<1>a. Anonymous.status = "anonymous" /\ Idle.pc = "idle" /\ NoEnrol.pc = "idle"
      /\ NoRefresh.pc = "idle" /\ NoUnlock.pc = "idle"
  BY DEF Anonymous, Idle, NoEnrol, NoRefresh, NoUnlock
<1>n. ~NoToken.live
  BY DEF NoToken
<1>s. /\ Shows("unlock") => Authenticated /\ vault = "locked"
      /\ Shows("tabs") => Authenticated /\ vault = "unlocked"
      /\ Shows("sign-in") \/ Shows("pair") => ~Authenticated
  BY ScreensGuarded DEF EndsWhole
<1> USE <1>k, <1>f, <1>t, <1>a, <1>n, <1>s DEF Flags, Over, NoResidue, SecretsTogether,
        QuietEnd, Authenticated, disk, secret, redux, calls, ui, TearDown, ForgetSecrets,
        ForgetPassword, ForgetDek, ForgetVault,
            TokenLost, LoseAccess, LockVault
<1>1. CASE Launch
  BY <1>1, SMT DEF Launch
<1>2. CASE BootAnonymous
  BY <1>2, SMT DEF BootAnonymous
<1>3. CASE BootExchange
  BY <1>3, SMT DEF BootExchange
<1>4. CASE BootRefusedOtherwise
  BY <1>4, SMT DEF BootRefusedOtherwise
<1>5. CASE BootRotated
  BY <1>5, SMT DEF BootRotated
<1>6. CASE BootOffline
  BY <1>6, SMT DEF BootOffline
<1>7. ASSUME NEW by \in Way, BeginEntry(by) PROVE Over' /\ NoResidue'
  BY <1>7, SMT DEF BeginEntry, SignInOffers
<1>8. CASE BrowserReturns
  BY <1>8, SMT DEF BrowserReturns
<1>9. CASE EntryRefused
  BY <1>9, SMT DEF EntryRefused
<1>10. ASSUME NEW a \in Account, SignIn(a) PROVE Over' /\ NoResidue'
  BY <1>10, SMT DEF SignIn
<1>11. CASE Resolve
  BY <1>11, SMT DEF Resolve
<1>12. CASE Reconcile
  BY <1>12, SMT DEF Reconcile
<1>13. CASE ReconcileDek
  BY <1>13, SMT DEF ReconcileDek
<1>14. CASE Publish
  <2>1. login # Idle
    BY <1>14 DEF Publish
  <2>2. out = "none" /\ UNCHANGED out
    BY <2>1, <1>14 DEF Publish
  <2> QED
    BY <2>2
<1>15. CASE RequestSignOut
  BY <1>15, SMT DEF RequestSignOut
<1>16. CASE SignOut
  <2>1. unlocking.pc = "idle" /\ enrolling = NoEnrol /\ login = Idle /\ refreshing = NoRefresh
        /\ app = "active"
    <3>1. app = "active"
      BY <1>16, Zenon DEF SignOut, Shows
    <3> QED
      BY <3>1, <1>16, SMT DEF SignOut
  <2>2. /\ auth' = Anonymous /\ session' = None /\ blob' = None /\ meta' = None /\ out' = "deleting"
        /\ UNCHANGED <<login, unlocking, refreshing, enrolling, app>>
    BY <1>16, SMT DEF SignOut
  <2> QED
    BY <2>1, <2>2
<1>17. CASE SignOutDone
  BY <1>17, SMT DEF SignOutDone
<1>18. CASE RefreshStart
  BY <1>18, SMT DEF RefreshStart
<1>19. CASE RefreshNoToken
  BY <1>19, SMT DEF RefreshNoToken
<1>20. CASE RefreshExchange
  BY <1>20, SMT DEF RefreshExchange
<1>21. CASE RefreshOk
  BY <1>21, SMT DEF RefreshOk
<1>22. CASE RefreshFailed
  BY <1>22, SMT DEF RefreshFailed
<1>23. CASE Revoke
  BY <1>23, SMT DEF Revoke
<1>24. ASSUME NEW bio \in BOOLEAN, UnlockStart(bio) PROVE Over' /\ NoResidue'
  BY <1>24, SMT DEF UnlockStart, UnlockOffers
<1>25. CASE Pull
  BY <1>25, SMT DEF Pull
<1>26. CASE PullNothing
  BY <1>26, SMT DEF PullNothing
<1>27. CASE UnlockFails
  BY <1>27, SMT DEF UnlockFails
<1>28. CASE Open
  BY <1>28, SMT DEF Open
<1>29. CASE StaleDek
  BY <1>29, SMT DEF StaleDek
<1>30. CASE Baseline
  BY <1>30, SMT DEF Baseline
<1>31. CASE BaselineWrite
  BY <1>31, SMT DEF BaselineWrite
<1>32. CASE Lock
  BY <1>32, SMT DEF Lock
<1>33. CASE Background
  BY <1>33, SMT DEF Background
<1>34. CASE Foreground
  BY <1>34, SMT DEF Foreground
<1>35. CASE EnrollStart
  BY <1>35, SMT DEF EnrollStart, SwitchWorks, EnrollSession
<1>36. CASE AcceptOffer
  BY <1>36, SMT DEF AcceptOffer, EnrollSession
<1>37. CASE DismissAlert
  BY <1>37, SMT DEF DismissAlert
<1>38. CASE EnrollStore
  BY <1>38, SMT DEF EnrollStore
<1>39. CASE EnrollFlag
  BY <1>39, SMT DEF EnrollFlag
<1>40. CASE Disenroll
  BY <1>40, SMT DEF Disenroll, SwitchWorks
<1>41. CASE ProjectsLoaded
  BY <1>41, SMT DEF ProjectsLoaded
<1>42. CASE Kill
  BY <1>42, SMT DEF Kill
<1>43. CASE UNCHANGED vars
  BY <1>43, SMT DEF vars
<1> QED
  BY <1>1, <1>2, <1>3, <1>4, <1>5, <1>6, <1>7, <1>8, <1>9, <1>10, <1>11, <1>12, <1>13, <1>14,
     <1>15, <1>16, <1>17, <1>18, <1>19, <1>20, <1>21, <1>22, <1>23, <1>24, <1>25, <1>26, <1>27,
     <1>28, <1>29, <1>30, <1>31, <1>32, <1>33, <1>34, <1>35, <1>36, <1>37, <1>38, <1>39, <1>40,
     <1>41, <1>42, <1>43
    DEF Next, Booting, Entering, Establishing, SigningOut, Refreshing, Unlocking, Device

-----------------------------------------------------------------------------
(* Whose everything is, when nothing outlives the session it belongs to. *)

\* A process that does not run has nothing under way and nothing in memory.
DeadIsEmpty ==
  app = "dead" =>
    /\ access = None /\ auth = Unknown /\ login = Idle /\ unlocking = NoUnlock
    /\ refreshing = NoRefresh /\ enrolling = NoEnrol

\* What is under way belongs to the signed-in user, and an open vault has an owner on
\* record once its unlock has ended.
CallsAreUsers ==
  /\ session # None \/ unlocking.pc # "idle" \/ enrolling.pc # "idle" => Authenticated
  /\ unlocking.pc \in {"pull", "derive", "patch"} => unlocking.typed = auth.user
  /\ unlocking.pc \in {"pull", "derive"} => session = None
  /\ session # None /\ unlocking.pc = "idle" => meta # None
  /\ enrolling.pc = "prompt" => enrolling.key = meta /\ meta # None
  /\ refreshing # NoRefresh => Authenticated \/ out = "done"
  /\ refreshing.pc = "ok" => refreshing.acct = auth.user

\* A sign-in or a launch runs while no one is signed in, with the tokens of its account.
LoginIsAlone ==
  /\ login.pc # "idle" => ~Authenticated /\ refreshing = NoRefresh
  /\ login.pc \in {"who", "reconcile", "forget", "publish"} =>
       access = login.acct /\ refresh.acct = login.acct
  /\ login.pc \in {"rotated", "unreached"} => refresh.acct = login.acct
  /\ login.pc \in {"read", "rotated", "rejected", "unreached"} => login.by = "launch"
  /\ login.pc \in {"read", "rotated"} => access = None
  /\ login.pc = "unreached" => access \in {None, login.acct}

\* The vault on disk, its key behind biometrics and the stored token are of one account,
\* but between a sign-in's answer and the comparison that wipes what is another's.
DiskIsOnes ==
  /\ login.pc = "forget" => meta = None
  /\ login.pc = "publish" => meta \in {None, login.acct}
  /\ login.by = "launch" \/ login.pc \notin {"who", "reconcile"} =>
       meta = None \/ refresh.acct \in {None, meta}
  /\ dek \in {None, meta} \/ login.pc = "forget" \/ out = "deleting"

Ownership == DeadIsEmpty /\ CallsAreUsers /\ LoginIsAlone /\ DiskIsOnes /\ StoredIsUsers

Owned == EndsWhole /\ Ownership

\* The two records a step changes one field of.
LEMMA LoginAt ==
  ASSUME NEW P, NEW A, NEW W, NEW k \in [pc : P, acct : A, by : W], NEW q \in P
  PROVE  [k EXCEPT !.pc = q].pc = q /\ [k EXCEPT !.pc = q].acct = k.acct
         /\ [k EXCEPT !.pc = q].by = k.by
BY SMT

\* The same of an enrolment.
LEMMA EnrolAt ==
  ASSUME NEW P, NEW A, NEW k \in [pc : P, key : A], NEW q \in P
  PROVE  [k EXCEPT !.pc = q].pc = q /\ [k EXCEPT !.pc = q].key = k.key
BY SMT

\* Nothing overlaps: no step mixes two accounts.
LEMMA OwnedStep == Overlap = {} /\ Owned /\ [Next]_vars => Ownership'
<1> SUFFICES ASSUME Overlap = {}, Owned, [Next]_vars PROVE Ownership'
  OBVIOUS
<1>k. /\ "refresh" \notin Overlap /\ "unlock" \notin Overlap /\ "enroll" \notin Overlap
      /\ "signin" \notin Overlap /\ "kill" \notin Overlap
  OBVIOUS
<1>f. TypeOK' /\ TypeOK /\ SecretsTogether /\ Over /\ SecretsTogether' /\ Over'
  BY TypeStep, TogetherStep, EndsWholeStep DEF EndsWhole, Owned
<1>t. DeadIsEmpty /\ CallsAreUsers /\ LoginIsAlone /\ DiskIsOnes /\ StoredIsUsers
  BY DEF Owned, Ownership
<1>a. /\ Idle.pc = "idle" /\ Idle.by = "none" /\ NoEnrol.pc = "idle" /\ NoRefresh.pc = "idle"
         /\ NoUnlock.pc = "idle"
      /\ NoToken.acct = None /\ ~NoToken.live
  BY DEF Idle, NoEnrol, NoRefresh, NoUnlock, NoToken
<1>u. /\ Anonymous.status = "anonymous" /\ Unknown.status = "unknown"
      /\ \A a \in Account : SignedIn(a).status = "authenticated" /\ SignedIn(a).user = a
  BY DEF Anonymous, Unknown, SignedIn
<1>s. /\ Shows("unlock") => Authenticated /\ vault = "locked"
      /\ Shows("tabs") => Authenticated /\ vault = "unlocked"
      /\ Shows("sign-in") \/ Shows("pair") => ~Authenticated
  BY <1>f, ScreensGuarded
<1>l. ASSUME NEW p \in LoginPc, login' = [login EXCEPT !.pc = p]
      PROVE login'.pc = p /\ login'.acct = login.acct /\ login'.by = login.by
  BY <1>f, <1>l, LoginAt DEF TypeOK
<1>p. /\ {"read", "rotated", "who", "reconcile", "forget", "publish", "rejected",
         "unreached"} \subseteq LoginPc
      /\ login.pc \in {"rotated", "who", "reconcile", "forget", "publish"} => login.acct \in Account
      /\ unlocking.pc = "patch" => unlocking.typed \in Account
      /\ refreshing.pc = "ok" => refreshing.acct \in Account
      /\ meta \in Account \cup {None}
      /\ \A a : Live(a).acct = a
  BY <1>f DEF TypeOK, LoginPc, Maybe, Live
<1>r. refresh \in Token
  BY <1>f DEF TypeOK
<1> USE <1>k, <1>f, <1>t, <1>a, <1>u, <1>s, <1>p, <1>r DEF Ownership, DeadIsEmpty,
        CallsAreUsers, LoginIsAlone, DiskIsOnes, StoredIsUsers, VaultIsUsers, TokensAreUsers,
        SecretsTogether, Over, QuietEnd, Authenticated, disk, secret, redux, calls, ui,
        TearDown, ForgetSecrets, ForgetPassword, ForgetDek, ForgetVault,
            TokenLost, LoseAccess, LockVault
<1>1. CASE Launch
  BY <1>1, SMT DEF Launch
<1>2. CASE BootAnonymous
  <2>1. DeadIsEmpty'
    BY <1>2, SMT DEF BootAnonymous
  <2>2. CallsAreUsers'
    BY <1>2, SMT DEF BootAnonymous
  <2>3. LoginIsAlone'
    BY <1>2, SMT DEF BootAnonymous
  <2>4. DiskIsOnes'
    BY <1>2, SMT DEF BootAnonymous
  <2>5. VaultIsUsers'
    BY <1>2, SMT DEF BootAnonymous
  <2>6. TokensAreUsers'
    BY <1>2, SMT DEF BootAnonymous
  <2> QED
    BY <2>1, <2>2, <2>3, <2>4, <2>5, <2>6
<1>3. CASE BootExchange
  <2>e. PICK answer \in {"ok", "rejected", "lost"} :
          /\ Exchange(answer)
          /\ login' = [login EXCEPT !.pc = CASE answer = "ok" -> "rotated"
                                             [] answer = "rejected" -> "rejected"
                                             [] OTHER -> "unreached",
                                    !.acct = refresh.acct]
    BY <1>3, Zenon DEF BootExchange
  <2>c. /\ login.pc = "read" /\ refresh # NoToken
        /\ UNCHANGED <<dek, meta, access, auth, session, unlocking, refreshing, enrolling, out,
           app>>
    BY <1>3, Zenon DEF BootExchange, redux, secret, ui
  <2>x. refresh'.acct = refresh.acct /\ refresh.acct \in Account
    BY <2>c, <2>e, ExchangeKeeps
  <2>l. login \in [pc : LoginPc, acct : Maybe, by : Way \cup {"launch", "none"}]
    BY DEF TypeOK
  <2>y. login'.pc \in {"rotated", "rejected", "unreached"} /\ login'.acct = refresh.acct
        /\ login'.by = login.by
    <3>1. CASE answer = "ok"
      <4>1. login' = [login EXCEPT !.pc = "rotated", !.acct = refresh.acct]
        BY <2>e, <3>1
      <4> QED
        BY <4>1, <2>l, <2>x, LoginSet
    <3>2. CASE answer = "rejected"
      <4>1. login' = [login EXCEPT !.pc = "rejected", !.acct = refresh.acct]
        BY <2>e, <3>2
      <4> QED
        BY <4>1, <2>l, <2>x, LoginSet
    <3>3. CASE answer = "lost"
      <4>1. login' = [login EXCEPT !.pc = "unreached", !.acct = refresh.acct]
        BY <2>e, <3>3
      <4> QED
        BY <4>1, <2>l, <2>x, LoginSet
    <3> QED
      BY <2>e, <3>1, <3>2, <3>3
  <2>1. DeadIsEmpty'
    BY <2>c, <2>x, <2>y, SMT
  <2>2. CallsAreUsers'
    BY <2>c, <2>x, <2>y, SMT
  <2>3. LoginIsAlone'
    BY <2>c, <2>x, <2>y, SMT
  <2>4. DiskIsOnes'
    BY <2>c, <2>x, <2>y, SMT
  <2>5. VaultIsUsers'
    BY <2>c, <2>x, <2>y, SMT
  <2>6. TokensAreUsers'
    BY <2>c, <2>x, <2>y, SMT
  <2> QED
    BY <2>1, <2>2, <2>3, <2>4, <2>5, <2>6
<1>4. CASE BootRefusedOtherwise
  <2>1. DeadIsEmpty'
    BY <1>4, SMT DEF BootRefusedOtherwise
  <2>2. CallsAreUsers'
    BY <1>4, SMT DEF BootRefusedOtherwise
  <2>3. LoginIsAlone'
    BY <1>4, SMT DEF BootRefusedOtherwise
  <2>4. DiskIsOnes'
    BY <1>4, SMT DEF BootRefusedOtherwise
  <2>5. VaultIsUsers'
    BY <1>4, SMT DEF BootRefusedOtherwise
  <2>6. TokensAreUsers'
    BY <1>4, SMT DEF BootRefusedOtherwise
  <2> QED
    BY <2>1, <2>2, <2>3, <2>4, <2>5, <2>6
<1>5. CASE BootRotated
  <2>c. /\ login.pc = "rotated" /\ access' = login.acct /\ refresh'.acct = login.acct
        /\ UNCHANGED <<dek, meta, auth, session, unlocking, refreshing, enrolling, out, app>>
    BY <1>5, SMT DEF BootRotated
  <2>y. login'.pc = "who" /\ login'.acct = login.acct /\ login'.by = login.by
    BY <1>5, <1>l, Zenon DEF BootRotated, LoginPc
  <2>1. DeadIsEmpty'
    BY <2>c, <2>y, SMT
  <2>2. CallsAreUsers'
    BY <2>c, <2>y, SMT
  <2>3. LoginIsAlone'
    BY <2>c, <2>y, SMT
  <2>4. DiskIsOnes'
    BY <2>c, <2>y, SMT
  <2>5. VaultIsUsers'
    BY <2>c, <2>y, SMT
  <2>6. TokensAreUsers'
    BY <2>c, <2>y, SMT
  <2> QED
    BY <2>1, <2>2, <2>3, <2>4, <2>5, <2>6
<1>6. CASE BootOffline
  <2>c. /\ login.pc = "unreached" /\ login' = Idle
        /\ UNCHANGED <<dek, meta, access, refresh, session, unlocking, refreshing, enrolling,
           out, app>>
    BY <1>6, SMT DEF BootOffline
  <2>y. auth' = Anonymous \/ (meta # None /\ auth'.status = "authenticated" /\ auth'.user = meta)
    <3>1. auth' = Anonymous \/ (meta # None /\ auth' = SignedIn(meta))
      BY <1>6, Zenon DEF BootOffline
    <3> QED
      BY <3>1
  <2>z. meta = None \/ refresh.acct \in {None, meta}
    BY <2>c DEF DiskIsOnes
  <2>1. DeadIsEmpty'
    BY <2>c, <2>y, <2>z, SMT
  <2>2. CallsAreUsers'
    BY <2>c, <2>y, <2>z, SMT
  <2>3. LoginIsAlone'
    BY <2>c, <2>y, <2>z, SMT
  <2>4. DiskIsOnes'
    BY <2>c, <2>y, <2>z, SMT
  <2>5. VaultIsUsers'
    BY <2>c, <2>y, <2>z, SMT
  <2>6. TokensAreUsers'
    BY <2>c, <2>y, <2>z, SMT
  <2> QED
    BY <2>1, <2>2, <2>3, <2>4, <2>5, <2>6
<1>7. ASSUME NEW by \in Way, BeginEntry(by) PROVE Ownership'
  BY <1>7, SMT DEF BeginEntry, SignInOffers
<1>8. CASE BrowserReturns
  BY <1>8, SMT DEF BrowserReturns
<1>9. CASE EntryRefused
  BY <1>9, SMT DEF EntryRefused
<1>10. ASSUME NEW a \in Account, SignIn(a) PROVE Ownership'
  <2>c. /\ login = Idle /\ access' = a /\ refresh'.acct = a /\ refreshing = NoRefresh
           /\ auth = Anonymous
        /\ UNCHANGED <<dek, meta, auth, session, unlocking, refreshing, enrolling, app>>
    BY <1>10, SMT DEF SignIn
  <2>y. login'.pc = "who" /\ login'.acct = a /\ login'.by = entry.by /\ out # "deleting"
        /\ out' = "none"
    BY <1>10, SMT DEF SignIn
  <2>z. login'.by # "launch"
    <3>1. entry.by \in {"email", "provider", "pairing", "none"}
      BY DEF TypeOK, NoEntry, Way
    <3> QED
      BY <3>1, <2>y
  <2>1. DeadIsEmpty'
    BY <2>c, <2>y, <2>z, SMT
  <2>2. CallsAreUsers'
    BY <2>c, <2>y, <2>z, SMT
  <2>3. LoginIsAlone'
    BY <2>c, <2>y, <2>z, SMT
  <2>4. DiskIsOnes'
    BY <2>c, <2>y, <2>z, SMT
  <2>5. VaultIsUsers'
    BY <2>c, <2>y, <2>z, SMT
  <2>6. TokensAreUsers'
    BY <2>c, <2>y, <2>z, SMT
  <2> QED
    BY <2>1, <2>2, <2>3, <2>4, <2>5, <2>6
<1>11. CASE Resolve
  <2>c. /\ login.pc = "who"
        /\ UNCHANGED <<dek, meta, access, refresh, auth, session, unlocking, refreshing,
           enrolling, out, app>>
    BY <1>11, SMT DEF Resolve
  <2>y. /\ login'.acct = login.acct /\ login'.by = login.by
        /\ login'.pc \in {"reconcile", "unreached", "rejected"}
           /\ (login'.pc # "reconcile" => login.by = "launch")
    BY <1>11, <1>l, Zenon DEF Resolve, LoginPc
  <2>1. DeadIsEmpty'
    BY <2>c, <2>y, SMT
  <2>2. CallsAreUsers'
    BY <2>c, <2>y, SMT
  <2>3. LoginIsAlone'
    BY <2>c, <2>y, SMT
  <2>4. DiskIsOnes'
    BY <2>c, <2>y, SMT
  <2>5. VaultIsUsers'
    BY <2>c, <2>y, SMT
  <2>6. TokensAreUsers'
    BY <2>c, <2>y, SMT
  <2> QED
    BY <2>1, <2>2, <2>3, <2>4, <2>5, <2>6
<1>12. CASE Reconcile
  <2>c. /\ login.pc = "reconcile"
        /\ UNCHANGED <<dek, access, refresh, auth, session, unlocking, refreshing, enrolling,
           out, app>>
    BY <1>12, SMT DEF Reconcile
  <2>y. /\ login'.acct = login.acct /\ login'.by = login.by
        /\ \/ login'.pc = "publish" /\ meta' = meta /\ meta \in {None, login.acct}
           \/ login'.pc = "forget" /\ meta' = None
    BY <1>12, <1>l, Zenon DEF Reconcile, LoginPc, ForgetVault
  <2>1. DeadIsEmpty'
    BY <2>c, <2>y, SMT
  <2>2. CallsAreUsers'
    BY <2>c, <2>y, SMT
  <2>3. LoginIsAlone'
    BY <2>c, <2>y, SMT
  <2>4. DiskIsOnes'
    BY <2>c, <2>y, SMT
  <2>5. VaultIsUsers'
    BY <2>c, <2>y, SMT
  <2>6. TokensAreUsers'
    BY <2>c, <2>y, SMT
  <2> QED
    BY <2>1, <2>2, <2>3, <2>4, <2>5, <2>6
<1>13. CASE ReconcileDek
  <2>1. DeadIsEmpty'
    BY <1>13, SMT DEF ReconcileDek
  <2>2. CallsAreUsers'
    BY <1>13, SMT DEF ReconcileDek
  <2>3. LoginIsAlone'
    BY <1>13, SMT DEF ReconcileDek
  <2>4. DiskIsOnes'
    BY <1>13, SMT DEF ReconcileDek
  <2>5. VaultIsUsers'
    BY <1>13, SMT DEF ReconcileDek
  <2>6. TokensAreUsers'
    BY <1>13, SMT DEF ReconcileDek
  <2> QED
    BY <2>1, <2>2, <2>3, <2>4, <2>5, <2>6
<1>14. CASE Publish
  <2>c. /\ login.pc = "publish" /\ login' = Idle
        /\ auth'.status = "authenticated" /\ auth'.user = login.acct
        /\ UNCHANGED <<dek, meta, access, refresh, session, refreshing, enrolling, out, app>>
    BY <1>14, SMT DEF Publish
  <2>z. ~Authenticated /\ session = None /\ unlocking.pc = "idle" /\ enrolling.pc = "idle"
        /\ out = "none"
    BY <2>c
  <2>y. /\ unlocking'.pc \in {"pull", "derive", "idle"}
        /\ unlocking'.pc # "idle" => unlocking'.typed = login.acct
    BY <1>14, <2>z, SMT DEF Publish, NewUnlock
  <2>1. DeadIsEmpty'
    BY <2>c, <2>z, <2>y, SMT
  <2>2. CallsAreUsers'
    BY <2>c, <2>z, <2>y, SMT
  <2>3. LoginIsAlone'
    BY <2>c, <2>z, <2>y, SMT
  <2>4. DiskIsOnes'
    BY <2>c, <2>z, <2>y, SMT
  <2>5. VaultIsUsers'
    BY <2>c, <2>z, <2>y, SMT
  <2>6. TokensAreUsers'
    BY <2>c, <2>z, <2>y, SMT
  <2> QED
    BY <2>1, <2>2, <2>3, <2>4, <2>5, <2>6
<1>15. CASE RequestSignOut
  BY <1>15, SMT DEF RequestSignOut
<1>16. CASE SignOut
  BY <1>16, SMT DEF SignOut
<1>17. CASE SignOutDone
  BY <1>17, SMT DEF SignOutDone
<1>18. CASE RefreshStart
  BY <1>18, SMT DEF RefreshStart
<1>19. CASE RefreshNoToken
  <2>1. DeadIsEmpty'
    BY <1>19, SMT DEF RefreshNoToken
  <2>2. CallsAreUsers'
    BY <1>19, SMT DEF RefreshNoToken
  <2>3. LoginIsAlone'
    BY <1>19, SMT DEF RefreshNoToken
  <2>4. DiskIsOnes'
    BY <1>19, SMT DEF RefreshNoToken
  <2>5. VaultIsUsers'
    BY <1>19, SMT DEF RefreshNoToken
  <2>6. TokensAreUsers'
    BY <1>19, SMT DEF RefreshNoToken
  <2> QED
    BY <2>1, <2>2, <2>3, <2>4, <2>5, <2>6
<1>20. CASE RefreshExchange
  <2>e. PICK answer \in {"ok", "rejected", "lost"} :
          Exchange(answer) /\ refreshing' = [pc |-> answer, acct |-> refresh.acct]
    BY <1>20, Zenon DEF RefreshExchange
  <2>c. /\ refreshing.pc = "read" /\ refresh # NoToken
        /\ UNCHANGED <<dek, meta, access, auth, session, login, unlocking, enrolling, out, app>>
    BY <1>20, Zenon DEF RefreshExchange, redux, secret, ui
  <2>x. refresh'.acct = refresh.acct /\ refresh.acct \in Account
    BY <2>c, <2>e, ExchangeKeeps
  <2>y. refreshing'.pc = answer /\ refreshing'.acct = refresh.acct
    BY <2>e
  <2>z. refreshing # NoRefresh /\ out # "done" /\ Authenticated /\ refresh.acct = auth.user
    BY <2>c, <2>x, NoneIsNoAccount DEF NoResidue, EndsWhole, Owned
  <2>1. DeadIsEmpty'
    BY <2>c, <2>x, <2>y, <2>z, SMT
  <2>2. CallsAreUsers'
    BY <2>c, <2>x, <2>y, <2>z, SMT
  <2>3. LoginIsAlone'
    BY <2>c, <2>x, <2>y, <2>z, SMT
  <2>4. DiskIsOnes'
    BY <2>c, <2>x, <2>y, <2>z, SMT
  <2>5. VaultIsUsers'
    BY <2>c, <2>x, <2>y, <2>z, SMT
  <2>6. TokensAreUsers'
    BY <2>c, <2>x, <2>y, <2>z, SMT
  <2> QED
    BY <2>1, <2>2, <2>3, <2>4, <2>5, <2>6
<1>21. CASE RefreshOk
  <2>c. /\ refreshing.pc = "ok" /\ refreshing' = NoRefresh
        /\ access' = refreshing.acct /\ refresh'.acct = refreshing.acct
        /\ UNCHANGED <<dek, meta, auth, session, login, unlocking, enrolling, out, app>>
    BY <1>21, SMT DEF RefreshOk
  <2>z. Authenticated /\ refreshing.acct = auth.user
    BY <2>c
  <2>1. DeadIsEmpty'
    BY <2>c, <2>z, SMT
  <2>2. CallsAreUsers'
    BY <2>c, <2>z, SMT
  <2>3. LoginIsAlone'
    BY <2>c, <2>z, SMT
  <2>4. DiskIsOnes'
    BY <2>c, <2>z, SMT
  <2>5. VaultIsUsers'
    BY <2>c, <2>z, SMT
  <2>6. TokensAreUsers'
    BY <2>c, <2>z, SMT
  <2> QED
    BY <2>1, <2>2, <2>3, <2>4, <2>5, <2>6
<1>22. CASE RefreshFailed
  BY <1>22, SMT DEF RefreshFailed
<1>23. CASE Revoke
  <2>c. UNCHANGED <<dek, meta, access, auth, session, login, unlocking, refreshing, enrolling,
        out, app>>
    BY <1>23, Zenon DEF Revoke, redux, secret, ui, calls
  <2>x. refresh'.acct = refresh.acct
    BY <1>23, SpentIsToken DEF Revoke
  <2>1. DeadIsEmpty'
    BY <2>c, <2>x, SMT
  <2>2. CallsAreUsers'
    BY <2>c, <2>x, SMT
  <2>3. LoginIsAlone'
    BY <2>c, <2>x, SMT
  <2>4. DiskIsOnes'
    BY <2>c, <2>x, SMT
  <2>5. VaultIsUsers'
    BY <2>c, <2>x, SMT
  <2>6. TokensAreUsers'
    BY <2>c, <2>x, SMT
  <2> QED
    BY <2>1, <2>2, <2>3, <2>4, <2>5, <2>6
<1>24. ASSUME NEW bio \in BOOLEAN, UnlockStart(bio) PROVE Ownership'
  <2>c. /\ Authenticated /\ vault = "locked" /\ unlocking' = NewUnlock(bio, auth.user)
        /\ UNCHANGED <<dek, meta, access, refresh, auth, session, login, refreshing, enrolling,
           out, app>>
    BY <1>24, Zenon DEF UnlockStart, UnlockOffers, redux, secret, ui, disk
  <2>y. unlocking'.pc \in {"pull", "derive"} /\ unlocking'.typed = auth.user /\ session = None
    BY <2>c, SMT DEF NewUnlock
  <2>1. DeadIsEmpty'
    BY <2>c, <2>y, SMT
  <2>2. CallsAreUsers'
    BY <2>c, <2>y, SMT
  <2>3. LoginIsAlone'
    BY <2>c, <2>y, SMT
  <2>4. DiskIsOnes'
    BY <2>c, <2>y, SMT
  <2>5. VaultIsUsers'
    BY <2>c, <2>y, SMT
  <2>6. TokensAreUsers'
    BY <2>c, <2>y, SMT
  <2> QED
    BY <2>1, <2>2, <2>3, <2>4, <2>5, <2>6
<1>25. CASE Pull
  BY <1>25, SMT DEF Pull
<1>26. CASE PullNothing
  BY <1>26, SMT DEF PullNothing
<1>27. CASE UnlockFails
  BY <1>27, SMT DEF UnlockFails
<1>28. CASE Open
  BY <1>28, SMT DEF Open
<1>29. CASE StaleDek
  <2>1. DeadIsEmpty'
    BY <1>29, SMT DEF StaleDek
  <2>2. CallsAreUsers'
    BY <1>29, SMT DEF StaleDek
  <2>3. LoginIsAlone'
    BY <1>29, SMT DEF StaleDek
  <2>4. DiskIsOnes'
    BY <1>29, SMT DEF StaleDek
  <2>5. VaultIsUsers'
    BY <1>29, SMT DEF StaleDek
  <2>6. TokensAreUsers'
    BY <1>29, SMT DEF StaleDek
  <2> QED
    BY <2>1, <2>2, <2>3, <2>4, <2>5, <2>6
<1>30. CASE Baseline
  <2>c. /\ unlocking.pc = "baseline"
        /\ UNCHANGED <<dek, meta, access, refresh, auth, session, login, refreshing, enrolling,
           out, app>>
    BY <1>30, SMT DEF Baseline
  <2>z. auth.user \in Account
    BY <2>c, NoneIsNoAccount DEF TypeOK, SignedIn, Unknown, Anonymous
  <2>w. unlocking \in Unlocks(BOOLEAN)
    BY DEF TypeOK, Unlocks
  <2>y. \/ unlocking'.pc = "patch" /\ unlocking'.typed = auth.user
        \/ unlocking' = NoUnlock /\ meta # None
    <3>1. CASE meta = None /\ auth.user # None
      <4>1. unlocking' = [unlocking EXCEPT !.pc = "patch", !.typed = auth.user]
        BY <1>30, <3>1, Zenon DEF Baseline
      <4> QED
        BY <4>1, <2>z, UnlockSet, Zenon DEF Unlocks, TypeOK
    <3>2. CASE ~(meta = None /\ auth.user # None)
      <4>1. unlocking' = NoUnlock
        BY <1>30, <3>2, Zenon DEF Baseline
      <4> QED
        BY <4>1, <3>2, <2>z, NoneIsNoAccount
    <3> QED
      BY <3>1, <3>2
  <2>1. DeadIsEmpty'
    BY <2>c, <2>z, <2>y, SMT
  <2>2. CallsAreUsers'
    BY <2>c, <2>z, <2>y, SMT
  <2>3. LoginIsAlone'
    BY <2>c, <2>z, <2>y, SMT
  <2>4. DiskIsOnes'
    BY <2>c, <2>z, <2>y, SMT
  <2>5. VaultIsUsers'
    BY <2>c, <2>z, <2>y, SMT
  <2>6. TokensAreUsers'
    BY <2>c, <2>z, <2>y, SMT
  <2> QED
    BY <2>1, <2>2, <2>3, <2>4, <2>5, <2>6
<1>31. CASE BaselineWrite
  <2>c. /\ unlocking.pc = "patch" /\ unlocking' = NoUnlock /\ meta' = unlocking.typed
        /\ UNCHANGED <<dek, access, refresh, auth, session, login, refreshing, enrolling, out, app>>
    BY <1>31, SMT DEF BaselineWrite
  <2>y. unlocking.typed = auth.user /\ unlocking.typed # None /\ Authenticated
        /\ meta \in {None, auth.user}
    BY <2>c, NoneIsNoAccount
  <2>1. DeadIsEmpty'
    BY <2>c, <2>y, SMT
  <2>2. CallsAreUsers'
    BY <2>c, <2>y, SMT
  <2>3. LoginIsAlone'
    BY <2>c, <2>y, SMT
  <2>4. DiskIsOnes'
    BY <2>c, <2>y, SMT
  <2>5. VaultIsUsers'
    BY <2>c, <2>y, SMT
  <2>6. TokensAreUsers'
    BY <2>c, <2>y, SMT
  <2> QED
    BY <2>1, <2>2, <2>3, <2>4, <2>5, <2>6
<1>32. CASE Lock
  BY <1>32, SMT DEF Lock
<1>33. CASE Background
  BY <1>33, SMT DEF Background
<1>34. CASE Foreground
  BY <1>34, SMT DEF Foreground
<1>35. CASE EnrollStart
  BY <1>35, SMT DEF EnrollStart, SwitchWorks, EnrollSession
<1>36. CASE AcceptOffer
  BY <1>36, SMT DEF AcceptOffer, EnrollSession
<1>37. CASE DismissAlert
  BY <1>37, SMT DEF DismissAlert
<1>38. CASE EnrollStore
  <2>c. /\ enrolling.pc = "prompt"
        /\ UNCHANGED <<meta, access, refresh, auth, session, login, unlocking, refreshing, out,
           app>>
    BY <1>38, SMT DEF EnrollStore
  <2>w. [enrolling EXCEPT !.pc = "flag"].pc = "flag"
    BY EnrolAt DEF TypeOK
  <2>y. \/ dek' = enrolling.key /\ enrolling'.pc = "flag"
        \/ dek' = dek /\ enrolling' = NoEnrol
    BY <1>38, <2>w, Zenon DEF EnrollStore
  <2>1. DeadIsEmpty'
    BY <2>c, <2>y, SMT
  <2>2. CallsAreUsers'
    BY <2>c, <2>y, SMT
  <2>3. LoginIsAlone'
    BY <2>c, <2>y, SMT
  <2>4. DiskIsOnes'
    BY <2>c, <2>y, SMT
  <2>5. VaultIsUsers'
    BY <2>c, <2>y, SMT
  <2>6. TokensAreUsers'
    BY <2>c, <2>y, SMT
  <2> QED
    BY <2>1, <2>2, <2>3, <2>4, <2>5, <2>6
<1>39. CASE EnrollFlag
  BY <1>39, SMT DEF EnrollFlag
<1>40. CASE Disenroll
  BY <1>40, SMT DEF Disenroll, SwitchWorks
<1>41. CASE ProjectsLoaded
  BY <1>41, SMT DEF ProjectsLoaded
<1>42. CASE Kill
  BY <1>42, SMT DEF Kill
<1>43. CASE UNCHANGED vars
  BY <1>43, SMT DEF vars
<1> QED
  BY <1>1, <1>2, <1>3, <1>4, <1>5, <1>6, <1>7, <1>8, <1>9, <1>10, <1>11, <1>12, <1>13, <1>14,
     <1>15, <1>16, <1>17, <1>18, <1>19, <1>20, <1>21, <1>22, <1>23, <1>24, <1>25, <1>26, <1>27,
     <1>28, <1>29, <1>30, <1>31, <1>32, <1>33, <1>34, <1>35, <1>36, <1>37, <1>38, <1>39, <1>40,
     <1>41, <1>42, <1>43
    DEF Next, Booting, Entering, Establishing, SigningOut, Refreshing, Unlocking, Device

-----------------------------------------------------------------------------
(* The theorems. *)

\* Every variable keeps its type, whatever overlaps: no flow leaves a record half
\* written, nor an account where there is none.
THEOREM DeviceTypes == Spec => []TypeOK
<1>1. TypeOK /\ [Next]_vars => TypeOK'
  BY TypeStep
<1> QED
  BY TypeInit, <1>1, PTL DEF Spec

\* The decrypted vault, the lock state of the screens and the master password go
\* together, whatever overlaps: no flow that ends a session leaves one behind.
\* (lockVault, tearDownSessionState, the unlocks.)
THEOREM SecretsGoTogether == Spec => []SecretsTogether
<1>1. Init => SecretsTogether
  BY DEF Init, SecretsTogether
<1> QED
  BY TypeInit, TypeStep, TogetherStep, <1>1, PTL DEF Spec

\* A session that ends ends whole, and a sign-out leaves nothing of the account on the
\* phone, even when the app is killed at any point, as long as no refresh, unlock,
\* enrolment or other sign-in runs on over it.  (clearSession.)
THEOREM SignOutLeavesNothing ==
  ASSUME Overlap \subseteq {"kill"}
  PROVE  Spec => []NothingIsLeft
<1>1. Init => EndsWhole
  BY TypeInit DEF Init, EndsWhole, SecretsTogether, Over, NoResidue
<1>2. EndsWhole /\ [Next]_vars => EndsWhole'
  BY TypeStep, TogetherStep, EndsWholeStep DEF EndsWhole
<1>3. EndsWhole => NothingIsLeft
  BY DEF EndsWhole, NothingIsLeft
<1> QED
  BY <1>1, <1>2, <1>3, PTL DEF Spec

\* When nothing outlives the session it belongs to, no session of one account ever
\* stands on anything of another: not its vault, not the record of who owns it, not a
\* token.  (reconcileVaultAccount before sessionEstablished, establishSyncBaseline,
\* restoreOfflineSession.)
THEOREM NothingOfAnother ==
  ASSUME Overlap = {}
  PROVE  Spec => []StoredIsUsers
<1>1. Init => Owned
  BY TypeInit DEF Init, Owned, Ownership, EndsWhole, SecretsTogether, Over, NoResidue, DeadIsEmpty,
     CallsAreUsers,
       LoginIsAlone, DiskIsOnes, StoredIsUsers, VaultIsUsers, TokensAreUsers, Authenticated,
       Unknown, Idle, NoUnlock, NoEnrol, NoRefresh, NoToken
<1>2. Owned /\ [Next]_vars => Owned'
  BY TypeStep, TogetherStep, EndsWholeStep, OwnedStep DEF Owned, Ownership, EndsWhole
<1>3. Owned => StoredIsUsers
  BY DEF Owned, Ownership
<1> QED
  BY <1>1, <1>2, <1>3, PTL DEF Spec

-----------------------------------------------------------------------------
(* Proofs about HostsTab.                                                  *)

\* The vault is not locked while a document is on its way to it, while a pass over the
\* projects is under way, while a probe is out.
NoAdoption == "adopt" \notin Meanwhile
NoPassOut  == "pass" \notin Meanwhile
NoProbeOut == "probe" \notin Meanwhile

\* Behind the lock nothing is to come of a render; and of what was not out when the vault
\* was locked, nothing is there or to come.
TabLocked ==
  /\ NoAdoption => ~minting
  /\ ~open => /\ swept = "never" /\ due = "nothing"
              /\ NoAdoption => mine = {} /\ sync # "adopting"
              /\ NoPassOut  => theirs = {} /\ pass = "idle"
              /\ NoProbeOut => results = Unprobed /\ flying = {}

\* On the list, either a pass has told its outcome, or one is shown to be under way, or
\* the focus is about to ask for one.
TabAsked ==
  /\ open /\ screen = List /\ ~loaded /\ phase = "idle" => due = "focus"
  /\ pass = "reading" => phase = "syncing"
  /\ pass = "told" => loaded

TabInv == TabTypeOK /\ TabLocked /\ (NoPassOut => TabAsked)

\* The screens of the stack.
LEMMA ScreensAre ==
  /\ List \in Screens /\ List.at = "list" /\ List.front
  /\ \A s \in Screens : /\ s.at \in {"list", "detail"} /\ s.front \in BOOLEAN
                        /\ \A front \in BOOLEAN : /\ [s EXCEPT !.front = front] \in Screens
                                                  /\ [s EXCEPT !.front = front].front = front
  /\ \A h \in Host, project \in BOOLEAN, front \in BOOLEAN :
       LET s == [at |-> "detail", host |-> h, project |-> project, front |-> front] IN
       s \in Screens /\ s.at = "detail"
<1>1. List \in Screens /\ List.at = "list" /\ List.front
  BY Zenon DEF List, Screens
<1>2. ASSUME NEW s \in [at : {"list"}, front : BOOLEAN], NEW front \in BOOLEAN
      PROVE  /\ s.at = "list" /\ s.front \in BOOLEAN
             /\ [s EXCEPT !.front = front] \in [at : {"list"}, front : BOOLEAN]
             /\ [s EXCEPT !.front = front].front = front
  BY Zenon
<1>3. ASSUME NEW s \in Detail, NEW front \in BOOLEAN
      PROVE  /\ s.at = "detail" /\ s.front \in BOOLEAN
             /\ [s EXCEPT !.front = front] \in Detail /\ [s EXCEPT !.front = front].front = front
  BY Zenon DEF Detail
<1>4. ASSUME NEW h \in Host, NEW project \in BOOLEAN, NEW front \in BOOLEAN
      PROVE  [at |-> "detail", host |-> h, project |-> project, front |-> front] \in Detail
  BY Zenon DEF Detail
<1> QED
  BY <1>1, <1>2, <1>3, <1>4, Zenon DEF Screens

\* It holds behind the lock of a phone that was just started.
LEMMA TabInitIs == TabInit => TabInv
<1> SUFFICES ASSUME TabInit PROVE TabInv
  OBVIOUS
<1>0. 0 \in 0..MaxEdits /\ Unprobed \in [Host -> {"unknown", "true", "false"}]
  BY BoundIsNat, SMT DEF Unprobed
<1>1. TabTypeOK
  BY <1>0, ScreensAre, Zenon DEF TabInit, TabTypeOK
<1> QED
  BY <1>1 DEF TabInit, TabInv, TabLocked, TabAsked

\* Every variable keeps its type.
LEMMA TabTypesStep == TabTypeOK /\ [TabNext]_tabVars => TabTypeOK'
<1> SUFFICES ASSUME TabTypeOK, [TabNext]_tabVars PROVE TabTypeOK'
  OBVIOUS
<1> USE DEF TabTypeOK, lists, bringing, projs, passes, probes, Focus
<1>1. \A list : Renders(list) => due' \in {"nothing", "targets", "focus"}
  BY DEF Renders
<1>2. CASE Unlock
  BY <1>2, ScreensAre DEF Unlock
<1>3. CASE TabLock
  <2>1. flying' \subseteq Host \X {"true", "false"}
    <3>1. flying' = {<<f[1], "false">> : f \in flying}
      BY <1>3 DEF TabLock
    <3>2. \A f \in flying : <<f[1], "false">> \in Host \X {"true", "false"}
      <4>1. flying \subseteq Host \X {"true", "false"}
        OBVIOUS
      <4> QED
        BY <4>1, Zenon
    <3> QED
      BY <3>1, <3>2, Zenon
  <2>2. results' \in [Host -> {"unknown", "true", "false"}]
    BY <1>3 DEF TabLock, Unprobed
  <2> QED
    BY <1>3, <2>1, <2>2, ScreensAre DEF TabLock
<1>4. ASSUME NEW h \in Host, NEW project \in BOOLEAN, OpenHost(h, project) PROVE TabTypeOK'
  <2>1. screen' \in Screens
    <3>1. TRUE \in BOOLEAN
      OBVIOUS
    <3>2. screen' = [at |-> "detail", host |-> h, project |-> project, front |-> TRUE]
      BY <1>4 DEF OpenHost
    <3> QED
      BY <3>1, <3>2, ScreensAre
  <2> QED
    BY <1>4, <2>1 DEF OpenHost
<1>5. CASE GoBack
  BY <1>5, ScreensAre DEF GoBack
<1>6. CASE Cover
  <2>1. screen' = [screen EXCEPT !.front = FALSE] /\ FALSE \in BOOLEAN
    BY <1>6 DEF Cover
  <2>2. screen' \in Screens
    BY <2>1, ScreensAre
  <2> QED
    BY <1>6, <2>2 DEF Cover
<1>7. CASE Uncover
  <2>1. screen' = [screen EXCEPT !.front = TRUE] /\ TRUE \in BOOLEAN
    BY <1>7 DEF Uncover
  <2>2. screen' \in Screens
    BY <2>1, ScreensAre
  <2> QED
    BY <1>7, <2>2 DEF Uncover
<1>8. ASSUME NEW h \in Mine, DeleteHost(h) PROVE TabTypeOK'
  <2>1. mine' \subseteq Mine /\ screen' \in {screen, List} /\ due' \in {"nothing", "targets", "focus"}
    BY <1>1, <1>8 DEF DeleteHost
  <2>2. screen' \in Screens
    <3>1. screen \in Screens
      OBVIOUS
    <3> HIDE DEF TabTypeOK
    <3> QED
      BY <2>1, <3>1, ScreensAre
  <2> QED
    BY <1>8, <2>1, <2>2 DEF DeleteHost
<1>9. ASSUME NEW h \in Mine, Readdress(h) PROVE TabTypeOK'
  <2>1. results' \in [Host -> {"unknown", "true", "false"}]
    BY <1>9 DEF Readdress, Host
  <2>2. flying' \subseteq Host \X {"true", "false"}
    <3>1. flying' = {IF f[1] = h THEN <<h, "false">> ELSE f : f \in flying}
      BY <1>9 DEF Readdress
    <3>2. <<h, "false">> \in Host \X {"true", "false"} /\ flying \subseteq Host \X {"true", "false"}
      BY DEF Host
    <3> QED
      BY <3>1, <3>2, Zenon
  <2>3. edits' \in 0..MaxEdits
    <3>1. edits \in 0..MaxEdits /\ edits < MaxEdits /\ edits' = edits + 1
      BY <1>9 DEF Readdress
    <3> HIDE DEF TabTypeOK
    <3> QED
      BY <3>1, BoundIsNat, SMT
  <2> QED
    BY <1>1, <1>9, <2>1, <2>2, <2>3 DEF Readdress
<1>10. CASE Effects
  <2>1. OnScreen \subseteq Host
    BY ScreensAre DEF OnScreen, Resolved, Host
  <2>2. swept' \in {"never", "lately", "long ago"} /\ flying' \subseteq Host \X {"true", "false"}
    <3>1. Sweep(OnScreen) /\ flying \subseteq Host \X {"true", "false"}
      BY <1>10 DEF Effects
    <3>2. OnScreen \X {"true"} \subseteq Host \X {"true", "false"}
      BY <2>1, Zenon
    <3> HIDE DEF TabTypeOK
    <3> QED
      BY <3>1, <3>2 DEF Sweep, TabTypeOK
  <2>3. pass' \in {"idle", "reading", "told"} /\ rerun' \in BOOLEAN /\ phase' \in {"idle", "syncing"}
    BY <1>10, Zenon DEF Effects, Trigger
  <2> QED
    BY <1>10, <2>2, <2>3 DEF Effects
<1>11. CASE Tick
  BY <1>11 DEF Tick
<1>12. ASSUME NEW h \in Host, NEW truth \in {"true", "false"}, NEW throws, ProbeEnds(h, truth, throws)
       PROVE  TabTypeOK'
  <2>1. flying' \subseteq Host \X {"true", "false"}
    BY <1>12 DEF ProbeEnds
  <2>2. results' \in [Host -> {"unknown", "true", "false"}]
    <3>1. results' = results \/ results' = [results EXCEPT ![h] = truth]
      BY <1>12 DEF ProbeEnds
    <3>2. results \in [Host -> {"unknown", "true", "false"}]
      OBVIOUS
    <3> HIDE DEF TabTypeOK
    <3> QED
      BY <3>1, <3>2
  <2>3. UNCHANGED <<open, mine, theirs, syncing, sync, minting, pass, rerun, phase, loaded,
                    screen, due, swept, edits>>
    <3> HIDE DEF TabTypeOK
    <3> QED
      BY <1>12 DEF ProbeEnds
  <2> QED
    BY <2>1, <2>2, <2>3
<1>13. CASE SyncStarts \/ SyncSettles \/ SyncAdopts
  BY <1>13 DEF SyncStarts, SyncSettles, SyncAdopts
<1>14. CASE SyncTells \/ PersistIdentity
  <2>1. minting' \in BOOLEAN
    BY <1>14 DEF SyncTells, PersistIdentity
  <2> QED
    BY <1>1, <1>14, <2>1 DEF SyncTells, PersistIdentity
<1>15. CASE Asked
  BY <1>15 DEF Asked, Trigger
<1>16. CASE PassLoads \/ PassSettles
  BY <1>1, <1>16 DEF PassLoads, PassSettles
<1>17. CASE PassEnds
  BY <1>17 DEF PassEnds
<1>18. CASE UNCHANGED tabVars
  <2>1. UNCHANGED <<open, mine, theirs, syncing, sync, minting, pass, rerun, phase, loaded,
                    screen, due, results, swept, flying, edits>>
    <3> HIDE DEF TabTypeOK
    <3> QED
      BY <1>18 DEF tabVars, probes
  <2> QED
    BY <2>1
<1> QED
  BY <1>2, <1>3, <1>4, <1>5, <1>6, <1>7, <1>8, <1>9, <1>10, <1>11, <1>12, <1>13, <1>14, <1>15, <1>16, <1>17, <1>18
     DEF TabNext, Stack, Probing, Bringing, Passing, Answers

\* What is gone behind the lock stays gone.
LEMMA TabLockedStep ==
  ASSUME TabTypeOK, TabLocked, [TabNext]_tabVars
  PROVE  TabLocked'
<1> USE DEF TabLocked, lists, bringing, projs, passes, probes
<1>1. CASE Unlock
  BY <1>1 DEF Unlock
<1>2. CASE TabLock
  <2>1. /\ NoPassOut => pass = "idle"
        /\ NoProbeOut => flying = {}
        /\ NoAdoption => sync # "adopting" /\ ~minting'
    BY <1>2 DEF TabLock, NoAdoption, NoPassOut, NoProbeOut
  <2>2. NoProbeOut => flying' = {}
    BY <1>2, <2>1 DEF TabLock
  <2> QED
    BY <1>2, <2>1, <2>2 DEF TabLock, NoAdoption, NoPassOut, NoProbeOut
<1>3. CASE Stack
  <2>1. open /\ open' /\ minting' = minting
    <3>1. ASSUME NEW h \in Host, NEW project \in BOOLEAN, OpenHost(h, project)
          PROVE  open /\ open' /\ minting' = minting
      BY <3>1 DEF OpenHost
    <3>2. CASE GoBack \/ Cover \/ Uncover
      BY <3>2 DEF GoBack, Cover, Uncover
    <3>3. ASSUME NEW h \in Mine, DeleteHost(h) PROVE open /\ open' /\ minting' = minting
      BY <3>3 DEF DeleteHost
    <3>4. ASSUME NEW h \in Mine, Readdress(h) PROVE open /\ open' /\ minting' = minting
      <4>1. open /\ UNCHANGED <<lists, passes>>
        BY <3>4, Zenon DEF Readdress
      <4> QED
        BY <4>1
    <3> QED
      BY <1>3, <3>1, <3>2, <3>3, <3>4 DEF Stack
  <2> QED
    BY <2>1 DEF NoAdoption
<1>4. CASE Effects \/ Tick
  <2>1. open /\ open' /\ minting' = minting
    BY <1>4 DEF Effects, Tick
  <2> QED
    BY <2>1 DEF NoAdoption
<1>5. ASSUME NEW h \in Host, NEW truth, NEW throws, ProbeEnds(h, truth, throws) PROVE TabLocked'
  BY <1>5 DEF ProbeEnds, NoAdoption, NoPassOut, NoProbeOut
<1>6. CASE SyncStarts \/ SyncSettles \/ SyncAdopts \/ Asked
  BY <1>6 DEF SyncStarts, SyncSettles, SyncAdopts, Asked, NoAdoption
<1>9. CASE SyncTells \/ PersistIdentity
  <2>1. due' = due \/ open
    BY <1>9 DEF SyncTells, PersistIdentity, Renders
  <2>2. NoAdoption => open
    BY <1>9 DEF SyncTells, PersistIdentity
  <2>3. NoAdoption => ~minting'
    <3>1. SyncTells => minting' = minting
      BY DEF SyncTells
    <3>2. PersistIdentity => minting' \in {minting /\ open, FALSE}
      BY DEF PersistIdentity
    <3>3. NoAdoption => NoAdoption' /\ ~minting
      BY DEF NoAdoption
    <3> QED
      BY <1>9, <3>1, <3>2, <3>3
  <2>4. /\ open' = open /\ theirs' = theirs /\ pass' = pass
        /\ results' = results /\ swept' = swept /\ flying' = flying
    BY <1>9 DEF SyncTells, PersistIdentity
  <2> QED
    BY <2>1, <2>2, <2>3, <2>4 DEF NoAdoption, NoPassOut, NoProbeOut
<1>7. CASE PassLoads \/ PassSettles \/ PassEnds
  <2>1. due' = due \/ due # "nothing" \/ open
    BY <1>7 DEF PassLoads, PassSettles, PassEnds, Renders
  <2> QED
    BY <1>7, <2>1 DEF PassLoads, PassSettles, PassEnds, NoAdoption, NoPassOut, NoProbeOut
<1>8. CASE UNCHANGED tabVars
  BY <1>8 DEF tabVars, NoAdoption, NoPassOut, NoProbeOut
<1> QED
  BY <1>1, <1>2, <1>3, <1>4, <1>5, <1>6, <1>7, <1>8, <1>9
     DEF TabNext, Probing, Bringing, Passing, Answers

\* That somebody asks for the first pass is kept as well.
LEMMA TabAskedStep ==
  ASSUME TabTypeOK, TabLocked, NoPassOut, TabAsked, [TabNext]_tabVars
  PROVE  TabAsked'
<1> USE DEF TabAsked, lists, bringing, projs, passes, probes, Focus
<1>1. \A list : Renders(list) /\ due = "focus" => due' = "focus"
  BY DEF Renders
<1>2. CASE Unlock
  BY <1>2 DEF Unlock
<1>3. CASE TabLock
  BY <1>3 DEF TabLock, NoPassOut
<1>4. CASE Stack
  <2>1. ASSUME NEW h \in Host, NEW project \in BOOLEAN, OpenHost(h, project) PROVE TabAsked'
    BY <2>1 DEF OpenHost
  <2>2. CASE GoBack \/ Uncover
    BY <2>2 DEF GoBack, Uncover
  <2>3. CASE Cover
    <3>1. ~screen'.front
      <4>1. screen' = [screen EXCEPT !.front = FALSE] /\ FALSE \in BOOLEAN /\ screen \in Screens
        BY <2>3 DEF Cover, TabTypeOK
      <4> QED
        BY <4>1, ScreensAre
    <3>2. screen' # List
      BY <3>1, ScreensAre
    <3> QED
      BY <2>3, <3>2 DEF Cover
  <2>4. ASSUME NEW h \in Mine, DeleteHost(h) PROVE TabAsked'
    BY <1>1, <2>4 DEF DeleteHost
  <2>5. ASSUME NEW h \in Mine, Readdress(h) PROVE TabAsked'
    BY <1>1, <2>5 DEF Readdress
  <2> QED
    BY <1>4, <2>1, <2>2, <2>3, <2>4, <2>5 DEF Stack
<1>5. CASE Effects
  <2>1. screen = List => screen.at = "list"
    BY ScreensAre
  <2> QED
    BY <1>5, <2>1 DEF Effects, Trigger, TabTypeOK
<1>6. CASE Tick
  BY <1>6 DEF Tick
<1>7. ASSUME NEW h \in Host, NEW truth, NEW throws, ProbeEnds(h, truth, throws) PROVE TabAsked'
  BY <1>7 DEF ProbeEnds
<1>8. CASE Bringing
  <2>1. UNCHANGED <<open, pass, phase, loaded, screen>>
    BY <1>8, Zenon DEF Bringing, SyncStarts, SyncSettles, SyncAdopts, SyncTells, PersistIdentity
  <2>2. due = "focus" => due' = "focus"
    BY <1>1, <1>8, Zenon DEF Bringing, SyncStarts, SyncSettles, SyncAdopts, SyncTells, PersistIdentity
  <2> QED
    BY <2>1, <2>2
<1>9. CASE Asked
  BY <1>9 DEF Asked, Trigger
<1>10. CASE PassLoads \/ PassSettles
  BY <1>10 DEF PassLoads, PassSettles
<1>11. CASE PassEnds
  BY <1>11 DEF PassEnds
<1>12. CASE UNCHANGED tabVars
  BY <1>12 DEF tabVars
<1> QED
  BY <1>2, <1>3, <1>4, <1>5, <1>6, <1>7, <1>8, <1>9, <1>10, <1>11, <1>12 DEF TabNext, Probing, Passing, Answers

\* The inductive invariant holds of every behaviour.
THEOREM TabInvariance == TabSpec => []TabInv
<1>1. TabInv /\ [TabNext]_tabVars => TabInv'
  BY TabTypesStep, TabLockedStep, TabAskedStep DEF TabInv, NoPassOut
<1> QED
  BY TabInitIs, <1>1, PTL DEF TabSpec

\* Every variable keeps its type, for all hosts and whatever meets a probe or a pass.
THEOREM TabTypes == TabSpec => []TabTypeOK
<1>1. TabInv => TabTypeOK
  BY DEF TabInv
<1> QED
  BY <1>1, TabInvariance, PTL

\* Whatever is out when the vault is locked, behind the lock a sweep is due; and of each
\* of a document, a pass over the projects and a probe that is not out, nothing is left.
\* (lockVault, probesSlice, adopt, persistIdentityLocally.)
THEOREM LockForgetsByPart ==
  TabSpec => [](~open => /\ swept = "never"
                         /\ "adopt" \notin Meanwhile => mine = {}
                         /\ "pass" \notin Meanwhile => theirs = {}
                         /\ "probe" \notin Meanwhile => results = Unprobed)
<1>1. TabInv => (~open => /\ swept = "never"
                          /\ "adopt" \notin Meanwhile => mine = {}
                          /\ "pass" \notin Meanwhile => theirs = {}
                          /\ "probe" \notin Meanwhile => results = Unprobed)
  BY DEF TabInv, TabLocked, NoAdoption, NoPassOut, NoProbeOut
<1> QED
  BY <1>1, TabInvariance, PTL

\* If none of them is out when the vault is locked, nothing of the session is left behind
\* the lock; and if no pass over the projects is, the tab does not say that there are no
\* hosts before it knows, whatever becomes of the personal ones.
THEOREM TabIsHonest ==
  ASSUME NoPassOut
  PROVE  TabSpec => [](EmptyIsHonest /\ (NoAdoption /\ NoProbeOut => LockForgets))
<1>1. TabInv => (NoAdoption /\ NoProbeOut => LockForgets)
  BY DEF TabInv, TabLocked, LockForgets
<1>2. ASSUME TabInv, open, screen = List, due = "nothing", Body(Host) = "No hosts yet" PROVE loaded
  <2>1. ~Skeleton
    BY <1>2 DEF Body
  <2>2. ~HasHosts
    <3>1. ASSUME HasHosts PROVE FALSE
      BY <1>2, <3>1 DEF Body
    <3> QED
      BY <3>1
  <2>3. loaded \/ phase # "syncing"
    BY <2>1, <2>2 DEF Skeleton, FirstPass
  <2> QED
    BY <1>2, <2>3 DEF TabInv, TabAsked, TabTypeOK
<1>3. TabInv => EmptyIsHonest
  BY <1>2 DEF EmptyIsHonest
<1> QED
  BY <1>1, <1>3, TabInvariance, PTL
=============================================================================
