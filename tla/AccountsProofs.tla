----------------------------- MODULE AccountsProofs -----------------------------
(***************************************************************************)
(* What Accounts keeps for any number of e-mail addresses, phone numbers    *)
(* and handlers, within any bounds.                                         *)
(***************************************************************************)
EXTENDS Accounts, FiniteSetTheorems, TLAPS

-----------------------------------------------------------------------------
(* The type invariant, with what the slot of a handler holds at each step     *)

Stages(op) ==
    CASE op = "none" -> {"idle"}
      [] op = "ask" -> {"saveOtp", "clearAttempts", "savePending", "mail"}
      [] op = "verify" -> {"readOtp", "countWrong", "deleteOtp", "clearAttempts", "readPending", "saveToken"}
      [] op = "lock" -> {"deleteOtp"}
      [] op = "complete" -> {"createAccount", "deleteToken", "deletePending", "saveRefresh", "indexRefresh"}
      [] op = "driver" -> {"createAccount", "saveRefresh", "indexRefresh", "saveSession"}
      [] op = "reset" -> {"savePassword", "deleteToken", "listRefresh", "deleteRefresh", "deleteIndex",
                          "deleteSession"}
      [] op = "login" -> {"saveRefresh", "indexRefresh", "saveSession"}
      [] op = "refresh" -> {"revokeKey", "revokeIndex", "findUser", "saveRefresh", "indexRefresh"}
      [] OTHER -> {"listRefresh", "deleteRefresh", "deleteIndex", "deleteSession"}

SlotFit(q) ==
    /\ q.step \in Stages(q.op)
    /\ q.op # "none" => q.email \in Emails
    /\ q.step \in {"savePending", "readPending"} => q.purpose = "register"
    /\ q.op = "verify" /\ q.step \in {"deleteOtp", "clearAttempts", "readPending", "saveToken"} => q.pin # 0
    /\ q.op \in {"complete", "driver"} => q.phone \in Phones
    /\ q.op \in {"complete", "driver"} /\ q.step # "createAccount" => q.password # 0
    /\ q.op = "login" \/ (q.op = "refresh" /\ q.step = "saveRefresh") => q.password # 0

\* The handlers that have a PIN, a token, a refresh token or a password yet to make.
Asking == {r \in Requests : req[r].step = "saveOtp"}
Verifying == {r \in Requests : req[r].op = "verify"}
Issuing == {r \in Requests : /\ req[r].op \in {"complete", "driver", "login", "refresh"}
                             /\ req[r].step \notin {"indexRefresh", "saveSession"}}
Setting == {r \in Requests : req[r].step \in {"createAccount", "savePassword"}}

\* n is the latest password.
Latest(n) ==
    /\ n \in 0..MaxPasswords
    /\ n = 0 \/ \E e \in Emails : account[e].password = n
    /\ \A e \in Emails : account[e].password <= n

\* PINs are named after they were stored.
KnownPins ==
    /\ \A r \in Requests : req[r].pin <= Len(pin)
    /\ \A p \in Purposes, e \in Emails : otp[p][e].pin <= Len(pin)
    /\ \A t \in DOMAIN token : token[t].pin <= Len(pin)

Room ==
    /\ Len(pin) + Cardinality(Asking) <= MaxPins
    /\ Len(token) + Cardinality(Verifying) <= MaxTokens
    /\ Len(refresh) + Cardinality(Issuing) <= MaxIssues
    /\ \E n : Latest(n) /\ n + Cardinality(Setting) <= MaxPasswords

TypeInv ==
    /\ TypeOK
    /\ Room
    /\ KnownPins
    /\ \A r \in Requests : SlotFit(req[r])
    /\ \A e \in Emails : account[e].isActive => account[e].password # 0

\* The steps of a handler follow each other.
Follows(q, step) ==
    /\ step \notin {"idle", "saveOtp", "readOtp", "createAccount", "savePassword", "revokeKey"}
    /\ step = "clearAttempts" => q.step \in {"saveOtp", "deleteOtp"}
    /\ step = "savePending" => q.step = "clearAttempts" /\ q.purpose = "register"
    /\ step = "mail" => q.step = IF q.purpose = "register" THEN "savePending" ELSE "clearAttempts"
    /\ step = "countWrong" => q.step = "readOtp"
    /\ step = "deleteOtp" => q.step \in {"readOtp", "countWrong"}
    /\ step = "readPending" => q.step = "clearAttempts" /\ q.purpose = "register"
    /\ step = "saveToken" => q.step = IF q.purpose = "register" THEN "readPending" ELSE "clearAttempts"
    /\ step = "deleteToken" => q.step \in {"createAccount", "savePassword"}
    /\ step = "deletePending" => q.step = "deleteToken"
    /\ step = "saveRefresh" => q.step \in {"createAccount", "deletePending", "findUser"}
    /\ step = "indexRefresh" => q.step = "saveRefresh"
    /\ step = "saveSession" => q.step = "indexRefresh"
    /\ step = "revokeIndex" => q.step = "revokeKey"
    /\ step = "findUser" => q.step = "revokeIndex"
    /\ step = "listRefresh" => q.step = "deleteToken"
    /\ step = "deleteRefresh" => q.step = "listRefresh"
    /\ step = "deleteIndex" => q.step = "deleteRefresh"
    /\ step = "deleteSession" => q.step = "deleteIndex"

\* A handler goes on with what it was called for, or ends.
Way(q, slot) ==
    /\ Follows(q, slot.step)
    /\ slot.op = q.op \/ (slot.op = "lock" /\ q.op = "verify" /\ q.step = "countWrong")
    /\ slot.purpose = q.purpose /\ slot.email = q.email /\ slot.guess = q.guess
    /\ slot.token = q.token /\ slot.old = q.old
    /\ q.step \notin {"saveOtp", "readOtp"} => slot.pin = q.pin
    /\ q.step # "readPending" => slot.phone = q.phone
    /\ q.step \notin {"createAccount", "findUser"} => slot.password = q.password
    /\ q.step # "saveRefresh" => slot.new = q.new
    /\ q.step # "listRefresh" => slot.ids = q.ids

Moved(r, slot) ==
    /\ slot \in RequestState /\ SlotFit(slot)
    /\ req' = [req EXCEPT ![r] = slot]
    /\ slot = Idle \/ Way(req[r], slot)

LEMMA NoneIs ==
    /\ None \notin Emails /\ None \notin Phones
    /\ MaxAttempts \in Nat /\ MaxAttempts # 0 /\ MaxPins \in Nat /\ MaxTokens \in Nat
    /\ MaxIssues \in Nat /\ MaxPasswords \in Nat /\ MaxMishaps \in Nat
    /\ IsFiniteSet(Requests)
BY AccountsAssumption

LEMMA IdleIs ==
    /\ Idle \in RequestState /\ SlotFit(Idle)
    /\ Idle.step = "idle" /\ Idle.op = "none" /\ Idle.pin = 0 /\ Idle.email = None
<1>1. Idle \in RequestState
  BY NoneIs DEF Idle, RequestState, Steps, Ops, Purposes
<1>2. Idle.step = "idle" /\ Idle.op = "none" /\ Idle.pin = 0 /\ Idle.email = None
  BY DEF Idle
<1>3. Stages("none") = {"idle"}
  BY DEF Stages
<1> QED BY <1>1, <1>2, <1>3 DEF SlotFit

\* The kind of call is known from the step it has reached.
LEMMA CallOf ==
    ASSUME NEW q \in RequestState, SlotFit(q)
    PROVE  /\ q.op = "none" <=> q.step = "idle"
           /\ q.step \in {"saveOtp", "savePending", "mail"} => q.op = "ask"
           /\ q.step = "clearAttempts" => q.op \in {"ask", "verify"}
           /\ q.step \in {"readOtp", "countWrong", "readPending", "saveToken"} => q.op = "verify"
           /\ q.step = "deleteOtp" => q.op \in {"verify", "lock"}
           /\ q.step = "createAccount" => q.op \in {"complete", "driver"}
           /\ q.step = "savePassword" => q.op = "reset"
           /\ q.step = "deleteToken" => q.op \in {"complete", "reset"}
           /\ q.step = "deletePending" => q.op = "complete"
           /\ q.step \in {"saveRefresh", "indexRefresh"} => q.op \in {"complete", "driver", "login", "refresh"}
           /\ q.step = "saveSession" => q.op \in {"driver", "login"}
           /\ q.step \in {"revokeKey", "revokeIndex", "findUser"} => q.op = "refresh"
           /\ q.step \in {"listRefresh", "deleteRefresh", "deleteIndex", "deleteSession"} =>
                q.op \in {"reset", "logout"}
<1>1. q.step \in Stages(q.op)
  BY DEF SlotFit
<1>2. q.op \in Ops
  BY DEF RequestState
<1>3. CASE q.op \in {"none", "ask", "verify"}
  BY <1>1, <1>3 DEF Stages
<1>4. CASE q.op \in {"lock", "complete", "driver"}
  BY <1>1, <1>4 DEF Stages
<1>5. CASE q.op \in {"reset", "login"}
  BY <1>1, <1>5 DEF Stages
<1>6. CASE q.op \in {"refresh", "logout"}
  BY <1>1, <1>6 DEF Stages
<1> QED BY <1>2, <1>3, <1>4, <1>5, <1>6 DEF Ops

Same(q, slot) ==
    /\ slot.op = q.op /\ slot.purpose = q.purpose /\ slot.email = q.email /\ slot.guess = q.guess
    /\ slot.token = q.token /\ slot.old = q.old /\ slot.pin = q.pin /\ slot.phone = q.phone
    /\ slot.password = q.password /\ slot.new = q.new /\ slot.ids = q.ids

LEMMA UpdateMoves ==
    ASSUME TypeInv, NEW r \in Requests, NEW q \in RequestState, NEW step \in Steps, Update(r, q, step)
    PROVE  \E slot \in RequestState :
               /\ req' = [req EXCEPT ![r] = slot]
               /\ step = "idle" => slot = Idle
               /\ step # "idle" => Same(q, slot) /\ slot.step = step
<1>1. CASE step = "idle"
  BY <1>1, IdleIs DEF Update
<1>2. CASE step # "idle"
  <2> DEFINE slot == [q EXCEPT !.step = step]
  <2>1. slot \in RequestState /\ Same(q, slot) /\ slot.step = step
    BY DEF RequestState, Same
  <2>2. req' = [req EXCEPT ![r] = slot]
    BY <1>2 DEF Update
  <2> HIDE DEF slot
  <2> QED BY <1>2, <2>1, <2>2
<1> QED BY <1>1, <1>2

LEMMA AfterIs ==
    ASSUME NEW q \in RequestState
    PROVE  /\ q.step = "saveOtp" => After(q) = "clearAttempts"
           /\ q.step = "clearAttempts" => After(q) =
                IF q.op = "ask" THEN IF q.purpose = "register" THEN "savePending" ELSE "mail"
                ELSE IF q.purpose = "register" THEN "readPending" ELSE "saveToken"
           /\ q.step = "savePending" => After(q) = "mail"
           /\ q.step = "deleteOtp" => After(q) = IF q.op = "lock" THEN "idle" ELSE "clearAttempts"
           /\ q.step = "deleteToken" => After(q) = IF q.op = "complete" THEN "deletePending" ELSE "listRefresh"
           /\ q.step = "deletePending" => After(q) = "saveRefresh"
           /\ q.step = "saveRefresh" => After(q) = "indexRefresh"
           /\ q.step = "indexRefresh" => After(q) = IF q.op \in {"login", "driver"} THEN "saveSession" ELSE "idle"
           /\ q.step = "revokeKey" => After(q) = "revokeIndex"
           /\ q.step = "revokeIndex" => After(q) = "findUser"
           /\ q.step = "deleteRefresh" => After(q) = "deleteIndex"
           /\ q.step = "deleteIndex" => After(q) = "deleteSession"
           /\ q.step \in {"countWrong", "saveToken", "saveSession", "deleteSession"} => After(q) = "idle"
           /\ q.step \notin {"saveOtp", "clearAttempts", "savePending", "countWrong", "deleteOtp", "saveToken",
                             "deleteToken", "deletePending", "saveRefresh", "indexRefresh", "saveSession",
                             "revokeKey", "revokeIndex", "deleteRefresh", "deleteIndex", "deleteSession"} =>
                After(q) = "none"
BY DEF After

LEMMA AfterFollows ==
    ASSUME NEW q \in RequestState, SlotFit(q), After(q) # "none"
    PROVE  /\ After(q) \in Steps
           /\ After(q) # "idle" => Follows(q, After(q)) /\ After(q) \in Stages(q.op)
<1>1. CASE q.step \in {"countWrong", "saveToken", "saveSession", "deleteSession"}
  BY <1>1, AfterIs DEF Steps
<1>2. CASE q.step = "saveOtp"
  BY <1>2, AfterIs, CallOf DEF Steps, Follows, Stages
<1>3. CASE q.step = "savePending"
  <2>1. q.purpose = "register" /\ q.op = "ask" /\ After(q) = "mail"
    BY <1>3, AfterIs, CallOf DEF SlotFit
  <2> QED BY <1>3, <2>1 DEF Steps, Follows, Stages
<1>4. CASE q.step = "clearAttempts"
  BY <1>4, AfterIs, CallOf DEF Steps, Follows, Stages, SlotFit, RequestState, Purposes
<1>5. CASE q.step \in {"deleteOtp", "deleteToken", "deletePending"}
  BY <1>5, AfterIs, CallOf DEF Steps, Follows, Stages
<1>6. CASE q.step = "saveRefresh"
  BY <1>6, AfterIs, CallOf DEF Steps, Follows, Stages
<1>7. CASE q.step = "indexRefresh"
  BY <1>7, AfterIs, CallOf DEF Steps, Follows, Stages
<1>8. CASE q.step \in {"revokeKey", "revokeIndex"}
  BY <1>8, AfterIs, CallOf DEF Steps, Follows, Stages
<1>9. CASE q.step \in {"deleteRefresh", "deleteIndex"}
  BY <1>9, AfterIs, CallOf DEF Steps, Follows, Stages
<1> QED BY <1>1, <1>2, <1>4, <1>5, <1>6, <1>7, <1>8, <1>9, <1>3, AfterIs

\* A handler that only goes on.
LEMMA GotoMoves ==
    ASSUME TypeInv, NEW r \in Requests, NEW step \in Steps, Goto(r, step),
           step # "idle" =>
               /\ Follows(req[r], step) /\ step \in Stages(req[r].op)
               /\ req[r].step \notin {"saveOtp", "readOtp", "countWrong", "createAccount", "findUser"}
                  \/ req[r].op \in {"ask", "reset"}
    PROVE  \E slot : /\ Moved(r, slot)
                     /\ (step = "idle" /\ slot = Idle) \/ (Same(req[r], slot) /\ slot.step = step)
<1>1. req \in [Requests -> RequestState] /\ req[r] \in RequestState /\ SlotFit(req[r])
  BY DEF TypeInv, TypeOK
<1>2. PICK slot \in RequestState :
               /\ req' = [req EXCEPT ![r] = slot]
               /\ step = "idle" => slot = Idle
               /\ step # "idle" => Same(req[r], slot) /\ slot.step = step
  BY <1>1, UpdateMoves DEF Goto
<1>3. CASE step = "idle"
  BY <1>2, <1>3, IdleIs DEF Moved
<1>4. CASE step # "idle"
  <2>1. Way(req[r], slot)
    BY <1>2, <1>4 DEF Way, Same
  <2>2. SlotFit(slot)
    <3>1. slot.op = req[r].op /\ slot.step = step /\ slot.step \in Stages(slot.op)
      BY <1>2, <1>4 DEF Same
    <3>2. slot.op \in {"complete", "driver"} /\ slot.step # "createAccount" => slot.password # 0
      BY <1>1, <1>2, <1>4, <3>1, CallOf DEF SlotFit, Same
    <3>3. slot.op = "login" \/ (slot.op = "refresh" /\ slot.step = "saveRefresh") => slot.password # 0
      BY <1>1, <1>2, <1>4, <3>1, CallOf DEF SlotFit, Same, Follows
    <3>4. slot.op = "verify" /\ slot.step \in {"deleteOtp", "clearAttempts", "readPending", "saveToken"} =>
            slot.pin # 0
      BY <1>1, <1>2, <1>4, <3>1, CallOf DEF SlotFit, Same, Follows
    <3>5. slot.step \in {"savePending", "readPending"} => slot.purpose = "register"
      BY <1>2, <1>4 DEF Same, Follows
    <3> QED BY <1>1, <1>2, <1>4, <3>1, <3>2, <3>3, <3>4, <3>5 DEF SlotFit, Same
  <2> QED BY <1>2, <1>4, <2>1, <2>2 DEF Moved
<1> QED BY <1>3, <1>4

LEMMA WriteMoves ==
    ASSUME TypeInv, NEW r \in Requests, After(req[r]) # "none", Goto(r, After(req[r]))
    PROVE  \E slot : Moved(r, slot) /\ (slot = Idle \/ (Same(req[r], slot) /\ slot.step = After(req[r])))
<1>1. req \in [Requests -> RequestState] /\ req[r] \in RequestState /\ SlotFit(req[r])
  BY DEF TypeInv, TypeOK
<1>2. req[r].step = "saveOtp" => req[r].op = "ask"
  BY <1>1, CallOf
<1>3. req[r].step = "countWrong" => After(req[r]) = "idle"
  BY <1>1, AfterIs
<1>4. req[r].step \notin {"readOtp", "createAccount", "findUser"}
  BY <1>1, AfterIs
<1> DEFINE step == After(req[r])
<1>5. step \in Steps /\ (step # "idle" => Follows(req[r], step) /\ step \in Stages(req[r].op))
  BY <1>1, AfterFollows
<1>6. Goto(r, step)
  OBVIOUS
<1> HIDE DEF step
<1>7. PICK slot : /\ Moved(r, slot)
                  /\ (step = "idle" /\ slot = Idle) \/ (Same(req[r], slot) /\ slot.step = step)
  BY <1>2, <1>3, <1>4, <1>5, <1>6, GotoMoves DEF step
<1> QED BY <1>7 DEF step

LEMMA Member ==
    ASSUME NEW S \in SUBSET Requests
    PROVE  IsFiniteSet(S) /\ Cardinality(S) \in Nat /\ \A r \in S : Cardinality(S) >= 1
<1>1. IsFiniteSet(S) /\ Cardinality(S) \in Nat
  BY NoneIs, FS_Subset, FS_CardinalityType
<1>2. ASSUME NEW r \in S PROVE Cardinality(S) >= 1
  BY <1>1, FS_EmptySet
<1> QED BY <1>1, <1>2

LEMMA LatestIs ==
    ASSUME TypeInv, NEW n, Latest(n)
    PROVE  LatestPassword = n
<1> DEFINE P(m) == /\ m = 0 \/ \E e \in Emails : account[e].password = m
                   /\ \A e \in Emails : account[e].password <= m
<1>1. \A e \in Emails : account[e].password \in Nat
  BY NoneIs DEF TypeInv, TypeOK, AccountDoc
<1>2. n \in 0..MaxPasswords /\ P(n)
  BY DEF Latest
<1>3. ASSUME NEW m \in 0..MaxPasswords, P(m) PROVE m = n
  BY <1>1, <1>2, <1>3
<1> HIDE DEF P
<1>4. (CHOOSE m \in 0..MaxPasswords : P(m)) = n
  BY <1>2, <1>3
<1> QED BY <1>4 DEF LatestPassword, P

\* A handler about to make something has room for it.
LEMMA RoomLeft ==
    ASSUME TypeInv, NEW r \in Requests
    PROVE  /\ req[r].step = "saveOtp" => Len(pin) + 1 \in 1..MaxPins
           /\ req[r].op = "verify" => Len(token) + 1 \in 1..MaxTokens
           /\ req[r].step = "saveRefresh" => Len(refresh) + 1 \in 1..MaxIssues
           /\ Latest(LatestPassword)
           /\ req[r].step \in {"createAccount", "savePassword"} => LatestPassword + 1 \in 1..MaxPasswords
<1>1. Len(pin) \in Nat /\ Len(token) \in Nat /\ Len(refresh) \in Nat
  BY DEF TypeInv, TypeOK
<1>2. req \in [Requests -> RequestState] /\ req[r] \in RequestState /\ SlotFit(req[r])
  BY DEF TypeInv, TypeOK
<1>3. ASSUME req[r].step = "saveOtp" PROVE Len(pin) + 1 \in 1..MaxPins
  <2>1. r \in Asking /\ Asking \in SUBSET Requests
    BY <1>3 DEF Asking
  <2>2. Cardinality(Asking) >= 1 /\ Cardinality(Asking) \in Nat
    BY <2>1, Member
  <2> QED BY <1>1, <2>2, NoneIs DEF TypeInv, Room
<1>4. ASSUME req[r].op = "verify" PROVE Len(token) + 1 \in 1..MaxTokens
  <2>1. r \in Verifying /\ Verifying \in SUBSET Requests
    BY <1>4 DEF Verifying
  <2>2. Cardinality(Verifying) >= 1 /\ Cardinality(Verifying) \in Nat
    BY <2>1, Member
  <2> QED BY <1>1, <2>2, NoneIs DEF TypeInv, Room
<1>5. ASSUME req[r].step = "saveRefresh" PROVE Len(refresh) + 1 \in 1..MaxIssues
  <2>1. r \in Issuing /\ Issuing \in SUBSET Requests
    BY <1>2, <1>5, CallOf DEF Issuing
  <2>2. Cardinality(Issuing) >= 1 /\ Cardinality(Issuing) \in Nat
    BY <2>1, Member
  <2> QED BY <1>1, <2>2, NoneIs DEF TypeInv, Room
<1>6. PICK n : Latest(n) /\ n + Cardinality(Setting) <= MaxPasswords
  BY DEF TypeInv, Room
<1>7. LatestPassword = n /\ n \in Nat
  BY <1>6, LatestIs, NoneIs DEF Latest
<1>8. ASSUME req[r].step \in {"createAccount", "savePassword"} PROVE LatestPassword + 1 \in 1..MaxPasswords
  <2>1. r \in Setting /\ Setting \in SUBSET Requests
    BY <1>8 DEF Setting
  <2>2. Cardinality(Setting) >= 1 /\ Cardinality(Setting) \in Nat
    BY <2>1, Member
  <2> QED BY <1>6, <1>7, <2>2, NoneIs
<1> QED BY <1>3, <1>4, <1>5, <1>6, <1>7, <1>8

\* A handler that goes on with new data.
LEMMA StepMoves ==
    ASSUME TypeInv, NEW r \in Requests, NEW q \in RequestState, NEW step \in Steps, Update(r, q, step),
           step # "idle", Follows(req[r], step), step \in Stages(q.op), q.email \in Emails,
           q.purpose = req[r].purpose, q.email = req[r].email, q.guess = req[r].guess,
           q.token = req[r].token, q.old = req[r].old,
           q.op = req[r].op \/ (q.op = "lock" /\ req[r].op = "verify" /\ req[r].step = "countWrong"),
           req[r].step \notin {"saveOtp", "readOtp"} => q.pin = req[r].pin,
           req[r].step # "readPending" => q.phone = req[r].phone,
           req[r].step \notin {"createAccount", "findUser"} => q.password = req[r].password,
           req[r].step # "saveRefresh" => q.new = req[r].new,
           req[r].step # "listRefresh" => q.ids = req[r].ids,
           q.op = "verify" /\ step \in {"deleteOtp", "clearAttempts", "readPending", "saveToken"} => q.pin # 0,
           q.op \in {"complete", "driver"} => q.phone \in Phones /\ q.password # 0,
           q.op = "login" \/ (q.op = "refresh" /\ step = "saveRefresh") => q.password # 0
    PROVE  \E slot : Moved(r, slot) /\ Same(q, slot) /\ slot.step = step
<1>1. PICK slot \in RequestState : req' = [req EXCEPT ![r] = slot] /\ Same(q, slot) /\ slot.step = step
  BY UpdateMoves
<1>2. SlotFit(slot)
  BY <1>1 DEF SlotFit, Same, Follows
<1>3. Way(req[r], slot)
  BY <1>1 DEF Way, Same
<1> QED BY <1>1, <1>2, <1>3 DEF Moved

Moves(r) == \E slot : Moved(r, slot)

LEMMA PinMoves ==
    ASSUME TypeInv, NEW r \in Requests,
           SaveOtp(r) \/ Mail(r) \/ ReadOtp(r) \/ CountWrong(r) \/ ReadPending(r)
    PROVE  Moves(r)
<1> DEFINE q == req[r]
<1>1. req \in [Requests -> RequestState] /\ q \in RequestState /\ SlotFit(q) /\ "idle" \in Steps
  BY DEF TypeInv, TypeOK, Steps
<1>2. CASE Finish(r)
  BY <1>1, <1>2, GotoMoves DEF Finish, Moves
<1>3. CASE SaveOtp(r)
  <2> DEFINE k == Len(pin) + 1
             new == [q EXCEPT !.pin = k]
  <2>1. q.step = "saveOtp" /\ Update(r, new, After(q))
    BY <1>3 DEF SaveOtp
  <2>2. q.op = "ask" /\ After(q) = "clearAttempts" /\ k \in 0..MaxPins
    BY <1>1, <2>1, CallOf, AfterIs, RoomLeft
  <2> HIDE DEF k
  <2>3. /\ new \in RequestState /\ new.op = q.op /\ new.email = q.email
        /\ new.purpose = q.purpose /\ new.guess = q.guess
        /\ new.token = q.token /\ new.old = q.old
        /\ new.phone = q.phone /\ new.password = q.password /\ new.new = q.new /\ new.ids = q.ids
    BY <1>1, <2>2 DEF RequestState
  <2> HIDE DEF new
  <2>4. \E slot : Moved(r, slot) /\ Same(new, slot) /\ slot.step = "clearAttempts"
    BY <1>1, <2>1, <2>2, <2>3, StepMoves DEF Follows, Stages, SlotFit, Steps
  <2> QED BY <2>4 DEF Moves
<1>4. CASE ReadOtp(r) /\ ~Finish(r)
  <2> DEFINE stored == otp[q.purpose][q.email].pin
             new == [q EXCEPT !.pin = stored]
             step == IF stored = q.guess THEN "deleteOtp" ELSE "countWrong"
  <2>1. q.step = "readOtp" /\ stored # 0 /\ Update(r, new, step)
    BY <1>4 DEF ReadOtp
  <2>2. q.op = "verify" /\ q.email \in Emails /\ q.purpose \in Purposes
    BY <1>1, <2>1, CallOf DEF SlotFit, RequestState
  <2>3. stored \in 0..MaxPins
    BY <2>2 DEF TypeInv, TypeOK, OtpDoc
  <2> HIDE DEF stored
  <2>4. /\ new \in RequestState /\ new.op = q.op /\ new.email = q.email /\ new.pin = stored
        /\ new.purpose = q.purpose /\ new.guess = q.guess
        /\ new.token = q.token /\ new.old = q.old
        /\ new.phone = q.phone /\ new.password = q.password /\ new.new = q.new /\ new.ids = q.ids
    BY <1>1, <2>3 DEF RequestState
  <2> HIDE DEF new
  <2>5. step \in {"deleteOtp", "countWrong"} /\ step \in Steps /\ step # "idle"
    BY DEF Steps
  <2>6. Follows(q, step) /\ step \in Stages(new.op)
    BY <2>1, <2>2, <2>4, <2>5 DEF Follows, Stages
  <2> HIDE DEF step
  <2>7. \E slot : Moved(r, slot) /\ Same(new, slot) /\ slot.step = step
    BY <1>1, <2>1, <2>2, <2>4, <2>5, <2>6, StepMoves
  <2> QED BY <2>7 DEF Moves
<1>5. CASE CountWrong(r) /\ ~Finish(r)
  <2> DEFINE new == [q EXCEPT !.op = "lock"]
  <2>1. q.step = "countWrong" /\ Update(r, new, "deleteOtp")
    BY <1>5 DEF CountWrong
  <2>2. q.op = "verify" /\ q.email \in Emails
    BY <1>1, <2>1, CallOf DEF SlotFit
  <2>3. /\ new \in RequestState /\ new.op = "lock" /\ new.email = q.email /\ new.pin = q.pin
        /\ new.purpose = q.purpose /\ new.guess = q.guess
        /\ new.token = q.token /\ new.old = q.old
        /\ new.phone = q.phone /\ new.password = q.password /\ new.new = q.new /\ new.ids = q.ids
    BY <1>1 DEF RequestState, Ops
  <2> HIDE DEF new
  <2>4. \E slot : Moved(r, slot) /\ Same(new, slot) /\ slot.step = "deleteOtp"
    BY <1>1, <2>1, <2>2, <2>3, StepMoves DEF Follows, Stages, Steps
  <2> QED BY <2>4 DEF Moves
<1>6. CASE ReadPending(r)
  <2>1. q.step = "readPending"
    BY <1>6 DEF ReadPending
  <2>2. q.op = "verify" /\ q.email \in Emails /\ q.pin # 0 /\ q.purpose = "register"
    BY <1>1, <2>1, CallOf DEF SlotFit
  <2>3. Follows(q, "saveToken") /\ "saveToken" \in Stages(q.op) /\ "saveToken" \in Steps
    BY <2>1, <2>2 DEF Follows, Stages, Steps
  <2>4. CASE Goto(r, "saveToken")
    BY <1>1, <2>1, <2>3, <2>4, GotoMoves DEF Moves
  <2>5. CASE Update(r, [q EXCEPT !.phone = pending[q.email]], "saveToken")
    <3> DEFINE new == [q EXCEPT !.phone = pending[q.email]]
    <3>1. pending[q.email] \in Phones \cup {None}
      BY <2>2 DEF TypeInv, TypeOK
    <3>2. /\ new \in RequestState /\ new.op = q.op /\ new.email = q.email /\ new.pin = q.pin
          /\ new.purpose = q.purpose /\ new.guess = q.guess
          /\ new.token = q.token /\ new.old = q.old
          /\ new.password = q.password /\ new.new = q.new /\ new.ids = q.ids
      BY <1>1, <3>1 DEF RequestState
    <3>3. Update(r, new, "saveToken")
      BY <2>5
    <3> HIDE DEF new
    <3>4. \E slot : Moved(r, slot) /\ Same(new, slot) /\ slot.step = "saveToken"
      BY <1>1, <2>1, <2>2, <2>3, <3>2, <3>3, StepMoves
    <3> QED BY <3>4 DEF Moves
  <2> QED BY <1>6, <2>4, <2>5 DEF ReadPending
<1>7. CASE Mail(r)
  BY <1>2, <1>7 DEF Mail
<1> QED BY <1>2, <1>3, <1>4, <1>5, <1>6, <1>7

LEMMA AccountMoves ==
    ASSUME TypeInv, NEW r \in Requests,
           CreateAccount(r) \/ SavePassword(r) \/ FindUser(r) \/ SaveRefresh(r) \/ ListRefresh(r)
    PROVE  Moves(r)
<1> DEFINE q == req[r]
<1>1. req \in [Requests -> RequestState] /\ q \in RequestState /\ SlotFit(q) /\ "idle" \in Steps
  BY DEF TypeInv, TypeOK, Steps
<1>2. CASE Finish(r)
  BY <1>1, <1>2, GotoMoves DEF Finish, Moves
<1>3. CASE CreateAccount(r) /\ ~Finish(r)
  <2> DEFINE password == LatestPassword + 1
             new == [q EXCEPT !.password = password]
             step == IF q.op = "complete" THEN "deleteToken" ELSE "saveRefresh"
  <2>1. q.step = "createAccount" /\ Update(r, new, step)
    BY <1>3 DEF CreateAccount
  <2>2. q.op \in {"complete", "driver"} /\ q.email \in Emails /\ q.phone \in Phones
    BY <1>1, <2>1, CallOf DEF SlotFit
  <2>3. password \in 1..MaxPasswords
    BY <2>1, RoomLeft
  <2> HIDE DEF password
  <2>4. /\ new \in RequestState /\ new.op = q.op /\ new.email = q.email /\ new.password = password
        /\ new.purpose = q.purpose /\ new.guess = q.guess /\ new.phone = q.phone
        /\ new.token = q.token /\ new.old = q.old
        /\ new.pin = q.pin /\ new.new = q.new /\ new.ids = q.ids
    BY <1>1, <2>3 DEF RequestState
  <2> HIDE DEF new
  <2>5. step \in Steps /\ step # "idle" /\ Follows(q, step) /\ step \in Stages(q.op)
    BY <2>1, <2>2 DEF Steps, Follows, Stages
  <2>6. step \notin {"deleteOtp", "clearAttempts", "readPending", "saveToken"}
    OBVIOUS
  <2> HIDE DEF step
  <2>7. \E slot : Moved(r, slot) /\ Same(new, slot) /\ slot.step = step
    BY <1>1, <2>1, <2>2, <2>3, <2>4, <2>5, <2>6, StepMoves
  <2> QED BY <2>7 DEF Moves
<1>4. CASE SavePassword(r)
  <2>1. q.step = "savePassword" /\ Goto(r, "deleteToken")
    BY <1>4 DEF SavePassword
  <2>2. q.op = "reset"
    BY <1>1, <2>1, CallOf
  <2>3. Follows(q, "deleteToken") /\ "deleteToken" \in Stages(q.op) /\ "deleteToken" \in Steps
    BY <2>1, <2>2 DEF Follows, Stages, Steps
  <2> QED BY <1>1, <2>1, <2>2, <2>3, GotoMoves DEF Moves
<1>5. CASE FindUser(r) /\ ~Finish(r)
  <2> DEFINE password == account[q.email].password
             new == [q EXCEPT !.password = password]
  <2>1. q.step = "findUser" /\ account[q.email].isActive /\ Update(r, new, "saveRefresh")
    BY <1>5 DEF FindUser
  <2>2. q.op = "refresh" /\ q.email \in Emails
    BY <1>1, <2>1, CallOf DEF SlotFit
  <2>3. password \in 0..MaxPasswords /\ password # 0
    BY <2>1, <2>2 DEF TypeInv, TypeOK, AccountDoc
  <2> HIDE DEF password
  <2>4. /\ new \in RequestState /\ new.op = q.op /\ new.email = q.email /\ new.password = password
        /\ new.purpose = q.purpose /\ new.guess = q.guess /\ new.phone = q.phone
        /\ new.token = q.token /\ new.old = q.old
        /\ new.pin = q.pin /\ new.new = q.new /\ new.ids = q.ids
    BY <1>1, <2>3 DEF RequestState
  <2> HIDE DEF new
  <2>5. "saveRefresh" \in Steps /\ Follows(q, "saveRefresh") /\ "saveRefresh" \in Stages(q.op)
    BY <2>1, <2>2 DEF Steps, Follows, Stages
  <2>6. \E slot : Moved(r, slot) /\ Same(new, slot) /\ slot.step = "saveRefresh"
    BY <1>1, <2>1, <2>2, <2>3, <2>4, <2>5, StepMoves
  <2> QED BY <2>6 DEF Moves
<1>6. CASE SaveRefresh(r)
  <2> DEFINE new == [q EXCEPT !.new = Len(refresh) + 1]
  <2>1. q.step = "saveRefresh" /\ Update(r, new, "indexRefresh")
    BY <1>1, <1>6, AfterIs DEF SaveRefresh
  <2>2. q.op \in {"complete", "driver", "login", "refresh"} /\ q.email \in Emails /\ q.password # 0
    BY <1>1, <2>1, CallOf DEF SlotFit
  <2>3. Len(refresh) + 1 \in 0..MaxIssues
    BY <2>1, RoomLeft
  <2>4. /\ new \in RequestState /\ new.op = q.op /\ new.email = q.email /\ new.password = q.password
        /\ new.purpose = q.purpose /\ new.guess = q.guess /\ new.phone = q.phone
        /\ new.token = q.token /\ new.old = q.old
        /\ new.pin = q.pin /\ new.ids = q.ids
    BY <1>1, <2>3 DEF RequestState
  <2> HIDE DEF new
  <2>5. "indexRefresh" \in Steps /\ Follows(q, "indexRefresh") /\ "indexRefresh" \in Stages(q.op)
    BY <2>1, <2>2 DEF Steps, Follows, Stages
  <2>6. q.op \in {"complete", "driver"} => q.phone \in Phones
    BY <1>1 DEF SlotFit
  <2>7. \E slot : Moved(r, slot) /\ Same(new, slot) /\ slot.step = "indexRefresh"
    BY <1>1, <2>1, <2>2, <2>4, <2>5, <2>6, StepMoves
  <2> QED BY <2>7 DEF Moves
<1>7. CASE ListRefresh(r)
  <2>1. q.step = "listRefresh"
    BY <1>7 DEF ListRefresh
  <2>2. q.op \in {"reset", "logout"} /\ q.email \in Emails
    BY <1>1, <2>1, CallOf DEF SlotFit
  <2>3. Follows(q, "deleteRefresh") /\ "deleteRefresh" \in Stages(q.op) /\ "deleteRefresh" \in Steps
    BY <2>1, <2>2 DEF Follows, Stages, Steps
  <2>4. CASE Goto(r, "deleteRefresh")
    BY <1>1, <2>1, <2>3, <2>4, GotoMoves DEF Moves
  <2>5. CASE Update(r, [q EXCEPT !.ids = IndexOf(q.email)], "deleteRefresh")
    <3> DEFINE new == [q EXCEPT !.ids = IndexOf(q.email)]
    <3>1. IndexOf(q.email) \in SUBSET (1..MaxIssues)
      <4>1. Len(refresh) \in Nat /\ Len(refresh) <= MaxIssues /\ DOMAIN refresh = 1..Len(refresh)
        BY DEF TypeInv, TypeOK
      <4> QED BY <4>1, NoneIs DEF IndexOf
    <3>2. /\ new \in RequestState /\ new.op = q.op /\ new.email = q.email /\ new.pin = q.pin
          /\ new.purpose = q.purpose /\ new.guess = q.guess /\ new.phone = q.phone
          /\ new.token = q.token /\ new.old = q.old
          /\ new.password = q.password /\ new.new = q.new
      BY <1>1, <3>1 DEF RequestState
    <3>3. Update(r, new, "deleteRefresh")
      BY <2>5
    <3> HIDE DEF new
    <3>4. \E slot : Moved(r, slot) /\ Same(new, slot) /\ slot.step = "deleteRefresh"
      BY <1>1, <2>1, <2>2, <2>3, <3>2, <3>3, StepMoves
    <3> QED BY <3>4 DEF Moves
  <2> QED BY <1>7, <2>4, <2>5 DEF ListRefresh
<1> QED BY <1>2, <1>3, <1>4, <1>5, <1>6, <1>7

LEMMA ContinueMoves ==
    ASSUME TypeInv, NEW r \in Requests, Continue(r)
    PROVE  Moves(r)
<1>1. req[r] \in RequestState
  BY DEF TypeInv, TypeOK
<1>2. CASE Goto(r, After(req[r])) /\ After(req[r]) # "none"
  BY <1>2, WriteMoves DEF Moves
<1>3. CASE ClearAttempts(r) \/ SavePending(r) \/ DeleteOtp(r) \/ SaveToken(r)
  BY <1>1, <1>2, <1>3, AfterIs DEF ClearAttempts, SavePending, DeleteOtp, SaveToken, Write
<1>4. CASE DeleteToken(r) \/ DeletePending(r) \/ RevokeKey(r) \/ RevokeIndex(r) \/ IndexRefresh(r)
  BY <1>1, <1>2, <1>4, AfterIs DEF DeleteToken, DeletePending, RevokeKey, RevokeIndex, IndexRefresh, Write
<1>5. CASE SaveSession(r) \/ DeleteRefresh(r) \/ DeleteIndex(r) \/ DeleteSession(r)
  BY <1>1, <1>2, <1>5, AfterIs DEF SaveSession, DeleteRefresh, DeleteIndex, DeleteSession, Write
<1>6. CASE MissWrite(r)
  BY <1>2, <1>6 DEF MissWrite
<1> QED BY <1>3, <1>4, <1>5, <1>6, PinMoves, AccountMoves DEF Continue

-----------------------------------------------------------------------------
(* What a step does to the stores                                             *)

\* The steps that write each of them.
LEMMA Written ==
    ASSUME NEW r \in Requests, Continue(r)
    PROVE  /\ UNCHANGED pin \/ SaveOtp(r)
           /\ UNCHANGED otp \/ SaveOtp(r) \/ Mail(r) \/ ReadOtp(r) \/ DeleteOtp(r)
           /\ UNCHANGED attempts \/ ClearAttempts(r) \/ CountWrong(r)
           /\ UNCHANGED pending \/ SavePending(r) \/ DeletePending(r)
           /\ UNCHANGED token \/ SaveToken(r) \/ DeleteToken(r)
           /\ UNCHANGED refresh \/ RevokeKey(r) \/ RevokeIndex(r) \/ SaveRefresh(r) \/ IndexRefresh(r)
                \/ DeleteRefresh(r) \/ DeleteIndex(r)
           /\ UNCHANGED session \/ SaveSession(r) \/ DeleteSession(r)
           /\ UNCHANGED account \/ CreateAccount(r) \/ SavePassword(r)
           /\ UNCHANGED mishap \/ Mishap("fault")
<1>1. CASE SaveOtp(r) \/ ClearAttempts(r) \/ SavePending(r) \/ Mail(r)
  BY <1>1 DEF SaveOtp, ClearAttempts, SavePending, Mail, Write
<1>2. CASE ReadOtp(r) \/ CountWrong(r) \/ DeleteOtp(r) \/ ReadPending(r) \/ SaveToken(r)
  BY <1>2 DEF ReadOtp, CountWrong, DeleteOtp, ReadPending, SaveToken, Write, redis
<1>3. CASE CreateAccount(r) \/ SavePassword(r) \/ DeleteToken(r) \/ DeletePending(r)
  BY <1>3 DEF CreateAccount, SavePassword, DeleteToken, DeletePending, Write, redis
<1>4. CASE RevokeKey(r) \/ RevokeIndex(r) \/ FindUser(r) \/ SaveRefresh(r) \/ IndexRefresh(r)
  BY <1>4 DEF RevokeKey, RevokeIndex, FindUser, SaveRefresh, IndexRefresh, Write, redis
<1>5. CASE SaveSession(r) \/ ListRefresh(r) \/ DeleteRefresh(r) \/ DeleteIndex(r) \/ DeleteSession(r)
  BY <1>5 DEF SaveSession, ListRefresh, DeleteRefresh, DeleteIndex, DeleteSession, Write, redis
<1>6. CASE MissWrite(r)
  BY <1>6 DEF MissWrite, redis
<1> QED BY <1>1, <1>2, <1>3, <1>4, <1>5, <1>6 DEF Continue

\* A new PIN leaves the others.
LEMMA PinsGrow ==
    ASSUME TypeInv, NEW r \in Requests, Continue(r)
    PROVE  /\ pin' \in Seq(PinDoc) /\ Len(pin') <= MaxPins /\ Len(pin) <= Len(pin')
           /\ \A k \in DOMAIN pin : k \in DOMAIN pin' /\ pin'[k] = pin[k]
           /\ Len(pin) \in Nat /\ Len(pin') \in Nat
           /\ UNCHANGED pin \/ (SaveOtp(r) /\ Len(pin') = Len(pin) + 1)
<1>1. pin \in Seq(PinDoc) /\ Len(pin) <= MaxPins /\ Len(pin) \in Nat /\ DOMAIN pin = 1..Len(pin)
  BY DEF TypeInv, TypeOK
<1>2. CASE UNCHANGED pin
  BY <1>1, <1>2
<1>3. CASE SaveOtp(r)
  <2> DEFINE q == req[r]
             new == [purpose |-> q.purpose, email |-> q.email, phone |-> q.phone]
  <2>1. q.step = "saveOtp" /\ pin' = Append(pin, new)
    BY <1>3 DEF SaveOtp
  <2>2. q \in RequestState /\ SlotFit(q)
    BY DEF TypeInv, TypeOK
  <2>3. q.op = "ask"
    BY <2>1, <2>2, CallOf
  <2>4. new \in PinDoc
    BY <2>2, <2>3 DEF SlotFit, RequestState, PinDoc
  <2>5. Len(pin) + 1 \in 1..MaxPins
    BY <2>1, RoomLeft
  <2> HIDE DEF new
  <2>6. /\ pin' \in Seq(PinDoc) /\ Len(pin') = Len(pin) + 1
        /\ \A k \in 1..Len(pin) : k \in DOMAIN pin' /\ pin'[k] = pin[k]
    BY <1>1, <2>1, <2>4
  <2> QED BY <1>1, <1>3, <2>5, <2>6, NoneIs
<1> QED BY <1>2, <1>3, Written

LEMMA OtpType ==
    ASSUME TypeInv, NEW r \in Requests, Continue(r)
    PROVE  /\ otp' \in [Purposes -> [Emails -> OtpDoc]]
           /\ \A p \in Purposes, e \in Emails : otp'[p][e].pin <= Len(pin')
<1> DEFINE q == req[r]
<1>1. /\ otp \in [Purposes -> [Emails -> OtpDoc]] /\ q \in RequestState /\ SlotFit(q)
      /\ \A p \in Purposes, e \in Emails : otp[p][e].pin <= Len(pin)
      /\ \A s \in Requests : req[s].pin <= Len(pin)
  BY DEF TypeInv, TypeOK, KnownPins
<1>2. Len(pin) <= Len(pin') /\ Len(pin) \in Nat /\ Len(pin') \in Nat
  BY PinsGrow
<1>3. \A p \in Purposes, e \in Emails : otp[p][e] \in OtpDoc /\ otp[p][e].pin \in Nat
  BY <1>1, NoneIs DEF OtpDoc
<1>4. CASE UNCHANGED otp
  BY <1>1, <1>2, <1>3, <1>4
<1> DEFINE Puts(doc) == otp' = [otp EXCEPT ![q.purpose][q.email] = doc]
<1>5. ASSUME NEW doc \in OtpDoc, doc.pin <= Len(pin'), Puts(doc)
      PROVE  /\ otp' \in [Purposes -> [Emails -> OtpDoc]]
             /\ \A p \in Purposes, e \in Emails : otp'[p][e].pin <= Len(pin')
  <2>1. otp' \in [Purposes -> [Emails -> OtpDoc]]
    BY <1>1, <1>5
  <2>2. \A p \in Purposes, e \in Emails : otp'[p][e] = doc \/ otp'[p][e] = otp[p][e]
    BY <1>1, <1>5
  <2>3. \A p \in Purposes, e \in Emails : otp[p][e].pin <= Len(pin')
    BY <1>1, <1>2, <1>3
  <2> QED BY <1>5, <2>1, <2>2, <2>3
<1>6. NoOtp \in OtpDoc /\ NoOtp.pin = 0
  BY NoneIs DEF NoOtp, OtpDoc
<1>7. CASE SaveOtp(r)
  <2> DEFINE k == Len(pin) + 1
             doc == [NoOtp EXCEPT !.pin = k]
  <2>1. q.step = "saveOtp" /\ Puts(doc)
    BY <1>7 DEF SaveOtp
  <2>2. k \in 0..MaxPins
    BY <2>1, RoomLeft
  <2>3. Len(pin') = k
    <3>1. pin' = Append(pin, [purpose |-> q.purpose, email |-> q.email, phone |-> q.phone])
      BY <1>7 DEF SaveOtp
    <3>2. pin \in Seq(PinDoc)
      BY DEF TypeInv, TypeOK
    <3> QED BY <3>1, <3>2
  <2> HIDE DEF k
  <2>4. doc \in OtpDoc /\ doc.pin = k
    BY <2>2 DEF OtpDoc, NoOtp
  <2> HIDE DEF doc, Puts
  <2> QED BY <1>2, <1>5, <2>1, <2>3, <2>4
<1>8. CASE DeleteOtp(r)
  <2>1. Puts(NoOtp)
    BY <1>8 DEF DeleteOtp
  <2> HIDE DEF Puts
  <2> QED BY <1>2, <1>5, <1>6, <2>1
<1>9. CASE Mail(r) \/ ReadOtp(r)
  <2>1. q.step \in {"mail", "readOtp"}
    BY <1>9 DEF Mail, ReadOtp
  <2>2. q.email \in Emails /\ q.purpose \in Purposes
    BY <1>1, <2>1, CallOf DEF SlotFit, RequestState
  <2> DEFINE old == otp[q.purpose][q.email]
             mailed == [old EXCEPT !.mailed = TRUE]
             wrong == [old EXCEPT !.wrong = @ + 1]
  <2>3. old \in OtpDoc /\ old.pin <= Len(pin')
    BY <1>1, <1>2, <1>3, <2>2
  <2>4. mailed \in OtpDoc /\ mailed.pin = old.pin
    BY <2>3 DEF OtpDoc
  <2>6. wrong \in OtpDoc
    BY <2>3 DEF OtpDoc
  <2>7. wrong.pin = old.pin
    BY <2>3 DEF OtpDoc
  <2>5. \/ UNCHANGED otp
        \/ Puts(old)
        \/ Puts(mailed)
        \/ Puts(wrong)
    <3>1. CASE Mail(r)
      BY <1>1, <2>2, <3>1 DEF Mail
    <3>2. CASE ReadOtp(r)
      BY <1>1, <2>2, <3>2 DEF ReadOtp
    <3> QED BY <1>9, <3>1, <3>2
  <2> HIDE DEF old, mailed, wrong, Puts
  <2> QED BY <1>4, <1>5, <2>3, <2>4, <2>5, <2>6, <2>7
<1> QED BY <1>4, <1>7, <1>8, <1>9, Written

LEMMA MishapsType ==
    ASSUME TypeInv, NEW kinds \in SUBSET Kinds, Mishaps(kinds), Cardinality(kinds) \in 1..2
    PROVE  mishap' \in [Kinds -> 0..MaxMishaps]
<1>1. /\ mishap \in [Kinds -> 0..MaxMishaps] /\ MaxMishaps \in Nat
      /\ mishap["overlap"] \in Nat /\ mishap["crash"] \in Nat /\ mishap["fault"] \in Nat
  BY NoneIs DEF TypeInv, TypeOK, Kinds
<1>2. mishap["overlap"] + mishap["crash"] + mishap["fault"] + Cardinality(kinds) <= MaxMishaps
  BY DEF Mishaps
<1>3. mishap' = [kind \in Kinds |-> IF kind \in kinds THEN mishap[kind] + 1 ELSE mishap[kind]]
  BY DEF Mishaps
<1>4. ASSUME NEW kind \in Kinds PROVE mishap[kind] + 1 \in 0..MaxMishaps
  BY <1>1, <1>2 DEF Kinds
<1> QED BY <1>1, <1>3, <1>4

LEMMA MishapType ==
    ASSUME TypeInv, NEW kind \in Kinds, Mishap(kind)
    PROVE  mishap' \in [Kinds -> 0..MaxMishaps]
<1>1. Cardinality({kind}) = 1
  BY FS_Singleton
<1> QED BY <1>1, MishapsType DEF Mishap

LEMMA AttemptsType ==
    ASSUME TypeInv, NEW r \in Requests, Continue(r)
    PROVE  /\ attempts' \in [Purposes -> [Emails -> Nat]]
           /\ pending' \in [Emails -> Phones \cup {None}]
           /\ session' \in [Emails -> 0..MaxPasswords]
           /\ mishap' \in [Kinds -> 0..MaxMishaps]
<1> DEFINE q == req[r]
<1>1. /\ attempts \in [Purposes -> [Emails -> Nat]] /\ pending \in [Emails -> Phones \cup {None}]
      /\ session \in [Emails -> 0..MaxPasswords] /\ q \in RequestState /\ SlotFit(q)
      /\ mishap \in [Kinds -> 0..MaxMishaps]
  BY DEF TypeInv, TypeOK
<1>2. attempts' \in [Purposes -> [Emails -> Nat]]
  <2>1. CASE ClearAttempts(r)
    BY <1>1, <2>1 DEF ClearAttempts
  <2>2. CASE CountWrong(r)
    <3>1. q.step = "countWrong" /\ attempts' = [attempts EXCEPT ![q.purpose][q.email] = @ + 1]
      BY <2>2 DEF CountWrong
    <3>2. q.email \in Emails /\ q.purpose \in Purposes
      BY <1>1, <3>1, CallOf DEF SlotFit, RequestState
    <3> QED BY <1>1, <3>1, <3>2
  <2> QED BY <1>1, <2>1, <2>2, Written
<1>3. pending' \in [Emails -> Phones \cup {None}]
  <2>1. CASE SavePending(r)
    <3>1. pending' = [pending EXCEPT ![q.email] = q.phone] /\ q.phone \in Phones \cup {None}
      BY <1>1, <2>1 DEF SavePending, RequestState
    <3> QED BY <1>1, <3>1
  <2>2. CASE DeletePending(r)
    BY <1>1, <2>2 DEF DeletePending
  <2> QED BY <1>1, <2>1, <2>2, Written
<1>4. session' \in [Emails -> 0..MaxPasswords]
  <2>1. CASE SaveSession(r)
    <3>1. session' = [session EXCEPT ![q.email] = q.password] /\ q.password \in 0..MaxPasswords
      BY <1>1, <2>1 DEF SaveSession, RequestState
    <3> QED BY <1>1, <3>1
  <2>2. CASE DeleteSession(r)
    <3>1. session' = [session EXCEPT ![q.email] = 0] /\ 0 \in 0..MaxPasswords
      BY <2>2, NoneIs DEF DeleteSession
    <3> QED BY <1>1, <3>1
  <2> QED BY <1>1, <2>1, <2>2, Written
<1> QED BY <1>1, <1>2, <1>3, <1>4, MishapType, Written DEF Kinds

\* Tokens keep their PIN and phone number, or there is one more.
TokensKept ==
    /\ token' \in Seq(TokenDoc) /\ Len(token') = Len(token) /\ DOMAIN token' = DOMAIN token
    /\ \A t \in DOMAIN token : token'[t].pin = token[t].pin /\ token'[t].phone = token[t].phone

TokenMade(r) ==
    /\ SaveToken(r)
    /\ token' \in Seq(TokenDoc) /\ Len(token') = Len(token) + 1
    /\ token'[Len(token) + 1].pin = req[r].pin /\ token'[Len(token) + 1].phone = req[r].phone
    /\ \A t \in DOMAIN token : token'[t] = token[t]

LEMMA TokensMove ==
    ASSUME TypeInv, NEW r \in Requests, Continue(r)
    PROVE  TokensKept \/ TokenMade(r)
<1> DEFINE q == req[r]
<1>1. token \in Seq(TokenDoc) /\ q \in RequestState /\ SlotFit(q)
  BY DEF TypeInv, TypeOK
<1>2. CASE UNCHANGED token
  BY <1>1, <1>2 DEF TokensKept
<1>3. CASE SaveToken(r)
  <2> DEFINE doc == [pin |-> q.pin, phone |-> q.phone, live |-> TRUE]
  <2>1. q.step = "saveToken" /\ token' = Append(token, doc)
    BY <1>3 DEF SaveToken, Write
  <2>2. q.pin # 0
    BY <1>1, <2>1, CallOf DEF SlotFit
  <2>3. doc \in TokenDoc
    BY <1>1, <2>2, NoneIs DEF RequestState, TokenDoc
  <2>4. doc.pin = q.pin /\ doc.phone = q.phone
    OBVIOUS
  <2> HIDE DEF doc
  <2>5. /\ token' \in Seq(TokenDoc) /\ Len(token') = Len(token) + 1 /\ token'[Len(token) + 1] = doc
        /\ \A t \in DOMAIN token : token'[t] = token[t]
    BY <1>1, <2>1, <2>3
  <2> QED BY <1>3, <2>4, <2>5 DEF TokenMade
<1>4. CASE DeleteToken(r)
  <2>1. token' = [token EXCEPT ![q.token].live = FALSE]
    BY <1>4 DEF DeleteToken
  <2>2. Len(token) \in Nat /\ DOMAIN token = 1..Len(token) /\ DOMAIN token' = DOMAIN token
    BY <1>1, <2>1
  <2>3. ASSUME NEW t \in DOMAIN token
        PROVE  /\ token'[t] \in TokenDoc
               /\ token'[t].pin = token[t].pin /\ token'[t].phone = token[t].phone
    <3>1. token[t] \in TokenDoc
      BY <1>1
    <3>2. token'[t] = token[t] \/ token'[t] = [token[t] EXCEPT !.live = FALSE]
      BY <2>1
    <3>3. [token[t] EXCEPT !.live = FALSE] \in TokenDoc
      BY <3>1 DEF TokenDoc
    <3>4. /\ [token[t] EXCEPT !.live = FALSE].pin = token[t].pin
          /\ [token[t] EXCEPT !.live = FALSE].phone = token[t].phone
      BY <3>1 DEF TokenDoc
    <3> QED BY <3>1, <3>2, <3>3, <3>4
  <2>4. token' \in [1..Len(token) -> TokenDoc]
    BY <2>1, <2>2, <2>3
  <2>5. token' \in Seq(TokenDoc) /\ Len(token') = Len(token)
    BY <2>2, <2>4
  <2> QED BY <2>2, <2>3, <2>5 DEF TokensKept
<1> QED BY <1>2, <1>3, <1>4, Written

\* Refresh tokens keep what they were issued for and stay gone, or there is one more.
RefreshKept ==
    /\ refresh' \in Seq(RefreshDoc) /\ Len(refresh') = Len(refresh) /\ DOMAIN refresh' = DOMAIN refresh
    /\ \A i \in DOMAIN refresh :
        /\ refresh'[i].email = refresh[i].email /\ refresh'[i].password = refresh[i].password
        /\ refresh'[i].from = refresh[i].from /\ (refresh'[i].live => refresh[i].live)

RefreshMade(r) ==
    /\ SaveRefresh(r)
    /\ refresh' \in Seq(RefreshDoc) /\ Len(refresh') = Len(refresh) + 1
    /\ refresh'[Len(refresh) + 1].email = req[r].email
    /\ refresh'[Len(refresh) + 1].password = req[r].password
    /\ refresh'[Len(refresh) + 1].from = req[r].old
    /\ \A i \in DOMAIN refresh : refresh'[i] = refresh[i]

\* What becomes of one of them.
Keeps(old, doc) ==
    /\ doc \in RefreshDoc /\ doc.email = old.email /\ doc.password = old.password
    /\ doc.from = old.from /\ (doc.live => old.live)

LEMMA RefreshKeeps ==
    ASSUME NEW old \in RefreshDoc
    PROVE  /\ Keeps(old, old)
           /\ Keeps(old, [old EXCEPT !.live = FALSE])
           /\ Keeps(old, [old EXCEPT !.indexed = FALSE])
           /\ Keeps(old, [old EXCEPT !.indexed = TRUE])
<1>1. PICK b \in BOOLEAN : b = FALSE
  OBVIOUS
<1>2. PICK c \in BOOLEAN : c = TRUE
  OBVIOUS
<1>3. ASSUME NEW x \in BOOLEAN PROVE [old EXCEPT !.live = x] \in RefreshDoc
  BY <1>3 DEF RefreshDoc
<1>4. ASSUME NEW x \in BOOLEAN PROVE [old EXCEPT !.indexed = x] \in RefreshDoc
  BY <1>4 DEF RefreshDoc
<1>5. Keeps(old, [old EXCEPT !.live = FALSE])
  <2>1. [old EXCEPT !.live = FALSE] \in RefreshDoc
    BY <1>1, <1>3
  <2>2. ~[old EXCEPT !.live = FALSE].live
    BY DEF RefreshDoc
  <2>3. /\ [old EXCEPT !.live = FALSE].email = old.email
        /\ [old EXCEPT !.live = FALSE].password = old.password
        /\ [old EXCEPT !.live = FALSE].from = old.from
    BY DEF RefreshDoc
  <2> QED BY <2>1, <2>2, <2>3 DEF Keeps
<1>6. ASSUME NEW x \in BOOLEAN PROVE Keeps(old, [old EXCEPT !.indexed = x])
  <2>1. [old EXCEPT !.indexed = x] \in RefreshDoc
    BY <1>4
  <2>2. [old EXCEPT !.indexed = x].live = old.live
    BY DEF RefreshDoc
  <2>3. /\ [old EXCEPT !.indexed = x].email = old.email
        /\ [old EXCEPT !.indexed = x].password = old.password
        /\ [old EXCEPT !.indexed = x].from = old.from
    BY DEF RefreshDoc
  <2> QED BY <2>1, <2>2, <2>3 DEF Keeps
<1>7. Keeps(old, [old EXCEPT !.indexed = FALSE]) /\ Keeps(old, [old EXCEPT !.indexed = TRUE])
  BY <1>1, <1>2, <1>6
<1> QED BY <1>5, <1>7 DEF Keeps

LEMMA RefreshMove ==
    ASSUME TypeInv, NEW r \in Requests, Continue(r)
    PROVE  RefreshKept \/ RefreshMade(r)
<1> DEFINE q == req[r]
<1>1. refresh \in Seq(RefreshDoc) /\ q \in RequestState /\ SlotFit(q)
  BY DEF TypeInv, TypeOK
<1>2. CASE UNCHANGED refresh
  BY <1>1, <1>2 DEF RefreshKept
<1>3. CASE SaveRefresh(r)
  <2> DEFINE doc == [email |-> q.email, password |-> q.password,
                     live |-> TRUE, indexed |-> FALSE, from |-> q.old]
  <2>1. q.step = "saveRefresh" /\ refresh' = Append(refresh, doc)
    BY <1>3 DEF SaveRefresh
  <2>2. q.op \in {"complete", "driver", "login", "refresh"} /\ q.email \in Emails /\ q.password # 0
    BY <1>1, <2>1, CallOf DEF SlotFit
  <2>3. doc \in RefreshDoc
    BY <1>1, <2>2, NoneIs DEF RequestState, RefreshDoc
  <2>4. doc.email = q.email /\ doc.password = q.password /\ doc.from = q.old
    OBVIOUS
  <2> HIDE DEF doc
  <2>5. /\ refresh' \in Seq(RefreshDoc) /\ Len(refresh') = Len(refresh) + 1
        /\ refresh'[Len(refresh) + 1] = doc
        /\ \A i \in DOMAIN refresh : refresh'[i] = refresh[i]
    BY <1>1, <2>1, <2>3
  <2> QED BY <1>3, <2>4, <2>5 DEF RefreshMade
<1>4. Len(refresh) \in Nat /\ DOMAIN refresh = 1..Len(refresh)
  BY <1>1
<1>5. ASSUME DOMAIN refresh' = DOMAIN refresh, refresh' = [i \in DOMAIN refresh |-> refresh'[i]],
             \A i \in DOMAIN refresh : Keeps(refresh[i], refresh'[i])
      PROVE  RefreshKept
  <2>1. refresh' \in [1..Len(refresh) -> RefreshDoc]
    BY <1>4, <1>5 DEF Keeps
  <2>2. refresh' \in Seq(RefreshDoc) /\ Len(refresh') = Len(refresh)
    BY <1>4, <2>1
  <2> QED BY <1>5, <2>2 DEF RefreshKept, Keeps
<1>6. ASSUME NEW i \in DOMAIN refresh
      PROVE  /\ Keeps(refresh[i], refresh[i])
             /\ Keeps(refresh[i], [refresh[i] EXCEPT !.live = FALSE])
             /\ Keeps(refresh[i], [refresh[i] EXCEPT !.indexed = FALSE])
             /\ Keeps(refresh[i], [refresh[i] EXCEPT !.indexed = TRUE])
  <2>1. refresh[i] \in RefreshDoc
    BY <1>1
  <2> QED BY <2>1, RefreshKeeps
<1>7. CASE RevokeKey(r) \/ RevokeIndex(r) \/ (IndexRefresh(r) /\ ~UNCHANGED refresh)
  <2>1. PICK n : \/ refresh' = [refresh EXCEPT ![n].live = FALSE]
                 \/ refresh' = [refresh EXCEPT ![n].indexed = FALSE]
                 \/ refresh' = [refresh EXCEPT ![n].indexed = TRUE]
    BY <1>7 DEF RevokeKey, RevokeIndex, IndexRefresh
  <2>2. DOMAIN refresh' = DOMAIN refresh /\ refresh' = [i \in DOMAIN refresh |-> refresh'[i]]
    BY <1>1, <2>1
  <2>3. ASSUME NEW i \in DOMAIN refresh
        PROVE  refresh'[i] \in {refresh[i], [refresh[i] EXCEPT !.live = FALSE],
                                [refresh[i] EXCEPT !.indexed = FALSE], [refresh[i] EXCEPT !.indexed = TRUE]}
    BY <2>1
  <2>4. \A i \in DOMAIN refresh : Keeps(refresh[i], refresh'[i])
    BY <1>6, <2>3
  <2> QED BY <1>5, <2>2, <2>4
<1>8. CASE DeleteRefresh(r)
  <2>1. refresh' = [i \in DOMAIN refresh |->
            IF i \in q.ids THEN [refresh[i] EXCEPT !.live = FALSE] ELSE refresh[i]]
    BY <1>8 DEF DeleteRefresh
  <2>2. DOMAIN refresh' = DOMAIN refresh /\ refresh' = [i \in DOMAIN refresh |-> refresh'[i]]
    BY <2>1
  <2>3. ASSUME NEW i \in DOMAIN refresh
        PROVE  refresh'[i] = refresh[i] \/ refresh'[i] = [refresh[i] EXCEPT !.live = FALSE]
    BY <2>1
  <2>4. \A i \in DOMAIN refresh : Keeps(refresh[i], refresh'[i])
    BY <1>6, <2>3
  <2> QED BY <1>5, <2>2, <2>4
<1>9. CASE DeleteIndex(r)
  <2>1. refresh' = [i \in DOMAIN refresh |->
            IF i \in IndexOf(q.email) THEN [refresh[i] EXCEPT !.indexed = FALSE] ELSE refresh[i]]
    BY <1>9 DEF DeleteIndex
  <2>2. DOMAIN refresh' = DOMAIN refresh /\ refresh' = [i \in DOMAIN refresh |-> refresh'[i]]
    BY <2>1
  <2>3. ASSUME NEW i \in DOMAIN refresh
        PROVE  refresh'[i] = refresh[i] \/ refresh'[i] = [refresh[i] EXCEPT !.indexed = FALSE]
    BY <2>1
  <2>4. \A i \in DOMAIN refresh : Keeps(refresh[i], refresh'[i])
    BY <1>6, <2>3
  <2> QED BY <1>5, <2>2, <2>4
<1> QED BY <1>2, <1>3, <1>7, <1>8, <1>9, Written

-----------------------------------------------------------------------------
(* A handler that goes on keeps the type invariant                            *)

\* Room that was kept for a handler is used once.
LEMMA RoomUsed ==
    ASSUME TypeInv, NEW r \in Requests, NEW slot, Moved(r, slot)
    PROVE  /\ Asking' \subseteq Asking /\ r \notin Asking'
           /\ Verifying' \subseteq Verifying /\ (req[r].step = "saveToken" => r \notin Verifying')
           /\ Issuing' \subseteq Issuing /\ (req[r].step = "saveRefresh" => r \notin Issuing')
           /\ Setting' \subseteq Setting /\ r \notin Setting'
<1> DEFINE q == req[r]
<1>1. /\ req \in [Requests -> RequestState] /\ q \in RequestState /\ SlotFit(q)
      /\ req' = [req EXCEPT ![r] = slot] /\ slot \in RequestState
      /\ slot = Idle \/ Way(q, slot)
  BY DEF TypeInv, TypeOK, Moved
<1>2. req'[r] = slot /\ \A s \in Requests : s # r => req'[s] = req[s]
  BY <1>1
<1>3. slot.step \notin {"saveOtp", "createAccount", "savePassword"}
  BY <1>1, IdleIs DEF Way, Follows
<1>4. slot.op = "verify" => q.op = "verify" /\ q.step # "saveToken"
  <2>1. slot.op # "none" => Way(q, slot)
    BY <1>1, IdleIs
  <2>2. Follows(q, slot.step) /\ slot.step \in Steps => q.step # "saveToken"
    BY DEF Follows, Steps
  <2> QED BY <1>1, <2>1, <2>2 DEF Way, RequestState
<1>5. /\ slot.op \in {"complete", "driver", "login", "refresh"}
      /\ slot.step \notin {"indexRefresh", "saveSession"}
      => /\ q.op = slot.op /\ q.step \notin {"indexRefresh", "saveSession"}
         /\ q.step # "saveRefresh"
  <2>1. slot.op # "none" => Way(q, slot)
    BY <1>1, IdleIs
  <2>2. Follows(q, slot.step) /\ slot.step \in Steps /\ slot.step \notin {"indexRefresh", "saveSession"} =>
            q.step \notin {"indexRefresh", "saveSession", "saveRefresh"}
    BY DEF Follows, Steps
  <2> QED BY <1>1, <2>1, <2>2 DEF Way, RequestState
<1>6. Asking' \subseteq Asking /\ r \notin Asking' /\ Setting' \subseteq Setting /\ r \notin Setting'
  BY <1>2, <1>3 DEF Asking, Setting
<1>7. Verifying' \subseteq Verifying /\ (q.step = "saveToken" => r \notin Verifying')
  BY <1>2, <1>4 DEF Verifying
<1>8. Issuing' \subseteq Issuing /\ (q.step = "saveRefresh" => r \notin Issuing')
  BY <1>2, <1>5 DEF Issuing
<1> QED BY <1>6, <1>7, <1>8

LEMMA Fewer ==
    ASSUME NEW S \in SUBSET Requests, NEW T \in SUBSET S
    PROVE  /\ Cardinality(S) \in Nat /\ Cardinality(T) \in Nat /\ Cardinality(T) <= Cardinality(S)
           /\ \A r \in S \ T : Cardinality(T) + 1 <= Cardinality(S)
<1>1. IsFiniteSet(S) /\ Cardinality(S) \in Nat /\ T \in SUBSET Requests
  BY Member
<1>2. IsFiniteSet(T) /\ Cardinality(T) \in Nat /\ Cardinality(T) <= Cardinality(S)
  BY <1>1, Member, FS_Subset
<1>3. ASSUME NEW r \in S \ T PROVE Cardinality(T) + 1 <= Cardinality(S)
  <2>1. Cardinality(T \cup {r}) = Cardinality(T) + 1 /\ T \cup {r} \subseteq S
    BY <1>2, <1>3, FS_AddElement
  <2>2. Cardinality(T \cup {r}) <= Cardinality(S)
    BY <1>1, <2>1, FS_Subset
  <2> QED BY <2>1, <2>2
<1> QED BY <1>1, <1>2, <1>3

LEMMA SlotPin ==
    ASSUME TypeInv, NEW r \in Requests, Continue(r)
    PROVE  req'[r].pin <= Len(pin')
<1> DEFINE q == req[r]
<1>1. /\ req \in [Requests -> RequestState] /\ q \in RequestState /\ SlotFit(q) /\ q.pin <= Len(pin)
      /\ q.pin \in Nat
      /\ \A p \in Purposes, e \in Emails : otp[p][e].pin <= Len(pin)
  BY NoneIs DEF TypeInv, TypeOK, KnownPins, RequestState
<1>2. Len(pin) <= Len(pin') /\ Len(pin) \in Nat /\ Len(pin') \in Nat
  BY PinsGrow
<1>3. PICK slot : Moved(r, slot)
  BY ContinueMoves DEF Moves
<1>4. req'[r] = slot /\ (slot = Idle \/ Way(q, slot))
  BY <1>1, <1>3 DEF Moved
<1>5. CASE slot = Idle
  BY <1>2, <1>4, <1>5, IdleIs
<1>6. CASE Way(q, slot) /\ q.step \notin {"saveOtp", "readOtp"}
  BY <1>1, <1>2, <1>4, <1>6 DEF Way
<1>7. CASE SaveOtp(r) /\ slot # Idle
  <2>1. Update(r, [q EXCEPT !.pin = Len(pin) + 1], After(q)) /\ q.step = "saveOtp"
    BY <1>7 DEF SaveOtp
  <2>2. After(q) = "clearAttempts"
    BY <1>1, <2>1, AfterIs
  <2>3. req' = [req EXCEPT ![r] = [[q EXCEPT !.pin = Len(pin) + 1] EXCEPT !.step = "clearAttempts"]]
    BY <2>1, <2>2 DEF Update
  <2>4. req'[r].pin = Len(pin) + 1
    BY <1>1, <2>3 DEF RequestState
  <2>5. Len(pin') = Len(pin) + 1
    <3>1. pin' = Append(pin, [purpose |-> q.purpose, email |-> q.email, phone |-> q.phone])
      BY <1>7 DEF SaveOtp
    <3>2. pin \in Seq(PinDoc)
      BY DEF TypeInv, TypeOK
    <3> QED BY <3>1, <3>2
  <2> QED BY <1>2, <2>4, <2>5
<1>8. CASE ReadOtp(r) /\ slot # Idle
  <2> DEFINE stored == otp[q.purpose][q.email].pin
  <2>1. q.step = "readOtp" /\ UNCHANGED pin
    BY <1>8 DEF ReadOtp
  <2>2. q.email \in Emails /\ q.purpose \in Purposes
    BY <1>1, <2>1, CallOf DEF SlotFit, RequestState
  <2>3. stored <= Len(pin)
    BY <1>1, <2>2
  <2>4. \/ Finish(r)
        \/ Update(r, [q EXCEPT !.pin = stored], "deleteOtp")
        \/ Update(r, [q EXCEPT !.pin = stored], "countWrong")
    BY <1>8 DEF ReadOtp
  <2>5. ~Finish(r)
    BY <1>1, <1>4, <1>8 DEF Finish, Goto, Update
  <2> HIDE DEF stored
  <2>6. \/ req' = [req EXCEPT ![r] = [[q EXCEPT !.pin = stored] EXCEPT !.step = "deleteOtp"]]
        \/ req' = [req EXCEPT ![r] = [[q EXCEPT !.pin = stored] EXCEPT !.step = "countWrong"]]
    BY <2>4, <2>5 DEF Update
  <2>7. req'[r].pin = stored
    BY <1>1, <2>6 DEF RequestState
  <2> QED BY <2>1, <2>3, <2>7
<1>9. CASE MissWrite(r) /\ q.step = "saveOtp"
  <2>1. Goto(r, After(q)) /\ After(q) = "clearAttempts" /\ UNCHANGED pin
    BY <1>1, <1>9, AfterIs DEF MissWrite
  <2>2. req' = [req EXCEPT ![r] = [q EXCEPT !.step = "clearAttempts"]]
    BY <2>1 DEF Goto, Update
  <2>3. req'[r].pin = q.pin
    BY <1>1, <2>2 DEF RequestState
  <2> QED BY <1>1, <2>1, <2>3
<1>10. q.step = "readOtp" => ReadOtp(r)
  <2>1. q.step = "readOtp" => After(q) = "none"
    BY <1>1, AfterIs
  <2> QED BY <2>1 DEF Continue, SaveOtp, ClearAttempts, SavePending, Mail, ReadOtp, CountWrong, DeleteOtp,
              ReadPending, SaveToken, CreateAccount, SavePassword, DeleteToken, DeletePending, RevokeKey,
              RevokeIndex, FindUser, SaveRefresh, IndexRefresh, SaveSession, ListRefresh, DeleteRefresh,
              DeleteIndex, DeleteSession, MissWrite, Write
<1>11. q.step = "saveOtp" => SaveOtp(r) \/ MissWrite(r)
  BY DEF Continue, SaveOtp, ClearAttempts, SavePending, Mail, ReadOtp, CountWrong, DeleteOtp,
              ReadPending, SaveToken, CreateAccount, SavePassword, DeleteToken, DeletePending, RevokeKey,
              RevokeIndex, FindUser, SaveRefresh, IndexRefresh, SaveSession, ListRefresh, DeleteRefresh,
              DeleteIndex, DeleteSession, Write
<1> QED BY <1>4, <1>5, <1>6, <1>7, <1>8, <1>9, <1>10, <1>11

\* The accounts stay as they were, or one has a password after all others.
LEMMA AccountMove ==
    ASSUME TypeInv, NEW r \in Requests, Continue(r)
    PROVE  /\ account' \in [Emails -> AccountDoc]
           /\ \A e \in Emails : account'[e].isActive => account'[e].password # 0
           /\ \/ UNCHANGED account
              \/ /\ CreateAccount(r) \/ SavePassword(r)
                 /\ \A n : n = LatestPassword + 1 => Latest(n)'
<1> DEFINE q == req[r]
<1>1. /\ account \in [Emails -> AccountDoc] /\ q \in RequestState /\ SlotFit(q)
      /\ \A e \in Emails : account[e].isActive => account[e].password # 0
  BY DEF TypeInv, TypeOK
<1>2. CASE UNCHANGED account
  BY <1>1, <1>2
<1>3. ASSUME NEW e \in Emails, NEW doc \in AccountDoc, account' = [account EXCEPT ![e] = doc],
             doc.password = LatestPassword + 1, LatestPassword + 1 \in 1..MaxPasswords
      PROVE  /\ account' \in [Emails -> AccountDoc]
             /\ \A d \in Emails : account'[d].isActive => account'[d].password # 0
             /\ \A n : n = LatestPassword + 1 => Latest(n)'
  <2>1. account' \in [Emails -> AccountDoc]
    BY <1>1, <1>3
  <2>2. account'[e] = doc /\ \A d \in Emails : d # e => account'[d] = account[d]
    BY <1>1, <1>3
  <2>3. Latest(LatestPassword)
    BY RoomLeft
  <2>4. \A d \in Emails : account[d].password \in Nat /\ account[d].password <= LatestPassword
    BY <1>1, <2>3, NoneIs DEF Latest, AccountDoc
  <2>5. ASSUME NEW n, n = LatestPassword + 1 PROVE Latest(n)'
    <3>1. n \in 0..MaxPasswords /\ account'[e].password = n
      BY <1>3, <2>2, <2>5
    <3>2. \A d \in Emails : account'[d].password <= n
      BY <1>3, <2>2, <2>3, <2>4, <2>5 DEF Latest
    <3> QED BY <3>1, <3>2 DEF Latest
  <2>6. \A d \in Emails : account'[d].isActive => account'[d].password # 0
    BY <1>1, <1>3, <2>2
  <2> QED BY <2>1, <2>5, <2>6
<1>4. CASE CreateAccount(r) /\ ~UNCHANGED account
  <2> DEFINE new == LatestPassword + 1
             doc == [phone |-> q.phone, password |-> new, isActive |-> TRUE, pin |-> q.pin]
  <2>1. q.step = "createAccount" /\ account' = [account EXCEPT ![q.email] = doc]
    BY <1>4 DEF CreateAccount
  <2>2. q.email \in Emails /\ new \in 1..MaxPasswords
    BY <1>1, <2>1, CallOf, RoomLeft DEF SlotFit
  <2> HIDE DEF new
  <2>3. doc \in AccountDoc /\ doc.password = new
    BY <1>1, <2>2, NoneIs DEF AccountDoc, RequestState
  <2> HIDE DEF doc
  <2> QED BY <1>3, <1>4, <2>1, <2>2, <2>3 DEF new
<1>5. CASE SavePassword(r)
  <2> DEFINE new == LatestPassword + 1
             doc == [account[q.email] EXCEPT !.password = new]
  <2>1. q.step = "savePassword" /\ account' = [account EXCEPT ![q.email] = doc]
    BY <1>5 DEF SavePassword
  <2>2. q.email \in Emails /\ new \in 1..MaxPasswords
    BY <1>1, <2>1, CallOf, RoomLeft DEF SlotFit
  <2> HIDE DEF new
  <2>3. account[q.email] \in AccountDoc
    BY <1>1, <2>2
  <2>4. doc \in AccountDoc
    BY <2>2, <2>3, NoneIs DEF AccountDoc
  <2>5. doc.password = new
    BY <2>3 DEF AccountDoc
  <2> HIDE DEF doc
  <2> QED BY <1>3, <1>5, <2>1, <2>2, <2>4, <2>5 DEF new
<1> QED BY <1>2, <1>4, <1>5, Written

LEMMA ContinueRoom ==
    ASSUME TypeInv, NEW r \in Requests, Continue(r)
    PROVE  Room'
<1>1. PICK slot : Moved(r, slot)
  BY ContinueMoves DEF Moves
<1>2. /\ Asking' \subseteq Asking /\ r \notin Asking'
      /\ Verifying' \subseteq Verifying /\ (req[r].step = "saveToken" => r \notin Verifying')
      /\ Issuing' \subseteq Issuing /\ (req[r].step = "saveRefresh" => r \notin Issuing')
      /\ Setting' \subseteq Setting /\ r \notin Setting'
  BY <1>1, RoomUsed
<1>3. /\ Asking \in SUBSET Requests /\ Verifying \in SUBSET Requests
      /\ Issuing \in SUBSET Requests /\ Setting \in SUBSET Requests
  BY DEF Asking, Verifying, Issuing, Setting
<1>4. req[r] \in RequestState /\ SlotFit(req[r])
  BY DEF TypeInv, TypeOK
<1>5. Len(pin') + Cardinality(Asking') <= MaxPins
  <2> DEFINE a == Cardinality(Asking)
             b == Cardinality(Asking')
  <2>1. a \in Nat /\ b \in Nat /\ b <= a /\ (r \in Asking => b + 1 <= a)
    BY <1>2, <1>3, Fewer
  <2>2. Len(pin) + a <= MaxPins /\ Len(pin) \in Nat
    BY DEF TypeInv, Room, TypeOK
  <2> HIDE DEF a, b
  <2>3. UNCHANGED pin \/ (r \in Asking /\ Len(pin') = Len(pin) + 1)
    BY PinsGrow DEF SaveOtp, Asking
  <2>4. Len(pin') + b <= MaxPins
    BY <2>1, <2>2, <2>3, NoneIs
  <2> QED BY <2>4 DEF b
<1>6. Len(token') + Cardinality(Verifying') <= MaxTokens
  <2> DEFINE a == Cardinality(Verifying)
             b == Cardinality(Verifying')
  <2>1. a \in Nat /\ b \in Nat /\ b <= a /\ (r \in Verifying /\ req[r].step = "saveToken" => b + 1 <= a)
    BY <1>2, <1>3, Fewer
  <2>2. Len(token) + a <= MaxTokens /\ Len(token) \in Nat
    BY DEF TypeInv, Room, TypeOK
  <2>3. req[r].step = "saveToken" => r \in Verifying
    BY <1>4, CallOf DEF Verifying
  <2> HIDE DEF a, b
  <2>4. Len(token') = Len(token) \/ (req[r].step = "saveToken" /\ Len(token') = Len(token) + 1)
    BY TokensMove DEF TokensKept, TokenMade, SaveToken, Write
  <2>5. Len(token') + b <= MaxTokens
    BY <2>1, <2>2, <2>3, <2>4, NoneIs
  <2> QED BY <2>5 DEF b
<1>7. Len(refresh') + Cardinality(Issuing') <= MaxIssues
  <2> DEFINE a == Cardinality(Issuing)
             b == Cardinality(Issuing')
  <2>1. a \in Nat /\ b \in Nat /\ b <= a /\ (r \in Issuing /\ req[r].step = "saveRefresh" => b + 1 <= a)
    BY <1>2, <1>3, Fewer
  <2>2. Len(refresh) + a <= MaxIssues /\ Len(refresh) \in Nat
    BY DEF TypeInv, Room, TypeOK
  <2>3. req[r].step = "saveRefresh" => r \in Issuing
    BY <1>4, CallOf DEF Issuing
  <2> HIDE DEF a, b
  <2>4. Len(refresh') = Len(refresh) \/ (req[r].step = "saveRefresh" /\ Len(refresh') = Len(refresh) + 1)
    BY RefreshMove DEF RefreshKept, RefreshMade, SaveRefresh
  <2>5. Len(refresh') + b <= MaxIssues
    BY <2>1, <2>2, <2>3, <2>4, NoneIs
  <2> QED BY <2>5 DEF b
<1>8. \E n : Latest(n)' /\ n + Cardinality(Setting') <= MaxPasswords
  <2> DEFINE a == Cardinality(Setting)
             b == Cardinality(Setting')
  <2>1. a \in Nat /\ b \in Nat /\ b <= a /\ (r \in Setting => b + 1 <= a)
    BY <1>2, <1>3, Fewer
  <2>2. PICK n : Latest(n) /\ n + a <= MaxPasswords
    BY DEF TypeInv, Room
  <2>3. LatestPassword = n /\ n \in Nat
    <3>1. n \in Nat
      BY <2>2, NoneIs DEF Latest
    <3>2. Latest(n)
      BY <2>2
    <3> QED BY <3>1, <3>2, LatestIs
  <2>4. CASE UNCHANGED account
    <3>1. Latest(n)'
      BY <2>2, <2>4 DEF Latest
    <3> HIDE DEF a, b
    <3>2. n + b <= MaxPasswords
      BY <2>1, <2>2, <2>3, NoneIs
    <3> QED BY <3>1, <3>2 DEF b
  <2>5. CASE ~UNCHANGED account
    <3>1. PICK m : m = n + 1
      OBVIOUS
    <3>2. Latest(m)' /\ r \in Setting
      BY <2>3, <2>5, <3>1, AccountMove DEF CreateAccount, SavePassword, Setting
    <3> HIDE DEF a, b
    <3>3. m + b <= MaxPasswords
      BY <2>1, <2>2, <2>3, <3>1, <3>2, NoneIs
    <3> QED BY <3>2, <3>3 DEF b
  <2> QED BY <2>4, <2>5
<1>9. /\ Room' <=> /\ Len(pin') + Cardinality(Asking') <= MaxPins
                   /\ Len(token') + Cardinality(Verifying') <= MaxTokens
                   /\ Len(refresh') + Cardinality(Issuing') <= MaxIssues
                   /\ \E n : Latest(n)' /\ n + Cardinality(Setting') <= MaxPasswords
  BY DEF Room
<1> QED BY <1>5, <1>6, <1>7, <1>8, <1>9

LEMMA ContinueTyped ==
    ASSUME TypeInv, NEW r \in Requests, Continue(r)
    PROVE  TypeInv'
<1> DEFINE q == req[r]
<1>1. req \in [Requests -> RequestState] /\ KnownPins /\ \A s \in Requests : SlotFit(req[s])
  BY DEF TypeInv, TypeOK
<1>2. PICK slot : Moved(r, slot)
  BY ContinueMoves DEF Moves
<1>3. req' \in [Requests -> RequestState]
  BY <1>1, <1>2 DEF Moved
<1>4. req'[r] = slot /\ \A s \in Requests : s # r => req'[s] = req[s]
  BY <1>1, <1>2 DEF Moved
<1>5. \A s \in Requests : SlotFit(req'[s])
  BY <1>1, <1>2, <1>4 DEF Moved
<1>6. token' \in Seq(TokenDoc) /\ refresh' \in Seq(RefreshDoc)
  BY TokensMove, RefreshMove DEF TokensKept, TokenMade, RefreshKept, RefreshMade
<1>7. Room'
  BY ContinueRoom
<1>8. Len(token') <= MaxTokens /\ Len(refresh') <= MaxIssues
  <2>1. Cardinality(Verifying') \in Nat /\ Cardinality(Issuing') \in Nat
    <3>1. Verifying' \in SUBSET Requests /\ Issuing' \in SUBSET Requests
      BY DEF Verifying, Issuing
    <3> QED BY <3>1, Member
  <2>2. Len(token') \in Nat /\ Len(refresh') \in Nat
    BY <1>6
  <2>3. Len(token') + Cardinality(Verifying') <= MaxTokens /\ Len(refresh') + Cardinality(Issuing') <= MaxIssues
    BY <1>7 DEF Room
  <2> DEFINE a == Cardinality(Verifying')
             b == Cardinality(Issuing')
  <2> HIDE DEF a, b
  <2>4. a \in Nat /\ b \in Nat /\ Len(token') + a <= MaxTokens /\ Len(refresh') + b <= MaxIssues
    BY <2>1, <2>3 DEF a, b
  <2> QED BY <2>2, <2>4, NoneIs
<1>9. TypeOK'
  BY <1>3, <1>6, <1>8, PinsGrow, OtpType, AttemptsType, AccountMove DEF TypeOK
<1>10. KnownPins'
  <2>1. Len(pin) <= Len(pin') /\ Len(pin) \in Nat /\ Len(pin') \in Nat
    BY PinsGrow
  <2>2. ASSUME NEW s \in Requests PROVE req'[s].pin <= Len(pin')
    <3>1. req[s].pin \in Nat /\ req[s].pin <= Len(pin)
      BY <1>1, NoneIs DEF KnownPins, RequestState
    <3>2. CASE s = r
      BY <3>2, SlotPin
    <3>3. CASE s # r
      BY <1>4, <2>1, <3>1, <3>3
    <3> QED BY <3>2, <3>3
  <2>3. \A p \in Purposes, e \in Emails : otp'[p][e].pin <= Len(pin')
    BY OtpType
  <2>4. ASSUME NEW t \in DOMAIN token' PROVE token'[t].pin <= Len(pin')
    <3>1. \A u \in DOMAIN token : token[u].pin <= Len(pin) /\ token[u].pin \in Nat
      <4>1. \A u \in DOMAIN token : token[u].pin <= Len(pin)
        BY <1>1 DEF KnownPins
      <4>2. token \in Seq(TokenDoc)
        BY DEF TypeInv, TypeOK
      <4>3. \A u \in DOMAIN token : token[u] \in TokenDoc
        BY <4>2
      <4> QED BY <4>1, <4>3, NoneIs DEF TokenDoc
    <3>2. CASE TokensKept
      BY <2>1, <2>4, <3>1, <3>2 DEF TokensKept
    <3>3. CASE TokenMade(r)
      <4>1. token \in Seq(TokenDoc) /\ Len(token) \in Nat
        BY DEF TypeInv, TypeOK
      <4>2. t \in DOMAIN token \/ t = Len(token) + 1
        BY <2>4, <3>3, <4>1 DEF TokenMade
      <4>3. q.pin <= Len(pin) /\ q.pin \in Nat
        BY <1>1, NoneIs DEF KnownPins, RequestState
      <4> QED BY <2>1, <3>1, <3>3, <4>2, <4>3 DEF TokenMade
    <3> QED BY <3>2, <3>3, TokensMove
  <2> QED BY <2>2, <2>3, <2>4 DEF KnownPins
<1> QED BY <1>5, <1>7, <1>9, <1>10, AccountMove DEF TypeInv

-----------------------------------------------------------------------------
(* A handler that starts, and the other steps                                 *)

\* The room that a handler of the kind asks for before it starts.
RoomFor(op) ==
    /\ op = "ask" => Len(pin) + Cardinality(Running({"ask"})) < MaxPins
    /\ op = "verify" => Len(token) + Cardinality(Running({"verify"})) < MaxTokens
    /\ op \in {"complete", "driver", "login", "refresh"} => RoomToIssue
    /\ op \in {"complete", "driver", "reset"} => RoomForPassword

\* A handler enters with the slot.
Enters(r, slot) ==
    /\ req[r] = Idle
    /\ slot \in RequestState /\ SlotFit(slot) /\ slot.pin <= Len(pin)
    /\ RoomFor(slot.op)
    /\ req' = [req EXCEPT ![r] = slot]
    /\ UNCHANGED <<account, redis, pin>>

\* It starts with what it read,
Starts(r, slot) ==
    /\ Enters(r, slot)
    /\ slot.op = "verify" => attempts[slot.purpose][slot.email] < MaxAttempts
    /\ IF Quiet THEN UNCHANGED mishap ELSE Mishap("overlap")

\* or its first read fails.
StartsUnread(r, slot) ==
    /\ Enters(r, slot)
    /\ Mishaps(IF Quiet THEN {"fault"} ELSE {"overlap", "fault"})

\* A set of handlers that gains at most one fits in the room that was left for it.
LEMMA StillFits ==
    ASSUME NEW S \in SUBSET Requests, NEW T \in SUBSET Requests, NEW R \in SUBSET Requests,
           NEW r \in Requests, NEW n \in Nat, NEW bound \in Nat,
           n + Cardinality(S) <= bound,
           T \subseteq S \/ (T \subseteq S \cup {r} /\ S \subseteq R /\ n + Cardinality(R) < bound)
    PROVE  n + Cardinality(T) <= bound
<1> DEFINE s == Cardinality(S)
           t == Cardinality(T)
           k == Cardinality(R)
<1>1. IsFiniteSet(R) /\ k \in Nat /\ t \in Nat /\ s \in Nat
  BY Member
<1>2. CASE T \subseteq S
  <2>1. t <= s
    BY <1>2, Fewer
  <2> QED BY <1>1, <2>1
<1>3. CASE T \subseteq S \cup {r} /\ S \subseteq R /\ n + Cardinality(R) < bound
  <2>1. /\ IsFiniteSet(R \cup {r})
        /\ Cardinality(R \cup {r}) = k + 1 \/ Cardinality(R \cup {r}) = k
    BY <1>1, FS_AddElement
  <2>2. t <= Cardinality(R \cup {r})
    BY <1>3, <2>1, FS_Subset
  <2>3. n + k < bound
    BY <1>3
  <2> HIDE DEF k, t
  <2>4. n + t <= bound
    BY <1>1, <2>1, <2>2, <2>3
  <2> QED BY <2>4 DEF t
<1> QED BY <1>2, <1>3

LEMMA StartRoom ==
    ASSUME TypeInv, NEW r \in Requests, NEW slot, Enters(r, slot)
    PROVE  Room'
<1>1. /\ req \in [Requests -> RequestState] /\ req[r] = Idle /\ slot \in RequestState /\ SlotFit(slot)
      /\ req' = [req EXCEPT ![r] = slot] /\ RoomFor(slot.op)
      /\ UNCHANGED <<account, pin, token, refresh>>
  BY DEF TypeInv, TypeOK, Enters, redis
<1>2. req'[r] = slot /\ \A s \in Requests : s # r => req'[s] = req[s]
  BY <1>1
<1>3. \A s \in Requests : req[s] \in RequestState /\ SlotFit(req[s])
  BY DEF TypeInv, TypeOK
<1>4. Len(pin) \in Nat /\ Len(token) \in Nat /\ Len(refresh) \in Nat
  BY DEF TypeInv, TypeOK
<1>5. Len(pin) + Cardinality(Asking') <= MaxPins
  <2> DEFINE R == Running({"ask"})
  <2>1. /\ Asking \in SUBSET Requests /\ Asking' \in SUBSET Requests /\ R \in SUBSET Requests
        /\ Asking' \subseteq Asking \cup {r} /\ Asking \subseteq R
    BY <1>2, <1>3, CallOf DEF Asking, Running
  <2>2. slot.op # "ask" => Asking' \subseteq Asking
    BY <1>1, <1>2, CallOf DEF Asking
  <2>3. slot.op = "ask" => Len(pin) + Cardinality(R) < MaxPins
    BY <1>1 DEF RoomFor
  <2>4. Len(pin) + Cardinality(Asking) <= MaxPins
    BY DEF TypeInv, Room
  <2> HIDE DEF R
  <2> QED BY <1>4, <2>1, <2>2, <2>3, <2>4, NoneIs, StillFits
<1>6. Len(token) + Cardinality(Verifying') <= MaxTokens
  <2> DEFINE R == Running({"verify"})
  <2>1. /\ Verifying \in SUBSET Requests /\ Verifying' \in SUBSET Requests /\ R \in SUBSET Requests
        /\ Verifying' \subseteq Verifying \cup {r} /\ Verifying \subseteq R
    BY <1>2 DEF Verifying, Running
  <2>2. slot.op # "verify" => Verifying' \subseteq Verifying
    BY <1>2 DEF Verifying
  <2>3. slot.op = "verify" => Len(token) + Cardinality(R) < MaxTokens
    BY <1>1 DEF RoomFor
  <2>4. Len(token) + Cardinality(Verifying) <= MaxTokens
    BY DEF TypeInv, Room
  <2> HIDE DEF R
  <2> QED BY <1>4, <2>1, <2>2, <2>3, <2>4, NoneIs, StillFits
<1>7. Len(refresh) + Cardinality(Issuing') <= MaxIssues
  <2> DEFINE R == Running({"complete", "driver", "login", "refresh"})
  <2>1. /\ Issuing \in SUBSET Requests /\ Issuing' \in SUBSET Requests /\ R \in SUBSET Requests
        /\ Issuing' \subseteq Issuing \cup {r} /\ Issuing \subseteq R
    BY <1>2 DEF Issuing, Running
  <2>2. slot.op \notin {"complete", "driver", "login", "refresh"} => Issuing' \subseteq Issuing
    BY <1>2 DEF Issuing
  <2>3. slot.op \in {"complete", "driver", "login", "refresh"} => Len(refresh) + Cardinality(R) < MaxIssues
    BY <1>1 DEF RoomFor, RoomToIssue
  <2>4. Len(refresh) + Cardinality(Issuing) <= MaxIssues
    BY DEF TypeInv, Room
  <2> HIDE DEF R
  <2> QED BY <1>4, <2>1, <2>2, <2>3, <2>4, NoneIs, StillFits
<1>8. \E n : Latest(n)' /\ n + Cardinality(Setting') <= MaxPasswords
  <2> DEFINE R == Running({"complete", "driver", "reset"})
  <2>1. PICK n : Latest(n) /\ n + Cardinality(Setting) <= MaxPasswords
    BY DEF TypeInv, Room
  <2>2. n \in Nat /\ Latest(n)
    BY <2>1, NoneIs DEF Latest
  <2>3. Latest(n)' /\ LatestPassword = n
    BY <1>1, <2>2, LatestIs DEF Latest
  <2>4. /\ Setting \in SUBSET Requests /\ Setting' \in SUBSET Requests /\ R \in SUBSET Requests
        /\ Setting' \subseteq Setting \cup {r} /\ Setting \subseteq R
    BY <1>2, <1>3, CallOf DEF Setting, Running
  <2>5. slot.op \notin {"complete", "driver", "reset"} => Setting' \subseteq Setting
    BY <1>1, <1>2, CallOf DEF Setting
  <2>6. slot.op \in {"complete", "driver", "reset"} => n + Cardinality(R) < MaxPasswords
    BY <1>1, <2>3 DEF RoomFor, RoomForPassword
  <2> HIDE DEF R
  <2>7. n + Cardinality(Setting') <= MaxPasswords
    BY <2>1, <2>2, <2>4, <2>5, <2>6, NoneIs, StillFits
  <2> QED BY <2>3, <2>7
<1>9. /\ Room' <=> /\ Len(pin') + Cardinality(Asking') <= MaxPins
                   /\ Len(token') + Cardinality(Verifying') <= MaxTokens
                   /\ Len(refresh') + Cardinality(Issuing') <= MaxIssues
                   /\ \E n : Latest(n)' /\ n + Cardinality(Setting') <= MaxPasswords
  BY DEF Room
<1> QED BY <1>1, <1>5, <1>6, <1>7, <1>8, <1>9

\* What a mishap does to the counters.
LEMMA MishapAdds ==
    ASSUME TypeInv, NEW kind \in Kinds, Mishap(kind)
    PROVE  /\ mishap'[kind] = mishap[kind] + 1 /\ mishap'[kind] # 0
           /\ \A other \in Kinds : other # kind => mishap'[other] = mishap[other]
BY NoneIs DEF TypeInv, TypeOK, Mishap, Mishaps

\* What a handler whose first read fails does to them.
LEMMA UnreadAdds ==
    ASSUME TypeInv, NEW r, NEW slot, StartsUnread(r, slot)
    PROVE  /\ mishap' \in [Kinds -> 0..MaxMishaps]
           /\ mishap'["fault"] = mishap["fault"] + 1 /\ mishap'["fault"] # 0
           /\ mishap'["crash"] = mishap["crash"]
           /\ mishap'["overlap"] = IF Quiet THEN mishap["overlap"] ELSE mishap["overlap"] + 1
           /\ \A kind \in Kinds : mishap'[kind] = 0 => mishap[kind] = 0
<1> DEFINE kinds == IF Quiet THEN {"fault"} ELSE {"overlap", "fault"}
<1>1. Mishaps(kinds) /\ kinds \in SUBSET Kinds
  BY DEF StartsUnread, Kinds
<1>2. Cardinality(kinds) \in 1..2
  <2>1. Cardinality({"fault"}) = 1
    BY FS_Singleton
  <2>2. Cardinality({"overlap", "fault"}) = 2
    <3>1. IsFiniteSet({"fault"}) /\ "overlap" \notin {"fault"}
      BY FS_Singleton
    <3>2. Cardinality({"fault"} \cup {"overlap"}) = Cardinality({"fault"}) + 1
      BY <3>1, FS_AddElement
    <3>3. {"fault"} \cup {"overlap"} = {"overlap", "fault"}
      OBVIOUS
    <3> QED BY <2>1, <3>2, <3>3
  <2> QED BY <2>1, <2>2
<1>3. mishap' \in [Kinds -> 0..MaxMishaps]
  BY <1>1, <1>2, MishapsType
<1>4. mishap \in [Kinds -> 0..MaxMishaps] /\ \A kind \in Kinds : mishap[kind] \in Nat
  BY NoneIs DEF TypeInv, TypeOK
<1>5. \A kind \in Kinds : mishap'[kind] = IF kind \in kinds THEN mishap[kind] + 1 ELSE mishap[kind]
  BY <1>1 DEF Mishaps
<1>6. "fault" \in Kinds /\ "overlap" \in Kinds /\ "crash" \in Kinds
  BY DEF Kinds
<1> QED BY <1>3, <1>4, <1>5, <1>6

LEMMA StartTyped ==
    ASSUME TypeInv, NEW r \in Requests, NEW slot, Starts(r, slot) \/ StartsUnread(r, slot)
    PROVE  TypeInv'
<1>0. Enters(r, slot)
  BY DEF Starts, StartsUnread
<1>1. /\ req \in [Requests -> RequestState] /\ slot \in RequestState /\ SlotFit(slot)
      /\ slot.pin <= Len(pin) /\ req' = [req EXCEPT ![r] = slot]
      /\ UNCHANGED <<account, otp, attempts, pending, token, refresh, session, pin>>
  BY <1>0 DEF TypeInv, TypeOK, Enters, redis
<1>2. req' \in [Requests -> RequestState] /\ \A s \in Requests : req'[s] = IF s = r THEN slot ELSE req[s]
  BY <1>1
<1>3. mishap' \in [Kinds -> 0..MaxMishaps]
  <2>1. "overlap" \in Kinds /\ mishap \in [Kinds -> 0..MaxMishaps]
    BY DEF Kinds, TypeInv, TypeOK
  <2>2. CASE Starts(r, slot)
    BY <2>1, <2>2, MishapType DEF Starts
  <2>3. CASE StartsUnread(r, slot)
    BY <2>3, UnreadAdds
  <2> QED BY <2>2, <2>3
<1>4. TypeOK'
  BY <1>1, <1>2, <1>3 DEF TypeInv, TypeOK
<1>5. KnownPins'
  BY <1>1, <1>2 DEF TypeInv, KnownPins
<1>6. \A s \in Requests : SlotFit(req'[s])
  BY <1>1, <1>2 DEF TypeInv
<1> QED BY <1>0, <1>1, <1>4, <1>5, <1>6, StartRoom DEF TypeInv

\* What a handler is given when it starts.
Born(slot) ==
    /\ slot.op \notin {"none", "lock"} /\ slot.new = 0 /\ slot.ids = {}
    /\ slot.op # "refresh" => slot.old = 0
    /\ slot.op # "login" => slot.password = 0
    /\ slot.op \notin {"complete", "reset"} => slot.pin = 0 /\ slot.token = 0
    /\ slot.op \in {"verify", "reset", "login", "refresh", "logout"} => slot.phone = None
    /\ slot.op = "ask" =>
        /\ slot.step = "saveOtp"
        /\ \/ slot.purpose = "register" /\ ~Taken(slot.email) /\ slot.phone \in Phones
           \/ slot.purpose = "reset" /\ Taken(slot.email) /\ slot.phone = None
    /\ slot.op = "verify" =>
        /\ slot.step = "readOtp"
        /\ slot.guess # 0 => otp[slot.purpose][slot.email].mailed /\ slot.guess = otp[slot.purpose][slot.email].pin
    /\ slot.op = "complete" =>
        /\ slot.step = "createAccount" /\ slot.token \in DOMAIN token
        /\ slot.pin = token[slot.token].pin /\ slot.phone = token[slot.token].phone
        /\ pin[slot.pin].purpose = "register" /\ slot.email = pin[slot.pin].email
    /\ slot.op = "driver" => slot.step = "createAccount" /\ ~Taken(slot.email)
    /\ slot.op = "reset" =>
        /\ slot.step = "savePassword" /\ slot.token \in DOMAIN token
        /\ slot.pin = token[slot.token].pin
        /\ pin[slot.pin].purpose = "reset" /\ slot.email = pin[slot.pin].email
    /\ slot.op = "login" =>
        /\ slot.step = "saveRefresh"
        /\ account[slot.email].isActive /\ slot.password = account[slot.email].password
    /\ slot.op = "refresh" =>
        /\ slot.step = "revokeKey" /\ slot.old \in DOMAIN refresh
        /\ refresh[slot.old].live /\ slot.email = refresh[slot.old].email
        /\ \A other \in Requests : req[other].new # slot.old
    /\ slot.op = "logout" => slot.step = "listRefresh"

LEMMA BeginEnters ==
    ASSUME TypeInv, NEW r \in Requests, Begin(r)
    PROVE  \E slot : (Starts(r, slot) \/ StartsUnread(r, slot)) /\ Born(slot)
<1>1. /\ Len(pin) \in Nat /\ Len(pin) <= MaxPins /\ DOMAIN pin = 1..Len(pin)
      /\ Len(token) \in Nat /\ Len(token) <= MaxTokens /\ DOMAIN token = 1..Len(token)
      /\ Len(refresh) \in Nat /\ Len(refresh) <= MaxIssues /\ DOMAIN refresh = 1..Len(refresh)
      /\ 0 \in 0..MaxPins
  BY NoneIs DEF TypeInv, TypeOK
<1> DEFINE Given(op, step, state, slot) ==
               /\ op \in Ops /\ step \in Steps /\ Enter(r, op, step, state)
               /\ slot = [state EXCEPT !.op = op, !.step = step]
<1>0. ASSUME NEW op, NEW step, NEW state \in RequestState, NEW slot, Given(op, step, state, slot),
             SlotFit(slot), slot.pin <= Len(pin), RoomFor(slot.op)
      PROVE  Enters(r, slot)
  <2>1. slot \in RequestState
    BY <1>0 DEF RequestState
  <2> QED BY <1>0, <2>1 DEF Enters, Enter
<1>2. ASSUME NEW op, NEW step, NEW state \in RequestState, NEW slot, Given(op, step, state, slot),
             SlotFit(slot), slot.pin <= Len(pin), RoomFor(slot.op), slot.op # "verify",
             Start(r, op, step, state)
      PROVE  Starts(r, slot)
  BY <1>0, <1>2 DEF Starts, Start
<1> HIDE DEF Given
<1>3. ASSUME NEW p \in Purposes, NEW e \in Emails, NEW phone \in Phones \cup {None}, Ask(r, p, e, phone),
             (p = "register" /\ ~Taken(e) /\ phone \in Phones) \/ (p = "reset" /\ Taken(e) /\ phone = None)
      PROVE  \E slot : (Starts(r, slot) \/ StartsUnread(r, slot)) /\ Born(slot)
  <2> DEFINE state == [Idle EXCEPT !.purpose = p, !.email = e, !.phone = phone]
             slot == [state EXCEPT !.op = "ask", !.step = "saveOtp"]
  <2>1. Start(r, "ask", "saveOtp", state) /\ Len(pin) + Cardinality(Running({"ask"})) < MaxPins
    BY <1>3 DEF Ask
  <2>2. state \in RequestState
    BY <1>1, NoneIs, IdleIs DEF RequestState
  <2>3. /\ slot.op = "ask" /\ slot.step = "saveOtp" /\ slot.purpose = p /\ slot.email = e /\ slot.phone = phone
        /\ slot.pin = 0 /\ slot.guess = 0 /\ slot.token = 0 /\ slot.old = 0 /\ slot.new = 0
        /\ slot.password = 0 /\ slot.ids = {}
    BY DEF Idle
  <2> HIDE DEF state
  <2>4. PICK s : s = slot
    OBVIOUS
  <2> HIDE DEF slot
  <2>5. SlotFit(s)
    BY <2>3, <2>4 DEF SlotFit, Stages
  <2>6. Born(s)
    BY <1>3, <2>3, <2>4 DEF Born
  <2>7. RoomFor(s.op)
    BY <2>1, <2>3, <2>4 DEF RoomFor
  <2>8. Given("ask", "saveOtp", state, s)
    BY <2>1, <2>4 DEF slot, Given, Ops, Steps, Start
  <2>9. Starts(r, s)
    BY <1>1, <1>2, <2>1, <2>2, <2>3, <2>4, <2>5, <2>7, <2>8
  <2> QED BY <2>6, <2>9
<1>4. ASSUME NEW p \in Purposes, NEW e \in Emails, NEW guess \in {0} \cup DOMAIN pin, Verify(r, p, e, guess)
      PROVE  \E slot : (Starts(r, slot) \/ StartsUnread(r, slot)) /\ Born(slot)
  <2> DEFINE state == [Idle EXCEPT !.purpose = p, !.email = e, !.guess = guess]
             slot == [state EXCEPT !.op = "verify", !.step = "readOtp"]
  <2>1. /\ Len(token) + Cardinality(Running({"verify"})) < MaxTokens
        /\ guess # 0 => otp[p][e].mailed /\ guess = otp[p][e].pin
        /\ \/ attempts[p][e] < MaxAttempts /\ Start(r, "verify", "readOtp", state)
           \/ StartUnread(r, "verify", "readOtp", state)
    BY <1>4 DEF Verify
  <2>2. state \in RequestState
    <3>1. guess \in 0..MaxPins
      BY <1>1, <1>4, NoneIs
    <3> QED BY <3>1, IdleIs DEF RequestState
  <2>3. /\ slot.op = "verify" /\ slot.step = "readOtp" /\ slot.purpose = p /\ slot.email = e /\ slot.phone = None
        /\ slot.pin = 0 /\ slot.guess = guess /\ slot.token = 0 /\ slot.old = 0 /\ slot.new = 0
        /\ slot.password = 0 /\ slot.ids = {}
    BY DEF Idle
  <2> HIDE DEF state
  <2>4. PICK s : s = slot
    OBVIOUS
  <2> HIDE DEF slot
  <2>5. SlotFit(s)
    BY <2>3, <2>4 DEF SlotFit, Stages
  <2>6. Born(s)
    BY <2>1, <2>3, <2>4 DEF Born
  <2>7. RoomFor(s.op)
    BY <2>1, <2>3, <2>4 DEF RoomFor
  <2>8. Given("verify", "readOtp", state, s)
    BY <2>1, <2>4 DEF slot, Given, Ops, Steps, Start, StartUnread
  <2>9. Enters(r, s)
    BY <1>1, <1>0, <2>2, <2>3, <2>4, <2>5, <2>7, <2>8
  <2>10. Starts(r, s) \/ StartsUnread(r, s)
    BY <2>1, <2>3, <2>4, <2>9 DEF Starts, StartsUnread, Start, StartUnread
  <2> QED BY <2>6, <2>10
<1>5. ASSUME NEW e \in Emails, NEW phone \in Phones, DriverRegister(r, e, phone)
      PROVE  \E slot : (Starts(r, slot) \/ StartsUnread(r, slot)) /\ Born(slot)
  <2> DEFINE state == [Idle EXCEPT !.email = e, !.phone = phone]
             slot == [state EXCEPT !.op = "driver", !.step = "createAccount"]
  <2>1. /\ Start(r, "driver", "createAccount", state) /\ RoomToIssue /\ RoomForPassword
        /\ ~Taken(e)
    BY <1>5 DEF DriverRegister
  <2>2. state \in RequestState
    BY <1>1, NoneIs, IdleIs DEF RequestState
  <2>3. /\ slot.op = "driver" /\ slot.step = "createAccount" /\ slot.purpose = "register" /\ slot.email = e
        /\ slot.phone = phone
        /\ slot.pin = 0 /\ slot.guess = 0 /\ slot.token = 0 /\ slot.old = 0 /\ slot.new = 0
        /\ slot.password = 0 /\ slot.ids = {}
    BY DEF Idle
  <2> HIDE DEF state
  <2>4. PICK s : s = slot
    OBVIOUS
  <2> HIDE DEF slot
  <2>5. SlotFit(s)
    BY <2>3, <2>4 DEF SlotFit, Stages
  <2>6. Born(s)
    BY <2>1, <2>3, <2>4 DEF Born
  <2>7. RoomFor(s.op)
    BY <2>1, <2>3, <2>4 DEF RoomFor
  <2>8. Given("driver", "createAccount", state, s)
    BY <2>1, <2>4 DEF slot, Given, Ops, Steps, Start
  <2>9. Starts(r, s)
    BY <1>1, <1>2, <2>1, <2>2, <2>3, <2>4, <2>5, <2>7, <2>8
  <2> QED BY <2>6, <2>9
<1>6. ASSUME NEW t \in DOMAIN token, Complete(r, t)
      PROVE  \E slot : (Starts(r, slot) \/ StartsUnread(r, slot)) /\ Born(slot)
  <2> DEFINE k == token[t].pin
             state == [Idle EXCEPT !.email = pin[k].email, !.phone = token[t].phone, !.pin = k, !.token = t]
             slot == [state EXCEPT !.op = "complete", !.step = "createAccount"]
  <2>1. /\ Start(r, "complete", "createAccount", state) /\ RoomToIssue /\ RoomForPassword
        /\ pin[k].purpose = "register" /\ token[t].phone # None
    BY <1>6 DEF Complete
  <2>2. k \in 1..MaxPins /\ k <= Len(pin) /\ token[t].phone \in Phones
    <3>1. token[t] \in TokenDoc
      BY DEF TypeInv, TypeOK
    <3> QED BY <2>1, <3>1 DEF TokenDoc, TypeInv, KnownPins
  <2> HIDE DEF k
  <2>3. pin[k] \in PinDoc
    <3>1. k \in DOMAIN pin
      BY <1>1, <2>2, NoneIs
    <3> QED BY <3>1 DEF TypeInv, TypeOK
  <2>4. pin[k].email \in Emails /\ t \in 0..MaxTokens
    BY <1>1, <1>6, <2>3, NoneIs DEF PinDoc
  <2>5. state \in RequestState
    <3>1. k \in 0..MaxPins
      BY <2>2, NoneIs
    <3> QED BY <2>2, <2>4, <3>1, IdleIs DEF RequestState
  <2>6. /\ slot.op = "complete" /\ slot.step = "createAccount" /\ slot.purpose = "register"
        /\ slot.email = pin[k].email /\ slot.phone = token[t].phone
        /\ slot.pin = k /\ slot.guess = 0 /\ slot.token = t /\ slot.old = 0 /\ slot.new = 0
        /\ slot.password = 0 /\ slot.ids = {}
    BY DEF Idle
  <2> HIDE DEF state
  <2>7. PICK s : s = slot
    OBVIOUS
  <2> HIDE DEF slot
  <2>8. SlotFit(s)
    BY <2>2, <2>4, <2>6, <2>7 DEF SlotFit, Stages
  <2>9. Born(s)
    BY <1>6, <2>1, <2>6, <2>7 DEF Born, k
  <2>10. RoomFor(s.op)
    BY <2>1, <2>6, <2>7 DEF RoomFor
  <2>11. Given("complete", "createAccount", state, s)
    BY <2>1, <2>7 DEF slot, Given, Ops, Steps, Start
  <2>12. Starts(r, s)
    BY <2>1, <1>2, <2>2, <2>5, <2>6, <2>7, <2>8, <2>10, <2>11
  <2> QED BY <2>9, <2>12
<1>7. ASSUME NEW t \in DOMAIN token, ResetPassword(r, t)
      PROVE  \E slot : (Starts(r, slot) \/ StartsUnread(r, slot)) /\ Born(slot)
  <2> DEFINE k == token[t].pin
             state == [Idle EXCEPT !.email = pin[k].email, !.pin = k, !.token = t]
             slot == [state EXCEPT !.op = "reset", !.step = "savePassword"]
  <2>1. Start(r, "reset", "savePassword", state) /\ RoomForPassword /\ pin[k].purpose = "reset"
    BY <1>7 DEF ResetPassword
  <2>2. k \in 1..MaxPins /\ k <= Len(pin)
    <3>1. token[t] \in TokenDoc
      BY DEF TypeInv, TypeOK
    <3> QED BY <2>1, <3>1 DEF TokenDoc, TypeInv, KnownPins
  <2> HIDE DEF k
  <2>3. pin[k] \in PinDoc
    <3>1. k \in DOMAIN pin
      BY <1>1, <2>2, NoneIs
    <3> QED BY <3>1 DEF TypeInv, TypeOK
  <2>4. pin[k].email \in Emails /\ t \in 0..MaxTokens
    BY <1>1, <1>7, <2>3, NoneIs DEF PinDoc
  <2>5. state \in RequestState
    <3>1. k \in 0..MaxPins
      BY <2>2, NoneIs
    <3> QED BY <2>2, <2>4, <3>1, IdleIs DEF RequestState
  <2>6. /\ slot.op = "reset" /\ slot.step = "savePassword" /\ slot.purpose = "register"
        /\ slot.email = pin[k].email /\ slot.phone = None
        /\ slot.pin = k /\ slot.guess = 0 /\ slot.token = t /\ slot.old = 0 /\ slot.new = 0
        /\ slot.password = 0 /\ slot.ids = {}
    BY DEF Idle
  <2> HIDE DEF state
  <2>7. PICK s : s = slot
    OBVIOUS
  <2> HIDE DEF slot
  <2>8. SlotFit(s)
    BY <2>2, <2>4, <2>6, <2>7 DEF SlotFit, Stages
  <2>9. Born(s)
    BY <1>7, <2>1, <2>6, <2>7 DEF Born, k
  <2>10. RoomFor(s.op)
    BY <2>1, <2>6, <2>7 DEF RoomFor
  <2>11. Given("reset", "savePassword", state, s)
    BY <2>1, <2>7 DEF slot, Given, Ops, Steps, Start
  <2>12. Starts(r, s)
    BY <2>1, <1>2, <2>2, <2>5, <2>6, <2>7, <2>8, <2>10, <2>11
  <2> QED BY <2>9, <2>12
<1>8. \A e \in Emails : /\ account[e].password \in 0..MaxPasswords
                        /\ account[e].isActive => account[e].password # 0
  BY DEF TypeInv, TypeOK, AccountDoc
<1>9. ASSUME NEW e \in Emails, Login(r, e)
      PROVE  \E slot : (Starts(r, slot) \/ StartsUnread(r, slot)) /\ Born(slot)
  <2> DEFINE state == [Idle EXCEPT !.email = e, !.password = account[e].password]
             slot == [state EXCEPT !.op = "login", !.step = "saveRefresh"]
  <2>1. Start(r, "login", "saveRefresh", state) /\ RoomToIssue /\ account[e].isActive
    BY <1>9 DEF Login
  <2>2. account[e].password \in 0..MaxPasswords /\ account[e].password # 0
    BY <1>8, <2>1
  <2>3. state \in RequestState
    BY <2>2, IdleIs DEF RequestState
  <2>4. /\ slot.op = "login" /\ slot.step = "saveRefresh" /\ slot.purpose = "register" /\ slot.email = e
        /\ slot.phone = None /\ slot.pin = 0 /\ slot.guess = 0 /\ slot.token = 0 /\ slot.old = 0
        /\ slot.new = 0 /\ slot.password = account[e].password /\ slot.ids = {}
    BY DEF Idle
  <2> HIDE DEF state
  <2>5. PICK s : s = slot
    OBVIOUS
  <2> HIDE DEF slot
  <2>6. SlotFit(s)
    BY <2>2, <2>4, <2>5 DEF SlotFit, Stages
  <2>7. Born(s)
    BY <2>1, <2>4, <2>5 DEF Born
  <2>8. RoomFor(s.op)
    BY <2>1, <2>4, <2>5 DEF RoomFor
  <2>9. Given("login", "saveRefresh", state, s)
    BY <2>1, <2>5 DEF slot, Given, Ops, Steps, Start
  <2>10. Starts(r, s)
    BY <2>1, <1>1, <1>2, <2>3, <2>4, <2>5, <2>6, <2>8, <2>9
  <2> QED BY <2>7, <2>10
<1>10. ASSUME NEW e \in Emails, Logout(r, e)
      PROVE  \E slot : (Starts(r, slot) \/ StartsUnread(r, slot)) /\ Born(slot)
  <2> DEFINE state == [Idle EXCEPT !.email = e]
             slot == [state EXCEPT !.op = "logout", !.step = "listRefresh"]
  <2>1. Start(r, "logout", "listRefresh", state)
    BY <1>10 DEF Logout
  <2>2. state \in RequestState
    BY IdleIs DEF RequestState
  <2>3. /\ slot.op = "logout" /\ slot.step = "listRefresh" /\ slot.purpose = "register" /\ slot.email = e
        /\ slot.phone = None /\ slot.pin = 0 /\ slot.guess = 0 /\ slot.token = 0 /\ slot.old = 0
        /\ slot.new = 0 /\ slot.password = 0 /\ slot.ids = {}
    BY DEF Idle
  <2> HIDE DEF state
  <2>4. PICK s : s = slot
    OBVIOUS
  <2> HIDE DEF slot
  <2>5. SlotFit(s)
    BY <2>1, <2>3, <2>4 DEF SlotFit, Stages
  <2>6. Born(s)
    BY <2>1, <2>3, <2>4 DEF Born
  <2>7. RoomFor(s.op)
    BY <2>1, <2>3, <2>4 DEF RoomFor
  <2>8. Given("logout", "listRefresh", state, s)
    BY <2>1, <2>4 DEF slot, Given, Ops, Steps, Start
  <2>9. Starts(r, s)
    BY <1>1, <1>2, <2>1, <2>2, <2>3, <2>4, <2>5, <2>7, <2>8
  <2> QED BY <2>6, <2>9
<1>11. ASSUME NEW i \in DOMAIN refresh, Refresh(r, i)
      PROVE  \E slot : (Starts(r, slot) \/ StartsUnread(r, slot)) /\ Born(slot)
  <2> DEFINE state == [Idle EXCEPT !.email = refresh[i].email, !.old = i]
             slot == [state EXCEPT !.op = "refresh", !.step = "revokeKey"]
  <2>1. /\ Start(r, "refresh", "revokeKey", state) /\ RoomToIssue /\ refresh[i].live
        /\ \A other \in Requests : req[other].new # i
    BY <1>11 DEF Refresh
  <2>2. refresh[i] \in RefreshDoc
    BY DEF TypeInv, TypeOK
  <2>3. refresh[i].email \in Emails /\ i \in 0..MaxIssues
    BY <1>1, <1>11, <2>2, NoneIs DEF RefreshDoc
  <2>4. state \in RequestState
    BY <1>1, <2>3, NoneIs, IdleIs DEF RequestState
  <2>5. /\ slot.op = "refresh" /\ slot.step = "revokeKey" /\ slot.purpose = "register"
        /\ slot.email = refresh[i].email /\ slot.phone = None
        /\ slot.pin = 0 /\ slot.guess = 0 /\ slot.token = 0 /\ slot.old = i /\ slot.new = 0
        /\ slot.password = 0 /\ slot.ids = {}
    BY DEF Idle
  <2> HIDE DEF state
  <2>6. PICK s : s = slot
    OBVIOUS
  <2> HIDE DEF slot
  <2>7. SlotFit(s)
    BY <2>3, <2>5, <2>6 DEF SlotFit, Stages
  <2>8. Born(s)
    BY <1>11, <2>1, <2>5, <2>6 DEF Born
  <2>9. RoomFor(s.op)
    BY <2>1, <2>5, <2>6 DEF RoomFor
  <2>10. Given("refresh", "revokeKey", state, s)
    BY <2>1, <2>6 DEF slot, Given, Ops, Steps, Start
  <2>11. Starts(r, s)
    BY <1>1, <1>2, <2>1, <2>4, <2>5, <2>6, <2>7, <2>9, <2>10
  <2> QED BY <2>8, <2>11
<1>12. CASE \E e \in Emails, phone \in Phones : Initiate(r, e, phone)
  <2>1. "register" \in Purposes
    BY DEF Purposes
  <2> QED BY <1>3, <1>12, <2>1 DEF Initiate
<1>13. CASE \E e \in Emails : ForgotPassword(r, e)
  <2>1. "reset" \in Purposes
    BY DEF Purposes
  <2> QED BY <1>3, <1>13, <2>1 DEF ForgotPassword
<1> QED BY <1>4, <1>5, <1>6, <1>7, <1>9, <1>11, <1>12, <1>13, <1>10 DEF Begin

\* As long as Redis answers, a handler starts with what it read.
LEMMA BeginStarts ==
    ASSUME TypeInv, NEW r \in Requests, Begin(r), mishap'["fault"] = 0
    PROVE  \E slot : Starts(r, slot) /\ Born(slot)
BY BeginEnters, UnreadAdds

\* Steps that no handler takes: a deactivation, an expiry, a crash.

LEMMA RoomStays ==
    ASSUME TypeInv, UNCHANGED <<pin, token, refresh>>,
           \A e \in Emails : account'[e].password = account[e].password,
           Asking' \subseteq Asking, Verifying' \subseteq Verifying,
           Issuing' \subseteq Issuing, Setting' \subseteq Setting
    PROVE  Room'
<1>1. Len(pin) \in Nat /\ Len(token) \in Nat /\ Len(refresh) \in Nat
  BY DEF TypeInv, TypeOK
<1>2. /\ Asking \in SUBSET Requests /\ Verifying \in SUBSET Requests
      /\ Issuing \in SUBSET Requests /\ Setting \in SUBSET Requests
  BY DEF Asking, Verifying, Issuing, Setting
<1>3. /\ Cardinality(Asking') <= Cardinality(Asking) /\ Cardinality(Asking) \in Nat /\ Cardinality(Asking') \in Nat
      /\ Cardinality(Verifying') <= Cardinality(Verifying) /\ Cardinality(Verifying) \in Nat
      /\ Cardinality(Verifying') \in Nat
      /\ Cardinality(Issuing') <= Cardinality(Issuing) /\ Cardinality(Issuing) \in Nat
      /\ Cardinality(Issuing') \in Nat
      /\ Cardinality(Setting') <= Cardinality(Setting) /\ Cardinality(Setting) \in Nat
      /\ Cardinality(Setting') \in Nat
  BY <1>2, Fewer
<1>4. PICK n : Latest(n) /\ n + Cardinality(Setting) <= MaxPasswords
  BY DEF TypeInv, Room
<1>5. Latest(n)' /\ n \in Nat
  BY <1>4, NoneIs DEF Latest
<1>6. /\ Len(pin) + Cardinality(Asking) <= MaxPins
      /\ Len(token) + Cardinality(Verifying) <= MaxTokens
      /\ Len(refresh) + Cardinality(Issuing) <= MaxIssues
  BY DEF TypeInv, Room
<1> DEFINE a == Cardinality(Asking)
           b == Cardinality(Verifying)
           c == Cardinality(Issuing)
           d == Cardinality(Setting)
           aa == Cardinality(Asking')
           bb == Cardinality(Verifying')
           cc == Cardinality(Issuing')
           dd == Cardinality(Setting')
<1> HIDE DEF a, b, c, d, aa, bb, cc, dd
<1>7. /\ aa <= a /\ a \in Nat /\ aa \in Nat /\ bb <= b /\ b \in Nat /\ bb \in Nat
      /\ cc <= c /\ c \in Nat /\ cc \in Nat /\ dd <= d /\ d \in Nat /\ dd \in Nat
      /\ Len(pin) + a <= MaxPins /\ Len(token) + b <= MaxTokens
      /\ Len(refresh) + c <= MaxIssues /\ n + d <= MaxPasswords
  BY <1>3, <1>4, <1>6 DEF a, b, c, d, aa, bb, cc, dd
<1>8. /\ Len(pin) + aa <= MaxPins /\ Len(token) + bb <= MaxTokens
      /\ Len(refresh) + cc <= MaxIssues /\ n + dd <= MaxPasswords
  <2>1. \A x \in Nat, y \in Nat, z \in Nat, k \in Nat : x + y <= k /\ z <= y => x + z <= k
    OBVIOUS
  <2> QED BY <1>1, <1>5, <1>7, <2>1, NoneIs
<1>9. /\ Len(pin') + Cardinality(Asking') <= MaxPins
      /\ Len(token') + Cardinality(Verifying') <= MaxTokens
      /\ Len(refresh') + Cardinality(Issuing') <= MaxIssues
      /\ \E m : Latest(m)' /\ m + Cardinality(Setting') <= MaxPasswords
  BY <1>5, <1>8 DEF aa, bb, cc, dd
<1>10. /\ Room' <=> /\ Len(pin') + Cardinality(Asking') <= MaxPins
                    /\ Len(token') + Cardinality(Verifying') <= MaxTokens
                    /\ Len(refresh') + Cardinality(Issuing') <= MaxIssues
                    /\ \E m : Latest(m)' /\ m + Cardinality(Setting') <= MaxPasswords
  BY DEF Room
<1> QED BY <1>9, <1>10

LEMMA DeactivateTyped ==
    ASSUME TypeInv, NEW e \in Emails, Deactivate(e)
    PROVE  TypeInv'
<1>1. /\ account \in [Emails -> AccountDoc] /\ account[e].isActive
      /\ account' = [account EXCEPT ![e].isActive = FALSE]
      /\ UNCHANGED <<otp, attempts, pending, token, refresh, session, pin, req, mishap>>
  BY DEF TypeInv, TypeOK, Deactivate, redis
<1>2. account[e] \in AccountDoc
  BY <1>1
<1>3. [account[e] EXCEPT !.isActive = FALSE] \in AccountDoc
  BY <1>2 DEF AccountDoc
<1>4. /\ [account[e] EXCEPT !.isActive = FALSE].password = account[e].password
      /\ ~[account[e] EXCEPT !.isActive = FALSE].isActive
  BY <1>2 DEF AccountDoc
<1>5. \A d \in Emails : account'[d] = IF d = e THEN [account[e] EXCEPT !.isActive = FALSE] ELSE account[d]
  BY <1>1
<1>6. account' \in [Emails -> AccountDoc] /\ \A d \in Emails : account'[d].password = account[d].password
  BY <1>1, <1>3, <1>4, <1>5
<1>7. \A d \in Emails : account'[d].isActive => account'[d].password # 0
  BY <1>1, <1>4, <1>5 DEF TypeInv
<1>8. UNCHANGED <<Asking, Verifying, Issuing, Setting>>
  BY <1>1 DEF Asking, Verifying, Issuing, Setting
<1>9. Room'
  BY <1>1, <1>6, <1>8, RoomStays
<1>10. TypeOK' /\ KnownPins' /\ \A r \in Requests : SlotFit(req'[r])
  BY <1>1, <1>6 DEF TypeInv, TypeOK, KnownPins
<1> QED BY <1>7, <1>9, <1>10 DEF TypeInv

LEMMA ExpireTyped ==
    ASSUME TypeInv, Expire
    PROVE  TypeInv'
<1>1. PICK p \in Purposes, e \in Emails : otp' = [otp EXCEPT ![p][e] = NoOtp]
  BY DEF Expire
<1>2. /\ otp \in [Purposes -> [Emails -> OtpDoc]]
      /\ UNCHANGED <<account, attempts, pending, token, refresh, session, pin, req, mishap>>
  BY DEF TypeInv, TypeOK, Expire
<1>3. NoOtp \in OtpDoc /\ NoOtp.pin = 0
  BY NoneIs DEF NoOtp, OtpDoc
<1>4. otp' \in [Purposes -> [Emails -> OtpDoc]]
  BY <1>1, <1>2, <1>3
<1>5. \A q \in Purposes, d \in Emails : otp'[q][d] = NoOtp \/ otp'[q][d] = otp[q][d]
  BY <1>1, <1>2
<1>6. 0 <= Len(pin)
  BY DEF TypeInv, TypeOK
<1>7. KnownPins'
  BY <1>2, <1>3, <1>5, <1>6 DEF TypeInv, KnownPins
<1>8. UNCHANGED <<Asking, Verifying, Issuing, Setting>>
  BY <1>2 DEF Asking, Verifying, Issuing, Setting
<1>9. Room'
  BY <1>2, <1>8, RoomStays
<1> QED BY <1>2, <1>4, <1>7, <1>9 DEF TypeInv, TypeOK

LEMMA CrashTyped ==
    ASSUME TypeInv, Crash
    PROVE  TypeInv'
<1>1. req' = [r \in Requests |-> Idle] /\ UNCHANGED <<account, otp, attempts, pending, token, refresh, session, pin>>
  BY DEF Crash, redis
<1>2. \A r \in Requests : req'[r] = Idle
  BY <1>1
<1>3. Asking' = {} /\ Verifying' = {} /\ Issuing' = {} /\ Setting' = {}
  BY <1>2, IdleIs DEF Asking, Verifying, Issuing, Setting
<1>4. Room'
  BY <1>1, <1>3, RoomStays
<1>5. mishap' \in [Kinds -> 0..MaxMishaps]
  <2>1. "crash" \in Kinds
    BY DEF Kinds
  <2> QED BY <2>1, MishapType DEF Crash
<1>6. req' \in [Requests -> RequestState] /\ \A r \in Requests : SlotFit(req'[r])
  BY <1>1, IdleIs
<1>7. TypeOK'
  BY <1>1, <1>5, <1>6 DEF TypeInv, TypeOK
<1>8. KnownPins'
  <2>1. 0 <= Len(pin)
    BY DEF TypeInv, TypeOK
  <2> QED BY <1>1, <1>2, <2>1, IdleIs DEF TypeInv, KnownPins
<1> QED BY <1>1, <1>4, <1>6, <1>7, <1>8 DEF TypeInv

LEMMA InitTyped ==
    ASSUME Init
    PROVE  TypeInv
<1>1. TypeOK
  <2>1. NoAccount \in AccountDoc /\ NoOtp \in OtpDoc
    BY NoneIs DEF NoAccount, AccountDoc, NoOtp, OtpDoc
  <2>2. 0 \in 0..MaxPasswords /\ 0 \in 0..MaxMishaps /\ 0 <= MaxTokens /\ 0 <= MaxIssues /\ 0 <= MaxPins
    BY NoneIs
  <2> QED BY <2>1, <2>2, IdleIs DEF Init, TypeOK
<1>2. \A r \in Requests : req[r] = Idle
  BY DEF Init
<1>3. Asking = {} /\ Verifying = {} /\ Issuing = {} /\ Setting = {}
  BY <1>2, IdleIs DEF Asking, Verifying, Issuing, Setting
<1>4. Room
  <2>1. Cardinality({}) = 0
    BY FS_EmptySet
  <2>2. Latest(0)
    BY NoneIs DEF Init, Latest, NoAccount
  <2>3. Len(pin) = 0 /\ Len(token) = 0 /\ Len(refresh) = 0
    BY DEF Init
  <2> QED BY <1>3, <2>1, <2>2, <2>3, NoneIs DEF Room
<1>5. KnownPins
  BY <1>2, IdleIs DEF Init, KnownPins, NoOtp
<1>6. \A r \in Requests : SlotFit(req[r])
  BY <1>2, IdleIs
<1>7. \A e \in Emails : ~account[e].isActive
  BY DEF Init, NoAccount
<1> QED BY <1>1, <1>4, <1>5, <1>6, <1>7 DEF TypeInv

LEMMA StepTyped ==
    ASSUME TypeInv, [Next]_vars
    PROVE  TypeInv'
<1>1. CASE UNCHANGED vars
  BY <1>1 DEF vars, redis, TypeInv, TypeOK, Room, KnownPins, Latest, Asking, Verifying, Issuing, Setting
<1>2. CASE Expire \/ Crash \/ (\E e \in Emails : Deactivate(e))
  BY <1>2, ExpireTyped, CrashTyped, DeactivateTyped
<1>3. CASE \E r \in Requests : Begin(r)
  BY <1>3, BeginEnters, StartTyped
<1>4. CASE \E r \in Requests : Continue(r)
  BY <1>4, ContinueTyped
<1> QED BY <1>1, <1>2, <1>3, <1>4 DEF Next

LEMMA Typed == Spec => []TypeInv
BY InitTyped, StepTyped, PTL DEF Spec

\* The stores and the handlers keep their types within the bounds: no PIN,
\* token or password is made for which there is no room.
THEOREM AccountsTypeCorrect == Spec => []TypeOK
<1>1. TypeInv => TypeOK
  BY DEF TypeInv
<1> QED BY <1>1, Typed, PTL

-----------------------------------------------------------------------------
(* What each call of a handler does                                           *)

\* As long as Redis answers, a handler does what its step says.
LEMMA ActsAt ==
    ASSUME NEW r \in Requests, Continue(r), ~Mishap("fault")
    PROVE  /\ req[r].step = "saveOtp" => SaveOtp(r)
           /\ req[r].step = "clearAttempts" => ClearAttempts(r)
           /\ req[r].step = "savePending" => SavePending(r)
           /\ req[r].step = "mail" => Mail(r)
           /\ req[r].step = "readOtp" => ReadOtp(r)
           /\ req[r].step = "countWrong" => CountWrong(r)
           /\ req[r].step = "deleteOtp" => DeleteOtp(r)
           /\ req[r].step = "readPending" => ReadPending(r)
           /\ req[r].step = "saveToken" => SaveToken(r)
           /\ req[r].step = "createAccount" => CreateAccount(r)
           /\ req[r].step = "savePassword" => SavePassword(r)
           /\ req[r].step = "deleteToken" => DeleteToken(r)
           /\ req[r].step = "deletePending" => DeletePending(r)
           /\ req[r].step = "revokeKey" => RevokeKey(r)
           /\ req[r].step = "revokeIndex" => RevokeIndex(r)
           /\ req[r].step = "findUser" => FindUser(r)
           /\ req[r].step = "saveRefresh" => SaveRefresh(r)
           /\ req[r].step = "indexRefresh" => IndexRefresh(r)
           /\ req[r].step = "saveSession" => SaveSession(r)
           /\ req[r].step = "listRefresh" => ListRefresh(r)
           /\ req[r].step = "deleteRefresh" => DeleteRefresh(r)
           /\ req[r].step = "deleteIndex" => DeleteIndex(r)
           /\ req[r].step = "deleteSession" => DeleteSession(r)
<1>1. ~MissWrite(r)
  BY DEF MissWrite
<1> QED BY <1>1 DEF Continue, SaveOtp, ClearAttempts, SavePending, Mail, ReadOtp, CountWrong, DeleteOtp,
           ReadPending, SaveToken, CreateAccount, SavePassword, DeleteToken, DeletePending, RevokeKey,
           RevokeIndex, FindUser, SaveRefresh, IndexRefresh, SaveSession, ListRefresh, DeleteRefresh,
           DeleteIndex, DeleteSession, Write

\* The PIN of a purpose and an e-mail address: what a handler makes of it.
OtpMoved(r, p, e) ==
    \/ otp'[p][e] = otp[p][e]
    \/ /\ p = req[r].purpose /\ e = req[r].email
       /\ \/ SaveOtp(r) /\ otp'[p][e] = [NoOtp EXCEPT !.pin = Len(pin) + 1]
          \/ DeleteOtp(r) /\ otp'[p][e] = NoOtp
          \/ /\ Mail(r) /\ otp[p][e].pin # 0 /\ otp[p][e].pin = req[r].pin
             /\ otp'[p][e] = [otp[p][e] EXCEPT !.mailed = TRUE]
          \/ ReadOtp(r) /\ otp'[p][e] = [otp[p][e] EXCEPT !.wrong = @ + 1]

LEMMA OtpMoves ==
    ASSUME TypeInv, NEW r \in Requests, Continue(r), NEW p \in Purposes, NEW e \in Emails
    PROVE  OtpMoved(r, p, e)
<1> DEFINE q == req[r]
<1>1. /\ otp \in [Purposes -> [Emails -> OtpDoc]] /\ q \in RequestState /\ SlotFit(q)
  BY DEF TypeInv, TypeOK
<1>2. CASE UNCHANGED otp
  BY <1>2 DEF OtpMoved
<1>3. CASE SaveOtp(r) \/ Mail(r) \/ ReadOtp(r) \/ DeleteOtp(r)
  <2>1. q.step \in {"saveOtp", "mail", "readOtp", "deleteOtp"}
    BY <1>3 DEF SaveOtp, Mail, ReadOtp, DeleteOtp, Write
  <2>2. q.email \in Emails /\ q.purpose \in Purposes
    BY <1>1, <2>1, CallOf DEF SlotFit, RequestState
  <2>3. CASE SaveOtp(r)
    <3>1. otp' = [otp EXCEPT ![q.purpose][q.email] = [NoOtp EXCEPT !.pin = Len(pin) + 1]]
      BY <2>3 DEF SaveOtp
    <3> QED BY <1>1, <2>2, <2>3, <3>1 DEF OtpMoved
  <2>4. CASE DeleteOtp(r)
    <3>1. otp' = [otp EXCEPT ![q.purpose][q.email] = NoOtp]
      BY <2>4 DEF DeleteOtp
    <3> QED BY <1>1, <2>2, <2>4, <3>1 DEF OtpMoved
  <2>5. CASE Mail(r)
    <3>1. otp' = [otp EXCEPT ![q.purpose][q.email] =
                IF @.pin # 0 /\ @.pin = q.pin THEN [@ EXCEPT !.mailed = TRUE] ELSE @]
      BY <2>5 DEF Mail
    <3> QED BY <1>1, <2>2, <2>5, <3>1 DEF OtpMoved
  <2>6. CASE ReadOtp(r)
    <3>1. UNCHANGED otp \/ otp' = [otp EXCEPT ![q.purpose][q.email].wrong = @ + 1]
      BY <2>6 DEF ReadOtp
    <3>2. CASE otp' = [otp EXCEPT ![q.purpose][q.email].wrong = @ + 1]
      BY <1>1, <2>2, <2>6, <3>2 DEF OtpMoved
    <3> QED BY <1>2, <3>1, <3>2
  <2> QED BY <1>3, <2>3, <2>4, <2>5, <2>6
<1> QED BY <1>2, <1>3, Written

\* What the other variants of a PIN keep.
LEMMA OtpVariants ==
    ASSUME NEW doc \in OtpDoc, NEW k \in 1..MaxPins
    PROVE  /\ NoOtp.pin = 0 /\ ~NoOtp.mailed /\ NoOtp.wrong = 0
           /\ [NoOtp EXCEPT !.pin = k].pin = k /\ ~[NoOtp EXCEPT !.pin = k].mailed
           /\ [NoOtp EXCEPT !.pin = k].wrong = 0
           /\ [doc EXCEPT !.mailed = TRUE].pin = doc.pin /\ [doc EXCEPT !.mailed = TRUE].mailed
           /\ [doc EXCEPT !.mailed = TRUE].wrong = doc.wrong
           /\ [doc EXCEPT !.wrong = @ + 1].pin = doc.pin /\ ([doc EXCEPT !.wrong = @ + 1].mailed <=> doc.mailed)
           /\ [doc EXCEPT !.wrong = @ + 1].wrong = doc.wrong + 1
BY DEF NoOtp, OtpDoc

\* The slot of a handler that goes on with q.
LEMMA SlotOf ==
    ASSUME TypeInv, NEW r \in Requests, NEW slot, Moved(r, slot),
           NEW q \in RequestState, NEW step \in Steps, Update(r, q, step)
    PROVE  /\ step = "idle" => slot = Idle
           /\ step # "idle" => Same(q, slot) /\ slot.step = step /\ slot # Idle
<1>1. PICK new \in RequestState :
          /\ req' = [req EXCEPT ![r] = new]
          /\ step = "idle" => new = Idle
          /\ step # "idle" => Same(q, new) /\ new.step = step
  BY UpdateMoves
<1>2. new = slot
  BY <1>1 DEF Moved, TypeInv, TypeOK
<1> QED BY <1>1, <1>2, IdleIs

LEMMA GotoIs ==
    ASSUME TypeInv, NEW r \in Requests, NEW slot, Moved(r, slot), NEW step \in Steps, Goto(r, step)
    PROVE  /\ step = "idle" => slot = Idle
           /\ step # "idle" => Same(req[r], slot) /\ slot.step = step /\ slot # Idle
<1>1. req[r] \in RequestState
  BY DEF TypeInv, TypeOK
<1> QED BY <1>1, SlotOf DEF Goto

\* What a handler learns at each step, as long as Redis answers.
Learnt(r, slot) ==
    LET q == req[r]
    IN  /\ q.step = "saveOtp" => slot.pin = Len(pin) + 1 /\ slot # Idle
        /\ q.step = "readOtp" /\ slot # Idle =>
            /\ slot.pin = otp[q.purpose][q.email].pin /\ slot.pin # 0
            /\ slot.step = "deleteOtp" => slot.pin = q.guess
        /\ q.step = "countWrong" => slot.op # "verify"
        /\ q.step = "readPending" => slot.phone = pending[q.email]
        /\ q.step = "createAccount" /\ slot # Idle => /\ ~Taken(q.email) /\ ~UNCHANGED account
                                                     /\ slot.password = LatestPassword + 1
        /\ q.step = "createAccount" /\ slot = Idle => UNCHANGED account
        /\ q.step = "findUser" /\ slot # Idle => slot.password = account[q.email].password
        /\ q.step = "saveRefresh" => slot.new = Len(refresh) + 1 /\ slot # Idle
        /\ q.step = "listRefresh" => slot.ids = IndexOf(q.email) /\ slot # Idle
        /\ q.step \in {"savePassword", "deleteToken", "deleteRefresh", "deleteIndex"} => slot # Idle

LEMMA Learns ==
    ASSUME TypeInv, NEW r \in Requests, NEW slot, Moved(r, slot), Continue(r), ~Mishap("fault")
    PROVE  Learnt(r, slot)
<1> DEFINE q == req[r]
<1>1. /\ q \in RequestState /\ SlotFit(q) /\ "idle" \in Steps /\ "clearAttempts" \in Steps
      /\ "deleteOtp" \in Steps /\ "countWrong" \in Steps /\ "saveToken" \in Steps /\ "deleteToken" \in Steps
      /\ "saveRefresh" \in Steps /\ "indexRefresh" \in Steps /\ "deleteRefresh" \in Steps
  BY DEF TypeInv, TypeOK, Steps
<1>2. CASE q.step = "saveOtp"
  <2> DEFINE k == Len(pin) + 1
             new == [q EXCEPT !.pin = k]
  <2>1. Update(r, new, "clearAttempts")
    BY <1>1, <1>2, ActsAt, AfterIs DEF SaveOtp
  <2>2. k \in 0..MaxPins
    BY <1>2, RoomLeft
  <2> HIDE DEF k
  <2>3. new \in RequestState /\ new.pin = k
    BY <1>1, <2>2 DEF RequestState
  <2> HIDE DEF new
  <2>4. slot.pin = k /\ slot # Idle
    BY <1>1, <2>1, <2>3, SlotOf DEF Same
  <2> QED BY <1>2, <2>4 DEF Learnt, k
<1>3. CASE q.step = "readOtp"
  <2> DEFINE stored == otp[q.purpose][q.email].pin
             new == [q EXCEPT !.pin = stored]
  <2>1. ReadOtp(r)
    BY <1>3, ActsAt
  <2>2. q.email \in Emails /\ q.purpose \in Purposes
    BY <1>1, <1>3, CallOf DEF SlotFit, RequestState
  <2>3. stored \in 0..MaxPins
    BY <2>2 DEF TypeInv, TypeOK, OtpDoc
  <2>4. CASE Finish(r)
    <3>1. slot = Idle
      BY <1>1, <2>4, GotoIs DEF Finish
    <3> QED BY <1>3, <3>1 DEF Learnt
  <2>5. CASE ~Finish(r)
    <3>1. stored # 0 /\ Update(r, new, IF stored = q.guess THEN "deleteOtp" ELSE "countWrong")
      BY <2>1, <2>5 DEF ReadOtp
    <3> HIDE DEF stored
    <3>2. new \in RequestState /\ new.pin = stored
      BY <1>1, <2>3 DEF RequestState
    <3> HIDE DEF new
    <3>3. slot.pin = stored /\ (stored # q.guess => slot.step = "countWrong")
      BY <1>1, <3>1, <3>2, SlotOf DEF Same
    <3> QED BY <1>3, <3>1, <3>3 DEF Learnt, stored
  <2> QED BY <2>4, <2>5
<1>4. CASE q.step = "readPending"
  <2> DEFINE new == [q EXCEPT !.phone = pending[q.email]]
  <2>1. Update(r, new, "saveToken")
    BY <1>4, ActsAt DEF ReadPending
  <2>2. q.email \in Emails
    BY <1>1, <1>4, CallOf DEF SlotFit
  <2>3. pending[q.email] \in Phones \cup {None}
    BY <2>2 DEF TypeInv, TypeOK
  <2>4. new \in RequestState /\ new.phone = pending[q.email]
    BY <1>1, <2>3 DEF RequestState
  <2> HIDE DEF new
  <2>5. slot.phone = pending[q.email]
    BY <1>1, <2>1, <2>4, SlotOf DEF Same
  <2> QED BY <1>4, <2>5 DEF Learnt
<1>5. CASE q.step = "createAccount"
  <2> DEFINE password == LatestPassword + 1
             new == [q EXCEPT !.password = password]
             doc == [phone |-> q.phone, password |-> password, isActive |-> TRUE, pin |-> q.pin]
  <2>1. CreateAccount(r)
    BY <1>5, ActsAt
  <2>2. q.email \in Emails /\ q.phone \in Phones
    BY <1>1, <1>5, CallOf DEF SlotFit
  <2>3. CASE Taken(q.email) \/ PhoneTaken(q.phone)
    <3>1. Finish(r) /\ UNCHANGED account
      BY <2>1, <2>3 DEF CreateAccount
    <3>2. slot = Idle
      BY <1>1, <3>1, GotoIs DEF Finish
    <3> QED BY <1>5, <3>1, <3>2 DEF Learnt
  <2>4. CASE ~(Taken(q.email) \/ PhoneTaken(q.phone))
    <3>1. /\ account' = [account EXCEPT ![q.email] = doc]
          /\ Update(r, new, IF q.op = "complete" THEN "deleteToken" ELSE "saveRefresh")
      BY <2>1, <2>4 DEF CreateAccount
    <3>2. password \in 1..MaxPasswords
      BY <1>5, RoomLeft
    <3> HIDE DEF password
    <3>3. new \in RequestState /\ new.password = password
      BY <1>1, <3>2 DEF RequestState
    <3> HIDE DEF new
    <3>4. slot.password = password /\ slot # Idle
      BY <1>1, <3>1, <3>3, SlotOf DEF Same
    <3>5. account'[q.email].phone = q.phone
      BY <2>2, <3>1 DEF TypeInv, TypeOK
    <3>6. ~UNCHANGED account
      BY <2>2, <2>4, <3>5, NoneIs DEF Taken
    <3> QED BY <1>5, <2>4, <3>4, <3>6 DEF Learnt, password
  <2> QED BY <2>3, <2>4
<1>6. CASE q.step = "findUser"
  <2> DEFINE password == account[q.email].password
             new == [q EXCEPT !.password = password]
  <2>1. FindUser(r)
    BY <1>6, ActsAt
  <2>2. CASE Finish(r)
    <3>1. slot = Idle
      BY <1>1, <2>2, GotoIs DEF Finish
    <3> QED BY <1>6, <3>1 DEF Learnt
  <2>3. CASE ~Finish(r)
    <3>1. Update(r, new, "saveRefresh")
      BY <2>1, <2>3 DEF FindUser
    <3>2. q.email \in Emails
      BY <1>1, <1>6, CallOf DEF SlotFit
    <3>3. password \in 0..MaxPasswords
      BY <3>2 DEF TypeInv, TypeOK, AccountDoc
    <3> HIDE DEF password
    <3>4. new \in RequestState /\ new.password = password
      BY <1>1, <3>3 DEF RequestState
    <3> HIDE DEF new
    <3>5. slot.password = password
      BY <1>1, <3>1, <3>4, SlotOf DEF Same
    <3> QED BY <1>6, <3>5 DEF Learnt, password
  <2> QED BY <2>2, <2>3
<1>7. CASE q.step = "saveRefresh"
  <2> DEFINE k == Len(refresh) + 1
             new == [q EXCEPT !.new = k]
  <2>1. Update(r, new, "indexRefresh")
    BY <1>1, <1>7, ActsAt, AfterIs DEF SaveRefresh
  <2>2. k \in 0..MaxIssues
    BY <1>7, RoomLeft
  <2> HIDE DEF k
  <2>3. new \in RequestState /\ new.new = k
    BY <1>1, <2>2 DEF RequestState
  <2> HIDE DEF new
  <2>4. slot.new = k /\ slot # Idle
    BY <1>1, <2>1, <2>3, SlotOf DEF Same
  <2> QED BY <1>7, <2>4 DEF Learnt, k
<1>8. CASE q.step = "listRefresh"
  <2> DEFINE ids == IndexOf(q.email)
             new == [q EXCEPT !.ids = ids]
  <2>1. Update(r, new, "deleteRefresh")
    BY <1>8, ActsAt DEF ListRefresh
  <2>2. ids \in SUBSET (1..MaxIssues)
    <3>1. Len(refresh) \in Nat /\ Len(refresh) <= MaxIssues /\ DOMAIN refresh = 1..Len(refresh)
      BY DEF TypeInv, TypeOK
    <3> QED BY <3>1, NoneIs DEF IndexOf
  <2> HIDE DEF ids
  <2>3. new \in RequestState /\ new.ids = ids
    BY <1>1, <2>2 DEF RequestState
  <2> HIDE DEF new
  <2>4. slot.ids = ids /\ slot # Idle
    BY <1>1, <2>1, <2>3, SlotOf DEF Same
  <2> QED BY <1>8, <2>4 DEF Learnt, ids
<1>9. CASE q.step \in {"savePassword", "deleteToken", "deleteRefresh", "deleteIndex"}
  <2>1. \/ Goto(r, "deleteToken")
        \/ Goto(r, After(q)) /\ q.step # "savePassword"
    BY <1>9, ActsAt DEF SavePassword, DeleteToken, DeleteRefresh, DeleteIndex, Write
  <2>2. q.step # "savePassword" => After(q) \in Steps /\ After(q) # "idle"
    BY <1>1, <1>9, AfterIs DEF Steps
  <2>3. slot # Idle
    BY <1>1, <2>1, <2>2, GotoIs
  <2> QED BY <1>9, <2>3 DEF Learnt
<1>10. CASE q.step = "countWrong"
  <2> DEFINE new == [q EXCEPT !.op = "lock"]
  <2>1. Finish(r) \/ Update(r, new, "deleteOtp")
    BY <1>10, ActsAt DEF CountWrong
  <2>2. new \in RequestState /\ new.op = "lock"
    BY <1>1 DEF RequestState, Ops
  <2> HIDE DEF new
  <2>3. slot.op # "verify"
    BY <1>1, <2>1, <2>2, GotoIs, SlotOf, IdleIs DEF Same, Finish
  <2> QED BY <1>10, <2>3 DEF Learnt
<1>11. CASE q.step \notin {"saveOtp", "readOtp", "countWrong", "readPending", "createAccount", "findUser", "saveRefresh",
                          "listRefresh", "savePassword", "deleteToken", "deleteRefresh", "deleteIndex"}
  BY <1>11 DEF Learnt
<1> QED BY <1>2, <1>3, <1>4, <1>5, <1>6, <1>7, <1>8, <1>9, <1>11, <1>10

-----------------------------------------------------------------------------
(* Mishaps only add up, and handlers run one at a time until one overlaps      *)

LEMMA MishapsGrow ==
    ASSUME TypeInv, [Next]_vars
    PROVE  \A kind \in Kinds : mishap'[kind] = 0 => mishap[kind] = 0 /\ ~Mishap(kind)
<1>0. ASSUME NEW r \in Requests, NEW slot, StartsUnread(r, slot), NEW kind \in Kinds, mishap'[kind] = 0
      PROVE  mishap[kind] = 0 /\ ~Mishap(kind)
  BY <1>0, MishapAdds, UnreadAdds
<1>1. \/ UNCHANGED mishap \/ \E kind \in Kinds : Mishap(kind)
      \/ \E r \in Requests : \E slot : StartsUnread(r, slot)
  <2>1. CASE UNCHANGED vars
    BY <2>1 DEF vars
  <2>2. CASE Expire \/ Crash \/ (\E e \in Emails : Deactivate(e))
    BY <2>2 DEF Expire, Crash, Deactivate, Kinds
  <2>3. CASE \E r \in Requests : Begin(r)
    BY <2>3, BeginEnters DEF Starts, Kinds
  <2>4. CASE \E r \in Requests : Continue(r)
    BY <2>4, Written DEF Kinds
  <2> QED BY <2>1, <2>2, <2>3, <2>4 DEF Next
<1>2. \A kind \in Kinds : mishap[kind] \in Nat
  BY NoneIs DEF TypeInv, TypeOK
<1>3. ASSUME NEW kind \in Kinds, mishap'[kind] = 0,
             UNCHANGED mishap \/ \E k \in Kinds : Mishap(k)
      PROVE  mishap[kind] = 0 /\ ~Mishap(kind)
  <2>1. ~Mishap(kind)
    BY <1>3, MishapAdds
  <2>2. mishap'[kind] = mishap[kind]
    <3>1. CASE UNCHANGED mishap
      BY <3>1
    <3>2. ASSUME NEW k \in Kinds, Mishap(k) PROVE mishap'[kind] = mishap[kind]
      BY <2>1, <3>2, MishapAdds
    <3> QED BY <1>3, <3>1, <3>2
  <2> QED BY <1>3, <2>1, <2>2
<1> QED BY <1>0, <1>1, <1>3

Still == Without({"overlap", "fault"})

Alone == \A r, s \in Requests : req[r] # Idle /\ req[s] # Idle => r = s

AloneInv == mishap["overlap"] = 0 => Alone

\* A handler that goes on is not idle.
LEMMA GoesOn ==
    ASSUME TypeInv, NEW r \in Requests, Continue(r)
    PROVE  req[r] # Idle /\ req[r].step # "idle"
<1>1. req[r].step = "idle" => After(req[r]) = "none"
  BY AfterIs DEF TypeInv, TypeOK
<1>2. req[r].step # "idle"
  BY <1>1 DEF Continue, SaveOtp, ClearAttempts, SavePending, Mail, ReadOtp, CountWrong, DeleteOtp,
           ReadPending, SaveToken, CreateAccount, SavePassword, DeleteToken, DeletePending, RevokeKey,
           RevokeIndex, FindUser, SaveRefresh, IndexRefresh, SaveSession, ListRefresh, DeleteRefresh,
           DeleteIndex, DeleteSession, Write, MissWrite
<1> QED BY <1>2, IdleIs

LEMMA AloneStep ==
    ASSUME TypeInv, AloneInv, [Next]_vars
    PROVE  AloneInv'
<1> SUFFICES ASSUME mishap'["overlap"] = 0 PROVE Alone'
  BY DEF AloneInv
<1>1. mishap["overlap"] = 0 /\ ~Mishap("overlap") /\ Alone
  BY MishapsGrow DEF Kinds, AloneInv
<1>2. req \in [Requests -> RequestState]
  BY DEF TypeInv, TypeOK
<1>3. CASE UNCHANGED req
  BY <1>1, <1>3 DEF Alone
<1>4. CASE Crash
  BY <1>4 DEF Crash, Alone
<1>5. ASSUME NEW r \in Requests, Begin(r) PROVE Alone'
  <2>1. PICK slot : Starts(r, slot) \/ StartsUnread(r, slot)
    BY <1>5, BeginEnters
  <2>2. CASE Starts(r, slot)
    <3>1. Quiet /\ req' = [req EXCEPT ![r] = slot]
      BY <1>1, <2>2 DEF Starts, Enters
    <3> QED BY <1>2, <3>1 DEF Alone, Quiet
  <2>3. CASE StartsUnread(r, slot)
    <3>1. mishap["overlap"] \in Nat
      BY NoneIs DEF TypeInv, TypeOK, Kinds
    <3>2. Quiet /\ req' = [req EXCEPT ![r] = slot]
      <4>1. mishap'["overlap"] = IF Quiet THEN mishap["overlap"] ELSE mishap["overlap"] + 1
        BY <2>3, UnreadAdds
      <4>2. mishap'["overlap"] = 0
        OBVIOUS
      <4>3. Quiet
        BY <1>1, <4>1, <4>2
      <4> QED BY <2>3, <4>3 DEF StartsUnread, Enters
    <3> QED BY <1>2, <3>2 DEF Alone, Quiet
  <2> QED BY <2>1, <2>2, <2>3
<1>6. ASSUME NEW r \in Requests, Continue(r) PROVE Alone'
  <2>1. PICK slot : Moved(r, slot)
    BY <1>6, ContinueMoves DEF Moves
  <2>2. req' = [req EXCEPT ![r] = slot]
    BY <2>1 DEF Moved
  <2>3. req[r] # Idle
    BY <1>6, GoesOn
  <2> QED BY <1>1, <1>2, <2>2, <2>3 DEF Alone
<1>7. CASE UNCHANGED vars \/ Expire \/ (\E e \in Emails : Deactivate(e))
  BY <1>3, <1>7 DEF vars, Expire, Deactivate
<1> QED BY <1>4, <1>5, <1>6, <1>7 DEF Next

LEMMA StillBefore ==
    ASSUME TypeInv, AloneInv, [Next]_vars, Still'
    PROVE  /\ Still /\ Alone /\ ~Mishap("fault") /\ ~Mishap("overlap")
           /\ \A r \in Requests : \A slot : Starts(r, slot) => Quiet
<1>1. mishap'["overlap"] = 0 /\ mishap'["fault"] = 0
  BY DEF Still, Without
<1>2. /\ mishap["overlap"] = 0 /\ ~Mishap("overlap")
      /\ mishap["fault"] = 0 /\ ~Mishap("fault")
  BY <1>1, MishapsGrow DEF Kinds
<1> QED BY <1>2 DEF Still, Without, AloneInv, Starts

-----------------------------------------------------------------------------
(* A refresh token is exchanged once                                          *)

Exchanges ==
    /\ \A i \in DOMAIN refresh : refresh[i].from # 0 =>
        refresh[i].from \in DOMAIN refresh /\ ~refresh[refresh[i].from].live
    /\ \A i, j \in DOMAIN refresh : refresh[i].from # 0 /\ refresh[i].from = refresh[j].from => i = j

\* A handler that has a token to exchange is the only one to do so, and revokes it first.
Exchanging(q) ==
    /\ q.op # "refresh" => q.old = 0
    /\ q.op = "refresh" =>
        /\ q.old \in DOMAIN refresh
        /\ q.step # "indexRefresh" => \A i \in DOMAIN refresh : refresh[i].from # q.old
        /\ q.step # "revokeKey" => ~refresh[q.old].live

ExchangeInv == Still => Exchanges /\ \A r \in Requests : Exchanging(req[r])

\* The slots of the handlers after one of them went on, while the others are idle.
LEMMA OthersIdle ==
    ASSUME TypeInv, Alone, NEW r \in Requests, NEW slot, Moved(r, slot), req[r] # Idle
    PROVE  \A s \in Requests : req'[s] = IF s = r THEN slot ELSE Idle
BY DEF TypeInv, TypeOK, Alone, Moved

LEMMA ExchangeStep ==
    ASSUME TypeInv, AloneInv, ExchangeInv, [Next]_vars
    PROVE  ExchangeInv'
<1> SUFFICES ASSUME Still' PROVE (Exchanges /\ \A r \in Requests : Exchanging(req[r]))'
  BY DEF ExchangeInv
<1>1. /\ Still /\ Alone /\ ~Mishap("fault")
      /\ \A r \in Requests : \A slot : Starts(r, slot) => Quiet
  BY StillBefore
<1>2. Exchanges /\ \A r \in Requests : Exchanging(req[r])
  BY <1>1 DEF ExchangeInv
<1>3. /\ req \in [Requests -> RequestState] /\ refresh \in Seq(RefreshDoc)
      /\ Len(refresh) \in Nat /\ DOMAIN refresh = 1..Len(refresh)
  BY DEF TypeInv, TypeOK
<1>4. CASE UNCHANGED <<refresh, req>>
  BY <1>2, <1>4 DEF Exchanges, Exchanging
<1>5. Exchanging(Idle)'
  BY DEF Exchanging, Idle
<1>6. CASE Crash
  <2>1. UNCHANGED refresh /\ \A r \in Requests : req'[r] = Idle
    BY <1>6 DEF Crash, redis
  <2> QED BY <1>2, <1>5, <2>1 DEF Exchanges
<1>7. ASSUME NEW r \in Requests, NEW slot, Starts(r, slot), Born(slot)
      PROVE  (Exchanges /\ \A s \in Requests : Exchanging(req[s]))'
  <2>1. UNCHANGED refresh /\ req' = [req EXCEPT ![r] = slot]
    BY <1>7 DEF Starts, Enters, redis
  <2>2. Exchanging(slot)
    <3>1. CASE slot.op # "refresh"
      BY <1>7, <3>1 DEF Born, Exchanging
    <3>2. CASE slot.op = "refresh"
      <4>1. slot.step = "revokeKey" /\ slot.old \in DOMAIN refresh /\ refresh[slot.old].live
        BY <1>7, <3>2 DEF Born
      <4>2. slot.old # 0
        BY <1>3, <4>1
      <4>3. \A i \in DOMAIN refresh : refresh[i].from # slot.old
        BY <1>2, <4>1, <4>2 DEF Exchanges
      <4> QED BY <3>2, <4>1, <4>3 DEF Exchanging
    <3> QED BY <3>1, <3>2
  <2>3. Exchanges'
    BY <1>2, <2>1 DEF Exchanges
  <2>4. \A s \in Requests : Exchanging(req'[s])
    BY <1>2, <1>3, <2>1, <2>2
  <2>5. \A q : Exchanging(q) => Exchanging(q)'
    BY <2>1 DEF Exchanging
  <2>6. \A s \in Requests : Exchanging(req[s])'
    BY <2>1, <2>4 DEF Exchanging
  <2> QED BY <2>3, <2>6
<1>8. ASSUME NEW r \in Requests, Continue(r)
      PROVE  (Exchanges /\ \A s \in Requests : Exchanging(req[s]))'
  <2>1. PICK slot : Moved(r, slot)
    BY <1>8, ContinueMoves DEF Moves
  <2>2. \A s \in Requests : req'[s] = IF s = r THEN slot ELSE Idle
    BY <1>1, <1>8, <2>1, GoesOn, OthersIdle
  <2> DEFINE q == req[r]
  <2>3. /\ q \in RequestState /\ SlotFit(q) /\ SlotFit(slot) /\ slot \in RequestState
        /\ slot = Idle \/ Way(q, slot)
        /\ Exchanging(q)
    BY <1>2, <2>1 DEF TypeInv, TypeOK, Moved
  <2>4. slot # Idle /\ slot.op = "refresh" =>
            /\ q.op = "refresh" /\ slot.old = q.old /\ q.step # "indexRefresh" /\ slot.step # "revokeKey"
            /\ q.step = "saveRefresh" => slot.step = "indexRefresh"
    <3>1. slot.op = "refresh" => slot.step \in Stages("refresh")
      BY <2>3 DEF SlotFit
    <3> QED BY <2>3, <3>1 DEF Way, Follows, Stages
  <2>5. slot # Idle => slot.old = q.old /\ (slot.op # "refresh" => slot.old = 0)
    BY <2>3 DEF Way, Exchanging
  <2>6. CASE RefreshKept
    <3>1. Exchanges'
      BY <1>2, <2>6 DEF Exchanges, RefreshKept
    <3>2. q.step = "revokeKey" => ~refresh'[q.old].live
      <4>1. q.step = "revokeKey" => q.op = "refresh"
        BY <2>3, CallOf
      <4>2. q.step = "revokeKey" => refresh' = [refresh EXCEPT ![q.old].live = FALSE]
        BY <1>1, <1>8, ActsAt DEF RevokeKey
      <4>3. q.old \in DOMAIN refresh => refresh[q.old] \in RefreshDoc
        BY <1>3
      <4> QED BY <2>3, <4>1, <4>2, <4>3 DEF Exchanging, RefreshDoc
    <3>3. Exchanging(slot)'
      <4>1. CASE slot = Idle
        BY <1>5, <4>1
      <4>2. CASE slot # Idle
        BY <2>3, <2>4, <2>5, <2>6, <3>2, <4>2 DEF Exchanging, RefreshKept
      <4> QED BY <4>1, <4>2
    <3>4. \A s \in Requests : Exchanging(req[s])'
      BY <1>5, <2>2, <3>3 DEF Exchanging
    <3> QED BY <3>1, <3>4
  <2>7. CASE RefreshMade(r)
    <3> DEFINE n == Len(refresh) + 1
    <3>1. /\ DOMAIN refresh' = DOMAIN refresh \cup {n} /\ n \notin DOMAIN refresh /\ refresh'[n].from = q.old
          /\ \A i \in DOMAIN refresh : refresh'[i] = refresh[i]
      BY <1>3, <2>7 DEF RefreshMade
    <3>2. q.step = "saveRefresh"
      BY <2>7 DEF RefreshMade, SaveRefresh
    <3> HIDE DEF n
    <3>3. q.old # 0 => /\ q.old \in DOMAIN refresh /\ ~refresh[q.old].live
                       /\ \A i \in DOMAIN refresh : refresh[i].from # q.old
      BY <2>3, <3>2 DEF Exchanging
    <3>4. Exchanges'
      BY <1>2, <3>1, <3>3 DEF Exchanges
    <3>5. Exchanging(slot)'
      <4>1. CASE slot = Idle
        BY <1>5, <4>1
      <4>2. CASE slot # Idle
        BY <2>3, <2>4, <2>5, <3>1, <3>2, <4>2 DEF Exchanging
      <4> QED BY <4>1, <4>2
    <3>6. \A s \in Requests : Exchanging(req[s])'
      BY <1>5, <2>2, <3>5 DEF Exchanging
    <3> QED BY <3>4, <3>6
  <2> QED BY <1>8, <2>6, <2>7, RefreshMove
<1>9. CASE UNCHANGED vars \/ Expire \/ (\E e \in Emails : Deactivate(e))
  BY <1>4, <1>9 DEF vars, redis, Expire, Deactivate
<1> QED BY <1>6, <1>7, <1>8, <1>9, BeginStarts DEF Next, Still, Without

LEMMA AloneTyped == Spec => [](TypeInv /\ AloneInv)
<1>1. Init => AloneInv
  BY DEF Init, AloneInv, Alone
<1> QED BY <1>1, InitTyped, StepTyped, AloneStep, PTL DEF Spec

\* A refresh token that was exchanged is gone and was exchanged once, wherever
\* the process dies, as long as handlers do not overlap and Redis answers.
THEOREM TokensExchangedOnce == Spec => []ExchangedOnce
<1>1. Init => ExchangeInv
  BY DEF Init, ExchangeInv, Exchanges, Exchanging, Idle
<1>2. ExchangeInv => ExchangedOnce
  BY DEF ExchangeInv, Still, Exchanges, ExchangedOnce
<1> QED BY <1>1, <1>2, AloneTyped, ExchangeStep, PTL DEF Spec

-----------------------------------------------------------------------------
(* A PIN yields one token                                                     *)

\* k is a PIN that was stored for the purpose and the e-mail address.
Named(k, p, e) == k \in DOMAIN pin /\ pin[k].purpose = p /\ pin[k].email = e

SlotNamed(q) ==
    q.pin # 0 =>
        /\ q.op \in {"ask", "verify", "lock"} => Named(q.pin, q.purpose, q.email)
        /\ q.op = "complete" => Named(q.pin, "register", q.email)
        /\ q.op = "reset" => Named(q.pin, "reset", q.email)

OtpNamed == \A p \in Purposes, e \in Emails : otp[p][e].pin # 0 => Named(otp[p][e].pin, p, e)

PinInv == Still => OtpNamed /\ \A r \in Requests : SlotNamed(req[r])

LEMMA PinMade ==
    ASSUME TypeInv, NEW r \in Requests, SaveOtp(r)
    PROVE  /\ Len(pin) + 1 \in DOMAIN pin' /\ pin'[Len(pin) + 1].purpose = req[r].purpose
           /\ pin'[Len(pin) + 1].email = req[r].email /\ pin'[Len(pin) + 1].phone = req[r].phone
           /\ Len(pin) + 1 \in 1..MaxPins
           /\ \A k \in DOMAIN pin : k # Len(pin) + 1
<1> DEFINE q == req[r]
           new == [purpose |-> q.purpose, email |-> q.email, phone |-> q.phone]
<1>1. pin' = Append(pin, new) /\ pin \in Seq(PinDoc) /\ q.step = "saveOtp"
  BY DEF SaveOtp, TypeInv, TypeOK
<1>2. new.purpose = q.purpose /\ new.email = q.email /\ new.phone = q.phone
  OBVIOUS
<1> HIDE DEF new
<1>3. /\ Len(pin) + 1 \in DOMAIN pin' /\ pin'[Len(pin) + 1] = new
      /\ \A k \in DOMAIN pin : k # Len(pin) + 1
  BY <1>1
<1> QED BY <1>1, <1>2, <1>3, RoomLeft

LEMMA NamedStays ==
    ASSUME TypeInv, NEW r \in Requests, Continue(r)
    PROVE  \A k, p, e : Named(k, p, e) => Named(k, p, e)'
BY PinsGrow DEF Named

LEMMA PinStep ==
    ASSUME TypeInv, AloneInv, PinInv, [Next]_vars
    PROVE  PinInv'
<1> SUFFICES ASSUME Still' PROVE (OtpNamed /\ \A r \in Requests : SlotNamed(req[r]))'
  BY DEF PinInv
<1>1. /\ Still /\ Alone /\ ~Mishap("fault")
      /\ \A r \in Requests : \A slot : Starts(r, slot) => Quiet
  BY StillBefore
<1>2. OtpNamed /\ \A r \in Requests : SlotNamed(req[r])
  BY <1>1 DEF PinInv
<1>3. /\ req \in [Requests -> RequestState] /\ otp \in [Purposes -> [Emails -> OtpDoc]]
      /\ Len(pin) \in Nat /\ DOMAIN pin = 1..Len(pin)
  BY DEF TypeInv, TypeOK
<1>4. CASE UNCHANGED <<pin, otp, req>>
  BY <1>2, <1>4 DEF OtpNamed, SlotNamed, Named
<1>5. SlotNamed(Idle)'
  BY DEF SlotNamed, Idle
<1>6. CASE Crash
  <2>1. UNCHANGED <<pin, otp>> /\ \A r \in Requests : req'[r] = Idle
    BY <1>6 DEF Crash, redis
  <2> QED BY <1>2, <1>5, <2>1 DEF OtpNamed, SlotNamed, Named
<1>7. CASE Expire
  <2>1. UNCHANGED <<pin, req>> /\ \A p \in Purposes, e \in Emails : otp'[p][e] = NoOtp \/ otp'[p][e] = otp[p][e]
    BY <1>3, <1>7 DEF Expire
  <2>2. NoOtp.pin = 0
    BY DEF NoOtp
  <2> QED BY <1>2, <2>1, <2>2 DEF OtpNamed, SlotNamed, Named
<1>8. ASSUME NEW r \in Requests, NEW slot, Starts(r, slot), Born(slot)
      PROVE  (OtpNamed /\ \A s \in Requests : SlotNamed(req[s]))'
  <2>1. UNCHANGED <<pin, otp>> /\ req' = [req EXCEPT ![r] = slot] /\ slot \in RequestState /\ slot.pin <= Len(pin)
    BY <1>8 DEF Starts, Enters, redis
  <2>2. SlotNamed(slot)
    <3>1. slot.pin # 0 => slot.pin \in DOMAIN pin
      BY <1>3, <2>1, NoneIs DEF RequestState
    <3> QED BY <1>8, <3>1 DEF Born, SlotNamed, Named
  <2>3. \A s \in Requests : SlotNamed(req'[s])
    BY <1>2, <1>3, <2>1, <2>2
  <2> QED BY <1>2, <2>1, <2>3 DEF OtpNamed, SlotNamed, Named
<1>9. ASSUME NEW r \in Requests, Continue(r)
      PROVE  (OtpNamed /\ \A s \in Requests : SlotNamed(req[s]))'
  <2> DEFINE q == req[r]
  <2>1. PICK slot : Moved(r, slot)
    BY <1>9, ContinueMoves DEF Moves
  <2>2. \A s \in Requests : req'[s] = IF s = r THEN slot ELSE Idle
    BY <1>1, <1>9, <2>1, GoesOn, OthersIdle
  <2>3. /\ q \in RequestState /\ SlotFit(q) /\ slot \in RequestState /\ SlotFit(slot)
        /\ slot = Idle \/ Way(q, slot)
        /\ SlotNamed(q) /\ Learnt(r, slot)
    BY <1>1, <1>2, <1>9, <2>1, Learns DEF TypeInv, TypeOK, Moved
  <2>4. \A k, p, e : Named(k, p, e) => Named(k, p, e)'
    BY <1>9, NamedStays
  <2>5. \A k, p, e : SaveOtp(r) /\ k = Len(pin) + 1 /\ p = q.purpose /\ e = q.email => Named(k, p, e)'
    BY PinMade DEF Named
  <2>6. ASSUME NEW p \in Purposes, NEW e \in Emails, otp'[p][e].pin # 0
        PROVE  \A k : k = otp'[p][e].pin => Named(k, p, e)'
    <3>1. OtpMoved(r, p, e)
      BY <1>9, OtpMoves
    <3>2. otp[p][e] \in OtpDoc
      BY <1>3
    <3>3. CASE SaveOtp(r) /\ p = q.purpose /\ e = q.email /\ otp'[p][e] = [NoOtp EXCEPT !.pin = Len(pin) + 1]
      <4>1. otp'[p][e].pin = Len(pin) + 1
        BY <3>2, <3>3, PinMade, OtpVariants
      <4> QED BY <2>5, <3>3, <4>1
    <3>4. CASE otp'[p][e].pin = otp[p][e].pin
      <4>1. Named(otp[p][e].pin, p, e)
        BY <1>2, <2>6, <3>4 DEF OtpNamed
      <4> QED BY <2>4, <3>4, <4>1
    <3>5. otp'[p][e] # NoOtp
      BY <2>6 DEF NoOtp
    <3>6. [otp[p][e] EXCEPT !.mailed = TRUE].pin = otp[p][e].pin /\ [otp[p][e] EXCEPT !.wrong = @ + 1].pin = otp[p][e].pin
      BY <3>2 DEF OtpDoc
    <3> QED BY <3>1, <3>3, <3>4, <3>5, <3>6 DEF OtpMoved
  <2>7. OtpNamed'
    BY <2>6 DEF OtpNamed, Named
  <2>8. SlotNamed(slot)'
    <3>1. CASE slot = Idle
      BY <1>5, <3>1
    <3>2. CASE slot # Idle /\ q.step = "saveOtp"
      <4>1. slot.op = "ask" /\ slot.purpose = q.purpose /\ slot.email = q.email /\ slot.pin = Len(pin) + 1
        BY <2>3, <3>2, CallOf DEF Way, Learnt
      <4>2. SaveOtp(r)
        BY <1>1, <1>9, <3>2, ActsAt
      <4> QED BY <2>5, <4>1, <4>2 DEF SlotNamed
    <3>3. CASE slot # Idle /\ q.step = "readOtp"
      <4>1. q.op = "verify" /\ q.purpose \in Purposes /\ q.email \in Emails
        BY <2>3, <3>3, CallOf DEF SlotFit, RequestState
      <4>2. slot.op = "verify" /\ slot.purpose = q.purpose /\ slot.email = q.email
            /\ slot.pin = otp[q.purpose][q.email].pin /\ slot.pin # 0
        BY <2>3, <3>3, <4>1 DEF Way, Learnt
      <4>3. Named(slot.pin, q.purpose, q.email)
        BY <1>2, <4>1, <4>2 DEF OtpNamed
      <4> QED BY <2>4, <4>2, <4>3 DEF SlotNamed
    <3>4. CASE slot # Idle /\ q.step \notin {"saveOtp", "readOtp"}
      <4>1. slot.pin = q.pin /\ slot.purpose = q.purpose /\ slot.email = q.email
            /\ (slot.op = q.op \/ (slot.op = "lock" /\ q.op = "verify"))
        BY <2>3, <3>4 DEF Way
      <4> QED BY <2>3, <2>4, <4>1 DEF SlotNamed
    <3> QED BY <3>1, <3>2, <3>3, <3>4
  <2>9. \A s \in Requests : SlotNamed(req[s])'
    BY <1>5, <2>2, <2>8 DEF SlotNamed, Named
  <2> QED BY <2>7, <2>9
<1>10. CASE UNCHANGED vars \/ (\E e \in Emails : Deactivate(e))
  BY <1>4, <1>10 DEF vars, redis, Deactivate
<1> QED BY <1>6, <1>7, <1>8, <1>9, <1>10, BeginStarts DEF Next, Still, Without

TokensApart ==
    /\ \A t, u \in DOMAIN token : token[t].pin = token[u].pin => t = u
    /\ \A t \in DOMAIN token, p \in Purposes, e \in Emails : otp[p][e].pin # token[t].pin

\* A PIN that was verified has no token yet; once deleted it cannot be verified again.
SlotApart(q) ==
    q.op = "verify" =>
        /\ q.step \in {"deleteOtp", "clearAttempts", "readPending", "saveToken"} =>
            \A t \in DOMAIN token : token[t].pin # q.pin
        /\ q.step \in {"clearAttempts", "readPending", "saveToken"} =>
            \A p \in Purposes, e \in Emails : otp[p][e].pin # q.pin

TokenInv == Still => TokensApart /\ \A r \in Requests : SlotApart(req[r])

LEMMA TokenStep ==
    ASSUME TypeInv, AloneInv, PinInv, TokenInv, [Next]_vars
    PROVE  TokenInv'
<1> SUFFICES ASSUME Still' PROVE (TokensApart /\ \A r \in Requests : SlotApart(req[r]))'
  BY DEF TokenInv
<1>1. /\ Still /\ Alone /\ ~Mishap("fault")
      /\ \A r \in Requests : \A slot : Starts(r, slot) => Quiet
  BY StillBefore
<1>2. /\ TokensApart /\ \A r \in Requests : SlotApart(req[r])
      /\ OtpNamed /\ \A r \in Requests : SlotNamed(req[r])
  BY <1>1 DEF TokenInv, PinInv
<1>3. /\ req \in [Requests -> RequestState] /\ otp \in [Purposes -> [Emails -> OtpDoc]]
      /\ Len(pin) \in Nat /\ token \in Seq(TokenDoc) /\ DOMAIN token = 1..Len(token) /\ Len(token) \in Nat
      /\ \A t \in DOMAIN token : token[t] \in TokenDoc
  BY DEF TypeInv, TypeOK
<1>4. \A t \in DOMAIN token : token[t].pin \in 1..MaxPins /\ token[t].pin <= Len(pin) /\ token[t].pin # 0
  BY <1>3, NoneIs DEF TokenDoc, TypeInv, KnownPins
<1>5. CASE UNCHANGED <<token, otp, req>>
  BY <1>2, <1>5 DEF TokensApart, SlotApart
<1>6. SlotApart(Idle)'
  BY DEF SlotApart, Idle
<1>7. CASE Crash
  <2>1. UNCHANGED <<token, otp>> /\ \A r \in Requests : req'[r] = Idle
    BY <1>7 DEF Crash, redis
  <2> QED BY <1>2, <1>6, <2>1 DEF TokensApart, SlotApart
<1>8. CASE Expire
  <2>1. UNCHANGED <<token, req>> /\ \A p \in Purposes, e \in Emails : otp'[p][e] = NoOtp \/ otp'[p][e] = otp[p][e]
    BY <1>3, <1>8 DEF Expire
  <2>2. NoOtp.pin = 0
    BY DEF NoOtp
  <2>3. TokensApart'
    BY <1>2, <1>4, <2>1, <2>2 DEF TokensApart
  <2>4. ASSUME NEW r \in Requests PROVE SlotApart(req[r])'
    <3>1. SlotApart(req[r]) /\ SlotFit(req[r])
      BY <1>2 DEF TypeInv
    <3> QED BY <2>1, <2>2, <3>1 DEF SlotApart, SlotFit
  <2> QED BY <2>3, <2>4
<1>9. ASSUME NEW r \in Requests, NEW slot, Starts(r, slot), Born(slot)
      PROVE  (TokensApart /\ \A s \in Requests : SlotApart(req[s]))'
  <2>1. UNCHANGED <<token, otp>> /\ req' = [req EXCEPT ![r] = slot]
    BY <1>9 DEF Starts, Enters, redis
  <2>2. SlotApart(slot)
    BY <1>9 DEF Born, SlotApart
  <2>3. \A s \in Requests : SlotApart(req'[s])
    BY <1>2, <1>3, <2>1, <2>2
  <2> QED BY <1>2, <2>1, <2>3 DEF TokensApart, SlotApart
<1>10. ASSUME NEW r \in Requests, Continue(r)
       PROVE  (TokensApart /\ \A s \in Requests : SlotApart(req[s]))'
  <2> DEFINE q == req[r]
  <2>1. PICK slot : Moved(r, slot)
    BY <1>10, ContinueMoves DEF Moves
  <2>2. \A s \in Requests : req'[s] = IF s = r THEN slot ELSE Idle
    BY <1>1, <1>10, <2>1, GoesOn, OthersIdle
  <2>3. /\ q \in RequestState /\ SlotFit(q) /\ slot \in RequestState /\ SlotFit(slot)
        /\ slot = Idle \/ Way(q, slot)
        /\ SlotApart(q) /\ SlotNamed(q) /\ Learnt(r, slot)
    BY <1>1, <1>2, <1>10, <2>1, Learns DEF TypeInv, TypeOK, Moved
  <2>4. ASSUME NEW p \in Purposes, NEW e \in Emails
        PROVE  \/ otp'[p][e].pin = otp[p][e].pin
               \/ SaveOtp(r) /\ otp'[p][e].pin = Len(pin) + 1
               \/ otp'[p][e].pin = 0
    <3>1. OtpMoved(r, p, e) /\ otp[p][e] \in OtpDoc
      BY <1>3, <1>10, OtpMoves
    <3>2. [otp[p][e] EXCEPT !.mailed = TRUE].pin = otp[p][e].pin /\ [otp[p][e] EXCEPT !.wrong = @ + 1].pin = otp[p][e].pin
      BY <3>1 DEF OtpDoc
    <3>3. NoOtp.pin = 0 /\ (SaveOtp(r) => [NoOtp EXCEPT !.pin = Len(pin) + 1].pin = Len(pin) + 1)
      BY DEF NoOtp
    <3> QED BY <3>1, <3>2, <3>3 DEF OtpMoved
  <2>5. TokenMade(r) => UNCHANGED otp /\ q.step = "saveToken" /\ q.op = "verify"
    BY <2>3, CallOf DEF TokenMade, SaveToken, Write
  <2>6. TokensApart'
    <3>1. CASE TokensKept
      BY <1>2, <1>3, <1>4, <2>4, <3>1 DEF TokensApart, TokensKept
    <3>2. CASE TokenMade(r)
      <4> DEFINE n == Len(token) + 1
      <4>1. /\ DOMAIN token' = DOMAIN token \cup {n} /\ n \notin DOMAIN token
            /\ token'[n].pin = q.pin /\ \A t \in DOMAIN token : token'[t] = token[t]
        BY <1>3, <3>2 DEF TokenMade
      <4> HIDE DEF n
      <4>2. /\ \A t \in DOMAIN token : token[t].pin # q.pin
            /\ \A p \in Purposes, e \in Emails : otp[p][e].pin # q.pin
        BY <2>3, <2>5, <3>2 DEF SlotApart
      <4> QED BY <1>2, <2>5, <3>2, <4>1, <4>2 DEF TokensApart
    <3> QED BY <1>10, <3>1, <3>2, TokensMove
  <2>7. SlotApart(slot)'
    <3>1. SUFFICES ASSUME slot.op = "verify",
                          slot.step \in {"deleteOtp", "clearAttempts", "readPending", "saveToken"}
                   PROVE  /\ \A t \in DOMAIN token' : token'[t].pin # slot.pin
                          /\ slot.step # "deleteOtp" =>
                                \A p \in Purposes, e \in Emails : otp'[p][e].pin # slot.pin
      BY DEF SlotApart
    <3>2. /\ slot # Idle /\ q.op = "verify" /\ q.purpose \in Purposes /\ q.email \in Emails
          /\ slot.step = "deleteOtp" => q.step = "readOtp"
          /\ slot.step # "deleteOtp" => q.step \in {"deleteOtp", "clearAttempts", "readPending"}
          /\ q.step # "readOtp" => slot.pin = q.pin
      <4>1. slot # Idle /\ q.op = "verify" /\ Way(q, slot) /\ q.step # "countWrong"
        BY <2>3, <3>1, IdleIs DEF Way, Learnt
      <4>2. q.purpose \in Purposes /\ q.email \in Emails
        BY <2>3, <4>1 DEF SlotFit, RequestState
      <4>3. q.step # "saveOtp"
        BY <2>3, <4>1, CallOf
      <4> QED BY <3>1, <4>1, <4>2, <4>3 DEF Way, Follows
    <3>3. TokensKept
      BY <1>10, <2>5, <3>2, TokensMove
    <3>4. \A t \in DOMAIN token : token[t].pin # slot.pin
      <4>1. CASE q.step = "readOtp"
        <5>1. slot.pin = otp[q.purpose][q.email].pin
          BY <2>3, <3>2, <4>1 DEF Learnt
        <5> QED BY <1>2, <3>2, <5>1 DEF TokensApart
      <4>2. CASE q.step # "readOtp"
        BY <2>3, <3>2, <4>2 DEF SlotApart
      <4> QED BY <4>1, <4>2
    <3>5. ASSUME slot.step # "deleteOtp", NEW p \in Purposes, NEW e \in Emails
          PROVE  otp'[p][e].pin # slot.pin
      <4>1. slot.pin = q.pin /\ q.pin # 0
        BY <2>3, <3>2, <3>5 DEF SlotFit
      <4>2. ~SaveOtp(r)
        BY <3>2, <3>5 DEF SaveOtp
      <4>3. CASE q.step \in {"clearAttempts", "readPending"}
        <5>1. otp[p][e].pin # q.pin
          BY <2>3, <3>2, <4>3 DEF SlotApart
        <5> QED BY <2>4, <4>1, <4>2, <5>1
      <4>4. CASE q.step = "deleteOtp"
        <5>1. CASE p = q.purpose /\ e = q.email
          <6>1. otp' = [otp EXCEPT ![q.purpose][q.email] = NoOtp]
            BY <1>1, <1>10, <4>4, ActsAt DEF DeleteOtp
          <6>2. otp'[p][e] = NoOtp
            BY <1>3, <3>2, <5>1, <6>1
          <6> QED BY <4>1, <6>2 DEF NoOtp
        <5>2. CASE ~(p = q.purpose /\ e = q.email)
          <6>1. Named(q.pin, q.purpose, q.email)
            BY <2>3, <3>2, <4>1 DEF SlotNamed
          <6>2. otp[p][e].pin # q.pin
            BY <1>2, <4>1, <5>2, <6>1 DEF OtpNamed, Named
          <6> QED BY <2>4, <4>1, <4>2, <6>2
        <5> QED BY <5>1, <5>2
      <4> QED BY <3>2, <3>5, <4>3, <4>4
    <3> QED BY <3>3, <3>4, <3>5 DEF TokensKept
  <2>8. \A s \in Requests : SlotApart(req[s])'
    BY <1>6, <2>2, <2>7 DEF SlotApart
  <2> QED BY <2>6, <2>8
<1>11. CASE UNCHANGED vars \/ (\E e \in Emails : Deactivate(e))
  BY <1>5, <1>11 DEF vars, redis, Deactivate
<1> QED BY <1>7, <1>8, <1>9, <1>10, <1>11, BeginStarts DEF Next, Still, Without

LEMMA PinsNamed == Spec => []PinInv
<1>1. Init => PinInv
  BY DEF Init, PinInv, OtpNamed, SlotNamed, Idle, NoOtp
<1> QED BY <1>1, AloneTyped, PinStep, PTL DEF Spec

\* A PIN yields at most one setup or reset token, wherever the process dies, as
\* long as handlers do not overlap and Redis answers.
THEOREM OneTokenPerPin == Spec => []TokenPerPin
<1>1. Init => TokenInv
  BY DEF Init, TokenInv, TokensApart, SlotApart, Idle
<1>2. TokenInv => TokenPerPin
  BY DEF TokenInv, Still, TokensApart, TokenPerPin
<1> QED BY <1>1, <1>2, AloneTyped, PinsNamed, TokenStep, PTL DEF Spec

-----------------------------------------------------------------------------
(* An account has the phone number that its PIN was asked for with             *)

AccountPhones ==
    \A e \in Emails : account[e].pin # 0 =>
        account[e].pin \in DOMAIN pin /\ account[e].phone = pin[account[e].pin].phone

TokenPhones ==
    \A t \in DOMAIN token : pin[token[t].pin].purpose = "register" =>
        token[t].phone \in {None, pin[token[t].pin].phone}

\* A PIN is mailed once the number that was given with it is pending.
MailedPhones ==
    \A p \in Purposes, e \in Emails : otp[p][e].mailed =>
        /\ otp[p][e].pin # 0
        /\ p = "register" => pending[e] \in {None, pin[otp[p][e].pin].phone}

AskedPhone(q) ==
    q.op = "ask" /\ q.step # "saveOtp" =>
        /\ q.pin \in DOMAIN pin /\ pin[q.pin].phone = q.phone
        /\ ~otp[q.purpose][q.email].mailed
        /\ q.step = "mail" /\ q.purpose = "register" => pending[q.email] = q.phone

VerifiedPhone(q) ==
    q.op = "verify" /\ q.purpose = "register" =>
        /\ q.step = "readOtp" /\ q.guess # 0 /\ q.guess = otp["register"][q.email].pin =>
                otp["register"][q.email].mailed
        /\ q.step \in {"deleteOtp", "clearAttempts", "readPending"} => pending[q.email] \in {None, pin[q.pin].phone}
        /\ q.phone = None \/ (q.step = "saveToken" /\ q.phone = pin[q.pin].phone)

SlotPhone(q) ==
    /\ AskedPhone(q) /\ VerifiedPhone(q)
    /\ q.op = "complete" => q.pin \in DOMAIN pin /\ q.phone = pin[q.pin].phone
    /\ q.op = "driver" => q.pin = 0

PhonesMatch == AccountPhones /\ TokenPhones /\ MailedPhones

PhoneInv == Still => PhonesMatch /\ \A r \in Requests : SlotPhone(req[r])

LEMMA AccountFields ==
    ASSUME TypeInv, NEW r \in Requests, Continue(r), NEW e \in Emails
    PROVE  \/ account'[e].phone = account[e].phone /\ account'[e].pin = account[e].pin
           \/ /\ req[r].step = "createAccount" /\ e = req[r].email
              /\ account'[e].phone = req[r].phone /\ account'[e].pin = req[r].pin
<1> DEFINE q == req[r]
<1>1. account \in [Emails -> AccountDoc] /\ account[e] \in AccountDoc
  BY DEF TypeInv, TypeOK
<1>2. CASE CreateAccount(r) /\ ~UNCHANGED account
  <2>1. /\ q.step = "createAccount"
        /\ account' = [account EXCEPT ![q.email] =
                [phone |-> q.phone, password |-> LatestPassword + 1, isActive |-> TRUE, pin |-> q.pin]]
    BY <1>2 DEF CreateAccount
  <2> QED BY <1>1, <2>1
<1>3. CASE SavePassword(r)
  <2>1. account' = [account EXCEPT ![q.email].password = LatestPassword + 1]
    BY <1>3 DEF SavePassword
  <2> QED BY <1>1, <2>1 DEF AccountDoc
<1> QED BY <1>2, <1>3, Written

LEMMA PhonesStep ==
    ASSUME TypeInv, Still, PinInv, PhoneInv, NEW r \in Requests, Continue(r), ~Mishap("fault")
    PROVE  PhonesMatch'
<1> DEFINE q == req[r]
<1>1. /\ q \in RequestState /\ SlotFit(q) /\ SlotPhone(q) /\ SlotNamed(q) /\ OtpNamed
      /\ AccountPhones /\ TokenPhones /\ MailedPhones
  BY DEF TypeInv, TypeOK, PhoneInv, PinInv, PhonesMatch
<1>2. \A k \in DOMAIN pin : k \in DOMAIN pin' /\ pin'[k] = pin[k]
  BY PinsGrow
<1>3. AccountPhones'
  <2>1. ASSUME NEW e \in Emails, account'[e].pin # 0
        PROVE  account'[e].pin \in DOMAIN pin' /\ account'[e].phone = pin'[account'[e].pin].phone
    <3>1. CASE account'[e].phone = account[e].phone /\ account'[e].pin = account[e].pin
      BY <1>1, <1>2, <2>1, <3>1 DEF AccountPhones
    <3>2. CASE q.step = "createAccount" /\ account'[e].phone = q.phone /\ account'[e].pin = q.pin
      <4>1. q.op = "complete"
        BY <1>1, <2>1, <3>2, CallOf DEF SlotPhone
      <4> QED BY <1>1, <1>2, <3>2, <4>1 DEF SlotPhone
    <3> QED BY <3>1, <3>2, AccountFields
  <2> QED BY <2>1 DEF AccountPhones
<1>4. Len(token) \in Nat /\ DOMAIN token = 1..Len(token) /\ \A t \in DOMAIN token : token[t].pin \in DOMAIN pin
  <2>1. /\ token \in Seq(TokenDoc) /\ Len(token) \in Nat /\ DOMAIN token = 1..Len(token)
        /\ Len(pin) \in Nat /\ DOMAIN pin = 1..Len(pin)
    BY DEF TypeInv, TypeOK
  <2>2. \A t \in DOMAIN token : token[t] \in TokenDoc /\ token[t].pin <= Len(pin)
    BY <2>1 DEF TypeInv, KnownPins
  <2> QED BY <2>1, <2>2, NoneIs DEF TokenDoc
<1>5. TokenPhones'
  <2>1. CASE TokensKept
    BY <1>1, <1>2, <1>4, <2>1 DEF TokenPhones, TokensKept
  <2>2. CASE TokenMade(r)
    <3>1. q.step = "saveToken" /\ UNCHANGED pin
      BY <2>2 DEF TokenMade, SaveToken, Write
    <3>2. q.op = "verify" /\ q.pin # 0
      BY <1>1, <3>1, CallOf DEF SlotFit
    <3>3. pin[q.pin].purpose = "register" => q.phone \in {None, pin[q.pin].phone}
      BY <1>1, <3>2 DEF SlotNamed, Named, SlotPhone, VerifiedPhone
    <3> DEFINE n == Len(token) + 1
    <3>4. /\ DOMAIN token' = DOMAIN token \cup {n}
          /\ token'[n].pin = q.pin /\ token'[n].phone = q.phone
          /\ \A t \in DOMAIN token : token'[t] = token[t]
      BY <1>4, <2>2 DEF TokenMade
    <3> HIDE DEF n
    <3> QED BY <1>1, <3>1, <3>3, <3>4 DEF TokenPhones
  <2> QED BY <2>1, <2>2, TokensMove
<1>6. MailedPhones'
  <2> SUFFICES ASSUME NEW p \in Purposes, NEW e \in Emails, otp'[p][e].mailed
               PROVE  /\ otp'[p][e].pin # 0
                      /\ p = "register" => pending'[e] \in {None, pin'[otp'[p][e].pin].phone}
    BY DEF MailedPhones
  <2>1. OtpMoved(r, p, e) /\ otp[p][e] \in OtpDoc
    BY OtpMoves DEF TypeInv, TypeOK
  <2> DEFINE old == otp[p][e]
             new == otp'[p][e]
  <2>2. \/ new.pin = old.pin /\ old.mailed
        \/ /\ Mail(r) /\ p = q.purpose /\ e = q.email
           /\ old.pin # 0 /\ old.pin = q.pin /\ new.pin = old.pin
    <3>1. /\ [old EXCEPT !.mailed = TRUE].pin = old.pin
          /\ [old EXCEPT !.wrong = @ + 1].pin = old.pin
          /\ [old EXCEPT !.wrong = @ + 1].mailed => old.mailed
      BY <2>1 DEF OtpDoc
    <3>2. new # NoOtp /\ \A k : new # [NoOtp EXCEPT !.pin = k]
      BY DEF NoOtp
    <3> QED BY <2>1, <3>1, <3>2 DEF OtpMoved
  <2>3. CASE Mail(r) /\ p = q.purpose /\ e = q.email /\ old.pin # 0 /\ old.pin = q.pin /\ new.pin = old.pin
    <3>1. q.step = "mail" /\ UNCHANGED <<pin, pending>>
      BY <2>3 DEF Mail
    <3>2. q.op = "ask"
      BY <1>1, <3>1, CallOf
    <3> QED BY <1>1, <2>3, <3>1, <3>2 DEF SlotPhone, AskedPhone
  <2>4. CASE new.pin = old.pin /\ old.mailed
    <3>1. old.pin # 0 /\ (p = "register" => pending[e] \in {None, pin[old.pin].phone})
      BY <1>1, <2>4 DEF MailedPhones
    <3>2. pin'[old.pin] = pin[old.pin]
      BY <1>1, <1>2, <3>1 DEF OtpNamed, Named
    <3>3. p = "register" => pending'[e] \in {None, pending[e]}
      <4>1. pending \in [Emails -> Phones \cup {None}]
        BY DEF TypeInv, TypeOK
      <4>2. CASE UNCHANGED pending
        BY <4>2
      <4>3. CASE DeletePending(r)
        BY <4>1, <4>3 DEF DeletePending
      <4>4. CASE SavePending(r)
        <5>1. q.step = "savePending" /\ pending' = [pending EXCEPT ![q.email] = q.phone]
          BY <4>4 DEF SavePending, Write
        <5>2. q.op = "ask" /\ q.purpose = "register"
          BY <1>1, <5>1, CallOf DEF SlotFit
        <5>3. ~otp["register"][q.email].mailed
          BY <1>1, <5>1, <5>2 DEF SlotPhone, AskedPhone
        <5> QED BY <2>4, <4>1, <5>1, <5>3
      <4> QED BY <4>2, <4>3, <4>4, Written
    <3> QED BY <2>4, <3>1, <3>2, <3>3
  <2> QED BY <2>2, <2>3, <2>4
<1> QED BY <1>3, <1>5, <1>6 DEF PhonesMatch

LEMMA SlotPhoneStep ==
    ASSUME TypeInv, Still, PinInv, PhoneInv, NEW r \in Requests, Continue(r), ~Mishap("fault"),
           NEW slot, Moved(r, slot)
    PROVE  SlotPhone(slot)'
<1> DEFINE q == req[r]
<1>1. /\ q \in RequestState /\ SlotFit(q) /\ SlotPhone(q) /\ SlotNamed(q) /\ OtpNamed
      /\ MailedPhones /\ slot \in RequestState /\ SlotFit(slot) /\ Learnt(r, slot)
      /\ slot = Idle \/ Way(q, slot)
  BY Learns DEF TypeInv, TypeOK, PhoneInv, PinInv, PhonesMatch, Moved
<1>2. \A k \in DOMAIN pin : k \in DOMAIN pin' /\ pin'[k] = pin[k]
  BY PinsGrow
<1>3. CASE slot = Idle
  BY <1>3 DEF Idle, SlotPhone, AskedPhone, VerifiedPhone
<1>4. ASSUME slot # Idle, slot.op = "ask", slot.step # "saveOtp"
      PROVE  AskedPhone(slot)'
  <2>1. /\ q.op = "ask" /\ slot.purpose = q.purpose /\ slot.email = q.email /\ slot.phone = q.phone
        /\ q.step # "saveOtp" => slot.pin = q.pin
        /\ q.purpose \in Purposes /\ q.email \in Emails
    BY <1>1, <1>4, CallOf DEF Way, SlotFit, RequestState
  <2>2. CASE q.step = "saveOtp"
    <3>1. SaveOtp(r) /\ slot.pin = Len(pin) + 1 /\ slot.step # "mail"
      BY <1>1, <1>4, <2>2, ActsAt DEF Learnt, Way, Follows
    <3>2. slot.pin \in DOMAIN pin' /\ pin'[slot.pin].phone = q.phone
      BY <3>1, PinMade
    <3>3. otp' = [otp EXCEPT ![q.purpose][q.email] = [NoOtp EXCEPT !.pin = Len(pin) + 1]]
      BY <3>1 DEF SaveOtp
    <3>4. otp'[q.purpose][q.email] = [NoOtp EXCEPT !.pin = Len(pin) + 1]
      BY <2>1, <3>3 DEF TypeInv, TypeOK
    <3>5. ~otp'[q.purpose][q.email].mailed
      BY <3>4 DEF NoOtp
    <3> QED BY <2>1, <3>1, <3>2, <3>5 DEF AskedPhone
  <2>3. CASE q.step # "saveOtp"
    <3>1. q.pin \in DOMAIN pin /\ pin[q.pin].phone = q.phone /\ ~otp[q.purpose][q.email].mailed
      BY <1>1, <2>1, <2>3 DEF SlotPhone, AskedPhone
    <3>2. q.step \in {"clearAttempts", "savePending"}
      BY <1>1, <1>4, <2>1, <2>3, CallOf DEF Way, Follows, SlotFit, Stages
    <3>3. UNCHANGED otp
      BY <3>2, Written DEF SaveOtp, Mail, ReadOtp, DeleteOtp, Write
    <3>4. slot.step = "mail" /\ slot.purpose = "register" => pending'[q.email] = q.phone
      <4>1. slot.step = "mail" /\ slot.purpose = "register" => q.step = "savePending"
        BY <1>1, <1>4, <2>1 DEF Way, Follows
      <4>2. q.step = "savePending" => pending' = [pending EXCEPT ![q.email] = q.phone]
        BY ActsAt DEF SavePending
      <4> QED BY <2>1, <4>1, <4>2 DEF TypeInv, TypeOK
    <3> QED BY <1>2, <2>1, <2>3, <3>1, <3>3, <3>4 DEF AskedPhone
  <2> QED BY <2>2, <2>3
<1>5. ASSUME slot # Idle, slot.op = "verify", slot.purpose = "register"
      PROVE  VerifiedPhone(slot)'
  <2>1. /\ q.op = "verify" /\ q.purpose = "register" /\ slot.email = q.email /\ q.email \in Emails
        /\ Follows(q, slot.step) /\ q.step \notin {"saveOtp", "countWrong"}
    BY <1>1, <1>5, CallOf DEF Way, SlotFit, Learnt
  <2>2. /\ slot.step \in {"deleteOtp", "countWrong", "clearAttempts", "readPending", "saveToken"}
        /\ slot.step \in {"deleteOtp", "countWrong"} <=> q.step = "readOtp"
        /\ slot.step = "clearAttempts" => q.step = "deleteOtp"
        /\ slot.step = "readPending" => q.step = "clearAttempts"
        /\ slot.step = "saveToken" => q.step = "readPending"
    BY <1>1, <1>5, <2>1 DEF SlotFit, Stages, Follows
  <2>3. UNCHANGED <<pin, pending>>
    BY <1>1, <2>1, CallOf, Written DEF SaveOtp, SavePending, DeletePending, Write
  <2>4. CASE slot.step \in {"deleteOtp", "countWrong"}
    <3>1. slot.phone = None
      <4>1. q.step = "readOtp"
        BY <2>2, <2>4
      <4>2. slot.phone = q.phone
        BY <1>1, <1>5, <4>1 DEF Way
      <4>3. q.phone = None
        BY <1>1, <2>1, <4>1 DEF SlotPhone, VerifiedPhone
      <4> QED BY <4>2, <4>3
    <3>2. slot.step = "deleteOtp" => pending[q.email] \in {None, pin[slot.pin].phone}
      <4>1. slot.step = "deleteOtp" =>
                slot.pin = otp["register"][q.email].pin /\ slot.pin = q.guess /\ slot.pin # 0
        BY <1>1, <1>5, <2>1, <2>2 DEF Learnt
      <4>2. slot.step = "deleteOtp" => otp["register"][q.email].mailed
        BY <1>1, <2>1, <2>2, <4>1 DEF SlotPhone, VerifiedPhone
      <4>3. "register" \in Purposes
        BY DEF Purposes
      <4> QED BY <1>1, <2>1, <4>1, <4>2, <4>3 DEF MailedPhones
    <3> QED BY <2>1, <2>3, <2>4, <3>1, <3>2 DEF VerifiedPhone
  <2>5. CASE slot.step \in {"clearAttempts", "readPending"}
    <3>1. q.step \in {"deleteOtp", "clearAttempts"} /\ slot.pin = q.pin /\ slot.phone = q.phone
      BY <1>1, <1>5, <2>2, <2>5 DEF Way
    <3> QED BY <1>1, <2>1, <2>3, <2>5, <3>1 DEF SlotPhone, VerifiedPhone
  <2>6. CASE slot.step = "saveToken"
    <3>1. q.step = "readPending" /\ slot.pin = q.pin /\ slot.phone = pending[q.email]
      BY <1>1, <1>5, <2>2, <2>6 DEF Way, Learnt
    <3>2. pending[q.email] \in {None, pin[q.pin].phone}
      BY <1>1, <2>1, <3>1 DEF SlotPhone, VerifiedPhone
    <3> QED BY <2>3, <2>6, <3>1, <3>2 DEF VerifiedPhone
  <2> QED BY <2>2, <2>4, <2>5, <2>6
<1>6. ASSUME slot # Idle, slot.op \in {"complete", "driver"}
      PROVE  /\ slot.op = "complete" => slot.pin \in DOMAIN pin' /\ slot.phone = pin'[slot.pin].phone
             /\ slot.op = "driver" => slot.pin = 0
  <2>1. slot.op = q.op /\ q.step \notin {"saveOtp", "readOtp", "readPending"}
    BY <1>1, <1>6, CallOf DEF Way
  <2>2. slot.pin = q.pin /\ slot.phone = q.phone
    BY <1>1, <1>6, <2>1 DEF Way
  <2> QED BY <1>1, <1>2, <2>1, <2>2 DEF SlotPhone
<1>7. CASE slot # Idle
  <2>1. AskedPhone(slot)'
    BY <1>4, <1>7 DEF AskedPhone
  <2>2. VerifiedPhone(slot)'
    BY <1>5, <1>7 DEF VerifiedPhone
  <2> QED BY <1>6, <1>7, <2>1, <2>2 DEF SlotPhone
<1> QED BY <1>3, <1>7

LEMMA BornPhone ==
    ASSUME TypeInv, PhonesMatch, NEW r \in Requests, NEW slot, Starts(r, slot), Born(slot)
    PROVE  SlotPhone(slot)
<1>1. SlotFit(slot) /\ slot \in RequestState /\ slot.pin <= Len(pin) /\ Len(pin) \in Nat /\ DOMAIN pin = 1..Len(pin)
  BY DEF Starts, Enters, TypeInv, TypeOK
<1>2. AskedPhone(slot)
  BY DEF Born, AskedPhone
<1>3. VerifiedPhone(slot)
  BY DEF Born, VerifiedPhone
<1>4. slot.op = "complete" => slot.pin \in DOMAIN pin /\ slot.phone = pin[slot.pin].phone
  <2> SUFFICES ASSUME slot.op = "complete" PROVE slot.pin \in DOMAIN pin /\ slot.phone = pin[slot.pin].phone
    OBVIOUS
  <2>1. /\ slot.token \in DOMAIN token /\ slot.pin = token[slot.token].pin /\ slot.phone = token[slot.token].phone
        /\ pin[slot.pin].purpose = "register" /\ slot.phone \in Phones
    BY <1>1 DEF Born, SlotFit
  <2>2. slot.phone \in {None, pin[slot.pin].phone}
    BY <2>1 DEF PhonesMatch, TokenPhones
  <2>3. token[slot.token] \in TokenDoc
    BY <2>1 DEF TypeInv, TypeOK
  <2>4. slot.pin \in DOMAIN pin
    BY <1>1, <2>1, <2>3, NoneIs DEF TokenDoc
  <2> QED BY <2>1, <2>2, <2>4, NoneIs
<1>5. slot.op = "driver" => slot.pin = 0
  BY DEF Born
<1> QED BY <1>2, <1>3, <1>4, <1>5 DEF SlotPhone

LEMMA PhoneStep ==
    ASSUME TypeInv, AloneInv, PinInv, PhoneInv, [Next]_vars
    PROVE  PhoneInv'
<1> SUFFICES ASSUME Still' PROVE (PhonesMatch /\ \A r \in Requests : SlotPhone(req[r]))'
  BY DEF PhoneInv
<1>1. /\ Still /\ Alone /\ ~Mishap("fault")
      /\ \A r \in Requests : \A slot : Starts(r, slot) => Quiet
  BY StillBefore
<1>2. PhonesMatch /\ \A r \in Requests : SlotPhone(req[r])
  BY <1>1 DEF PhoneInv
<1>3. req \in [Requests -> RequestState] /\ otp \in [Purposes -> [Emails -> OtpDoc]]
  BY DEF TypeInv, TypeOK
<1>4. SlotPhone(Idle)'
  BY DEF SlotPhone, AskedPhone, VerifiedPhone, Idle
<1>5. CASE UNCHANGED vars
  BY <1>2, <1>5 DEF vars, redis, PhonesMatch, AccountPhones, TokenPhones, MailedPhones, SlotPhone,
                    AskedPhone, VerifiedPhone
<1>6. ASSUME UNCHANGED <<pin, otp, pending, token>>,
             \A e \in Emails : account'[e].pin = account[e].pin /\ account'[e].phone = account[e].phone
      PROVE  PhonesMatch' /\ \A q : SlotPhone(q) => SlotPhone(q)'
  <2>1. AccountPhones'
    BY <1>2, <1>6 DEF PhonesMatch, AccountPhones
  <2>2. TokenPhones' /\ MailedPhones'
    BY <1>2, <1>6 DEF PhonesMatch, TokenPhones, MailedPhones
  <2>3. \A q : SlotPhone(q) => SlotPhone(q)'
    BY <1>6 DEF SlotPhone, AskedPhone, VerifiedPhone
  <2> QED BY <2>1, <2>2, <2>3 DEF PhonesMatch
<1>7. CASE Crash
  <2>1. UNCHANGED <<account, pin, otp, pending, token>> /\ \A r \in Requests : req'[r] = Idle
    BY <1>7 DEF Crash, redis
  <2>2. PhonesMatch'
    BY <1>6, <2>1
  <2>3. \A r \in Requests : SlotPhone(req[r])'
    BY <1>4, <2>1 DEF SlotPhone, AskedPhone, VerifiedPhone
  <2> QED BY <2>2, <2>3
<1>8. ASSUME NEW e \in Emails, Deactivate(e)
      PROVE  (PhonesMatch /\ \A r \in Requests : SlotPhone(req[r]))'
  <2>1. UNCHANGED <<pin, otp, pending, token, req>> /\ account' = [account EXCEPT ![e].isActive = FALSE]
    BY <1>8 DEF Deactivate, redis
  <2>2. ASSUME NEW d \in Emails PROVE account'[d].pin = account[d].pin /\ account'[d].phone = account[d].phone
    <3>1. account \in [Emails -> AccountDoc] /\ account[d] \in AccountDoc
      BY DEF TypeInv, TypeOK
    <3> QED BY <2>1, <3>1 DEF AccountDoc
  <2>3. PhonesMatch'
    BY <1>6, <2>1, <2>2
  <2>4. \A r \in Requests : SlotPhone(req[r])'
    BY <1>2, <2>1 DEF SlotPhone, AskedPhone, VerifiedPhone
  <2> QED BY <2>3, <2>4
<1>9. CASE Expire
  <2>1. /\ UNCHANGED <<account, pin, pending, token, req>>
        /\ \A p \in Purposes, e \in Emails : otp'[p][e] = NoOtp \/ otp'[p][e] = otp[p][e]
    BY <1>3, <1>9 DEF Expire
  <2>2. NoOtp.pin = 0 /\ ~NoOtp.mailed
    BY DEF NoOtp
  <2>3. AccountPhones' /\ TokenPhones'
    BY <1>2, <2>1 DEF PhonesMatch, AccountPhones, TokenPhones
  <2>4. MailedPhones'
    BY <1>2, <2>1, <2>2 DEF PhonesMatch, MailedPhones
  <2>5. ASSUME NEW r \in Requests PROVE SlotPhone(req[r])'
    <3>1. SlotPhone(req[r]) /\ SlotFit(req[r]) /\ req[r] \in RequestState /\ "register" \in Purposes
      BY <1>2 DEF TypeInv, TypeOK, Purposes
    <3>2. AskedPhone(req[r])'
      BY <2>1, <2>2, <3>1 DEF SlotPhone, AskedPhone, SlotFit, RequestState
    <3>3. VerifiedPhone(req[r])'
      BY <2>1, <2>2, <3>1 DEF SlotPhone, VerifiedPhone, SlotFit, RequestState
    <3> QED BY <2>1, <3>1, <3>2, <3>3 DEF SlotPhone
  <2> QED BY <2>3, <2>4, <2>5 DEF PhonesMatch
<1>10. ASSUME NEW r \in Requests, NEW slot, Starts(r, slot), Born(slot)
       PROVE  (PhonesMatch /\ \A s \in Requests : SlotPhone(req[s]))'
  <2>1. UNCHANGED <<account, pin, otp, pending, token>> /\ req' = [req EXCEPT ![r] = slot]
    BY <1>10 DEF Starts, Enters, redis
  <2>2. SlotPhone(slot)
    BY <1>2, <1>10, BornPhone
  <2>3. PhonesMatch'
    BY <1>6, <2>1
  <2>4. \A s \in Requests : SlotPhone(req'[s])
    BY <1>2, <1>3, <2>1, <2>2
  <2>5. \A s \in Requests : SlotPhone(req[s])'
    BY <2>1, <2>4 DEF SlotPhone, AskedPhone, VerifiedPhone
  <2> QED BY <2>3, <2>5
<1>11. ASSUME NEW r \in Requests, Continue(r)
       PROVE  (PhonesMatch /\ \A s \in Requests : SlotPhone(req[s]))'
  <2>1. PICK slot : Moved(r, slot)
    BY <1>11, ContinueMoves DEF Moves
  <2>2. \A s \in Requests : req'[s] = IF s = r THEN slot ELSE Idle
    BY <1>1, <1>11, <2>1, GoesOn, OthersIdle
  <2>3. PhonesMatch'
    BY <1>1, <1>11, PhonesStep
  <2>4. SlotPhone(slot)'
    BY <1>1, <1>11, <2>1, SlotPhoneStep
  <2>5. \A s \in Requests : SlotPhone(req[s])'
    BY <1>4, <2>2, <2>4 DEF SlotPhone, AskedPhone, VerifiedPhone
  <2> QED BY <2>3, <2>5
<1> QED BY <1>5, <1>7, <1>8, <1>9, <1>10, <1>11, BeginStarts DEF Next, Still, Without

\* An account registers with the phone number that was given with the request
\* for its PIN, as long as handlers do not overlap and Redis answers.
THEOREM PhonesAsAsked == Spec => []PhoneAsAsked
<1>1. Init => PhoneInv
  BY DEF Init, PhoneInv, PhonesMatch, AccountPhones, TokenPhones, MailedPhones, SlotPhone, AskedPhone,
         VerifiedPhone, Idle, NoOtp, NoAccount
<1>2. PhoneInv => PhoneAsAsked
  BY DEF PhoneInv, Still, PhonesMatch, AccountPhones, PhoneAsAsked
<1> QED BY <1>1, <1>2, AloneTyped, PinsNamed, PhoneStep, PTL DEF Spec

-----------------------------------------------------------------------------
(* Accounts stay, and only an account has a password to reset                 *)

LEMMA PasswordMove ==
    ASSUME TypeInv, NEW r \in Requests, Continue(r), NEW e \in Emails
    PROVE  /\ Taken(e) => Taken(e)'
           /\ \/ account'[e].password = account[e].password
              \/ CreateAccount(r) /\ e = req[r].email /\ ~Taken(e) /\ Taken(e)'
              \/ SavePassword(r) /\ e = req[r].email
<1> DEFINE q == req[r]
<1>1. account \in [Emails -> AccountDoc] /\ account[e] \in AccountDoc /\ q \in RequestState /\ SlotFit(q)
  BY DEF TypeInv, TypeOK
<1>2. q.step = "createAccount" => q.phone # None
  BY <1>1, NoneIs, CallOf DEF SlotFit
<1>3. Taken(e) => Taken(e)'
  BY <1>2, AccountFields DEF Taken
<1>4. CASE UNCHANGED account
  BY <1>3, <1>4
<1>5. CASE CreateAccount(r) /\ ~UNCHANGED account
  <2>1. /\ q.step = "createAccount" /\ ~Taken(q.email)
        /\ account' = [account EXCEPT ![q.email] =
                [phone |-> q.phone, password |-> LatestPassword + 1, isActive |-> TRUE, pin |-> q.pin]]
    BY <1>5 DEF CreateAccount
  <2>2. CASE e = q.email
    <3>1. account'[e].phone = q.phone
      BY <1>1, <2>1, <2>2
    <3> QED BY <1>2, <1>5, <2>1, <2>2, <3>1 DEF Taken
  <2>3. CASE e # q.email
    BY <1>1, <1>3, <2>1, <2>3
  <2> QED BY <2>2, <2>3
<1>6. CASE SavePassword(r)
  <2>1. account' = [account EXCEPT ![q.email].password = LatestPassword + 1]
    BY <1>6 DEF SavePassword
  <2>2. e # q.email => account'[e] = account[e]
    BY <1>1, <2>1
  <2> QED BY <1>3, <1>6, <2>2
<1> QED BY <1>4, <1>5, <1>6, Written

OfAccount(q) == (q.op = "ask" /\ q.purpose = "reset") \/ q.op = "reset" => Taken(q.email)

TakenInv ==
    /\ \A e \in Emails : ~Taken(e) => account[e].password = 0
    /\ \A k \in DOMAIN pin : pin[k].purpose = "reset" => Taken(pin[k].email)
    /\ \A r \in Requests : OfAccount(req[r])

LEMMA TakenStep ==
    ASSUME TypeInv, TakenInv, [Next]_vars
    PROVE  TakenInv'
<1>1. /\ req \in [Requests -> RequestState] /\ account \in [Emails -> AccountDoc]
      /\ Len(pin) \in Nat /\ DOMAIN pin = 1..Len(pin) /\ pin \in Seq(PinDoc)
  BY DEF TypeInv, TypeOK
<1>2. OfAccount(Idle)'
  BY DEF OfAccount, Idle
<1>3. CASE UNCHANGED <<account, pin, req>>
  BY <1>3 DEF TakenInv, Taken, OfAccount
<1>4. CASE Crash
  <2>1. UNCHANGED <<account, pin>> /\ \A r \in Requests : req'[r] = Idle
    BY <1>4 DEF Crash
  <2> QED BY <1>2, <2>1 DEF TakenInv, Taken, OfAccount
<1>5. ASSUME NEW e \in Emails, Deactivate(e) PROVE TakenInv'
  <2>1. UNCHANGED <<pin, req>> /\ account' = [account EXCEPT ![e].isActive = FALSE]
    BY <1>5 DEF Deactivate
  <2>2. ASSUME NEW d \in Emails
        PROVE  account'[d].password = account[d].password /\ (Taken(d)' <=> Taken(d))
    <3>1. account[d] \in AccountDoc
      BY <1>1
    <3>2. account'[d].password = account[d].password /\ account'[d].phone = account[d].phone
      BY <1>1, <2>1, <3>1 DEF AccountDoc
    <3> QED BY <3>2 DEF Taken
  <2>3. ASSUME NEW k \in DOMAIN pin PROVE pin[k].email \in Emails
    <3>1. pin[k] \in PinDoc
      BY <1>1, <2>3
    <3> QED BY <3>1 DEF PinDoc
  <2>4. \A r \in Requests : OfAccount(req[r]) /\ (req[r].op \in {"ask", "reset"} => req[r].email \in Emails)
    BY DEF TakenInv, TypeInv, SlotFit
  <2>5. \A r \in Requests : OfAccount(req[r])'
    BY <2>1, <2>2, <2>4 DEF OfAccount, Taken
  <2>6. \A k \in DOMAIN pin' : pin'[k].purpose = "reset" => account'[pin'[k].email].phone # None
    BY <2>1, <2>2, <2>3 DEF TakenInv, Taken
  <2> QED BY <2>1, <2>2, <2>5, <2>6 DEF TakenInv, Taken
<1>6. ASSUME NEW r \in Requests, NEW slot, Enters(r, slot), Born(slot) PROVE TakenInv'
  <2>1. UNCHANGED <<account, pin>> /\ req' = [req EXCEPT ![r] = slot] /\ slot.pin <= Len(pin)
    BY <1>6 DEF Enters
  <2>2. OfAccount(slot)
    <3>1. CASE slot.op = "reset"
      <4>1. slot.token \in DOMAIN token /\ slot.pin = token[slot.token].pin
            /\ pin[slot.pin].purpose = "reset" /\ slot.email = pin[slot.pin].email
        BY <1>6, <3>1 DEF Born
      <4>2. token[slot.token] \in TokenDoc
        BY <4>1 DEF TypeInv, TypeOK
      <4>3. slot.pin \in DOMAIN pin
        BY <1>1, <2>1, <4>1, <4>2, NoneIs DEF TokenDoc
      <4> QED BY <3>1, <4>1, <4>3 DEF OfAccount, TakenInv
    <3>2. CASE slot.op # "reset"
      BY <1>6, <3>2 DEF Born, OfAccount
    <3> QED BY <3>1, <3>2
  <2>3. \A s \in Requests : OfAccount(req'[s])
    BY <1>1, <2>1, <2>2 DEF TakenInv
  <2> QED BY <2>1, <2>3 DEF TakenInv, Taken, OfAccount
<1>7. ASSUME NEW r \in Requests, Continue(r) PROVE TakenInv'
  <2> DEFINE q == req[r]
  <2>1. PICK slot : Moved(r, slot)
    BY <1>7, ContinueMoves DEF Moves
  <2>2. /\ q \in RequestState /\ SlotFit(q) /\ OfAccount(q)
        /\ req' = [req EXCEPT ![r] = slot]
        /\ slot = Idle \/ Way(q, slot)
    BY <2>1 DEF TypeInv, TypeOK, Moved, TakenInv
  <2>3. \A e \in Emails : Taken(e) => Taken(e)'
    BY <1>7, PasswordMove
  <2>4. ASSUME NEW e \in Emails, ~Taken(e)' PROVE account'[e].password = 0
    <3>1. ~Taken(e) /\ account[e].password = 0
      BY <2>3, <2>4 DEF TakenInv
    <3>2. SavePassword(r) => Taken(q.email)
      BY <2>2, CallOf DEF SavePassword, OfAccount
    <3> QED BY <1>7, <2>4, <3>1, <3>2, PasswordMove
  <2>5. ASSUME NEW k \in DOMAIN pin' PROVE pin'[k].purpose = "reset" => account'[pin'[k].email].phone # None
    <3>1. CASE k \in DOMAIN pin
      <4>1. pin'[k] = pin[k] /\ pin[k] \in PinDoc
        BY <1>1, <1>7, <3>1, PinsGrow
      <4>2. pin[k].email \in Emails
        BY <4>1 DEF PinDoc
      <4> QED BY <2>3, <3>1, <4>1, <4>2 DEF TakenInv, Taken
    <3>2. CASE k \notin DOMAIN pin
      <4>1. SaveOtp(r) /\ k = Len(pin) + 1
        <5>1. SaveOtp(r)
          BY <1>7, <2>5, <3>2, Written
        <5>2. pin' = Append(pin, [purpose |-> q.purpose, email |-> q.email, phone |-> q.phone])
          BY <5>1 DEF SaveOtp
        <5>3. DOMAIN pin' = 1..(Len(pin) + 1)
          BY <1>1, <5>2
        <5> QED BY <1>1, <2>5, <3>2, <5>1, <5>3
      <4>2. pin'[k].purpose = q.purpose /\ pin'[k].email = q.email
        BY <4>1, PinMade
      <4>3. q.op = "ask" /\ q.email \in Emails
        BY <2>2, <4>1, CallOf DEF SaveOtp, SlotFit
      <4> QED BY <2>2, <2>3, <4>2, <4>3 DEF OfAccount, Taken
    <3> QED BY <3>1, <3>2
  <2>6. ASSUME NEW s \in Requests PROVE OfAccount(req[s])'
    <3>1. \A d \in RequestState : SlotFit(d) /\ OfAccount(d) => OfAccount(d)'
      BY <2>3 DEF OfAccount, SlotFit, Taken
    <3>2. req[s] \in RequestState /\ SlotFit(req[s]) /\ OfAccount(req[s])
      BY DEF TypeInv, TypeOK, TakenInv
    <3>3. CASE s # r
      <4>1. req'[s] = req[s]
        BY <1>1, <2>2, <3>3
      <4> QED BY <3>1, <3>2, <4>1 DEF OfAccount
    <3>4. CASE s = r /\ slot # Idle
      <4>1. req'[s] = slot /\ Way(q, slot)
        BY <1>1, <2>2, <3>4
      <4>2. (slot.op \in {"ask", "reset"} => slot.op = q.op) /\ slot.purpose = q.purpose /\ slot.email = q.email
        BY <4>1 DEF Way
      <4>3. (q.op = "ask" /\ q.purpose = "reset") \/ q.op = "reset" => account'[q.email].phone # None
        <5>1. \A d : d = q => OfAccount(d)'
          BY <2>2, <3>1
        <5> QED BY <5>1 DEF OfAccount, Taken
      <4> QED BY <4>1, <4>2, <4>3 DEF OfAccount, Taken
    <3>5. CASE s = r /\ slot = Idle
      <4>1. req'[s] = Idle
        BY <1>1, <2>2, <3>5
      <4> QED BY <1>2, <4>1 DEF OfAccount
    <3> QED BY <3>3, <3>4, <3>5
  <2> QED BY <2>4, <2>5, <2>6 DEF TakenInv, Taken
<1>8. CASE UNCHANGED vars \/ Expire
  BY <1>3, <1>8 DEF vars, Expire
<1> QED BY <1>4, <1>5, <1>6, <1>7, <1>8, BeginEnters DEF Next, Starts, StartsUnread

-----------------------------------------------------------------------------
(* Sessions are those of the password                                         *)

\* What a handler makes of a refresh token, as long as Redis answers.
Revoked(q, i, doc) ==
    /\ q.step = "revokeKey" /\ i = q.old => ~doc.live
    /\ q.step = "deleteRefresh" /\ i \in q.ids => ~doc.live
    /\ q.step = "indexRefresh" /\ i = q.new => doc.indexed
    /\ \/ refresh[i].indexed => doc.indexed
       \/ q.step = "revokeIndex" /\ i = q.old
       \/ q.step = "deleteIndex" /\ refresh[i].email = q.email

LEMMA Revokes ==
    ASSUME TypeInv, NEW r \in Requests, Continue(r), ~Mishap("fault"), NEW i \in DOMAIN refresh
    PROVE  Revoked(req[r], i, refresh'[i])
<1> DEFINE q == req[r]
           old == refresh[i]
<1>1. /\ refresh \in Seq(RefreshDoc) /\ i \in Nat \ {0} /\ q \in RequestState /\ SlotFit(q)
      /\ DOMAIN refresh = 1..Len(refresh) /\ Len(refresh) \in Nat
  BY DEF TypeInv, TypeOK
<1>2. old \in RefreshDoc
  BY <1>1
<1>3. /\ ~[old EXCEPT !.live = FALSE].live /\ ([old EXCEPT !.live = FALSE].indexed <=> old.indexed)
      /\ [old EXCEPT !.indexed = TRUE].indexed
  BY <1>2 DEF RefreshDoc
<1>4. CASE UNCHANGED refresh /\ q.step \notin {"revokeKey", "deleteRefresh", "indexRefresh"}
  BY <1>4 DEF Revoked
<1>5. CASE q.step = "revokeKey"
  <2>1. refresh' = [refresh EXCEPT ![q.old].live = FALSE]
    BY <1>5, ActsAt DEF RevokeKey
  <2>2. refresh'[i] = IF i = q.old THEN [old EXCEPT !.live = FALSE] ELSE old
    BY <1>1, <2>1
  <2> QED BY <1>3, <1>5, <2>2 DEF Revoked
<1>6. CASE q.step = "revokeIndex"
  <2>1. refresh' = [refresh EXCEPT ![q.old].indexed = FALSE]
    BY <1>6, ActsAt DEF RevokeIndex
  <2>2. i # q.old => refresh'[i] = old
    BY <1>1, <2>1
  <2> QED BY <1>6, <2>2 DEF Revoked
<1>7. CASE q.step = "indexRefresh"
  <2>1. refresh' = IF q.new = 0 THEN refresh ELSE [refresh EXCEPT ![q.new].indexed = TRUE]
    BY <1>7, ActsAt DEF IndexRefresh
  <2>2. refresh'[i] = IF i = q.new THEN [old EXCEPT !.indexed = TRUE] ELSE old
    BY <1>1, <2>1
  <2> QED BY <1>3, <1>7, <2>2 DEF Revoked
<1>8. CASE q.step = "deleteRefresh"
  <2>1. refresh' = [j \in DOMAIN refresh |->
            IF j \in q.ids THEN [refresh[j] EXCEPT !.live = FALSE] ELSE refresh[j]]
    BY <1>8, ActsAt DEF DeleteRefresh
  <2>2. refresh'[i] = IF i \in q.ids THEN [old EXCEPT !.live = FALSE] ELSE old
    BY <2>1
  <2> QED BY <1>3, <1>8, <2>2 DEF Revoked
<1>9. CASE q.step = "deleteIndex"
  <2>1. refresh' = [j \in DOMAIN refresh |->
            IF j \in IndexOf(q.email) THEN [refresh[j] EXCEPT !.indexed = FALSE] ELSE refresh[j]]
    BY <1>9, ActsAt DEF DeleteIndex
  <2>2. i \notin IndexOf(q.email) => refresh'[i] = old
    BY <2>1
  <2> QED BY <1>9, <2>2 DEF Revoked, IndexOf
<1>10. CASE q.step = "saveRefresh"
  <2>1. PICK doc : refresh' = Append(refresh, doc)
    BY <1>10, ActsAt DEF SaveRefresh
  <2>2. refresh'[i] = old
    BY <1>1, <2>1
  <2> QED BY <1>10, <2>2 DEF Revoked
<1>11. UNCHANGED refresh \/ q.step \in {"revokeKey", "revokeIndex", "saveRefresh", "indexRefresh",
                                        "deleteRefresh", "deleteIndex"}
  BY Written DEF RevokeKey, RevokeIndex, SaveRefresh, IndexRefresh, DeleteRefresh, DeleteIndex, Write
<1> QED BY <1>4, <1>5, <1>6, <1>7, <1>8, <1>9, <1>10, <1>11

\* A reset that has saved the new password revokes what was issued under others.
Resets(q, e) == q.op = "reset" /\ q.email = e /\ q.step # "savePassword"
Indexes(q, i) == q.step = "indexRefresh" /\ q.new = i

\* A token or profile is good under the password, or the handler q sees to it.
TokenGood(q, i) ==
    refresh[i].live =>
        /\ refresh[i].indexed \/ Indexes(q, i)
        /\ Resets(q, refresh[i].email) \/ refresh[i].password = account[refresh[i].email].password
ProfileGood(q, e) == Resets(q, e) \/ session[e] \in {0, account[e].password}

\* What the handler has listed is all there is to revoke.
SlotGood(q) ==
    /\ q.step = "deleteRefresh" =>
        \A i \in DOMAIN refresh : refresh[i].live /\ refresh[i].email = q.email => i \in q.ids
    /\ q.step \in {"deleteIndex", "deleteSession"} =>
        \A i \in DOMAIN refresh : refresh[i].email = q.email => ~refresh[i].live
    /\ q.step = "revokeIndex" => \A i \in DOMAIN refresh : i = q.old => ~refresh[i].live
    /\ q.op = "reset" => q.password = 0
    /\ q.password # 0 => q.email \in Emails /\ q.password = account[q.email].password

Good(q) ==
    /\ \A i \in DOMAIN refresh : TokenGood(q, i)
    /\ \A e \in Emails : ProfileGood(q, e)
    /\ SlotGood(q)

\* As long as handlers run one at a time, there is one to see to it or none.
Only(q) ==
    \/ q = Idle /\ Quiet
    \/ \E r \in Requests : req[r] = q /\ \A s \in Requests : s # r => req[s] = Idle

SessionInv == Without(Kinds) => \A q : Only(q) => Good(q)

\* What a handler and its step tell when it goes on.
LEMMA GoesGood ==
    ASSUME TypeInv, TakenInv, NEW r \in Requests, NEW slot, Moved(r, slot), Continue(r),
           ~Mishap("fault"), Good(req[r])
    PROVE  /\ req[r] \in RequestState /\ SlotFit(req[r]) /\ slot \in RequestState /\ SlotFit(slot)
           /\ Learnt(r, slot)
           /\ slot = Idle \/ Way(req[r], slot)
           /\ \A e : Resets(slot, e) =>
                Resets(req[r], e) \/ (req[r].step = "savePassword" /\ req[r].email = e)
           /\ \A e : Resets(req[r], e) => Resets(slot, e) \/ (req[r].step = "deleteSession" /\ req[r].email = e)
           /\ \A e \in Emails : \/ account'[e].password = account[e].password
                                \/ account[e].password = 0 /\ req[r].step = "createAccount" /\ e = req[r].email
                                \/ Resets(slot, e)
<1> DEFINE q == req[r]
<1>1. /\ q \in RequestState /\ SlotFit(q) /\ slot \in RequestState /\ SlotFit(slot) /\ Learnt(r, slot)
      /\ slot = Idle \/ Way(q, slot)
  BY Learns DEF TypeInv, TypeOK, Moved
<1>2. Idle.op # "reset"
  BY DEF Idle
<1>3. ASSUME NEW e, Resets(slot, e) PROVE Resets(q, e) \/ (q.step = "savePassword" /\ q.email = e)
  BY <1>1, <1>2, <1>3 DEF Way, Resets
<1>4. ASSUME NEW e, Resets(q, e) PROVE Resets(slot, e) \/ (q.step = "deleteSession" /\ q.email = e)
  <2>1. q.step \in Stages("reset") /\ q.step # "savePassword" /\ q.email = e /\ q.op = "reset"
    BY <1>1, <1>4 DEF Resets, SlotFit
  <2>2. CASE q.step \in {"deleteToken", "listRefresh", "deleteRefresh", "deleteIndex"}
    BY <1>1, <2>1, <2>2 DEF Learnt, Way, Follows, Resets
  <2> QED BY <2>1, <2>2 DEF Stages
<1>5. ASSUME NEW e \in Emails
      PROVE  \/ account'[e].password = account[e].password
             \/ account[e].password = 0 /\ q.step = "createAccount" /\ e = q.email
             \/ Resets(slot, e)
  <2>1. CASE CreateAccount(r) /\ e = q.email /\ ~Taken(e)
    BY <2>1 DEF CreateAccount, TakenInv
  <2>2. CASE SavePassword(r) /\ e = q.email
    <3>1. q.step = "savePassword" /\ q.op = "reset" /\ slot # Idle
      BY <1>1, <2>2, CallOf DEF SavePassword, Learnt
    <3> QED BY <1>1, <2>2, <3>1 DEF Way, Follows, Resets
  <2> QED BY <2>1, <2>2, PasswordMove
<1> QED BY <1>1, <1>3, <1>4, <1>5

LEMMA TokensGood ==
    ASSUME TypeInv, TakenInv, NEW r \in Requests, NEW slot, Moved(r, slot), Continue(r),
           ~Mishap("fault"), Good(req[r]), NEW i \in DOMAIN refresh', refresh'[i].live
    PROVE  /\ refresh'[i].indexed \/ Indexes(slot, i)
           /\ Resets(slot, refresh'[i].email) \/ refresh'[i].password = account'[refresh'[i].email].password
<1> DEFINE q == req[r]
<1>1. /\ q \in RequestState /\ SlotFit(q) /\ slot \in RequestState /\ SlotFit(slot) /\ Learnt(r, slot)
      /\ slot = Idle \/ Way(q, slot)
      /\ \A e : Resets(q, e) => Resets(slot, e) \/ (q.step = "deleteSession" /\ q.email = e)
      /\ \A e \in Emails : \/ account'[e].password = account[e].password
                           \/ account[e].password = 0 /\ q.step = "createAccount" /\ e = q.email
                           \/ Resets(slot, e)
  BY GoesGood
<1>2. refresh \in Seq(RefreshDoc) /\ Len(refresh) \in Nat /\ DOMAIN refresh = 1..Len(refresh)
  BY DEF TypeInv, TypeOK
<1>3. CASE i \in DOMAIN refresh
  <2>1. refresh[i] \in RefreshDoc
    BY <1>2, <1>3
  <2>2. /\ refresh'[i].email = refresh[i].email /\ refresh'[i].password = refresh[i].password
        /\ refresh[i].live
    BY <1>3, RefreshMove DEF RefreshKept, RefreshMade
  <2>3. refresh[i].email \in Emails /\ refresh[i].password # 0
    BY <2>1 DEF RefreshDoc
  <2>4. TokenGood(q, i) /\ SlotGood(q)
    BY <1>3 DEF Good
  <2>5. Revoked(q, i, refresh'[i])
    BY <1>3, Revokes
  <2>6. refresh'[i].indexed
    <3>1. CASE Indexes(q, i)
      BY <2>5, <3>1 DEF Indexes, Revoked
    <3>2. CASE refresh[i].indexed
      BY <1>3, <2>2, <2>4, <2>5, <3>2 DEF Revoked, SlotGood
    <3> QED BY <2>2, <2>4, <3>1, <3>2 DEF TokenGood
  <2>7. Resets(slot, refresh[i].email) \/ refresh[i].password = account'[refresh[i].email].password
    <3>1. CASE Resets(q, refresh[i].email)
      BY <1>1, <1>3, <2>2, <2>4, <3>1 DEF SlotGood
    <3>2. CASE refresh[i].password = account[refresh[i].email].password
      BY <1>1, <2>3, <3>2
    <3> QED BY <2>2, <2>4, <3>1, <3>2 DEF TokenGood
  <2> QED BY <2>2, <2>6, <2>7
<1>4. CASE i \notin DOMAIN refresh
  <2>1. RefreshMade(r) /\ i = Len(refresh) + 1
    <3>1. RefreshMade(r)
      BY <1>4, RefreshMove DEF RefreshKept
    <3> QED BY <1>2, <1>4, <3>1 DEF RefreshMade
  <2>2. refresh'[i].email = q.email /\ refresh'[i].password = q.password /\ q.step = "saveRefresh"
    BY <2>1 DEF RefreshMade, SaveRefresh
  <2>3. q.op \in {"complete", "driver", "login", "refresh"} /\ q.password # 0
    BY <1>1, <2>2, CallOf DEF SlotFit
  <2>4. q.email \in Emails /\ q.password = account[q.email].password
    BY <2>3 DEF Good, SlotGood
  <2>5. slot # Idle /\ slot.new = i
    BY <1>1, <2>1, <2>2 DEF Learnt
  <2>6. slot.step = "indexRefresh"
    <3>1. SaveRefresh(r)
      BY <2>1 DEF RefreshMade
    <3>2. slot.op = q.op /\ Follows(q, slot.step) /\ slot.step \in Stages(slot.op)
      BY <1>1, <2>2, <2>5 DEF Way, SlotFit
    <3> QED BY <2>2, <2>3, <3>2 DEF Follows, Stages
  <2>7. account'[q.email].password = account[q.email].password
    BY <1>1, <2>2, <2>3, <2>4 DEF Way, Resets, Idle
  <2> QED BY <2>2, <2>4, <2>5, <2>6, <2>7 DEF Indexes
<1> QED BY <1>3, <1>4

LEMMA ProfilesGood ==
    ASSUME TypeInv, TakenInv, NEW r \in Requests, NEW slot, Moved(r, slot), Continue(r),
           ~Mishap("fault"), Good(req[r]), NEW e \in Emails
    PROVE  Resets(slot, e) \/ session'[e] \in {0, account'[e].password}
<1> DEFINE q == req[r]
<1>1. /\ q \in RequestState /\ SlotFit(q) /\ Learnt(r, slot)
      /\ \A d : Resets(q, d) => Resets(slot, d) \/ (q.step = "deleteSession" /\ q.email = d)
      /\ \/ account'[e].password = account[e].password
         \/ account[e].password = 0 /\ q.step = "createAccount" /\ e = q.email
         \/ Resets(slot, e)
  BY GoesGood
<1>2. session \in [Emails -> 0..MaxPasswords]
  BY DEF TypeInv, TypeOK
<1>3. CASE q.step = "saveSession" /\ e = q.email
  <2>1. session'[e] = q.password
    BY <1>2, <1>3, ActsAt DEF SaveSession
  <2>2. q.password \in {0, account[e].password}
    BY <1>3 DEF Good, SlotGood
  <2> QED BY <1>1, <1>3, <2>1, <2>2
<1>4. CASE q.step = "deleteSession" /\ e = q.email
  <2>1. session'[e] = 0
    BY <1>2, <1>4, ActsAt DEF DeleteSession
  <2> QED BY <2>1
<1>5. CASE ~(q.step \in {"saveSession", "deleteSession"} /\ e = q.email)
  <2>1. CASE UNCHANGED session
    BY <1>1, <1>5, <2>1 DEF Good, ProfileGood
  <2>2. CASE SaveSession(r) \/ DeleteSession(r)
    <3>1. session'[e] = session[e]
      BY <1>2, <1>5, <2>2 DEF SaveSession, DeleteSession, Write
    <3> QED BY <1>1, <1>5, <3>1 DEF Good, ProfileGood
  <2> QED BY <2>1, <2>2, Written
<1> QED BY <1>3, <1>4, <1>5

LEMMA ListsGood ==
    ASSUME TypeInv, TakenInv, NEW r \in Requests, NEW slot, Moved(r, slot), Continue(r),
           ~Mishap("fault"), Good(req[r])
    PROVE  SlotGood(slot)'
<1> DEFINE q == req[r]
<1>1. /\ q \in RequestState /\ SlotFit(q) /\ slot \in RequestState /\ SlotFit(slot) /\ Learnt(r, slot)
      /\ slot = Idle \/ Way(q, slot)
      /\ \A e \in Emails : \/ account'[e].password = account[e].password
                           \/ account[e].password = 0 /\ q.step = "createAccount" /\ e = q.email
                           \/ Resets(slot, e)
  BY GoesGood
<1>2. SlotGood(q) /\ \A i \in DOMAIN refresh : TokenGood(q, i)
  BY DEF Good
<1>3. CASE slot = Idle
  BY <1>3 DEF Idle, SlotGood
<1>4. CASE slot # Idle
  <2>1. Way(q, slot) /\ slot.email = q.email /\ slot.old = q.old
    BY <1>1, <1>4 DEF Way
  <2>2. ASSUME slot.step \in {"deleteRefresh", "deleteIndex", "deleteSession", "revokeIndex"}
        PROVE  /\ DOMAIN refresh' = DOMAIN refresh
               /\ \A i \in DOMAIN refresh : /\ refresh'[i].email = refresh[i].email
                                            /\ refresh'[i].live => refresh[i].live
    <3>1. q.step # "saveRefresh"
      BY <1>1, <2>1, <2>2, CallOf DEF Way, Follows
    <3> QED BY <3>1, RefreshMove DEF RefreshKept, RefreshMade, SaveRefresh
  <2>3. ASSUME slot.step = "deleteRefresh", NEW i \in DOMAIN refresh', refresh'[i].live, refresh'[i].email = slot.email
        PROVE  i \in slot.ids
    <3>1. q.step = "listRefresh" /\ slot.ids = IndexOf(q.email)
      BY <1>1, <2>1, <2>3 DEF Way, Follows, Learnt
    <3>2. i \in DOMAIN refresh /\ refresh[i].live /\ refresh[i].email = q.email
      BY <2>1, <2>2, <2>3
    <3>3. refresh[i].indexed
      BY <1>2, <3>1, <3>2 DEF TokenGood, Indexes
    <3> QED BY <3>1, <3>2, <3>3 DEF IndexOf
  <2>4. ASSUME slot.step \in {"deleteIndex", "deleteSession"}, NEW i \in DOMAIN refresh', refresh'[i].email = slot.email
        PROVE  ~refresh'[i].live
    <3>1. q.step = "deleteRefresh" \/ q.step = "deleteIndex"
      BY <2>1, <2>4 DEF Way, Follows
    <3>2. i \in DOMAIN refresh /\ refresh[i].email = q.email /\ (refresh'[i].live => refresh[i].live)
      BY <2>1, <2>2, <2>4
    <3>3. Revoked(q, i, refresh'[i])
      BY <3>2, Revokes
    <3> QED BY <1>2, <3>1, <3>2, <3>3 DEF SlotGood, Revoked
  <2>5. ASSUME slot.step = "revokeIndex", NEW i \in DOMAIN refresh', i = slot.old
        PROVE  ~refresh'[i].live
    <3>1. q.step = "revokeKey"
      BY <2>1, <2>5 DEF Way, Follows
    <3>2. i \in DOMAIN refresh
      BY <2>2, <2>5
    <3> QED BY <2>1, <2>5, <3>1, <3>2, Revokes DEF Revoked
  <2>6. slot.op = "reset" => q.op = "reset" /\ slot.password = 0
    <3>1. slot.op = "reset" => q.op = "reset" /\ q.step \notin {"createAccount", "findUser"}
      BY <1>1, <2>1, CallOf DEF Way
    <3> QED BY <1>2, <2>1, <3>1 DEF Way, SlotGood
  <2>7. ASSUME slot.password # 0 PROVE slot.email \in Emails /\ slot.password = account'[slot.email].password
    <3>1. CASE q.step = "createAccount"
      <4>1. slot.password = LatestPassword + 1 /\ ~UNCHANGED account /\ q.email \in Emails
        BY <1>1, <1>4, <3>1, CallOf DEF Learnt, SlotFit
      <4>2. account' = [account EXCEPT ![q.email] =
                [phone |-> q.phone, password |-> LatestPassword + 1, isActive |-> TRUE, pin |-> q.pin]]
        BY <3>1, <4>1, ActsAt DEF CreateAccount
      <4>3. account'[q.email].password = LatestPassword + 1
        BY <4>1, <4>2 DEF TypeInv, TypeOK
      <4> QED BY <2>1, <4>1, <4>3
    <3>2. CASE q.step = "findUser"
      <4>1. slot.password = account[q.email].password /\ q.email \in Emails
        BY <1>1, <1>4, <3>2, CallOf DEF Learnt, SlotFit
      <4>2. UNCHANGED account
        BY <3>2, ActsAt DEF FindUser
      <4> QED BY <2>1, <4>1, <4>2
    <3>3. CASE q.step \notin {"createAccount", "findUser"}
      <4>1. slot.password = q.password /\ q.email \in Emails /\ q.password = account[q.email].password
        BY <1>2, <2>1, <2>7, <3>3 DEF Way, SlotGood
      <4>2. ~Resets(slot, q.email)
        BY <2>6, <2>7 DEF Resets
      <4> QED BY <1>1, <2>1, <3>3, <4>1, <4>2
    <3> QED BY <3>1, <3>2, <3>3
  <2> QED BY <2>3, <2>4, <2>5, <2>6, <2>7 DEF SlotGood
<1> QED BY <1>3, <1>4

LEMMA SessionStep ==
    ASSUME TypeInv, AloneInv, TakenInv, SessionInv, [Next]_vars
    PROVE  SessionInv'
<1> SUFFICES ASSUME Without(Kinds)', NEW q, Only(q)' PROVE Good(q)'
  BY DEF SessionInv
<1>1. /\ \A kind \in Kinds : mishap'[kind] = 0 /\ mishap[kind] = 0 /\ ~Mishap(kind)
      /\ Still'
  BY MishapsGrow DEF Without, Still, Kinds
<1>2. /\ Without(Kinds) /\ Alone /\ ~Mishap("fault") /\ ~Mishap("crash")
      /\ \A r \in Requests : \A slot : Starts(r, slot) => Quiet
  BY <1>1, StillBefore DEF Without, Kinds
<1>3. \A x : Only(x) => Good(x)
  BY <1>2 DEF SessionInv
<1>4. req \in [Requests -> RequestState] /\ account \in [Emails -> AccountDoc]
  BY DEF TypeInv, TypeOK
<1>5. ASSUME UNCHANGED <<refresh, session>>, \A e \in Emails : account'[e].password = account[e].password
      PROVE  \A x : Good(x) => Good(x)'
  <2>1. \A i \in DOMAIN refresh : refresh[i].email \in Emails
    <3> SUFFICES ASSUME NEW i \in DOMAIN refresh PROVE refresh[i].email \in Emails
      OBVIOUS
    <3>1. refresh[i] \in RefreshDoc
      BY DEF TypeInv, TypeOK
    <3> QED BY <3>1 DEF RefreshDoc
  <2> SUFFICES ASSUME NEW x, Good(x) PROVE Good(x)'
    OBVIOUS
  <2>2. \A i \in DOMAIN refresh : TokenGood(x, i)'
    BY <1>5, <2>1 DEF Good, TokenGood, Resets, Indexes
  <2>3. \A e \in Emails : ProfileGood(x, e)'
    BY <1>5 DEF Good, ProfileGood, Resets
  <2>4. SlotGood(x)'
    BY <1>5 DEF Good, SlotGood
  <2> QED BY <1>5, <2>2, <2>3, <2>4 DEF Good
<1>6. CASE UNCHANGED req /\ UNCHANGED <<refresh, session>> /\ \A e \in Emails : account'[e].password = account[e].password
  <2>1. Only(q)
    BY <1>6 DEF Only, Quiet
  <2> QED BY <1>3, <1>5, <1>6, <2>1
<1>7. ASSUME NEW e \in Emails, Deactivate(e) PROVE Good(q)'
  <2>1. UNCHANGED <<refresh, session, req>> /\ account' = [account EXCEPT ![e].isActive = FALSE]
    BY <1>7 DEF Deactivate, redis
  <2>2. ASSUME NEW d \in Emails PROVE account'[d].password = account[d].password
    <3>1. account[d] \in AccountDoc
      BY <1>4
    <3> QED BY <1>4, <2>1, <3>1 DEF AccountDoc
  <2> QED BY <1>6, <2>1, <2>2
<1>8. ASSUME NEW r \in Requests, NEW slot, req' = [req EXCEPT ![r] = slot],
             \A s \in Requests : s # r => req[s] = Idle
      PROVE  q = slot
  <2>1. \A s \in Requests : req'[s] = IF s = r THEN slot ELSE Idle
    BY <1>4, <1>8
  <2> QED BY <2>1 DEF Only, Quiet
<1>9. ASSUME NEW r \in Requests, NEW slot, Starts(r, slot), Born(slot) PROVE Good(q)'
  <2>1. UNCHANGED <<account, refresh, session>> /\ req' = [req EXCEPT ![r] = slot] /\ Quiet
    BY <1>2, <1>9 DEF Starts, Enters, redis
  <2>2. q = slot
    BY <1>8, <2>1 DEF Quiet
  <2>3. Good(Idle)
    BY <1>3, <2>1 DEF Only
  <2>4. /\ \A i : ~Indexes(Idle, i)
        /\ \A e : ~Resets(Idle, e)
    BY DEF Idle, Indexes, Resets
  <2>5. SlotGood(slot)
    <3>1. slot.step \in Stages(slot.op) /\ (slot.op = "login" => slot.email \in Emails) /\ slot.op \in Ops
      BY <1>9 DEF Starts, Enters, SlotFit, RequestState
    <3>2. slot.step \notin {"deleteRefresh", "deleteIndex", "deleteSession", "revokeIndex"}
      BY <1>9, <3>1 DEF Born, Stages, Ops
    <3> QED BY <1>9, <3>1, <3>2 DEF Born, SlotGood
  <2>6. Good(slot)
    BY <2>3, <2>4, <2>5 DEF Good, TokenGood, ProfileGood
  <2> QED BY <1>5, <2>1, <2>2, <2>6
<1>10. ASSUME NEW r \in Requests, Continue(r) PROVE Good(q)'
  <2>1. PICK slot : Moved(r, slot)
    BY <1>10, ContinueMoves DEF Moves
  <2>2. req[r] # Idle /\ \A s \in Requests : s # r => req[s] = Idle
    BY <1>2, <1>10, GoesOn DEF Alone
  <2>3. q = slot
    BY <1>8, <2>1, <2>2 DEF Moved
  <2>4. \A x : x = req[r] => Good(x)
    BY <1>3, <2>2 DEF Only
  <2>5. \A i \in DOMAIN refresh' : TokenGood(slot, i)'
    BY <1>2, <1>10, <2>1, <2>4, TokensGood DEF TokenGood, Resets, Indexes
  <2>6. \A e \in Emails : ProfileGood(slot, e)'
    BY <1>2, <1>10, <2>1, <2>4, ProfilesGood DEF ProfileGood, Resets
  <2>7. SlotGood(slot)'
    BY <1>2, <1>10, <2>1, <2>4, ListsGood
  <2> QED BY <2>3, <2>5, <2>6, <2>7 DEF Good
<1>11. CASE UNCHANGED vars \/ Expire
  BY <1>6, <1>11 DEF vars, redis, Expire
<1>12. ~Crash
  BY <1>2 DEF Crash
<1> QED BY <1>7, <1>9, <1>10, <1>11, <1>12, BeginStarts DEF Next, Without, Kinds

\* Between handlers, refresh tokens and cached profiles that are still good were
\* issued under the password the account has now, as long as handlers run one
\* at a time, to their end, and Redis answers.
THEOREM SessionsRenewed == Spec => []SessionsOfThisPassword
<1>1. Init => TakenInv /\ SessionInv
  <2> SUFFICES ASSUME Init PROVE TakenInv /\ SessionInv
    OBVIOUS
  <2>1. TakenInv
    BY DEF Init, TakenInv, OfAccount, Taken, NoAccount, Idle
  <2>2. DOMAIN refresh = {} /\ \A q : Only(q) => q = Idle
    BY DEF Init, Only
  <2>3. Good(Idle)
    BY <2>2 DEF Init, Good, TokenGood, ProfileGood, SlotGood, Idle
  <2> QED BY <2>1, <2>2, <2>3 DEF SessionInv
<1>2. SessionInv => SessionsOfThisPassword
  <2> SUFFICES ASSUME SessionInv, Without(Kinds), Quiet
               PROVE  /\ \A i \in DOMAIN refresh :
                          refresh[i].live => refresh[i].password = account[refresh[i].email].password
                      /\ \A e \in Emails : session[e] \in {0, account[e].password}
    BY DEF SessionsOfThisPassword
  <2>1. Good(Idle)
    BY DEF SessionInv, Only
  <2> QED BY <2>1 DEF Good, TokenGood, ProfileGood, Resets, Idle
<1> QED BY <1>1, <1>2, AloneTyped, TakenStep, SessionStep, PTL DEF Spec

-----------------------------------------------------------------------------
(* A PIN meets few wrong guesses                                              *)

Reads(q, p, e) == q.step = "readOtp" /\ q.purpose = p /\ q.email = e
Counts(q, p, e) == q.step \in {"readOtp", "countWrong"} /\ q.purpose = p /\ q.email = e
Clears(q, p, e) == q.step = "clearAttempts" /\ q.purpose = p /\ q.email = e

Readers(p, e) == {r \in Requests : Reads(req[r], p, e)}
Busy == {r \in Requests : req[r] # Idle}

\* The wrong guesses a PIN was compared with, and those it may still be.
Seen(p, e) == otp[p][e].wrong + Cardinality(Readers(p, e))

\* The counter misses a guess for each overlap and each crash, and one that is
\* being read or counted; it is cleared when the PIN that was guessed at is gone.
GuessBound(p, e) ==
    /\ (\E r \in Requests : Clears(req[r], p, e)) => Seen(p, e) <= mishap["overlap"]
    /\ Seen(p, e) <= attempts[p][e] + mishap["overlap"] + mishap["crash"] + 1
    /\ \/ \E r \in Requests : Counts(req[r], p, e)
       \/ Seen(p, e) <= attempts[p][e] + mishap["overlap"] + mishap["crash"]
    /\ Seen(p, e) <= MaxAttempts + mishap["overlap"] + mishap["crash"]

BusyInv == Cardinality(Busy) <= 1 + mishap["overlap"]
GuessInv == Without({"fault"}) => \A p \in Purposes, e \in Emails : GuessBound(p, e)

LEMMA SetsFinite ==
    ASSUME NEW S \in SUBSET Requests
    PROVE  IsFiniteSet(S) /\ Cardinality(S) \in Nat
BY NoneIs, FS_Subset, FS_CardinalityType

LEMMA BusyStep ==
    ASSUME TypeInv, BusyInv, [Next]_vars
    PROVE  BusyInv'
<1>1. /\ req \in [Requests -> RequestState] /\ mishap \in [Kinds -> 0..MaxMishaps]
      /\ mishap["overlap"] \in Nat /\ "overlap" \in Kinds /\ "fault" \in Kinds /\ "crash" \in Kinds
  BY NoneIs DEF TypeInv, TypeOK, Kinds
<1>2. IsFiniteSet(Busy) /\ Cardinality(Busy) \in Nat
  BY SetsFinite DEF Busy
<1>3. CASE UNCHANGED <<req, mishap>>
  BY <1>3 DEF BusyInv, Busy
<1>4. CASE Crash
  <2>1. Busy' = {}
    BY <1>4 DEF Crash, Busy
  <2>2. mishap'["overlap"] = mishap["overlap"]
    BY <1>1, <1>4, MishapAdds DEF Crash
  <2>3. Cardinality(Busy') = 0
    BY <2>1, FS_EmptySet
  <2> QED BY <1>1, <2>2, <2>3 DEF BusyInv
<1>5. ASSUME NEW r \in Requests, NEW slot, Starts(r, slot) \/ StartsUnread(r, slot) PROVE BusyInv'
  <2>1. Busy' \subseteq Busy \cup {r} /\ r \notin Busy
    BY <1>1, <1>5 DEF Starts, StartsUnread, Enters, Busy
  <2>2. IsFiniteSet(Busy \cup {r}) /\ Cardinality(Busy \cup {r}) = Cardinality(Busy) + 1
    BY <1>2, <2>1, FS_AddElement
  <2>3. Cardinality(Busy') <= Cardinality(Busy) + 1 /\ Cardinality(Busy') \in Nat
    BY <2>1, <2>2, FS_Subset, FS_CardinalityType
  <2>4. CASE Quiet
    <3>1. Busy = {} /\ mishap'["overlap"] = mishap["overlap"]
      BY <1>5, <2>4, UnreadAdds DEF Quiet, Busy, Starts
    <3>2. Cardinality(Busy) = 0
      BY <3>1, FS_EmptySet
    <3> QED BY <1>1, <2>3, <3>1, <3>2 DEF BusyInv
  <2>5. CASE ~Quiet
    <3>1. mishap'["overlap"] = mishap["overlap"] + 1
      BY <1>1, <1>5, <2>5, MishapAdds, UnreadAdds DEF Starts
    <3> QED BY <1>1, <1>2, <2>3, <3>1 DEF BusyInv
  <2> QED BY <2>4, <2>5
<1>6. ASSUME NEW r \in Requests, Continue(r) PROVE BusyInv'
  <2>1. PICK slot : Moved(r, slot)
    BY <1>6, ContinueMoves DEF Moves
  <2>2. Busy' \subseteq Busy
    BY <1>1, <1>6, <2>1, GoesOn DEF Moved, Busy
  <2>3. Cardinality(Busy') <= Cardinality(Busy) /\ Cardinality(Busy') \in Nat
    BY <1>2, <2>2, FS_Subset, FS_CardinalityType
  <2>4. mishap'["overlap"] = mishap["overlap"]
    BY <1>1, <1>6, Written, MishapAdds
  <2> QED BY <1>1, <1>2, <2>3, <2>4 DEF BusyInv
<1>7. CASE UNCHANGED vars \/ Expire \/ (\E e \in Emails : Deactivate(e))
  BY <1>3, <1>7 DEF vars, Expire, Deactivate
<1> QED BY <1>4, <1>5, <1>6, <1>7, BeginEnters DEF Next

\* n handlers read a PIN, where m did before q went on as slot.
Tallied(m, n, q, slot, p, e) ==
    /\ m \in Nat /\ n \in Nat
    /\ (Reads(q, p, e) <=> Reads(slot, p, e)) => n = m
    /\ Reads(q, p, e) /\ ~Reads(slot, p, e) => n = m - 1
    /\ n <= m + 1

LEMMA ReadersMove ==
    ASSUME TypeInv, NEW r \in Requests, NEW slot, req' = [req EXCEPT ![r] = slot], NEW p, NEW e
    PROVE  Tallied(Cardinality(Readers(p, e)), Cardinality(Readers(p, e)'), req[r], slot, p, e)
<1> DEFINE S == Readers(p, e)
           T == Readers(p, e)'
<1>1. \A s \in Requests : req'[s] = IF s = r THEN slot ELSE req[s]
  BY DEF TypeInv, TypeOK
<1>2. S \subseteq Requests /\ T \subseteq Requests
  BY DEF Readers
<1>3. IsFiniteSet(S) /\ IsFiniteSet(T) /\ Cardinality(S) \in Nat /\ Cardinality(T) \in Nat
  BY <1>2, SetsFinite
<1>4. /\ r \in S <=> Reads(req[r], p, e)
      /\ T \subseteq S \cup {r} /\ S \subseteq T \cup {r}
  BY <1>1 DEF Readers, Reads
<1>5. r \in T <=> Reads(slot, p, e)
  BY <1>1 DEF Readers, Reads
<1> HIDE DEF S, T
<1>6. r \in S /\ r \notin T => Cardinality(T) = Cardinality(S) - 1
  <2> SUFFICES ASSUME r \in S, r \notin T PROVE Cardinality(T) = Cardinality(S) - 1
    OBVIOUS
  <2>1. S = T \cup {r}
    BY <1>4
  <2>2. Cardinality(S) = Cardinality(T) + 1
    BY <1>3, <2>1, FS_AddElement
  <2> QED BY <1>3, <2>2
<1>7. Cardinality(T) <= Cardinality(S) + 1
  <2>1. IsFiniteSet(S \cup {r}) /\ Cardinality(S \cup {r}) <= Cardinality(S) + 1
    BY <1>3, FS_AddElement
  <2>2. Cardinality(T) <= Cardinality(S \cup {r})
    BY <1>4, <2>1, FS_Subset
  <2>3. Cardinality(S \cup {r}) \in Nat
    BY <2>1, FS_CardinalityType
  <2> QED BY <1>3, <2>1, <2>2, <2>3
<1>8. (r \in S <=> r \in T) => S = T
  BY <1>4
<1> QED BY <1>3, <1>4, <1>5, <1>6, <1>7, <1>8 DEF S, T, Tallied

\* While a handler does something else, those that read a PIN overlap it.
LEMMA FewReaders ==
    ASSUME TypeInv, BusyInv, NEW r \in Requests, req[r] # Idle, NEW p, NEW e, ~Reads(req[r], p, e)
    PROVE  Cardinality(Readers(p, e)) <= mishap["overlap"]
<1> DEFINE S == Readers(p, e)
<1>1. ~Reads(Idle, p, e)
  BY DEF Idle, Reads
<1>2. S \subseteq Busy /\ r \notin S /\ S \cup {r} \subseteq Busy /\ S \subseteq Requests /\ Busy \subseteq Requests
  BY <1>1 DEF Readers, Busy
<1>3. IsFiniteSet(S) /\ IsFiniteSet(Busy) /\ Cardinality(S) \in Nat /\ Cardinality(Busy) \in Nat
  BY <1>2, SetsFinite
<1> HIDE DEF S
<1>4. Cardinality(S \cup {r}) = Cardinality(S) + 1
  BY <1>2, <1>3, FS_AddElement
<1>5. Cardinality(S \cup {r}) <= Cardinality(Busy)
  BY <1>2, <1>3, FS_Subset
<1>6. mishap["overlap"] \in Nat
  BY NoneIs DEF TypeInv, TypeOK, Kinds
<1> QED BY <1>3, <1>4, <1>5, <1>6 DEF BusyInv, S

LEMMA ReadsOtp ==
    ASSUME TypeInv, NEW r \in Requests, NEW slot, Moved(r, slot), ReadOtp(r)
    PROVE  UNCHANGED otp \/ (slot # Idle /\ slot.step = "countWrong")
<1> DEFINE q == req[r]
           stored == otp[q.purpose][q.email].pin
           new == [q EXCEPT !.pin = stored]
<1>1. q \in RequestState /\ SlotFit(q) /\ q.step = "readOtp" /\ "countWrong" \in Steps
  BY DEF TypeInv, TypeOK, ReadOtp, Steps
<1>2. q.email \in Emails /\ q.purpose \in Purposes
  BY <1>1, CallOf DEF SlotFit, RequestState
<1>3. stored \in 0..MaxPins
  BY <1>2 DEF TypeInv, TypeOK, OtpDoc
<1>4. UNCHANGED otp \/ Update(r, new, "countWrong")
  BY DEF ReadOtp
<1> HIDE DEF stored
<1>5. new \in RequestState
  BY <1>1, <1>3 DEF RequestState
<1> HIDE DEF new
<1> QED BY <1>1, <1>4, <1>5, SlotOf

\* The counter of a PIN: what a handler makes of it.
LEMMA AttemptsMove ==
    ASSUME TypeInv, NEW r \in Requests, Continue(r), ~Mishap("fault"), NEW p \in Purposes, NEW e \in Emails
    PROVE  /\ attempts[p][e] \in Nat /\ attempts'[p][e] \in Nat
           /\ req[r].step = "countWrong" /\ Counts(req[r], p, e) => attempts'[p][e] = attempts[p][e] + 1
           /\ \/ attempts'[p][e] = attempts[p][e]
              \/ Clears(req[r], p, e)
              \/ req[r].step = "countWrong" /\ Counts(req[r], p, e)
<1> DEFINE q == req[r]
<1>1. attempts \in [Purposes -> [Emails -> Nat]] /\ attempts[p][e] \in Nat
  BY DEF TypeInv, TypeOK
<1>2. CASE q.step = "clearAttempts"
  <2>1. attempts' = [attempts EXCEPT ![q.purpose][q.email] = 0]
    BY <1>2, ActsAt DEF ClearAttempts
  <2>2. attempts'[p][e] = IF p = q.purpose /\ e = q.email THEN 0 ELSE attempts[p][e]
    BY <1>1, <2>1
  <2> QED BY <1>1, <1>2, <2>2 DEF Clears
<1>3. CASE q.step = "countWrong"
  <2>1. attempts' = [attempts EXCEPT ![q.purpose][q.email] = @ + 1]
    BY <1>3, ActsAt DEF CountWrong
  <2>2. attempts'[p][e] = IF p = q.purpose /\ e = q.email THEN attempts[p][e] + 1 ELSE attempts[p][e]
    BY <1>1, <2>1
  <2> QED BY <1>1, <1>3, <2>2 DEF Counts
<1>4. CASE q.step \notin {"clearAttempts", "countWrong"}
  <2>1. UNCHANGED attempts
    BY <1>4, Written DEF ClearAttempts, CountWrong, Write
  <2> QED BY <1>1, <1>4, <2>1
<1> QED BY <1>2, <1>3, <1>4

\* The guesses seen: none but those of other handlers when the PIN goes, and
\* else no more than before.
LEMMA SeenMoves ==
    ASSUME TypeInv, BusyInv, NEW r \in Requests, NEW slot, Moved(r, slot), Continue(r), ~Mishap("fault"),
           NEW p \in Purposes, NEW e \in Emails
    PROVE  /\ Seen(p, e) \in Nat /\ Seen(p, e)' \in Nat
           /\ \/ Seen(p, e)' <= mishap["overlap"]
              \/ /\ Seen(p, e)' <= Seen(p, e)
                 /\ Reads(req[r], p, e) /\ ~Counts(slot, p, e) => Seen(p, e)' <= Seen(p, e) - 1
                 /\ ~Clears(slot, p, e)
<1> DEFINE q == req[r]
           w == otp[p][e].wrong
           v == otp'[p][e].wrong
           m == Cardinality(Readers(p, e))
           n == Cardinality(Readers(p, e)')
<1>1. /\ q \in RequestState /\ SlotFit(q)
      /\ slot = Idle \/ Way(q, slot)
  BY DEF TypeInv, TypeOK, Moved
<1>2. req' = [req EXCEPT ![r] = slot] /\ q # Idle /\ q.step # "idle"
  BY GoesOn DEF Moved
<1>3. ~Reads(slot, p, e)
  BY <1>1 DEF Way, Follows, Idle, Reads
<1>4. otp[p][e] \in OtpDoc /\ w \in Nat
  BY DEF TypeInv, TypeOK, OtpDoc
<1>5. m \in Nat /\ n \in Nat /\ (Reads(q, p, e) => n = m - 1) /\ (~Reads(q, p, e) => n = m)
  <2>1. Tallied(m, n, q, slot, p, e)
    BY <1>2, ReadersMove
  <2> QED BY <1>3, <2>1 DEF Tallied
<1>6. OtpMoved(r, p, e)
  BY OtpMoves
<1>7. /\ [otp[p][e] EXCEPT !.mailed = TRUE].wrong = w
      /\ [otp[p][e] EXCEPT !.wrong = @ + 1].wrong = w + 1
  BY <1>4 DEF OtpDoc
<1>8. NoOtp.wrong = 0 /\ [NoOtp EXCEPT !.pin = Len(pin) + 1].wrong = 0
  BY DEF NoOtp
<1>9. Seen(p, e) = w + m /\ Seen(p, e)' = v + n
  BY DEF Seen
<1> HIDE DEF w, v, m, n
<1>10. CASE (SaveOtp(r) \/ DeleteOtp(r)) /\ p = q.purpose /\ e = q.email
  <2>1. q.step \in {"saveOtp", "deleteOtp"}
    BY <1>10 DEF SaveOtp, DeleteOtp, Write
  <2>2. m <= mishap["overlap"]
    BY <1>2, <2>1, FewReaders DEF Reads, m
  <2>3. v = 0
    <3>1. CASE SaveOtp(r)
      <4>1. otp' = [otp EXCEPT ![q.purpose][q.email] = [NoOtp EXCEPT !.pin = Len(pin) + 1]]
        BY <3>1 DEF SaveOtp
      <4>2. otp'[p][e] = [NoOtp EXCEPT !.pin = Len(pin) + 1]
        BY <1>10, <4>1 DEF TypeInv, TypeOK
      <4> QED BY <1>8, <4>2 DEF v
    <3>2. CASE DeleteOtp(r)
      <4>1. otp' = [otp EXCEPT ![q.purpose][q.email] = NoOtp]
        BY <3>2 DEF DeleteOtp
      <4>2. otp'[p][e] = NoOtp
        BY <1>10, <4>1 DEF TypeInv, TypeOK
      <4> QED BY <1>8, <4>2 DEF v
    <3> QED BY <1>10, <3>1, <3>2
  <2>4. ~Reads(q, p, e)
    BY <2>1 DEF Reads
  <2> QED BY <1>4, <1>5, <1>9, <2>2, <2>3, <2>4
<1>11. CASE ~((SaveOtp(r) \/ DeleteOtp(r)) /\ p = q.purpose /\ e = q.email)
  <2>1. ~Clears(slot, p, e)
    <3> SUFFICES ASSUME Clears(slot, p, e) PROVE FALSE
      OBVIOUS
    <3>1. slot # Idle /\ p = q.purpose /\ e = q.email /\ q.step \in {"saveOtp", "deleteOtp"}
      BY <1>1 DEF Clears, Idle, Way, Follows
    <3> QED BY <1>11, <3>1, ActsAt
  <2>2. v = w \/ (ReadOtp(r) /\ p = q.purpose /\ e = q.email /\ v = w + 1 /\ ~UNCHANGED otp)
    <3>1. CASE otp'[p][e] = otp[p][e]
      BY <3>1 DEF v, w
    <3>2. CASE p = q.purpose /\ e = q.email /\ ReadOtp(r) /\ otp'[p][e] = [otp[p][e] EXCEPT !.wrong = @ + 1]
      <4>1. v = w + 1
        BY <1>7, <3>2 DEF v
      <4> QED BY <1>4, <3>2, <4>1 DEF v, w
    <3>3. CASE otp'[p][e] = [otp[p][e] EXCEPT !.mailed = TRUE]
      BY <1>7, <3>3 DEF v
    <3> QED BY <1>6, <1>11, <3>1, <3>2, <3>3 DEF OtpMoved
  <2>3. CASE v = w
    BY <1>4, <1>5, <1>9, <2>1, <2>3
  <2>4. CASE ReadOtp(r) /\ p = q.purpose /\ e = q.email /\ v = w + 1 /\ ~UNCHANGED otp
    <3>1. Reads(q, p, e)
      BY <2>4 DEF ReadOtp, Reads
    <3>2. Counts(slot, p, e)
      BY <1>1, <2>4, ReadsOtp DEF Way, Counts
    <3> QED BY <1>4, <1>5, <1>9, <2>1, <2>4, <3>1, <3>2
  <2> QED BY <2>2, <2>3, <2>4
<1> QED BY <1>10, <1>11

LEMMA GuessContinue ==
    ASSUME TypeInv, BusyInv, NEW r \in Requests, NEW slot, Moved(r, slot), Continue(r), ~Mishap("fault"),
           NEW p \in Purposes, NEW e \in Emails, GuessBound(p, e)
    PROVE  GuessBound(p, e)'
<1> DEFINE q == req[r]
           m == mishap["overlap"]
           c == mishap["crash"]
<1>1. /\ m \in Nat /\ c \in Nat /\ mishap' = mishap /\ MaxAttempts \in Nat
      /\ \A s \in Requests : req'[s] = IF s = r THEN slot ELSE req[s]
  BY NoneIs, Written DEF TypeInv, TypeOK, Kinds, Moved
<1> HIDE DEF m, c
<1>2. /\ Seen(p, e) \in Nat /\ Seen(p, e)' \in Nat
      /\ \/ Seen(p, e)' <= m
         \/ /\ Seen(p, e)' <= Seen(p, e)
            /\ Reads(q, p, e) /\ ~Counts(slot, p, e) => Seen(p, e)' <= Seen(p, e) - 1
            /\ ~Clears(slot, p, e)
  BY SeenMoves DEF m
<1>3. /\ attempts[p][e] \in Nat /\ attempts'[p][e] \in Nat
      /\ q.step = "countWrong" /\ Counts(q, p, e) => attempts'[p][e] = attempts[p][e] + 1
      /\ \/ attempts'[p][e] = attempts[p][e]
         \/ Clears(q, p, e)
         \/ q.step = "countWrong" /\ Counts(q, p, e)
  BY AttemptsMove
<1>4. /\ (\E s \in Requests : Clears(req[s], p, e)) => Seen(p, e) <= m
      /\ Seen(p, e) <= attempts[p][e] + m + c + 1
      /\ \/ \E s \in Requests : Counts(req[s], p, e)
         \/ Seen(p, e) <= attempts[p][e] + m + c
      /\ Seen(p, e) <= MaxAttempts + m + c
  BY DEF GuessBound, m, c
<1>5. SUFFICES /\ (\E s \in Requests : Clears(req'[s], p, e)) => Seen(p, e)' <= m
               /\ Seen(p, e)' <= attempts'[p][e] + m + c + 1
               /\ \/ \E s \in Requests : Counts(req'[s], p, e)
                  \/ Seen(p, e)' <= attempts'[p][e] + m + c
               /\ Seen(p, e)' <= MaxAttempts + m + c
  BY <1>1 DEF GuessBound, Clears, Counts, m, c
<1>6. CASE Seen(p, e)' <= m
  BY <1>1, <1>2, <1>3, <1>6
<1>7. CASE Clears(q, p, e) /\ ~(Seen(p, e)' <= m)
  BY <1>1, <1>2, <1>4, <1>7
<1>8. CASE ~Clears(q, p, e) /\ ~(Seen(p, e)' <= m)
  <2>1. /\ Seen(p, e)' <= Seen(p, e)
        /\ Reads(q, p, e) /\ ~Counts(slot, p, e) => Seen(p, e)' <= Seen(p, e) - 1
        /\ ~Clears(slot, p, e) /\ attempts[p][e] <= attempts'[p][e]
    BY <1>2, <1>3, <1>8
  <2>2. (\E s \in Requests : Clears(req'[s], p, e)) => \E s \in Requests : Clears(req[s], p, e)
    BY <1>1, <2>1
  <2>3. \/ \E s \in Requests : Counts(req'[s], p, e)
        \/ Seen(p, e)' <= attempts'[p][e] + m + c
    <3>1. CASE Counts(slot, p, e)
      BY <1>1, <3>1
    <3>2. CASE Reads(q, p, e) /\ ~Counts(slot, p, e)
      BY <1>1, <1>2, <1>3, <1>4, <2>1, <3>2
    <3>3. CASE q.step = "countWrong" /\ Counts(q, p, e)
      BY <1>1, <1>2, <1>3, <1>4, <2>1, <3>3
    <3>4. CASE ~Counts(q, p, e)
      <4>1. CASE \E s \in Requests : Counts(req[s], p, e)
        BY <1>1, <3>4, <4>1
      <4>2. CASE Seen(p, e) <= attempts[p][e] + m + c
        BY <1>1, <1>2, <1>3, <2>1, <4>2
      <4> QED BY <1>4, <4>1, <4>2
    <3> QED BY <3>1, <3>2, <3>3, <3>4 DEF Reads, Counts
  <2>4. Seen(p, e)' <= attempts'[p][e] + m + c + 1 /\ Seen(p, e)' <= MaxAttempts + m + c
    BY <1>1, <1>2, <1>3, <1>4, <2>1
  <2> QED BY <1>1, <1>2, <1>4, <2>1, <2>2, <2>3, <2>4
<1> QED BY <1>6, <1>7, <1>8

LEMMA GuessStart ==
    ASSUME TypeInv, NEW r \in Requests, NEW slot, Starts(r, slot), Born(slot),
           NEW p \in Purposes, NEW e \in Emails, GuessBound(p, e)
    PROVE  GuessBound(p, e)'
<1> DEFINE m == mishap["overlap"]
           c == mishap["crash"]
<1>1. /\ m \in Nat /\ c \in Nat /\ MaxAttempts \in Nat /\ attempts[p][e] \in Nat
      /\ UNCHANGED <<otp, attempts>> /\ req[r] = Idle /\ otp[p][e] \in OtpDoc
      /\ \A s \in Requests : req'[s] = IF s = r THEN slot ELSE req[s]
  BY NoneIs DEF TypeInv, TypeOK, Kinds, Starts, Enters, redis
<1>2. req' = [req EXCEPT ![r] = slot] /\ slot.step \in Stages(slot.op) /\ slot.op \in Ops
  BY DEF Starts, Enters, SlotFit, RequestState
<1>3. slot.step \notin {"countWrong", "clearAttempts"}
  BY <1>2 DEF Born, Stages, Ops
<1>4. slot.step = "readOtp" => attempts[slot.purpose][slot.email] < MaxAttempts
  BY CallOf DEF Born, Starts, Enters
<1>5. ~Reads(Idle, p, e) /\ ~Counts(Idle, p, e) /\ ~Clears(Idle, p, e)
  BY DEF Idle, Reads, Counts, Clears
<1>6. /\ Seen(p, e) \in Nat /\ Seen(p, e)' \in Nat /\ Seen(p, e)' <= Seen(p, e) + 1
      /\ ~Reads(slot, p, e) => Seen(p, e)' = Seen(p, e)
  <2> DEFINE i == Cardinality(Readers(p, e))
             j == Cardinality(Readers(p, e)')
             w == otp[p][e].wrong
  <2>1. Tallied(i, j, Idle, slot, p, e)
    BY <1>1, <1>2, ReadersMove
  <2>2. w \in Nat /\ Seen(p, e) = w + i /\ Seen(p, e)' = w + j
    BY <1>1 DEF OtpDoc, Seen
  <2> HIDE DEF i, j, w
  <2> QED BY <1>5, <2>1, <2>2 DEF Tallied
<1>7. /\ (\E s \in Requests : Clears(req[s], p, e)) => Seen(p, e) <= m
      /\ Seen(p, e) <= attempts[p][e] + m + c + 1
      /\ \/ \E s \in Requests : Counts(req[s], p, e)
         \/ Seen(p, e) <= attempts[p][e] + m + c
      /\ Seen(p, e) <= MaxAttempts + m + c
  BY DEF GuessBound
<1>8. /\ (\E s \in Requests : Clears(req'[s], p, e)) => \E s \in Requests : Clears(req[s], p, e)
      /\ (\E s \in Requests : Counts(req[s], p, e)) => \E s \in Requests : Counts(req'[s], p, e)
  BY <1>1, <1>3, <1>5 DEF Clears
<1>9. CASE Quiet
  <2>1. mishap' = mishap /\ \A s \in Requests : ~Counts(req[s], p, e) /\ ~Clears(req[s], p, e)
    BY <1>5, <1>9 DEF Starts, Enters, Quiet
  <2>2. Seen(p, e) <= attempts[p][e] + m + c
    BY <1>7, <2>1
  <2>3. ~\E s \in Requests : Clears(req'[s], p, e)
    BY <1>8, <2>1
  <2>4. CASE Reads(slot, p, e)
    <3>1. attempts[p][e] + 1 <= MaxAttempts
      BY <1>1, <1>4, <2>4 DEF Reads
    <3>2. Counts(req'[r], p, e)
      BY <1>1, <2>4 DEF Reads, Counts
    <3>3. Seen(p, e)' <= attempts[p][e] + m + c + 1 /\ Seen(p, e)' <= MaxAttempts + m + c
      BY <1>1, <1>6, <2>2, <3>1
    <3> QED BY <1>1, <2>1, <2>3, <3>2, <3>3 DEF GuessBound, Clears, Counts
  <2>5. CASE ~Reads(slot, p, e)
    <3>1. /\ Seen(p, e)' <= attempts[p][e] + m + c /\ Seen(p, e)' <= attempts[p][e] + m + c + 1
          /\ Seen(p, e)' <= MaxAttempts + m + c
      BY <1>1, <1>6, <1>7, <2>2, <2>5
    <3> QED BY <1>1, <2>1, <2>3, <3>1 DEF GuessBound, Clears, Counts
  <2> QED BY <2>4, <2>5
<1>10. CASE ~Quiet
  <2>1. mishap'["overlap"] = m + 1 /\ mishap'["crash"] = c
    BY <1>10, MishapAdds DEF Starts, Enters, Kinds
  <2> HIDE DEF m, c
  <2>2. /\ (\E s \in Requests : Clears(req'[s], p, e)) => Seen(p, e)' <= m + 1
        /\ \/ \E s \in Requests : Counts(req'[s], p, e)
           \/ Seen(p, e)' <= attempts[p][e] + (m + 1) + c
    BY <1>1, <1>6, <1>7, <1>8
  <2>3. Seen(p, e)' <= attempts[p][e] + (m + 1) + c + 1 /\ Seen(p, e)' <= MaxAttempts + (m + 1) + c
    BY <1>1, <1>6, <1>7
  <2> QED BY <1>1, <2>1, <2>2, <2>3 DEF GuessBound, Clears, Counts
<1> QED BY <1>9, <1>10

LEMMA GuessStep ==
    ASSUME TypeInv, BusyInv, GuessInv, [Next]_vars
    PROVE  GuessInv'
<1> SUFFICES ASSUME Without({"fault"})', NEW p \in Purposes, NEW e \in Emails
             PROVE  GuessBound(p, e)'
  BY DEF GuessInv
<1>1. mishap["fault"] = 0 /\ ~Mishap("fault")
  BY MishapsGrow DEF Without, Kinds
<1>2. GuessBound(p, e)
  BY <1>1 DEF GuessInv, Without
<1>3. /\ otp \in [Purposes -> [Emails -> OtpDoc]] /\ otp[p][e] \in OtpDoc /\ attempts[p][e] \in Nat
      /\ mishap["overlap"] \in Nat /\ mishap["crash"] \in Nat /\ MaxAttempts \in Nat
  BY NoneIs DEF TypeInv, TypeOK, Kinds
<1>4. Cardinality(Readers(p, e)) \in Nat /\ otp[p][e].wrong \in Nat
  BY <1>3, SetsFinite DEF Readers, OtpDoc
<1>5. CASE UNCHANGED <<otp, attempts, req, mishap>>
  BY <1>2, <1>5 DEF GuessBound, Seen, Readers, Reads, Counts, Clears
<1>6. CASE Expire
  <2>1. UNCHANGED <<attempts, req, mishap>> /\ (otp'[p][e] = otp[p][e] \/ otp'[p][e] = NoOtp)
    BY <1>3, <1>6 DEF Expire
  <2>2. otp'[p][e].wrong <= otp[p][e].wrong /\ otp'[p][e].wrong \in Nat
    BY <1>4, <2>1 DEF NoOtp
  <2>3. Readers(p, e)' = Readers(p, e)
    BY <2>1 DEF Readers, Reads
  <2>4. Seen(p, e)' <= Seen(p, e) /\ Seen(p, e)' \in Nat /\ Seen(p, e) \in Nat
    BY <1>4, <2>2, <2>3 DEF Seen
  <2>5. /\ (\E s \in Requests : Clears(req[s], p, e)) => Seen(p, e)' <= mishap["overlap"]
        /\ Seen(p, e)' <= attempts[p][e] + mishap["overlap"] + mishap["crash"] + 1
        /\ \/ \E s \in Requests : Counts(req[s], p, e)
           \/ Seen(p, e)' <= attempts[p][e] + mishap["overlap"] + mishap["crash"]
        /\ Seen(p, e)' <= MaxAttempts + mishap["overlap"] + mishap["crash"]
    BY <1>2, <1>3, <2>4 DEF GuessBound
  <2> QED BY <2>1, <2>5 DEF GuessBound, Clears, Counts
<1>7. CASE Crash
  <2>1. UNCHANGED <<otp, attempts>> /\ \A s \in Requests : req'[s] = Idle
    BY <1>7 DEF Crash, redis
  <2>2. mishap'["overlap"] = mishap["overlap"] /\ mishap'["crash"] = mishap["crash"] + 1
    BY <1>7, MishapAdds DEF Crash, Kinds
  <2>3. Readers(p, e)' = {} /\ ~\E s \in Requests : Clears(req'[s], p, e)
    BY <2>1 DEF Readers, Reads, Clears, Idle
  <2>4. Cardinality(Readers(p, e)') = 0
    BY <2>3, FS_EmptySet
  <2>5. Seen(p, e)' <= Seen(p, e) /\ Seen(p, e)' \in Nat /\ Seen(p, e) \in Nat
    BY <1>4, <2>1, <2>4 DEF Seen
  <2>6. /\ Seen(p, e)' <= attempts[p][e] + mishap["overlap"] + (mishap["crash"] + 1)
        /\ Seen(p, e)' <= attempts[p][e] + mishap["overlap"] + (mishap["crash"] + 1) + 1
        /\ Seen(p, e)' <= MaxAttempts + mishap["overlap"] + (mishap["crash"] + 1)
    BY <1>2, <1>3, <2>5 DEF GuessBound
  <2> QED BY <2>1, <2>2, <2>3, <2>6 DEF GuessBound, Clears
<1>8. ASSUME NEW r \in Requests, Continue(r) PROVE GuessBound(p, e)'
  <2>1. PICK slot : Moved(r, slot)
    BY <1>8, ContinueMoves DEF Moves
  <2> QED BY <1>1, <1>2, <1>8, <2>1, GuessContinue
<1>9. ASSUME NEW r \in Requests, Begin(r) PROVE GuessBound(p, e)'
  <2>1. PICK slot : Starts(r, slot) /\ Born(slot)
    BY <1>9, BeginStarts DEF Without
  <2> QED BY <1>2, <2>1, GuessStart
<1>10. CASE UNCHANGED vars \/ (\E d \in Emails : Deactivate(d))
  BY <1>5, <1>10 DEF vars, redis, Deactivate
<1> QED BY <1>6, <1>7, <1>8, <1>9, <1>10 DEF Next

\* A PIN is compared with at most OTP_MAX_ATTEMPTS wrong ones, and one more for
\* each handler that overlaps another or dies, as long as Redis answers.
THEOREM GuessesAreBounded == Spec => []GuessesBounded
<1>1. Init => BusyInv /\ GuessInv
  <2> SUFFICES ASSUME Init PROVE BusyInv /\ \A p \in Purposes, e \in Emails : GuessBound(p, e)
    BY DEF GuessInv
  <2>1. /\ mishap["overlap"] = 0 /\ mishap["crash"] = 0 /\ MaxAttempts \in Nat
        /\ \A r \in Requests : req[r] = Idle
    BY NoneIs DEF Init, Kinds
  <2>2. Cardinality(Busy) = 0
    <3>1. Busy = {}
      BY <2>1 DEF Busy
    <3> QED BY <3>1, FS_EmptySet
  <2>3. ASSUME NEW p \in Purposes, NEW e \in Emails PROVE GuessBound(p, e)
    <3>1. Readers(p, e) = {} /\ ~\E r \in Requests : Clears(req[r], p, e)
      BY <2>1 DEF Readers, Reads, Clears, Idle
    <3>2. otp[p][e].wrong = 0 /\ attempts[p][e] = 0
      BY DEF Init, NoOtp
    <3>3. Seen(p, e) = 0
      BY <3>1, <3>2, FS_EmptySet DEF Seen
    <3> QED BY <2>1, <3>1, <3>2, <3>3 DEF GuessBound
  <2> QED BY <2>1, <2>2, <2>3 DEF BusyInv
<1>2. TypeInv /\ GuessInv => GuessesBounded
  <2> SUFFICES ASSUME TypeInv, Without({"fault"}), NEW p \in Purposes, NEW e \in Emails, GuessBound(p, e)
               PROVE  otp[p][e].wrong <= MaxAttempts + mishap["overlap"] + mishap["crash"]
    BY DEF GuessInv, GuessesBounded
  <2>1. otp[p][e] \in OtpDoc /\ mishap["overlap"] \in Nat /\ mishap["crash"] \in Nat /\ MaxAttempts \in Nat
    BY NoneIs DEF TypeInv, TypeOK, Kinds
  <2>2. Cardinality(Readers(p, e)) \in Nat /\ otp[p][e].wrong \in Nat
    BY <2>1, SetsFinite DEF Readers, OtpDoc
  <2> QED BY <2>1, <2>2 DEF GuessBound, Seen
<1> QED BY <1>1, <1>2, Typed, BusyStep, GuessStep, PTL DEF Spec

=============================================================================
