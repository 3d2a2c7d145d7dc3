------------------------------- MODULE Accounts -------------------------------
(***************************************************************************)
(* Registration by e-mail PIN, password reset and sessions.                 *)
(*   src/src/modules/auth/registration/registration.service.ts              *)
(*   src/src/modules/auth/password/password.service.ts                      *)
(*   src/src/modules/auth/auth.service.ts                                   *)
(*   src/src/modules/redis/redis.service.ts                                 *)
(*                                                                         *)
(* Accounts are in MongoDB, everything short-lived is in Redis: one slot of  *)
(* req is a handler, suspended at each call of either.  A Redis call that    *)
(* fails is logged and answered with a fallback, so the handler goes on.     *)
(* A password is named by the order in which the account's were set.  The    *)
(* access tokens, which no store keeps, and the blacklist that the token     *)
(* guards read are left out.                                                 *)
(***************************************************************************)
EXTENDS Integers, Sequences, FiniteSets

CONSTANTS
    Emails, Phones, Requests, None,
    MaxAttempts,    \* OTP_MAX_ATTEMPTS
    MaxPins,        \* bound on the PINs ever generated
    MaxTokens,      \* bound on the setup and reset tokens ever saved
    MaxIssues,      \* bound on the refresh tokens ever issued
    MaxPasswords,   \* bound on the passwords ever set
    MaxMishaps      \* bound on overlaps, crashes and failed Redis calls

ASSUME AccountsAssumption ==
    /\ None \notin Emails \cup Phones
    /\ MaxAttempts \in Nat \ {0}
    /\ {MaxPins, MaxTokens, MaxIssues, MaxPasswords, MaxMishaps} \subseteq Nat
    /\ IsFiniteSet(Requests)

VARIABLES
    account,    \* the users collection, by e-mail
    otp,        \* Redis: the PIN stored for a purpose and an e-mail
    attempts,   \* Redis: wrong PINs counted for a purpose and an e-mail
    pending,    \* Redis: the phone number of a registration under way
    token,      \* the setup and reset tokens, with the Redis key that backs each
    refresh,    \* the refresh tokens, with the Redis keys that back each
    session,    \* Redis: the password a cached profile was logged in with, 0 for none
    pin,        \* what each PIN ever stored was asked for
    req,        \* the suspended handlers
    mishap      \* how often a handler overlapped another, crashed or missed Redis

redis == <<otp, attempts, pending, token, refresh, session>>
vars == <<account, redis, pin, req, mishap>>

-----------------------------------------------------------------------------
(* Documents and keys                                                       *)

Purposes == {"register", "reset"}

AccountDoc ==
    [phone : Phones \cup {None},     \* None: there is no account
     password : 0..MaxPasswords,
     isActive : BOOLEAN,
     pin : 0..MaxPins]               \* the PIN it was registered with, 0 for none

NoAccount == [phone |-> None, password |-> 0, isActive |-> FALSE, pin |-> 0]

Taken(e) == account[e].phone # None
PhoneTaken(phone) == \E e \in Emails : account[e].phone = phone

PinDoc ==
    [purpose : Purposes, email : Emails,
     phone : Phones \cup {None}]     \* the number given with the request for it

OtpDoc ==
    [pin : 0..MaxPins,               \* 0: there is no key
     mailed : BOOLEAN,
     wrong : Nat]                    \* wrong PINs that were compared with it

NoOtp == [pin |-> 0, mailed |-> FALSE, wrong |-> 0]

TokenDoc == [pin : 1..MaxPins, phone : Phones \cup {None}, live : BOOLEAN]

RefreshDoc ==
    [email : Emails, password : 1..MaxPasswords,
     live : BOOLEAN,                 \* refresh_token:<user>:<id> is there
     indexed : BOOLEAN,              \* refresh_tokens:<user> lists it
     from : 0..MaxIssues]            \* the token it was issued in exchange for, 0 for none

-----------------------------------------------------------------------------
(* Suspended handlers                                                       *)

Steps ==
    {"idle", "saveOtp", "clearAttempts", "savePending", "mail",
     "readOtp", "countWrong", "deleteOtp", "readPending", "saveToken",
     "createAccount", "savePassword", "deleteToken", "deletePending",
     "saveRefresh", "indexRefresh", "saveSession", "revokeKey", "revokeIndex",
     "findUser", "listRefresh", "deleteRefresh", "deleteIndex", "deleteSession"}

Ops == {"none", "ask", "verify", "lock", "complete", "driver", "reset", "login", "refresh",
        "logout"}

RequestState ==
    [step : Steps, op : Ops,
     purpose : Purposes, email : Emails \cup {None}, phone : Phones \cup {None},
     pin : 0..MaxPins,
     guess : 0..MaxPins,           \* the PIN submitted, 0 for a wrong one
     token : 0..MaxTokens,
     old : 0..MaxIssues,           \* the refresh token to exchange
     new : 0..MaxIssues,           \* the refresh token it issued
     password : 0..MaxPasswords,   \* of the account as it was loaded or created
     ids : SUBSET (1..MaxIssues)]  \* the refresh tokens it is about to revoke

Idle == [step |-> "idle", op |-> "none", purpose |-> "register", email |-> None, phone |-> None,
         pin |-> 0, guess |-> 0, token |-> 0, old |-> 0, new |-> 0, password |-> 0, ids |-> {}]

Quiet == \A r \in Requests : req[r] = Idle

Kinds == {"overlap", "crash", "fault"}

\* One more of each kind, within the bound on all of them.
Mishaps(kinds) ==
    /\ mishap["overlap"] + mishap["crash"] + mishap["fault"] + Cardinality(kinds) <= MaxMishaps
    /\ mishap' = [kind \in Kinds |-> IF kind \in kinds THEN mishap[kind] + 1 ELSE mishap[kind]]

Mishap(kind) == Mishaps({kind})

Without(kinds) == \A kind \in kinds : mishap[kind] = 0

Running(ops) == {r \in Requests : req[r].op \in ops}

Enter(r, op, step, state) ==
    /\ req[r] = Idle
    /\ req' = [req EXCEPT ![r] = [state EXCEPT !.op = op, !.step = step]]
    /\ UNCHANGED <<account, redis, pin>>

Start(r, op, step, state) ==
    /\ Enter(r, op, step, state)
    /\ IF Quiet THEN UNCHANGED mishap ELSE Mishap("overlap")

\* The first read of the handler fails, and it goes on with the fallback.
StartUnread(r, op, step, state) ==
    /\ Enter(r, op, step, state)
    /\ Mishaps(IF Quiet THEN {"fault"} ELSE {"overlap", "fault"})

Update(r, q, step) == req' = [req EXCEPT ![r] = IF step = "idle" THEN Idle ELSE [q EXCEPT !.step = step]]
Goto(r, step) == Update(r, req[r], step)
Finish(r) == Goto(r, "idle")

\* The call that follows a write to Redis.
After(q) ==
    LET next == [
        saveOtp |-> "clearAttempts",
        clearAttempts |->
            IF q.op = "ask" THEN IF q.purpose = "register" THEN "savePending" ELSE "mail"
            ELSE IF q.purpose = "register" THEN "readPending" ELSE "saveToken",
        savePending |-> "mail",
        countWrong |-> "idle",
        deleteOtp |-> IF q.op = "lock" THEN "idle" ELSE "clearAttempts",
        saveToken |-> "idle",
        deleteToken |-> IF q.op = "complete" THEN "deletePending" ELSE "listRefresh",
        deletePending |-> "saveRefresh",
        saveRefresh |-> "indexRefresh",
        indexRefresh |-> IF q.op \in {"login", "driver"} THEN "saveSession" ELSE "idle",
        saveSession |-> "idle",
        revokeKey |-> "revokeIndex",
        revokeIndex |-> "findUser",
        deleteRefresh |-> "deleteIndex",
        deleteIndex |-> "deleteSession",
        deleteSession |-> "idle"]
    IN  IF q.step \in DOMAIN next THEN next[q.step] ELSE "none"

\* A write to Redis that succeeds, at the named step.
Write(r, step) ==
    /\ req[r].step = step
    /\ Goto(r, After(req[r]))
    /\ UNCHANGED <<account, pin, mishap>>

\* A write to Redis that fails: the handler does not notice.
MissWrite(r) ==
    /\ After(req[r]) # "none"
    /\ Goto(r, After(req[r]))
    /\ Mishap("fault")
    /\ UNCHANGED <<account, redis, pin>>

TypeOK ==
    /\ account \in [Emails -> AccountDoc]
    /\ otp \in [Purposes -> [Emails -> OtpDoc]]
    /\ attempts \in [Purposes -> [Emails -> Nat]]
    /\ pending \in [Emails -> Phones \cup {None}]
    /\ token \in Seq(TokenDoc) /\ Len(token) <= MaxTokens
    /\ refresh \in Seq(RefreshDoc) /\ Len(refresh) <= MaxIssues
    /\ session \in [Emails -> 0..MaxPasswords]
    /\ pin \in Seq(PinDoc) /\ Len(pin) <= MaxPins
    /\ req \in [Requests -> RequestState]
    /\ mishap \in [Kinds -> 0..MaxMishaps]

Init ==
    /\ account = [e \in Emails |-> NoAccount]
    /\ otp = [p \in Purposes |-> [e \in Emails |-> NoOtp]]
    /\ attempts = [p \in Purposes |-> [e \in Emails |-> 0]]
    /\ pending = [e \in Emails |-> None]
    /\ token = <<>> /\ refresh = <<>> /\ pin = <<>>
    /\ session = [e \in Emails |-> 0]
    /\ req = [r \in Requests |-> Idle]
    /\ mishap = [kind \in Kinds |-> 0]

-----------------------------------------------------------------------------
(* Asking for a PIN                                                          *)

\* Less than a minute after the last request it is refused; whether a minute has
\* passed is left open.
Ask(r, purpose, e, phone) ==
    /\ Len(pin) + Cardinality(Running({"ask"})) < MaxPins
    /\ Start(r, "ask", "saveOtp", [Idle EXCEPT !.purpose = purpose, !.email = e, !.phone = phone])

\* Neither the e-mail nor the phone number has an account yet.
Initiate(r, e, phone) == ~Taken(e) /\ ~PhoneTaken(phone) /\ Ask(r, "register", e, phone)

ForgotPassword(r, e) == Taken(e) /\ Ask(r, "reset", e, None)

\* A new PIN replaces the one before.
SaveOtp(r) ==
    LET q == req[r]
        new == [purpose |-> q.purpose, email |-> q.email, phone |-> q.phone]
    IN  /\ q.step = "saveOtp"
        /\ pin' = Append(pin, new)
        /\ otp' = [otp EXCEPT ![q.purpose][q.email] = [NoOtp EXCEPT !.pin = Len(pin) + 1]]
        /\ Update(r, [q EXCEPT !.pin = Len(pin) + 1], After(q))
        /\ UNCHANGED <<account, attempts, pending, token, refresh, session, mishap>>

ClearAttempts(r) ==
    /\ Write(r, "clearAttempts")
    /\ attempts' = [attempts EXCEPT ![req[r].purpose][req[r].email] = 0]
    /\ UNCHANGED <<otp, pending, token, refresh, session>>

\* Mutation test: the e-mail address is saved for the number.
SavePendingEmail(r) ==
    /\ Write(r, "savePending")
    /\ pending' = [pending EXCEPT ![req[r].email] = req[r].email]
    /\ UNCHANGED <<otp, attempts, token, refresh, session>>

\* Mutation test: the number of a registration under way stays.
SavePendingOnce(r) ==
    /\ Write(r, "savePending")
    /\ pending' = [pending EXCEPT ![req[r].email] = IF @ = None THEN req[r].phone ELSE @]
    /\ UNCHANGED <<otp, attempts, token, refresh, session>>

SavePending(r) ==
    /\ Write(r, "savePending")
    /\ pending' = [pending EXCEPT ![req[r].email] = req[r].phone]
    /\ UNCHANGED <<otp, attempts, token, refresh, session>>

\* Only the owner of the e-mail address learns the PIN; one that was not stored,
\* or is no longer, is as good as a wrong one.
Mail(r) ==
    LET q == req[r]
    IN  /\ q.step = "mail"
        /\ otp' = [otp EXCEPT ![q.purpose][q.email] =
                IF @.pin # 0 /\ @.pin = q.pin THEN [@ EXCEPT !.mailed = TRUE] ELSE @]
        /\ Finish(r)
        /\ UNCHANGED <<account, attempts, pending, token, refresh, session, pin, mishap>>

-----------------------------------------------------------------------------
(* Verifying a PIN                                                           *)

\* The PIN submitted is the one stored, once it was mailed, or a wrong one: 0.
\* A counter that cannot be read counts as zero.
Verify(r, purpose, e, guess) ==
    LET state == [Idle EXCEPT !.purpose = purpose, !.email = e, !.guess = guess]
    IN  /\ guess # 0 => otp[purpose][e].mailed /\ guess = otp[purpose][e].pin
        /\ Len(token) + Cardinality(Running({"verify"})) < MaxTokens
        /\ \/ attempts[purpose][e] < MaxAttempts /\ Start(r, "verify", "readOtp", state)
           \/ StartUnread(r, "verify", "readOtp", state)

\* A PIN that cannot be read is none: the same as one that expired.
ReadOtp(r) ==
    LET q == req[r]
        stored == otp[q.purpose][q.email].pin
    IN  /\ q.step = "readOtp"
        /\ IF stored = 0 THEN Finish(r) /\ UNCHANGED otp
           ELSE IF stored = q.guess
                THEN Update(r, [q EXCEPT !.pin = stored], "deleteOtp") /\ UNCHANGED otp
                ELSE /\ Update(r, [q EXCEPT !.pin = stored], "countWrong")
                     /\ otp' = [otp EXCEPT ![q.purpose][q.email].wrong = @ + 1]
        /\ UNCHANGED <<account, attempts, pending, token, refresh, session, pin, mishap>>

\* Mutation test: the wrong PIN is counted for the other purpose.
CountElsewhere(r) ==
    LET q == req[r]
    IN  /\ q.step = "countWrong"
        /\ attempts' = [attempts EXCEPT !["register"][q.email] = @ + 1]
        /\ IF attempts'[q.purpose][q.email] >= MaxAttempts
           THEN Update(r, [q EXCEPT !.op = "lock"], "deleteOtp") ELSE Finish(r)
        /\ UNCHANGED <<account, otp, pending, token, refresh, session, pin, mishap>>

\* The last attempt takes the PIN away.
CountWrong(r) ==
    LET q == req[r]
    IN  /\ q.step = "countWrong"
        /\ attempts' = [attempts EXCEPT ![q.purpose][q.email] = @ + 1]
        /\ IF attempts'[q.purpose][q.email] >= MaxAttempts
           THEN Update(r, [q EXCEPT !.op = "lock"], "deleteOtp") ELSE Finish(r)
        /\ UNCHANGED <<account, otp, pending, token, refresh, session, pin, mishap>>

\* Mutation test: a PIN that was verified stays.
DeleteOtpOnLock(r) ==
    /\ Write(r, "deleteOtp")
    /\ otp' = [otp EXCEPT ![req[r].purpose][req[r].email] = IF req[r].op = "lock" THEN NoOtp ELSE @]
    /\ UNCHANGED <<attempts, pending, token, refresh, session>>

DeleteOtp(r) ==
    /\ Write(r, "deleteOtp")
    /\ otp' = [otp EXCEPT ![req[r].purpose][req[r].email] = NoOtp]
    /\ UNCHANGED <<attempts, pending, token, refresh, session>>

\* A registration that cannot be read, or expired, leaves the phone number empty.
ReadPending(r) ==
    LET q == req[r]
    IN  /\ q.step = "readPending"
        /\ \/ Update(r, [q EXCEPT !.phone = pending[q.email]], "saveToken") /\ UNCHANGED mishap
           \/ Goto(r, "saveToken") /\ Mishap("fault")
        /\ UNCHANGED <<account, redis, pin>>

\* A fresh token; the expire that follows sets its lifetime.
SaveToken(r) ==
    /\ Write(r, "saveToken")
    /\ token' = Append(token, [pin |-> req[r].pin, phone |-> req[r].phone, live |-> TRUE])
    /\ UNCHANGED <<otp, attempts, pending, refresh, session>>

-----------------------------------------------------------------------------
(* Accounts                                                                  *)

RoomToIssue ==
    Len(refresh) + Cardinality(Running({"complete", "driver", "login", "refresh"})) < MaxIssues

LatestPassword == CHOOSE n \in 0..MaxPasswords :
    /\ n = 0 \/ \E e \in Emails : account[e].password = n
    /\ \A e \in Emails : account[e].password <= n

RoomForPassword ==
    LatestPassword + Cardinality(Running({"complete", "driver", "reset"})) < MaxPasswords

\* A token without a phone number fails the validation of the new account.  The
\* look for an account with the e-mail refuses what the insert would refuse.
Complete(r, t) ==
    LET source == pin[token[t].pin]
    IN  /\ token[t].live /\ source.purpose = "register" /\ token[t].phone # None
        /\ RoomToIssue /\ RoomForPassword
        /\ Start(r, "complete", "createAccount",
                 [Idle EXCEPT !.email = source.email, !.phone = token[t].phone,
                              !.pin = token[t].pin, !.token = t])

\* It looks for the e-mail first and for the phone number then.
DriverRegister(r, e, phone) ==
    /\ ~Taken(e) /\ ~PhoneTaken(phone)
    /\ RoomToIssue /\ RoomForPassword
    /\ Start(r, "driver", "createAccount", [Idle EXCEPT !.email = e, !.phone = phone])

\* email and phone are unique paths: the insert throws when either is taken by now.
CreateAccount(r) ==
    LET q == req[r]
        new == LatestPassword + 1
    IN  /\ q.step = "createAccount"
        /\ IF Taken(q.email) \/ PhoneTaken(q.phone) THEN Finish(r) /\ UNCHANGED account
           ELSE /\ account' = [account EXCEPT ![q.email] =
                        [phone |-> q.phone, password |-> new, isActive |-> TRUE, pin |-> q.pin]]
                /\ Update(r, [q EXCEPT !.password = new],
                          IF q.op = "complete" THEN "deleteToken" ELSE "saveRefresh")
        /\ UNCHANGED <<redis, pin, mishap>>

DeletePending(r) ==
    /\ Write(r, "deletePending")
    /\ pending' = [pending EXCEPT ![req[r].email] = None]
    /\ UNCHANGED <<otp, attempts, token, refresh, session>>

\* The new password differs from the present one.
ResetPassword(r, t) ==
    LET source == pin[token[t].pin]
    IN  /\ token[t].live /\ source.purpose = "reset"
        /\ RoomForPassword
        /\ Start(r, "reset", "savePassword", [Idle EXCEPT !.email = source.email,
                                                          !.pin = token[t].pin, !.token = t])

SavePassword(r) ==
    LET q == req[r]
    IN  /\ q.step = "savePassword"
        /\ account' = [account EXCEPT ![q.email].password = LatestPassword + 1]
        /\ Goto(r, "deleteToken")
        /\ UNCHANGED <<redis, pin, mishap>>

DeleteToken(r) ==
    /\ Write(r, "deleteToken")
    /\ token' = [token EXCEPT ![req[r].token].live = FALSE]
    /\ UNCHANGED <<otp, attempts, pending, refresh, session>>

\* An administrator deactivates an account, in one update.
Deactivate(e) ==
    /\ account[e].isActive
    /\ account' = [account EXCEPT ![e].isActive = FALSE]
    /\ UNCHANGED <<redis, pin, req, mishap>>

-----------------------------------------------------------------------------
(* Sessions                                                                  *)

\* With the right password, on an account that is active.
Login(r, e) ==
    /\ account[e].isActive
    /\ RoomToIssue
    /\ Start(r, "login", "saveRefresh",
             [Idle EXCEPT !.email = e, !.password = account[e].password])

\* The key must be there; a Redis known to be down counts as no key.
Refresh(r, i) ==
    /\ refresh[i].live
    /\ \A other \in Requests : req[other].new # i     \* the client has it by now
    /\ RoomToIssue
    /\ Start(r, "refresh", "revokeKey", [Idle EXCEPT !.email = refresh[i].email, !.old = i])

\* Mutation test: only the index forgets the token.
RevokeNothing(r) ==
    /\ Write(r, "revokeKey")
    /\ UNCHANGED redis

RevokeKey(r) ==
    /\ Write(r, "revokeKey")
    /\ refresh' = [refresh EXCEPT ![req[r].old].live = FALSE]
    /\ UNCHANGED <<otp, attempts, pending, token, session>>

RevokeIndex(r) ==
    /\ Write(r, "revokeIndex")
    /\ refresh' = [refresh EXCEPT ![req[r].old].indexed = FALSE]
    /\ UNCHANGED <<otp, attempts, pending, token, session>>

\* The token stays revoked when the account turns out to be inactive.
FindUser(r) ==
    LET q == req[r]
    IN  /\ q.step = "findUser"
        /\ IF account[q.email].isActive
           THEN Update(r, [q EXCEPT !.password = account[q.email].password], "saveRefresh")
           ELSE Finish(r)
        /\ UNCHANGED <<account, redis, pin, mishap>>

\* The key of a fresh token, in exchange for the old one if there is one.
SaveRefresh(r) ==
    LET q == req[r]
        new == [email |-> q.email, password |-> q.password,
                live |-> TRUE, indexed |-> FALSE, from |-> q.old]
    IN  /\ q.step = "saveRefresh"
        /\ refresh' = Append(refresh, new)
        /\ Update(r, [q EXCEPT !.new = Len(refresh) + 1], After(q))
        /\ UNCHANGED <<account, otp, attempts, pending, token, session, pin, mishap>>

\* A token whose key was never saved is listed to no effect.
IndexRefresh(r) ==
    /\ Write(r, "indexRefresh")
    /\ refresh' = IF req[r].new = 0 THEN refresh ELSE [refresh EXCEPT ![req[r].new].indexed = TRUE]
    /\ UNCHANGED <<otp, attempts, pending, token, session>>

SaveSession(r) ==
    /\ Write(r, "saveSession")
    /\ session' = [session EXCEPT ![req[r].email] = req[r].password]
    /\ UNCHANGED <<otp, attempts, pending, token, refresh>>

\* With an access token of the account.
Logout(r, e) ==
    /\ account[e].isActive
    /\ \E i \in DOMAIN refresh : refresh[i].email = e
    /\ Start(r, "logout", "listRefresh", [Idle EXCEPT !.email = e])

IndexOf(e) == {i \in DOMAIN refresh : refresh[i].email = e /\ refresh[i].indexed}

\* An index that cannot be read lists nothing.
ListRefresh(r) ==
    LET q == req[r]
    IN  /\ q.step = "listRefresh"
        /\ \/ Update(r, [q EXCEPT !.ids = IndexOf(q.email)], "deleteRefresh") /\ UNCHANGED mishap
           \/ Goto(r, "deleteRefresh") /\ Mishap("fault")
        /\ UNCHANGED <<account, redis, pin>>

\* Mutation test: the index goes and the keys stay.
DeleteNothing(r) ==
    /\ Write(r, "deleteRefresh")
    /\ UNCHANGED redis

DeleteRefresh(r) ==
    /\ Write(r, "deleteRefresh")
    /\ refresh' = [i \in DOMAIN refresh |->
            IF i \in req[r].ids THEN [refresh[i] EXCEPT !.live = FALSE] ELSE refresh[i]]
    /\ UNCHANGED <<otp, attempts, pending, token, session>>

\* Whatever the index lists by now.
DeleteIndex(r) ==
    /\ Write(r, "deleteIndex")
    /\ refresh' = [i \in DOMAIN refresh |->
            IF i \in IndexOf(req[r].email) THEN [refresh[i] EXCEPT !.indexed = FALSE]
            ELSE refresh[i]]
    /\ UNCHANGED <<otp, attempts, pending, token, session>>

DeleteSession(r) ==
    /\ Write(r, "deleteSession")
    /\ session' = [session EXCEPT ![req[r].email] = 0]
    /\ UNCHANGED <<otp, attempts, pending, token, refresh>>

-----------------------------------------------------------------------------
(* Time and faults                                                           *)

\* A PIN expires.  The other keys outlive it: the pending number and the counter
\* are replaced with the next PIN, and a token or cached profile that expires is
\* one that nobody uses any more.
Expire ==
    \E p \in Purposes, e \in Emails :
        /\ otp[p][e] # NoOtp
        /\ otp' = [otp EXCEPT ![p][e] = NoOtp]
        /\ UNCHANGED <<account, attempts, pending, token, refresh, session, pin, req, mishap>>

\* The process dies with all its handlers; Redis and MongoDB stay.
Crash ==
    /\ ~Quiet
    /\ req' = [r \in Requests |-> Idle]
    /\ Mishap("crash")
    /\ UNCHANGED <<account, redis, pin>>

Begin(r) ==
    \/ \E e \in Emails :
        \/ \E phone \in Phones : Initiate(r, e, phone) \/ DriverRegister(r, e, phone)
        \/ ForgotPassword(r, e)
        \/ \E purpose \in Purposes, guess \in {0} \cup DOMAIN pin : Verify(r, purpose, e, guess)
        \/ Login(r, e)
        \/ Logout(r, e)
    \/ \E t \in DOMAIN token : Complete(r, t) \/ ResetPassword(r, t)
    \/ \E i \in DOMAIN refresh : Refresh(r, i)

Continue(r) ==
    \/ SaveOtp(r) \/ ClearAttempts(r) \/ SavePending(r)
    \/ Mail(r)
    \/ ReadOtp(r) \/ CountWrong(r) \/ DeleteOtp(r) \/ ReadPending(r)
    \/ SaveToken(r)
    \/ CreateAccount(r) \/ SavePassword(r)
    \/ DeleteToken(r) \/ DeletePending(r)
    \/ RevokeKey(r) \/ RevokeIndex(r) \/ FindUser(r)
    \/ SaveRefresh(r) \/ IndexRefresh(r) \/ SaveSession(r)
    \/ ListRefresh(r) \/ DeleteRefresh(r) \/ DeleteIndex(r) \/ DeleteSession(r)
    \/ MissWrite(r)

Next ==
    \/ Expire \/ Crash
    \/ \E e \in Emails : Deactivate(e)
    \/ \E r \in Requests : Begin(r) \/ Continue(r)

Spec == Init /\ [][Next]_vars

-----------------------------------------------------------------------------
(* Properties                                                                *)

\* An account registers with the phone number that was given with the request
\* for its PIN, although PIN and number are kept under keys of their own and a
\* second request replaces both: as long as handlers do not overlap and Redis
\* answers (initiate, verifyEmail).
PhoneAsAsked ==
    Without({"overlap", "fault"}) =>
        \A e \in Emails : account[e].pin # 0 => account[e].phone = pin[account[e].pin].phone

\* A PIN is compared with at most OTP_MAX_ATTEMPTS wrong ones, and one more for
\* each handler that overlaps another or dies, as long as Redis answers: the counter and
\* the deletion of the PIN are calls of their own (verifyOtp, verifyEmail).
GuessesBounded ==
    Without({"fault"}) => \A p \in Purposes, e \in Emails :
        otp[p][e].wrong <= MaxAttempts + mishap["overlap"] + mishap["crash"]

\* A PIN yields at most one setup or reset token, wherever the process dies, as
\* long as handlers do not overlap and Redis answers: the PIN goes before the
\* token is saved (verifyOtp, verifyEmail).
TokenPerPin ==
    Without({"overlap", "fault"}) =>
        \A t, u \in DOMAIN token : token[t].pin = token[u].pin => t = u

\* Between handlers, refresh tokens and cached profiles that are still good were
\* issued under the password the account has now: resetPassword revokes the
\* rest, through an index that is kept apart from the keys.  As long as handlers
\* run one at a time, to their end, and Redis answers.
SessionsOfThisPassword ==
    Without(Kinds) /\ Quiet =>
        /\ \A i \in DOMAIN refresh :
            refresh[i].live => refresh[i].password = account[refresh[i].email].password
        /\ \A e \in Emails : session[e] \in {0, account[e].password}

\* A refresh token that was exchanged for another is gone and was exchanged
\* once, wherever the process dies, as long as handlers do not overlap and Redis
\* answers (refresh).
ExchangedOnce ==
    Without({"overlap", "fault"}) =>
        \A i, j \in DOMAIN refresh :
            refresh[i].from # 0 =>
                /\ ~refresh[refresh[i].from].live
                /\ refresh[i].from = refresh[j].from => i = j

=============================================================================
