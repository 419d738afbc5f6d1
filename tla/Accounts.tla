------------------------------- MODULE Accounts -------------------------------
(***************************************************************************)
(* Riders' accounts: one-time codes, users and their wallets, the refresh    *)
(* token, and the id tag under which a rider's charging is authorised.      *)
(* Every request runs on its own, one database or Hasura call per step; a    *)
(* request may fail at any of them, and a crash is every request failing.   *)
(* A user has one token column.  A token is a function of the user and of    *)
(* the second it was made in, so that it is named here by that second.  The  *)
(* column is NULL for a new user and after a logout, and NULL cannot be      *)
(* scanned into the string of models.User: whoever reads the user then gets  *)
(* an error.                                                               *)
(***************************************************************************)
EXTENDS Integers, FiniteSets

CONSTANTS
    Phone,          \* phone numbers, one user each at most
    Request,        \* requests in flight at once
    Code,           \* one-time codes
    Null,
    OtpTTL,         \* how long a code is good
    RefreshTTL,     \* how long a refresh token is good
    MaxTime,        \* bound: the clock
    MaxOtps         \* bound: codes sent

ASSUME AccountsAssumption ==
    /\ OtpTTL \in Nat \ {0} /\ RefreshTTL \in Nat \ {0}
    /\ MaxTime \in Nat /\ MaxOtps \in Nat
    /\ Null \notin Phone \cup Request \cup Code \cup Nat \cup {"given", "derived"}

VARIABLES
    now,
    otp,        \* phone_otps by phone; n says which of the codes sent it is
    otpLock,    \* the request that holds the row of phone_otps
    user,       \* users by phone
    newUser,    \* the request that has inserted the user and not committed yet
    wallets,    \* the users that have a wallet
    authorised, \* the tags Hasura has an authorisation for
    req,        \* what each request is doing
    issued,     \* history: how many codes were sent
    logins,     \* history: how many requests passed with each of them
    out,        \* history: the rider has logged out
    commands    \* history: the start commands sent, by user and tag

vars == <<now, otp, otpLock, user, newUser, wallets, authorised, req,
          issued, logins, out, commands>>
otps == <<otp, otpLock, issued, logins>>
users == <<user, newUser, wallets, out>>
tags == <<authorised, commands>>

Token == 0..MaxTime
Tag == {"given", "derived"}
Pc == {"idle", "select", "delete", "fetch", "create", "wallet", "mark", "mint", "store",
       "clear", "settag", "lookup", "authorise", "dispatch"}
\* The request has read or made its user and will store a token.
Passed == {"mark", "mint", "store"}

Kind == {"register", "create", "login", "refresh", "logout", "start"}

Idle == [pc |-> "idle", kind |-> Null, phone |-> Null, code |-> Null, began |-> 0,
         n |-> 0, token |-> Null, tag |-> Null, crossed |-> FALSE]

NoUser == [exists |-> FALSE, verified |-> FALSE, token |-> Null, tag |-> Null]

Call == [pc : Pc, kind : Kind \cup {Null}, phone : Phone \cup {Null}, code : Code \cup {Null},
         began : 0..MaxTime, n : 0..MaxOtps, token : Token \cup {Null}, tag : Tag \cup {Null},
         crossed : BOOLEAN]

TypeOK ==
    /\ now \in 0..MaxTime
    /\ otp \in [Phone -> [code : Code, n : 1..MaxOtps, expires : Nat] \cup {Null}]
    /\ otpLock \in [Phone -> Request \cup {Null}]
    /\ user \in [Phone -> [exists : BOOLEAN, verified : BOOLEAN,
                           token : Token \cup {Null}, tag : Tag \cup {Null}]]
    /\ newUser \in [Phone -> Request \cup {Null}]
    /\ wallets \subseteq Phone
    /\ authorised \subseteq [phone : Phone, tag : Tag]
    /\ req \in [Request -> Call]
    /\ issued \in 0..MaxOtps
    /\ logins \in [1..MaxOtps -> Nat]
    /\ out \in [Phone -> BOOLEAN]
    /\ commands \subseteq [phone : Phone, tag : Tag]

Init ==
    /\ now = 0
    /\ otp = [p \in Phone |-> Null]
    /\ otpLock = [p \in Phone |-> Null]
    /\ user = [p \in Phone |-> NoUser]
    /\ newUser = [p \in Phone |-> Null]
    /\ wallets = {}
    /\ authorised = {}
    /\ req = [c \in Request |-> Idle]
    /\ issued = 0
    /\ logins = [n \in 1..MaxOtps |-> 0]
    /\ out = [p \in Phone |-> FALSE]
    /\ commands = {}

Tick ==
    /\ now < MaxTime
    /\ now' = now + 1
    /\ UNCHANGED <<otps, users, tags, req>>

-----------------------------------------------------------------------------
(* Requests.                                                               *)

At(c, pc) == req[c].pc = pc

Become(c, r) == req' = [req EXCEPT ![c] = r]
Begin(c, r)  == At(c, "idle") /\ Become(c, r)
Go(c, pc)    == Become(c, [req[c] EXCEPT !.pc = pc])
Answer(c)    == Become(c, Idle)

Unlocked(lock, c) == [p \in Phone |-> IF lock[p] = c THEN Null ELSE lock[p]]

\* A call fails: the transaction that is open is rolled back, and the answer is an error.
Fail(c) ==
    /\ ~At(c, "idle")
    /\ otpLock' = Unlocked(otpLock, c)
    /\ newUser' = Unlocked(newUser, c)
    /\ Answer(c)
    /\ UNCHANGED <<now, otp, issued, logins, user, wallets, out, tags>>

-----------------------------------------------------------------------------
(* One-time codes.                                                         *)

\* SendOTP: an upsert, which waits for whoever holds the row.
SendOTP(p, k) ==
    /\ issued < MaxOtps
    /\ otpLock[p] = Null
    /\ issued' = issued + 1
    /\ otp' = [otp EXCEPT ![p] = [code |-> k, n |-> issued', expires |-> now + OtpTTL]]
    /\ UNCHANGED <<now, otpLock, logins, users, tags, req>>

\* Login begins the transaction of VerifyPhoneOTP, whose NOW() this is.
Login(c, p, k) ==
    /\ Begin(c, [Idle EXCEPT !.pc = "select", !.kind = "login", !.phone = p,
                             !.code = k, !.began = now])
    /\ UNCHANGED <<now, otps, users, tags>>

\* The row that SELECT finds has the code the rider typed.
Matches(c) ==
    LET row == otp[req[c].phone] IN
    row # Null /\ row.expires > req[c].began /\ row.code = req[c].code

Checked(c) ==
    Become(c, [req[c] EXCEPT !.pc = "delete", !.n = otp[req[c].phone].n,
                             !.code = Null, !.began = 0])

\* Mutant: the row is read without FOR UPDATE.
SelectOTPUnlocked(c) ==
    /\ At(c, "select")
    /\ IF Matches(c) THEN Checked(c) ELSE Answer(c)
    /\ UNCHANGED <<now, otps, users, tags>>

\* Mutant: a wrong code leaves the transaction, and its lock, open.
SelectOTPLeaks(c) ==
    LET p == req[c].phone IN
    /\ At(c, "select")
    /\ otpLock[p] = Null
    /\ otpLock' = [otpLock EXCEPT ![p] = IF otp[p] = Null THEN Null ELSE c]
    /\ IF Matches(c) THEN Checked(c) ELSE Answer(c)
    /\ UNCHANGED <<now, otp, issued, logins, users, tags>>

\* SELECT ... FOR UPDATE and the comparison; without a match the deferred rollback
\* frees the row and the answer is 401.
SelectOTP(c) ==
    LET p == req[c].phone IN
    /\ At(c, "select")
    /\ otpLock[p] = Null
    /\ IF Matches(c)
       THEN otpLock' = [otpLock EXCEPT ![p] = c] /\ Checked(c)
       ELSE UNCHANGED otpLock /\ Answer(c)
    /\ UNCHANGED <<now, otp, issued, logins, users, tags>>

\* DELETE by phone number, and the commit.
DeleteOTP(c) ==
    LET p == req[c].phone IN
    /\ At(c, "delete")
    /\ otp' = [otp EXCEPT ![p] = Null]
    /\ otpLock' = Unlocked(otpLock, c)
    /\ logins' = [logins EXCEPT ![req[c].n] = @ + 1]
    /\ Become(c, [req[c] EXCEPT !.pc = "fetch", !.n = 0])
    /\ UNCHANGED <<now, issued, users, tags>>

-----------------------------------------------------------------------------
(* Users and wallets.                                                      *)

\* GetByPhoneNumber and GetByID return the user; an error if there is one without a token.
Readable(p) == user[p].exists /\ user[p].token # Null

\* GetByPhoneNumber.  A new rider who gave no name is sent away, the code being spent.
FetchUser(c) ==
    LET p == req[c].phone IN
    /\ At(c, "fetch")
    /\ \/ Readable(p) /\ Go(c, "mark")
       \/ user[p].exists /\ ~Readable(p) /\ Answer(c)
       \/ ~user[p].exists /\ (Go(c, "create") \/ Answer(c))
    /\ UNCHANGED <<now, otps, users, tags>>

\* Register, and CreateUser, which makes the same user and no token.
Register(c, p, kind, tag) ==
    /\ Begin(c, [Idle EXCEPT !.pc = "create", !.kind = kind, !.phone = p, !.tag = tag])
    /\ UNCHANGED <<now, otps, users, tags>>

Fresh(c) == [NoUser EXCEPT !.exists = TRUE, !.tag = req[c].tag]

\* Mutant: the user's row is inserted outside the transaction.
InsertUserAtOnce(c) ==
    LET p == req[c].phone IN
    /\ At(c, "create")
    /\ newUser[p] = Null
    /\ IF user[p].exists
       THEN Answer(c) /\ UNCHANGED users
       ELSE /\ Go(c, "wallet")
            /\ newUser' = [newUser EXCEPT ![p] = c]
            /\ user' = [user EXCEPT ![p] = Fresh(c)]
            /\ UNCHANGED <<wallets, out>>
    /\ UNCHANGED <<now, otps, tags>>

\* The phone number is unique: the INSERT waits for another one of it that is not
\* committed yet, and fails if the number is taken.
InsertUser(c) ==
    LET p == req[c].phone IN
    /\ At(c, "create")
    /\ newUser[p] = Null
    /\ IF user[p].exists
       THEN Answer(c) /\ UNCHANGED newUser
       ELSE Go(c, "wallet") /\ newUser' = [newUser EXCEPT ![p] = c]
    /\ UNCHANGED <<now, otps, user, wallets, out, tags>>

\* The wallet, and the commit of both.
InsertWallet(c) ==
    LET p == req[c].phone IN
    /\ At(c, "wallet")
    /\ wallets' = wallets \cup {p}
    /\ user' = [user EXCEPT ![p] = Fresh(c)]
    /\ newUser' = Unlocked(newUser, c)
    /\ IF req[c].kind = "create"
       THEN Answer(c)
       ELSE Become(c, [req[c] EXCEPT !.pc = IF req[c].kind = "login" THEN "mark" ELSE "mint",
                                     !.tag = Null])
    /\ UNCHANGED <<now, otps, out, tags>>

MarkPhoneVerified(c) ==
    /\ At(c, "mark")
    /\ user' = [user EXCEPT ![req[c].phone].verified = TRUE]
    /\ Go(c, "mint")
    /\ UNCHANGED <<now, otps, newUser, wallets, out, tags>>

-----------------------------------------------------------------------------
(* Tokens.                                                                 *)

\* Mutant: the token's signature and age are checked, and not that it is the user's.
AcceptsAnyGood(p, t) == user[p].exists /\ now < t + RefreshTTL

\* GetByAuthToken finds the user: the token is the one stored and has not expired.
\* With any other token a refresh is refused and a logout has nothing to do.
Accepts(p, t) == user[p].token = t /\ now < t + RefreshTTL

Refresh(c, p, t) ==
    /\ Accepts(p, t)
    /\ Begin(c, [Idle EXCEPT !.pc = "mint", !.kind = "refresh", !.phone = p, !.token = t])
    /\ UNCHANGED <<now, otps, users, tags>>

Logout(c, p, t) ==
    /\ Accepts(p, t)
    /\ Begin(c, [Idle EXCEPT !.pc = "clear", !.kind = "logout", !.phone = p])
    /\ UNCHANGED <<now, otps, users, tags>>

\* Mutant: the token is dated with its expiry.
MintLate(c) ==
    /\ At(c, "mint")
    /\ Become(c, [req[c] EXCEPT !.pc = "store", !.token = now + RefreshTTL])
    /\ UNCHANGED <<now, otps, users, tags>>

\* ParseAndVerify of a refresh's token, and GenerateToken.
Mint(c) ==
    /\ At(c, "mint")
    /\ IF req[c].kind = "refresh" /\ now >= req[c].token + RefreshTTL
       THEN Answer(c)
       ELSE Become(c, [req[c] EXCEPT !.pc = "store", !.token = now])
    /\ UNCHANGED <<now, otps, users, tags>>

\* SetAuthToken, by user id alone.
SetAuthToken(c) ==
    LET p == req[c].phone IN
    /\ At(c, "store")
    /\ user' = [user EXCEPT ![p].token = req[c].token]
    /\ out' = [out EXCEPT ![p] = @ /\ ~req[c].crossed]
    /\ Answer(c)
    /\ UNCHANGED <<now, otps, newUser, wallets, tags>>

\* Every request of the user that is past its check is crossed by a logout.
Crossed(p) ==
    [c \in Request |-> IF req[c].phone = p /\ req[c].pc \in Passed
                       THEN [req[c] EXCEPT !.crossed = TRUE] ELSE req[c]]

ClearAuthToken(c) ==
    LET p == req[c].phone IN
    /\ At(c, "clear")
    /\ user' = [user EXCEPT ![p].token = Null]
    /\ out' = [out EXCEPT ![p] = TRUE]
    /\ req' = [Crossed(p) EXCEPT ![c] = Idle]
    /\ UNCHANGED <<now, otps, newUser, wallets, tags>>

-----------------------------------------------------------------------------
(* The id tag, on the way of a start command to the charger.                *)

\* StartCharging reads the user; Register may have been given a tag.
StartCharging(c, p) ==
    LET tag == user[p].tag IN
    /\ Readable(p)
    /\ Begin(c, [Idle EXCEPT !.kind = "start", !.phone = p,
                             !.pc = IF tag = Null THEN "settag" ELSE "lookup",
                             !.tag = IF tag = Null THEN "derived" ELSE tag])
    /\ UNCHANGED <<now, otps, users, tags>>

\* Mutant: the tag that is derived for the command is not stored.
SetIDTagForgets(c) ==
    /\ At(c, "settag")
    /\ Go(c, "lookup")
    /\ UNCHANGED <<now, otps, users, tags>>

SetIDTag(c) ==
    /\ At(c, "settag")
    /\ user' = [user EXCEPT ![req[c].phone].tag = req[c].tag]
    /\ Go(c, "lookup")
    /\ UNCHANGED <<now, otps, newUser, wallets, out, tags>>

TagOf(c) == [phone |-> req[c].phone, tag |-> req[c].tag]

\* EnsureAuthorization: a query by tag, and an insert if it returns nothing.
GetAuthorization(c) ==
    /\ At(c, "lookup")
    /\ Go(c, IF TagOf(c) \in authorised THEN "dispatch" ELSE "authorise")
    /\ UNCHANGED <<now, otps, users, tags>>

CreateAuthorization(c) ==
    /\ At(c, "authorise")
    /\ authorised' = authorised \cup {TagOf(c)}
    /\ Go(c, "dispatch")
    /\ UNCHANGED <<now, otps, users, commands>>

StartTransaction(c) ==
    /\ At(c, "dispatch")
    /\ commands' = commands \cup {TagOf(c)}
    /\ Answer(c)
    /\ UNCHANGED <<now, otps, users, authorised>>

-----------------------------------------------------------------------------
LockStep(c) == SelectOTP(c) \/ InsertUser(c)

FreeStep(c) ==
    \/ DeleteOTP(c) \/ FetchUser(c) \/ InsertWallet(c) \/ MarkPhoneVerified(c)
    \/ Mint(c) \/ SetAuthToken(c) \/ ClearAuthToken(c)
    \/ SetIDTag(c) \/ GetAuthorization(c) \/ CreateAuthorization(c) \/ StartTransaction(c)

Next ==
    \/ Tick
    \/ \E p \in Phone, k \in Code : SendOTP(p, k)
    \/ \E c \in Request :
        \/ \E p \in Phone, k \in Code : Login(c, p, k)
        \/ \E p \in Phone, kind \in {"register", "create"}, tag \in {Null, "given"} :
              Register(c, p, kind, tag)
        \/ \E p \in Phone, t \in 0..now : Refresh(c, p, t) \/ Logout(c, p, t)
        \/ \E p \in Phone : StartCharging(c, p)
        \/ LockStep(c) \/ FreeStep(c) \/ Fail(c)

Spec == Init /\ [][Next]_vars

\* Calls return, and PostgreSQL queues those who wait for a row or a unique key.
Fairness == \A c \in Request : WF_vars(FreeStep(c)) /\ SF_vars(LockStep(c))

FairSpec == Spec /\ Fairness

-----------------------------------------------------------------------------
(* What the accounts promise.                                              *)

\* A code that was sent lets one request in, however many present it at once and
\* wherever they fail (VerifyPhoneOTP).
OtpLogsInOnce == \A n \in 1..MaxOtps : logins[n] <= 1

\* The DELETE of a login, which names the phone only, takes the row whose code that
\* login was checked against, and never a code that was sent since.
NewestCodeSurvives ==
    [][\A c \in Request : At(c, "delete") /\ req'[c].pc = "fetch" =>
        otp[req[c].phone] # Null /\ otp[req[c].phone].n = req[c].n]_vars

\* A user has a wallet from the first moment others see the user, though two requests
\* may create the user at once and either may fail in the middle (Create).
UsersHaveWallets == \A p \in Phone : user[p].exists <=> p \in wallets

\* A logout is for good.  No request that comes to its check later stores a token: a
\* refresh does not find the user and a login cannot read the NULL.  Only a request that
\* was past its check when the token was cleared brings one back.
LogoutLasts == \A p \in Phone : out[p] => user[p].token = Null

\* Every start command carries the tag that its user's row still has, and that tag was
\* authorised, also where two starts of a user derive and store it at once.
CommandsAreAuthorised ==
    \A m \in commands : user[m.phone].tag = m.tag /\ m \in authorised

\* Every request is answered: no row and no unique key stays locked behind a request
\* that has gone.
RequestsEnd == \A c \in Request : (req[c].pc # "idle") ~> (req[c].pc = "idle")
=============================================================================
