---------------------------- MODULE AccountsProofs ----------------------------
(***************************************************************************)
(* What the accounts promise, for any number of phones, requests, codes and  *)
(* ticks.  The invariant says of every request in flight what its next       *)
(* statement relies on and others could have changed since it looked.       *)
(***************************************************************************)
EXTENDS Accounts, TLAPS

-----------------------------------------------------------------------------
(* The invariant.                                                          *)

\* What a request carries, by the statement it is at.
Carries(c) ==
    /\ ~At(c, "idle") => req[c].phone \in Phone
    /\ At(c, "delete") => req[c].n \in 1..MaxOtps
    /\ At(c, "store") => req[c].token \in Token
    /\ At(c, "clear") => req[c].kind = "logout"
    /\ req[c].pc \in {"select", "delete", "fetch", "create", "wallet", "mark"}
            => req[c].kind \in {"login", "register", "create"}
    /\ req[c].pc \in {"settag", "lookup", "authorise", "dispatch"}
            => req[c].kind = "start" /\ req[c].tag \in Tag

CarriesOK == \A c \in Request : Carries(c)

\* A code that is still stored has let nobody in, and one that was checked is still the
\* stored one, its row being locked.
CodesOK ==
    /\ \A p \in Phone : otp[p] # Null =>
            otp[p].n \in 1..issued /\ logins[otp[p].n] = 0
    /\ \A p, q \in Phone : otp[p] # Null /\ otp[q] # Null /\ otp[p].n = otp[q].n => p = q
    /\ \A n \in 1..MaxOtps : logins[n] <= 1 /\ (n > issued => logins[n] = 0)
    /\ \A c \in Request : At(c, "delete") =>
            /\ otpLock[req[c].phone] = c
            /\ otp[req[c].phone] # Null /\ otp[req[c].phone].n = req[c].n

\* The request works for a user it has read or made.
Known(c) ==
    ~At(c, "idle") /\ (req[c].kind \in {"start", "refresh", "logout"} \/ req[c].pc \in Passed)

\* A user is inserted once, and has a tag that does not change.
UsersOK ==
    /\ UsersHaveWallets
    /\ \A p \in Phone : user[p].token # Null => user[p].exists
    /\ \A c \in Request : At(c, "wallet") =>
            newUser[req[c].phone] = c /\ ~user[req[c].phone].exists
    /\ \A c \in Request : Known(c) => user[req[c].phone].exists

TagsOK ==
    /\ \A c \in Request :
        /\ At(c, "settag") =>
                req[c].tag = "derived" /\ user[req[c].phone].tag \in {Null, "derived"}
        /\ req[c].pc \in {"lookup", "authorise", "dispatch"} =>
                user[req[c].phone].tag = req[c].tag
        /\ At(c, "dispatch") => TagOf(c) \in authorised
    /\ \A m \in commands : user[m.phone].exists
    /\ CommandsAreAuthorised

\* A rider who has logged out has no token, and a request that would restore one was past
\* its check before the logout.
TokensOK ==
    /\ LogoutLasts
    /\ \A p \in Phone : out[p] => user[p].exists
    /\ \A c \in Request : req[c].pc \in Passed /\ out[req[c].phone] => req[c].crossed

IInv == TypeOK /\ CarriesOK /\ CodesOK /\ UsersOK /\ TagsOK /\ TokensOK

-----------------------------------------------------------------------------
(* How a step changes the requests.                                        *)

Others(c) == \A d \in Request : d # c => req'[d] = req[d]

\* A request goes on at one of pcs, or is answered.
Moved(c, pcs) ==
    /\ Others(c)
    /\ \/ req'[c] = Idle
       \/ /\ req'[c].pc \in pcs
          /\ req'[c].kind = req[c].kind /\ req'[c].phone = req[c].phone
          /\ req'[c].crossed = req[c].crossed

LEMMA IdleIsCall == Idle \in Call
BY AccountsAssumption DEF Idle, Call, Pc

LEMMA Became ==
    ASSUME TypeOK, NEW c \in Request, NEW r, Become(c, r)
    PROVE  Others(c) /\ req'[c] = r
BY DEF TypeOK, Become, Others

LEMMA BecameCall ==
    ASSUME TypeOK, NEW c \in Request, NEW r \in Call, Become(c, r)
    PROVE  req' \in [Request -> Call]
BY DEF TypeOK, Become

LEMMA Answered ==
    ASSUME TypeOK, NEW c \in Request, Answer(c)
    PROVE  Others(c) /\ req'[c] = Idle /\ req' \in [Request -> Call]
BY Became, BecameCall, IdleIsCall DEF Answer

\* A call stays one under the assignments that the steps make.
LEMMA Assigned ==
    ASSUME NEW r \in Call, NEW pc \in Pc
    PROVE  /\ \A n \in 0 .. MaxOtps :
                /\ [r EXCEPT !.pc = pc, !.n = n, !.code = Null, !.began = 0] \in Call
                /\ [r EXCEPT !.pc = pc, !.n = n] \in Call
           /\ [r EXCEPT !.pc = pc, !.tag = Null] \in Call
<1>1. 0 \in 0 .. MaxTime
    BY AccountsAssumption
<1>. QED
    BY <1>1 DEF Call

LEMMA Went ==
    ASSUME TypeOK, NEW c \in Request, NEW pc \in Pc, Go(c, pc)
    PROVE  /\ Moved(c, {pc}) /\ req'[c].pc = pc /\ req'[c].tag = req[c].tag
           /\ req' \in [Request -> Call]
<1>. DEFINE r == [req[c] EXCEPT !.pc = pc]
<1>1. req[c] \in Call
    BY DEF TypeOK
<1>2. r \in Call /\ r.pc = pc /\ r.kind = req[c].kind /\ r.phone = req[c].phone
        /\ r.crossed = req[c].crossed /\ r.tag = req[c].tag
    BY <1>1 DEF Call
<1>3. Become(c, r)
    BY DEF Go
<1>. HIDE DEF r
<1>. QED
    BY <1>2, <1>3, Became, BecameCall DEF Moved

LEMMA Begins ==
    ASSUME TypeOK, NEW c \in Request
    PROVE  /\ \A p \in Phone, k \in Code : Login(c, p, k) =>
                /\ Others(c) /\ At(c, "idle") /\ req' \in [Request -> Call]
                /\ req'[c].pc = "select" /\ req'[c].kind = "login" /\ req'[c].phone = p
           /\ \A p \in Phone, kind \in {"register", "create"}, tag \in {Null, "given"} :
                Register(c, p, kind, tag) =>
                /\ Others(c) /\ At(c, "idle") /\ req' \in [Request -> Call]
                /\ req'[c].pc = "create" /\ req'[c].kind = kind /\ req'[c].phone = p
           /\ \A p \in Phone, t \in 0 .. now : Refresh(c, p, t) =>
                /\ Others(c) /\ At(c, "idle") /\ req' \in [Request -> Call]
                /\ req'[c].pc = "mint" /\ req'[c].kind = "refresh" /\ req'[c].phone = p
           /\ \A p \in Phone, t \in 0 .. now : Logout(c, p, t) =>
                /\ Others(c) /\ At(c, "idle") /\ req' \in [Request -> Call]
                /\ req'[c].pc = "clear" /\ req'[c].kind = "logout" /\ req'[c].phone = p
           /\ \A p \in Phone : StartCharging(c, p) =>
                /\ Others(c) /\ At(c, "idle") /\ req' \in [Request -> Call]
                /\ req'[c].kind = "start" /\ req'[c].phone = p
                /\ IF user[p].tag = Null
                   THEN req'[c].pc = "settag" /\ req'[c].tag = "derived"
                   ELSE req'[c].pc = "lookup" /\ req'[c].tag = user[p].tag
<1>0. Idle \in Call /\ now \in 0 .. MaxTime /\ now \in Nat /\ MaxTime \in Nat
    BY IdleIsCall, AccountsAssumption DEF TypeOK
<1>1. ASSUME NEW p \in Phone, NEW k \in Code, Login(c, p, k)
      PROVE  /\ Others(c) /\ At(c, "idle") /\ req' \in [Request -> Call]
             /\ req'[c].pc = "select" /\ req'[c].kind = "login" /\ req'[c].phone = p
    <2>. DEFINE r == [Idle EXCEPT !.pc = "select", !.kind = "login", !.phone = p,
                                  !.code = k, !.began = now]
    <2>1. r \in Call /\ r.pc = "select" /\ r.kind = "login" /\ r.phone = p
        BY <1>0 DEF Idle, Call, Pc, Kind
    <2>2. At(c, "idle") /\ Become(c, r)
        BY <1>1 DEF Login, Begin
    <2>. HIDE DEF r
    <2>. QED
        BY <2>1, <2>2, Became, BecameCall
<1>2. ASSUME NEW p \in Phone, NEW kind \in {"register", "create"}, NEW tag \in {Null, "given"},
             Register(c, p, kind, tag)
      PROVE  /\ Others(c) /\ At(c, "idle") /\ req' \in [Request -> Call]
             /\ req'[c].pc = "create" /\ req'[c].kind = kind /\ req'[c].phone = p
    <2>. DEFINE r == [Idle EXCEPT !.pc = "create", !.kind = kind, !.phone = p, !.tag = tag]
    <2>1. r \in Call /\ r.pc = "create" /\ r.kind = kind /\ r.phone = p
        BY <1>0 DEF Idle, Call, Pc, Kind, Tag
    <2>2. At(c, "idle") /\ Become(c, r)
        BY <1>2 DEF Register, Begin
    <2>. HIDE DEF r
    <2>. QED
        BY <2>1, <2>2, Became, BecameCall
<1>3. ASSUME NEW p \in Phone, NEW t \in 0 .. now, Refresh(c, p, t)
      PROVE  /\ Others(c) /\ At(c, "idle") /\ req' \in [Request -> Call]
             /\ req'[c].pc = "mint" /\ req'[c].kind = "refresh" /\ req'[c].phone = p
    <2>. DEFINE r == [Idle EXCEPT !.pc = "mint", !.kind = "refresh", !.phone = p, !.token = t]
    <2>0. t \in Token
        BY <1>0 DEF Token
    <2>1. r \in Call /\ r.pc = "mint" /\ r.kind = "refresh" /\ r.phone = p
        BY <1>0, <2>0 DEF Idle, Call, Pc, Kind
    <2>2. At(c, "idle") /\ Become(c, r)
        BY <1>3 DEF Refresh, Begin
    <2>. HIDE DEF r
    <2>. QED
        BY <2>1, <2>2, Became, BecameCall
<1>4. ASSUME NEW p \in Phone, NEW t \in 0 .. now, Logout(c, p, t)
      PROVE  /\ Others(c) /\ At(c, "idle") /\ req' \in [Request -> Call]
             /\ req'[c].pc = "clear" /\ req'[c].kind = "logout" /\ req'[c].phone = p
    <2>. DEFINE r == [Idle EXCEPT !.pc = "clear", !.kind = "logout", !.phone = p]
    <2>1. r \in Call /\ r.pc = "clear" /\ r.kind = "logout" /\ r.phone = p
        BY <1>0 DEF Idle, Call, Pc, Kind
    <2>2. At(c, "idle") /\ Become(c, r)
        BY <1>4 DEF Logout, Begin
    <2>. HIDE DEF r
    <2>. QED
        BY <2>1, <2>2, Became, BecameCall
<1>5. ASSUME NEW p \in Phone, StartCharging(c, p)
      PROVE  /\ Others(c) /\ At(c, "idle") /\ req' \in [Request -> Call]
             /\ req'[c].kind = "start" /\ req'[c].phone = p
             /\ IF user[p].tag = Null
                THEN req'[c].pc = "settag" /\ req'[c].tag = "derived"
                ELSE req'[c].pc = "lookup" /\ req'[c].tag = user[p].tag
    <2>. DEFINE r == [Idle EXCEPT !.kind = "start", !.phone = p,
                                  !.pc = IF user[p].tag = Null THEN "settag" ELSE "lookup",
                                  !.tag = IF user[p].tag = Null THEN "derived" ELSE user[p].tag]
    <2>1. user[p].tag \in Tag \cup {Null}
        BY DEF TypeOK
    <2>2. /\ r \in Call /\ r.kind = "start" /\ r.phone = p
          /\ IF user[p].tag = Null
             THEN r.pc = "settag" /\ r.tag = "derived"
             ELSE r.pc = "lookup" /\ r.tag = user[p].tag
        BY <1>0, <2>1 DEF Idle, Call, Pc, Kind, Tag
    <2>3. At(c, "idle") /\ Become(c, r)
        BY <1>5 DEF StartCharging, Begin
    <2>. HIDE DEF r
    <2>. QED
        BY <2>2, <2>3, Became, BecameCall
<1>. QED
    BY <1>1, <1>2, <1>3, <1>4, <1>5

\* The steps of a request between its first and its answer.
LEMMA Moves ==
    ASSUME IInv, NEW c \in Request
    PROVE  /\ SelectOTP(c) => /\ Moved(c, {"delete"}) /\ req' \in [Request -> Call]
                              /\ Matches(c) => req'[c].n = otp[req[c].phone].n
                              /\ ~Matches(c) => req'[c] = Idle
           /\ DeleteOTP(c) => Moved(c, {"fetch"}) /\ req' \in [Request -> Call]
           /\ FetchUser(c) => Moved(c, {"mark", "create"}) /\ req' \in [Request -> Call]
           /\ InsertUser(c) => Moved(c, {"wallet"}) /\ req' \in [Request -> Call]
           /\ InsertWallet(c) => Moved(c, {"mark", "mint"}) /\ req' \in [Request -> Call]
           /\ MarkPhoneVerified(c) => Moved(c, {"mint"}) /\ req' \in [Request -> Call]
           /\ Mint(c) => /\ Moved(c, {"store"}) /\ req' \in [Request -> Call]
                         /\ req'[c].pc = "store" => req'[c].token \in Token
           /\ SetIDTag(c) => /\ Moved(c, {"lookup"}) /\ req' \in [Request -> Call]
                             /\ req'[c].tag = req[c].tag
           /\ GetAuthorization(c) => /\ Moved(c, {"dispatch", "authorise"})
                                     /\ req' \in [Request -> Call]
                                     /\ req'[c].tag = req[c].tag
           /\ CreateAuthorization(c) => /\ Moved(c, {"dispatch"}) /\ req' \in [Request -> Call]
                                        /\ req'[c].tag = req[c].tag
<1>0. TypeOK /\ req[c] \in Call /\ Idle \in Call
    BY IdleIsCall DEF IInv, TypeOK
<1>1. ASSUME SelectOTP(c)
      PROVE  /\ Moved(c, {"delete"}) /\ req' \in [Request -> Call]
             /\ Matches(c) => req'[c].n = otp[req[c].phone].n
             /\ ~Matches(c) => req'[c] = Idle
    <2>1. CASE Matches(c)
        <3>. DEFINE r == [req[c] EXCEPT !.pc = "delete", !.n = otp[req[c].phone].n,
                                        !.code = Null, !.began = 0]
        <3>1. req[c].phone \in Phone
            BY <1>1 DEF IInv, CarriesOK, Carries, SelectOTP, At
        <3>2. otp[req[c].phone].n \in 1 .. MaxOtps /\ 0 \in 0 .. MaxTime
            BY <1>0, <2>1, <3>1, AccountsAssumption DEF Matches, TypeOK
        <3>3. /\ r \in Call /\ r.pc = "delete" /\ r.n = otp[req[c].phone].n
              /\ r.kind = req[c].kind /\ r.phone = req[c].phone /\ r.crossed = req[c].crossed
            <4>1. "delete" \in Pc /\ otp[req[c].phone].n \in 0 .. MaxOtps
                BY <3>2 DEF Pc
            <4>2. r \in Call
                BY <1>0, <4>1, Assigned
            <4>. QED
                BY <1>0, <4>2 DEF Call
        <3>4. Become(c, r)
            BY <1>1, <2>1 DEF SelectOTP, Checked
        <3>. HIDE DEF r
        <3>. QED
            BY <1>0, <2>1, <3>3, <3>4, Became, BecameCall DEF Moved
    <2>2. CASE ~Matches(c)
        BY <1>0, <1>1, <2>2, Answered DEF SelectOTP, Moved
    <2>. QED
        BY <2>1, <2>2
<1>2. ASSUME DeleteOTP(c) PROVE Moved(c, {"fetch"}) /\ req' \in [Request -> Call]
    <2>. DEFINE r == [req[c] EXCEPT !.pc = "fetch", !.n = 0]
    <2>1. /\ r \in Call /\ r.pc = "fetch"
          /\ r.kind = req[c].kind /\ r.phone = req[c].phone /\ r.crossed = req[c].crossed
        <3>1. "fetch" \in Pc /\ 0 \in 0 .. MaxOtps
            BY AccountsAssumption DEF Pc
        <3>2. r \in Call
            BY <1>0, <3>1, Assigned
        <3>. QED
            BY <1>0, <3>2 DEF Call
    <2>2. Become(c, r)
        BY <1>2 DEF DeleteOTP
    <2>. HIDE DEF r
    <2>. QED
        BY <1>0, <2>1, <2>2, Became, BecameCall DEF Moved
<1>3. ASSUME FetchUser(c) PROVE Moved(c, {"mark", "create"}) /\ req' \in [Request -> Call]
    <2>1. Go(c, "mark") \/ Go(c, "create") \/ Answer(c)
        BY <1>3 DEF FetchUser
    <2>. QED
        BY <1>0, <2>1, Went, Answered DEF Moved, Pc
<1>4. ASSUME InsertUser(c) PROVE Moved(c, {"wallet"}) /\ req' \in [Request -> Call]
    <2>1. Go(c, "wallet") \/ Answer(c)
        BY <1>4 DEF InsertUser
    <2>. QED
        BY <1>0, <2>1, Went, Answered DEF Moved, Pc
<1>5. ASSUME InsertWallet(c) PROVE Moved(c, {"mark", "mint"}) /\ req' \in [Request -> Call]
    <2>1. CASE req[c].kind = "create"
        BY <1>0, <1>5, <2>1, Answered DEF InsertWallet, Moved
    <2>2. CASE req[c].kind # "create"
        <3>. DEFINE pc == IF req[c].kind = "login" THEN "mark" ELSE "mint"
                    r == [req[c] EXCEPT !.pc = pc, !.tag = Null]
        <3>0. pc \in {"mark", "mint"} /\ pc \in Pc
            BY DEF Pc
        <3>1. /\ r \in Call /\ r.pc \in {"mark", "mint"}
              /\ r.kind = req[c].kind /\ r.phone = req[c].phone /\ r.crossed = req[c].crossed
            <4>. HIDE DEF pc
            <4>1. r \in Call
                BY <1>0, <3>0, Assigned
            <4>. QED
                BY <1>0, <3>0, <4>1 DEF Call
        <3>2. Become(c, r)
            BY <1>5, <2>2 DEF InsertWallet
        <3>. HIDE DEF r
        <3>. QED
            BY <1>0, <3>1, <3>2, Became, BecameCall DEF Moved
    <2>. QED
        BY <2>1, <2>2
<1>6. ASSUME MarkPhoneVerified(c) PROVE Moved(c, {"mint"}) /\ req' \in [Request -> Call]
    BY <1>0, <1>6, Went DEF MarkPhoneVerified, Pc
<1>7. ASSUME Mint(c)
      PROVE  /\ Moved(c, {"store"}) /\ req' \in [Request -> Call]
             /\ req'[c].pc = "store" => req'[c].token \in Token
    <2>. DEFINE r == [req[c] EXCEPT !.pc = "store", !.token = now]
    <2>1. /\ r \in Call /\ r.pc = "store" /\ r.token \in Token
          /\ r.kind = req[c].kind /\ r.phone = req[c].phone /\ r.crossed = req[c].crossed
        BY <1>0 DEF Call, Pc, Token, TypeOK
    <2>2. Become(c, r) \/ Answer(c)
        BY <1>7 DEF Mint
    <2>3. CASE Answer(c)
        <3>1. Others(c) /\ req'[c] = Idle /\ req' \in [Request -> Call]
            BY <1>0, <2>3, Answered
        <3>2. Idle.pc # "store"
            BY DEF Idle
        <3>. QED
            BY <3>1, <3>2 DEF Moved
    <2>. HIDE DEF r
    <2>4. CASE Become(c, r)
        BY <1>0, <2>1, <2>4, Became, BecameCall DEF Moved
    <2>. QED
        BY <2>2, <2>3, <2>4
<1>8. ASSUME SetIDTag(c)
      PROVE  Moved(c, {"lookup"}) /\ req' \in [Request -> Call] /\ req'[c].tag = req[c].tag
    BY <1>0, <1>8, Went DEF SetIDTag, Pc
<1>9. ASSUME GetAuthorization(c)
      PROVE  /\ Moved(c, {"dispatch", "authorise"}) /\ req' \in [Request -> Call]
             /\ req'[c].tag = req[c].tag
    <2>1. Go(c, "dispatch") \/ Go(c, "authorise")
        BY <1>9 DEF GetAuthorization
    <2>. QED
        BY <1>0, <2>1, Went DEF Moved, Pc
<1>10. ASSUME CreateAuthorization(c)
       PROVE  Moved(c, {"dispatch"}) /\ req' \in [Request -> Call] /\ req'[c].tag = req[c].tag
    BY <1>0, <1>10, Went DEF CreateAuthorization, Pc
<1>. QED
    BY <1>1, <1>2, <1>3, <1>4, <1>5, <1>6, <1>7, <1>8, <1>9, <1>10

\* The last steps of a request.
LEMMA Ends ==
    ASSUME IInv, NEW c \in Request
    PROVE  /\ SetAuthToken(c) \/ StartTransaction(c) \/ Fail(c) =>
                Others(c) /\ req'[c] = Idle /\ req' \in [Request -> Call]
           /\ ClearAuthToken(c) =>
                /\ req'[c] = Idle /\ req' \in [Request -> Call]
                /\ \A d \in Request : d # c =>
                        IF req[d].pc \in Passed /\ req[d].phone = req[c].phone
                        THEN /\ req'[d].crossed /\ req'[d].pc = req[d].pc
                             /\ req'[d].kind = req[d].kind /\ req'[d].phone = req[d].phone
                             /\ req'[d].token = req[d].token /\ req'[d].n = req[d].n
                        ELSE req'[d] = req[d]
<1>0. TypeOK /\ Idle \in Call
    BY IdleIsCall DEF IInv
<1>1. ASSUME SetAuthToken(c) \/ StartTransaction(c) \/ Fail(c)
      PROVE  Others(c) /\ req'[c] = Idle /\ req' \in [Request -> Call]
    BY <1>0, <1>1, Answered DEF SetAuthToken, StartTransaction, Fail
<1>2. ASSUME ClearAuthToken(c)
      PROVE  /\ req'[c] = Idle /\ req' \in [Request -> Call]
             /\ \A d \in Request : d # c =>
                    IF req[d].pc \in Passed /\ req[d].phone = req[c].phone
                    THEN /\ req'[d].crossed /\ req'[d].pc = req[d].pc
                         /\ req'[d].kind = req[d].kind /\ req'[d].phone = req[d].phone
                         /\ req'[d].token = req[d].token /\ req'[d].n = req[d].n
                    ELSE req'[d] = req[d]
    <2>. DEFINE p == req[c].phone
    <2>1. \A d \in Request : /\ req[d] \in Call
                             /\ [req[d] EXCEPT !.crossed = TRUE] \in Call
        BY <1>0 DEF TypeOK, Call
    <2>2. Crossed(p) \in [Request -> Call]
        BY <2>1 DEF Crossed
    <2>3. req' = [Crossed(p) EXCEPT ![c] = Idle]
        BY <1>2 DEF ClearAuthToken
    <2>4. req' \in [Request -> Call] /\ req'[c] = Idle
        BY <1>0, <2>2, <2>3
    <2>5. ASSUME NEW d \in Request, d # c
          PROVE  req'[d] = IF req[d].phone = p /\ req[d].pc \in Passed
                           THEN [req[d] EXCEPT !.crossed = TRUE] ELSE req[d]
        BY <2>3, <2>5 DEF Crossed
    <2>. QED
        BY <2>1, <2>4, <2>5 DEF Call
<1>. QED
    BY <1>1, <1>2

\* What the steps write in the row of a user.
LEMMA UserSteps ==
    ASSUME IInv, NEW c \in Request, NEW q \in Phone
    PROVE  /\ MarkPhoneVerified(c) =>
                /\ user'[q].exists = user[q].exists /\ user'[q].tag = user[q].tag
                /\ user'[q].token = user[q].token
           /\ SetAuthToken(c) =>
                /\ user'[q].exists = user[q].exists /\ user'[q].tag = user[q].tag
                /\ user'[q].token = IF q = req[c].phone THEN req[c].token ELSE user[q].token
           /\ ClearAuthToken(c) =>
                /\ user'[q].exists = user[q].exists /\ user'[q].tag = user[q].tag
                /\ user'[q].token = IF q = req[c].phone THEN Null ELSE user[q].token
           /\ SetIDTag(c) =>
                /\ user'[q].exists = user[q].exists /\ user'[q].token = user[q].token
                /\ user'[q].tag = IF q = req[c].phone THEN req[c].tag ELSE user[q].tag
           /\ InsertWallet(c) =>
                IF q = req[c].phone
                THEN user'[q].exists /\ user'[q].token = Null /\ user'[q].tag = req[c].tag
                ELSE user'[q] = user[q]
<1>1. user[q] \in [exists : BOOLEAN, verified : BOOLEAN,
                   token : Token \cup {Null}, tag : Tag \cup {Null}]
    BY DEF IInv, TypeOK
<1>2. MarkPhoneVerified(c) =>
        user'[q] = IF q = req[c].phone THEN [user[q] EXCEPT !.verified = TRUE] ELSE user[q]
    BY DEF IInv, TypeOK, MarkPhoneVerified
<1>3. SetAuthToken(c) =>
        user'[q] = IF q = req[c].phone THEN [user[q] EXCEPT !.token = req[c].token] ELSE user[q]
    BY DEF IInv, TypeOK, SetAuthToken
<1>4. ClearAuthToken(c) =>
        user'[q] = IF q = req[c].phone THEN [user[q] EXCEPT !.token = Null] ELSE user[q]
    BY DEF IInv, TypeOK, ClearAuthToken
<1>5. SetIDTag(c) =>
        user'[q] = IF q = req[c].phone THEN [user[q] EXCEPT !.tag = req[c].tag] ELSE user[q]
    BY DEF IInv, TypeOK, SetIDTag
<1>6. InsertWallet(c) => user'[q] = IF q = req[c].phone THEN Fresh(c) ELSE user[q]
    BY DEF IInv, TypeOK, InsertWallet
<1>7. Fresh(c).exists /\ Fresh(c).token = Null /\ Fresh(c).tag = req[c].tag
    BY DEF Fresh, NoUser
<1>. QED
    BY <1>1, <1>2, <1>3, <1>4, <1>5, <1>6, <1>7

-----------------------------------------------------------------------------
(* The parts of the invariant, one after the other.                        *)

\* Every variable keeps its type.
LEMMA KeepsTypes == IInv /\ [Next]_vars => TypeOK'
<1>. SUFFICES ASSUME IInv, [Next]_vars PROVE TypeOK'
    OBVIOUS
<1>. USE AccountsAssumption DEF IInv
<1>1. CASE Tick
    BY <1>1 DEF TypeOK, Tick, otps, users, tags
<1>2. ASSUME NEW p \in Phone, NEW k \in Code, SendOTP(p, k) PROVE TypeOK'
    BY <1>2 DEF TypeOK, SendOTP, users, tags
<1>3. ASSUME NEW c \in Request, NEW p \in Phone,
             \/ \E k \in Code : Login(c, p, k)
             \/ \E kind \in {"register", "create"}, tag \in {Null, "given"} :
                    Register(c, p, kind, tag)
             \/ \E t \in 0 .. now : Refresh(c, p, t) \/ Logout(c, p, t)
             \/ StartCharging(c, p)
      PROVE  TypeOK'
    <2>1. req' \in [Request -> Call] /\ UNCHANGED <<now, otps, users, tags>>
        BY <1>3, Begins DEF Login, Register, Refresh, Logout, StartCharging
    <2>. QED
        BY <2>1 DEF TypeOK, otps, users, tags
<1>4. ASSUME NEW c \in Request, SelectOTP(c) PROVE TypeOK'
    <2>1. req' \in [Request -> Call]
        BY <1>4, Moves
    <2>2. otpLock' \in [Phone -> Request \cup {Null}]
        <3>1. \/ otpLock' = [otpLock EXCEPT ![req[c].phone] = c]
              \/ UNCHANGED otpLock
            BY <1>4 DEF SelectOTP
        <3>. QED
            BY <3>1 DEF TypeOK
    <2>3. UNCHANGED <<now, otp, issued, logins, users, tags>>
        BY <1>4 DEF SelectOTP
    <2>. QED
        BY <2>1, <2>2, <2>3 DEF TypeOK, users, tags
<1>5. ASSUME NEW c \in Request, InsertUser(c) PROVE TypeOK'
    <2>1. req' \in [Request -> Call]
        BY <1>5, Moves
    <2>2. newUser' \in [Phone -> Request \cup {Null}]
        BY <1>5 DEF TypeOK, InsertUser
    <2>3. UNCHANGED <<now, otps, user, wallets, out, tags>>
        BY <1>5 DEF InsertUser
    <2>. QED
        BY <2>1, <2>2, <2>3 DEF TypeOK, otps, tags
<1>6. ASSUME NEW c \in Request, DeleteOTP(c) PROVE TypeOK'
    <2>1. req' \in [Request -> Call]
        BY <1>6, Moves
    <2>2. otpLock' \in [Phone -> Request \cup {Null}]
        BY <1>6 DEF TypeOK, DeleteOTP, Unlocked
    <2>3. otp' = [otp EXCEPT ![req[c].phone] = Null] /\ logins' \in [1 .. MaxOtps -> Nat]
        <3>0. logins \in [1 .. MaxOtps -> Nat] /\ req[c].n \in 1 .. MaxOtps
            BY <1>6 DEF TypeOK, DeleteOTP, CarriesOK, Carries
        <3>1. logins[req[c].n] + 1 \in Nat
            BY <3>0
        <3>2. logins' = [logins EXCEPT ![req[c].n] = logins[req[c].n] + 1]
            BY <1>6 DEF DeleteOTP
        <3>3. logins' \in [1 .. MaxOtps -> Nat]
            BY <3>0, <3>1, <3>2
        <3>. QED
            BY <1>6, <3>3 DEF DeleteOTP
    <2>4. UNCHANGED <<now, issued, users, tags>>
        BY <1>6 DEF DeleteOTP
    <2>. QED
        BY <2>1, <2>2, <2>3, <2>4 DEF TypeOK, users, tags
<1>7. ASSUME NEW c \in Request, FetchUser(c) PROVE TypeOK'
    <2>1. req' \in [Request -> Call]
        BY <1>7, Moves
    <2>. QED
        BY <1>7, <2>1 DEF TypeOK, FetchUser, otps, users, tags
<1>8. ASSUME NEW c \in Request, InsertWallet(c) PROVE TypeOK'
    <2>1. req' \in [Request -> Call] /\ req[c].phone \in Phone
        BY <1>8, Moves DEF CarriesOK, Carries, InsertWallet, At
    <2>2. req[c].tag \in Tag \cup {Null}
        BY DEF TypeOK, Call
    <2>. QED
        BY <1>8, <2>1, <2>2 DEF TypeOK, InsertWallet, Fresh, NoUser, Unlocked, otps, tags
<1>9. ASSUME NEW c \in Request, MarkPhoneVerified(c) PROVE TypeOK'
    <2>1. req' \in [Request -> Call]
        BY <1>9, Moves
    <2>. QED
        BY <1>9, <2>1 DEF TypeOK, MarkPhoneVerified, otps, tags
<1>10. ASSUME NEW c \in Request, Mint(c) PROVE TypeOK'
    <2>1. req' \in [Request -> Call]
        BY <1>10, Moves
    <2>. QED
        BY <1>10, <2>1 DEF TypeOK, Mint, otps, users, tags
<1>11. ASSUME NEW c \in Request, SetAuthToken(c) PROVE TypeOK'
    <2>1. req' \in [Request -> Call]
        BY <1>11, Ends
    <2>2. req[c].token \in Token \cup {Null} /\ req[c].crossed \in BOOLEAN
        BY DEF TypeOK, Call
    <2>. QED
        BY <1>11, <2>1, <2>2 DEF TypeOK, SetAuthToken, otps, tags
<1>12. ASSUME NEW c \in Request, ClearAuthToken(c) PROVE TypeOK'
    <2>1. req' \in [Request -> Call]
        BY <1>12, Ends
    <2>. QED
        BY <1>12, <2>1 DEF TypeOK, ClearAuthToken, otps, tags
<1>13. ASSUME NEW c \in Request, SetIDTag(c) PROVE TypeOK'
    <2>1. req' \in [Request -> Call]
        BY <1>13, Moves
    <2>2. req[c].tag \in Tag \cup {Null}
        BY DEF TypeOK, Call
    <2>. QED
        BY <1>13, <2>1, <2>2 DEF TypeOK, SetIDTag, otps, tags
<1>14. ASSUME NEW c \in Request, GetAuthorization(c) PROVE TypeOK'
    <2>1. req' \in [Request -> Call]
        BY <1>14, Moves
    <2>. QED
        BY <1>14, <2>1 DEF TypeOK, GetAuthorization, otps, users, tags
<1>15. ASSUME NEW c \in Request, CreateAuthorization(c) PROVE TypeOK'
    <2>1. req' \in [Request -> Call]
        BY <1>15, Moves
    <2>2. TagOf(c) \in [phone : Phone, tag : Tag]
        BY <1>15 DEF CarriesOK, Carries, CreateAuthorization, At, TagOf
    <2>. QED
        BY <1>15, <2>1, <2>2 DEF TypeOK, CreateAuthorization, otps, users
<1>16. ASSUME NEW c \in Request, StartTransaction(c) PROVE TypeOK'
    <2>1. req' \in [Request -> Call]
        BY <1>16, Ends
    <2>2. TagOf(c) \in [phone : Phone, tag : Tag]
        BY <1>16 DEF CarriesOK, Carries, StartTransaction, At, TagOf
    <2>. QED
        BY <1>16, <2>1, <2>2 DEF TypeOK, StartTransaction, otps, users
<1>17. ASSUME NEW c \in Request, Fail(c) PROVE TypeOK'
    <2>1. req' \in [Request -> Call]
        BY <1>17, Ends
    <2>. QED
        BY <1>17, <2>1 DEF TypeOK, Fail, Unlocked, tags
<1>18. CASE UNCHANGED vars
    BY <1>18 DEF TypeOK, vars
<1>. QED
    BY <1>1, <1>2, <1>3, <1>4, <1>5, <1>6, <1>7, <1>8, <1>9, <1>10, <1>11, <1>12, <1>13,
       <1>14, <1>15, <1>16, <1>17, <1>18 DEF Next, LockStep, FreeStep

LEMMA CarriesKept ==
    ASSUME CarriesOK, NEW c \in Request, Others(c), Carries(c)'
    PROVE  CarriesOK'
BY DEF CarriesOK, Carries, Others, At

\* Every request carries what its next statement needs.
LEMMA KeepsCarries == IInv /\ [Next]_vars => CarriesOK'
<1>. SUFFICES ASSUME IInv, [Next]_vars PROVE CarriesOK'
    OBVIOUS
<1>. USE DEF IInv
<1>0. Idle.pc = "idle"
    BY DEF Idle
<1>1. CASE UNCHANGED req
    BY <1>1 DEF CarriesOK, Carries, At
<1>2. ASSUME NEW c \in Request, NEW p \in Phone, NEW k \in Code, Login(c, p, k)
      PROVE  CarriesOK'
    BY <1>2, Begins, CarriesKept DEF Carries, At
<1>3. ASSUME NEW c \in Request, NEW p \in Phone, NEW kind \in {"register", "create"},
             NEW tag \in {Null, "given"}, Register(c, p, kind, tag)
      PROVE  CarriesOK'
    BY <1>3, Begins, CarriesKept DEF Carries, At
<1>4. ASSUME NEW c \in Request, NEW p \in Phone, NEW t \in 0 .. now,
             Refresh(c, p, t) \/ Logout(c, p, t)
      PROVE  CarriesOK'
    BY <1>4, Begins, CarriesKept DEF Carries, At
<1>5. ASSUME NEW c \in Request, NEW p \in Phone, StartCharging(c, p)
      PROVE  CarriesOK'
    <2>1. user[p].tag \in Tag \cup {Null}
        BY DEF TypeOK
    <2>. QED
        BY <1>5, <2>1, Begins, CarriesKept DEF Carries, At, Tag
<1>6. ASSUME NEW c \in Request, SelectOTP(c) PROVE CarriesOK'
    <2>1. Moved(c, {"delete"}) /\ (Matches(c) => req'[c].n = otp[req[c].phone].n)
            /\ (~Matches(c) => req'[c] = Idle)
        BY <1>6, Moves
    <2>2. Carries(c) /\ req[c].phone \in Phone
        BY <1>6 DEF CarriesOK, Carries, SelectOTP, At
    <2>3. Matches(c) => otp[req[c].phone].n \in 1 .. MaxOtps
        BY <2>2 DEF Matches, TypeOK
    <2>4. req[c].pc = "select"
        BY <1>6 DEF SelectOTP, At
    <2>. QED
        BY <1>0, <2>1, <2>2, <2>3, <2>4, CarriesKept DEF Moved, Carries, At
<1>7. ASSUME NEW c \in Request,
             DeleteOTP(c) \/ FetchUser(c) \/ InsertUser(c) \/ InsertWallet(c)
                \/ MarkPhoneVerified(c)
      PROVE  CarriesOK'
    <2>1. Moved(c, {"fetch", "mark", "create", "wallet", "mint"})
        BY <1>7, Moves DEF Moved
    <2>2. Carries(c) /\ req[c].pc \in {"delete", "fetch", "create", "wallet", "mark"}
        BY <1>7 DEF CarriesOK, DeleteOTP, FetchUser, InsertUser, InsertWallet,
                    MarkPhoneVerified, At
    <2>. QED
        BY <1>0, <2>1, <2>2, CarriesKept DEF Moved, Carries, At
<1>8. ASSUME NEW c \in Request, Mint(c) PROVE CarriesOK'
    <2>1. Moved(c, {"store"}) /\ (req'[c].pc = "store" => req'[c].token \in Token)
        BY <1>8, Moves
    <2>2. Carries(c) /\ req[c].pc = "mint"
        BY <1>8 DEF CarriesOK, Mint, At
    <2>. QED
        BY <1>0, <2>1, <2>2, CarriesKept DEF Moved, Carries, At
<1>9. ASSUME NEW c \in Request, SetIDTag(c) \/ GetAuthorization(c) \/ CreateAuthorization(c)
      PROVE  CarriesOK'
    <2>1. Moved(c, {"lookup", "dispatch", "authorise"}) /\ req'[c].tag = req[c].tag
        BY <1>9, Moves DEF Moved
    <2>2. Carries(c) /\ req[c].pc \in {"settag", "lookup", "authorise"}
        BY <1>9 DEF CarriesOK, SetIDTag, GetAuthorization, CreateAuthorization, At
    <2>. QED
        BY <1>0, <2>1, <2>2, CarriesKept DEF Moved, Carries, At
<1>10. ASSUME NEW c \in Request, SetAuthToken(c) \/ StartTransaction(c) \/ Fail(c)
       PROVE  CarriesOK'
    BY <1>0, <1>10, Ends, CarriesKept DEF Carries, At
<1>11. ASSUME NEW c \in Request, ClearAuthToken(c) PROVE CarriesOK'
    <2>1. req'[c].pc = "idle"
        BY <1>0, <1>11, Ends
    <2>2. ASSUME NEW d \in Request, d # c
          PROVE  Carries(d)'
        <3>1. \/ req'[d] = req[d]
              \/ /\ req[d].pc \in Passed /\ req'[d].pc = req[d].pc
                 /\ req'[d].kind = req[d].kind /\ req'[d].phone = req[d].phone
                 /\ req'[d].token = req[d].token
            BY <1>11, <2>2, Ends
        <3>. QED
            BY <3>1 DEF CarriesOK, Carries, At, Passed
    <2>. QED
        BY <2>1, <2>2 DEF CarriesOK, Carries, At
<1>. QED
    BY <1>1, <1>2, <1>3, <1>4, <1>5, <1>6, <1>7, <1>8, <1>9, <1>10, <1>11
    DEF Next, LockStep, FreeStep, Tick, SendOTP, vars

LEMMA CodesKept ==
    ASSUME CodesOK, UNCHANGED otps, NEW c \in Request, Others(c), req'[c].pc # "delete"
    PROVE  CodesOK'
BY DEF CodesOK, Others, At, otps

\* A code that was sent lets one request in.
LEMMA KeepsCodes == IInv /\ [Next]_vars => CodesOK'
<1>. SUFFICES ASSUME IInv, [Next]_vars PROVE CodesOK'
    OBVIOUS
<1>. USE DEF IInv
<1>0. Idle.pc = "idle"
    BY DEF Idle
<1>1. CASE UNCHANGED <<otps, req>>
    BY <1>1 DEF CodesOK, At, otps
<1>2. ASSUME NEW p \in Phone, NEW k \in Code, SendOTP(p, k) PROVE CodesOK'
    BY <1>2, AccountsAssumption DEF CodesOK, SendOTP, TypeOK, CarriesOK, Carries, At
<1>3. ASSUME NEW c \in Request, NEW p \in Phone,
             \/ \E k \in Code : Login(c, p, k)
             \/ \E kind \in {"register", "create"}, tag \in {Null, "given"} :
                    Register(c, p, kind, tag)
             \/ \E t \in 0 .. now : Refresh(c, p, t) \/ Logout(c, p, t)
             \/ StartCharging(c, p)
      PROVE  CodesOK'
    <2>1. Others(c) /\ req'[c].pc # "delete"
        BY <1>3, Begins
    <2>2. UNCHANGED otps
        BY <1>3 DEF Login, Register, Refresh, Logout, StartCharging
    <2>. QED
        BY <2>1, <2>2, CodesKept
<1>4. ASSUME NEW c \in Request, SelectOTP(c) PROVE CodesOK'
    <2>1. Moved(c, {"delete"}) /\ (Matches(c) => req'[c].n = otp[req[c].phone].n)
            /\ (~Matches(c) => req'[c] = Idle)
        BY <1>4, Moves
    <2>2. CASE ~Matches(c)
        <3>1. Others(c) /\ req'[c].pc # "delete"
            BY <1>0, <2>1, <2>2 DEF Moved
        <3>2. UNCHANGED otps
            BY <1>4, <2>2 DEF SelectOTP, otps
        <3>. QED
            BY <3>1, <3>2, CodesKept
    <2>3. CASE Matches(c)
        <3>. DEFINE p == req[c].phone
        <3>1. p \in Phone /\ otp[p] # Null
            BY <1>4, <2>3 DEF CarriesOK, Carries, SelectOTP, Matches, At
        <3>2. /\ UNCHANGED <<otp, issued, logins>> /\ otpLock[p] = Null
              /\ otpLock' = [otpLock EXCEPT ![p] = c]
            BY <1>4, <2>3 DEF SelectOTP
        <3>3. \A d \in Request : At(d, "delete") =>
                req[d].phone \in Phone /\ req[d].phone # p
            BY <3>2, AccountsAssumption DEF CodesOK, CarriesOK, Carries, At
        <3>4. ASSUME NEW d \in Request, At(d, "delete")'
              PROVE  /\ otpLock'[req'[d].phone] = d
                     /\ otp[req'[d].phone] # Null /\ otp[req'[d].phone].n = req'[d].n
            <4>1. CASE d = c
                <5>1. req'[c] # Idle
                    BY <1>0, <3>4, <4>1 DEF At
                <5>2. req'[c].phone = p /\ req'[c].n = otp[p].n
                    BY <2>1, <2>3, <5>1 DEF Moved
                <5>. QED
                    BY <3>1, <3>2, <4>1, <5>2 DEF TypeOK
            <4>2. CASE d # c
                BY <2>1, <3>2, <3>3, <3>4, <4>2 DEF Moved, Others, CodesOK, TypeOK, At
            <4>. QED
                BY <4>1, <4>2
        <3>. QED
            BY <3>2, <3>4 DEF CodesOK
    <2>. QED
        BY <2>2, <2>3
<1>5. ASSUME NEW c \in Request, DeleteOTP(c) PROVE CodesOK'
    <2>. DEFINE p == req[c].phone
                n == req[c].n
    <2>1. p \in Phone /\ otpLock[p] = c /\ otp[p] # Null /\ otp[p].n = n
            /\ n \in 1 .. MaxOtps /\ logins[n] = 0 /\ n <= issued
        BY <1>5 DEF CarriesOK, Carries, CodesOK, DeleteOTP, At, TypeOK
    <2>2. /\ otp' = [otp EXCEPT ![p] = Null] /\ issued' = issued
          /\ logins' = [logins EXCEPT ![n] = @ + 1]
          /\ \A q \in Phone : otpLock'[q] = IF otpLock[q] = c THEN Null ELSE otpLock[q]
        BY <1>5 DEF DeleteOTP, Unlocked
    <2>3. Others(c) /\ req'[c].pc # "delete"
        BY <1>0, <1>5, Moves DEF Moved
    <2>4. \A q \in Phone : otp'[q] # Null =>
                q # p /\ otp'[q] = otp[q] /\ otp[q].n # n /\ otp[q].n \in 1 .. issued
        BY <2>1, <2>2 DEF CodesOK, TypeOK
    <2>5. \A m \in 1 .. MaxOtps : logins'[m] = IF m = n THEN 1 ELSE logins[m]
        BY <2>1, <2>2 DEF TypeOK
    <2>6. \A d \in Request : At(d, "delete")' =>
            /\ req'[d] = req[d] /\ d # c /\ req[d].phone \in Phone /\ req[d].phone # p
            /\ otpLock[req[d].phone] = d
            /\ otp[req[d].phone] # Null /\ otp[req[d].phone].n = req[d].n
        BY <2>1, <2>3 DEF Others, CodesOK, CarriesOK, Carries, At
    <2>7. \A q \in Phone : otp'[q] # Null => otp'[q].n \in 1 .. issued' /\ logins'[otp'[q].n] = 0
        BY <2>2, <2>4, <2>5 DEF CodesOK, TypeOK
    <2>8. \A m \in 1 .. MaxOtps : logins'[m] <= 1 /\ (m > issued' => logins'[m] = 0)
        BY <2>1, <2>2, <2>5 DEF CodesOK, TypeOK
    <2>9. \A d \in Request : At(d, "delete")' =>
            /\ otpLock'[req'[d].phone] = d
            /\ otp'[req'[d].phone] # Null /\ otp'[req'[d].phone].n = req'[d].n
        BY <2>2, <2>6 DEF TypeOK
    <2>10. \A q, r \in Phone : otp'[q] # Null /\ otp'[r] # Null /\ otp'[q].n = otp'[r].n => q = r
        BY <2>4 DEF CodesOK
    <2>. QED
        BY <2>7, <2>8, <2>9, <2>10 DEF CodesOK
<1>6. ASSUME NEW c \in Request,
             \/ FetchUser(c) \/ InsertUser(c) \/ InsertWallet(c) \/ MarkPhoneVerified(c)
             \/ Mint(c) \/ SetAuthToken(c) \/ SetIDTag(c) \/ GetAuthorization(c)
             \/ CreateAuthorization(c) \/ StartTransaction(c)
      PROVE  CodesOK'
    <2>1. Others(c) /\ req'[c].pc # "delete"
        BY <1>0, <1>6, Moves, Ends DEF Moved
    <2>2. UNCHANGED otps
        BY <1>6 DEF FetchUser, InsertUser, InsertWallet, MarkPhoneVerified, Mint, SetAuthToken,
                    SetIDTag, GetAuthorization, CreateAuthorization, StartTransaction
    <2>. QED
        BY <2>1, <2>2, CodesKept
<1>7. ASSUME NEW c \in Request, ClearAuthToken(c) PROVE CodesOK'
    <2>1. UNCHANGED otps
        BY <1>7 DEF ClearAuthToken
    <2>. QED
        BY <1>0, <1>7, <2>1, Ends DEF CodesOK, At, otps
<1>8. ASSUME NEW c \in Request, Fail(c) PROVE CodesOK'
    <2>1. Others(c) /\ req'[c].pc = "idle"
        BY <1>0, <1>8, Ends
    <2>2. /\ UNCHANGED <<otp, issued, logins>>
          /\ \A q \in Phone : otpLock'[q] = IF otpLock[q] = c THEN Null ELSE otpLock[q]
        BY <1>8 DEF Fail, Unlocked
    <2>. QED
        BY <2>1, <2>2 DEF CodesOK, CarriesOK, Carries, Others, At
<1>. QED
    BY <1>1, <1>2, <1>3, <1>4, <1>5, <1>6, <1>7, <1>8
    DEF Next, LockStep, FreeStep, Tick, vars, otps

LEMMA UsersKept ==
    ASSUME UsersOK, CarriesOK, NEW c \in Request, Others(c), UNCHANGED <<wallets, newUser>>,
           \A p \in Phone : /\ user'[p].exists = user[p].exists
                            /\ user'[p].token # Null => user[p].exists,
           req'[c].pc # "wallet",
           Known(c)' => req'[c].phone \in Phone /\ user[req'[c].phone].exists
    PROVE  UsersOK'
BY DEF UsersOK, UsersHaveWallets, CarriesOK, Carries, Others, At, Known

\* A user is inserted once, with a wallet.
LEMMA KeepsUsers == IInv /\ [Next]_vars => UsersOK'
<1>. SUFFICES ASSUME IInv, [Next]_vars PROVE UsersOK'
    OBVIOUS
<1>. USE DEF IInv
<1>0. /\ Idle.pc = "idle"
      /\ \A p \in Phone : user[p].token # Null => user[p].exists
    BY DEF Idle, UsersOK
<1>1. CASE UNCHANGED <<users, req>>
    BY <1>1 DEF UsersOK, UsersHaveWallets, At, Known, users
<1>2. ASSUME NEW c \in Request, NEW p \in Phone,
             \/ \E k \in Code : Login(c, p, k)
             \/ \E kind \in {"register", "create"}, tag \in {Null, "given"} :
                    Register(c, p, kind, tag)
             \/ \E t \in 0 .. now : Refresh(c, p, t) \/ Logout(c, p, t)
             \/ StartCharging(c, p)
      PROVE  UsersOK'
    <2>1. Others(c) /\ req'[c].pc # "wallet" /\ req'[c].phone = p
        BY <1>2, Begins
    <2>2. UNCHANGED users
        BY <1>2 DEF Login, Register, Refresh, Logout, StartCharging
    <2>3. Known(c)' => user[p].exists
        <3>1. \A t \in 0 .. now : Refresh(c, p, t) \/ Logout(c, p, t) => user[p].exists
            BY <1>0, AccountsAssumption DEF Refresh, Logout, Accepts, TypeOK
        <3>2. StartCharging(c, p) => user[p].exists
            BY DEF StartCharging, Readable
        <3>. QED
            BY <1>2, <3>1, <3>2, Begins DEF Known, Passed, At
    <2>. QED
        BY <1>0, <2>1, <2>2, <2>3, UsersKept DEF users
<1>3. ASSUME NEW c \in Request,
             \/ SelectOTP(c) \/ DeleteOTP(c) \/ FetchUser(c) \/ Mint(c)
             \/ GetAuthorization(c) \/ CreateAuthorization(c) \/ StartTransaction(c)
      PROVE  UsersOK'
    <2>1. /\ Others(c) /\ req'[c].pc # "wallet"
          /\ req'[c] = Idle \/ (req'[c].kind = req[c].kind /\ req'[c].phone = req[c].phone)
        BY <1>0, <1>3, Moves, Ends DEF Moved
    <2>2. UNCHANGED users /\ ~At(c, "idle")
        BY <1>3 DEF SelectOTP, DeleteOTP, FetchUser, Mint, GetAuthorization,
                    CreateAuthorization, StartTransaction, At
    <2>3. req[c].phone \in Phone /\ (Known(c) => user[req[c].phone].exists)
        BY <2>2 DEF CarriesOK, Carries, UsersOK
    <2>4. req'[c].pc \in Passed => user[req[c].phone].exists
        <3>1. CASE FetchUser(c)
            <4>1. (Go(c, "mark") /\ user[req[c].phone].exists) \/ Go(c, "create") \/ Answer(c)
                BY <3>1 DEF FetchUser, Readable
            <4>. QED
                BY <1>0, <4>1, Went, Answered DEF Passed, Pc
        <3>2. CASE Mint(c)
            BY <2>3, <3>2 DEF Mint, Known, Passed, At
        <3>3. CASE SelectOTP(c) \/ DeleteOTP(c) \/ GetAuthorization(c)
                    \/ CreateAuthorization(c) \/ StartTransaction(c)
            BY <1>0, <3>3, Moves, Ends DEF Moved, Passed
        <3>. QED
            BY <1>3, <3>1, <3>2, <3>3
    <2>5. Known(c)' => req'[c].phone = req[c].phone /\ user[req[c].phone].exists
        BY <1>0, <2>1, <2>2, <2>3, <2>4 DEF Known, At
    <2>. QED
        BY <1>0, <2>1, <2>2, <2>3, <2>5, UsersKept DEF users
<1>4. ASSUME NEW c \in Request, MarkPhoneVerified(c) \/ SetAuthToken(c) \/ SetIDTag(c)
      PROVE  UsersOK'
    <2>1. /\ Others(c) /\ req'[c].pc # "wallet"
          /\ req'[c] = Idle \/ (req'[c].kind = req[c].kind /\ req'[c].phone = req[c].phone)
        BY <1>0, <1>4, Moves, Ends DEF Moved
    <2>2. UNCHANGED <<wallets, newUser>> /\ ~At(c, "idle")
        BY <1>4 DEF MarkPhoneVerified, SetAuthToken, SetIDTag, At
    <2>4. req[c].phone \in Phone /\ (Known(c) => user[req[c].phone].exists)
        BY <2>2 DEF CarriesOK, Carries, UsersOK
    <2>5. Known(c)
        BY <1>4, <2>2 DEF MarkPhoneVerified, SetAuthToken, SetIDTag, Known, Passed, At,
                          CarriesOK, Carries
    <2>3. \A p \in Phone : /\ user'[p].exists = user[p].exists
                           /\ user'[p].token # Null => user[p].exists
        BY <1>0, <1>4, <2>4, <2>5, UserSteps
    <2>6. Known(c)' => req'[c].phone = req[c].phone
        BY <1>0, <2>1 DEF Known, At
    <2>. QED
        BY <2>1, <2>2, <2>3, <2>4, <2>5, <2>6, UsersKept
<1>5. ASSUME NEW c \in Request, InsertUser(c) PROVE UsersOK'
    <2>. DEFINE p == req[c].phone
    <2>1. /\ p \in Phone /\ req[c].kind \notin {"start", "refresh", "logout"}
          /\ newUser[p] = Null
        BY <1>5 DEF CarriesOK, Carries, InsertUser, At
    <2>2. Moved(c, {"wallet"}) /\ UNCHANGED <<user, wallets>>
        BY <1>5, Moves DEF InsertUser
    <2>3. CASE user[p].exists
        <3>1. Answer(c) /\ UNCHANGED newUser
            BY <1>5, <2>3 DEF InsertUser
        <3>2. Others(c) /\ req'[c] = Idle
            BY <3>1, Answered
        <3>. QED
            BY <1>0, <2>2, <3>1, <3>2, UsersKept DEF Known, At
    <2>4. CASE ~user[p].exists
        <3>1. newUser' = [newUser EXCEPT ![p] = c]
            BY <1>5, <2>4 DEF InsertUser
        <3>2. \A d \in Request : At(d, "wallet") =>
                req[d].phone \in Phone /\ req[d].phone # p
            BY <2>1, AccountsAssumption DEF UsersOK, CarriesOK, Carries, At
        <3>3. ASSUME NEW d \in Request, At(d, "wallet")'
              PROVE  newUser'[req'[d].phone] = d /\ ~user'[req'[d].phone].exists
            <4>1. CASE d = c
                <5>1. req'[c].phone = p
                    BY <1>0, <2>2, <3>3, <4>1 DEF Moved, At
                <5>. QED
                    BY <2>1, <2>2, <2>4, <3>1, <4>1, <5>1 DEF TypeOK
            <4>2. CASE d # c
                BY <2>2, <3>1, <3>2, <3>3, <4>2 DEF Moved, Others, UsersOK, TypeOK, At
            <4>. QED
                BY <4>1, <4>2
        <3>4. ~Known(c)'
            BY <1>0, <2>1, <2>2 DEF Moved, Known, Passed, At
        <3>5. \A d \in Request : d # c => (Known(d)' <=> Known(d)) /\ req'[d] = req[d]
            BY <2>2 DEF Moved, Others, Known, At
        <3>6. \A d \in Request : Known(d)' => user'[req'[d].phone].exists
            BY <2>2, <3>4, <3>5 DEF UsersOK
        <3>. QED
            BY <1>0, <2>2, <3>3, <3>6 DEF UsersOK, UsersHaveWallets
    <2>. QED
        BY <2>3, <2>4
<1>6. ASSUME NEW c \in Request, InsertWallet(c) PROVE UsersOK'
    <2>. DEFINE p == req[c].phone
    <2>1. p \in Phone /\ newUser[p] = c /\ ~user[p].exists
        BY <1>6 DEF CarriesOK, Carries, UsersOK, InsertWallet, At
    <2>2. Moved(c, {"mark", "mint"})
        BY <1>6, Moves
    <2>3. /\ wallets' = wallets \cup {p}
          /\ \A q \in Phone : user'[q].exists <=> (q = p \/ user[q].exists)
          /\ \A q \in Phone : user'[q].token # Null => user[q].token # Null
          /\ \A q \in Phone : newUser'[q] = IF newUser[q] = c THEN Null ELSE newUser[q]
        BY <1>6, UserSteps DEF InsertWallet, Unlocked
    <2>4. \A d \in Request : At(d, "wallet")' =>
            /\ d # c /\ req'[d] = req[d] /\ req[d].phone \in Phone /\ req[d].phone # p
            /\ newUser[req[d].phone] = d /\ ~user[req[d].phone].exists
        BY <1>0, <2>1, <2>2 DEF Moved, Others, UsersOK, CarriesOK, Carries, At
    <2>5. \A d \in Request : Known(d)' =>
            req'[d].phone \in Phone /\ (req'[d].phone = p \/ user[req'[d].phone].exists)
        <3>1. Known(c)' => req'[c].phone = p
            BY <1>0, <2>2 DEF Moved, Known, At
        <3>2. \A d \in Request : d # c => (Known(d)' <=> Known(d)) /\ req'[d] = req[d]
            BY <2>2 DEF Moved, Others, Known, At
        <3>3. \A d \in Request : Known(d) => req[d].phone \in Phone
            BY DEF Known, CarriesOK, Carries, At
        <3>4. \A d \in Request : Known(d) => user[req[d].phone].exists
            BY DEF UsersOK
        <3>. QED
            BY <2>1, <3>1, <3>2, <3>3, <3>4
    <2>6. \A d \in Request : Known(d)' => user'[req'[d].phone].exists
        BY <2>3, <2>5
    <2>7. UsersHaveWallets' /\ \A q \in Phone : user'[q].token # Null => user'[q].exists
        BY <1>0, <2>3 DEF UsersOK, UsersHaveWallets
    <2>8. \A d \in Request : At(d, "wallet")' =>
            newUser'[req'[d].phone] = d /\ ~user'[req'[d].phone].exists
        BY <2>3, <2>4
    <2>. QED
        BY <2>6, <2>7, <2>8 DEF UsersOK
<1>7. ASSUME NEW c \in Request, ClearAuthToken(c) PROVE UsersOK'
    <2>1. /\ UNCHANGED <<wallets, newUser>>
          /\ \A p \in Phone : /\ user'[p].exists = user[p].exists
                              /\ user'[p].token \in {user[p].token, Null}
        BY <1>7, UserSteps DEF ClearAuthToken
    <2>2. req'[c].pc = "idle"
        BY <1>0, <1>7, Ends
    <2>3. \A d \in Request : d # c =>
            req'[d].pc = req[d].pc /\ req'[d].kind = req[d].kind /\ req'[d].phone = req[d].phone
        BY <1>7, Ends
    <2>4. \A d \in Request : Known(d)' => Known(d) /\ req'[d].phone = req[d].phone
                                                  /\ req[d].phone \in Phone
        BY <2>2, <2>3 DEF Known, CarriesOK, Carries, At
    <2>. QED
        BY <1>0, <2>1, <2>2, <2>3, <2>4 DEF UsersOK, UsersHaveWallets, CarriesOK, Carries, At
<1>8. ASSUME NEW c \in Request, Fail(c) PROVE UsersOK'
    <2>1. Others(c) /\ req'[c].pc = "idle"
        BY <1>0, <1>8, Ends
    <2>2. /\ UNCHANGED <<user, wallets>>
          /\ \A q \in Phone : newUser'[q] = IF newUser[q] = c THEN Null ELSE newUser[q]
        BY <1>8 DEF Fail, Unlocked
    <2>. QED
        BY <2>1, <2>2 DEF UsersOK, UsersHaveWallets, CarriesOK, Carries, Others, At, Known
<1>. QED
    BY <1>1, <1>2, <1>3, <1>4, <1>5, <1>6, <1>7, <1>8
    DEF Next, LockStep, FreeStep, Tick, SendOTP, vars, users

\* What the tags promise of a request that is charging.
LEMMA TagsKept ==
    ASSUME TagsOK, CarriesOK, NEW c \in Request, Others(c), UNCHANGED commands,
           authorised \subseteq authorised',
           \A p \in Phone : user'[p].tag = user[p].tag /\ (user[p].exists => user'[p].exists),
           \A m \in commands : m.phone \in Phone,
           req'[c].pc \in {"settag", "lookup", "authorise", "dispatch"} =>
                req'[c].phone \in Phone,
           req'[c].pc = "settag" =>
                req'[c].tag = "derived" /\ user[req'[c].phone].tag \in {Null, "derived"},
           req'[c].pc \in {"lookup", "authorise", "dispatch"} =>
                user[req'[c].phone].tag = req'[c].tag,
           req'[c].pc = "dispatch" =>
                [phone |-> req'[c].phone, tag |-> req'[c].tag] \in authorised'
    PROVE  TagsOK'
<1>1. \A d \in Request : At(d, "settag")' =>
            req'[d].tag = "derived" /\ user'[req'[d].phone].tag \in {Null, "derived"}
    BY DEF TagsOK, CarriesOK, Carries, Others, At
<1>2. \A d \in Request : req'[d].pc \in {"lookup", "authorise", "dispatch"} =>
            user'[req'[d].phone].tag = req'[d].tag
    BY DEF TagsOK, CarriesOK, Carries, Others, At
<1>3. \A d \in Request : At(d, "dispatch")' => TagOf(d)' \in authorised'
    BY DEF TagsOK, Others, At, TagOf
<1>4. (\A m \in commands : user[m.phone].exists)' /\ CommandsAreAuthorised'
    BY DEF TagsOK, CommandsAreAuthorised
<1>. QED
    BY <1>1, <1>2, <1>3, <1>4 DEF TagsOK

\* The tag of a command stays the one of its user, and authorised.
LEMMA KeepsTags == IInv /\ [Next]_vars => TagsOK'
<1>. SUFFICES ASSUME IInv, [Next]_vars PROVE TagsOK'
    OBVIOUS
<1>. USE DEF IInv
<1>0. Idle.pc = "idle" /\ \A m \in commands : m.phone \in Phone
    BY DEF Idle, TypeOK
<1>1. CASE UNCHANGED <<user, tags, req>>
    BY <1>1 DEF TagsOK, CommandsAreAuthorised, At, TagOf, tags
<1>2. ASSUME NEW c \in Request, NEW p \in Phone,
             \/ \E k \in Code : Login(c, p, k)
             \/ \E kind \in {"register", "create"}, tag \in {Null, "given"} :
                    Register(c, p, kind, tag)
             \/ \E t \in 0 .. now : Refresh(c, p, t) \/ Logout(c, p, t)
      PROVE  TagsOK'
    <2>1. /\ Others(c)
          /\ req'[c].pc \notin {"settag", "lookup", "authorise", "dispatch"}
        BY <1>2, Begins
    <2>2. UNCHANGED <<user, tags>>
        BY <1>2 DEF Login, Register, Refresh, Logout, users
    <2>. QED
        BY <1>0, <2>1, <2>2, TagsKept DEF tags
<1>3. ASSUME NEW c \in Request, NEW p \in Phone, StartCharging(c, p) PROVE TagsOK'
    <2>1. /\ Others(c) /\ req'[c].phone = p
          /\ IF user[p].tag = Null
             THEN req'[c].pc = "settag" /\ req'[c].tag = "derived"
             ELSE req'[c].pc = "lookup" /\ req'[c].tag = user[p].tag
        BY <1>3, Begins
    <2>2. UNCHANGED <<user, tags>>
        BY <1>3 DEF StartCharging, users
    <2>. QED
        BY <1>0, <2>1, <2>2, TagsKept DEF tags
<1>4. ASSUME NEW c \in Request,
             \/ SelectOTP(c) \/ DeleteOTP(c) \/ FetchUser(c) \/ InsertUser(c)
             \/ MarkPhoneVerified(c) \/ Mint(c) \/ SetAuthToken(c) \/ Fail(c)
      PROVE  TagsOK'
    <2>1. /\ Others(c)
          /\ req'[c].pc \notin {"settag", "lookup", "authorise", "dispatch"}
        BY <1>0, <1>4, Moves, Ends DEF Moved
    <2>2. UNCHANGED tags
        BY <1>4 DEF SelectOTP, DeleteOTP, FetchUser, InsertUser, MarkPhoneVerified, Mint,
                    SetAuthToken, Fail
    <2>3. \A p \in Phone : user'[p].tag = user[p].tag /\ user'[p].exists = user[p].exists
        BY <1>4, UserSteps DEF SelectOTP, DeleteOTP, FetchUser, InsertUser, Mint, Fail, users
    <2>. QED
        BY <1>0, <2>1, <2>2, <2>3, TagsKept DEF tags
<1>5. ASSUME NEW c \in Request, InsertWallet(c) PROVE TagsOK'
    <2>. DEFINE p == req[c].phone
    <2>1. p \in Phone /\ ~user[p].exists
        BY <1>5 DEF CarriesOK, Carries, UsersOK, InsertWallet, At
    <2>2. /\ Others(c) /\ UNCHANGED tags
          /\ req'[c].pc \notin {"settag", "lookup", "authorise", "dispatch"}
        BY <1>0, <1>5, Moves DEF Moved, InsertWallet
    <2>3. \A q \in Phone : q # p => user'[q] = user[q]
        BY <1>5, UserSteps
    <2>4. \A d \in Request : req[d].pc \in {"settag", "lookup", "authorise", "dispatch"} =>
            req[d].phone \in Phone /\ req[d].phone # p
        BY <2>1 DEF UsersOK, CarriesOK, Carries, Known, At
    <2>5. \A m \in commands : user'[m.phone] = user[m.phone]
        BY <1>0, <2>1, <2>3 DEF TagsOK
    <2>6. \A d \in Request : req'[d].pc \in {"settag", "lookup", "authorise", "dispatch"} =>
            req'[d] = req[d] /\ user'[req[d].phone] = user[req[d].phone]
        BY <2>2, <2>3, <2>4 DEF Others
    <2>. QED
        BY <2>2, <2>5, <2>6 DEF TagsOK, CommandsAreAuthorised, At, TagOf, tags
<1>6. ASSUME NEW c \in Request, ClearAuthToken(c) PROVE TagsOK'
    <2>1. /\ UNCHANGED tags
          /\ \A p \in Phone : user'[p].tag = user[p].tag /\ user'[p].exists = user[p].exists
        BY <1>6, UserSteps DEF ClearAuthToken
    <2>2. \A d \in Request : req'[d].pc \in {"settag", "lookup", "authorise", "dispatch"} =>
            req'[d] = req[d] /\ req[d].phone \in Phone
        <3>1. \A d \in Request : req[d].pc \in {"settag", "lookup", "authorise", "dispatch"} =>
                req[d].phone \in Phone /\ req[d].pc \notin Passed
            BY DEF CarriesOK, Carries, At, Passed
        <3>2. \A d \in Request : req'[d].pc \in {"settag", "lookup", "authorise", "dispatch"} =>
                d # c /\ req'[d].pc = req[d].pc
            BY <1>0, <1>6, Ends
        <3>. QED
            BY <1>6, <3>1, <3>2, Ends
    <2>. QED
        BY <1>0, <2>1, <2>2 DEF TagsOK, CommandsAreAuthorised, At, TagOf, tags
<1>7. ASSUME NEW c \in Request, SetIDTag(c) PROVE TagsOK'
    <2>. DEFINE p == req[c].phone
    <2>1. /\ p \in Phone /\ At(c, "settag") /\ req[c].tag = "derived"
          /\ user[p].tag \in {Null, "derived"}
        BY <1>7 DEF CarriesOK, Carries, TagsOK, SetIDTag, At
    <2>2. Moved(c, {"lookup"}) /\ req'[c].tag = req[c].tag /\ UNCHANGED tags
        BY <1>7, Moves DEF SetIDTag
    <2>3. \A q \in Phone : /\ user'[q].exists = user[q].exists
                           /\ user'[q].tag = IF q = p THEN "derived" ELSE user[q].tag
        BY <1>7, <2>1, UserSteps
    <2>4. \A t \in Tag : user[p].tag = t => t = "derived"
        BY <2>1, AccountsAssumption DEF Tag
    <2>5. ASSUME NEW d \in Request, At(d, "settag")'
          PROVE  req'[d].tag = "derived" /\ user'[req'[d].phone].tag \in {Null, "derived"}
        BY <1>0, <2>2, <2>3, <2>5 DEF Moved, Others, TagsOK, CarriesOK, Carries, At
    <2>6. ASSUME NEW d \in Request, req'[d].pc \in {"lookup", "authorise", "dispatch"}
          PROVE  user'[req'[d].phone].tag = req'[d].tag
        <3>1. CASE d = c
            BY <1>0, <2>1, <2>2, <2>3, <2>6, <3>1 DEF Moved
        <3>2. CASE d # c
            <4>1. req'[d] = req[d]
                BY <2>2, <3>2 DEF Moved, Others
            <4>2. /\ req[d].phone \in Phone /\ req[d].tag \in Tag
                  /\ user[req[d].phone].tag = req[d].tag
                BY <2>6, <4>1 DEF CarriesOK, Carries, TagsOK, At
            <4>. QED
                BY <2>3, <2>4, <4>1, <4>2
        <3>. QED
            BY <3>1, <3>2
    <2>7. \A d \in Request : At(d, "dispatch")' => TagOf(d)' \in authorised'
        BY <1>0, <2>2 DEF Moved, Others, TagsOK, TagOf, At, tags
    <2>8. \A m \in commands :
            /\ m.phone \in Phone /\ m.tag \in Tag /\ user[m.phone].tag = m.tag
            /\ m \in authorised /\ user[m.phone].exists
        BY DEF TagsOK, CommandsAreAuthorised, TypeOK
    <2>9. \A m \in commands : user'[m.phone].tag = m.tag /\ user'[m.phone].exists
        BY <2>3, <2>4, <2>8
    <2>. QED
        BY <2>2, <2>5, <2>6, <2>7, <2>8, <2>9 DEF TagsOK, CommandsAreAuthorised, tags
<1>8. ASSUME NEW c \in Request, GetAuthorization(c) \/ CreateAuthorization(c) PROVE TagsOK'
    <2>1. /\ Moved(c, {"dispatch", "authorise"}) /\ req'[c].tag = req[c].tag
          /\ UNCHANGED <<user, commands>> /\ authorised \subseteq authorised'
        BY <1>8, Moves DEF GetAuthorization, CreateAuthorization, Moved, users, tags
    <2>2. req[c].phone \in Phone /\ user[req[c].phone].tag = req[c].tag
        BY <1>8 DEF GetAuthorization, CreateAuthorization, CarriesOK, Carries, TagsOK, At
    <2>3. req'[c].pc = "dispatch" => TagOf(c) \in authorised'
        <3>1. CASE GetAuthorization(c)
            <4>1. TagOf(c) \notin authorised => req'[c].pc = "authorise"
                BY <3>1, Went DEF GetAuthorization, Pc
            <4>. QED
                BY <3>1, <4>1 DEF GetAuthorization, tags
        <3>2. CASE CreateAuthorization(c)
            BY <3>2 DEF CreateAuthorization
        <3>. QED
            BY <1>8, <3>1, <3>2
    <2>. QED
        BY <1>0, <2>1, <2>2, <2>3, TagsKept DEF Moved, TagOf
<1>9. ASSUME NEW c \in Request, StartTransaction(c) PROVE TagsOK'
    <2>1. /\ Others(c) /\ req'[c] = Idle /\ UNCHANGED <<user, authorised>>
          /\ commands' = commands \cup {TagOf(c)}
        BY <1>9, Ends DEF StartTransaction, users
    <2>2. /\ req[c].kind = "start" /\ ~At(c, "idle")
          /\ user[req[c].phone].tag = req[c].tag /\ TagOf(c) \in authorised
        BY <1>9 DEF StartTransaction, CarriesOK, Carries, TagsOK, At
    <2>3. \A m \in commands' :
            user[m.phone].exists /\ user[m.phone].tag = m.tag /\ m \in authorised
        BY <2>1, <2>2 DEF TagsOK, UsersOK, CommandsAreAuthorised, TagOf, Known
    <2>. QED
        BY <1>0, <2>1, <2>3 DEF TagsOK, CommandsAreAuthorised, TagOf, Others, At
<1>. QED
    BY <1>1, <1>2, <1>3, <1>4, <1>5, <1>6, <1>7, <1>8, <1>9
    DEF Next, LockStep, FreeStep, Tick, SendOTP, vars, users, tags

LEMMA TokensKept ==
    ASSUME TokensOK, CarriesOK, NEW c \in Request, Others(c),
           \A p \in Phone : out'[p] => out[p] /\ user'[p].token = Null /\ user'[p].exists,
           req'[c].pc # "idle" => req'[c].phone \in Phone,
           req'[c].pc \in Passed /\ out[req'[c].phone] => req'[c].crossed
    PROVE  TokensOK'
<1>1. LogoutLasts' /\ \A p \in Phone : out'[p] => user'[p].exists
    BY DEF LogoutLasts
<1>2. \A d \in Request : req'[d].pc \in Passed /\ out'[req'[d].phone] => req'[d].crossed
    BY DEF TokensOK, CarriesOK, Carries, Others, At, Passed
<1>. QED
    BY <1>1, <1>2 DEF TokensOK, Passed

\* A request that could bring a token back was past its check before the logout.
LEMMA KeepsTokens == IInv /\ [Next]_vars => TokensOK'
<1>. SUFFICES ASSUME IInv, [Next]_vars PROVE TokensOK'
    OBVIOUS
<1>. USE DEF IInv
<1>0. Idle.pc = "idle" /\ \A p \in Phone : out[p] => user[p].token = Null /\ user[p].exists
    BY DEF Idle, TokensOK, LogoutLasts
<1>1. CASE UNCHANGED <<user, out, req>>
    BY <1>1 DEF TokensOK, LogoutLasts, At
<1>2. ASSUME NEW c \in Request, NEW p \in Phone,
             \/ \E k \in Code : Login(c, p, k)
             \/ \E kind \in {"register", "create"}, tag \in {Null, "given"} :
                    Register(c, p, kind, tag)
             \/ \E t \in 0 .. now : Refresh(c, p, t) \/ Logout(c, p, t)
             \/ StartCharging(c, p)
      PROVE  TokensOK'
    <2>1. Others(c) /\ req'[c].phone = p
        BY <1>2, Begins
    <2>2. UNCHANGED <<user, out>>
        BY <1>2 DEF Login, Register, Refresh, Logout, StartCharging, users
    <2>3. req'[c].pc \in Passed => ~out[p]
        <3>1. now \in Nat
            BY AccountsAssumption DEF TypeOK
        <3>2. \A t \in 0 .. now : Refresh(c, p, t) => ~out[p]
            BY <1>0, <3>1, AccountsAssumption DEF Refresh, Accepts
        <3>. QED
            BY <1>2, <3>2, Begins DEF Passed
    <2>. QED
        BY <1>0, <2>1, <2>2, <2>3, TokensKept
<1>3. ASSUME NEW c \in Request,
             \/ SelectOTP(c) \/ DeleteOTP(c) \/ FetchUser(c) \/ InsertUser(c)
             \/ InsertWallet(c) \/ MarkPhoneVerified(c) \/ Mint(c) \/ SetIDTag(c)
             \/ GetAuthorization(c) \/ CreateAuthorization(c)
      PROVE  TokensOK'
    <2>1. /\ Others(c)
          /\ \/ req'[c] = Idle
             \/ /\ req'[c].kind = req[c].kind /\ req'[c].phone = req[c].phone
                /\ req'[c].crossed = req[c].crossed
        BY <1>3, Moves DEF Moved
    <2>2. UNCHANGED out /\ ~At(c, "idle")
        BY <1>3 DEF SelectOTP, DeleteOTP, FetchUser, InsertUser, InsertWallet,
            MarkPhoneVerified, Mint, SetIDTag, GetAuthorization, CreateAuthorization, At, users
    <2>3. \A p \in Phone : /\ user'[p].token \in {user[p].token, Null}
                           /\ user[p].exists => user'[p].exists
        BY <1>3, UserSteps DEF SelectOTP, DeleteOTP, FetchUser, InsertUser, Mint,
            GetAuthorization, CreateAuthorization, users
    <2>4. /\ req[c].phone \in Phone
          /\ req[c].pc \in Passed /\ out[req[c].phone] => req[c].crossed
        BY <2>2 DEF CarriesOK, Carries, TokensOK
    <2>5. req'[c].pc \in Passed => req[c].pc \in Passed \/ ~out[req[c].phone]
        <3>1. CASE FetchUser(c)
            <4>1. \/ Go(c, "mark") /\ user[req[c].phone].token # Null
                  \/ Go(c, "create")
                  \/ Answer(c)
                BY <3>1 DEF FetchUser, Readable
            <4>2. Answer(c) => req'[c] = Idle
                BY Answered
            <4>3. Go(c, "create") => req'[c].pc = "create"
                BY Went DEF Pc
            <4>. QED
                BY <1>0, <2>4, <4>1, <4>2, <4>3 DEF Passed
        <3>2. CASE InsertWallet(c)
            BY <1>0, <2>4, <3>2 DEF InsertWallet, UsersOK
        <3>3. CASE MarkPhoneVerified(c) \/ Mint(c)
            BY <3>3 DEF MarkPhoneVerified, Mint, At, Passed
        <3>4. CASE SelectOTP(c) \/ DeleteOTP(c) \/ InsertUser(c) \/ SetIDTag(c)
                    \/ GetAuthorization(c) \/ CreateAuthorization(c)
            BY <1>0, <3>4, Moves DEF Moved, Passed
        <3>. QED
            BY <1>3, <3>1, <3>2, <3>3, <3>4
    <2>. QED
        BY <1>0, <2>1, <2>2, <2>3, <2>4, <2>5, TokensKept DEF Passed
<1>4. ASSUME NEW c \in Request, SetAuthToken(c) PROVE TokensOK'
    <2>. DEFINE p == req[c].phone
    <2>1. Others(c) /\ req'[c] = Idle /\ p \in Phone /\ (out[p] => req[c].crossed)
        BY <1>4, Ends DEF CarriesOK, Carries, TokensOK, SetAuthToken, At, Passed
    <2>2. \A q \in Phone : out'[q] <=> out[q] /\ (q = p => ~req[c].crossed)
        BY <1>4, <2>1 DEF SetAuthToken, TypeOK
    <2>3. \A q \in Phone : /\ q # p => user'[q].token = user[q].token
                           /\ user'[q].exists = user[q].exists
        BY <1>4, UserSteps
    <2>. QED
        BY <1>0, <2>1, <2>2, <2>3, TokensKept DEF Passed
<1>5. ASSUME NEW c \in Request, ClearAuthToken(c) PROVE TokensOK'
    <2>. DEFINE p == req[c].phone
    <2>0. p \in Phone /\ user[p].exists
        BY <1>5 DEF ClearAuthToken, CarriesOK, Carries, UsersOK, Known, At
    <2>1. \A q \in Phone : /\ out'[q] <=> out[q] \/ q = p
                           /\ user'[q].token = IF q = p THEN Null ELSE user[q].token
                           /\ user'[q].exists = user[q].exists
        BY <1>5, UserSteps DEF ClearAuthToken, TypeOK
    <2>2. LogoutLasts' /\ \A q \in Phone : out'[q] => user'[q].exists
        BY <1>0, <2>0, <2>1 DEF LogoutLasts
    <2>3. ASSUME NEW d \in Request, req'[d].pc \in Passed, out'[req'[d].phone]
          PROVE  req'[d].crossed
        <3>1. d # c
            BY <1>0, <1>5, <2>3, Ends DEF Passed
        <3>2. CASE req[d].pc \in Passed /\ req[d].phone = p
            BY <1>5, <3>1, <3>2, Ends
        <3>3. CASE ~(req[d].pc \in Passed /\ req[d].phone = p)
            <4>1. req'[d] = req[d]
                BY <1>5, <3>1, <3>3, Ends
            <4>2. req[d].phone \in Phone /\ req[d].phone # p
                BY <2>3, <3>3, <4>1 DEF CarriesOK, Carries, At, Passed
            <4>. QED
                BY <2>1, <2>3, <4>1, <4>2 DEF TokensOK
        <3>. QED
            BY <3>2, <3>3
    <2>. QED
        BY <2>2, <2>3 DEF TokensOK
<1>6. ASSUME NEW c \in Request, StartTransaction(c) \/ Fail(c) PROVE TokensOK'
    <2>1. Others(c) /\ req'[c] = Idle /\ UNCHANGED <<user, out>>
        BY <1>6, Ends DEF StartTransaction, Fail, users
    <2>. QED
        BY <1>0, <2>1, TokensKept DEF Passed
<1>. QED
    BY <1>1, <1>2, <1>3, <1>4, <1>5, <1>6
    DEF Next, LockStep, FreeStep, Tick, SendOTP, vars, users

LEMMA InitInv == Init => IInv
<1>. SUFFICES ASSUME Init PROVE IInv
    OBVIOUS
<1>. USE AccountsAssumption DEF Init
<1>1. Idle \in Call /\ Idle.pc = "idle"
    BY IdleIsCall DEF Idle
<1>2. TypeOK
    BY <1>1 DEF TypeOK, NoUser
<1>3. CarriesOK
    BY <1>1 DEF CarriesOK, Carries, At
<1>4. CodesOK
    BY <1>1 DEF CodesOK, At
<1>5. UsersOK
    BY <1>1 DEF UsersOK, UsersHaveWallets, NoUser, Known, At
<1>6. TagsOK
    BY <1>1 DEF TagsOK, CommandsAreAuthorised, At
<1>7. TokensOK
    BY <1>1 DEF TokensOK, LogoutLasts, At, Passed
<1>. QED
    BY <1>2, <1>3, <1>4, <1>5, <1>6, <1>7 DEF IInv

-----------------------------------------------------------------------------
(* The theorems.                                                           *)

\* Whatever the requests do, in any order and failing anywhere, the next statement of
\* each finds what it relies on.
THEOREM Invariance == Spec => []IInv
<1>1. Init => IInv
    BY InitInv
<1>2. IInv /\ [Next]_vars => IInv'
    BY KeepsTypes, KeepsCarries, KeepsCodes, KeepsUsers, KeepsTags, KeepsTokens DEF IInv
<1>. QED
    BY <1>1, <1>2, PTL DEF Spec

\* Every variable keeps its type; a token is dated in the past.
THEOREM Types == Spec => []TypeOK
BY Invariance, PTL DEF IInv

\* A code that was sent lets one request in, among any number that present it
\* (VerifyPhoneOTP).
THEOREM LogsInOnce == Spec => []OtpLogsInOnce
<1>1. IInv => OtpLogsInOnce
    BY DEF IInv, CodesOK, OtpLogsInOnce
<1>. QED
    BY <1>1, Invariance, PTL

\* A user has a wallet from the first moment others see the user (Create).
THEOREM HaveWallets == Spec => []UsersHaveWallets
<1>1. IInv => UsersHaveWallets
    BY DEF IInv, UsersOK
<1>. QED
    BY <1>1, Invariance, PTL

\* A logout is for good: after it only a request that was past its check when the token was
\* cleared stores another (Logout, Refresh, and Login, which cannot read a NULL token).
THEOREM Lasts == Spec => []LogoutLasts
<1>1. IInv => LogoutLasts
    BY DEF IInv, TokensOK
<1>. QED
    BY <1>1, Invariance, PTL

\* Every start command carries the stored tag of its user, and an authorised one
\* (StartCharging, EnsureAuthorization).
THEOREM Authorised == Spec => []CommandsAreAuthorised
<1>1. IInv => CommandsAreAuthorised
    BY DEF IInv, TagsOK
<1>. QED
    BY <1>1, Invariance, PTL

\* A login's DELETE, which names the phone only, takes the code the login was checked
\* against and no newer one (VerifyPhoneOTP, SetPhoneOTP).
THEOREM NewestSurvives == Spec => NewestCodeSurvives
<1>1. IInv => \A c \in Request : At(c, "delete") =>
                otp[req[c].phone] # Null /\ otp[req[c].phone].n = req[c].n
    BY DEF IInv, CodesOK
<1>. DEFINE A == \A c \in Request : At(c, "delete") /\ req'[c].pc = "fetch" =>
                    otp[req[c].phone] # Null /\ otp[req[c].phone].n = req[c].n
<1>2. IInv => A
    BY <1>1
<1>3. (Spec => []IInv) => (Spec => [][A]_vars)
    BY <1>2, PTL
<1>. QED
    BY <1>3, Invariance DEF NewestCodeSurvives
=============================================================================
