--------------------------------- MODULE SignIn ---------------------------------
(***************************************************************************)
(* The accounts made under a few e-mail addresses and the secrets that     *)
(* open them: sign-in codes, recovery codes, reset tokens, OAuth codes.    *)
(*                                                                         *)
(*   requestLoginOtpToDB   StartRequest .. Retract                         *)
(*   resendLoginOtpToDB    StartResend, StoreCode, MailCode                *)
(*   verifyLoginOtpToDB    StartVerify .. Consume                          *)
(*   createUserToDB        SignUp, StoreRecovery                           *)
(*   forgetPasswordToDB, resendOtpToDB   StartRecovery .. StoreRecovery    *)
(*   verifyEmailToDB       StartConfirm .. CreateToken                     *)
(*   resetPasswordToDB     TakeToken .. SetPassword                        *)
(*   googleStrategy, googleCallback      GoogleSignIn .. CreateOAuthCode   *)
(*   exchangeCode          TakeOAuthCode, Exchange                         *)
(*   updateProfileToDB     StartEdit, Edit: of the address only            *)
(*   deleteAccountFromDB   StartDelete, Erase                              *)
(*                                                                         *)
(* An action is the code from one await to the next, with the database     *)
(* operation it begins with; at[r], on[r], to[r], mine[r], seen[r] and     *)
(* flag[r] are the local state of the handler in slot r.  A handler finds  *)
(* an account by its address and writes to it by its _id: by then it may   *)
(* be deleted, or moved to another address, and a newer account be under   *)
(* the one it was found by.  A secret stands for the code and its hash:    *)
(* two codes that happen to have the same digits are not told apart.       *)
(***************************************************************************)
EXTENDS Naturals, FiniteSets

CONSTANTS
  Accounts,  \* account documents (_id), made one after another
  Addresses, \* the e-mail addresses they are made under and moved to
  Secrets,   \* codes and tokens, each generated once
  Requests,  \* slots for handlers in flight
  MaxTries,  \* OTP_MAX_ATTEMPTS
  MaxFaults, \* bound on handlers that die half way, see Abort
  MaxEdits,  \* bound on the addresses edited in
  None       \* an unset field

ASSUME TriesAssumption == MaxTries \in Nat \ {0}
ASSUME FaultAssumption == MaxFaults \in Nat /\ MaxEdits \in Nat
ASSUME NoneAssumption  == None \notin Accounts \cup Secrets \cup Addresses

VARIABLES
  account,  \* what became of each document: its existence and verified,
  email,    \*   and its address
  barred,   \* accounts whose status is suspended or ban
  login,    \* loginOtp.hashedCode,
  used,     \*   .consumed
  tries,    \*   and .attemptCount
  recovery, \* authentication.oneTimeCode
  mayReset, \*   .isResetPassword
  lapsed,   \*   and whether .expireAt is past
  token,    \* the reset tokens: the account each is for
  oauth,    \* the OAuth codes: the account each is for
  drawn,    \* secrets generated so far
  recent,   \* sign-in codes still in their cooldown
  expired,  \* sign-in codes, OAuth codes and tokens whose time is over
  mailed,   \* where a code was mailed to: who reads that mailbox knows it
  issued,   \* history: secrets that were ever in force
  honoured, \* history: how often a secret was accepted for good
  entered,  \* history: accounts somebody was signed in to, with the code they used
  proven,   \* history: accounts with an address they were verified under
  edited,   \*   and those with an address their owner edited in
  faults,   \* handlers that died half way so far
  at,       \* the handler in each slot: the step it takes next,
  on,       \*   the account it found or made,
  to,       \*   the address it was given or found it under, where it needs one,
  mine,     \*   the secret it generated, or found and compares with,
  seen,     \*   attemptCount as it read it
  flag      \*   and what else its later steps depend on

otp == <<login, used, tries>>
auth == <<recovery, mayReset, lapsed>>
grants == <<token, oauth>>
clock == <<recent, expired>>
history == <<issued, honoured, entered, proven, edited>>
job == <<at, on, to, mine, seen, flag>>
vars == <<account, email, barred, otp, auth, grants, drawn, clock, mailed, history,
          faults, job>>

-----------------------------------------------------------------------------

AccountStates == {"unused", "pending", "verified", "gone"}
Steps ==
  {"idle"} \cup
  {"create", "storeCode", "mailCode", "retract"} \cup        \* request, resend
  {"lock", "miss", "compare", "consume"} \cup                \* verify
  {"mailRecovery", "storeRecovery"} \cup                     \* sign up, recovery
  {"confirm", "grantReset", "createToken"} \cup              \* verify e-mail
  {"permission", "setPassword"} \cup                         \* reset
  {"googleCreate", "createOAuth", "exchange"} \cup           \* OAuth
  {"edit", "erase"}                                          \* profile, deletion

\* loginOtpSchema and authenticationSchema: a new document has neither code.
Init ==
  /\ account = [a \in Accounts |-> "unused"]
  /\ email = [a \in Accounts |-> None]
  /\ barred = {}
  /\ login = [a \in Accounts |-> None]
  /\ used = [a \in Accounts |-> FALSE]
  /\ tries = [a \in Accounts |-> 0]
  /\ recovery = [a \in Accounts |-> None]
  /\ mayReset = [a \in Accounts |-> FALSE]
  /\ lapsed = {}
  /\ token = [s \in Secrets |-> None]
  /\ oauth = [s \in Secrets |-> None]
  /\ drawn = {}
  /\ recent = {}
  /\ expired = {}
  /\ mailed = [s \in Secrets |-> None]
  /\ issued = {}
  /\ honoured = [s \in Secrets |-> 0]
  /\ entered = {}
  /\ proven = {}
  /\ edited = {}
  /\ faults = 0
  /\ at = [r \in Requests |-> "idle"]
  /\ on = [r \in Requests |-> None]
  /\ to = [r \in Requests |-> None]
  /\ mine = [r \in Requests |-> None]
  /\ seen = [r \in Requests |-> 0]
  /\ flag = [r \in Requests |-> FALSE]

Live(a) == account[a] \in {"pending", "verified"}

-----------------------------------------------------------------------------
(* Control of a handler *)

At(r, step) == at[r] = step
Goto(r, step) == at' = [at EXCEPT ![r] = step] /\ UNCHANGED <<on, to, mine, seen, flag>>
Return(r) ==
  /\ at' = [at EXCEPT ![r] = "idle"]
  /\ on' = [on EXCEPT ![r] = None]
  /\ to' = [to EXCEPT ![r] = None]
  /\ mine' = [mine EXCEPT ![r] = None]
  /\ seen' = [seen EXCEPT ![r] = 0]
  /\ flag' = [flag EXCEPT ![r] = FALSE]
\* The handler goes on with account a, address e and secret s.
Take(r, step, a, e, s, n, new) ==
  /\ at' = [at EXCEPT ![r] = step]
  /\ on' = [on EXCEPT ![r] = a]
  /\ to' = [to EXCEPT ![r] = e]
  /\ mine' = [mine EXCEPT ![r] = s]
  /\ seen' = [seen EXCEPT ![r] = n]
  /\ flag' = [flag EXCEPT ![r] = new]
\* The handler is about to make an account under address e.
Prepare(r, step, e) ==
  /\ at' = [at EXCEPT ![r] = step]
  /\ to' = [to EXCEPT ![r] = e]
  /\ UNCHANGED <<on, mine, seen, flag>>
Draw(s) == s \notin drawn /\ drawn' = drawn \cup {s}

\* The index on email: one account to an address.
Holder(a, e) == Live(a) /\ email[a] = e
Taken(e) == \E a \in Accounts : Holder(a, e)

\* User.create
Insert(a, e, state) ==
  /\ ~Taken(e)
  /\ account[a] = "unused"
  /\ account' = [account EXCEPT ![a] = state]
  /\ email' = [email EXCEPT ![a] = e]
Delete(a) ==
  /\ account' = [account EXCEPT ![a] = "gone"]
  /\ email' = [email EXCEPT ![a] = None]

\* ensureAccountStatus without requireVerified.
Admitted(a) == Live(a) /\ a \notin barred

-----------------------------------------------------------------------------
(* requestLoginOtpToDB and resendLoginOtpToDB *)

\* enforceResendCooldown, on the code as it was read.
Cooled(a) == login[a] \notin recent

\* The account exists: its code is generated, and hashed in an await.
StartRequest(r, a, s) ==
  /\ At(r, "idle")
  /\ Admitted(a)
  /\ Cooled(a)
  /\ Draw(s)
  /\ Take(r, "storeCode", a, email[a], s, 0, FALSE)
  /\ UNCHANGED <<account, email, barred, otp, auth, grants, clock, mailed, history, faults>>

\* There is no account under the address: one is about to be created.
StartFirstRequest(r, e) ==
  /\ At(r, "idle")
  /\ ~Taken(e)
  /\ Prepare(r, "create", e)
  /\ UNCHANGED <<account, email, barred, otp, auth, grants, drawn, clock, mailed, history, faults>>

CreatePending(r, a, s) ==
  /\ At(r, "create")
  /\ Insert(a, to[r], "pending")
  /\ Draw(s)
  /\ Take(r, "storeCode", a, to[r], s, 0, TRUE)
  /\ UNCHANGED <<barred, otp, auth, grants, clock, mailed, history, faults>>

\* Another account has the address by now.
CreateRefused(r) ==
  /\ at[r] \in {"create", "googleCreate"}
  /\ Taken(to[r])
  /\ Return(r)
  /\ UNCHANGED <<account, email, barred, otp, auth, grants, drawn, clock, mailed, history, faults>>

\* buildLoginOtpDoc: a code in force for its lifetime, not consumed, no attempts.
StoreCode(r) ==
  LET a == on[r] IN
  /\ At(r, "storeCode")
  /\ IF Live(a)
     THEN /\ login' = [login EXCEPT ![a] = mine[r]]
          /\ used' = [used EXCEPT ![a] = FALSE]
          /\ tries' = [tries EXCEPT ![a] = 0]
          /\ issued' = issued \cup {mine[r]}
          /\ recent' = recent \cup {mine[r]}
     ELSE UNCHANGED <<otp, issued, recent>>
  /\ Goto(r, "mailCode")
  /\ UNCHANGED <<account, email, barred, auth, grants, drawn, expired, mailed, honoured,
                 entered, proven, edited, faults>>

MailCode(r) ==
  /\ At(r, "mailCode")
  /\ mailed' = [mailed EXCEPT ![mine[r]] = to[r]]
  /\ Return(r)
  /\ UNCHANGED <<account, email, barred, otp, auth, grants, drawn, clock, history, faults>>

\* Only the request that created the account takes it back.
MailCodeThrows(r) ==
  /\ At(r, "mailCode")
  /\ IF flag[r] THEN Goto(r, "retract") ELSE Return(r)
  /\ UNCHANGED <<account, email, barred, otp, auth, grants, drawn, clock, mailed, history, faults>>

\* Mutant: the account is deleted whether or not it was verified meanwhile.
RetractAny(r) ==
  /\ At(r, "retract")
  /\ Delete(on[r])
  /\ Return(r)
  /\ UNCHANGED <<barred, otp, auth, grants, drawn, clock, mailed, history, faults>>

\* deleteOne with verified: false.
Retract(r) ==
  /\ At(r, "retract")
  /\ IF account[on[r]] = "pending" THEN Delete(on[r]) ELSE UNCHANGED <<account, email>>
  /\ Return(r)
  /\ UNCHANGED <<barred, otp, auth, grants, drawn, clock, mailed, history, faults>>

\* Resending never creates an account, and is otherwise the same.
StartResend(r, a, s) == StartRequest(r, a, s)

-----------------------------------------------------------------------------
(* verifyLoginOtpToDB.  flag[r] says whether the code the user gave is the *)
(* one compared with; only a code that was mailed can be.                  *)

\* The checks on the account and the code as they were read, in their order.
StartVerify(r, a, right) ==
  /\ At(r, "idle")
  /\ Admitted(a)
  /\ login[a] # None
  /\ right => mailed[login[a]] # None
  /\ LET next == IF tries[a] >= MaxTries THEN "lock"
                 ELSE IF login[a] \in expired THEN "miss"
                 ELSE "compare" IN
     /\ next = "compare" => ~used[a]
     /\ Take(r, next, a, None, login[a], tries[a], right)
  /\ UNCHANGED <<account, email, barred, otp, auth, grants, drawn, clock, mailed, history, faults>>

\* Too many attempts: the code the document has by now is struck.
Lock(r) ==
  /\ At(r, "lock")
  /\ login' = [login EXCEPT ![on[r]] = IF Live(on[r]) THEN None ELSE @]
  /\ Return(r)
  /\ UNCHANGED <<account, email, barred, used, tries, auth, grants, drawn, clock, mailed,
                 history, faults>>

\* The attempt is counted, from what was read, on whatever code is there now.
Miss(r) ==
  /\ At(r, "miss")
  /\ tries' = [tries EXCEPT ![on[r]] = IF Live(on[r]) THEN seen[r] + 1 ELSE @]
  /\ Return(r)
  /\ UNCHANGED <<account, email, barred, login, used, auth, grants, drawn, clock, mailed,
                 history, faults>>

\* bcrypt.compare with the hash that was read.
Compare(r) ==
  /\ At(r, "compare")
  /\ Goto(r, IF flag[r] THEN "consume" ELSE "miss")
  /\ UNCHANGED <<account, email, barred, otp, auth, grants, drawn, clock, mailed, history, faults>>

\* Mutant: the update does not ask again whether the code was consumed.
ConsumeAgain(r) ==
  LET a == on[r] IN
  /\ At(r, "consume")
  /\ IF Live(a) /\ login[a] = mine[r] /\ mine[r] \notin expired
     THEN /\ used' = [used EXCEPT ![a] = TRUE]
          /\ tries' = [tries EXCEPT ![a] = seen[r] + 1]
          /\ account' = [account EXCEPT ![a] = "verified"]
          /\ honoured' = [honoured EXCEPT ![mine[r]] = @ + 1]
          /\ entered' = entered \cup {<<a, mine[r]>>}
          /\ proven' = proven \cup {<<a, mailed[mine[r]]>>}
     ELSE UNCHANGED <<account, used, tries, honoured, entered, proven>>
  /\ Return(r)
  /\ UNCHANGED <<email, barred, login, auth, grants, drawn, clock, mailed, issued,
                 edited, faults>>

\* Compare-and-set: the code that was compared is still there, unused and in time.
\* The account is verified by the same write, and its owner is signed in.
Consume(r) ==
  LET a == on[r] IN
  /\ At(r, "consume")
  /\ IF Live(a) /\ login[a] = mine[r] /\ ~used[a] /\ mine[r] \notin expired
     THEN /\ used' = [used EXCEPT ![a] = TRUE]
          /\ tries' = [tries EXCEPT ![a] = seen[r] + 1]
          /\ account' = [account EXCEPT ![a] = "verified"]
          /\ honoured' = [honoured EXCEPT ![mine[r]] = @ + 1]
          /\ entered' = entered \cup {<<a, mine[r]>>}
          /\ proven' = proven \cup {<<a, mailed[mine[r]]>>}
     ELSE UNCHANGED <<account, used, tries, honoured, entered, proven>>
  /\ Return(r)
  /\ UNCHANGED <<email, barred, login, auth, grants, drawn, clock, mailed, issued,
                 edited, faults>>

-----------------------------------------------------------------------------
(* createUserToDB, forgetPasswordToDB and resendOtpToDB: a code in         *)
(* `authentication`.                                                       *)

\* Writing `authentication` sets every path of it: isResetPassword is FALSE
\* unless it is given.
SetAuth(a, code, may) ==
  /\ recovery' = [recovery EXCEPT ![a] = IF Live(a) THEN code ELSE @]
  /\ mayReset' = [mayReset EXCEPT ![a] = IF Live(a) THEN may ELSE @]
  /\ lapsed' = lapsed \ {a}

\* The e-mail is sent without waiting for it, and may be lost.
SignUp(r, a, e, s) ==
  /\ At(r, "idle")
  /\ Insert(a, e, "pending")
  /\ Draw(s)
  /\ mailed' \in {mailed, [mailed EXCEPT ![s] = e]}
  /\ Take(r, "storeRecovery", a, e, s, 0, FALSE)
  /\ UNCHANGED <<barred, otp, auth, grants, clock, history, faults>>

\* flag[r] is TRUE in forgetPasswordToDB, which takes any account; resendOtpToDB
\* takes one that is not verified.
StartRecovery(r, a, s, forgot) ==
  /\ At(r, "idle")
  /\ Live(a)
  /\ forgot \/ account[a] = "pending"
  /\ Draw(s)
  /\ Take(r, "mailRecovery", a, email[a], s, 0, forgot)
  /\ UNCHANGED <<account, email, barred, otp, auth, grants, clock, mailed, history, faults>>

\* The code is mailed before it is in force.
MailRecovery(r) ==
  /\ At(r, "mailRecovery")
  /\ mailed' = [mailed EXCEPT ![mine[r]] = to[r]]
  /\ Goto(r, "storeRecovery")
  /\ UNCHANGED <<account, email, barred, otp, auth, grants, drawn, clock, history, faults>>

\* forgetPasswordToDB writes to the account that has the address by now.
StoreRecovery(r) ==
  /\ At(r, "storeRecovery")
  /\ IF ~flag[r] THEN SetAuth(on[r], mine[r], FALSE)
     ELSE IF Taken(to[r])
     THEN \E a \in Accounts : Holder(a, to[r]) /\ SetAuth(a, mine[r], FALSE)
     ELSE UNCHANGED auth
  /\ Return(r)
  /\ UNCHANGED <<account, email, barred, otp, grants, drawn, clock, mailed, history, faults>>

-----------------------------------------------------------------------------
(* verifyEmailToDB and resetPasswordToDB *)

\* The recovery code is checked, and what follows chosen, on what was read.
StartConfirm(r, a) ==
  /\ At(r, "idle")
  /\ Live(a)
  /\ recovery[a] # None /\ mailed[recovery[a]] # None
  /\ a \notin lapsed
  /\ Take(r, IF account[a] = "pending" THEN "confirm" ELSE "grantReset",
          a, None, recovery[a], 0, FALSE)
  /\ UNCHANGED <<account, email, barred, otp, auth, grants, drawn, clock, mailed, history, faults>>

Confirm(r) ==
  /\ At(r, "confirm")
  /\ IF Live(on[r])
     THEN /\ account' = [account EXCEPT ![on[r]] = "verified"]
          /\ proven' = proven \cup {<<on[r], mailed[mine[r]]>>}
     ELSE UNCHANGED <<account, proven>>
  /\ SetAuth(on[r], None, FALSE)
  /\ Return(r)
  /\ UNCHANGED <<email, barred, otp, grants, drawn, clock, mailed, issued, honoured,
                 entered, edited, faults>>

GrantReset(r) ==
  /\ At(r, "grantReset")
  /\ SetAuth(on[r], None, TRUE)
  /\ Goto(r, "createToken")
  /\ UNCHANGED <<account, email, barred, otp, grants, drawn, clock, mailed, history, faults>>

CreateToken(r, s) ==
  /\ At(r, "createToken")
  /\ Draw(s)
  /\ token' = [token EXCEPT ![s] = on[r]]
  /\ issued' = issued \cup {s}
  /\ Return(r)
  /\ UNCHANGED <<account, email, barred, otp, auth, oauth, clock, mailed, honoured,
                 entered, proven, edited, faults>>

\* findOneAndDelete: whoever deletes the token has it.
TakeToken(r, s) ==
  /\ At(r, "idle")
  /\ token[s] # None
  /\ s \notin expired
  /\ token' = [token EXCEPT ![s] = None]
  /\ honoured' = [honoured EXCEPT ![s] = @ + 1]
  /\ Take(r, "permission", token[s], None, None, 0, FALSE)
  /\ UNCHANGED <<account, email, barred, otp, auth, oauth, drawn, clock, mailed, issued,
                 entered, proven, edited, faults>>

\* The permission is read, and the two passwords compared: both may refuse.
Permission(r) ==
  /\ At(r, "permission")
  /\ \/ Live(on[r]) /\ mayReset[on[r]] /\ Goto(r, "setPassword")
     \/ Return(r)
  /\ UNCHANGED <<account, email, barred, otp, auth, grants, drawn, clock, mailed, history, faults>>

SetPassword(r) ==
  /\ At(r, "setPassword")
  /\ SetAuth(on[r], None, FALSE)
  /\ Return(r)
  /\ UNCHANGED <<account, email, barred, otp, grants, drawn, clock, mailed, history, faults>>

-----------------------------------------------------------------------------
(* Google sign-in, the account's address and its end *)

\* The account under the address is used as it is, verified or not.
GoogleSignIn(r) ==
  /\ At(r, "idle")
  /\ \/ \E a \in Accounts : Live(a) /\ Take(r, "createOAuth", a, None, None, 0, FALSE)
     \/ \E e \in Addresses : ~Taken(e) /\ Prepare(r, "googleCreate", e)
  /\ UNCHANGED <<account, email, barred, otp, auth, grants, drawn, clock, mailed, history, faults>>

\* Google has verified the address.
GoogleCreate(r, a) ==
  /\ At(r, "googleCreate")
  /\ Insert(a, to[r], "verified")
  /\ proven' = proven \cup {<<a, to[r]>>}
  /\ Take(r, "createOAuth", a, None, None, 0, FALSE)
  /\ UNCHANGED <<barred, otp, auth, grants, drawn, clock, mailed, issued, honoured,
                 entered, edited, faults>>

CreateOAuthCode(r, s) ==
  /\ At(r, "createOAuth")
  /\ Draw(s)
  /\ oauth' = [oauth EXCEPT ![s] = on[r]]
  /\ issued' = issued \cup {s}
  /\ Return(r)
  /\ UNCHANGED <<account, email, barred, otp, auth, token, clock, mailed, honoured,
                 entered, proven, edited, faults>>

TakeOAuthCode(r, s) ==
  /\ At(r, "idle")
  /\ oauth[s] # None
  /\ s \notin expired
  /\ oauth' = [oauth EXCEPT ![s] = None]
  /\ honoured' = [honoured EXCEPT ![s] = @ + 1]
  /\ Take(r, "exchange", oauth[s], None, s, 0, FALSE)
  /\ UNCHANGED <<account, email, barred, otp, auth, token, drawn, clock, mailed, issued,
                 entered, proven, edited, faults>>

\* Mutant: whoever has a code is signed in, verified or not.
ExchangeUnverified(r) ==
  /\ At(r, "exchange")
  /\ entered' = entered \cup (IF Admitted(on[r]) THEN {<<on[r], mine[r]>>} ELSE {})
  /\ Return(r)
  /\ UNCHANGED <<account, email, barred, otp, auth, grants, drawn, clock, mailed, issued,
                 honoured, proven, edited, faults>>

\* The account is looked at after the code is gone.
Exchange(r) ==
  /\ At(r, "exchange")
  /\ entered' = entered \cup
       (IF Admitted(on[r]) /\ account[on[r]] = "verified" THEN {<<on[r], mine[r]>>} ELSE {})
  /\ Return(r)
  /\ UNCHANGED <<account, email, barred, otp, auth, grants, drawn, clock, mailed, issued,
                 honoured, proven, edited, faults>>

\* auth() reads the account anew for each request of a signed-in user.
SignedIn(a) ==
  /\ \E s \in Secrets : <<a, s>> \in entered
  /\ Admitted(a)
  /\ account[a] = "verified"

\* The profile may name any address.
StartEdit(r, a, e) ==
  /\ At(r, "idle")
  /\ SignedIn(a)
  /\ e # email[a]
  /\ Cardinality(edited) < MaxEdits
  /\ Take(r, "edit", a, e, None, 0, FALSE)
  /\ UNCHANGED <<account, email, barred, otp, auth, grants, drawn, clock, mailed, history, faults>>

\* The update is refused if another account has the address; verified stays.
Edit(r) ==
  LET a == on[r] IN
  /\ At(r, "edit")
  /\ IF Live(a) /\ ~Taken(to[r])
     THEN /\ email' = [email EXCEPT ![a] = to[r]]
          /\ edited' = edited \cup {<<a, to[r]>>}
     ELSE UNCHANGED <<email, edited>>
  /\ Return(r)
  /\ UNCHANGED <<account, barred, otp, auth, grants, drawn, clock, mailed, issued, honoured,
                 entered, proven, faults>>

StartDelete(r, a) ==
  /\ At(r, "idle")
  /\ SignedIn(a)
  /\ Take(r, "erase", a, None, None, 0, FALSE)
  /\ UNCHANGED <<account, email, barred, otp, auth, grants, drawn, clock, mailed, history, faults>>

Erase(r) ==
  /\ At(r, "erase")
  /\ Delete(on[r])
  /\ Return(r)
  /\ UNCHANGED <<barred, otp, auth, grants, drawn, clock, mailed, history, faults>>

-----------------------------------------------------------------------------
(* Time, penalties and faults *)

Cool(s) ==
  /\ s \in recent
  /\ recent' = recent \ {s}
  /\ UNCHANGED <<account, email, barred, otp, auth, grants, drawn, expired, mailed, history,
                 faults, job>>

\* Every lifetime is longer than the cooldown, and than it takes to store a code.
Expire(s) ==
  /\ s \in issued \ (recent \cup expired)
  /\ expired' = expired \cup {s}
  /\ UNCHANGED <<account, email, barred, otp, auth, grants, drawn, recent, mailed, history,
                 faults, job>>

Lapse(a) ==
  /\ recovery[a] # None
  /\ a \notin lapsed
  /\ lapsed' = lapsed \cup {a}
  /\ UNCHANGED <<account, email, barred, otp, recovery, mayReset, grants, drawn, clock, mailed,
                 history, faults, job>>

\* Penalties and admins suspend an account; no handler lifts it again.
Bar(a) ==
  /\ account[a] = "verified"
  /\ barred' = barred \cup {a}
  /\ UNCHANGED <<account, email, otp, auth, grants, drawn, clock, mailed, history, faults, job>>

\* A call rejects, or the process stops: the handler's state is lost.
Abort(r) ==
  /\ at[r] # "idle"
  /\ faults < MaxFaults
  /\ faults' = faults + 1
  /\ Return(r)
  /\ UNCHANGED <<account, email, barred, otp, auth, grants, drawn, clock, mailed, history>>

CodeSteps(r) ==
  \/ \E e \in Addresses : StartFirstRequest(r, e)
  \/ CreateRefused(r)
  \/ StoreCode(r)
  \/ MailCode(r)
  \/ MailCodeThrows(r)
  \/ Retract(r)
  \/ \E a \in Accounts :
       \/ \E s \in Secrets : StartRequest(r, a, s) \/ StartResend(r, a, s)
                             \/ CreatePending(r, a, s)
       \/ \E right \in BOOLEAN : StartVerify(r, a, right)
  \/ Lock(r)
  \/ Miss(r)
  \/ Compare(r)
  \/ Consume(r)
RecoverySteps(r) ==
  \/ \E a \in Accounts, s \in Secrets :
       \/ \E e \in Addresses : SignUp(r, a, e, s)
       \/ \E forgot \in BOOLEAN : StartRecovery(r, a, s, forgot)
  \/ MailRecovery(r)
  \/ StoreRecovery(r)
  \/ \E a \in Accounts : StartConfirm(r, a)
  \/ Confirm(r)
  \/ GrantReset(r)
  \/ \E s \in Secrets : CreateToken(r, s) \/ TakeToken(r, s)
  \/ Permission(r)
  \/ SetPassword(r)
AccountSteps(r) ==
  \/ GoogleSignIn(r)
  \/ \E a \in Accounts : GoogleCreate(r, a) \/ StartDelete(r, a)
  \/ \E s \in Secrets : CreateOAuthCode(r, s) \/ TakeOAuthCode(r, s)
  \/ Exchange(r)
  \/ \E a \in Accounts, e \in Addresses : StartEdit(r, a, e)
  \/ Edit(r)
  \/ Erase(r)

Next ==
  \/ \E r \in Requests : CodeSteps(r) \/ RecoverySteps(r) \/ AccountSteps(r) \/ Abort(r)
  \/ \E s \in Secrets : Cool(s) \/ Expire(s)
  \/ \E a \in Accounts : Bar(a) \/ Lapse(a)

Spec == Init /\ [][Next]_vars

-----------------------------------------------------------------------------
(* Properties *)

\* Every variable has its type.
TypeOK ==
  /\ account \in [Accounts -> AccountStates]
  /\ email \in [Accounts -> Addresses \cup {None}]
  /\ barred \subseteq Accounts
  /\ login \in [Accounts -> Secrets \cup {None}]
  /\ used \in [Accounts -> BOOLEAN]
  /\ tries \in [Accounts -> 0 .. MaxTries]
  /\ recovery \in [Accounts -> Secrets \cup {None}]
  /\ mayReset \in [Accounts -> BOOLEAN]
  /\ lapsed \subseteq Accounts
  /\ token \in [Secrets -> Accounts \cup {None}]
  /\ oauth \in [Secrets -> Accounts \cup {None}]
  /\ drawn \subseteq Secrets
  /\ recent \subseteq Secrets
  /\ expired \subseteq Secrets
  /\ mailed \in [Secrets -> Addresses \cup {None}]
  /\ issued \subseteq Secrets
  /\ entered \subseteq Accounts \X Secrets
  /\ proven \subseteq Accounts \X (Addresses \cup {None})
  /\ edited \subseteq Accounts \X Addresses
  /\ honoured \in [Secrets -> Nat]
  /\ faults \in 0 .. MaxFaults
  /\ at \in [Requests -> Steps]
  /\ on \in [Requests -> Accounts \cup {None}]
  /\ to \in [Requests -> Addresses \cup {None}]
  /\ mine \in [Requests -> Secrets \cup {None}]
  /\ seen \in [Requests -> 0 .. MaxTries]
  /\ flag \in [Requests -> BOOLEAN]

\* Where a sign-in code, a reset token or an OAuth code stands.
InForce(s) ==
  \/ \E a \in Accounts : Live(a) /\ login[a] = s /\ ~used[a]
  \/ token[s] # None
  \/ oauth[s] # None
Standing(s) ==
  IF honoured[s] > 0 THEN "redeemed"
  ELSE IF s \notin issued THEN "unissued"
  ELSE IF InForce(s) /\ s \notin expired THEN "open"
  ELSE "void"

standing == [s \in Secrets |-> Standing(s)]

OneTime == INSTANCE Grant WITH Grants <- Secrets, phase <- standing, uses <- honoured

\* Each code and token is honoured at most once, and never again once it was
\* replaced, struck, expired or lost with its account: verifyLoginOtpToDB,
\* resetPasswordToDB and exchangeCode implement Grant, whatever they do at once.
SingleUse == OneTime!Spec

\* Nothing but its owner's deletion ends a verified account; above all not the
\* request that made it and then could not mail its code.
VerifiedStays ==
  [][\A a \in Accounts : account[a] = "verified" =>
       account'[a] = "verified" \/ \E r \in Requests : Erase(r)]_vars

\* Whoever is signed in enters an account that exists, is verified, and whose address
\* was proved to be its owner's, by a code mailed there or through Google, though others
\* may have signed up under it, or taken it since: unless its owner put that address in
\* the profile, which asks for no proof.
ProvenEnter ==
  [][\A a \in Accounts, s \in Secrets :
       <<a, s>> \in entered' \ entered =>
         /\ account'[a] = "verified"
         /\ <<a, email'[a]>> \in proven' \cup edited']_vars

=============================================================================
