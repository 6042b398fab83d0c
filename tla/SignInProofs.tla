------------------------------ MODULE SignInProofs ------------------------------
(***************************************************************************)
(* Proofs about SignIn, for every number of accounts, secrets, handlers    *)
(* and faults: its types, that SignIn implements Grant, that a verified    *)
(* account stays, and that whoever enters one finds it verified, under an  *)
(* address that was proved or put in the profile.                          *)
(***************************************************************************)
EXTENDS SignIn, TLAPS

(* What a handler in flight holds: an account, and where a later step uses *)
(* it, a secret.                                                           *)
Homeless == {"idle", "create", "googleCreate"}
Holding == {"storeCode", "mailCode", "lock", "miss", "compare", "consume",
            "mailRecovery", "storeRecovery", "confirm", "exchange"}
Trying == {"miss", "compare", "consume"}
Equipped ==
  \A r \in Requests :
    /\ at[r] \notin Homeless => on[r] \in Accounts
    /\ at[r] \in Holding => mine[r] \in Secrets
    /\ at[r] \in Trying => seen[r] < MaxTries
    /\ at[r] = "edit" => to[r] \in Addresses

Control ==
  /\ at \in [Requests -> Steps]
  /\ on \in [Requests -> Accounts \cup {None}]
  /\ to \in [Requests -> Addresses \cup {None}]
  /\ mine \in [Requests -> Secrets \cup {None}]
  /\ seen \in [Requests -> 0 .. MaxTries]
  /\ flag \in [Requests -> BOOLEAN]
  /\ Equipped

Data ==
  /\ account \in [Accounts -> AccountStates]
  /\ email \in [Accounts -> Addresses \cup {None}]
  /\ barred \subseteq Accounts
  /\ login \in [Accounts -> Secrets \cup {None}]
  /\ used \in [Accounts -> BOOLEAN]
  /\ tries \in [Accounts -> 0 .. MaxTries]
  /\ recovery \in [Accounts -> Secrets \cup {None}]
  /\ mayReset \in [Accounts -> BOOLEAN]
  /\ lapsed \subseteq Accounts
  /\ token \in [Secrets -> Accounts \cup {None}]
  /\ oauth \in [Secrets -> Accounts \cup {None}]
  /\ drawn \subseteq Secrets
  /\ recent \subseteq Secrets
  /\ expired \subseteq Secrets
  /\ mailed \in [Secrets -> Addresses \cup {None}]
  /\ issued \subseteq Secrets
  /\ entered \subseteq Accounts \X Secrets
  /\ proven \subseteq Accounts \X (Addresses \cup {None})
  /\ edited \subseteq Accounts \X Addresses
  /\ honoured \in [Secrets -> Nat]
  /\ faults \in 0 .. MaxFaults

TypeInv == Control /\ Data

-----------------------------------------------------------------------------
(* Types.  The control of a handler changes in one of three ways, or not   *)
(* at all.                                                                 *)

LEMMA TypeInit == Init => TypeInv
  BY TriesAssumption, FaultAssumption, NoneAssumption
     DEF Init, TypeInv, Control, Data, Equipped, AccountStates, Steps, Homeless,
         Holding, Trying

LEMMA ControlReturn ==
  ASSUME Control, NEW r \in Requests, Return(r)
  PROVE  Control'
  <1>1. "idle" \in Steps /\ "idle" \in Homeless /\ "idle" \notin Holding \cup Trying
    BY DEF Steps, Homeless, Holding, Trying
  <1>2. QED
    BY <1>1, TriesAssumption DEF Control, Equipped, Return

LEMMA ControlGoto ==
  ASSUME Control, NEW r \in Requests, NEW step \in Steps, Goto(r, step),
         step \notin Homeless => on[r] \in Accounts,
         step \in Holding => mine[r] \in Secrets,
         step \in Trying => seen[r] < MaxTries,
         step # "edit"
  PROVE  Control'
  BY DEF Control, Equipped, Goto

\* Take, but for the values of to[r] and flag[r].
Takes(r, step, a, s, n) ==
  /\ at' = [at EXCEPT ![r] = step]
  /\ on' = [on EXCEPT ![r] = a]
  /\ to' \in [Requests -> Addresses \cup {None}]
  /\ \A q \in Requests : q # r => to'[q] = to[q]
  /\ mine' = [mine EXCEPT ![r] = s]
  /\ seen' = [seen EXCEPT ![r] = n]
  /\ flag' \in [Requests -> BOOLEAN]

LEMMA ControlTake ==
  ASSUME Control, NEW r \in Requests, NEW step \in Steps,
         NEW a \in Accounts, NEW s \in Secrets \cup {None}, NEW n \in 0 .. MaxTries,
         Takes(r, step, a, s, n),
         step \in Holding => s \in Secrets,
         step \in Trying => n < MaxTries,
         step = "edit" => to'[r] \in Addresses
  PROVE  Control'
  BY DEF Control, Equipped, Takes

LEMMA ControlPrepare ==
  ASSUME Control, NEW r \in Requests, NEW step \in Steps \cap Homeless, NEW e \in Addresses,
         Prepare(r, step, e)
  PROVE  Control'
  <1>1. step \notin Holding \cup Trying
    BY DEF Homeless, Holding, Trying
  <1>2. QED
    BY <1>1 DEF Control, Equipped, Prepare

LEMMA ControlSame == Control /\ UNCHANGED job => Control'
  BY DEF Control, Equipped, job

LEMMA ControlCodes ==
  ASSUME TypeInv, NEW r \in Requests, CodeSteps(r)
  PROVE  Control'
  <1> USE TriesAssumption, NoneAssumption DEF TypeInv
  <1>1. ASSUME NEW e \in Addresses, StartFirstRequest(r, e)
        PROVE  Control'
    <2>1. "create" \in Steps \cap Homeless
      BY DEF Steps, Homeless
    <2>2. QED
      BY <1>1, <2>1, ControlPrepare DEF StartFirstRequest
  <1>2. CASE CreateRefused(r)
    BY <1>2, ControlReturn DEF CreateRefused
  <1>3. CASE StoreCode(r)
    <2>1. "mailCode" \in Steps /\ on[r] \in Accounts /\ ("mailCode" \in Holding => mine[r] \in Secrets)
          /\ "mailCode" \notin Trying
      BY <1>3 DEF StoreCode, At, Control, Equipped, Steps, Homeless, Holding, Trying
    <2>2. QED
      BY <1>3, <2>1, ControlGoto DEF StoreCode
  <1>4. CASE MailCode(r)
    BY <1>4, ControlReturn DEF MailCode
  <1>5. CASE MailCodeThrows(r)
    <2>1. "retract" \in Steps /\ on[r] \in Accounts /\ "retract" \notin Holding \cup Trying
      BY <1>5 DEF MailCodeThrows, At, Control, Equipped, Steps, Homeless, Holding, Trying
    <2>2. Goto(r, "retract") \/ Return(r)
      BY <1>5 DEF MailCodeThrows
    <2>3. QED
      BY <2>1, <2>2, ControlGoto, ControlReturn
  <1>6. CASE Retract(r)
    BY <1>6, ControlReturn DEF Retract
  <1>7. ASSUME NEW a \in Accounts, NEW s \in Secrets, StartRequest(r, a, s)
        PROVE  Control'
    <2>1. "storeCode" \in Steps \ Trying
      BY DEF Steps, Homeless, Holding, Trying
    <2>2. Takes(r, "storeCode", a, s, 0)
      BY <1>7 DEF StartRequest, Take, Takes, Control, Data
    <2>3. QED
      BY <2>1, <2>2, ControlTake
  <1>8. ASSUME NEW a \in Accounts, NEW s \in Secrets, StartResend(r, a, s)
        PROVE  Control'
    <2>1. "storeCode" \in Steps \ Trying
      BY DEF Steps, Homeless, Holding, Trying
    <2>2. Takes(r, "storeCode", a, s, 0)
      BY <1>8 DEF StartResend, StartRequest, Take, Takes, Control, Data
    <2>3. QED
      BY <2>1, <2>2, ControlTake
  <1>9. ASSUME NEW a \in Accounts, NEW s \in Secrets, CreatePending(r, a, s)
        PROVE  Control'
    <2>1. "storeCode" \in Steps \ Trying
      BY DEF Steps, Homeless, Holding, Trying
    <2>2. Takes(r, "storeCode", a, s, 0)
      BY <1>9 DEF CreatePending, Take, Takes, Control, Data
    <2>3. QED
      BY <2>1, <2>2, ControlTake
  <1>10. ASSUME NEW a \in Accounts, NEW right \in BOOLEAN, StartVerify(r, a, right)
        PROVE  Control'
    <2> DEFINE next == IF tries[a] >= MaxTries THEN "lock"
                       ELSE IF login[a] \in expired THEN "miss" ELSE "compare"
    <2>1. Takes(r, next, a, login[a], tries[a])
      BY <1>10 DEF StartVerify, Take, Takes, Control, Data
    <2>2. tries[a] \in 0 .. MaxTries /\ login[a] \in Secrets
      BY <1>10 DEF StartVerify, Data
    <2>3. next \in Steps /\ (next \in Trying => tries[a] < MaxTries) /\ next # "edit"
      BY <2>2 DEF Steps, Homeless, Holding, Trying
    <2> HIDE DEF next
    <2>4. QED
      BY <2>1, <2>2, <2>3, ControlTake
  <1>11. CASE Lock(r)
    BY <1>11, ControlReturn DEF Lock
  <1>12. CASE Miss(r)
    BY <1>12, ControlReturn DEF Miss
  <1>13. CASE Compare(r)
    <2>1. /\ "consume" \in Steps /\ "miss" \in Steps /\ on[r] \in Accounts
          /\ mine[r] \in Secrets /\ seen[r] < MaxTries
      BY <1>13 DEF Compare, At, Control, Equipped, Steps, Homeless, Holding, Trying
    <2>2. Goto(r, "consume") \/ Goto(r, "miss")
      BY <1>13 DEF Compare
    <2>3. QED
      BY <2>1, <2>2, ControlGoto
  <1>14. CASE Consume(r)
    BY <1>14, ControlReturn DEF Consume
  <1>15. QED
    BY <1>1, <1>2, <1>3, <1>4, <1>5, <1>6, <1>7, <1>8, <1>9, <1>10, <1>11, <1>12, <1>13, <1>14 DEF CodeSteps

LEMMA ControlRecovery ==
  ASSUME TypeInv, NEW r \in Requests, RecoverySteps(r)
  PROVE  Control'
  <1> USE TriesAssumption, NoneAssumption DEF TypeInv
  <1>1. ASSUME NEW a \in Accounts, NEW e \in Addresses, NEW s \in Secrets, SignUp(r, a, e, s)
        PROVE  Control'
    <2>1. "storeRecovery" \in Steps \ Trying
      BY DEF Steps, Homeless, Holding, Trying
    <2>2. Takes(r, "storeRecovery", a, s, 0)
      BY <1>1 DEF SignUp, Take, Takes, Control, Data
    <2>3. QED
      BY <2>1, <2>2, ControlTake
  <1>2. ASSUME NEW a \in Accounts, NEW s \in Secrets, NEW forgot \in BOOLEAN, StartRecovery(r, a, s, forgot)
        PROVE  Control'
    <2>1. "mailRecovery" \in Steps \ Trying
      BY DEF Steps, Homeless, Holding, Trying
    <2>2. Takes(r, "mailRecovery", a, s, 0)
      BY <1>2 DEF StartRecovery, Take, Takes, Control, Data
    <2>3. QED
      BY <2>1, <2>2, ControlTake
  <1>3. CASE MailRecovery(r)
    <2>1. "storeRecovery" \in Steps /\ on[r] \in Accounts /\ ("storeRecovery" \in Holding => mine[r] \in Secrets)
          /\ "storeRecovery" \notin Trying
      BY <1>3 DEF MailRecovery, At, Control, Equipped, Steps, Homeless, Holding, Trying
    <2>2. QED
      BY <1>3, <2>1, ControlGoto DEF MailRecovery
  <1>4. CASE StoreRecovery(r)
    BY <1>4, ControlReturn DEF StoreRecovery
  <1>5. ASSUME NEW a \in Accounts, StartConfirm(r, a)
        PROVE  Control'
    <2>1. {"confirm", "grantReset"} \subseteq Steps \ Trying
      BY DEF Steps, Homeless, Holding, Trying
    <2>2. \/ Takes(r, "confirm", a, recovery[a], 0)
          \/ Takes(r, "grantReset", a, recovery[a], 0)
      BY <1>5 DEF StartConfirm, Take, Takes, Control
    <2>3. recovery[a] \in Secrets
      BY <1>5 DEF StartConfirm, Data
    <2>4. QED
      BY <2>1, <2>2, <2>3, ControlTake
  <1>6. CASE Confirm(r)
    BY <1>6, ControlReturn DEF Confirm
  <1>7. CASE GrantReset(r)
    <2>1. "createToken" \in Steps /\ on[r] \in Accounts /\ ("createToken" \in Holding => mine[r] \in Secrets)
          /\ "createToken" \notin Trying
      BY <1>7 DEF GrantReset, At, Control, Equipped, Steps, Homeless, Holding, Trying
    <2>2. QED
      BY <1>7, <2>1, ControlGoto DEF GrantReset
  <1>8. ASSUME NEW s \in Secrets, CreateToken(r, s)
        PROVE  Control'
    BY <1>8, ControlReturn DEF CreateToken
  <1>9. ASSUME NEW s \in Secrets, TakeToken(r, s)
        PROVE  Control'
    <2>1. "permission" \in Steps \ (Trying \cup Holding)
      BY DEF Steps, Homeless, Holding, Trying
    <2>2. token[s] \in Accounts /\ Takes(r, "permission", token[s], None, 0)
      BY <1>9 DEF TakeToken, Data, Take, Takes, Control
    <2>3. QED
      BY <2>1, <2>2, ControlTake
  <1>10. CASE Permission(r)
    <2>1. "setPassword" \in Steps /\ on[r] \in Accounts /\ "setPassword" \notin Holding \cup Trying
      BY <1>10 DEF Permission, At, Control, Equipped, Steps, Homeless, Holding, Trying
    <2>2. Goto(r, "setPassword") \/ Return(r)
      BY <1>10 DEF Permission
    <2>3. QED
      BY <2>1, <2>2, ControlGoto, ControlReturn
  <1>11. CASE SetPassword(r)
    BY <1>11, ControlReturn DEF SetPassword
  <1>12. QED
    BY <1>1, <1>2, <1>3, <1>4, <1>5, <1>6, <1>7, <1>8, <1>9, <1>10, <1>11 DEF RecoverySteps

LEMMA ControlAccounts ==
  ASSUME TypeInv, NEW r \in Requests, AccountSteps(r) \/ Abort(r)
  PROVE  Control'
  <1> USE TriesAssumption, NoneAssumption DEF TypeInv
  <1>1. CASE GoogleSignIn(r)
    <2>1. /\ "createOAuth" \in Steps \ (Trying \cup Holding)
          /\ "googleCreate" \in Steps \cap Homeless
      BY DEF Steps, Homeless, Holding, Trying
    <2>2. \/ \E a \in Accounts : Takes(r, "createOAuth", a, None, 0)
          \/ \E e \in Addresses : Prepare(r, "googleCreate", e)
      BY <1>1 DEF GoogleSignIn, Take, Takes, Control
    <2>3. QED
      BY <2>1, <2>2, ControlTake, ControlPrepare
  <1>2. ASSUME NEW a \in Accounts, GoogleCreate(r, a)
        PROVE  Control'
    <2>1. "createOAuth" \in Steps \ Trying /\ "createOAuth" \notin Holding
      BY DEF Steps, Homeless, Holding, Trying
    <2>2. Takes(r, "createOAuth", a, None, 0)
      BY <1>2 DEF GoogleCreate, Take, Takes, Control, Data
    <2>3. QED
      BY <2>1, <2>2, ControlTake
  <1>3. ASSUME NEW a \in Accounts, StartDelete(r, a)
        PROVE  Control'
    <2>1. "erase" \in Steps \ Trying /\ "erase" \notin Holding
      BY DEF Steps, Homeless, Holding, Trying
    <2>2. Takes(r, "erase", a, None, 0)
      BY <1>3 DEF StartDelete, Take, Takes, Control, Data
    <2>3. QED
      BY <2>1, <2>2, ControlTake
  <1>4. ASSUME NEW s \in Secrets, CreateOAuthCode(r, s)
        PROVE  Control'
    BY <1>4, ControlReturn DEF CreateOAuthCode
  <1>5. ASSUME NEW s \in Secrets, TakeOAuthCode(r, s)
        PROVE  Control'
    <2>1. "exchange" \in Steps \ Trying
      BY DEF Steps, Homeless, Holding, Trying
    <2>2. oauth[s] \in Accounts /\ Takes(r, "exchange", oauth[s], s, 0)
      BY <1>5 DEF TakeOAuthCode, Data, Take, Takes, Control
    <2>3. QED
      BY <2>1, <2>2, ControlTake
  <1>6. CASE Exchange(r)
    BY <1>6, ControlReturn DEF Exchange
  <1>7. CASE Erase(r)
    BY <1>7, ControlReturn DEF Erase
  <1>8. CASE Abort(r)
    BY <1>8, ControlReturn DEF Abort
  <1>9. ASSUME NEW a \in Accounts, NEW e \in Addresses, StartEdit(r, a, e)
        PROVE  Control'
    <2>1. "edit" \in Steps \ Trying /\ "edit" \notin Holding
      BY DEF Steps, Homeless, Holding, Trying
    <2>2. Takes(r, "edit", a, None, 0) /\ to'[r] \in Addresses
      BY <1>9 DEF StartEdit, Take, Takes, Control
    <2>3. QED
      BY <2>1, <2>2, ControlTake
  <1>10. CASE Edit(r)
    BY <1>10, ControlReturn DEF Edit
  <1>11. QED
    BY <1>1, <1>2, <1>3, <1>4, <1>5, <1>6, <1>7, <1>8, <1>9, <1>10 DEF AccountSteps

(* What writing `authentication` leaves. *)
LEMMA DataAuth ==
  ASSUME TypeInv, NEW a \in Accounts, NEW code \in Secrets \cup {None}, SetAuth(a, code, FALSE)
  PROVE  /\ recovery' \in [Accounts -> Secrets \cup {None}]
         /\ mayReset' \in [Accounts -> BOOLEAN]
         /\ lapsed' \subseteq Accounts
  <1>1. mayReset' \in [Accounts -> BOOLEAN]
    BY DEF SetAuth, TypeInv, Data
  <1>2. QED
    BY <1>1 DEF SetAuth, TypeInv, Data

LEMMA DataCodes ==
  ASSUME TypeInv, NEW r \in Requests, CodeSteps(r)
  PROVE  Data'
  <1> USE TriesAssumption, FaultAssumption, NoneAssumption
      DEF TypeInv, Data, AccountStates, otp, auth, grants, clock, history
  <1>1. ASSUME NEW e \in Addresses, StartFirstRequest(r, e)
        PROVE  Data'
    BY <1>1 DEF StartFirstRequest
  <1>2. CASE CreateRefused(r)
    BY <1>2 DEF CreateRefused
  <1>3. CASE StoreCode(r)
    <2>1. on[r] \in Accounts /\ mine[r] \in Secrets
      BY <1>3 DEF StoreCode, At, Control, Equipped, Steps, Homeless, Holding, Trying
    <2>2. used' \in [Accounts -> BOOLEAN]
      BY <1>3 DEF StoreCode
    <2>3. CASE Live(on[r])
      BY <1>3, <2>1, <2>2, <2>3 DEF StoreCode
    <2>4. CASE ~Live(on[r])
      BY <1>3, <2>1, <2>4 DEF StoreCode
    <2>5. QED
      BY <2>3, <2>4
  <1>4. CASE MailCode(r)
    <2>1. mine[r] \in Secrets /\ to[r] \in Addresses \cup {None}
      BY <1>4 DEF MailCode, At, Control, Equipped, Steps, Homeless, Holding, Trying
    <2>2. QED
      BY <1>4, <2>1 DEF MailCode
  <1>5. CASE MailCodeThrows(r)
    BY <1>5 DEF MailCodeThrows
  <1>6. CASE Retract(r)
    <2>1. on[r] \in Accounts
      BY <1>6 DEF Retract, At, Control, Equipped, Steps, Homeless, Holding, Trying
    <2>2. QED
      BY <1>6, <2>1 DEF Retract, Delete
  <1>7. ASSUME NEW a \in Accounts, NEW s \in Secrets, StartRequest(r, a, s)
        PROVE  Data'
    BY <1>7 DEF StartRequest, Draw
  <1>8. ASSUME NEW a \in Accounts, NEW s \in Secrets, StartResend(r, a, s)
        PROVE  Data'
    BY <1>8 DEF StartResend, StartRequest, Draw
  <1>9. ASSUME NEW a \in Accounts, NEW s \in Secrets, CreatePending(r, a, s)
        PROVE  Data'
    BY <1>9 DEF CreatePending, Draw, Insert, Control
  <1>10. ASSUME NEW a \in Accounts, NEW right \in BOOLEAN, StartVerify(r, a, right)
        PROVE  Data'
    BY <1>10 DEF StartVerify
  <1>11. CASE Lock(r)
    <2>1. on[r] \in Accounts
      BY <1>11 DEF Lock, At, Control, Equipped, Steps, Homeless, Holding, Trying
    <2>2. QED
      BY <1>11, <2>1 DEF Lock
  <1>12. CASE Miss(r)
    <2>1. on[r] \in Accounts /\ seen[r] + 1 \in 0 .. MaxTries
      BY <1>12 DEF Miss, At, Control, Equipped, Steps, Homeless, Holding, Trying
    <2>2. QED
      BY <1>12, <2>1 DEF Miss
  <1>13. CASE Compare(r)
    BY <1>13 DEF Compare
  <1>14. CASE Consume(r)
    <2>1. on[r] \in Accounts /\ mine[r] \in Secrets /\ seen[r] + 1 \in 0 .. MaxTries
      BY <1>14 DEF Consume, At, Control, Equipped, Steps, Homeless, Holding, Trying
    <2> DEFINE fits == Live(on[r]) /\ login[on[r]] = mine[r] /\ ~used[on[r]]
                         /\ mine[r] \notin expired
    <2>2. used' \in [Accounts -> BOOLEAN]
      BY <1>14 DEF Consume
    <2>3. CASE fits
      BY <1>14, <2>1, <2>2, <2>3 DEF Consume
    <2>4. CASE ~fits
      BY <1>14, <2>1, <2>4 DEF Consume
    <2>5. QED
      BY <2>3, <2>4
  <1> HIDE DEF TypeInv, Data
  <1>15. QED
    BY <1>1, <1>2, <1>3, <1>4, <1>5, <1>6, <1>7, <1>8, <1>9, <1>10, <1>11, <1>12, <1>13, <1>14 DEF CodeSteps

LEMMA DataRecovery ==
  ASSUME TypeInv, NEW r \in Requests, RecoverySteps(r)
  PROVE  Data'
  <1> USE TriesAssumption, FaultAssumption, NoneAssumption
      DEF TypeInv, Data, AccountStates, otp, auth, grants, clock, history
  <1>1. ASSUME NEW a \in Accounts, NEW e \in Addresses, NEW s \in Secrets, SignUp(r, a, e, s)
        PROVE  Data'
    BY <1>1 DEF SignUp, Draw, Insert
  <1>2. ASSUME NEW a \in Accounts, NEW s \in Secrets, NEW forgot \in BOOLEAN, StartRecovery(r, a, s, forgot)
        PROVE  Data'
    BY <1>2 DEF StartRecovery, Draw
  <1>3. CASE MailRecovery(r)
    <2>1. mine[r] \in Secrets /\ to[r] \in Addresses \cup {None}
      BY <1>3 DEF MailRecovery, At, Control, Equipped, Steps, Homeless, Holding, Trying
    <2>2. QED
      BY <1>3, <2>1 DEF MailRecovery
  <1>4. CASE StoreRecovery(r)
    <2>1. on[r] \in Accounts /\ mine[r] \in Secrets
      BY <1>4 DEF StoreRecovery, At, Control, Equipped, Steps, Homeless, Holding, Trying
    <2>2. \/ \E a \in Accounts : SetAuth(a, mine[r], FALSE)
          \/ UNCHANGED auth
      BY <1>4, <2>1 DEF StoreRecovery
    <2>3. CASE UNCHANGED auth
      BY <1>4, <2>3 DEF StoreRecovery
    <2>4. ASSUME NEW a \in Accounts, SetAuth(a, mine[r], FALSE)
          PROVE  Data'
      BY <1>4, <2>1, <2>4, DataAuth DEF StoreRecovery
    <2>5. QED
      BY <2>2, <2>3, <2>4
  <1>5. ASSUME NEW a \in Accounts, StartConfirm(r, a)
        PROVE  Data'
    BY <1>5 DEF StartConfirm
  <1>6. CASE Confirm(r)
    <2>1. on[r] \in Accounts /\ mine[r] \in Secrets
      BY <1>6 DEF Confirm, At, Control, Equipped, Steps, Homeless, Holding, Trying
    <2>2. proven' \subseteq Accounts \X (Addresses \cup {None})
      BY <1>6, <2>1 DEF Confirm
    <2>3. account' \in [Accounts -> AccountStates]
      BY <1>6, <2>1 DEF Confirm
    <2>4. SetAuth(on[r], None, FALSE)
      BY <1>6 DEF Confirm
    <2>5. /\ mayReset' \in [Accounts -> BOOLEAN]
          /\ recovery' \in [Accounts -> Secrets \cup {None}] /\ lapsed' \subseteq Accounts
      BY <2>1, <2>4, DataAuth
    <2>6. UNCHANGED <<email, barred, login, used, tries, token, oauth, drawn, recent, expired,
                      mailed, issued, honoured, entered, edited, faults>>
      BY <1>6 DEF Confirm
    <2>7. QED
      BY <2>2, <2>3, <2>5, <2>6
  <1>7. CASE GrantReset(r)
    <2>1. on[r] \in Accounts
      BY <1>7 DEF GrantReset, At, Control, Equipped, Steps, Homeless, Holding, Trying
    <2>2. QED
      BY <1>7, <2>1 DEF GrantReset, SetAuth
  <1>8. ASSUME NEW s \in Secrets, CreateToken(r, s)
        PROVE  Data'
    <2>1. on[r] \in Accounts
      BY <1>8 DEF CreateToken, At, Control, Equipped, Steps, Homeless, Holding, Trying
    <2>2. QED
      BY <1>8, <2>1 DEF CreateToken, Draw
  <1>9. ASSUME NEW s \in Secrets, TakeToken(r, s)
        PROVE  Data'
    BY <1>9 DEF TakeToken
  <1>10. CASE Permission(r)
    BY <1>10 DEF Permission
  <1>11. CASE SetPassword(r)
    <2>1. on[r] \in Accounts
      BY <1>11 DEF SetPassword, At, Control, Equipped, Steps, Homeless, Holding, Trying
    <2>2. QED
      BY <1>11, <2>1 DEF SetPassword, SetAuth
  <1> HIDE DEF TypeInv, Data
  <1>12. QED
    BY <1>1, <1>2, <1>3, <1>4, <1>5, <1>6, <1>7, <1>8, <1>9, <1>10, <1>11 DEF RecoverySteps

LEMMA DataAccounts ==
  ASSUME TypeInv, NEW r \in Requests, AccountSteps(r) \/ Abort(r)
  PROVE  Data'
  <1> USE TriesAssumption, FaultAssumption, NoneAssumption
      DEF TypeInv, Data, AccountStates, otp, auth, grants, clock, history
  <1>1. CASE GoogleSignIn(r)
    BY <1>1 DEF GoogleSignIn
  <1>2. ASSUME NEW a \in Accounts, GoogleCreate(r, a)
        PROVE  Data'
    BY <1>2 DEF GoogleCreate, Insert, Control
  <1>3. ASSUME NEW a \in Accounts, StartDelete(r, a)
        PROVE  Data'
    BY <1>3 DEF StartDelete
  <1>4. ASSUME NEW s \in Secrets, CreateOAuthCode(r, s)
        PROVE  Data'
    <2>1. on[r] \in Accounts
      BY <1>4 DEF CreateOAuthCode, At, Control, Equipped, Steps, Homeless, Holding, Trying
    <2>2. QED
      BY <1>4, <2>1 DEF CreateOAuthCode, Draw
  <1>5. ASSUME NEW s \in Secrets, TakeOAuthCode(r, s)
        PROVE  Data'
    BY <1>5 DEF TakeOAuthCode
  <1>6. CASE Exchange(r)
    <2>1. on[r] \in Accounts /\ mine[r] \in Secrets
      BY <1>6 DEF Exchange, At, Control, Equipped, Steps, Homeless, Holding, Trying
    <2>2. QED
      BY <1>6, <2>1 DEF Exchange
  <1>7. CASE Erase(r)
    <2>1. on[r] \in Accounts
      BY <1>7 DEF Erase, At, Control, Equipped, Steps, Homeless, Holding, Trying
    <2>2. QED
      BY <1>7, <2>1 DEF Erase, Delete
  <1>8. CASE Abort(r)
    BY <1>8 DEF Abort
  <1>9. ASSUME NEW a \in Accounts, NEW e \in Addresses, StartEdit(r, a, e)
        PROVE  Data'
    BY <1>9 DEF StartEdit
  <1>10. CASE Edit(r)
    <2>1. on[r] \in Accounts
      BY <1>10 DEF Edit, At, Control, Equipped, Steps, Homeless, Holding, Trying
    <2>2. to[r] \in Addresses
      BY <1>10 DEF Edit, At, Control, Equipped
    <2>3. QED
      BY <1>10, <2>1, <2>2 DEF Edit
  <1> HIDE DEF TypeInv, Data
  <1>11. QED
    BY <1>1, <1>2, <1>3, <1>4, <1>5, <1>6, <1>7, <1>8, <1>9, <1>10 DEF AccountSteps

LEMMA TypeStep == TypeInv /\ [Next]_vars => TypeInv'
  <1> SUFFICES ASSUME TypeInv, [Next]_vars
               PROVE  TypeInv'
    OBVIOUS
  <1>1. ASSUME NEW s \in Secrets, Cool(s) \/ Expire(s)
        PROVE  TypeInv'
    BY <1>1, ControlSame DEF Cool, Expire, TypeInv, Data, otp, auth, grants, history
  <1>2. ASSUME NEW a \in Accounts, Bar(a) \/ Lapse(a)
        PROVE  TypeInv'
    BY <1>2, ControlSame DEF Bar, Lapse, TypeInv, Data, otp, auth, grants, clock, history
  <1>3. CASE UNCHANGED vars
    BY <1>3, ControlSame DEF vars, TypeInv, Data, otp, auth, grants, clock, history
  <1>4. QED
    BY <1>1, <1>2, <1>3, ControlCodes, ControlRecovery, ControlAccounts,
       DataCodes, DataRecovery, DataAccounts DEF Next, TypeInv

LEMMA TypeFact == TypeInv => TypeOK
  BY DEF TypeInv, TypeOK, Control, Data

\* Every variable has its type, whatever the handlers do.
THEOREM Typing == Spec => []TypeOK
  <1>1. QED
    BY TypeInit, TypeStep, TypeFact, PTL DEF Spec

-----------------------------------------------------------------------------
(* Single use.  The invariant says where a secret may be found: one that   *)
(* is in force was issued, is in one place only and has opened nothing     *)
(* yet; one that a handler is about to store is nowhere, and no other      *)
(* handler's.                                                              *)

Placed ==
  /\ \A a \in Accounts : login[a] # None => login[a] \in issued
  /\ \A s \in Secrets : token[s] # None \/ oauth[s] # None \/ honoured[s] > 0 => s \in issued
  /\ expired \subseteq issued /\ issued \subseteq drawn
  /\ \A a \in Accounts : account[a] = "unused" => login[a] = None
OnePlace ==
  /\ \A a, b \in Accounts : login[a] # None /\ login[a] = login[b] => a = b
  /\ \A a \in Accounts :
       login[a] # None => token[login[a]] = None /\ oauth[login[a]] = None
  /\ \A s \in Secrets : token[s] = None \/ oauth[s] = None
Unspent ==
  /\ \A s \in Secrets : token[s] # None \/ oauth[s] # None => honoured[s] = 0
  /\ \A a \in Accounts : login[a] # None /\ ~used[a] => honoured[login[a]] = 0
Unplaced ==
  /\ \A r \in Requests : At(r, "storeCode") => mine[r] \in drawn \ issued
  /\ \A r, q \in Requests :
       At(r, "storeCode") /\ At(q, "storeCode") /\ mine[r] = mine[q] => r = q

UseInv == Placed /\ OnePlace /\ Unspent /\ Unplaced

LEMMA UseInit == Init => UseInv
  BY NoneAssumption DEF Init, UseInv, Placed, OnePlace, Unspent, Unplaced, At

(* Most steps leave all secrets where they are, draw one at most, and      *)
(* bring no handler to storeCode.                                          *)
Aside ==
  /\ UNCHANGED <<login, used, token, oauth, issued, honoured>>
  /\ expired' \subseteq issued
  /\ \A a \in Accounts : account'[a] = "unused" => account[a] = "unused"
  /\ drawn \subseteq drawn'
  /\ \A q \in Requests :
       At(q, "storeCode")' => At(q, "storeCode") /\ mine'[q] = mine[q]

(* Most of these leave the accounts that have a code as they are, too.     *)
Calm ==
  /\ UNCHANGED <<login, used, token, oauth, issued, honoured, expired>>
  /\ \A a \in Accounts : login[a] # None => (Live(a)' <=> Live(a))

LEMMA UseAside == TypeInv /\ UseInv /\ Aside => UseInv'
  <1> SUFFICES ASSUME TypeInv, UseInv, Aside
               PROVE  UseInv'
    OBVIOUS
  <1>1. Placed'
    BY DEF UseInv, Placed, Aside
  <1>2. OnePlace' /\ Unspent'
    BY DEF UseInv, OnePlace, Unspent, Aside
  <1>3. Unplaced'
    BY DEF UseInv, Unplaced, Aside
  <1>4. QED
    BY <1>1, <1>2, <1>3 DEF UseInv

LEMMA AsideCodes ==
  ASSUME TypeInv, UseInv, NEW r \in Requests
  PROVE  /\ \A e \in Addresses : StartFirstRequest(r, e) => Aside /\ Calm
         /\ CreateRefused(r) => Aside /\ Calm
         /\ MailCode(r) => Aside /\ Calm
         /\ MailCodeThrows(r) => Aside /\ Calm
         /\ Retract(r) => Aside
         /\ \A a \in Accounts, right \in BOOLEAN : StartVerify(r, a, right) => Aside /\ Calm
         /\ Miss(r) => Aside /\ Calm
         /\ Compare(r) => Aside /\ Calm
  <1>a. expired \subseteq issued
    BY DEF UseInv, Placed
  <1>b. \A a \in Accounts : account[a] = "unused" => login[a] = None
    BY DEF UseInv, Placed
  <1> USE <1>a, <1>b DEF TypeInv, Data, Control, Aside, Calm, Live, clock, At, Goto, Return, otp, auth, grants, history, AccountStates
  <1>1. ASSUME NEW e \in Addresses, StartFirstRequest(r, e)
        PROVE  Aside /\ Calm
    BY <1>1 DEF StartFirstRequest, Prepare
  <1>2. ASSUME CreateRefused(r)
        PROVE  Aside /\ Calm
    BY <1>2 DEF CreateRefused
  <1>3. ASSUME MailCode(r)
        PROVE  Aside /\ Calm
    BY <1>3 DEF MailCode
  <1>4. ASSUME MailCodeThrows(r)
        PROVE  Aside /\ Calm
    BY <1>4 DEF MailCodeThrows
  <1>5. ASSUME Retract(r)
        PROVE  Aside
    BY <1>5 DEF Retract, Delete
  <1>6. ASSUME NEW a \in Accounts, NEW right \in BOOLEAN, StartVerify(r, a, right)
        PROVE  Aside /\ Calm
    BY <1>6 DEF StartVerify, Take
  <1>7. ASSUME Miss(r)
        PROVE  Aside /\ Calm
    BY <1>7 DEF Miss
  <1>8. ASSUME Compare(r)
        PROVE  Aside /\ Calm
    BY <1>8 DEF Compare
  <1> HIDE DEF Aside, Calm
  <1>9. QED
    BY <1>1, <1>2, <1>3, <1>4, <1>5, <1>6, <1>7, <1>8

LEMMA AsideRecovery ==
  ASSUME TypeInv, UseInv, NEW r \in Requests
  PROVE  /\ \A a \in Accounts, e \in Addresses, s \in Secrets : SignUp(r, a, e, s) => Aside /\ Calm
         /\ \A a \in Accounts, s \in Secrets, forgot \in BOOLEAN : StartRecovery(r, a, s, forgot) => Aside /\ Calm
         /\ MailRecovery(r) => Aside /\ Calm
         /\ StoreRecovery(r) => Aside /\ Calm
         /\ \A a \in Accounts : StartConfirm(r, a) => Aside /\ Calm
         /\ Confirm(r) => Aside /\ Calm
         /\ GrantReset(r) => Aside /\ Calm
         /\ Permission(r) => Aside /\ Calm
         /\ SetPassword(r) => Aside /\ Calm
  <1>a. expired \subseteq issued
    BY DEF UseInv, Placed
  <1>b. \A a \in Accounts : account[a] = "unused" => login[a] = None
    BY DEF UseInv, Placed
  <1> USE <1>a, <1>b DEF TypeInv, Data, Control, Aside, Calm, Live, clock, At, Goto, Return, otp, auth, grants, history, AccountStates
  <1>1. ASSUME NEW a \in Accounts, NEW e \in Addresses, NEW s \in Secrets, SignUp(r, a, e, s)
        PROVE  Aside /\ Calm
    BY <1>1 DEF SignUp, Take, Draw, Insert
  <1>2. ASSUME NEW a \in Accounts, NEW s \in Secrets, NEW forgot \in BOOLEAN, StartRecovery(r, a, s, forgot)
        PROVE  Aside /\ Calm
    BY <1>2 DEF StartRecovery, Take, Draw
  <1>3. ASSUME MailRecovery(r)
        PROVE  Aside /\ Calm
    BY <1>3 DEF MailRecovery
  <1>4. ASSUME StoreRecovery(r)
        PROVE  Aside /\ Calm
    BY <1>4 DEF StoreRecovery
  <1>5. ASSUME NEW a \in Accounts, StartConfirm(r, a)
        PROVE  Aside /\ Calm
    BY <1>5 DEF StartConfirm, Take
  <1>6. ASSUME Confirm(r)
        PROVE  Aside /\ Calm
    BY <1>6 DEF Confirm, Live
  <1>7. ASSUME GrantReset(r)
        PROVE  Aside /\ Calm
    BY <1>7 DEF GrantReset
  <1>8. ASSUME Permission(r)
        PROVE  Aside /\ Calm
    BY <1>8 DEF Permission
  <1>9. ASSUME SetPassword(r)
        PROVE  Aside /\ Calm
    BY <1>9 DEF SetPassword
  <1> HIDE DEF Aside, Calm
  <1>10. QED
    BY <1>1, <1>2, <1>3, <1>4, <1>5, <1>6, <1>7, <1>8, <1>9

LEMMA AsideAccounts ==
  ASSUME TypeInv, UseInv, NEW r \in Requests
  PROVE  /\ GoogleSignIn(r) => Aside /\ Calm
         /\ \A a \in Accounts : GoogleCreate(r, a) => Aside /\ Calm
         /\ \A a \in Accounts : StartDelete(r, a) => Aside /\ Calm
         /\ \A a \in Accounts, e \in Addresses : StartEdit(r, a, e) => Aside /\ Calm
         /\ Edit(r) => Aside /\ Calm
         /\ Exchange(r) => Aside /\ Calm
         /\ Erase(r) => Aside
         /\ Abort(r) => Aside /\ Calm
  <1>a. expired \subseteq issued
    BY DEF UseInv, Placed
  <1>b. \A a \in Accounts : account[a] = "unused" => login[a] = None
    BY DEF UseInv, Placed
  <1> USE <1>a, <1>b DEF TypeInv, Data, Control, Aside, Calm, Live, clock, At, Goto, Return, otp, auth, grants, history, AccountStates
  <1>1. ASSUME GoogleSignIn(r)
        PROVE  Aside /\ Calm
    BY <1>1 DEF GoogleSignIn, Take, Prepare
  <1>2. ASSUME NEW a \in Accounts, GoogleCreate(r, a)
        PROVE  Aside /\ Calm
    BY <1>2 DEF GoogleCreate, Take, Insert
  <1>3. ASSUME NEW a \in Accounts, StartDelete(r, a)
        PROVE  Aside /\ Calm
    BY <1>3 DEF StartDelete, Take
  <1>4. ASSUME Exchange(r)
        PROVE  Aside /\ Calm
    BY <1>4 DEF Exchange
  <1>5. ASSUME Erase(r)
        PROVE  Aside
    BY <1>5 DEF Erase, Delete
  <1>6. ASSUME Abort(r)
        PROVE  Aside /\ Calm
    BY <1>6 DEF Abort
  <1>7. ASSUME NEW a \in Accounts, NEW e \in Addresses, StartEdit(r, a, e)
        PROVE  Aside /\ Calm
    BY <1>7 DEF StartEdit, Take
  <1>8. ASSUME Edit(r)
        PROVE  Aside /\ Calm
    BY <1>8 DEF Edit
  <1> HIDE DEF Aside, Calm
  <1>9. QED
    BY <1>1, <1>2, <1>3, <1>4, <1>5, <1>6, <1>7, <1>8

(* The steps that do move a secret. *)
LEMMA UseDrawn ==
  ASSUME TypeInv, UseInv, NEW r \in Requests, NEW a \in Accounts, NEW s \in Secrets,
         StartRequest(r, a, s) \/ StartResend(r, a, s) \/ CreatePending(r, a, s)
  PROVE  UseInv'
  <1>1. /\ UNCHANGED <<login, used, token, oauth, issued, honoured, expired>>
        /\ s \notin drawn /\ drawn' = drawn \cup {s}
        /\ at' = [at EXCEPT ![r] = "storeCode"] /\ mine' = [mine EXCEPT ![r] = s]
        /\ ~At(r, "storeCode")
    BY DEF StartRequest, StartResend, CreatePending, Draw, Take, At, otp, grants, history, clock
  <1>2. \A b \in Accounts : account'[b] = "unused" => account[b] = "unused"
    BY DEF StartRequest, StartResend, CreatePending, Insert, TypeInv, Data
  <1>3. Placed' /\ OnePlace' /\ Unspent'
    BY <1>1, <1>2 DEF UseInv, Placed, OnePlace, Unspent
  <1>4. Unplaced'
    BY <1>1 DEF UseInv, Unplaced, Placed, At, TypeInv, Control
  <1>5. QED
    BY <1>3, <1>4 DEF UseInv

LEMMA UseStored ==
  ASSUME TypeInv, UseInv, NEW r \in Requests, StoreCode(r)
  PROVE  UseInv'
  <1>1. on[r] \in Accounts /\ mine[r] \in drawn \ issued /\ mine[r] \in Secrets
    BY DEF TypeInv, Control, Equipped, Homeless, Holding, UseInv, Unplaced, StoreCode, At
  <1>2. CASE ~Live(on[r])
    <2>1. Aside
      BY <1>2 DEF StoreCode, Goto, At, Aside, TypeInv, Control, otp, auth, grants, UseInv, Placed
    <2>2. QED
      BY <2>1, UseAside
  <1>3. CASE Live(on[r])
    <2>1. /\ login' = [login EXCEPT ![on[r]] = mine[r]]
          /\ used' = [used EXCEPT ![on[r]] = FALSE]
          /\ issued' = issued \cup {mine[r]}
          /\ UNCHANGED <<account, token, oauth, honoured, drawn, mine, expired>>
          /\ at' = [at EXCEPT ![r] = "mailCode"]
      BY <1>3 DEF StoreCode, Goto, grants
    <2>2. /\ token[mine[r]] = None /\ oauth[mine[r]] = None /\ honoured[mine[r]] = 0
          /\ \A a \in Accounts : login[a] # mine[r]
          /\ account[on[r]] # "unused"
      <3>1. ~(honoured[mine[r]] > 0)
        BY <1>1 DEF UseInv, Placed
      <3>2. QED
        BY <1>1, <1>3, <3>1, NoneAssumption DEF UseInv, Placed, Live, TypeInv, Data
    <2>3. Placed'
      BY <1>1, <2>1, <2>2 DEF UseInv, Placed, TypeInv, Data
    <2>4. OnePlace'
      BY <1>1, <2>1, <2>2, NoneAssumption DEF UseInv, OnePlace, TypeInv, Data
    <2>5. Unspent'
      <3>1. \A a \in Accounts : a # on[r] => used'[a] = used[a]
        BY <2>1 DEF TypeInv, Data
      <3>2. QED
        BY <1>1, <2>1, <2>2, <3>1 DEF UseInv, Unspent, TypeInv, Data
    <2>6. Unplaced'
      BY <1>1, <2>1 DEF UseInv, Unplaced, At, StoreCode, TypeInv, Control
    <2>7. QED
      BY <2>3, <2>4, <2>5, <2>6 DEF UseInv
  <1>4. QED
    BY <1>2, <1>3

LEMMA UseLocked ==
  ASSUME TypeInv, UseInv, NEW r \in Requests, Lock(r)
  PROVE  UseInv'
  <1>1. /\ \A a \in Accounts : login'[a] \in {login[a], None}
        /\ UNCHANGED <<account, used, token, oauth, issued, honoured, drawn, expired>>
        /\ at' = [at EXCEPT ![r] = "idle"] /\ mine' = [mine EXCEPT ![r] = None]
    BY DEF Lock, Return, grants, history, clock, TypeInv, Data
  <1>2. Placed' /\ OnePlace' /\ Unspent'
    BY <1>1 DEF UseInv, Placed, OnePlace, Unspent
  <1>3. Unplaced'
    BY <1>1 DEF UseInv, Unplaced, At, TypeInv, Control
  <1>4. QED
    BY <1>2, <1>3 DEF UseInv

LEMMA UseConsumed ==
  ASSUME TypeInv, UseInv, NEW r \in Requests, Consume(r)
  PROVE  UseInv'
  <1> DEFINE a == on[r]
  <1> DEFINE fits == Live(a) /\ login[a] = mine[r] /\ ~used[a] /\ mine[r] \notin expired
  <1>1. a \in Accounts /\ mine[r] \in Secrets
    BY DEF TypeInv, Control, Equipped, Homeless, Holding, Consume, At
  <1>2. CASE ~fits
    <2>1. Aside
      BY <1>2 DEF Consume, Return, At, Aside, TypeInv, Control, auth, grants, clock, UseInv, Placed
    <2>2. QED
      BY <2>1, UseAside
  <1>3. CASE fits
    <2>1. /\ used' = [used EXCEPT ![a] = TRUE]
          /\ account' = [account EXCEPT ![a] = "verified"]
          /\ honoured' = [honoured EXCEPT ![mine[r]] = honoured[mine[r]] + 1]
          /\ UNCHANGED <<login, token, oauth, issued, drawn, expired>>
          /\ at' = [at EXCEPT ![r] = "idle"] /\ mine' = [mine EXCEPT ![r] = None]
      BY <1>3 DEF Consume, Return, grants, clock
    <2>2. mine[r] # None /\ login[a] = mine[r]
      BY <1>1, <1>3, NoneAssumption
    <2>3. Placed'
      BY <1>1, <2>1, <2>2 DEF UseInv, Placed, TypeInv, Data
    <2>4. OnePlace'
      BY <2>1 DEF UseInv, OnePlace
    <2>5. Unspent'
      <3>1. used'[a] /\ \A b \in Accounts : b # a => used'[b] = used[b]
        BY <1>1, <2>1 DEF TypeInv, Data
      <3>2. \A b \in Accounts : b # a => login[b] # mine[r]
        BY <1>1, <2>2 DEF UseInv, OnePlace
      <3>3. token[mine[r]] = None /\ oauth[mine[r]] = None
        BY <1>1, <2>2 DEF UseInv, OnePlace
      <3>4. \A s \in Secrets : s # mine[r] => honoured'[s] = honoured[s]
        BY <2>1 DEF TypeInv, Data
      <3>5. login' = login /\ token' = token /\ oauth' = oauth
        BY <2>1
      <3>6. \A b \in Accounts : login[b] # None => login[b] \in Secrets
        BY DEF TypeInv, Data
      <3>7. QED
        BY <2>2, <3>1, <3>2, <3>3, <3>4, <3>5, <3>6 DEF UseInv, Unspent
    <2>6. Unplaced'
      BY <2>1 DEF UseInv, Unplaced, At, TypeInv, Control
    <2>7. QED
      BY <2>3, <2>4, <2>5, <2>6 DEF UseInv
  <1>4. QED
    BY <1>2, <1>3

LEMMA UseCreated ==
  ASSUME TypeInv, UseInv, NEW r \in Requests, NEW s \in Secrets,
         CreateToken(r, s) \/ CreateOAuthCode(r, s)
  PROVE  UseInv'
  <1>1. /\ UNCHANGED <<account, login, used, honoured, expired>>
        /\ issued' = issued \cup {s} /\ drawn' = drawn \cup {s} /\ s \notin drawn
        /\ at' = [at EXCEPT ![r] = "idle"] /\ mine' = [mine EXCEPT ![r] = None]
        /\ \/ token' = [token EXCEPT ![s] = on[r]] /\ oauth' = oauth
           \/ oauth' = [oauth EXCEPT ![s] = on[r]] /\ token' = token
    BY DEF CreateToken, CreateOAuthCode, Draw, Return, otp, clock
  <1>2. /\ token[s] = None /\ oauth[s] = None /\ honoured[s] = 0
        /\ \A a \in Accounts : login[a] # s
    <2>1. ~(honoured[s] > 0) /\ s \notin issued
      BY <1>1 DEF UseInv, Placed
    <2>2. QED
      BY <2>1, NoneAssumption DEF UseInv, Placed, TypeInv, Data
  <1>3. Placed'
    BY <1>1 DEF UseInv, Placed, TypeInv, Data
  <1>4. OnePlace'
    BY <1>1, <1>2 DEF UseInv, OnePlace, TypeInv, Data
  <1>5. Unspent'
    BY <1>1, <1>2 DEF UseInv, Unspent, TypeInv, Data
  <1>6. Unplaced'
    BY <1>1 DEF UseInv, Unplaced, Placed, At, TypeInv, Control
  <1>7. QED
    BY <1>3, <1>4, <1>5, <1>6 DEF UseInv

LEMMA UseTaken ==
  ASSUME TypeInv, UseInv, NEW r \in Requests, NEW s \in Secrets,
         TakeToken(r, s) \/ TakeOAuthCode(r, s)
  PROVE  UseInv'
  <1>1. /\ UNCHANGED <<account, login, used, issued, drawn, expired>>
        /\ honoured' = [honoured EXCEPT ![s] = honoured[s] + 1]
        /\ \A q \in Requests : q # r => mine'[q] = mine[q]
        /\ \/ at' = [at EXCEPT ![r] = "permission"]
           \/ at' = [at EXCEPT ![r] = "exchange"]
        /\ \/ token' = [token EXCEPT ![s] = None] /\ oauth' = oauth /\ token[s] # None
           \/ oauth' = [oauth EXCEPT ![s] = None] /\ token' = token /\ oauth[s] # None
    BY DEF TakeToken, TakeOAuthCode, Take, otp, clock, TypeInv, Control
  <1>2. s \in issued /\ (\A a \in Accounts : login[a] # s) /\ token'[s] = None /\ oauth'[s] = None
    BY <1>1, NoneAssumption DEF UseInv, Placed, OnePlace, TypeInv, Data
  <1>3. Placed'
    BY <1>1, <1>2 DEF UseInv, Placed, TypeInv, Data
  <1>4. OnePlace'
    BY <1>1 DEF UseInv, OnePlace, TypeInv, Data
  <1>5. Unspent'
    <2>1. \A g \in Secrets : g # s => honoured'[g] = honoured[g] /\ token'[g] = token[g]
                                     /\ oauth'[g] = oauth[g]
      BY <1>1 DEF TypeInv, Data
    <2>2. \A a \in Accounts : login[a] # None => login[a] \in Secrets
      BY DEF TypeInv, Data
    <2>3. QED
      BY <1>1, <1>2, <2>1, <2>2 DEF UseInv, Unspent
  <1>6. Unplaced'
    BY <1>1 DEF UseInv, Unplaced, At, TypeInv, Control
  <1>7. QED
    BY <1>3, <1>4, <1>5, <1>6 DEF UseInv

LEMMA UseStep == TypeInv /\ UseInv /\ [Next]_vars => UseInv'
  <1> SUFFICES ASSUME TypeInv, UseInv, [Next]_vars
               PROVE  UseInv'
    OBVIOUS
  <1>1. ASSUME NEW r \in Requests, CodeSteps(r)
        PROVE  UseInv'
    BY <1>1, UseAside, AsideCodes, UseDrawn, UseStored, UseLocked, UseConsumed
       DEF CodeSteps
  <1>2. ASSUME NEW r \in Requests, RecoverySteps(r)
        PROVE  UseInv'
    BY <1>2, UseAside, AsideRecovery, UseCreated, UseTaken DEF RecoverySteps
  <1>3. ASSUME NEW r \in Requests, AccountSteps(r) \/ Abort(r)
        PROVE  UseInv'
    BY <1>3, UseAside, AsideAccounts, UseCreated, UseTaken DEF AccountSteps
  <1>4. ASSUME \/ \E s \in Secrets : Cool(s) \/ Expire(s)
               \/ \E a \in Accounts : Bar(a) \/ Lapse(a)
               \/ UNCHANGED vars
        PROVE  UseInv'
    <2>1. Aside
      BY <1>4 DEF Cool, Expire, Bar, Lapse, Aside, At, vars, otp, auth, grants, clock,
                  history, job, UseInv, Placed
    <2>2. QED
      BY <2>1, UseAside
  <1>5. QED
    BY <1>1, <1>2, <1>3, <1>4 DEF Next

-----------------------------------------------------------------------------
(* SignIn implements Grant.  Opens(s) is what makes a secret that opened   *)
(* nothing yet "open"; a step changes it for the secret it is about, and   *)
(* for the one it replaces.                                                *)

Opens(s) == InForce(s) /\ s \notin expired
Abstract == [OneTime!Next]_<<standing, honoured>>

LEMMA OpensIssued ==
  ASSUME TypeInv, UseInv, NEW s \in Secrets, InForce(s)
  PROVE  s \in issued /\ honoured[s] = 0
  BY NoneAssumption DEF InForce, UseInv, Placed, Unspent, TypeInv, Data

(* Nothing comes into force, and at most one secret goes out of it.        *)
LEMMA AtMostVoid ==
  ASSUME TypeInv, UseInv, NEW g \in Secrets,
         UNCHANGED <<issued, honoured>>,
         \A s \in Secrets : s # g => (Opens(s)' <=> Opens(s)),
         Opens(g)' => Opens(g)
  PROVE  Abstract
  <1>1. \A s \in Secrets : s # g => Standing(s)' = Standing(s)
    BY DEF Standing, Opens
  <1>2. CASE Opens(g)' <=> Opens(g)
    <2>1. Standing(g)' = Standing(g)
      BY <1>2 DEF Standing, Opens
    <2>2. standing' = standing
      BY <1>1, <2>1 DEF standing
    <2>3. QED
      BY <2>2 DEF Abstract
  <1>3. CASE Opens(g) /\ ~Opens(g)'
    <2>1. Standing(g) = "open" /\ Standing(g)' = "void"
      <3>1. g \in issued /\ honoured[g] = 0
        BY <1>3, OpensIssued DEF Opens
      <3>2. QED
        BY <1>3, <3>1 DEF Standing, Opens
    <2>2. standing[g] = "open" /\ standing' = [standing EXCEPT ![g] = "void"]
      BY <1>1, <2>1 DEF standing
    <2>3. OneTime!Void(g)
      BY <2>2 DEF OneTime!Void
    <2>4. QED
      BY <2>3 DEF Abstract, OneTime!Next
  <1>4. QED
    BY <1>2, <1>3

(* A step that leaves every secret where it is stutters.                   *)
LEMMA Stutters ==
  ASSUME TypeInv, UseInv,
         UNCHANGED <<login, used, token, oauth, issued, honoured, expired>>,
         \A a \in Accounts : login[a] # None => (Live(a)' <=> Live(a))
  PROVE  Abstract
  <1>1. ASSUME NEW s \in Secrets
        PROVE  Standing(s)' = Standing(s)
    <2>1. InForce(s)' <=> InForce(s)
      BY NoneAssumption DEF InForce
    <2>2. QED
      BY <2>1 DEF Standing
  <1>2. standing' = standing
    BY <1>1 DEF standing
  <1>3. QED
    BY <1>2 DEF Abstract

(* An account that ends takes its sign-in code with it.                    *)
LEMMA Ends ==
  ASSUME TypeInv, UseInv, NEW a \in Accounts,
         UNCHANGED <<login, used, token, oauth, issued, honoured, expired>>,
         \A b \in Accounts : b # a => account'[b] = account[b],
         Live(a)' => Live(a)
  PROVE  Abstract
  <1>1. CASE login[a] = None
    <2>1. \A b \in Accounts : login[b] # None => (Live(b)' <=> Live(b))
      BY <1>1 DEF Live
    <2>2. QED
      BY <2>1, Stutters
  <1>2. CASE login[a] # None
    <2> DEFINE g == login[a]
    <2>1. g \in Secrets
      BY <1>2 DEF TypeInv, Data
    <2>2. \A b \in Accounts : b # a => (Live(b)' <=> Live(b)) /\ login[b] # g
      BY <1>2 DEF Live, UseInv, OnePlace
    <2>3. \A s \in Secrets : s # g => (Opens(s)' <=> Opens(s))
      BY <2>2 DEF Opens, InForce
    <2>4. Opens(g)' => Opens(g)
      BY <2>2 DEF Opens, InForce
    <2>5. QED
      BY <2>1, <2>3, <2>4, AtMostVoid
  <1>3. QED
    BY <1>1, <1>2

LEMMA AbstractStore ==
  ASSUME TypeInv, UseInv, NEW r \in Requests, StoreCode(r)
  PROVE  Abstract
  <1>a. on[r] \in Accounts /\ mine[r] \in Secrets /\ login[on[r]] \in Secrets \cup {None}
    BY DEF TypeInv, Control, Data, Equipped, Homeless, Holding, StoreCode, At
  <1>b. PICK a \in Accounts, g \in Secrets, old \in Secrets \cup {None} :
          a = on[r] /\ g = mine[r] /\ old = login[a]
    BY <1>a
  <1>1. a \in Accounts /\ g \in drawn \ issued /\ g \in Secrets /\ g \notin expired
    BY <1>b DEF UseInv, Unplaced, Placed, StoreCode, At
  <1>2. CASE ~Live(a)
    <2>1. UNCHANGED <<account, login, used, token, oauth, issued, honoured, expired>>
      BY <1>b, <1>2 DEF StoreCode, otp, grants
    <2>2. QED
      BY <2>1, Stutters DEF Live
  <1>3. CASE Live(a)
    <2>1. /\ login' = [login EXCEPT ![a] = g]
          /\ used' = [used EXCEPT ![a] = FALSE]
          /\ issued' = issued \cup {g}
          /\ UNCHANGED <<account, token, oauth, honoured, expired>>
      BY <1>b, <1>3 DEF StoreCode, grants
    <2>2. honoured[g] = 0 /\ ~(honoured[g] > 0) /\ \A b \in Accounts : login[b] # g
      BY <1>1, NoneAssumption DEF UseInv, Placed, TypeInv, Data
    <2>3. login'[a] = g /\ ~used'[a] /\ Live(a)'
      BY <1>1, <1>3, <2>1 DEF TypeInv, Data, Live
    <2>4. \A b \in Accounts : b # a => login'[b] = login[b] /\ used'[b] = used[b]
      BY <1>1, <2>1 DEF TypeInv, Data
    <2>5. \A b \in Accounts : Live(b)' <=> Live(b)
      BY <2>1 DEF Live
    <2>6. Standing(g) = "unissued" /\ Standing(g)' = "open"
      BY <1>1, <2>1, <2>2, <2>3 DEF Standing, InForce
    <2>7. ASSUME NEW s \in Secrets, s # g, s # old
          PROVE  Standing(s)' = Standing(s)
      <3>1. InForce(s)' <=> InForce(s)
        BY <1>1, <1>b, <2>1, <2>3, <2>4, <2>5, <2>7 DEF InForce
      <3>2. QED
        BY <2>1, <2>7, <3>1 DEF Standing
    <2>8. CASE old \in Secrets /\ Standing(old) = "open"
      <3>1. old # g
        BY <1>1, <1>b, <2>2
      <3>2. token[old] = None /\ oauth[old] = None /\ \A b \in Accounts : b # a => login[b] # old
        BY <1>1, <1>b, <2>8, NoneAssumption DEF UseInv, OnePlace
      <3>3. ~InForce(old)'
        BY <1>1, <2>1, <2>3, <2>4, <3>1, <3>2 DEF InForce
      <3>4. Standing(old)' = "void"
        BY <2>1, <2>8, <3>3 DEF Standing
      <3>5. /\ standing[old] = "open" /\ standing[g] = "unissued"
            /\ standing' = [standing EXCEPT ![old] = "void", ![g] = "open"]
        BY <1>1, <2>6, <2>7, <2>8, <3>1, <3>4 DEF standing
      <3>6. OneTime!Replace(old, g)
        BY <2>1, <3>5 DEF OneTime!Replace
      <3>7. QED
        BY <1>1, <2>8, <3>6 DEF Abstract, OneTime!Next
    <2>9. CASE ~(old \in Secrets /\ Standing(old) = "open")
      <3>1. old \in Secrets => Standing(old)' = Standing(old)
        <4> SUFFICES ASSUME old \in Secrets
                     PROVE  Standing(old)' = Standing(old)
          OBVIOUS
        <4>1. old # g /\ old \in issued
          BY <1>1, <1>b, <2>2, NoneAssumption DEF UseInv, Placed
        <4>2. token[old] = None /\ oauth[old] = None /\ \A b \in Accounts : b # a => login[b] # old
          BY <1>1, <1>b, NoneAssumption DEF UseInv, OnePlace
        <4>3. ~InForce(old)'
          BY <1>1, <2>1, <2>3, <2>4, <4>1, <4>2 DEF InForce
        <4>4. QED
          BY <2>1, <2>9, <4>1, <4>3 DEF Standing
      <3>2. standing[g] = "unissued" /\ standing' = [standing EXCEPT ![g] = "open"]
        BY <1>1, <2>6, <2>7, <3>1 DEF standing
      <3>3. OneTime!Issue(g)
        BY <2>1, <3>2 DEF OneTime!Issue
      <3>4. QED
        BY <1>1, <3>3 DEF Abstract, OneTime!Next
    <2>10. QED
      BY <2>8, <2>9
  <1>4. QED
    BY <1>2, <1>3

(* A secret is redeemed: it was in force, and everything else stays.       *)
LEMMA Redeems ==
  ASSUME TypeInv, UseInv, NEW g \in Secrets, Opens(g),
         UNCHANGED <<issued, expired>>,
         honoured' = [honoured EXCEPT ![g] = honoured[g] + 1],
         \A s \in Secrets : s # g => (InForce(s)' <=> InForce(s))
  PROVE  Abstract
  <1>1. g \in issued /\ honoured[g] = 0 /\ ~(honoured[g] > 0) /\ honoured'[g] > 0
    BY OpensIssued DEF Opens, TypeInv, Data
  <1>2. Standing(g) = "open" /\ Standing(g)' = "redeemed"
    BY <1>1 DEF Standing, Opens
  <1>3. ASSUME NEW s \in Secrets, s # g
        PROVE  Standing(s)' = Standing(s)
    <2>1. honoured'[s] = honoured[s]
      BY <1>3 DEF TypeInv, Data
    <2>2. QED
      BY <1>3, <2>1 DEF Standing
  <1>4. standing[g] = "open" /\ standing' = [standing EXCEPT ![g] = "redeemed"]
    BY <1>2, <1>3 DEF standing
  <1>5. OneTime!Redeem(g)
    BY <1>4 DEF OneTime!Redeem
  <1>6. QED
    BY <1>5 DEF Abstract, OneTime!Next

LEMMA AbstractConsume ==
  ASSUME TypeInv, UseInv, NEW r \in Requests, Consume(r)
  PROVE  Abstract
  <1> DEFINE a == on[r]
             g == mine[r]
             fits == Live(a) /\ login[a] = g /\ ~used[a] /\ g \notin expired
  <1>1. a \in Accounts /\ g \in Secrets
    BY DEF TypeInv, Control, Equipped, Homeless, Holding, Consume, At
  <1>2. CASE ~fits
    <2>1. UNCHANGED <<account, login, used, token, oauth, issued, honoured, expired>>
      BY <1>2 DEF Consume, grants, clock
    <2>2. QED
      BY <2>1, Stutters DEF Live
  <1>3. CASE fits
    <2>1. /\ used' = [used EXCEPT ![a] = TRUE]
          /\ account' = [account EXCEPT ![a] = "verified"]
          /\ honoured' = [honoured EXCEPT ![g] = honoured[g] + 1]
          /\ UNCHANGED <<login, token, oauth, issued, expired>>
      BY <1>3 DEF Consume, grants, clock
    <2>2. Opens(g)
      BY <1>1, <1>3 DEF Opens, InForce
    <2>3. \A b \in Accounts : b # a => (Live(b)' <=> Live(b)) /\ used'[b] = used[b]
      BY <1>1, <2>1 DEF Live, TypeInv, Data
    <2>4. \A s \in Secrets : s # g => (InForce(s)' <=> InForce(s))
      BY <1>3, <2>1, <2>3 DEF InForce
    <2>5. QED
      BY <1>1, <2>1, <2>2, <2>4, Redeems
  <1>4. QED
    BY <1>2, <1>3

LEMMA AbstractTake ==
  ASSUME TypeInv, UseInv, NEW r \in Requests, NEW s \in Secrets,
         TakeToken(r, s) \/ TakeOAuthCode(r, s)
  PROVE  Abstract
  <1>1. /\ UNCHANGED <<account, login, used, issued, expired>>
        /\ honoured' = [honoured EXCEPT ![s] = honoured[s] + 1]
        /\ s \notin expired
        /\ \/ token' = [token EXCEPT ![s] = None] /\ oauth' = oauth /\ token[s] # None
           \/ oauth' = [oauth EXCEPT ![s] = None] /\ token' = token /\ oauth[s] # None
    BY DEF TakeToken, TakeOAuthCode, Take, otp, clock
  <1>2. Opens(s)
    BY <1>1 DEF Opens, InForce
  <1>3. \A g \in Secrets : g # s => (InForce(g)' <=> InForce(g))
    BY <1>1 DEF InForce, Live, TypeInv, Data
  <1>4. QED
    BY <1>1, <1>2, <1>3, Redeems

LEMMA AbstractCreate ==
  ASSUME TypeInv, UseInv, NEW r \in Requests, NEW s \in Secrets,
         CreateToken(r, s) \/ CreateOAuthCode(r, s)
  PROVE  Abstract
  <1>1. /\ UNCHANGED <<account, login, used, honoured, expired>>
        /\ issued' = issued \cup {s} /\ s \notin drawn
        /\ \/ token' = [token EXCEPT ![s] = on[r]] /\ oauth' = oauth
           \/ oauth' = [oauth EXCEPT ![s] = on[r]] /\ token' = token
    BY DEF CreateToken, CreateOAuthCode, Draw, otp, clock
  <1>2. on[r] \in Accounts /\ on[r] # None
    BY NoneAssumption DEF TypeInv, Control, Equipped, Homeless, CreateToken,
       CreateOAuthCode, At
  <1>3. s \notin issued /\ s \notin expired /\ ~(honoured[s] > 0)
    BY <1>1 DEF UseInv, Placed
  <1>4. Standing(s) = "unissued" /\ Standing(s)' = "open"
    BY <1>1, <1>2, <1>3 DEF Standing, InForce, TypeInv, Data
  <1>5. ASSUME NEW g \in Secrets, g # s
        PROVE  Standing(g)' = Standing(g)
    <2>1. InForce(g)' <=> InForce(g)
      BY <1>1, <1>5 DEF InForce, Live, TypeInv, Data
    <2>2. QED
      BY <1>1, <1>5, <2>1 DEF Standing
  <1>6. standing[s] = "unissued" /\ standing' = [standing EXCEPT ![s] = "open"]
    BY <1>4, <1>5 DEF standing
  <1>7. OneTime!Issue(s)
    BY <1>1, <1>6 DEF OneTime!Issue
  <1>8. QED
    BY <1>7 DEF Abstract, OneTime!Next

LEMMA AbstractLock ==
  ASSUME TypeInv, UseInv, NEW r \in Requests, Lock(r)
  PROVE  Abstract
  <1>a. on[r] \in Accounts /\ login[on[r]] \in Secrets \cup {None}
    BY DEF TypeInv, Control, Data, Equipped, Homeless, Lock, At
  <1>b. PICK a \in Accounts, g \in Secrets \cup {None} : a = on[r] /\ g = login[a]
    BY <1>a
  <1>1. a \in Accounts /\ login[a] = g
    BY <1>b
  <1>2. /\ UNCHANGED <<account, used, token, oauth, issued, honoured, expired>>
        /\ login' = [login EXCEPT ![a] = IF Live(a) THEN None ELSE login[a]]
    BY <1>b DEF Lock, grants, history, clock
  <1>3. CASE ~Live(a) \/ g = None
    <2>1. login' = login
      BY <1>1, <1>2, <1>3 DEF TypeInv, Data
    <2>2. QED
      BY <1>2, <2>1, Stutters DEF Live
  <1>4. CASE Live(a) /\ g # None
    <2>1. g \in Secrets
      BY <1>1, <1>4 DEF TypeInv, Data
    <2>2. login'[a] = None /\ \A b \in Accounts : b # a => login'[b] = login[b] /\ login[b] # g
      BY <1>1, <1>2, <1>4 DEF UseInv, OnePlace, TypeInv, Data
    <2>3. \A s \in Secrets : s # g => (Opens(s)' <=> Opens(s))
      <3>1. ASSUME NEW s \in Secrets, s # g
            PROVE  InForce(s)' <=> InForce(s)
        BY <1>1, <1>2, <2>2, <3>1, NoneAssumption DEF InForce, Live
      <3>2. QED
        BY <1>2, <3>1 DEF Opens
    <2>4. Opens(g)' => Opens(g)
      BY <1>2, <2>1, <2>2, NoneAssumption DEF Opens, InForce, Live
    <2>5. QED
      BY <1>2, <2>1, <2>3, <2>4, AtMostVoid
  <1>5. QED
    BY <1>3, <1>4

LEMMA AbstractEnd ==
  ASSUME TypeInv, UseInv, NEW r \in Requests, Retract(r) \/ Erase(r)
  PROVE  Abstract
  <1>a. on[r] \in Accounts
    BY DEF TypeInv, Control, Equipped, Homeless, Retract, Erase, At
  <1>1. PICK a \in Accounts : a = on[r]
    BY <1>a
  <1>2. UNCHANGED <<login, used, token, oauth, issued, honoured, expired>>
    BY DEF Retract, Erase, otp, grants, clock, history
  <1>3. /\ \A b \in Accounts : b # a => account'[b] = account[b]
        /\ Live(a)' => Live(a)
    BY <1>1 DEF Retract, Erase, Delete, Live, TypeInv, Data
  <1>4. QED
    BY <1>1, <1>2, <1>3, Ends

LEMMA AbstractExpire ==
  ASSUME TypeInv, UseInv, NEW s \in Secrets, Expire(s)
  PROVE  Abstract
  <1>1. /\ UNCHANGED <<account, login, used, token, oauth, issued, honoured>>
        /\ expired' = expired \cup {s}
    BY DEF Expire, otp, grants, history
  <1>2. \A g \in Secrets : InForce(g)' <=> InForce(g)
    BY <1>1 DEF InForce, Live
  <1>3. \A g \in Secrets : g # s => (Opens(g)' <=> Opens(g))
    BY <1>1, <1>2 DEF Opens
  <1>4. Opens(s)' => Opens(s)
    BY <1>1 DEF Opens
  <1>5. QED
    BY <1>1, <1>3, <1>4, AtMostVoid

LEMMA AbstractCalm == TypeInv /\ UseInv /\ Calm => Abstract
  BY Stutters DEF Calm

LEMMA AbstractDrawn ==
  ASSUME TypeInv, UseInv, NEW r \in Requests, NEW a \in Accounts, NEW s \in Secrets,
         StartRequest(r, a, s) \/ StartResend(r, a, s) \/ CreatePending(r, a, s)
  PROVE  Abstract
  <1>1. Calm
    BY DEF StartRequest, StartResend, CreatePending, Insert, Calm, Live, UseInv, Placed,
           TypeInv, Data, otp, grants, clock, history
  <1>2. QED
    BY <1>1, AbstractCalm

LEMMA AbstractInit == Init => OneTime!Init
  <1> SUFFICES ASSUME Init
               PROVE  OneTime!Init
    OBVIOUS
  <1>1. \A s \in Secrets : Standing(s) = "unissued"
    BY DEF Init, Standing
  <1>2. QED
    BY <1>1 DEF OneTime!Init, standing, Init

LEMMA AbstractStep == TypeInv /\ UseInv /\ [Next]_vars => Abstract
  <1> SUFFICES ASSUME TypeInv, UseInv, [Next]_vars
               PROVE  Abstract
    OBVIOUS
  <1>1. ASSUME NEW r \in Requests, CodeSteps(r)
        PROVE  Abstract
    BY <1>1, AbstractCalm, AsideCodes, AbstractDrawn, AbstractStore, AbstractLock,
       AbstractConsume, AbstractEnd DEF CodeSteps
  <1>2. ASSUME NEW r \in Requests, RecoverySteps(r)
        PROVE  Abstract
    BY <1>2, AbstractCalm, AsideRecovery, AbstractCreate, AbstractTake DEF RecoverySteps
  <1>3. ASSUME NEW r \in Requests, AccountSteps(r) \/ Abort(r)
        PROVE  Abstract
    BY <1>3, AbstractCalm, AsideAccounts, AbstractCreate, AbstractTake, AbstractEnd
       DEF AccountSteps
  <1>4. ASSUME NEW s \in Secrets, Expire(s)
        PROVE  Abstract
    BY <1>4, AbstractExpire
  <1>5. ASSUME \/ \E s \in Secrets : Cool(s)
               \/ \E a \in Accounts : Bar(a) \/ Lapse(a)
               \/ UNCHANGED vars
        PROVE  Abstract
    <2>1. Calm
      BY <1>5 DEF Cool, Bar, Lapse, Calm, Live, vars, otp, grants, clock, history
    <2>2. QED
      BY <2>1, AbstractCalm
  <1>6. QED
    BY <1>1, <1>2, <1>3, <1>4, <1>5 DEF Next

\* Sign-in codes, reset tokens and OAuth codes are honoured at most once and never
\* after they ended: SignIn implements Grant.
THEOREM SecretsAreSingleUse == Spec => SingleUse
  <1>1. Init => TypeInv /\ UseInv
    BY TypeInit, UseInit
  <1>2. (TypeInv /\ UseInv) /\ [Next]_vars => (TypeInv /\ UseInv)'
    BY TypeStep, UseStep
  <1>3. (TypeInv /\ UseInv) /\ [Next]_vars => [OneTime!Next]_<<standing, honoured>>
    BY AbstractStep DEF Abstract
  <1>4. QED
    BY <1>1, <1>2, <1>3, AbstractInit, PTL DEF Spec, SingleUse, OneTime!Spec

-----------------------------------------------------------------------------
(* Accounts.  Once verified an account stays so until its owner erases it, *)
(* and whoever enters one finds it verified at that step.                  *)

Settled == {"verified", "gone"}
Onward ==
  /\ \A a \in Accounts :
       /\ account[a] \in Settled => account'[a] \in Settled
       /\ account[a] = "verified" =>
            account'[a] = "verified" \/ \E r \in Requests : Erase(r)
  /\ \A a \in Accounts, s \in Secrets :
       <<a, s>> \in entered' \ entered => account'[a] = "verified"

LEMMA OnwardSame ==
  account' = account /\ entered' = entered => Onward
  BY DEF Onward

LEMMA OnwardWritten ==
  ASSUME TypeInv, NEW r \in Requests,
         \/ Retract(r) \/ Consume(r) \/ Confirm(r) \/ Exchange(r) \/ Erase(r)
  PROVE  Onward
  <1>1. on[r] \in Accounts
    BY DEF TypeInv, Control, Equipped, Homeless, Retract, Consume, Confirm, Exchange,
           Erase, At
  <1>2. PICK a \in Accounts : a = on[r]
    BY <1>1
  <1>3. account[a] \in AccountStates
    BY DEF TypeInv, Data
  <1>4. /\ \A b \in Accounts : b # a => account'[b] = account[b]
        /\ \/ account'[a] = account[a]
           \/ account'[a] = "verified" /\ account[a] # "gone"
           \/ account'[a] = "gone" /\ (account[a] = "pending" \/ Erase(r))
    <2> USE <1>2, <1>3 DEF Live, TypeInv, Data
    <2>1. CASE Retract(r)
      BY <2>1 DEF Retract, Delete
    <2>2. CASE Consume(r)
      BY <2>2 DEF Consume
    <2>3. CASE Confirm(r)
      BY <2>3 DEF Confirm
    <2>4. CASE Exchange(r)
      BY <2>4 DEF Exchange
    <2>5. CASE Erase(r)
      <3>1. account' = [account EXCEPT ![a] = "gone"]
        BY <2>5 DEF Erase, Delete
      <3>2. QED
        BY <2>5, <3>1
    <2>6. QED
      BY <2>1, <2>2, <2>3, <2>4, <2>5
  <1>5. \/ entered' = entered
        \/ entered' = entered \cup {<<a, mine[r]>>} /\ account'[a] = "verified"
    <2>1. CASE Retract(r) \/ Confirm(r) \/ Erase(r)
      BY <2>1 DEF Retract, Confirm, Erase, history
    <2>2. CASE Consume(r)
      BY <1>2, <2>2 DEF Consume, TypeInv, Data
    <2>3. CASE Exchange(r)
      BY <1>2, <2>3 DEF Exchange
    <2>4. QED
      BY <2>1, <2>2, <2>3
  <1>6. QED
    BY <1>3, <1>4, <1>5 DEF Onward, Settled

LEMMA OnwardMade ==
  ASSUME TypeInv, NEW a \in Accounts, NEW e, NEW state \in AccountStates,
         Insert(a, e, state), entered' = entered
  PROVE  Onward
  BY DEF Insert, Onward, Settled, TypeInv, Data

LEMMA OnwardStep == TypeInv /\ [Next]_vars => Onward
  <1> SUFFICES ASSUME TypeInv, [Next]_vars
               PROVE  Onward
    OBVIOUS
  <1>a. {"pending", "verified"} \subseteq AccountStates
    BY DEF AccountStates
  <1>1. ASSUME NEW r \in Requests, CodeSteps(r)
        PROVE  Onward
    <2>1. ASSUME NEW a \in Accounts, NEW s \in Secrets, CreatePending(r, a, s)
          PROVE  Onward
      BY <1>a, <2>1, OnwardMade DEF CreatePending, history
    <2>2. CASE Retract(r) \/ Consume(r)
      BY <2>2, OnwardWritten
    <2>3. ASSUME ~(Retract(r) \/ Consume(r)),
                 ~\E a \in Accounts, s \in Secrets : CreatePending(r, a, s)
          PROVE  account' = account /\ entered' = entered
      BY <1>1, <2>3 DEF CodeSteps, StartFirstRequest, CreateRefused, StoreCode, MailCode,
         MailCodeThrows, StartRequest, StartResend, StartVerify, Lock, Miss, Compare, history
    <2>4. QED
      BY <2>1, <2>2, <2>3, OnwardSame
  <1>2. ASSUME NEW r \in Requests, RecoverySteps(r)
        PROVE  Onward
    <2>1. ASSUME NEW a \in Accounts, NEW e \in Addresses, NEW s \in Secrets, SignUp(r, a, e, s)
          PROVE  Onward
      BY <1>a, <2>1, OnwardMade DEF SignUp, history
    <2>2. CASE Confirm(r)
      BY <2>2, OnwardWritten
    <2>3. ASSUME ~Confirm(r),
                 ~\E a \in Accounts, e \in Addresses, s \in Secrets : SignUp(r, a, e, s)
          PROVE  account' = account /\ entered' = entered
      BY <1>2, <2>3 DEF RecoverySteps, StartRecovery, MailRecovery, StoreRecovery,
         StartConfirm, GrantReset, CreateToken, TakeToken, Permission, SetPassword, history
    <2>4. QED
      BY <2>1, <2>2, <2>3, OnwardSame
  <1>3. ASSUME NEW r \in Requests, AccountSteps(r)
        PROVE  Onward
    <2>1. ASSUME NEW a \in Accounts, GoogleCreate(r, a)
          PROVE  Onward
      BY <1>a, <2>1, OnwardMade DEF GoogleCreate
    <2>2. CASE Exchange(r) \/ Erase(r)
      BY <2>2, OnwardWritten
    <2>3. ASSUME ~(Exchange(r) \/ Erase(r)), ~\E a \in Accounts : GoogleCreate(r, a)
          PROVE  account' = account /\ entered' = entered
      BY <1>3, <2>3 DEF AccountSteps, GoogleSignIn, StartDelete, CreateOAuthCode,
         TakeOAuthCode, StartEdit, Edit, history
    <2>4. QED
      BY <2>1, <2>2, <2>3, OnwardSame
  <1>4. ASSUME \/ \E r \in Requests : Abort(r)
               \/ \E s \in Secrets : Cool(s) \/ Expire(s)
               \/ \E a \in Accounts : Bar(a) \/ Lapse(a)
               \/ UNCHANGED vars
        PROVE  Onward
    BY <1>4, OnwardSame DEF Abort, Cool, Expire, Bar, Lapse, vars, history
  <1>5. QED
    BY <1>1, <1>2, <1>3, <1>4 DEF Next

\* A verified account ends with its owner's deletion and in no other way.
THEOREM VerifiedNeverLost == Spec => VerifiedStays
  <1>1. TypeInv /\ [Next]_vars =>
          [\A a \in Accounts : account[a] = "verified" =>
             account'[a] = "verified" \/ \E r \in Requests : Erase(r)]_vars
    BY OnwardStep DEF Onward
  <1>2. QED
    BY <1>1, TypeInit, TypeStep, PTL DEF Spec, VerifiedStays

-----------------------------------------------------------------------------
(* Addresses.  A secret has one address: the book says which.  Wherever a  *)
(* secret is - with an account nobody verified, in the hands of a handler, *)
(* in a mailbox - the address there is the one in the book; so a code that *)
(* verifies an account was mailed to the account's own address.            *)

Mailing == {"storeCode", "mailCode", "mailRecovery", "storeRecovery"}
Hand(q, book) ==
  /\ at[q] \in Mailing =>
       /\ mine[q] \in drawn /\ book[mine[q]] = to[q]
       /\ account[on[q]] # "unused"
       /\ account[on[q]] = "pending" => email[on[q]] = to[q]
  /\ at[q] = "edit" => account[on[q]] \in Settled
  /\ at[q] = "consume" => mailed[mine[q]] # None
  /\ at[q] = "compare" => (flag[q] => mailed[mine[q]] # None)
  /\ at[q] = "confirm" =>
       /\ mailed[mine[q]] # None
       /\ account[on[q]] # "unused"
       /\ account[on[q]] = "pending" => email[on[q]] = book[mine[q]]
Kept(a, s, book) ==
  /\ s \in drawn
  /\ account[a] # "unused"
  /\ account[a] = "pending" => book[s] = email[a]
Doc(a, book) ==
  /\ account[a] = "verified" => <<a, email[a]>> \in proven \cup edited
  /\ \A s \in Secrets : login[a] = s \/ recovery[a] = s => Kept(a, s, book)
Letter(s, book) == mailed[s] # None => s \in drawn /\ mailed[s] = book[s]
Book(book) ==
  /\ \A q \in Requests : Hand(q, book)
  /\ \A a \in Accounts : Doc(a, book)
  /\ \A s \in Secrets : Letter(s, book)
Books == [Secrets -> Addresses \cup {None}]
AddressInv == \E book \in Books : Book(book)

LEMMA AddressInit == Init => AddressInv
  <1> SUFFICES ASSUME Init
               PROVE  AddressInv
    OBVIOUS
  <1>1. PICK book \in Books : book = [s \in Secrets |-> None]
    BY DEF Books
  <1>2. \A q \in Requests : Hand(q, book)
    BY DEF Init, Hand, Mailing
  <1>3. \A a \in Accounts : Doc(a, book)
    BY NoneAssumption DEF Init, Doc
  <1>4. \A s \in Secrets : Letter(s, book)
    BY DEF Init, Letter
  <1>5. QED
    BY <1>2, <1>3, <1>4 DEF Book, AddressInv

(* What no step undoes. *)
Forth ==
  /\ drawn \subseteq drawn'
  /\ proven \subseteq proven' /\ edited \subseteq edited'
  /\ \A s \in Secrets : mailed[s] # None => mailed'[s] = mailed[s]
  /\ \A a \in Accounts :
       /\ account[a] # "unused" => account'[a] # "unused"
       /\ account[a] \in Settled => account'[a] \in Settled
       /\ account[a] # "unused" /\ account'[a] = "pending" =>
            account[a] = "pending" /\ email'[a] = email[a]
(* The documents and the letters, where a step leaves them, or strikes     *)
(* codes.                                                                  *)
Docs ==
  \A a \in Accounts :
    /\ account'[a] = account[a] \/ account'[a] = "gone"
    /\ account'[a] # "gone" => email'[a] = email[a]
    /\ login'[a] \in {login[a], None}
    /\ recovery'[a] \in {recovery[a], None}

Still(q) ==
  /\ at'[q] = at[q] /\ on'[q] = on[q] /\ to'[q] = to[q] /\ mine'[q] = mine[q]
  /\ flag'[q] = flag[q]

LEMMA HandForth ==
  ASSUME TypeInv, NEW book \in Books, Book(book), Forth, NEW q \in Requests, Still(q)
  PROVE  Hand(q, book)'
  <1>1. Hand(q, book)
    BY DEF Book
  <1>2. /\ at[q] \in Mailing \cup {"edit", "confirm"} => on[q] \in Accounts
        /\ at[q] \in Mailing \cup {"compare", "consume", "confirm"} => mine[q] \in Secrets
    BY DEF TypeInv, Control, Equipped, Homeless, Holding, Mailing
  <1>3. at[q] \in Mailing =>
          /\ mine[q] \in drawn' /\ book[mine[q]] = to[q]
          /\ account'[on[q]] # "unused"
          /\ account'[on[q]] = "pending" => email'[on[q]] = to[q]
    BY <1>1, <1>2 DEF Hand, Forth
  <1>4. /\ at[q] = "edit" => account'[on[q]] \in Settled
        /\ at[q] = "consume" => mailed'[mine[q]] # None
        /\ at[q] = "compare" => (flag[q] => mailed'[mine[q]] # None)
    BY <1>1, <1>2 DEF Hand, Forth
  <1>5. at[q] = "confirm" =>
          /\ mailed'[mine[q]] # None
          /\ account'[on[q]] # "unused"
          /\ account'[on[q]] = "pending" => email'[on[q]] = book[mine[q]]
    BY <1>1, <1>2 DEF Hand, Forth
  <1>6. QED
    BY <1>3, <1>4, <1>5 DEF Hand, Still

LEMMA DocsForth ==
  ASSUME TypeInv, NEW book \in Books, Book(book), Forth, Docs
  PROVE  \A a \in Accounts : Doc(a, book)'
  <1> SUFFICES ASSUME NEW a \in Accounts
               PROVE  Doc(a, book)'
    OBVIOUS
  <1>1. Doc(a, book)
    BY DEF Book
  <1>2. /\ account'[a] = account[a] \/ account'[a] = "gone"
        /\ account'[a] # "gone" => email'[a] = email[a]
        /\ login'[a] \in {login[a], None}
        /\ recovery'[a] \in {recovery[a], None}
    BY DEF Docs
  <1>3. account'[a] = "verified" => <<a, email'[a]>> \in proven' \cup edited'
    BY <1>1, <1>2 DEF Doc, Forth
  <1>4. ASSUME NEW s \in Secrets, login'[a] = s \/ recovery'[a] = s
        PROVE  Kept(a, s, book)'
    <2>1. login[a] = s \/ recovery[a] = s
      BY <1>2, <1>4, NoneAssumption
    <2>2. Kept(a, s, book)
      BY <1>1, <2>1 DEF Doc
    <2>3. QED
      BY <1>2, <2>2 DEF Kept, Forth
  <1>5. QED
    BY <1>3, <1>4 DEF Doc

LEMMA LettersForth ==
  ASSUME NEW book \in Books, Book(book), Forth, mailed' = mailed
  PROVE  \A s \in Secrets : Letter(s, book)'
  BY DEF Book, Letter, Forth

(* A secret just drawn is in no place: the book can give it any address.   *)
LEMMA BookDrawn ==
  ASSUME TypeInv, NEW book \in Books, Book(book), NEW s \in Secrets, s \notin drawn,
         NEW e \in Addresses \cup {None}
  PROVE  \E new \in Books : Book(new) /\ new[s] = e
  <1>1. PICK new \in Books : new = [book EXCEPT ![s] = e]
    BY DEF Books
  <1>2. new[s] = e /\ \A g \in drawn : new[g] = book[g]
    BY <1>1 DEF Books, TypeInv, Data
  <1>3. \A g \in Secrets : Letter(g, new)
    BY <1>2 DEF Book, Letter
  <1>4. \A a \in Accounts : Doc(a, new)
    BY <1>2 DEF Book, Doc, Kept
  <1>5. ASSUME NEW q \in Requests
        PROVE  Hand(q, new)
    <2>1. Hand(q, book) /\ (at[q] = "confirm" => mine[q] \in Secrets)
      BY DEF Book, TypeInv, Control, Equipped, Holding
    <2>2. at[q] = "confirm" => mine[q] \in drawn
      BY <2>1 DEF Book, Hand, Letter
    <2>3. QED
      BY <1>2, <2>1, <2>2 DEF Hand
  <1>6. QED
    BY <1>2, <1>3, <1>4, <1>5 DEF Book

(* Most steps leave the documents and the letters, and bring their handler *)
(* to no step the invariant speaks of.                                     *)
Spoken == Mailing \cup {"edit", "compare", "consume", "confirm"}
Quiet ==
  /\ drawn \subseteq drawn' /\ UNCHANGED <<mailed, proven, edited>>
  /\ Docs
  /\ \A q \in Requests : Still(q) \/ at'[q] \notin Spoken

LEMMA AddressQuiet == TypeInv /\ AddressInv /\ Quiet => AddressInv'
  <1> SUFFICES ASSUME TypeInv, AddressInv, Quiet
               PROVE  AddressInv'
    OBVIOUS
  <1>1. PICK book \in Books : Book(book)
    BY DEF AddressInv
  <1>2. Forth
    BY DEF Quiet, Docs, Forth, Settled
  <1>3. \A a \in Accounts : Doc(a, book)'
    BY <1>1, <1>2, DocsForth DEF Quiet
  <1>4. \A s \in Secrets : Letter(s, book)'
    BY <1>1, <1>2, LettersForth DEF Quiet
  <1>5. \A q \in Requests : Still(q) => Hand(q, book)'
    BY <1>1, <1>2, HandForth
  <1>6. \A q \in Requests : at'[q] \notin Spoken => Hand(q, book)'
    BY DEF Hand, Spoken
  <1>7. QED
    BY <1>3, <1>4, <1>5, <1>6 DEF Quiet, Book, AddressInv

LEMMA QuietCodes ==
  ASSUME TypeInv, NEW r \in Requests
  PROVE  /\ \A e \in Addresses : StartFirstRequest(r, e) => Quiet
         /\ CreateRefused(r) => Quiet
         /\ MailCodeThrows(r) => Quiet
         /\ Retract(r) => Quiet
         /\ Lock(r) => Quiet
         /\ Miss(r) => Quiet
  <1> USE DEF TypeInv, Data, Control, Quiet, Docs, Still, Spoken, Mailing, clock, Goto, Return,
              otp, auth, grants, history
  <1>1. ASSUME NEW e \in Addresses, StartFirstRequest(r, e)
        PROVE  Quiet
    BY <1>1 DEF StartFirstRequest, Prepare
  <1>2. ASSUME CreateRefused(r)
        PROVE  Quiet
    BY <1>2 DEF CreateRefused
  <1>3. ASSUME MailCodeThrows(r)
        PROVE  Quiet
    BY <1>3 DEF MailCodeThrows
  <1>4. ASSUME Retract(r)
        PROVE  Quiet
    BY <1>4 DEF Retract, Delete
  <1>5. ASSUME Lock(r)
        PROVE  Quiet
    BY <1>5 DEF Lock
  <1>6. ASSUME Miss(r)
        PROVE  Quiet
    BY <1>6 DEF Miss
  <1> HIDE DEF Quiet
  <1>7. QED
    BY <1>1, <1>2, <1>3, <1>4, <1>5, <1>6

LEMMA QuietRecovery ==
  ASSUME TypeInv, NEW r \in Requests
  PROVE  /\ GrantReset(r) => Quiet
         /\ \A s \in Secrets : CreateToken(r, s) \/ TakeToken(r, s) => Quiet
         /\ Permission(r) => Quiet
         /\ SetPassword(r) => Quiet
  <1> USE DEF TypeInv, Data, Control, Quiet, Docs, Still, Spoken, Mailing, clock, Goto, Return,
              otp, auth, grants, history
  <1>1. ASSUME GrantReset(r)
        PROVE  Quiet
    BY <1>1 DEF GrantReset, SetAuth
  <1>2. ASSUME NEW s \in Secrets, CreateToken(r, s)
        PROVE  Quiet
    BY <1>2 DEF CreateToken, Draw
  <1>3. ASSUME NEW s \in Secrets, TakeToken(r, s)
        PROVE  Quiet
    BY <1>3 DEF TakeToken, Take
  <1>4. ASSUME Permission(r)
        PROVE  Quiet
    BY <1>4 DEF Permission
  <1>5. ASSUME SetPassword(r)
        PROVE  Quiet
    BY <1>5 DEF SetPassword, SetAuth
  <1> HIDE DEF Quiet
  <1>6. QED
    BY <1>1, <1>2, <1>3, <1>4, <1>5

LEMMA QuietAccounts ==
  ASSUME TypeInv, NEW r \in Requests
  PROVE  /\ GoogleSignIn(r) => Quiet
         /\ \A a \in Accounts : StartDelete(r, a) => Quiet
         /\ \A s \in Secrets : CreateOAuthCode(r, s) \/ TakeOAuthCode(r, s) => Quiet
         /\ Exchange(r) => Quiet
         /\ Erase(r) => Quiet
         /\ Abort(r) => Quiet
  <1> USE DEF TypeInv, Data, Control, Quiet, Docs, Still, Spoken, Mailing, clock, Goto, Return,
              otp, auth, grants, history
  <1>1. ASSUME GoogleSignIn(r)
        PROVE  Quiet
    BY <1>1 DEF GoogleSignIn, Take, Prepare
  <1>2. ASSUME NEW a \in Accounts, StartDelete(r, a)
        PROVE  Quiet
    BY <1>2 DEF StartDelete, Take
  <1>3. ASSUME NEW s \in Secrets, CreateOAuthCode(r, s)
        PROVE  Quiet
    BY <1>3 DEF CreateOAuthCode, Draw
  <1>4. ASSUME NEW s \in Secrets, TakeOAuthCode(r, s)
        PROVE  Quiet
    BY <1>4 DEF TakeOAuthCode, Take
  <1>5. ASSUME Exchange(r)
        PROVE  Quiet
    BY <1>5 DEF Exchange
  <1>6. ASSUME Erase(r)
        PROVE  Quiet
    BY <1>6 DEF Erase, Delete
  <1>7. ASSUME Abort(r)
        PROVE  Quiet
    BY <1>7 DEF Abort
  <1> HIDE DEF Quiet
  <1>8. QED
    BY <1>1, <1>2, <1>3, <1>4, <1>5, <1>6, <1>7

LEMMA QuietTime ==
  ASSUME TypeInv,
         \/ \E s \in Secrets : Cool(s) \/ Expire(s)
         \/ \E a \in Accounts : Bar(a) \/ Lapse(a)
         \/ UNCHANGED vars
  PROVE  Quiet
  BY DEF Cool, Expire, Bar, Lapse, vars, Quiet, Docs, Still, clock, otp, auth, grants,
         history, job

(* The steps the invariant speaks of. *)
LEMMA AddressMade ==
  ASSUME NEW book \in Books, NEW r \in Requests, TypeInv, Book(book), Forth,
         \A q \in Requests : q # r => Still(q),
         Hand(r, book)',
         \A a \in Accounts : Doc(a, book)',
         \A s \in Secrets : Letter(s, book)'
  PROVE  AddressInv'
  <1>1. \A q \in Requests : Hand(q, book)'
    BY HandForth
  <1>2. QED
    BY <1>1 DEF Book, AddressInv

(* A code is drawn for an account that was found.                          *)
LEMMA AddressDrawn ==
  ASSUME TypeInv, AddressInv, NEW r \in Requests, NEW a \in Accounts, NEW s \in Secrets,
         \/ StartRequest(r, a, s) \/ StartResend(r, a, s)
         \/ \E forgot \in BOOLEAN : StartRecovery(r, a, s, forgot)
  PROVE  AddressInv'
  <1>1. /\ UNCHANGED <<account, email, login, recovery, mailed, proven, edited>>
        /\ s \notin drawn /\ drawn' = drawn \cup {s}
        /\ Live(a)
        /\ at'[r] \in {"storeCode", "mailRecovery"} /\ on'[r] = a /\ to'[r] = email[a] /\ mine'[r] = s
        /\ \A q \in Requests : q # r => Still(q)
    BY DEF StartRequest, StartResend, StartRecovery, Admitted, Draw, Take, Still, otp, auth,
           history, TypeInv, Control
  <1>2. email[a] \in Addresses \cup {None}
    BY DEF TypeInv, Data
  <1>3. PICK book \in Books : Book(book) /\ book[s] = email[a]
    BY <1>1, <1>2, BookDrawn DEF AddressInv
  <1>4. Forth /\ Docs
    BY <1>1 DEF Forth, Docs, Settled
  <1>5. Hand(r, book)'
    BY <1>1, <1>3 DEF Hand, Live, Mailing
  <1>6. QED
    BY <1>1, <1>3, <1>4, <1>5, AddressMade, DocsForth, LettersForth

(* An account is made, for its code or by Google.                          *)
LEMMA DocMade ==
  ASSUME TypeInv, NEW book \in Books, Book(book), Forth,
         NEW a \in Accounts, NEW e \in Addresses \cup {None}, NEW state \in {"pending", "verified"},
         Insert(a, e, state),
         state = "verified" => <<a, e>> \in proven',
         UNCHANGED <<login, recovery>>
  PROVE  \A b \in Accounts : Doc(b, book)'
  <1> SUFFICES ASSUME NEW b \in Accounts
               PROVE  Doc(b, book)'
    OBVIOUS
  <1>1. Doc(b, book)
    BY DEF Book
  <1>2. CASE b = a
    <2>1. account[a] = "unused" /\ account'[a] = state /\ email'[a] = e
      BY DEF Insert, TypeInv, Data
    <2>2. \A s \in Secrets : login[a] # s /\ recovery[a] # s
      BY <1>1, <1>2, <2>1 DEF Doc, Kept
    <2>3. QED
      BY <1>2, <2>1, <2>2 DEF Doc
  <1>3. CASE b # a
    <2>1. account'[b] = account[b] /\ email'[b] = email[b]
      BY <1>3 DEF Insert, TypeInv, Data
    <2>2. QED
      BY <1>1, <2>1 DEF Doc, Kept, Forth
  <1>4. QED
    BY <1>2, <1>3

LEMMA ForthMade ==
  ASSUME TypeInv, NEW a \in Accounts, NEW e, NEW state \in {"pending", "verified"},
         Insert(a, e, state),
         drawn \subseteq drawn', proven \subseteq proven', edited \subseteq edited',
         \A s \in Secrets : mailed[s] # None => mailed'[s] = mailed[s]
  PROVE  Forth
  <1>1. /\ account[a] = "unused" /\ account'[a] = state
        /\ \A b \in Accounts : b # a => account'[b] = account[b] /\ email'[b] = email[b]
    BY DEF Insert, TypeInv, Data
  <1>2. QED
    BY <1>1 DEF Forth, Settled

LEMMA AddressCreated ==
  ASSUME TypeInv, AddressInv, NEW r \in Requests, NEW a \in Accounts, NEW s \in Secrets,
         \/ CreatePending(r, a, s)
         \/ \E e \in Addresses : SignUp(r, a, e, s)
  PROVE  AddressInv'
  <1>1. PICK e \in Addresses \cup {None} :
          /\ Insert(a, e, "pending")
          /\ UNCHANGED <<login, recovery, proven, edited>>
          /\ s \notin drawn /\ drawn' = drawn \cup {s}
          /\ mailed' \in {mailed, [mailed EXCEPT ![s] = e]}
          /\ at'[r] \in {"storeCode", "storeRecovery"} /\ on'[r] = a /\ to'[r] = e /\ mine'[r] = s
          /\ \A q \in Requests : q # r => Still(q)
    <2>1. to[r] \in Addresses \cup {None}
      BY DEF TypeInv, Control
    <2>2. CASE CreatePending(r, a, s)
      BY <2>1, <2>2 DEF CreatePending, Draw, Take, Still, otp, auth, history, TypeInv, Control
    <2>3. ASSUME NEW e \in Addresses, SignUp(r, a, e, s)
          PROVE  /\ Insert(a, e, "pending")
                 /\ UNCHANGED <<login, recovery, proven, edited>>
                 /\ s \notin drawn /\ drawn' = drawn \cup {s}
                 /\ mailed' \in {mailed, [mailed EXCEPT ![s] = e]}
                 /\ at'[r] \in {"storeCode", "storeRecovery"} /\ on'[r] = a /\ to'[r] = e /\ mine'[r] = s
                 /\ \A q \in Requests : q # r => Still(q)
      BY <2>3 DEF SignUp, Draw, Take, Still, otp, auth, history, TypeInv, Control
    <2>4. QED
      BY <2>2, <2>3
  <1>2. PICK book \in Books : Book(book) /\ book[s] = e
    BY <1>1, BookDrawn DEF AddressInv
  <1>3. mailed[s] = None
    BY <1>1, <1>2 DEF Book, Letter
  <1>4. \A g \in Secrets : mailed'[g] = mailed[g] \/ (g = s /\ mailed'[g] = e)
    BY <1>1 DEF TypeInv, Data
  <1>5. Forth
    BY <1>1, <1>3, <1>4, ForthMade
  <1>6. \A b \in Accounts : Doc(b, book)'
    BY <1>1, <1>2, <1>5, DocMade
  <1>7. \A g \in Secrets : Letter(g, book)'
    BY <1>1, <1>2, <1>4 DEF Book, Letter
  <1>8. Hand(r, book)'
    <2>1. account'[a] = "pending" /\ email'[a] = e
      BY <1>1 DEF Insert, TypeInv, Data
    <2>2. QED
      BY <1>1, <1>2, <2>1 DEF Hand, Mailing
  <1>9. QED
    BY <1>1, <1>2, <1>5, <1>6, <1>7, <1>8, AddressMade

LEMMA AddressGoogle ==
  ASSUME TypeInv, AddressInv, NEW r \in Requests, NEW a \in Accounts, GoogleCreate(r, a)
  PROVE  AddressInv'
  <1>1. PICK e \in Addresses \cup {None} : e = to[r]
    BY DEF TypeInv, Control
  <1>2. /\ Insert(a, e, "verified")
        /\ proven' = proven \cup {<<a, e>>}
        /\ UNCHANGED <<login, recovery, drawn, mailed, edited>>
        /\ at'[r] = "createOAuth"
        /\ \A q \in Requests : q # r => Still(q)
    BY <1>1 DEF GoogleCreate, Take, Still, otp, auth, TypeInv, Control
  <1>3. PICK book \in Books : Book(book)
    BY DEF AddressInv
  <1>4. Forth
    BY <1>2, ForthMade
  <1>5. \A b \in Accounts : Doc(b, book)'
    BY <1>2, <1>3, <1>4, DocMade
  <1>6. Hand(r, book)'
    BY <1>2 DEF Hand, Mailing
  <1>7. QED
    BY <1>2, <1>3, <1>4, <1>5, <1>6, AddressMade, LettersForth

(* A code goes from a handler to a document, or to a mailbox.              *)
LEMMA DocStored ==
  ASSUME TypeInv, NEW book \in Books, Book(book), NEW a \in Accounts, NEW s \in Secrets,
         s \in drawn, account[a] # "unused", account[a] = "pending" => email[a] = book[s],
         UNCHANGED <<account, email, drawn, proven, edited>>,
         \A b \in Accounts : b # a =>
           login'[b] \in {login[b], None} /\ recovery'[b] \in {recovery[b], None},
         login'[a] \in {login[a], s, None}, recovery'[a] \in {recovery[a], s, None}
  PROVE  \A b \in Accounts : Doc(b, book)'
  <1> SUFFICES ASSUME NEW b \in Accounts
               PROVE  Doc(b, book)'
    OBVIOUS
  <1>1. Doc(b, book)
    BY DEF Book
  <1>2. ASSUME NEW g \in Secrets, login'[b] = g \/ recovery'[b] = g
        PROVE  Kept(b, g, book)'
    <2>1. CASE login[b] = g \/ recovery[b] = g
      BY <1>1, <2>1 DEF Doc, Kept
    <2>2. CASE ~(login[b] = g \/ recovery[b] = g)
      <3>1. b = a /\ g = s
        BY <1>2, <2>2, NoneAssumption
      <3>2. QED
        BY <3>1 DEF Kept
    <2>3. QED
      BY <2>1, <2>2
  <1>3. QED
    BY <1>1, <1>2 DEF Doc

LEMMA AddressStored ==
  ASSUME TypeInv, AddressInv, NEW r \in Requests, StoreCode(r) \/ StoreRecovery(r)
  PROVE  AddressInv'
  <1>1. PICK book \in Books : Book(book)
    BY DEF AddressInv
  <1>2. PICK s \in Secrets, e \in Addresses \cup {None} : s = mine[r] /\ e = to[r]
    BY DEF TypeInv, Control, Equipped, Holding, StoreCode, StoreRecovery, At
  <1>3. /\ UNCHANGED <<account, email, drawn, mailed, proven, edited>>
        /\ \A q \in Requests : q # r => Still(q)
        /\ at[r] \in {"storeCode", "storeRecovery"} /\ on[r] \in Accounts
    BY DEF StoreCode, StoreRecovery, Goto, Return, Still, TypeInv, Control, Equipped, Homeless,
           At, history
  <1>4. /\ s \in drawn /\ book[s] = e /\ account[on[r]] # "unused"
        /\ account[on[r]] = "pending" => email[on[r]] = e
    BY <1>1, <1>2, <1>3 DEF Book, Hand, Mailing
  <1> DEFINE Puts(a) ==
               /\ account[a] # "unused" /\ (account[a] = "pending" => email[a] = e)
               /\ \A b \in Accounts : b # a => login'[b] = login[b] /\ recovery'[b] = recovery[b]
               /\ login'[a] \in {login[a], s} /\ recovery'[a] \in {recovery[a], s}
  <1>5. \E a \in Accounts : Puts(a)
    <2>1. CASE StoreCode(r)
      BY <1>2, <1>3, <1>4, <2>1 DEF StoreCode, auth, otp, TypeInv, Data
    <2>2. CASE StoreRecovery(r)
      <3>1. login' = login
        BY <2>2 DEF StoreRecovery, otp
      <3>2. ASSUME NEW a \in Accounts, SetAuth(a, s, FALSE),
                   account[a] # "unused", account[a] = "pending" => email[a] = e
            PROVE  Puts(a)
        BY <3>1, <3>2 DEF SetAuth, TypeInv, Data
      <3>3. CASE ~flag[r]
        BY <1>2, <1>3, <1>4, <2>2, <3>2, <3>3 DEF StoreRecovery
      <3>4. CASE flag[r] /\ Taken(e)
        BY <1>2, <2>2, <3>2, <3>4 DEF StoreRecovery, Holder, Live
      <3>5. CASE flag[r] /\ ~Taken(e)
        BY <1>2, <1>3, <1>4, <2>2, <3>1, <3>5 DEF StoreRecovery, auth
      <3>6. QED
        BY <3>3, <3>4, <3>5
    <2>3. QED
      BY <2>1, <2>2
  <1>6. Forth
    BY <1>3 DEF Forth
  <1>7. \A b \in Accounts : Doc(b, book)'
    BY <1>1, <1>3, <1>4, <1>5, DocStored
  <1>8. Hand(r, book)'
    <2>1. CASE StoreCode(r)
      <3>1. at'[r] = "mailCode" /\ on'[r] = on[r] /\ to'[r] = to[r] /\ mine'[r] = mine[r]
        BY <2>1 DEF StoreCode, Goto, TypeInv, Control
      <3>2. QED
        BY <1>2, <1>3, <1>4, <3>1 DEF Hand, Mailing
    <2>2. CASE StoreRecovery(r)
      <3>1. at'[r] = "idle"
        BY <2>2 DEF StoreRecovery, Return, TypeInv, Control
      <3>2. QED
        BY <3>1 DEF Hand, Mailing
    <2>3. QED
      BY <2>1, <2>2
  <1>9. QED
    BY <1>1, <1>3, <1>6, <1>7, <1>8, AddressMade, LettersForth

LEMMA AddressMailed ==
  ASSUME TypeInv, AddressInv, NEW r \in Requests, MailCode(r) \/ MailRecovery(r)
  PROVE  AddressInv'
  <1>1. PICK book \in Books : Book(book)
    BY DEF AddressInv
  <1>2. /\ UNCHANGED <<account, email, login, recovery, drawn, proven, edited>>
        /\ mailed' = [mailed EXCEPT ![mine[r]] = to[r]]
        /\ \A q \in Requests : q # r => Still(q)
        /\ at[r] \in {"mailCode", "mailRecovery"} /\ mine[r] \in Secrets
    BY DEF MailCode, MailRecovery, Goto, Return, Still, TypeInv, Control, Equipped, Holding,
           At, otp, auth, history
  <1>3. /\ mine[r] \in drawn /\ book[mine[r]] = to[r] /\ account[on[r]] # "unused"
        /\ account[on[r]] = "pending" => email[on[r]] = to[r]
    BY <1>1, <1>2 DEF Book, Hand, Mailing
  <1>4. \A s \in Secrets : mailed'[s] = IF s = mine[r] THEN to[r] ELSE mailed[s]
    BY <1>2 DEF TypeInv, Data
  <1>5. Forth
    BY <1>1, <1>2, <1>3, <1>4 DEF Forth, Book, Letter
  <1>6. \A b \in Accounts : Doc(b, book)'
    BY <1>1, <1>2, <1>5, DocsForth DEF Docs
  <1>7. \A s \in Secrets : Letter(s, book)'
    BY <1>1, <1>2, <1>3, <1>4 DEF Book, Letter
  <1>8. Hand(r, book)'
    <2>1. CASE MailCode(r)
      <3>1. at'[r] = "idle"
        BY <2>1 DEF MailCode, Return, TypeInv, Control
      <3>2. QED
        BY <3>1 DEF Hand, Mailing
    <2>2. CASE MailRecovery(r)
      <3>1. at'[r] = "storeRecovery" /\ on'[r] = on[r] /\ to'[r] = to[r] /\ mine'[r] = mine[r]
        BY <2>2 DEF MailRecovery, Goto, TypeInv, Control
      <3>2. QED
        BY <1>2, <1>3, <3>1 DEF Hand, Mailing
    <2>3. QED
      BY <2>1, <2>2
  <1>9. QED
    BY <1>1, <1>2, <1>5, <1>6, <1>7, <1>8, AddressMade

(* A code that is found was mailed, and to the address of its account if   *)
(* nobody verified that yet.                                               *)
LEMMA AddressFound ==
  ASSUME TypeInv, AddressInv, NEW r \in Requests,
         \/ \E a \in Accounts, right \in BOOLEAN : StartVerify(r, a, right)
         \/ \E a \in Accounts : StartConfirm(r, a)
         \/ Compare(r)
         \/ \E a \in Accounts, e \in Addresses : StartEdit(r, a, e)
  PROVE  AddressInv'
  <1>1. PICK book \in Books : Book(book)
    BY DEF AddressInv
  <1>2. /\ UNCHANGED <<account, email, login, recovery, drawn, mailed, proven, edited>>
        /\ \A q \in Requests : q # r => Still(q)
    BY DEF StartVerify, StartConfirm, Compare, StartEdit, Take, Goto, Still, TypeInv, Control,
           otp, auth, history
  <1>3. Hand(r, book)'
    <2>1. ASSUME NEW a \in Accounts, NEW right \in BOOLEAN, StartVerify(r, a, right)
          PROVE  Hand(r, book)'
      <3>1. /\ at'[r] \in {"lock", "miss", "compare"} /\ mine'[r] = login[a] /\ flag'[r] = right
            /\ right => mailed[login[a]] # None
        BY <2>1 DEF StartVerify, Take, TypeInv, Control
      <3>2. QED
        BY <1>2, <3>1 DEF Hand, Mailing
    <2>2. ASSUME NEW a \in Accounts, StartConfirm(r, a)
          PROVE  Hand(r, book)'
      <3>1. /\ at'[r] \in {"confirm", "grantReset"} /\ on'[r] = a /\ mine'[r] = recovery[a]
            /\ recovery[a] # None /\ mailed[recovery[a]] # None
        BY <2>2 DEF StartConfirm, Take, TypeInv, Control
      <3>2. recovery[a] \in Secrets
        BY <3>1 DEF TypeInv, Data
      <3>3. Kept(a, recovery[a], book)
        BY <1>1, <3>2 DEF Book, Doc
      <3>4. QED
        BY <1>2, <3>1, <3>3 DEF Hand, Mailing, Kept
    <2>3. CASE Compare(r)
      <3>1. /\ at[r] = "compare" /\ mine'[r] = mine[r] /\ flag'[r] = flag[r]
            /\ at'[r] = IF flag[r] THEN "consume" ELSE "miss"
        BY <2>3 DEF Compare, At, Goto, TypeInv, Control
      <3>2. flag[r] => mailed[mine[r]] # None
        BY <1>1, <3>1 DEF Book, Hand
      <3>3. QED
        BY <1>2, <3>1, <3>2 DEF Hand, Mailing
    <2>4. ASSUME NEW a \in Accounts, NEW e \in Addresses, StartEdit(r, a, e)
          PROVE  Hand(r, book)'
      <3>1. at'[r] = "edit" /\ on'[r] = a /\ account[a] = "verified"
        BY <2>4 DEF StartEdit, SignedIn, Take, TypeInv, Control
      <3>2. QED
        BY <1>2, <3>1 DEF Hand, Mailing, Settled
    <2>5. QED
      BY <2>1, <2>2, <2>3, <2>4
  <1>4. Forth /\ Docs
    BY <1>2 DEF Forth, Docs
  <1>5. QED
    BY <1>1, <1>2, <1>3, <1>4, AddressMade, DocsForth, LettersForth

(* An account is verified by a code that was mailed to its address.        *)
LEMMA DocProven ==
  ASSUME TypeInv, NEW book \in Books, Book(book), NEW a \in Accounts, NEW e, Live(a),
         account[a] = "pending" => email[a] = e,
         account' = [account EXCEPT ![a] = "verified"],
         proven' = proven \cup {<<a, e>>},
         UNCHANGED <<email, drawn, mailed, edited, login>>,
         \A b \in Accounts : recovery'[b] \in {recovery[b], None}
  PROVE  Forth /\ \A b \in Accounts : Doc(b, book)'
  <1>1. account'[a] = "verified" /\ \A b \in Accounts : b # a => account'[b] = account[b]
    BY DEF TypeInv, Data
  <1>2. ASSUME NEW b \in Accounts
        PROVE  Doc(b, book)'
    <2>1. Doc(b, book)
      BY DEF Book
    <2>2. account'[b] = "verified" => <<b, email'[b]>> \in proven' \cup edited'
      BY <1>1, <2>1 DEF Doc, Live
    <2>3. ASSUME NEW s \in Secrets, login'[b] = s \/ recovery'[b] = s
          PROVE  Kept(b, s, book)'
      <3>1. Kept(b, s, book)
        BY <2>1, <2>3, NoneAssumption DEF Doc
      <3>2. QED
        BY <1>1, <3>1 DEF Kept
    <2>4. QED
      BY <2>2, <2>3 DEF Doc
  <1>3. Forth
    BY <1>1 DEF Forth, Live, Settled
  <1>4. QED
    BY <1>2, <1>3

LEMMA AddressProven ==
  ASSUME TypeInv, AddressInv, NEW r \in Requests, Consume(r) \/ Confirm(r)
  PROVE  AddressInv'
  <1>1. PICK book \in Books : Book(book)
    BY DEF AddressInv
  <1>2. PICK a \in Accounts, s \in Secrets : a = on[r] /\ s = mine[r]
    BY DEF TypeInv, Control, Equipped, Homeless, Holding, Consume, Confirm, At
  <1>3. /\ UNCHANGED <<email, login, drawn, mailed, edited>>
        /\ \A b \in Accounts : recovery'[b] \in {recovery[b], None}
        /\ at'[r] = "idle"
        /\ \A q \in Requests : q # r => Still(q)
    BY DEF Consume, Confirm, SetAuth, Return, Still, TypeInv, Control, Data, otp, auth
  <1>4. \/ UNCHANGED <<account, proven>>
        \/ /\ Live(a)
           /\ account' = [account EXCEPT ![a] = "verified"]
           /\ proven' = proven \cup {<<a, mailed[s]>>}
           /\ Consume(r) => login[a] = s
    BY <1>2 DEF Consume, Confirm
  <1>5. Hand(r, book)'
    BY <1>3 DEF Hand, Mailing
  <1>6. CASE UNCHANGED <<account, proven>>
    <2>1. Quiet
      <3>1. Docs
        BY <1>3, <1>6 DEF Docs
      <3>2. QED
        BY <1>3, <1>6, <3>1 DEF Quiet, Spoken, Mailing
    <2>2. QED
      BY <2>1, AddressQuiet
  <1>7. CASE /\ Live(a)
             /\ account' = [account EXCEPT ![a] = "verified"]
             /\ proven' = proven \cup {<<a, mailed[s]>>}
             /\ Consume(r) => login[a] = s
    <2>1. Hand(r, book) /\ Doc(a, book) /\ Letter(s, book)
      BY <1>1 DEF Book
    <2>2. account[a] = "pending" => email[a] = mailed[s]
      <3>1. CASE Consume(r)
        BY <1>2, <1>7, <2>1, <3>1 DEF Consume, At, Hand, Doc, Kept, Letter
      <3>2. CASE Confirm(r)
        BY <1>2, <2>1, <3>2 DEF Confirm, At, Hand, Letter
      <3>3. QED
        BY <3>1, <3>2
    <2>3. PICK e : e = mailed[s]
      OBVIOUS
    <2>4. \A b \in Accounts : Doc(b, book)'
      BY <1>1, <1>3, <1>7, <2>2, <2>3, DocProven
    <2>5. Forth
      BY <1>1, <1>3, <1>7, <2>2, <2>3, DocProven
    <2>6. QED
      BY <1>1, <1>3, <1>5, <2>4, <2>5, AddressMade, LettersForth
  <1>8. QED
    BY <1>4, <1>6, <1>7

(* An edit moves an account that was verified, and says so.                *)
LEMMA AddressEdited ==
  ASSUME TypeInv, AddressInv, NEW r \in Requests, Edit(r)
  PROVE  AddressInv'
  <1>1. PICK book \in Books : Book(book)
    BY DEF AddressInv
  <1>2. PICK a \in Accounts : a = on[r]
    BY DEF TypeInv, Control, Equipped, Homeless, Edit, At
  <1>3. account[a] \in Settled
    BY <1>1, <1>2 DEF Book, Hand, Edit, At
  <1>4. /\ UNCHANGED <<account, login, recovery, drawn, mailed, proven>>
        /\ \/ UNCHANGED <<email, edited>>
           \/ /\ email' = [email EXCEPT ![a] = to[r]]
              /\ edited' = edited \cup {<<a, to[r]>>}
        /\ at'[r] = "idle"
        /\ \A q \in Requests : q # r => Still(q)
    BY <1>2 DEF Edit, Return, Still, TypeInv, Control, otp, auth
  <1>5. \A b \in Accounts : b # a => email'[b] = email[b]
    BY <1>4 DEF TypeInv, Data
  <1>6. email'[a] = email[a] \/ <<a, email'[a]>> \in edited'
    BY <1>4 DEF TypeInv, Data
  <1>7. Forth
    BY <1>3, <1>4, <1>5 DEF Forth, Settled
  <1>8. ASSUME NEW b \in Accounts
        PROVE  Doc(b, book)'
    <2>1. Doc(b, book)
      BY <1>1 DEF Book
    <2>2. account[b] = "pending" => email'[b] = email[b]
      BY <1>3, <1>5 DEF Settled
    <2>3. account[b] = "verified" => <<b, email'[b]>> \in proven' \cup edited'
      BY <1>4, <1>5, <1>6, <2>1 DEF Doc
    <2>4. QED
      BY <1>4, <2>1, <2>2, <2>3 DEF Doc, Kept
  <1>9. Hand(r, book)'
    BY <1>4 DEF Hand, Mailing
  <1>10. QED
    BY <1>1, <1>4, <1>7, <1>8, <1>9, AddressMade, LettersForth

LEMMA AddressStep == TypeInv /\ AddressInv /\ [Next]_vars => AddressInv'
  <1> SUFFICES ASSUME TypeInv, AddressInv, [Next]_vars
               PROVE  AddressInv'
    OBVIOUS
  <1>1. ASSUME NEW r \in Requests, CodeSteps(r)
        PROVE  AddressInv'
    BY <1>1, AddressQuiet, QuietCodes, AddressDrawn, AddressCreated, AddressStored,
       AddressMailed, AddressFound, AddressProven DEF CodeSteps
  <1>2. ASSUME NEW r \in Requests, RecoverySteps(r)
        PROVE  AddressInv'
    BY <1>2, AddressQuiet, QuietRecovery, AddressDrawn, AddressCreated, AddressStored,
       AddressMailed, AddressFound, AddressProven DEF RecoverySteps
  <1>3. ASSUME NEW r \in Requests, AccountSteps(r) \/ Abort(r)
        PROVE  AddressInv'
    BY <1>3, AddressQuiet, QuietAccounts, AddressGoogle, AddressFound, AddressEdited
       DEF AccountSteps
  <1>4. QED
    BY <1>1, <1>2, <1>3, AddressQuiet, QuietTime DEF Next

\* Whoever is signed in enters an account that is verified by then, under an address
\* proved by a code mailed there or through Google, or put in the profile by its owner:
\* however sign-ups, codes, deletions and edits of the address interleave.
THEOREM EntriesAreProven == Spec => ProvenEnter
  <1>1. Init => TypeInv /\ AddressInv
    BY TypeInit, AddressInit
  <1>2. (TypeInv /\ AddressInv) /\ [Next]_vars => (TypeInv /\ AddressInv)'
    BY TypeStep, AddressStep
  <1>3. TypeInv /\ AddressInv /\ [Next]_vars =>
          [\A a \in Accounts, s \in Secrets :
             <<a, s>> \in entered' \ entered =>
               /\ account'[a] = "verified"
               /\ <<a, email'[a]>> \in proven' \cup edited']_vars
    <2> SUFFICES ASSUME TypeInv, AddressInv, [Next]_vars,
                        NEW a \in Accounts, NEW s \in Secrets, <<a, s>> \in entered' \ entered
                 PROVE  account'[a] = "verified" /\ <<a, email'[a]>> \in proven' \cup edited'
      OBVIOUS
    <2>1. account'[a] = "verified"
      BY OnwardStep DEF Onward
    <2>2. PICK book \in Books : Book(book)'
      BY AddressStep DEF AddressInv, Books
    <2>3. Doc(a, book)'
      BY <2>2 DEF Book
    <2>4. QED
      BY <2>1, <2>3 DEF Doc
  <1>4. QED
    BY <1>1, <1>2, <1>3, PTL DEF Spec, ProvenEnter

=============================================================================
