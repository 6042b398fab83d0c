---------------------------- MODULE OrderViewProofs ----------------------------
(***************************************************************************)
(* Proofs about OrderView, for every number of orders, handlers, issues    *)
(* and schedules.                                                          *)
(***************************************************************************)
EXTENDS OrderView, TLAPS

-----------------------------------------------------------------------------
(* Types *)

Issues == [type : IssueTypes, resolved : BOOLEAN, own : BOOLEAN]

OrderTypes ==
  /\ status \in [Orders -> OrderStatuses]
  /\ payment \in [Orders -> {"pending", "paid", "failed", "refunded"}]
  /\ payout \in [Orders -> {"pending", "paid"}]
  /\ outcome \in [Orders -> Outcomes \cup {None}]
  /\ history \in [Orders -> SUBSET OrderStatuses]
PlanTypes ==
  /\ pickup \in [Orders -> Nat \cup {None}]
  /\ delivery \in [Orders -> Nat \cup {None}]
  /\ plans \in [Orders -> 0 .. MaxPlans]
  /\ clashed \subseteq Orders
DeskTypes ==
  /\ named \subseteq Orders /\ gone \subseteq Orders
  /\ crossed \subseteq Orders /\ masked \subseteq Orders
  /\ issues \in [Orders -> Seq(Issues)]
JobTypes ==
  /\ at \in [Requests -> Steps]
  /\ on \in [Requests -> Orders \cup {None}]
  /\ to \in [Requests -> OrderStatuses \cup {None}]
  /\ why \in [Requests -> Outcomes \cup {None}]
  /\ files \in [Requests -> IssueTypes \cup {None}]
  /\ ends \in [Requests -> Nat \cup {None}]
  /\ due \in [Requests -> Nat \cup {None}]
Types == OrderTypes /\ PlanTypes /\ DeskTypes /\ JobTypes

(* A handler that is to work on an order, move it, or create an issue knows which. *)
Equipped(r) ==
  /\ at[r] # "idle" => on[r] \in Orders
  /\ at[r] = "move" => to[r] \in OrderStatuses
  /\ at[r] = "issue" => files[r] \in IssueTypes
Working == \A r \in Requests : Equipped(r)

LEMMA TypesSame ==
  /\ OrderTypes /\ UNCHANGED order => OrderTypes'
  /\ PlanTypes /\ UNCHANGED plan => PlanTypes'
  /\ DeskTypes /\ UNCHANGED <<desk, crossed>> => DeskTypes'
  /\ JobTypes /\ UNCHANGED job => JobTypes'
  BY DEF OrderTypes, PlanTypes, DeskTypes, JobTypes, order, plan, desk, job

(* An issue is appended, or resolved where it is. *)
LEMMA AppendTypes ==
  ASSUME DeskTypes, NEW o \in Orders, NEW issue \in Issues,
         issues' = [issues EXCEPT ![o] = Append(@, issue)]
  PROVE  /\ issues' \in [Orders -> Seq(Issues)]
         /\ Len(issues'[o]) = Len(issues[o]) + 1
         /\ issues'[o][Len(issues[o]) + 1] = issue
         /\ \A i \in 1 .. Len(issues[o]) : issues'[o][i] = issues[o][i]
         /\ \A q \in Orders \ {o} : issues'[q] = issues[q]
  <1> DEFINE old == issues[o]
  <1>1. old \in Seq(Issues)
    BY DEF DeskTypes
  <1>2. issues'[o] = Append(old, issue) /\ \A q \in Orders \ {o} : issues'[q] = issues[q]
    BY DEF DeskTypes
  <1>3. Append(old, issue) \in Seq(Issues)
    BY <1>1
  <1>4. issues' \in [Orders -> Seq(Issues)]
    BY <1>3 DEF DeskTypes
  <1> HIDE DEF old
  <1>5. /\ Len(Append(old, issue)) = Len(old) + 1
        /\ Append(old, issue)[Len(old) + 1] = issue
        /\ \A i \in 1 .. Len(old) : Append(old, issue)[i] = old[i]
    BY <1>1
  <1>6. QED
    BY <1>2, <1>4, <1>5 DEF old

LEMMA ResolveTypes ==
  ASSUME DeskTypes, NEW o \in Orders, NEW i \in DOMAIN issues[o],
         issues' = [issues EXCEPT ![o][i].resolved = TRUE]
  PROVE  /\ issues' \in [Orders -> Seq(Issues)]
         /\ Len(issues'[o]) = Len(issues[o])
         /\ \A j \in DOMAIN issues[o] : /\ issues'[o][j].type = issues[o][j].type
                                        /\ issues'[o][j].own = issues[o][j].own
                                        /\ issues[o][j].resolved => issues'[o][j].resolved
         /\ \A q \in Orders \ {o} : issues'[q] = issues[q]
  <1> DEFINE old == issues[o]
             new == [old EXCEPT ![i] = [@ EXCEPT !.resolved = TRUE]]
  <1>1. old \in Seq(Issues) /\ i \in 1 .. Len(old) /\ DOMAIN old = 1 .. Len(old)
    BY DEF DeskTypes
  <1>2. issues' = [issues EXCEPT ![o] = new]
    OBVIOUS
  <1> HIDE DEF old
  <1>3. old[i] \in Issues /\ [old[i] EXCEPT !.resolved = TRUE] \in Issues
    <2>1. old[i] \in Issues
      BY <1>1
    <2>2. QED
      BY <2>1 DEF Issues
  <1>4. new \in Seq(Issues) /\ Len(new) = Len(old)
    BY <1>1, <1>3
  <1>5. \A j \in DOMAIN old : /\ new[j].type = old[j].type /\ new[j].own = old[j].own
                              /\ old[j].resolved => new[j].resolved
    BY <1>1, <1>3 DEF Issues
  <1> HIDE DEF new
  <1>6. issues'[o] = new /\ (\A q \in Orders \ {o} : issues'[q] = issues[q])
        /\ issues' \in [Orders -> Seq(Issues)]
    BY <1>2, <1>4 DEF DeskTypes
  <1>7. QED
    BY <1>4, <1>5, <1>6 DEF old

-----------------------------------------------------------------------------
(* What a step does to the handlers, and to the orders it is not about *)

Same(s) ==
  /\ at'[s] = at[s] /\ on'[s] = on[s] /\ to'[s] = to[s] /\ why'[s] = why[s]
  /\ files'[s] = files[s] /\ ends'[s] = ends[s] /\ due'[s] = due[s]

Elsewhere(o) ==
  \A q \in Orders \ {o} :
    /\ status'[q] = status[q] /\ outcome'[q] = outcome[q] /\ history'[q] = history[q]
    /\ pickup'[q] = pickup[q] /\ delivery'[q] = delivery[q] /\ issues'[q] = issues[q]

LEMMA ReturnJob ==
  ASSUME JobTypes, NEW r \in Requests, Return(r)
  PROVE  /\ JobTypes' /\ at'[r] = "idle" /\ on'[r] = None
         /\ \A s \in Requests \ {r} : Same(s)
  BY DEF JobTypes, Return, Steps, Same

LEMMA GotoJob ==
  ASSUME JobTypes, NEW r \in Requests, NEW step \in Steps, Goto(r, step)
  PROVE  /\ JobTypes' /\ at'[r] = step /\ UNCHANGED <<on, to, why, files, ends, due>>
         /\ \A s \in Requests \ {r} : Same(s)
  BY DEF JobTypes, Goto, Same

LEMMA BeginJob ==
  ASSUME JobTypes, NEW r \in Requests, NEW o \in Orders, NEW step \in Steps,
         NEW target \in OrderStatuses \cup {None}, NEW cause \in Outcomes \cup {None},
         NEW type \in IssueTypes \cup {None}, Begin(r, o, step, target, cause, type)
  PROVE  /\ JobTypes' /\ at'[r] = step /\ on'[r] = o
         /\ to'[r] = target /\ why'[r] = cause /\ files'[r] = type
         /\ \A s \in Requests \ {r} : Same(s)
  BY DEF JobTypes, Begin, Enter, Same

LEMMA ScheduleJob ==
  ASSUME JobTypes, NEW r \in Requests, NEW o \in Orders, NEW end \in Nat \cup {None},
         NEW del \in Nat \cup {None}, EnterSchedule(r, o, end, del)
  PROVE  /\ JobTypes' /\ at'[r] = "schedule" /\ on'[r] = o /\ ends'[r] = end /\ due'[r] = del
         /\ \A s \in Requests \ {r} : Same(s)
  BY DEF JobTypes, EnterSchedule, Enter, Same, Steps

LEMMA StatusTypes ==
  ASSUME OrderTypes, NEW o \in Orders, NEW value \in OrderStatuses, SetStatus(o, value)
  PROVE  /\ status' \in [Orders -> OrderStatuses] /\ history' \in [Orders -> SUBSET OrderStatuses]
         /\ status'[o] = value /\ history'[o] = history[o] \cup {value}
         /\ \A q \in Orders \ {o} : status'[q] = status[q] /\ history'[q] = history[q]
  BY DEF OrderTypes, SetStatus

(* The order is crossed by the step unless nobody works on it. *)
Calm(o) ==
  /\ crossed \subseteq crossed' /\ crossed' \subseteq crossed \cup {o}
  /\ o \in crossed' \/ ~Busy(o)

LEMMA TouchCalm == ASSUME NEW o, Touch(o) PROVE Calm(o)
  <1>1. CASE Busy(o)
    BY <1>1 DEF Touch, Calm
  <1>2. CASE ~Busy(o)
    BY <1>2 DEF Touch, Calm
  <1>3. QED
    BY <1>1, <1>2

(* A call leaves the handlers and the other orders alone, and crosses the order *)
(* unless nobody else works on it.                                              *)
LEMMA CallTypes ==
  ASSUME Types, NEW o \in Orders, Calls(o)
  PROVE  Types' /\ UNCHANGED job /\ Elsewhere(o) /\ Calm(o)
  <1>a. OrderTypes /\ PlanTypes /\ DeskTypes /\ JobTypes
    BY DEF Types
  <1>b. OrderStatuses = {"ready_for_delivery", "delivered", "completed", "refunded", "cancelled",
                         "pending_payment", "secured", "collection_pending", "collected",
                         "verification", "payout_processing"}
    BY DEF OrderStatuses, Delivering, Dead
  <1>1. UNCHANGED job
    BY DEF Calls, Pay, PayWrong, PayLate, Decline, Expire, CancelPending, PaySeller, Resolve
  <1>2. JobTypes'
    BY <1>a, <1>1, TypesSame
  <1>3. Calm(o)
    <2>1. CASE PayWrong(o)
      BY <2>1 DEF PayWrong, Calm
    <2>2. CASE Touch(o)
      BY <2>2, TouchCalm
    <2>3. QED
      BY <2>1, <2>2 DEF Calls, Pay, PayLate, Decline, Expire, CancelPending, PaySeller, Resolve
  <1>4. UNCHANGED plan
    BY DEF Calls, Pay, PayWrong, PayLate, Decline, Expire, CancelPending, PaySeller, Resolve
  <1>5. PlanTypes'
    BY <1>a, <1>4, TypesSame
  <1>6. CASE Resolve(o, 1, TRUE) \/ \E i \in DOMAIN issues[o], delete \in BOOLEAN : Resolve(o, i, delete)
    <2>1. PICK i \in DOMAIN issues[o], delete \in BOOLEAN : Resolve(o, i, delete)
      BY <1>6 DEF Resolve, Unresolved
    <2>2. UNCHANGED <<order, masked>> /\ named' \subseteq named /\ gone' \subseteq gone \cup {o}
      BY <2>1 DEF Resolve
    <2>3. issues' = [issues EXCEPT ![o][i].resolved = TRUE]
      BY <2>1 DEF Resolve
    <2>4. issues' \in [Orders -> Seq(Issues)] /\ \A q \in Orders \ {o} : issues'[q] = issues[q]
      BY <1>a, <2>3, ResolveTypes
    <2>5. OrderTypes' /\ DeskTypes'
      BY <1>a, <1>3, <2>2, <2>4, TypesSame DEF DeskTypes, Calm
    <2>6. Elsewhere(o)
      BY <1>4, <2>2, <2>4 DEF Elsewhere, order, plan
    <2>7. QED
      BY <1>1, <1>2, <1>3, <1>5, <2>5, <2>6 DEF Types
  <1>7. CASE Pay(o) \/ PayWrong(o) \/ PayLate(o) \/ Decline(o) \/ Expire(o) \/ CancelPending(o)
             \/ PaySeller(o)
    <2>1. UNCHANGED <<gone, issues, masked>> /\ named' \subseteq named \cup {o}
      BY <1>7 DEF Pay, PayWrong, PayLate, Decline, Expire, CancelPending, PaySeller, desk
    <2>2. DeskTypes'
      BY <1>a, <1>3, <2>1 DEF DeskTypes, Calm
    <2>3. /\ OrderTypes'
          /\ \A q \in Orders \ {o} :
               status'[q] = status[q] /\ outcome'[q] = outcome[q] /\ history'[q] = history[q]
      <3>1. CASE Pay(o)
        BY <1>a, <1>b, <3>1 DEF Pay, SetStatus, OrderTypes
      <3>2. CASE PayWrong(o)
        BY <1>a, <1>b, <3>2 DEF PayWrong, SetStatus, OrderTypes
      <3>3. CASE PayLate(o)
        BY <1>a, <1>b, <3>3 DEF PayLate, SetStatus, OrderTypes
      <3>4. CASE Decline(o)
        BY <1>a, <1>b, <3>4 DEF Decline, SetStatus, OrderTypes
      <3>5. CASE Expire(o)
        BY <1>a, <1>b, <3>5 DEF Expire, SetStatus, OrderTypes
      <3>6. CASE CancelPending(o)
        BY <1>a, <1>b, <3>6 DEF CancelPending, SetStatus, OrderTypes
      <3>7. CASE PaySeller(o)
        BY <1>a, <1>b, <3>7 DEF PaySeller, SetStatus, OrderTypes
      <3>8. QED
        BY <1>7, <3>1, <3>2, <3>3, <3>4, <3>5, <3>6, <3>7
    <2>4. Elsewhere(o)
      BY <1>4, <2>1, <2>3 DEF Elsewhere, plan
    <2>5. QED
      BY <1>1, <1>2, <1>3, <1>5, <2>2, <2>3, <2>4 DEF Types
  <1>8. QED
    BY <1>6, <1>7 DEF Calls

(* A handler is started on an order: the order stays, and is crossed unless nobody *)
(* else works on it.                                                               *)
LEMMA StartTypes ==
  ASSUME Types, NEW r \in Requests, NEW o \in Orders, Start(r, o)
  PROVE  /\ Types' /\ UNCHANGED <<order, pickup, delivery, desk>> /\ Calm(o)
         /\ at[r] = "idle" /\ on'[r] = o
         /\ \A s \in Requests \ {r} : Same(s)
  <1>a. OrderTypes /\ PlanTypes /\ DeskTypes /\ JobTypes
    BY DEF Types
  <1>1. CASE \E asked \in Requested : StartSchedule(r, o, asked[1], asked[2])
    <2>1. PICK end \in Nat \cup {None}, del \in Nat \cup {None} : StartSchedule(r, o, end, del)
      BY <1>1, RequestedAssumption
    <2>3. EnterSchedule(r, o, end, del)
      BY <2>1 DEF StartSchedule
    <2>4. /\ JobTypes' /\ on'[r] = o /\ \A s \in Requests \ {r} : Same(s)
      BY <1>a, <2>3, ScheduleJob
    <2>5. UNCHANGED <<order, pickup, delivery, desk>> /\ Calm(o) /\ at[r] = "idle"
      BY <2>3, TouchCalm DEF EnterSchedule, Enter, At
    <2>6. OrderTypes' /\ DeskTypes'
      BY <1>a, <2>5, TypesSame DEF DeskTypes, Calm, desk
    <2>7. plans' \in [Orders -> 0 .. MaxPlans] /\ clashed' \subseteq Orders
      <3>1. plans[o] \in 0 .. MaxPlans /\ plans[o] < MaxPlans
        BY <1>a, <2>3 DEF EnterSchedule, PlanTypes
      <3>2. plans[o] + 1 \in 0 .. MaxPlans
        BY <3>1, BoundAssumption
      <3>3. QED
        BY <1>a, <2>3, <3>2 DEF EnterSchedule, PlanTypes
    <2>8. PlanTypes'
      BY <1>a, <2>5, <2>7 DEF PlanTypes
    <2>9. QED
      BY <2>4, <2>5, <2>6, <2>8 DEF Types
  <1>2. ASSUME NEW step \in Steps, NEW target \in OrderStatuses \cup {None},
               NEW cause \in Outcomes \cup {None}, NEW type \in IssueTypes \cup {None},
               Begin(r, o, step, target, cause, type)
        PROVE  /\ Types' /\ UNCHANGED <<order, pickup, delivery, desk>> /\ Calm(o)
               /\ at[r] = "idle" /\ on'[r] = o
               /\ \A s \in Requests \ {r} : Same(s)
    <2>1. JobTypes' /\ on'[r] = o /\ \A s \in Requests \ {r} : Same(s)
      BY <1>a, <1>2, BeginJob
    <2>2. UNCHANGED <<order, plan, desk>> /\ Calm(o) /\ at[r] = "idle"
      BY <1>2, TouchCalm DEF Begin, Enter, At
    <2>3. OrderTypes' /\ PlanTypes' /\ DeskTypes'
      BY <1>a, <2>2, TypesSame DEF DeskTypes, Calm, desk
    <2>4. QED
      BY <2>1, <2>2, <2>3 DEF Types, plan
  <1>b. /\ {"cancelled", "refunded"} \subseteq OrderStatuses
        /\ "seller_unavailable" \in Outcomes
        /\ {"move", "missed", "issue"} \subseteq Steps
        /\ {"verification_failed", "buyer_refused", "seller_unavailable", "others"} \subseteq IssueTypes
    BY DEF OrderStatuses, Dead, Outcomes, AtCollection, Steps, IssueTypes
  <1>3. CASE \E target \in OrderStatuses, cause \in Outcomes \cup {None} : StartMove(r, o, target, cause)
    BY <1>b, <1>2, <1>3 DEF StartMove
  <1>4. CASE StartCancel(r, o)
    BY <1>b, <1>2, <1>4 DEF StartCancel
  <1>5. CASE StartMissed(r, o)
    BY <1>b, <1>2, <1>5 DEF StartMissed
  <1>6. CASE \E type \in IssueTypes, cause \in Outcomes : StartRefusal(r, o, type, cause)
    BY <1>b, <1>2, <1>6 DEF StartRefusal
  <1>7. CASE StartUnavailable(r, o)
    BY <1>b, <1>2, <1>7 DEF StartUnavailable
  <1>8. CASE StartOthers(r, o)
    BY <1>b, <1>2, <1>8 DEF StartOthers, MayReport
  <1>9. QED
    BY <1>1, <1>3, <1>4, <1>5, <1>6, <1>7, <1>8 DEF Start

(* A handler's next step, after which it has returned or goes on with its order. *)
LEMMA ContinueTypes ==
  ASSUME Types, NEW r \in Requests, Equipped(r), NEW o \in Orders, o = on[r], Continue(r)
  PROVE  /\ Types' /\ crossed' = crossed /\ Elsewhere(o)
         /\ \A s \in Requests \ {r} : Same(s)
         /\ \/ at'[r] = "idle" /\ on'[r] = None
            \/ at'[r] # "idle" /\ UNCHANGED <<on, to, why, files, ends, due>>
  <1>a. OrderTypes /\ PlanTypes /\ DeskTypes /\ JobTypes
    BY DEF Types
  <1>1. crossed' = crossed
    BY DEF Continue, SaveMove, SaveMissed, OpenPolicyIssue, CreateIssue, SaveSchedule
  <1>2. Return(r) \/ \E step \in {"policyIssue", "issue"} : Goto(r, step)
    BY DEF Continue, SaveMove, SaveMissed, OpenPolicyIssue, CreateIssue, SaveSchedule
  <1>3. /\ JobTypes' /\ \A s \in Requests \ {r} : Same(s)
        /\ \/ at'[r] = "idle" /\ on'[r] = None
           \/ at'[r] # "idle" /\ UNCHANGED <<on, to, why, files, ends, due>>
    BY <1>a, <1>2, ReturnJob, GotoJob DEF Steps
  <1>4. CASE SaveMove(r)
    <2>1. /\ SetStatus(o, to[r]) /\ at[r] = "move"
          /\ payment' = [payment EXCEPT ![o] = IF to[r] \in Dead /\ @ = "paid" THEN "refunded" ELSE @]
          /\ outcome' = [outcome EXCEPT ![o] = IF why[r] = None THEN @ ELSE why[r]]
          /\ named' \subseteq named /\ UNCHANGED <<payout, plan, gone, issues, masked>>
      BY <1>4 DEF SaveMove, At
    <2>2. why[r] \in Outcomes \cup {None} /\ to[r] \in OrderStatuses \cup {None}
      BY <1>a DEF JobTypes
    <2>3. payment' \in [Orders -> {"pending", "paid", "failed", "refunded"}]
      BY <1>a, <2>1 DEF OrderTypes
    <2>4. /\ outcome' \in [Orders -> Outcomes \cup {None}]
          /\ \A q \in Orders \ {o} : outcome'[q] = outcome[q]
      BY <1>a, <2>1, <2>2 DEF OrderTypes
    <2>5. DeskTypes' /\ PlanTypes'
      BY <1>a, <1>1, <2>1, TypesSame DEF DeskTypes
    <2>6. to[r] \in OrderStatuses
      BY <2>1 DEF Equipped
    <2>7. OrderTypes' /\ \A q \in Orders \ {o} : status'[q] = status[q] /\ history'[q] = history[q]
      BY <1>a, <2>1, <2>3, <2>4, <2>6, StatusTypes DEF OrderTypes
    <2>8. Elsewhere(o)
      BY <2>1, <2>4, <2>7 DEF Elsewhere, plan
    <2>9. QED
      BY <1>1, <1>3, <2>5, <2>7, <2>8 DEF Types
  <1>5. CASE \E last \in BOOLEAN : SaveMissed(r, last)
    <2>1. PICK last \in BOOLEAN : SaveMissed(r, last)
      BY <1>5
    <2>2. named' \subseteq named /\ UNCHANGED <<payout, plan, gone, issues, masked>>
      BY <2>1 DEF SaveMissed
    <2>3. DeskTypes' /\ PlanTypes'
      BY <1>a, <1>1, <2>2, TypesSame DEF DeskTypes
    <2>4. OrderTypes' /\ \A q \in Orders \ {o} :
            status'[q] = status[q] /\ history'[q] = history[q] /\ outcome'[q] = outcome[q]
      <3>1. CASE last
        <4>1. /\ SetStatus(o, "cancelled")
              /\ payment' = [payment EXCEPT ![o] = IF @ = "paid" THEN "refunded" ELSE @]
              /\ outcome' = [outcome EXCEPT ![o] = "seller_unavailable"]
          BY <2>1, <3>1 DEF SaveMissed
        <4>2. "cancelled" \in OrderStatuses /\ "seller_unavailable" \in Outcomes
          BY DEF OrderStatuses, Dead, Outcomes, AtCollection
        <4>3. payment' \in [Orders -> {"pending", "paid", "failed", "refunded"}]
          BY <1>a, <4>1 DEF OrderTypes
        <4>4. /\ outcome' \in [Orders -> Outcomes \cup {None}]
              /\ \A q \in Orders \ {o} : outcome'[q] = outcome[q]
          BY <1>a, <4>1, <4>2 DEF OrderTypes
        <4>5. QED
          BY <1>a, <2>2, <4>1, <4>2, <4>3, <4>4, StatusTypes DEF OrderTypes
      <3>2. CASE ~last
        BY <1>a, <2>1, <2>2, <3>2 DEF SaveMissed, OrderTypes
      <3>3. QED
        BY <3>1, <3>2
    <2>5. Elsewhere(o)
      BY <2>2, <2>4 DEF Elsewhere, plan
    <2>6. QED
      BY <1>1, <1>3, <2>3, <2>4, <2>5 DEF Types
  <1>6. CASE OpenPolicyIssue(r) \/ CreateIssue(r)
    <2>1. UNCHANGED <<order, plan, named, gone>>
      BY <1>6 DEF OpenPolicyIssue, CreateIssue
    <2>2. CASE UNCHANGED <<issues, masked>>
      BY <1>a, <1>1, <1>3, <2>1, <2>2, TypesSame DEF Types, DeskTypes, Elsewhere, order, plan
    <2>3. ASSUME NEW type \in IssueTypes, NEW resolved \in BOOLEAN, Append1(r, type, resolved)
          PROVE  Types' /\ Elsewhere(o)
      <3>1. Issue(type, resolved, TRUE) \in Issues
        BY DEF Issue, Issues
      <3>2. issues' = [issues EXCEPT ![o] = Append(@, Issue(type, resolved, TRUE))]
        BY <2>3 DEF Append1
      <3>3. issues' \in [Orders -> Seq(Issues)] /\ \A q \in Orders \ {o} : issues'[q] = issues[q]
        BY <1>a, <3>1, <3>2, AppendTypes
      <3>4. masked' \subseteq masked \cup {o}
        BY <2>3 DEF Append1
      <3>5. QED
        BY <1>a, <1>1, <1>3, <2>1, <3>3, <3>4, TypesSame DEF Types, DeskTypes, Elsewhere, order, plan
    <2>4. ASSUME OpenPolicyIssue(r), Unresolved(o) = {} PROVE Types' /\ Elsewhere(o)
      BY <2>3, <2>4 DEF OpenPolicyIssue, IssueTypes
    <2>5. ASSUME CreateIssue(r) PROVE Types' /\ Elsewhere(o)
      <3>1. files[r] \in IssueTypes
        BY <2>5 DEF CreateIssue, At, Equipped
      <3>2. QED
        BY <2>3, <2>5, <3>1 DEF CreateIssue
    <2>6. QED
      BY <1>1, <1>3, <1>6, <2>2, <2>4, <2>5 DEF OpenPolicyIssue
  <1>7. CASE SaveSchedule(r)
    <2>1. /\ pickup' = [pickup EXCEPT ![o] = Or(ends[r], @)]
          /\ delivery' = [delivery EXCEPT ![o] = Or(due[r], @)]
          /\ UNCHANGED <<order, plans, clashed, desk>>
      BY <1>7 DEF SaveSchedule
    <2>2. PlanTypes' /\ \A q \in Orders \ {o} : pickup'[q] = pickup[q] /\ delivery'[q] = delivery[q]
      BY <1>a, <2>1 DEF PlanTypes, JobTypes, Or
    <2>3. OrderTypes' /\ DeskTypes'
      BY <1>a, <1>1, <2>1, TypesSame
    <2>4. Elsewhere(o)
      BY <2>1, <2>2 DEF Elsewhere, order, desk
    <2>5. QED
      BY <1>1, <1>3, <2>2, <2>3, <2>4 DEF Types
  <1>8. CASE Return(r) /\ UNCHANGED <<order, plan, desk, crossed>>
    <2>1. OrderTypes' /\ PlanTypes' /\ DeskTypes'
      BY <1>a, <1>8, TypesSame
    <2>2. Elsewhere(o)
      BY <1>8 DEF Elsewhere, order, plan, desk
    <2>3. QED
      BY <1>1, <1>3, <2>1, <2>2 DEF Types
  <1>9. QED
    BY <1>4, <1>5, <1>6, <1>7, <1>8 DEF Continue

LEMMA WorkingKept ==
  ASSUME Types, Working, Next
  PROVE  Working'
  <1>a. JobTypes
    BY DEF Types
  <1>1. ASSUME NEW o \in Orders, Calls(o) PROVE Working'
    BY <1>1, CallTypes DEF Working, Equipped, job
  <1>2. ASSUME NEW r \in Requests, NEW o \in Orders, Start(r, o) PROVE Working'
    <2>1. /\ on'[r] = o /\ \A s \in Requests \ {r} : Same(s)
      BY <1>2, StartTypes
    <2>2. /\ at'[r] = "move" => to'[r] \in OrderStatuses
          /\ at'[r] = "issue" => files'[r] \in IssueTypes
      <3>1. ASSUME NEW step \in Steps, NEW target \in OrderStatuses,
                   NEW cause \in Outcomes \cup {None}, NEW type \in IssueTypes \cup {None},
                   Begin(r, o, step, target, cause, type), step # "issue"
            PROVE  at'[r] # "issue" /\ to'[r] \in OrderStatuses
        BY <1>a, <3>1, BeginJob
      <3>2. CASE StartOthers(r, o)
        <4>1. Begin(r, o, "issue", None, None, "others")
          BY <3>2 DEF StartOthers
        <4>2. at'[r] = "issue" /\ files'[r] = "others"
          BY <1>a, <4>1, BeginJob DEF Steps, IssueTypes
        <4>3. QED
          BY <4>2 DEF IssueTypes
      <3>3. CASE \E asked \in Requested : StartSchedule(r, o, asked[1], asked[2])
        <4>1. PICK end \in Nat \cup {None}, del \in Nat \cup {None} : EnterSchedule(r, o, end, del)
          BY <3>3, RequestedAssumption DEF StartSchedule
        <4>2. at'[r] = "schedule"
          BY <1>a, <4>1, ScheduleJob
        <4>3. QED
          BY <4>2
      <3>b. /\ {"cancelled", "refunded"} \subseteq OrderStatuses
            /\ "seller_unavailable" \in Outcomes
            /\ {"move", "missed"} \subseteq Steps
            /\ {"verification_failed", "buyer_refused", "seller_unavailable"} \subseteq IssueTypes
        BY DEF OrderStatuses, Dead, Outcomes, AtCollection, Steps, IssueTypes
      <3>4. CASE \E target \in OrderStatuses, cause \in Outcomes \cup {None} :
                   StartMove(r, o, target, cause)
        BY <3>b, <3>1, <3>4 DEF StartMove
      <3>5. CASE StartCancel(r, o)
        BY <3>b, <3>1, <3>5 DEF StartCancel
      <3>6. CASE StartMissed(r, o) \/ StartUnavailable(r, o)
        BY <3>b, <3>1, <3>6 DEF StartMissed, StartUnavailable
      <3>7. CASE \E type \in IssueTypes, cause \in Outcomes : StartRefusal(r, o, type, cause)
        BY <3>b, <3>1, <3>7 DEF StartRefusal
      <3>8. QED
        BY <1>2, <3>2, <3>3, <3>4, <3>5, <3>6, <3>7 DEF Start
    <2>3. QED
      BY <2>1, <2>2 DEF Working, Equipped, Same
  <1>3. ASSUME NEW r \in Requests, Continue(r) PROVE Working'
    <2>1. at[r] # "idle"
      BY <1>3 DEF Continue, SaveMove, SaveMissed, OpenPolicyIssue, CreateIssue, SaveSchedule, At
    <2>2. PICK o \in Orders : o = on[r]
      BY <2>1 DEF Working, Equipped
    <2>3. /\ \A s \in Requests \ {r} : Same(s)
          /\ \/ at'[r] = "idle" /\ on'[r] = None
             \/ at'[r] # "idle" /\ UNCHANGED <<on, to, why, files, ends, due>>
      BY <1>3, <2>2, ContinueTypes DEF Working
    <2>4. at'[r] = "issue" => files[r] \in IssueTypes
      <3>1. CASE Return(r)
        BY <1>a, <3>1, ReturnJob
      <3>2. CASE Goto(r, "policyIssue")
        BY <1>a, <3>2, GotoJob DEF Steps
      <3>3. CASE files[r] # None
        BY <1>a, <3>3 DEF JobTypes
      <3>4. QED
        BY <1>3, <3>1, <3>2, <3>3
        DEF Continue, SaveMove, SaveMissed, OpenPolicyIssue, CreateIssue, SaveSchedule
    <2>5. at'[r] # "move"
      <3>1. CASE Return(r)
        BY <1>a, <3>1, ReturnJob
      <3>2. CASE \E step \in {"policyIssue", "issue"} : Goto(r, step)
        BY <1>a, <3>2, GotoJob DEF Steps
      <3>3. QED
        BY <1>3, <3>1, <3>2
        DEF Continue, SaveMove, SaveMissed, OpenPolicyIssue, CreateIssue, SaveSchedule
    <2>6. QED
      BY <2>2, <2>3, <2>4, <2>5 DEF Working, Equipped, Same
  <1>4. QED
    BY <1>1, <1>2, <1>3, BoundAssumption DEF Next

-----------------------------------------------------------------------------
(* What holds of an order that no two handlers changed at once *)

Second == {"collected", "verification"}
Third == {"payout_processing", "ready_for_delivery"}
Fourth == {"delivered", "completed"}

(* Its history is a path of ORDER_STATUS_TRANSITIONS that ends where it is now, *)
(* and its outcome says how far it had come when it was refunded.              *)
Closed(h) ==
  /\ h \cap ({"collection_pending"} \cup Second \cup Third \cup Fourth) # {} => "secured" \in h
  /\ "verification" \in h => "collected" \in h
  /\ "payout_processing" \in h => "collected" \in h
  /\ "ready_for_delivery" \in h => "payout_processing" \in h
  /\ "delivered" \in h => "ready_for_delivery" \in h
  /\ "completed" \in h => "delivered" \in h
Within(s, h) ==
  /\ s \notin Dead => s \in h
  /\ s = "pending_payment" => "secured" \notin h
  /\ s \in {"secured", "collection_pending"} => h \cap Second = {}
  /\ s \in {"pending_payment", "secured", "collection_pending"} \cup Second => h \cap Third = {}
  /\ s \in {"pending_payment", "secured", "collection_pending"} \cup Second \cup Third =>
       h \cap Fourth = {}
Ended(s, h, c) ==
  /\ s \notin Dead => c = None
  /\ s \in Dead /\ "payout_processing" \in h => c \in AtDelivery
  /\ c \in AtDelivery => "payout_processing" \in h
  /\ c \in AtVerification => "payout_processing" \notin h
Path(o) ==
  Closed(history[o]) /\ Within(status[o], history[o]) /\ Ended(status[o], history[o], outcome[o])

(* Its own issues about a failed verification say what its outcome says. *)
OwnIssues(o) ==
  \A i \in 1 .. Len(issues[o]) :
    issues[o][i].own /\ issues[o][i].type = "verification_failed" => outcome[o] \in AtVerification

(* The one handler that works on it read the order as it is. *)
Alone(o) == \A r, s \in Requests : on[r] = o /\ on[s] = o => r = s
Informed(r, o) ==
  /\ at[r] = "move" => /\ to[r] \in Transitions[status[o]]
                       /\ why[r] \in PolicyOutcomes(status[o], to[r])
                       /\ files[r] = "verification_failed" => why[r] \in AtVerification
  /\ at[r] = "missed" => status[o] = "collection_pending" /\ files[r] # "verification_failed"
  /\ at[r] = "policyIssue" /\ why[r] \in AtVerification => outcome[o] \in AtVerification
  /\ at[r] = "issue" /\ files[r] = "verification_failed" => outcome[o] \in AtVerification

Good(o) ==
  /\ Path(o) /\ OwnIssues(o) /\ Alone(o)
  /\ \A r \in Requests : on[r] = o => Informed(r, o)

LEMMA Statuses ==
  OrderStatuses = {"ready_for_delivery", "delivered", "completed", "refunded", "cancelled",
                   "pending_payment", "secured", "collection_pending", "collected",
                   "verification", "payout_processing"}
  BY DEF OrderStatuses, Delivering, Dead

LEMMA Moves ==
  ASSUME NEW s \in OrderStatuses, NEW t \in Transitions[s]
  PROVE  \/ s = "pending_payment" /\ t = "secured"
         \/ s = "secured" /\ t \in {"collection_pending", "collected", "cancelled"}
         \/ s = "collection_pending" /\ t \in {"collected", "cancelled"}
         \/ s = "collected" /\ t \in {"verification", "payout_processing", "refunded"}
         \/ s = "verification" /\ t \in {"payout_processing", "refunded"}
         \/ s = "payout_processing" /\ t = "ready_for_delivery"
         \/ s = "ready_for_delivery" /\ t \in {"delivered", "refunded"}
         \/ s = "delivered" /\ t = "completed"
  BY Statuses DEF Transitions

(* A path goes on by a transition, with the outcome the policy gives it. *)
LEMMA PathMoves ==
  ASSUME NEW s \in OrderStatuses, NEW t \in Transitions[s], NEW h \in SUBSET OrderStatuses,
         NEW cause \in PolicyOutcomes(s, t), NEW c, NEW d,
         Closed(h), Within(s, h), Ended(s, h, c), d = IF cause = None THEN c ELSE cause
  PROVE  Closed(h \cup {t}) /\ Within(t, h \cup {t}) /\ Ended(t, h \cup {t}, d) /\ c = None
  <1>a. None \notin Outcomes
    BY NoneAssumption
  <1>1. c = None
    BY Moves DEF Ended, Dead
  <1>2. Closed(h \cup {t})
    BY Moves DEF Closed, Within, Dead, Second, Third, Fourth
  <1>3. Within(t, h \cup {t})
    BY Moves DEF Closed, Within, Dead, Second, Third, Fourth
  <1>4. Ended(t, h \cup {t}, d)
    <2>1. CASE t \notin Dead
      <3>1. t # "refunded" /\ cause = None /\ d = None
        BY <1>1, <2>1 DEF Dead, PolicyOutcomes
      <3>2. QED
        BY <1>a, <2>1, <3>1 DEF Ended, Outcomes
    <2>2. CASE t = "cancelled"
      <3>1. cause = None /\ d = None
        BY <1>1, <2>2 DEF PolicyOutcomes
      <3>2. "payout_processing" \notin h \cup {t}
        BY <2>2, Moves DEF Within, Third
      <3>3. QED
        BY <1>a, <2>2, <3>1, <3>2 DEF Ended, Dead, Outcomes
    <2>3. CASE t = "refunded" /\ s = "ready_for_delivery"
      <3>1. cause \in AtDelivery /\ d = cause
        BY <1>a, <2>3 DEF PolicyOutcomes, Outcomes
      <3>2. "payout_processing" \in h
        BY <2>3 DEF Closed, Within, Dead
      <3>3. QED
        BY <2>3, <3>1, <3>2 DEF Ended, Dead, AtDelivery, AtVerification
    <2>4. CASE t = "refunded" /\ s # "ready_for_delivery"
      <3>1. cause \in AtVerification /\ d = cause
        BY <1>a, <2>4 DEF PolicyOutcomes, Outcomes
      <3>2. "payout_processing" \notin h \cup {t}
        BY <2>4, Moves DEF Within, Second, Third
      <3>3. QED
        BY <2>4, <3>1, <3>2 DEF Ended, Dead, AtDelivery, AtVerification
    <2>5. QED
      BY <2>1, <2>2, <2>3, <2>4 DEF Dead
  <1>5. QED
    BY <1>1, <1>2, <1>3, <1>4

LEMMA GoodElsewhere ==
  ASSUME NEW o, NEW q \in Orders \ {o}, Good(q), Elsewhere(o),
         \A s \in Requests : on'[s] = q => Same(s)
  PROVE  Good(q)'
  <1>1. /\ status'[q] = status[q] /\ outcome'[q] = outcome[q] /\ history'[q] = history[q]
        /\ pickup'[q] = pickup[q] /\ delivery'[q] = delivery[q] /\ issues'[q] = issues[q]
    BY DEF Elsewhere
  <1>2. (Path(q) /\ OwnIssues(q))'
    BY <1>1 DEF Good, Path, OwnIssues
  <1>3. Alone(q)'
    BY DEF Good, Alone, Same
  <1>4. ASSUME NEW s \in Requests, on'[s] = q PROVE Informed(s, q)'
    <2>1. Same(s)
      BY <1>4
    <2>2. Informed(s, q)
      BY <1>4, <2>1 DEF Good, Same
    <2>3. QED
      BY <1>1, <2>1, <2>2 DEF Informed, Same
  <1>5. QED
    BY <1>2, <1>3, <1>4 DEF Good

LEMMA CallGood ==
  ASSUME Types, NEW o \in Orders \ crossed, Good(o), Calls(o), o \notin crossed'
  PROVE  Good(o)'
  <1>a. OrderTypes /\ DeskTypes /\ UNCHANGED job /\ ~Busy(o)
    BY CallTypes DEF Types, Calm
  <1>1. \A r \in Requests : on'[r] # o
    BY <1>a DEF Busy, job
  <1>b. Closed(history[o]) /\ Within(status[o], history[o]) /\ Ended(status[o], history[o], outcome[o])
    BY DEF Good, Path
  <1>c. None \notin Outcomes /\ status[o] \in OrderStatuses /\ history[o] \in SUBSET OrderStatuses
    BY <1>a, NoneAssumption DEF OrderTypes
  <1>d. {"secured", "refunded", "cancelled"} \subseteq OrderStatuses
    BY Statuses
  <1>3. ASSUME NEW i \in DOMAIN issues[o], NEW delete \in BOOLEAN, Resolve(o, i, delete)
        PROVE  (Path(o) /\ OwnIssues(o))'
    <2>1. issues' = [issues EXCEPT ![o][i].resolved = TRUE] /\ UNCHANGED order
      BY <1>3 DEF Resolve
    <2>2. DOMAIN issues[o] = 1 .. Len(issues[o])
      BY <1>a DEF DeskTypes
    <2>3. /\ Len(issues'[o]) = Len(issues[o])
          /\ \A j \in DOMAIN issues[o] : /\ issues'[o][j].type = issues[o][j].type
                                         /\ issues'[o][j].own = issues[o][j].own
      BY <1>a, <2>1, ResolveTypes
    <2>t. UNCHANGED <<status, outcome, history>>
      BY <2>1 DEF order
    <2>4. OwnIssues(o)'
      BY <2>2, <2>3, <2>t DEF Good, OwnIssues
    <2>5. Path(o)'
      BY <2>t DEF Good, Path
    <2>6. QED
      BY <2>4, <2>5
  <1>4. ASSUME Decline(o) \/ PaySeller(o) PROVE (Path(o) /\ OwnIssues(o))'
    <2>1. UNCHANGED <<status, outcome, history, issues>>
      BY <1>4 DEF Decline, PaySeller, desk
    <2>2. QED
      BY <2>1 DEF Good, Path, OwnIssues
  <1>5. ASSUME UNCHANGED <<issues, outcome>>,
               Closed(history'[o]), Within(status'[o], history'[o]),
               Ended(status'[o], history'[o], outcome[o])
        PROVE  (Path(o) /\ OwnIssues(o))'
    BY <1>5 DEF Good, Path, OwnIssues
  <1>6. ASSUME Pay(o) PROVE (Path(o) /\ OwnIssues(o))'
    <2>1. /\ status[o] = "pending_payment" /\ SetStatus(o, "secured")
          /\ UNCHANGED <<issues, outcome>>
      BY <1>6 DEF Pay
    <2>2. status'[o] = "secured" /\ history'[o] = history[o] \cup {"secured"}
      BY <1>a, <1>d, <2>1, StatusTypes
    <2>3. "secured" \in Transitions[status[o]] /\ None \in PolicyOutcomes(status[o], "secured")
      BY <2>1, Statuses DEF Transitions, PolicyOutcomes
    <2>4. /\ Closed(history[o] \cup {"secured"}) /\ Within("secured", history[o] \cup {"secured"})
          /\ Ended("secured", history[o] \cup {"secured"}, outcome[o])
      BY <1>b, <1>c, <2>3, PathMoves
    <2>5. QED
      BY <1>5, <2>1, <2>2, <2>4
  <1>7. ASSUME PayWrong(o) PROVE (Path(o) /\ OwnIssues(o))'
    <2>1. status[o] = "pending_payment" /\ UNCHANGED <<issues, outcome, history>>
      BY <1>7 DEF PayWrong
    <2>2. status'[o] = "refunded"
      BY <1>a, <1>7 DEF PayWrong, OrderTypes
    <2>3. "payout_processing" \notin history[o] /\ outcome[o] = None
      BY <1>b, <2>1 DEF Within, Ended, Dead, Third
    <2>4. Within("refunded", history[o]) /\ Ended("refunded", history[o], outcome[o])
      <3>1. Within("refunded", history[o])
        BY DEF Within, Dead, Second, Third
      <3>2. Ended("refunded", history[o], outcome[o])
        BY <1>c, <2>3 DEF Ended, Dead, Outcomes
      <3>3. QED
        BY <3>1, <3>2
    <2>5. QED
      BY <1>b, <1>5, <2>1, <2>2, <2>4
  <1>8. ASSUME PayLate(o) PROVE (Path(o) /\ OwnIssues(o))'
    <2>1. status[o] \in Dead /\ SetStatus(o, "refunded") /\ UNCHANGED <<issues, outcome>>
      BY <1>8 DEF PayLate, desk
    <2>2. status'[o] = "refunded" /\ history'[o] = history[o] \cup {"refunded"}
      BY <1>a, <1>d, <2>1, StatusTypes
    <2>3. Closed(history'[o])
      BY <1>b, <2>2 DEF Closed, Second, Third, Fourth
    <2>4. Within(status'[o], history'[o])
      BY <2>2 DEF Within, Dead, Second, Third
    <2>5. Ended(status'[o], history'[o], outcome[o])
      BY <1>b, <2>1, <2>2 DEF Ended, Dead
    <2>6. QED
      BY <1>5, <2>1, <2>3, <2>4, <2>5
  <1>9. ASSUME Expire(o) \/ CancelPending(o) PROVE (Path(o) /\ OwnIssues(o))'
    <2>1. status[o] = "pending_payment" /\ SetStatus(o, "cancelled") /\ UNCHANGED <<issues, outcome>>
      BY <1>9 DEF Expire, CancelPending, MayCancelPending
    <2>2. status'[o] = "cancelled" /\ history'[o] = history[o] \cup {"cancelled"}
      BY <1>a, <1>d, <2>1, StatusTypes
    <2>3. Closed(history'[o])
      BY <1>b, <2>2 DEF Closed, Second, Third, Fourth
    <2>4. Within(status'[o], history'[o])
      BY <2>2 DEF Within, Dead, Second, Third
    <2>5. "payout_processing" \notin history[o] /\ outcome[o] = None
      BY <1>b, <2>1 DEF Within, Ended, Dead, Third
    <2>6. Ended(status'[o], history'[o], outcome[o])
      BY <1>c, <2>2, <2>5 DEF Ended, Dead, Outcomes
    <2>7. QED
      BY <1>5, <2>1, <2>3, <2>4, <2>6
  <1>10. (Path(o) /\ OwnIssues(o))'
    BY <1>3, <1>4, <1>6, <1>7, <1>8, <1>9 DEF Calls
  <1>11. QED
    BY <1>1, <1>10 DEF Good, Alone

LEMMA StartGood ==
  ASSUME Types, NEW r \in Requests, NEW o \in Orders \ crossed, Good(o), Start(r, o),
         o \notin crossed'
  PROVE  Good(o)'
  <1>a. JobTypes /\ OrderTypes
    BY DEF Types
  <1>1. /\ UNCHANGED <<order, pickup, delivery, desk>> /\ ~Busy(o) /\ on'[r] = o
        /\ \A s \in Requests \ {r} : Same(s)
    BY StartTypes DEF Calm
  <1>2. UNCHANGED <<status, outcome, history, pickup, delivery, issues>>
    BY <1>1 DEF order, desk
  <1>3. (Path(o) /\ OwnIssues(o))'
    BY <1>2 DEF Good, Path, OwnIssues
  <1>4. \A s \in Requests : on'[s] = o => s = r
    BY <1>1 DEF Busy, Same
  <1>5. Informed(r, o)'
    <2>b. /\ {"cancelled", "refunded"} \subseteq OrderStatuses
          /\ "seller_unavailable" \in Outcomes
          /\ {"move", "missed", "issue"} \subseteq Steps
          /\ {"verification_failed", "buyer_refused", "seller_unavailable", "others"} \subseteq IssueTypes
      BY DEF OrderStatuses, Dead, Outcomes, AtCollection, Steps, IssueTypes
    <2>1. ASSUME NEW target \in OrderStatuses, NEW cause \in Outcomes \cup {None},
                 NEW type \in IssueTypes \cup {None}, Begin(r, o, "move", target, cause, type),
                 target \in Transitions[status[o]], cause \in PolicyOutcomes(status[o], target),
                 type = "verification_failed" => cause \in AtVerification
          PROVE  Informed(r, o)'
      BY <1>a, <1>2, <2>b, <2>1, BeginJob DEF Informed
    <2>2. ASSUME NEW type \in IssueTypes \cup {None}, type # "verification_failed",
                 Begin(r, o, "missed", "cancelled", "seller_unavailable", type), MayMiss(o)
          PROVE  Informed(r, o)'
      BY <1>a, <1>2, <2>b, <2>2, BeginJob DEF Informed, MayMiss
    <2>c. None \notin IssueTypes
      BY NoneAssumption
    <2>3. CASE \E target \in OrderStatuses, cause \in Outcomes \cup {None} :
                 StartMove(r, o, target, cause)
      BY <2>1, <2>3, <2>c, <2>b DEF StartMove, MayMove
    <2>4. CASE StartCancel(r, o)
      <3>1. "cancelled" \in Transitions["secured"] /\ None \in PolicyOutcomes("secured", "cancelled")
        BY Statuses DEF Transitions, PolicyOutcomes
      <3>2. QED
        BY <2>1, <2>4, <2>c, <2>b, <3>1 DEF StartCancel, MayCancelPaid
    <2>5. CASE StartMissed(r, o) \/ StartUnavailable(r, o)
      BY <2>2, <2>5, <2>c, <2>b DEF StartMissed, StartUnavailable
    <2>6. CASE \E type \in IssueTypes, cause \in Outcomes : StartRefusal(r, o, type, cause)
      BY <2>1, <2>6, <2>b DEF StartRefusal, MayMove
    <2>7. CASE StartOthers(r, o)
      <3>1. Begin(r, o, "issue", None, None, "others")
        BY <2>7 DEF StartOthers
      <3>2. at'[r] = "issue" /\ files'[r] = "others"
        BY <1>a, <2>b, <3>1, BeginJob
      <3>3. QED
        BY <3>2 DEF Informed
    <2>8. CASE \E asked \in Requested : StartSchedule(r, o, asked[1], asked[2])
      <3>1. PICK end \in Nat \cup {None}, del \in Nat \cup {None} : StartSchedule(r, o, end, del)
        BY <2>8, RequestedAssumption
      <3>2. at'[r] = "schedule"
        BY <1>a, <3>1, ScheduleJob DEF StartSchedule
      <3>3. QED
        BY <3>2 DEF Informed
    <2>9. QED
      BY <2>3, <2>4, <2>5, <2>6, <2>7, <2>8 DEF Start
  <1>6. QED
    BY <1>3, <1>4, <1>5 DEF Good, Alone

LEMMA ContinueGood ==
  ASSUME Types, NEW r \in Requests, Equipped(r), NEW o \in Orders \ crossed, o = on[r],
         Good(o), Continue(r)
  PROVE  Good(o)'
  <1>a. OrderTypes /\ PlanTypes /\ DeskTypes /\ JobTypes
    BY DEF Types
  <1>b. /\ Closed(history[o]) /\ Within(status[o], history[o])
        /\ Ended(status[o], history[o], outcome[o])
        /\ OwnIssues(o) /\ Alone(o) /\ Informed(r, o)
    BY DEF Good, Path
  <1>c. None \notin Outcomes /\ None \notin Orders /\ None \notin AtVerification
    BY NoneAssumption DEF Outcomes
  <1>d. status[o] \in OrderStatuses /\ history[o] \in SUBSET OrderStatuses
    BY <1>a DEF OrderTypes
  <1>1. /\ \A s \in Requests \ {r} : on'[s] # o
        /\ \/ on'[r] = None
           \/ UNCHANGED <<on, to, why, files, ends, due>>
    <2>1. \A s \in Requests \ {r} : Same(s)
      BY ContinueTypes
    <2>2. \A s \in Requests \ {r} : on[s] # o
      BY <1>b DEF Alone
    <2>3. \/ on'[r] = None
          \/ UNCHANGED <<on, to, why, files, ends, due>>
      BY ContinueTypes
    <2>4. QED
      BY <2>1, <2>2, <2>3 DEF Same
  <1>2. Alone(o)'
    BY <1>1 DEF Alone
  <1>3. ASSUME Path(o)', OwnIssues(o)', on'[r] = o => Informed(r, o)'
        PROVE  Good(o)'
    BY <1>1, <1>2, <1>3 DEF Good
  <1>4. ASSUME Return(r), Path(o)', OwnIssues(o)' PROVE Good(o)'
    <2>1. on'[r] = None
      BY <1>a, <1>4, ReturnJob
    <2>2. QED
      BY <1>3, <1>4, <1>c, <2>1
  <1>5. ASSUME NEW step \in {"policyIssue", "issue"}, Goto(r, step),
               Path(o)', OwnIssues(o)',
               step = "policyIssue" /\ why[r] \in AtVerification => outcome'[o] \in AtVerification,
               step = "issue" /\ files[r] = "verification_failed" => outcome'[o] \in AtVerification
        PROVE  Good(o)'
    <2>1. at'[r] = step /\ UNCHANGED <<on, to, why, files, ends, due>>
      BY <1>a, <1>5, GotoJob DEF Steps
    <2>2. Informed(r, o)'
      BY <1>5, <2>1 DEF Informed
    <2>3. QED
      BY <1>3, <1>5, <2>2
  <1>6. ASSUME UNCHANGED <<status, outcome, history>> PROVE Path(o)'
    BY <1>6, <1>b DEF Path
  <1>7. ASSUME UNCHANGED <<outcome, issues>> PROVE OwnIssues(o)'
    BY <1>7, <1>b DEF OwnIssues
  <1>9. ASSUME outcome[o] = None, UNCHANGED issues PROVE OwnIssues(o)'
    BY <1>9, <1>b, <1>c DEF OwnIssues
  <1>10. ASSUME SaveMove(r) PROVE Good(o)'
    <2>1. /\ at[r] = "move" /\ SetStatus(o, to[r])
          /\ outcome' = [outcome EXCEPT ![o] = IF why[r] = None THEN @ ELSE why[r]]
          /\ UNCHANGED <<plan, issues>>
          /\ IF why[r] = None THEN Return(r)
             ELSE Goto(r, IF files[r] = None THEN "policyIssue" ELSE "issue")
      BY <1>10 DEF SaveMove, At
    <2>2. /\ to[r] \in Transitions[status[o]] /\ why[r] \in PolicyOutcomes(status[o], to[r])
          /\ files[r] = "verification_failed" => why[r] \in AtVerification
      BY <1>b, <2>1 DEF Informed
    <2>3. to[r] \in OrderStatuses
      BY <1>a, <2>1 DEF Equipped
    <2>4. status'[o] = to[r] /\ history'[o] = history[o] \cup {to[r]}
      BY <1>a, <2>1, <2>3, StatusTypes
    <2>5. outcome'[o] = IF why[r] = None THEN outcome[o] ELSE why[r]
      BY <1>a, <2>1 DEF OrderTypes
    <2>6. /\ Closed(history'[o]) /\ Within(status'[o], history'[o])
          /\ Ended(status'[o], history'[o], outcome'[o]) /\ outcome[o] = None
      <3>1. /\ Closed(history[o] \cup {to[r]}) /\ Within(to[r], history[o] \cup {to[r]})
            /\ Ended(to[r], history[o] \cup {to[r]}, outcome'[o]) /\ outcome[o] = None
        BY <1>b, <1>d, <2>2, <2>5, PathMoves
      <3>2. QED
        BY <2>4, <3>1
    <2>7. Path(o)'
      BY <2>6 DEF Path
    <2>8. OwnIssues(o)'
      BY <1>9, <2>1, <2>6
    <2>9. CASE why[r] = None
      BY <1>4, <2>1, <2>7, <2>8, <2>9
    <2>10. CASE why[r] # None /\ files[r] = None
      BY <1>5, <2>1, <2>5, <2>7, <2>8, <2>10
    <2>11. CASE why[r] # None /\ files[r] # None
      BY <1>5, <2>1, <2>2, <2>5, <2>7, <2>8, <2>11
    <2>12. QED
      BY <2>9, <2>10, <2>11
  <1>11. ASSUME NEW last \in BOOLEAN, SaveMissed(r, last) PROVE Good(o)'
    <2>1. status[o] = "collection_pending" /\ files[r] # "verification_failed"
      BY <1>11, <1>b DEF SaveMissed, At, Informed
    <2>2. outcome[o] = None
      BY <1>b, <2>1 DEF Ended, Dead
    <2>3. UNCHANGED <<plan, issues>> /\ (Return(r) \/ Goto(r, "issue"))
      BY <1>11 DEF SaveMissed
    <2>4. OwnIssues(o)'
      BY <1>9, <2>2, <2>3
    <2>5. Path(o)'
      <3>1. CASE last = FALSE
        BY <1>6, <1>11, <3>1 DEF SaveMissed
      <3>2. CASE last = TRUE
        <4>1. SetStatus(o, "cancelled") /\ outcome' = [outcome EXCEPT ![o] = "seller_unavailable"]
          BY <1>11, <3>2 DEF SaveMissed
        <4>2. status'[o] = "cancelled" /\ history'[o] = history[o] \cup {"cancelled"}
          BY <1>a, <4>1, Statuses, StatusTypes
        <4>3. outcome'[o] = "seller_unavailable"
          BY <1>a, <4>1 DEF OrderTypes
        <4>4. Closed(history'[o]) /\ Within(status'[o], history'[o])
          BY <1>b, <4>2 DEF Closed, Within, Dead, Second, Third, Fourth
        <4>5. "payout_processing" \notin history'[o]
          BY <1>b, <2>1, <4>2 DEF Within, Third
        <4>6. Ended(status'[o], history'[o], outcome'[o])
          BY <4>2, <4>3, <4>5 DEF Ended, Dead, AtDelivery, AtVerification
        <4>7. QED
          BY <4>4, <4>6 DEF Path
      <3>3. QED
        BY <3>1, <3>2
    <2>6. CASE Return(r)
      BY <1>4, <2>4, <2>5, <2>6
    <2>7. CASE Goto(r, "issue")
      BY <1>5, <2>1, <2>4, <2>5, <2>7
    <2>8. QED
      BY <2>3, <2>6, <2>7
  <1>12. ASSUME NEW type \in IssueTypes, NEW resolved \in BOOLEAN, Append1(r, type, resolved),
                type = "verification_failed" => outcome[o] \in AtVerification, UNCHANGED outcome
         PROVE  OwnIssues(o)'
    <2>1. issues' = [issues EXCEPT ![o] = Append(@, Issue(type, resolved, TRUE))]
      BY <1>12 DEF Append1
    <2>2. Issue(type, resolved, TRUE) \in Issues /\ Issue(type, resolved, TRUE).type = type
      BY DEF Issue, Issues
    <2>3. /\ Len(issues'[o]) = Len(issues[o]) + 1
          /\ issues'[o][Len(issues[o]) + 1].type = type
          /\ \A i \in 1 .. Len(issues[o]) : issues'[o][i] = issues[o][i]
      <3> DEFINE issue == Issue(type, resolved, TRUE)
      <3>1. issue \in Issues /\ issue.type = type /\ issues' = [issues EXCEPT ![o] = Append(@, issue)]
        BY <2>1, <2>2
      <3> HIDE DEF issue
      <3>2. /\ Len(issues'[o]) = Len(issues[o]) + 1
            /\ issues'[o][Len(issues[o]) + 1] = issue
            /\ \A i \in 1 .. Len(issues[o]) : issues'[o][i] = issues[o][i]
        BY <1>a, <3>1, AppendTypes
      <3>3. QED
        BY <3>1, <3>2
    <2>4. Len(issues[o]) \in Nat
      BY <1>a DEF DeskTypes
    <2>5. \A i \in 1 .. Len(issues[o]) + 1 : i \in 1 .. Len(issues[o]) \/ i = Len(issues[o]) + 1
      BY <2>4
    <2>6. QED
      BY <1>12, <1>b, <2>3, <2>5 DEF OwnIssues
  <1>13. ASSUME OpenPolicyIssue(r) PROVE Good(o)'
    <2>1. at[r] = "policyIssue" /\ UNCHANGED <<order, plan>> /\ Return(r)
      BY <1>13 DEF OpenPolicyIssue, At
    <2>2. UNCHANGED <<status, outcome, history>>
      BY <2>1 DEF order
    <2>3. why[r] \in AtVerification => outcome[o] \in AtVerification
      BY <1>b, <2>1 DEF Informed
    <2>4. OwnIssues(o)'
      <3>1. CASE UNCHANGED issues
        BY <1>7, <2>2, <3>1
      <3>2. CASE Append1(r, "verification_failed", FALSE) /\ why[r] \in AtVerification
        BY <1>12, <2>2, <2>3, <3>2 DEF IssueTypes
      <3>3. CASE Append1(r, "buyer_refused", FALSE)
        BY <1>12, <2>2, <3>3 DEF IssueTypes
      <3>4. QED
        BY <1>13, <3>1, <3>2, <3>3 DEF OpenPolicyIssue
    <2>5. QED
      BY <1>4, <1>6, <2>1, <2>2, <2>4
  <1>14. ASSUME CreateIssue(r) PROVE Good(o)'
    <2>1. /\ at[r] = "issue" /\ UNCHANGED <<order, plan>> /\ Return(r)
          /\ Append1(r, files[r], files[r] = "seller_unavailable")
      BY <1>14 DEF CreateIssue, At
    <2>2. UNCHANGED <<status, outcome, history>>
      BY <2>1 DEF order
    <2>3. /\ files[r] = "verification_failed" => outcome[o] \in AtVerification
          /\ files[r] \in IssueTypes
      BY <1>b, <2>1 DEF Informed, Equipped
    <2>4. OwnIssues(o)'
      BY <1>12, <2>1, <2>2, <2>3
    <2>5. QED
      BY <1>4, <1>6, <2>1, <2>2, <2>4
  <1>15. ASSUME SaveSchedule(r) PROVE Good(o)'
    <2>1. Return(r) /\ UNCHANGED <<order, desk>>
      BY <1>15 DEF SaveSchedule
    <2>2. QED
      BY <1>4, <1>6, <1>7, <2>1 DEF order, desk
  <1>16. ASSUME Return(r), UNCHANGED <<order, plan, desk, crossed>> PROVE Good(o)'
    BY <1>4, <1>6, <1>7, <1>16 DEF order, desk
  <1>17. QED
    BY <1>10, <1>11, <1>13, <1>14, <1>15, <1>16 DEF Continue

-----------------------------------------------------------------------------
(* The inductive invariant *)

IInv == Types /\ Working /\ \A o \in Orders \ crossed : Good(o)

LEMMA Initial == Init => IInv
  <1> SUFFICES ASSUME Init PROVE IInv
    OBVIOUS
  <1>a. "pending_payment" \in OrderStatuses
    BY Statuses
  <1>1. OrderTypes
    BY <1>a DEF Init, OrderTypes
  <1>2. PlanTypes /\ JobTypes
    <2>1. 0 \in 0 .. MaxPlans
      BY BoundAssumption
    <2>2. plans \in [Orders -> 0 .. MaxPlans]
      BY <2>1 DEF Init
    <2>3. QED
      BY <2>2 DEF Init, PlanTypes, JobTypes, Steps
  <1>3. issues \in [Orders -> Seq(Issues)] /\ \A o \in Orders : OwnIssues(o)
    <2>1. ASSUME NEW past \in Pasts
          PROVE  past \in Seq(Issues) /\ \A i \in 1 .. Len(past) : past[i].own = FALSE
      <3>1. CASE past = <<>>
        <4>1. <<>> \in Seq(Issues) /\ 1 .. Len(<<>>) = {}
          OBVIOUS
        <4>2. QED
          BY <3>1, <4>1
      <3>2. CASE \E type \in Past : past = <<Issue(type, TRUE, FALSE)>>
        <4>a. PICK type \in Past : past = <<Issue(type, TRUE, FALSE)>>
          BY <3>2
        <4> DEFINE issue == Issue(type, TRUE, FALSE)
        <4>b. issue \in Issues /\ issue.own = FALSE
          BY PastAssumption DEF Issue, Issues
        <4>1. past = <<issue>>
          BY <4>a
        <4> HIDE DEF issue
        <4>2. <<issue>> \in Seq(Issues)
          BY <4>b
        <4>3. Len(<<issue>>) = 1 /\ <<issue>>[1] = issue
          OBVIOUS
        <4>4. \A i \in 1 .. 1 : i = 1
          OBVIOUS
        <4>5. QED
          BY <4>1, <4>2, <4>3, <4>4, <4>b
      <3>3. QED
        BY <3>1, <3>2 DEF Pasts
    <2>2. issues \in [Orders -> Pasts]
      BY DEF Init
    <2>3. QED
      BY <2>1, <2>2 DEF OwnIssues
  <1>4. DeskTypes
    BY <1>3 DEF Init, DeskTypes
  <1>5. Working
    BY DEF Init, Working, Equipped
  <1>6. ASSUME NEW o \in Orders PROVE Good(o)
    <2>1. status[o] = "pending_payment" /\ history[o] = {"pending_payment"} /\ outcome[o] = None
      BY DEF Init
    <2>2. None \notin AtVerification /\ None \notin AtDelivery /\ None \notin Orders
      BY NoneAssumption DEF Outcomes
    <2>3. Path(o)
      BY <2>1, <2>2 DEF Path, Closed, Within, Ended, Dead, Second, Third, Fourth
    <2>4. \A r \in Requests : on[r] # o
      BY <2>2 DEF Init
    <2>5. QED
      BY <1>3, <2>3, <2>4 DEF Good, Alone
  <1>7. QED
    BY <1>1, <1>2, <1>4, <1>5, <1>6 DEF IInv, Types

LEMMA Inductive == IInv /\ [Next]_vars => IInv'
  <1> SUFFICES ASSUME IInv, [Next]_vars PROVE IInv'
    OBVIOUS
  <1>a. Types /\ Working
    BY DEF IInv
  <1>1. CASE UNCHANGED vars
    <2>1. UNCHANGED <<order, plan, desk, crossed, job>>
      BY <1>1 DEF vars
    <2>2. Types'
      BY <1>a, <2>1, TypesSame DEF Types
    <2>3. Working'
      BY <1>a, <2>1 DEF Working, Equipped, job
    <2>4. ASSUME NEW o \in Orders \ crossed' PROVE Good(o)'
      <3>1. Good(o)
        BY <2>1 DEF IInv
      <3>2. QED
        BY <2>1, <3>1 DEF Good, Path, OwnIssues, Alone, Informed, order, desk, job
    <2>5. QED
      BY <2>2, <2>3, <2>4 DEF IInv
  <1>2. CASE Next
    <2>1. Working'
      BY <1>a, <1>2, WorkingKept
    <2>2. ASSUME NEW o \in Orders, Calls(o) PROVE IInv'
      <3>1. Types' /\ UNCHANGED job /\ Elsewhere(o) /\ Calm(o)
        BY <1>a, <2>2, CallTypes
      <3>2. ASSUME NEW q \in Orders \ crossed' PROVE Good(q)'
        <4>1. q \notin crossed /\ Good(q)
          BY <3>1 DEF IInv, Calm
        <4>2. CASE q = o
          BY <1>a, <2>2, <4>1, <4>2, CallGood
        <4>3. CASE q # o
          BY <3>1, <4>1, <4>3, GoodElsewhere DEF Same, job
        <4>4. QED
          BY <4>2, <4>3
      <3>3. QED
        BY <2>1, <3>1, <3>2 DEF IInv
    <2>3. ASSUME NEW o \in Orders, NEW r \in Requests, Start(r, o) PROVE IInv'
      <3>1. /\ Types' /\ UNCHANGED <<order, pickup, delivery, desk>> /\ Calm(o) /\ on'[r] = o
            /\ \A s \in Requests \ {r} : Same(s)
        BY <1>a, <2>3, StartTypes
      <3>2. Elsewhere(o)
        BY <3>1 DEF Elsewhere, order, desk
      <3>3. ASSUME NEW q \in Orders \ crossed' PROVE Good(q)'
        <4>1. q \notin crossed /\ Good(q)
          BY <3>1 DEF IInv, Calm
        <4>2. CASE q = o
          BY <1>a, <2>3, <4>1, <4>2, StartGood
        <4>3. CASE q # o
          BY <3>1, <3>2, <4>1, <4>3, GoodElsewhere
        <4>4. QED
          BY <4>2, <4>3
      <3>4. QED
        BY <2>1, <3>1, <3>3 DEF IInv
    <2>4. ASSUME NEW r \in Requests, Continue(r) PROVE IInv'
      <3>1. Equipped(r) /\ at[r] # "idle"
        BY <1>a, <2>4
        DEF Working, Continue, SaveMove, SaveMissed, OpenPolicyIssue, CreateIssue, SaveSchedule, At
      <3>2. PICK o \in Orders : o = on[r]
        BY <3>1 DEF Equipped
      <3>3. /\ Types' /\ crossed' = crossed /\ Elsewhere(o)
            /\ \A s \in Requests \ {r} : Same(s)
            /\ on'[r] = None \/ UNCHANGED on
        BY <1>a, <2>4, <3>1, <3>2, ContinueTypes
      <3>4. None \notin Orders
        BY NoneAssumption
      <3>5. ASSUME NEW q \in Orders \ crossed' PROVE Good(q)'
        <4>1. q \notin crossed /\ Good(q)
          BY <3>3 DEF IInv
        <4>2. CASE q = o
          BY <1>a, <2>4, <3>1, <3>2, <4>1, <4>2, ContinueGood
        <4>3. CASE q # o
          <5>1. \A s \in Requests : on'[s] = q => Same(s)
            BY <3>2, <3>3, <3>4, <4>3
          <5>2. QED
            BY <3>3, <4>1, <4>3, <5>1, GoodElsewhere
        <4>4. QED
          BY <4>2, <4>3
      <3>6. QED
        BY <2>1, <3>3, <3>5 DEF IInv
    <2>5. QED
      BY <1>2, <2>2, <2>3, <2>4, BoundAssumption DEF Next
  <1>3. QED
    BY <1>1, <1>2

(* The invariant holds in every behaviour. *)
THEOREM Invariance == Spec => []IInv
  BY Initial, Inductive, PTL DEF Spec

(* Every variable of getOrderById's model has its type. *)
THEOREM Typing == Spec => []TypeOK
  <1>1. IInv => TypeOK
    BY DEF IInv, Types, OrderTypes, PlanTypes, DeskTypes, JobTypes, TypeOK, Issues
  <1>2. QED
    BY <1>1, Invariance, PTL

-----------------------------------------------------------------------------
(* The schedule of an order, which only its own requests change *)

(* A request whose order no other request meanwhile schedules saves what is in order. *)
Scheduling(o) == {r \in Requests : at[r] = "schedule" /\ on[r] = o}
Clear(o) ==
  /\ Ordered(pickup[o], delivery[o])
  /\ \A r, s \in Scheduling(o) : r = s
  /\ \A r \in Scheduling(o) : Ordered(Or(ends[r], pickup[o]), Or(due[r], delivery[o]))
Scheduled == \A o \in Orders \ clashed : Clear(o)

LEMMA ClearKept ==
  ASSUME NEW o \in Orders, Clear(o), UNCHANGED <<pickup, delivery>>,
         \A r \in Requests : at'[r] = "schedule" /\ on'[r] = o => Same(r)
  PROVE  Clear(o)'
  <1>1. \A r \in Requests : r \in Scheduling(o)' =>
          r \in Scheduling(o) /\ ends'[r] = ends[r] /\ due'[r] = due[r]
    BY DEF Scheduling, Same
  <1>2. Scheduling(o)' \subseteq Requests
    BY DEF Scheduling
  <1>3. QED
    BY <1>1, <1>2 DEF Clear

LEMMA ScheduledKept == Types /\ Working /\ Scheduled /\ [Next]_vars => Scheduled'
  <1> SUFFICES ASSUME Types, Working, Scheduled, [Next]_vars PROVE Scheduled'
    OBVIOUS
  <1>a. JobTypes /\ PlanTypes
    BY DEF Types
  <1>b. ASSUME UNCHANGED <<pickup, delivery, clashed>>,
               \A s \in Requests : at'[s] = "schedule" => Same(s)
        PROVE  Scheduled'
    BY <1>b, ClearKept DEF Scheduled
  <1>1. CASE UNCHANGED vars \/ \E o \in Orders : Calls(o)
    <2>1. UNCHANGED <<plan, job>>
      BY <1>1, CallTypes DEF vars, Calls, Pay, PayWrong, PayLate, Decline, Expire, CancelPending,
                             PaySeller, Resolve
    <2>2. QED
      BY <1>b, <2>1 DEF plan, job, Same
  <1>2. ASSUME NEW r \in Requests, NEW o \in Orders, Start(r, o) PROVE Scheduled'
    <2>1. at[r] = "idle" /\ \A s \in Requests \ {r} : Same(s)
      BY <1>2, StartTypes
    <2>2. CASE \E asked \in Requested : StartSchedule(r, o, asked[1], asked[2])
      <3>1. PICK end \in Nat \cup {None}, del \in Nat \cup {None} : StartSchedule(r, o, end, del)
        BY <2>2, RequestedAssumption
      <3>2. /\ EnterSchedule(r, o, end, del) /\ UNCHANGED <<pickup, delivery>>
            /\ Ordered(Or(end, pickup[o]), Or(del, delivery[o]))
        BY <3>1 DEF StartSchedule, EnterSchedule
      <3>3. at'[r] = "schedule" /\ on'[r] = o /\ ends'[r] = end /\ due'[r] = del
        BY <1>a, <3>2, ScheduleJob
      <3>4. clashed \subseteq clashed' /\ (o \in clashed' \/ Scheduling(o) = {})
        BY <3>2 DEF EnterSchedule, Scheduling, At
      <3>5. ASSUME NEW q \in Orders \ clashed' PROVE Clear(q)'
        <4>1. Clear(q)
          BY <3>4 DEF Scheduled
        <4>2. CASE q # o
          BY <2>1, <3>2, <3>3, <4>1, <4>2, ClearKept
        <4>3. CASE q = o
          <5>1. Scheduling(o) = {}
            BY <3>4, <4>3
          <5>2. \A s \in Scheduling(o)' : s = r
            BY <2>1, <5>1 DEF Scheduling, Same
          <5>3. QED
            BY <3>2, <3>3, <4>1, <4>3, <5>2 DEF Clear
        <4>4. QED
          BY <4>2, <4>3
      <3>6. QED
        BY <3>5 DEF Scheduled
    <2>3. ASSUME NEW step \in {"move", "missed", "issue"}, NEW target, NEW cause, NEW type,
                 Begin(r, o, step, target, cause, type)
          PROVE  Scheduled'
      <3>1. UNCHANGED plan /\ at'[r] = step
        BY <1>a, <2>3 DEF Begin, Enter, JobTypes
      <3>2. QED
        BY <1>b, <2>1, <3>1 DEF plan
    <2>4. QED
      BY <1>2, <2>2, <2>3 DEF Start, StartMove, StartCancel, StartMissed, StartRefusal,
                              StartUnavailable, StartOthers
  <1>3. ASSUME NEW r \in Requests, Continue(r) PROVE Scheduled'
    <2>1. at[r] # "idle"
      BY <1>3 DEF Continue, SaveMove, SaveMissed, OpenPolicyIssue, CreateIssue, SaveSchedule, At
    <2>2. PICK o \in Orders : o = on[r]
      BY <2>1 DEF Working, Equipped
    <2>3. Elsewhere(o) /\ \A s \in Requests \ {r} : Same(s)
      BY <1>3, <2>2, ContinueTypes DEF Working
    <2>4. CASE SaveSchedule(r)
      <3>1. /\ at[r] = "schedule" /\ Return(r) /\ clashed' = clashed
            /\ pickup' = [pickup EXCEPT ![o] = Or(ends[r], @)]
            /\ delivery' = [delivery EXCEPT ![o] = Or(due[r], @)]
        BY <2>2, <2>4 DEF SaveSchedule, At
      <3>2. at'[r] = "idle"
        BY <1>a, <3>1, ReturnJob
      <3>3. pickup'[o] = Or(ends[r], pickup[o]) /\ delivery'[o] = Or(due[r], delivery[o])
        BY <1>a, <3>1 DEF PlanTypes
      <3>4. r \in Scheduling(o)
        BY <2>2, <3>1 DEF Scheduling
      <3>5. ASSUME NEW q \in Orders \ clashed' PROVE Clear(q)'
        <4>1. Clear(q)
          BY <3>1 DEF Scheduled
        <4>2. \A s \in Scheduling(q)' :
                s \in Scheduling(q) /\ s # r /\ ends'[s] = ends[s] /\ due'[s] = due[s]
          BY <2>3, <3>2 DEF Scheduling, Same
        <4>3. CASE q = o
          <5>1. Scheduling(o)' = {}
            BY <3>4, <4>1, <4>2, <4>3 DEF Clear
          <5>2. Ordered(pickup[o], delivery[o])'
            BY <3>3, <3>4, <4>1, <4>3 DEF Clear, Ordered
          <5>3. QED
            BY <4>3, <5>1, <5>2 DEF Clear
        <4>4. CASE q # o
          <5>1. pickup'[q] = pickup[q] /\ delivery'[q] = delivery[q]
            BY <2>3, <4>4 DEF Elsewhere
          <5>2. QED
            BY <4>1, <4>2, <5>1 DEF Clear
        <4>5. QED
          BY <4>3, <4>4
      <3>6. QED
        BY <3>5 DEF Scheduled
    <2>5. CASE ~SaveSchedule(r)
      <3>1. UNCHANGED plan /\ (Return(r) \/ \E step \in {"policyIssue", "issue"} : Goto(r, step))
        BY <1>3, <2>5 DEF Continue, SaveMove, SaveMissed, OpenPolicyIssue, CreateIssue
      <3>2. at'[r] # "schedule"
        BY <1>a, <3>1, ReturnJob, GotoJob DEF Steps
      <3>3. QED
        BY <1>b, <2>3, <3>1, <3>2 DEF plan
    <2>6. QED
      BY <2>4, <2>5
  <1>4. QED
    BY <1>1, <1>2, <1>3, BoundAssumption DEF Next

(* The pickup window and the estimated delivery that updateOrderSchedule sets by     *)
(* separate requests stay in order, whatever the webhook, the sweep, operations and  *)
(* the buyer do to the order meanwhile: of an order two of whose schedule requests   *)
(* overlapped nothing is said.                                                       *)
THEOREM SchedulesStayOrdered == Spec => []ScheduleOrdered
  <1>1. Init => Scheduled
    BY DEF Init, Scheduled, Clear, Scheduling, Ordered
  <1>2. IInv /\ Scheduled /\ [Next]_vars => Scheduled'
    BY ScheduledKept DEF IInv
  <1>3. Scheduled => ScheduleOrdered
    BY DEF Scheduled, Clear, ScheduleOrdered
  <1>4. QED
    BY <1>1, <1>2, <1>3, Invariance, PTL DEF Spec

-----------------------------------------------------------------------------
(* What getOrderById shows *)

(* The statuses of each rank, and of each step that may be the current one. *)
LEMMA Ranks ==
  ASSUME NEW s \in OrderStatuses
  PROVE  /\ StatusRank(s) \in 0 .. 4
         /\ StatusRank(s) >= 1 <=> s \in {"secured", "collection_pending"} \cup Second \cup Third \cup Fourth
         /\ StatusRank(s) >= 2 <=> s \in Second \cup Third \cup Fourth
         /\ StatusRank(s) >= 3 <=> s \in Third \cup Fourth
         /\ StatusRank(s) >= 4 <=> s \in Fourth
  <1>1. CASE s \in {"secured", "collection_pending"}
    <2>1. StatusRank(s) = 1
      BY <1>1 DEF StatusRank
    <2>2. QED
      BY <1>1, <2>1 DEF Second, Third, Fourth
  <1>2. CASE s \in Second
    <2>1. StatusRank(s) = 2
      BY <1>2 DEF StatusRank, Second
    <2>2. QED
      BY <1>2, <2>1 DEF Second, Third, Fourth
  <1>3. CASE s \in Third
    <2>1. StatusRank(s) = 3
      BY <1>3 DEF StatusRank, Third
    <2>2. QED
      BY <1>3, <2>1 DEF Second, Third, Fourth
  <1>4. CASE s \in Fourth
    <2>1. StatusRank(s) = 4
      BY <1>4 DEF StatusRank, Fourth
    <2>2. QED
      BY <1>4, <2>1 DEF Second, Third, Fourth
  <1>5. CASE s \in {"pending_payment", "refunded", "cancelled"}
    <2>1. StatusRank(s) = 0
      BY <1>5 DEF StatusRank
    <2>2. QED
      BY <1>5, <2>1 DEF Second, Third, Fourth
  <1>6. QED
    BY <1>1, <1>2, <1>3, <1>4, <1>5, Statuses DEF Second, Third, Fourth

LEMMA CurrentSteps ==
  ASSUME NEW s \in OrderStatuses
  PROVE  /\ CurrentStep(s) = ProgressSteps[1] <=> s \in {"secured", "collection_pending"}
         /\ CurrentStep(s) = ProgressSteps[2] <=> s = "collected"
         /\ CurrentStep(s) = ProgressSteps[3] <=> s \in {"verification", "payout_processing"}
         /\ CurrentStep(s) = ProgressSteps[4] <=> s \in {"ready_for_delivery", "delivered"}
  <1>a. None \notin {"reserved", "collected", "verified", "delivered"}
    BY NoneAssumption, Statuses
  <1>b. /\ ProgressSteps[1] = "reserved" /\ ProgressSteps[2] = "collected"
        /\ ProgressSteps[3] = "verified" /\ ProgressSteps[4] = "delivered"
    BY DEF ProgressSteps
  <1>1. CASE s \in {"secured", "collection_pending"}
    BY <1>b, <1>1 DEF CurrentStep
  <1>2. CASE s = "collected"
    BY <1>b, <1>2 DEF CurrentStep
  <1>3. CASE s \in {"verification", "payout_processing"}
    BY <1>b, <1>3 DEF CurrentStep
  <1>4. CASE s \in {"ready_for_delivery", "delivered"}
    BY <1>b, <1>4 DEF CurrentStep
  <1>5. CASE s \in {"pending_payment", "refunded", "cancelled", "completed"}
    BY <1>a, <1>b, <1>5 DEF CurrentStep
  <1>6. QED
    BY <1>1, <1>2, <1>3, <1>4, <1>5, Statuses

(* The progress that getOrderProgress shows has no gaps. *)
THEOREM ProgressHasNoGaps == Spec => []StepsInOrder
  <1>1. ASSUME Types, NEW o \in Orders, Good(o)
        PROVE  /\ \A i, j \in DOMAIN ProgressSteps :
                    i < j /\ Progress(o)[j] # "pending" => Progress(o)[i] = "completed"
               /\ DeliveryState(o) = "delivered" =>
                    \A i \in DOMAIN ProgressSteps : Progress(o)[i] # "pending"
    <2> DEFINE h == history[o] \cup {status[o]}
               Reached(i) == \E s \in h : StatusRank(s) >= i
    <2>a. status[o] \in OrderStatuses /\ h \subseteq OrderStatuses
      BY <1>1 DEF Types, OrderTypes
    <2>b. Closed(history[o]) /\ Within(status[o], history[o])
      BY <1>1 DEF Good, Path
    <2>c. DOMAIN ProgressSteps = {1, 2, 3, 4}
      BY DEF ProgressSteps
    <2>1. \A i \in DOMAIN ProgressSteps :
            Progress(o)[i] = IF CurrentStep(status[o]) = ProgressSteps[i] THEN "current"
                             ELSE IF Reached(i) THEN "completed" ELSE "pending"
      BY DEF Progress
    <2>s. status[o] \in h
      OBVIOUS
    <2> HIDE DEF h
    <2>2. /\ Reached(4) => Reached(3)
          /\ Reached(3) => Reached(2)
          /\ Reached(2) => Reached(1)
      BY <2>a, Ranks
    <2>3. /\ CurrentStep(status[o]) = ProgressSteps[4] => Reached(3)
          /\ CurrentStep(status[o]) = ProgressSteps[3] => Reached(2)
          /\ CurrentStep(status[o]) = ProgressSteps[2] => Reached(1)
      BY <2>a, <2>s, Ranks, CurrentSteps DEF Second, Third, Fourth
    <2>4. /\ CurrentStep(status[o]) = ProgressSteps[3] => ~Reached(4)
          /\ CurrentStep(status[o]) = ProgressSteps[2] => ~Reached(3)
          /\ CurrentStep(status[o]) = ProgressSteps[1] => ~Reached(2)
      <3>1. ASSUME status[o] \in {"verification", "payout_processing"} PROVE ~Reached(4)
        BY <2>a, <2>b, <3>1, Ranks DEF Within, Second, Third, Fourth, h
      <3>2. ASSUME status[o] = "collected" PROVE ~Reached(3)
        BY <2>a, <2>b, <3>2, Ranks DEF Within, Second, Third, Fourth, h
      <3>3. ASSUME status[o] \in {"secured", "collection_pending"} PROVE ~Reached(2)
        BY <2>a, <2>b, <3>3, Ranks DEF Within, Second, Third, Fourth, h
      <3>4. QED
        BY <2>a, <3>1, <3>2, <3>3, CurrentSteps
    <2>5. DeliveryState(o) = "delivered" => Reached(4)
      <3>1. DeliveryState(o) = "delivered" => status[o] \in Fourth
        BY DEF DeliveryState, Fourth
      <3>2. QED
        BY <2>a, <2>s, <3>1, Ranks
    <2>d. \A i, j \in DOMAIN ProgressSteps :
            i # j => CurrentStep(status[o]) # ProgressSteps[i] \/ CurrentStep(status[o]) # ProgressSteps[j]
      BY <2>c DEF ProgressSteps
    <2> HIDE DEF Reached
    <2>6. ASSUME NEW i \in DOMAIN ProgressSteps, NEW j \in DOMAIN ProgressSteps, i < j,
                 Progress(o)[j] # "pending"
          PROVE  Progress(o)[i] = "completed"
      <3>1. CurrentStep(status[o]) = ProgressSteps[j] \/ Reached(j)
        BY <2>1, <2>6
      <3>2. \/ i = 1 /\ j \in {2, 3, 4}
            \/ i = 2 /\ j \in {3, 4}
            \/ i = 3 /\ j = 4
        BY <2>c, <2>6
      <3>3. Reached(i)
        BY <2>2, <2>3, <3>1, <3>2
      <3>4. CurrentStep(status[o]) # ProgressSteps[i]
        <4>1. CASE CurrentStep(status[o]) = ProgressSteps[j]
          <5>1. i # j
            BY <3>2
          <5>2. QED
            BY <2>d, <4>1, <5>1
        <4>2. CASE Reached(j)
          BY <2>2, <2>4, <3>2, <4>2
        <4>3. QED
          BY <3>1, <4>1, <4>2
      <3>5. QED
        BY <2>1, <3>3, <3>4
    <2>7. ASSUME DeliveryState(o) = "delivered", NEW i \in DOMAIN ProgressSteps
          PROVE  Progress(o)[i] # "pending"
      BY <2>1, <2>2, <2>5, <2>7, <2>c
    <2>8. QED
      BY <2>6, <2>7
  <1>2. IInv => StepsInOrder
    BY <1>1 DEF IInv, StepsInOrder
  <1>3. QED
    BY <1>2, Invariance, PTL

(* The item is shown as verified if and only if it passed authentication. *)
THEOREM VerificationIsEarned == Spec => []VerifiedIsEarned
  <1>1. ASSUME Types, NEW o \in Orders, Good(o)
        PROVE  \/ Latest(o).type = "verification_failed" /\ ~Latest(o).own
               \/ Verification(o) = "verified" <=> "payout_processing" \in history[o]
    <2>a. OrderTypes /\ DeskTypes
      BY <1>1 DEF Types
    <2>b. /\ Closed(history[o]) /\ Within(status[o], history[o])
          /\ Ended(status[o], history[o], outcome[o]) /\ OwnIssues(o)
      BY <1>1 DEF Good, Path
    <2>c. None \notin IssueTypes /\ None \notin Outcomes /\ status[o] \in OrderStatuses
      BY <2>a, NoneAssumption DEF OrderTypes
    <2>1. \/ Latest(o).type = "verification_failed" /\ ~Latest(o).own
          \/ Latest(o).type = "verification_failed" => outcome[o] \in AtVerification
      <3>1. CASE o \in gone \/ issues[o] = <<>>
        BY <2>c, <3>1 DEF Latest, Issue, IssueTypes
      <3>2. CASE ~(o \in gone \/ issues[o] = <<>>)
        <4>1. Latest(o) = issues[o][Len(issues[o])] /\ issues[o] \in Seq(Issues) /\ issues[o] # <<>>
          BY <2>a, <3>2 DEF Latest, DeskTypes
        <4>2. Len(issues[o]) \in 1 .. Len(issues[o])
          BY <4>1
        <4>3. QED
          BY <2>b, <4>1, <4>2 DEF OwnIssues
      <3>3. QED
        BY <3>1, <3>2
    <2>2. ASSUME Latest(o).type = "verification_failed" => outcome[o] \in AtVerification
          PROVE  Verification(o) = "verified" <=> "payout_processing" \in history[o]
      <3>1. CASE outcome[o] \in AtVerification
        BY <2>b, <3>1 DEF Verification, Ended
      <3>2. CASE outcome[o] \in AtDelivery
        BY <2>2, <2>b, <3>2 DEF Verification, Ended, AtDelivery, AtVerification
      <3>3. CASE outcome[o] \notin AtVerification \cup AtDelivery
        <4>1. Verification(o) = "verified" <=> status[o] \in Delivering \cup {"payout_processing"}
          BY <2>2, <3>3 DEF Verification
        <4>2. CASE status[o] \in Dead
          BY <2>b, <3>3, <4>1, <4>2 DEF Ended, Dead, Delivering
        <4>3. CASE status[o] \in Delivering \cup {"payout_processing"}
          BY <2>b, <4>1, <4>3 DEF Closed, Within, Dead, Delivering
        <4>4. CASE status[o] \in {"pending_payment", "secured", "collection_pending", "collected",
                                  "verification"}
          BY <2>b, <4>1, <4>4 DEF Within, Second, Third, Delivering
        <4>5. QED
          BY <2>c, <4>2, <4>3, <4>4, Statuses DEF Dead, Delivering
      <3>4. QED
        BY <3>1, <3>2, <3>3
    <2>3. QED
      BY <2>1, <2>2
  <1>2. IInv => VerifiedIsEarned
    BY <1>1 DEF IInv, VerifiedIsEarned
  <1>3. QED
    BY <1>2, Invariance, PTL

-----------------------------------------------------------------------------
(* What the details offer *)

(* Only the latest issue of a listing is open, unless one was filed while another was. *)
LatestOpen(o) == \A i \in 1 .. Len(issues[o]) - 1 : issues[o][i].resolved
Unmasked == \A o \in Orders \ masked : LatestOpen(o)

LEMMA AppendUnmasked ==
  ASSUME DeskTypes, Unmasked, NEW r \in Requests, NEW o \in Orders, o = on[r],
         NEW type \in IssueTypes, NEW resolved \in BOOLEAN, Append1(r, type, resolved)
  PROVE  Unmasked'
  <1>1. PICK issue \in Issues : issues' = [issues EXCEPT ![o] = Append(@, issue)]
    BY DEF Append1, Issue, Issues
  <1>2. /\ Len(issues'[o]) = Len(issues[o]) + 1
        /\ \A i \in 1 .. Len(issues[o]) : issues'[o][i] = issues[o][i]
        /\ \A q \in Orders \ {o} : issues'[q] = issues[q]
    BY <1>1, AppendTypes
  <1>3. DOMAIN issues[o] = 1 .. Len(issues[o]) /\ Len(issues[o]) \in Nat
    BY DEF DeskTypes
  <1>4. masked \subseteq masked' /\ (o \notin masked' => Unresolved(o) = {})
    BY DEF Append1
  <1>5. ASSUME NEW q \in Orders \ masked' PROVE LatestOpen(q)'
    <2>1. CASE q = o
      <3>1. \A i \in 1 .. Len(issues[o]) : issues[o][i].resolved
        BY <1>3, <1>4, <2>1 DEF Unresolved
      <3>2. Len(issues'[o]) - 1 = Len(issues[o])
        BY <1>2, <1>3
      <3>3. QED
        BY <1>2, <2>1, <3>1, <3>2 DEF LatestOpen
    <2>2. CASE q # o
      BY <1>2, <1>4, <2>2 DEF Unmasked, LatestOpen
    <2>3. QED
      BY <2>1, <2>2
  <1>6. QED
    BY <1>5 DEF Unmasked

LEMMA UnmaskedKept == Types /\ Working /\ Unmasked /\ [Next]_vars => Unmasked'
  <1> SUFFICES ASSUME Types, Working, Unmasked, [Next]_vars PROVE Unmasked'
    OBVIOUS
  <1>a. DeskTypes /\ JobTypes
    BY DEF Types
  <1>1. ASSUME UNCHANGED <<issues, masked>> PROVE Unmasked'
    BY <1>1 DEF Unmasked, LatestOpen
  <1>2. ASSUME NEW o \in Orders, NEW i \in DOMAIN issues[o], NEW delete \in BOOLEAN,
               Resolve(o, i, delete)
        PROVE  Unmasked'
    <2>1. issues' = [issues EXCEPT ![o][i].resolved = TRUE] /\ masked' = masked
      BY <1>2 DEF Resolve
    <2>2. /\ Len(issues'[o]) = Len(issues[o])
          /\ \A j \in DOMAIN issues[o] : issues[o][j].resolved => issues'[o][j].resolved
          /\ \A q \in Orders \ {o} : issues'[q] = issues[q]
      BY <1>a, <2>1, ResolveTypes
    <2>3. DOMAIN issues[o] = 1 .. Len(issues[o]) /\ Len(issues[o]) \in Nat
      BY <1>a DEF DeskTypes
    <2>4. ASSUME NEW q \in Orders \ masked PROVE LatestOpen(q)'
      <3>1. CASE q = o
        BY <2>2, <2>3, <3>1 DEF Unmasked, LatestOpen
      <3>2. CASE q # o
        BY <2>2, <3>2 DEF Unmasked, LatestOpen
      <3>3. QED
        BY <3>1, <3>2
    <2>5. QED
      BY <2>1, <2>4 DEF Unmasked
  <1>3. ASSUME NEW o \in Orders, Calls(o) PROVE Unmasked'
    <2>1. CASE UNCHANGED <<issues, masked>>
      BY <1>1, <2>1
    <2>2. CASE \E i \in DOMAIN issues[o], delete \in BOOLEAN : Resolve(o, i, delete)
      BY <1>2, <2>2
    <2>3. QED
      BY <1>3, <2>1, <2>2
      DEF Calls, Pay, PayWrong, PayLate, Decline, Expire, CancelPending, PaySeller, desk
  <1>4. ASSUME NEW o \in Orders, NEW r \in Requests, Start(r, o) PROVE Unmasked'
    <2>1. UNCHANGED desk
      BY <1>4, StartTypes
    <2>2. QED
      BY <1>1, <2>1 DEF desk
  <1>5. ASSUME NEW r \in Requests, Continue(r) PROVE Unmasked'
    <2>1. CASE UNCHANGED <<issues, masked>>
      BY <1>1, <2>1
    <2>2. CASE OpenPolicyIssue(r)
      <3>1. PICK o \in Orders : o = on[r]
        BY <2>2 DEF OpenPolicyIssue, At, Working, Equipped
      <3>2. \/ UNCHANGED <<issues, masked>>
            \/ \E type \in {"verification_failed", "buyer_refused"} : Append1(r, type, FALSE)
        BY <2>2 DEF OpenPolicyIssue
      <3>3. QED
        BY <1>1, <1>a, <3>1, <3>2, AppendUnmasked DEF IssueTypes
    <2>3. CASE CreateIssue(r)
      <3>1. PICK o \in Orders : o = on[r]
        BY <2>3 DEF CreateIssue, At, Working, Equipped
      <3>2. files[r] \in IssueTypes /\ Append1(r, files[r], files[r] = "seller_unavailable")
        BY <2>3 DEF CreateIssue, At, Working, Equipped
      <3>3. QED
        BY <1>a, <3>1, <3>2, AppendUnmasked
    <2>4. QED
      BY <1>5, <2>1, <2>2, <2>3 DEF Continue, SaveMove, SaveMissed, SaveSchedule, desk
  <1>6. CASE UNCHANGED vars
    BY <1>1, <1>6 DEF vars, desk
  <1>7. QED
    BY <1>3, <1>4, <1>5, <1>6, BoundAssumption DEF Next

(* An action that buildOrderDetails offers is one the services take, but for those
   OfferedIsAccepted names: a declined payment's cancellation, a delivery before the
   payout, an issue about a deleted listing or a hidden one. *)
THEOREM OffersAreAccepted == Spec => []OfferedIsAccepted
  <1>1. Init => Unmasked
    <2> SUFFICES ASSUME Init, NEW o \in Orders PROVE LatestOpen(o)
      BY DEF Unmasked
    <2>1. issues[o] \in Pasts
      BY DEF Init
    <2>2. Len(issues[o]) \in {0, 1}
      <3>1. CASE issues[o] = <<>>
        BY <3>1
      <3>2. CASE \E issue \in {Issue(type, TRUE, FALSE) : type \in Past} : issues[o] = <<issue>>
        <4>1. PICK issue : issues[o] = <<issue>>
          BY <3>2
        <4>2. QED
          BY <4>1
      <3>3. QED
        BY <2>1, <3>1, <3>2 DEF Pasts
    <2>3. 1 .. 0 - 1 = {} /\ 1 .. 1 - 1 = {}
      OBVIOUS
    <2>4. QED
      BY <2>2, <2>3 DEF LatestOpen
  <1>2. IInv /\ Unmasked => OfferedIsAccepted
    <2> SUFFICES ASSUME IInv, Unmasked, NEW o \in Orders
                 PROVE  /\ OffersCancel(o) => MayCancelPending(o) \/ MayCancelPaid(o) \/ payment[o] # "pending"
                        /\ \A target \in OrderStatuses :
                             OffersMove(o, target) =>
                               \/ \E cause \in Outcomes \cup {None} : MayMove(o, target, cause)
                               \/ target = "ready_for_delivery" /\ payout[o] # "paid"
                        /\ OffersDelivered(o) => MayMove(o, "delivered", None)
                        /\ OffersMissed(o) => MayMiss(o)
                        /\ OffersIssue(o) => MayReport(o) \/ o \in gone \cup masked
      BY DEF OfferedIsAccepted
    <2>1. OffersCancel(o) => MayCancelPending(o) \/ MayCancelPaid(o) \/ payment[o] # "pending"
      BY DEF OffersCancel, MayCancelPending, MayCancelPaid
    <2>2. OffersDelivered(o) => MayMove(o, "delivered", None)
      BY DEF OffersDelivered, OffersMove, MayMove, PolicyOutcomes
    <2>3. OffersMissed(o) => MayMiss(o)
      BY DEF OffersMissed, MayMiss
    <2>4. ASSUME OffersIssue(o), o \notin gone \cup masked PROVE MayReport(o)
      <3>1. issues[o] \in Seq(Issues)
        BY DEF IInv, Types, DeskTypes
      <3>2. CASE issues[o] = <<>>
        BY <2>4, <3>2 DEF MayReport, Unresolved
      <3>3. CASE issues[o] # <<>>
        <4>1. issues[o][Len(issues[o])].resolved
          BY <2>4, <3>3 DEF OffersIssue, HasOpenIssue, Latest
        <4>2. \A i \in 1 .. Len(issues[o]) - 1 : issues[o][i].resolved
          BY <2>4 DEF Unmasked, LatestOpen
        <4>3. Len(issues[o]) \in Nat /\ DOMAIN issues[o] = 1 .. Len(issues[o])
          BY <3>1
        <4>4. \A i \in DOMAIN issues[o] : i = Len(issues[o]) \/ i \in 1 .. Len(issues[o]) - 1
          BY <4>3
        <4>5. QED
          BY <2>4, <4>1, <4>2, <4>4 DEF MayReport, Unresolved
      <3>4. QED
        BY <3>2, <3>3
    <2>5. ASSUME NEW target \in OrderStatuses, OffersMove(o, target),
                 target # "ready_for_delivery" \/ payout[o] = "paid"
          PROVE  \E cause \in Outcomes \cup {None} : MayMove(o, target, cause)
      <3>1. PICK cause \in Outcomes \cup {None} : cause \in PolicyOutcomes(status[o], target)
        <4>1. PolicyOutcomes(status[o], target) \in {{None}, AtVerification, AtDelivery}
          BY DEF PolicyOutcomes
        <4>2. QED
          BY <4>1 DEF Outcomes, AtVerification, AtDelivery
      <3>2. MayMove(o, target, cause)
        BY <2>5, <3>1 DEF OffersMove, MayMove
      <3>3. QED
        BY <3>2
    <2>6. QED
      BY <2>1, <2>2, <2>3, <2>4, <2>5
  <1>3. IInv /\ Unmasked /\ [Next]_vars => Unmasked'
    BY UnmaskedKept DEF IInv
  <1>4. QED
    BY <1>1, <1>2, <1>3, Invariance, PTL DEF Spec

=============================================================================
