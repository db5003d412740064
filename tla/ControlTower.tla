----------------------------- MODULE ControlTower -----------------------------
(***************************************************************************)
(* The incident page of the front end on top of the recovery workflow: what  *)
(* a manager sees, which buttons the page offers, and what they send.        *)
(*                                                                         *)
(* GET /incidents/{i}/dossier reads the plans and, later in the same         *)
(* request, the approval; it writes when it finds none of either.  A page    *)
(* keeps what it was answered until it is loaded again, so what a press      *)
(* sends may be older than anything in the tables.  A press is followed by a *)
(* load of the same page, whatever the answer; its buttons are disabled      *)
(* until then.  Presses that the server refuses change nothing and are left  *)
(* out: the load that follows them is an OpenPage.  Requests do not die here. *)
(***************************************************************************)
EXTENDS RecoveryWorkflow

CONSTANTS
  Clients,    \* browser tabs
  Nobody,     \* a handler that runs another client's request, or none
  Scores,     \* overall_score of a plan
  Unsourced,  \* incidents that were reported without a material
  InitialScores  \* scores the initial plans may have

ASSUME TowerAssumption ==
  /\ Nobody \notin Clients
  /\ Scores \subseteq Nat
  /\ Unsourced \subseteq Incidents
  /\ InitialScores \subseteq Seq(Scores)

VARIABLES
  scores,     \* overall_score of the rows of plans
  pages,      \* client -> the page it shows
  serving,    \* handler -> the client whose request it runs
  reloading,  \* clients whose press was sent and whose load has not begun
  seen,       \* history: approval and displayed plan of every Authorize pressed
  unseen,     \* history: approvals first granted by a request from no page
  dispatched  \* history: client, approval and page's view of every dispatch

pageVars  == <<pages, reloading, seen, unseen, dispatched>>
towerVars == <<vars, scores, serving, pageVars>>

(* What is on the page: a plan and an approval (0: none), whether it shows   *)
(* the approval itself as approved, and the buttons.                        *)
Page   == [incident : Incidents, plan : Nat, approval : Nat,
           approved : BOOLEAN, offers : {"decide", "dispatch", "nothing"}]
NoPage == [incident |-> None, plan |-> 0, approval |-> 0,
           approved |-> FALSE, offers |-> "nothing"]

LoadLabels == {"load_plans", "load_again", "load_approval", "show_inserted"}

TowerTypeOK ==
  /\ incidents \in [Incidents -> IncidentStatus]
  /\ plans \in Seq(Plan)
  /\ approvals \in Seq(Approval)
  /\ pc \in [Handlers -> Labels \cup LoadLabels]
  /\ ctx \in [Handlers -> Context]
  /\ scores \in Seq(Scores) /\ Len(scores) = Len(plans)
  /\ serving \in [Handlers -> Clients \cup {Nobody}]
  /\ reloading \subseteq Clients
  /\ pages \in [Clients -> Page \cup {NoPage}]
  /\ \A c \in Clients : /\ pages[c].plan \in 0..Len(plans)
                        /\ pages[c].approval \in 0..Len(approvals)
                        /\ pages[c].approval = 0 => pages[c].plan = 0
                        /\ pages[c].plan = 0 => pages[c].offers = "nothing"
  /\ seen \subseteq (DOMAIN approvals) \X (DOMAIN plans)
  /\ unseen \subseteq DOMAIN approvals
  /\ dispatched \subseteq Clients \X (DOMAIN approvals) \X BOOLEAN

TowerInit ==
  /\ Init
  /\ scores \in InitialScores /\ Len(scores) = Len(plans)
  /\ pages = [c \in Clients |-> NoPage]
  /\ serving = [h \in Handlers |-> Nobody]
  /\ reloading = {}
  /\ seen = {}
  /\ unseen = {}
  /\ dispatched = {}

-----------------------------------------------------------------------------
(* Helpers *)

Busy(c) == c \in reloading \/ \E h \in Handlers : serving[h] = c

(* A row added to recovery_plans brings its score. *)
Scored ==
  \/ Len(plans') = Len(plans) /\ UNCHANGED scores
  \/ /\ Len(plans') > Len(plans)
     /\ \E s \in Scores : scores' = Append(scores, s)

(* A handler that has answered serves nobody. *)
Answered(h) ==
  serving' = IF pc'[h] = "idle" THEN [serving EXCEPT ![h] = Nobody] ELSE serving

(* Mutant: list_plans_for_incident does not order its rows. *)
AnyPlan(i) == PlansOf(i)

(* The plans a dossier may recommend: the highest score comes first, rows    *)
(* that tie in any order, whatever their status.                            *)
Best(i) == {p \in PlansOf(i) : \A q \in PlansOf(i) : scores[q] <= scores[p]}

(* isExecuted, isApproved and isPendingApproval of a page with a plan. *)
Offers(status, planStatus, approvalStatus) ==
  LET executed == status = "RESOLVED" \/ planStatus = "COMPLETED"
      approved == approvalStatus = "APPROVED" \/ status = "APPROVED"
  IN  CASE executed -> "nothing"
        [] ~executed /\ approved -> "dispatch"
        [] OTHER -> "decide"

(* Mutant: the page shows an approval before it knows the plan. *)
ShowApproval(h, a, status) ==
  pages' = [pages EXCEPT ![serving[h]] =
    [incident |-> ctx[h].incident, plan |-> 0, approval |-> a,
     approved |-> status = "APPROVED",
     offers   |-> Offers(ctx[h].incidentSeen, ctx[h].planSeen, status)]]

(* The dossier's answer, from the rows as they were when they were read. *)
Show(h, a, status) ==
  pages' = [pages EXCEPT ![serving[h]] =
    [incident |-> ctx[h].incident, plan |-> ctx[h].plan, approval |-> a,
     approved |-> status = "APPROVED",
     offers   |-> Offers(ctx[h].incidentSeen, ctx[h].planSeen, status)]]

-----------------------------------------------------------------------------
(* Loading a page.  Loads are not counted by MaxRequests. *)

(* With plans, the recommended one is read here. *)
Load(h, c, i) ==
  /\ pc[h] = "idle"
  /\ serving' = [serving EXCEPT ![h] = c]
  /\ UNCHANGED <<db, started, scores, seen, unseen, dispatched>>
  /\ \/ \E p \in Best(i) :
          /\ pc' = [pc EXCEPT ![h] = "load_approval"]
          /\ ctx' = [ctx EXCEPT ![h] =
                       [NoContext EXCEPT !.incident = i, !.plan = p,
                                         !.planSeen = plans[p].status,
                                         !.incidentSeen = incidents[i]]]
     \/ /\ PlansOf(i) = {}
        /\ pc' = [pc EXCEPT ![h] = "load_plans"]
        /\ ctx' = [ctx EXCEPT ![h] = [NoContext EXCEPT !.incident = i]]

(* Navigation: the page is empty until the dossier arrives. *)
OpenPage(h, c, i) ==
  /\ ~Busy(c)
  /\ pages' = [pages EXCEPT ![c] = NoPage]
  /\ Load(h, c, i)
  /\ UNCHANGED reloading

(* loadDossier at the end of a press that has been answered *)
ReloadPage(h, c) ==
  /\ c \in reloading
  /\ \A g \in Handlers : serving[g] # c
  /\ reloading' = reloading \ {c}
  /\ Load(h, c, pages[c].incident)
  /\ UNCHANGED pages

(* Without, generate_plans commits the suggestions one by one, but only for  *)
(* an incident that has a material ...                                      *)
GeneratePlan(h) ==
  /\ ctx[h].incident \notin Unsourced
  /\ Len(plans) < MaxPlans
  /\ \E label \in {"load_plans", "load_again"} : Goto(h, label, "load_again")
  /\ \E s \in Contents : NewPlan(ctx[h].incident, s)
  /\ Scored
  /\ UNCHANGED <<incidents, approvals, orders, audit, granted, ctx,
                 serving, pageVars>>

(* ... and get_incident_dossier inserts them again under the same ids.  The  *)
(* error leaves the session unusable and the request fails; the front end    *)
(* shows the bare incident in its place.                                    *)
FailDuplicate(h) ==
  /\ Finish(h, "load_again")
  /\ pages' = [pages EXCEPT ![serving[h]] =
                 [NoPage EXCEPT !.incident = ctx[h].incident]]
  /\ Answered(h)
  /\ UNCHANGED <<db, scores, reloading, seen, unseen, dispatched>>

ApprovalsOf(i) == {a \in DOMAIN approvals : approvals[a].incident = i}

(* No material, or generate_plans gave up on an exception, before or after a *)
(* commit of its own, and it was swallowed: the answer has no plan, whatever *)
(* was committed, and the latest approval, if any.                          *)
ShowWithoutPlan(h) ==
  /\ \E label \in {"load_plans", "load_again"} : Finish(h, label)
  /\ \E a \in ApprovalsOf(ctx[h].incident) \cup {0} :
       /\ \A b \in ApprovalsOf(ctx[h].incident) : b <= a
       /\ pages' = [pages EXCEPT ![serving[h]] =
            [incident |-> ctx[h].incident, plan |-> 0, approval |-> a,
             approved |-> a # 0 /\ approvals[a].status = "APPROVED",
             offers   |-> "nothing"]]
  /\ Answered(h)
  /\ UNCHANGED <<db, scores, reloading, seen, unseen, dispatched>>

(* The latest approval of the incident, whichever of its plans it is for. *)
LoadApproval(h) ==
  /\ Finish(h, "load_approval")
  /\ \E a \in ApprovalsOf(ctx[h].incident) :
       /\ \A b \in ApprovalsOf(ctx[h].incident) : b <= a
       /\ Show(h, a, approvals[a].status)
  /\ Answered(h)
  /\ UNCHANGED <<db, scores, reloading, seen, unseen, dispatched>>

(* None: the dossier asks for the approval of the plan it recommends. *)
LoadNewApproval(h) ==
  /\ ApprovalsOf(ctx[h].incident) = {}
  /\ Goto(h, "load_approval", "show_inserted")
  /\ NewApproval(ctx[h].plan)
  /\ ctx' = [ctx EXCEPT ![h].approval = Len(approvals) + 1]
  /\ UNCHANGED <<incidents, plans, orders, audit, granted, scores, serving,
                 pageVars>>

ShowInserted(h) ==
  /\ Finish(h, "show_inserted")
  /\ Show(h, ctx[h].approval, "PENDING")
  /\ Answered(h)
  /\ UNCHANGED <<db, scores, reloading, seen, unseen, dispatched>>

-----------------------------------------------------------------------------
(* Pressing a button of the page *)

(* Mutant: the page is not loaded again. *)
PressOnly(h, c) ==
  /\ ~Busy(c)
  /\ serving' = [serving EXCEPT ![h] = c]
  /\ UNCHANGED <<scores, pages, reloading, unseen>>

Press(h, c) ==
  /\ ~Busy(c)
  /\ serving' = [serving EXCEPT ![h] = c]
  /\ reloading' = reloading \cup {c}
  /\ UNCHANGED <<scores, pages, unseen>>

(* Authorize Plan *)
Approve(h, c) ==
  /\ pages[c].offers = "decide"
  /\ DecideApproval(h, pages[c].approval, "APPROVED")
  /\ Press(h, c)
  /\ seen' = seen \cup {<<pages[c].approval, pages[c].plan>>}
  /\ UNCHANGED dispatched

(* Reject Plan *)
Reject(h, c) ==
  /\ pages[c].offers = "decide"
  /\ DecideApproval(h, pages[c].approval, "REJECTED")
  /\ Press(h, c)
  /\ UNCHANGED <<seen, dispatched>>

(* Dispatch Purchase Order to ERP *)
Dispatch(h, c) ==
  /\ pages[c].offers = "dispatch"
  /\ ExecutePlan(h, pages[c].plan, pages[c].approval)
  /\ Press(h, c)
  /\ dispatched' = dispatched \cup
       {<<c, pages[c].approval, pages[c].approved>>}
  /\ UNCHANGED seen

(* Requests of API clients, from no page, and assumption failures *)
OtherRequest(h) ==
  /\ \/ \E i \in Incidents \ Unsourced : RecommendPlans(h, i)
     \/ \E p \in DOMAIN plans : RequestApproval(h, p)
     \/ \E a \in DOMAIN approvals, d \in {"APPROVED", "REJECTED"} :
          DecideApproval(h, a, d)
     \/ \E p \in DOMAIN plans, d \in {"APPROVED", "REJECTED"} :
          DecideOnDemand(h, p, d)
     \/ \E p \in DOMAIN plans, a \in DOMAIN approvals : ExecutePlan(h, p, a)
     \/ \E p \in DOMAIN plans : VerifyPlan(h, p)
     \/ \E i \in Incidents : HandleAssumptionFailure(h, i)
  /\ Scored
  /\ UNCHANGED <<serving, pageVars>>

(* The next transaction of a request of the workflow *)
WorkflowStep(h) ==
  /\ Step(h)
  /\ Scored
  /\ Answered(h)
  /\ unseen' = IF serving[h] = Nobody THEN unseen \cup (granted' \ granted)
                                      ELSE unseen
  /\ UNCHANGED <<pages, reloading, seen, dispatched>>

TowerStep(h) ==
  \/ \E c \in Clients, i \in Incidents : OpenPage(h, c, i)
  \/ \E c \in Clients : ReloadPage(h, c)
  \/ GeneratePlan(h) \/ FailDuplicate(h) \/ ShowWithoutPlan(h)
  \/ LoadApproval(h) \/ LoadNewApproval(h) \/ ShowInserted(h)
  \/ \E c \in Clients : Approve(h, c) \/ Reject(h, c) \/ Dispatch(h, c)
  \/ OtherRequest(h)
  \/ WorkflowStep(h)

TowerNext == \E h \in Handlers : TowerStep(h)

TowerSpec == TowerInit /\ [][TowerNext]_towerVars

-----------------------------------------------------------------------------
(* Properties *)

(* When requests do not overlap, and unless a request from no page granted   *)
(* its approval, an order buys a plan no better than the one on the page on  *)
(* which its approval was granted; and a plan that tied with that one, if    *)
(* some page that showed the approval as granted dispatched it.  The plan    *)
(* bought is the one displayed at the dispatch, the approval was granted     *)
(* from an older page, and new plans, approvals and decisions come in        *)
(* between (IncidentDetails.jsx:38-79, incidents.py:172, 283-290).           *)
OrdersAsShown ==
  \A o \in DOMAIN orders :
    orders[o].plan # 0 /\ orders[o].approval \notin unseen =>
    LET a     == orders[o].approval
        score == scores[orders[o].plan]
        shown == {scores[e[2]] : e \in {x \in seen : x[1] = a}}
    IN  /\ \E s \in shown : s >= score
        /\ (\E c \in Clients : <<c, a, TRUE>> \in dispatched) => score \in shown

(* Once a client's dispatch of an approval has been answered and its page    *)
(* loaded again, the page never offers to dispatch that approval for its     *)
(* plan a second time, whatever verification made of the order and whatever  *)
(* stale pages of other clients decide (IncidentDetails.jsx:68-83, 108-111). *)
NoSecondDispatch ==
  \A c \in Clients :
    /\ pages[c].offers = "dispatch"
    /\ ~Busy(c)
    /\ pages[c].plan = approvals[pages[c].approval].plan
    => \A d \in dispatched : ~(d[1] = c /\ d[2] = pages[c].approval)
=============================================================================
