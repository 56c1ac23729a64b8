------------------------------ MODULE AwsDelivery ------------------------------
(***************************************************************************)
(* The delivery operations (infra/aws/demo/scripts/aws_delivery.py): plan,  *)
(* foundation, deploy and teardown, one at a time (the workflows share one  *)
(* concurrency group), each a chain of external calls with a gate between   *)
(* them.  Any call may fail, and the runner may die while Terraform works.  *)
(***************************************************************************)
EXTENDS DeliveryTarget, FrontendPublication, Sequences

CONSTANT History   \* the commits of main, in order

(* A commit is on main once: its history is never rewritten. *)
ASSUME HistoryAssumption ==
  /\ History \in Seq(Shas) /\ History # <<>>
  /\ \A i, j \in DOMAIN History : History[i] = History[j] => i = j

VARIABLES
  head,      \* position of main in History
  op,        \* the operation: its kind, stage and commit
  report,    \* how the last operation ended
  calm       \* nothing has happened yet that can leave a state the gates refuse

controlVars == <<head, op, report, calm>>
vars == <<targetVars, frontendVars, controlVars>>

Kinds == {"plan", "foundation", "deploy", "teardown"}

NoReport == [kind |-> "none", outcome |-> "none", sha |-> Unset]
Idle == [kind |-> "none", stage |-> "idle", sha |-> Unset]

Init ==
  /\ TargetInit /\ FrontendInit
  /\ head = 1 /\ op = Idle /\ report = NoReport /\ calm = TRUE

At(stage) == op.stage = stage
Is(kind) == op.kind = kind

GoTo(stage) == op' = [op EXCEPT !.stage = stage] /\ UNCHANGED <<head, report, calm>>

Ends(outcome) ==
  /\ report' = [kind |-> op.kind, outcome |-> outcome, sha |-> op.sha]
  /\ op' = Idle /\ UNCHANGED <<head, calm>>

(* A gate lets the operation through to a stage, or ends it. *)
Gate(accepted, stage) == IF accepted THEN GoTo(stage) ELSE Ends("refused")

-----------------------------------------------------------------------------
(* The protected workflow runs the commit that is the head of main.         *)
Dispatch(kind) ==
  /\ At("idle")
  /\ op' = [kind |-> kind, stage |-> "read", sha |-> History[head]]
  /\ report' = NoReport
  /\ UNCHANGED <<targetVars, frontendVars, head, calm>>

MainAdvances ==
  /\ head < Len(History) /\ head' = head + 1
  /\ UNCHANGED <<targetVars, frontendVars, op, report, calm>>

-----------------------------------------------------------------------------
(* terraform_state_list and the audit before anything is done. *)
ReadState ==
  /\ At("read") /\ UNCHANGED <<targetVars, frontendVars>>
  /\ \/ Is("plan") /\ Gate(StateIsComplete(remote), "plan")
     \/ /\ Is("foundation")
        /\ IF ListsNothing(remote) THEN Gate(StateIsEmpty(remote), "plan")
           ELSE Gate(StateIsComplete(remote) /\ remote.ref = Placeholder, "ready")
     \/ Is("deploy") /\ Gate(StateIsComplete(remote), "build")
     \/ /\ Is("teardown")
        /\ IF ListsNothing(remote) THEN Gate(StateIsEmpty(remote), "scan")
           ELSE Gate(StateIsDestroyable(remote), "plan")

(* login_and_build: the image of this commit, pushed unless it is there.    *)
Build ==
  /\ At("build") /\ "repository" \in account.present
  /\ pushed' = pushed \cup {op.sha}
  /\ GoTo("plan")
  /\ UNCHANGED <<account, orphans, rollout, rollbacks, revisions, remote, lock, work, plan>>
  /\ UNCHANGED frontendVars

(* The image and the desired count an operation plans for. *)
Aim == CASE Is("deploy") -> <<op.sha, 1>>
         [] Is("plan") -> <<remote.ref, IF remote.ref = Placeholder THEN 0 ELSE 1>>
         [] OTHER -> <<Placeholder, 0>>

Accepts(new) == CASE Is("foundation") -> PlanCreatesEverything(new)
                  [] Is("deploy") -> PlanSwapsTheImage(new, op.sha)
                  [] Is("teardown") -> PlanOnlyDestroys(new)
                  [] OTHER -> FALSE

(* terraform_plan and audit_plan; Terraform takes the lock while it plans. *)
MakePlan ==
  /\ At("plan") /\ ~Is("plan") /\ lock = "free"
  /\ LET new == IF Is("teardown") THEN DestroyPlan ELSE PlanFor(Aim[1], Aim[2])
     IN  /\ plan' = IF Accepts(new) THEN new ELSE plan
         /\ Gate(Accepts(new), "apply")
  /\ UNCHANGED <<account, orphans, rollout, rollbacks, revisions, pushed, remote, lock, work>>
  /\ UNCHANGED frontendVars

(* The plan operation ends with a plan for what the state says is running. *)
ReviewPlan ==
  /\ At("plan") /\ Is("plan") /\ lock = "free"
  /\ Ends(IF PlanIsReviewable(PlanFor(Aim[1], Aim[2])) THEN "ok" ELSE "refused")
  /\ UNCHANGED <<targetVars, frontendVars>>

(* A foundation is ready when a second plan changes nothing. *)
ConfirmReady ==
  /\ At("ready") /\ lock = "free"
  /\ Ends(IF PlanChangesNothing(PlanFor(Placeholder, 0)) THEN "ok" ELSE "refused")
  /\ UNCHANGED <<targetVars, frontendVars>>

StartApply == At("apply") /\ BeginApply /\ GoTo("applying") /\ UNCHANGED frontendVars

(* With the bucket and the distribution go the keys and the copies. *)
SiteFollows ==
  IF "frontend" \in account.present \ account'.present THEN Unpublish
                                                       ELSE UNCHANGED frontendVars

WorkOnApply ==
  /\ At("applying") /\ ApplyStep /\ SiteFollows
  /\ UNCHANGED controlVars

FinishApply ==
  /\ At("applying") /\ Applied /\ EndApply /\ GoTo("check") /\ UNCHANGED frontendVars

(* What an apply that ends part of the way leaves the gates may refuse: a   *)
(* service that does not point to the task, a record of what is gone, or no *)
(* resource but data sources or outputs.                                   *)
LeavesTrouble(died, left) ==
  \/ Is("deploy")
  \/ Is("teardown") /\ died
  \/ left.world.present = {} /\ ~StateIsEmpty(left)

(* Terraform reports an error part of the way. *)
ApplyFails ==
  /\ At("applying") /\ EndApply
  /\ report' = [kind |-> op.kind, outcome |-> "failed", sha |-> op.sha]
  /\ op' = Idle /\ calm' = (calm /\ ~LeavesTrouble(FALSE, work))
  /\ UNCHANGED <<head, frontendVars>>

(* The runner is lost, or its time is over, while Terraform applies. *)
RunnerLost ==
  /\ At("applying") /\ LoseRunner
  /\ op' = Idle /\ calm' = (calm /\ ~LeavesTrouble(TRUE, remote))
  /\ UNCHANGED <<head, report, frontendVars>>

(* The same while it plans. *)
RunnerLostPlanning ==
  /\ op.stage \in {"plan", "ready"} /\ lock = "free" /\ lock' = "stale"
  /\ op' = Idle
  /\ UNCHANGED <<account, orphans, rollout, rollbacks, revisions, pushed, remote, work, plan>>
  /\ UNCHANGED <<frontendVars, head, report, calm>>

(* The state read again after the apply. *)
AuditAfter ==
  /\ At("check") /\ UNCHANGED <<targetVars, frontendVars>>
  /\ \/ /\ Is("foundation")
        /\ Gate(StateIsComplete(remote) /\ remote.ref = Placeholder, "ready")
     \/ Is("deploy") /\ Gate(StateRuns(remote, op.sha), "stage")
     \/ Is("teardown") /\ Gate(StateIsEmpty(remote), "scan")

(* stage_frontend, with the bundle the runner has built. *)
StageFrontend ==
  /\ At("stage")
  /\ List(op.sha) /\ GoTo("publish") /\ UNCHANGED targetVars

Publish ==
  /\ At("publish") /\ PublishStep
  /\ UNCHANGED <<targetVars, controlVars>>

FinishPublish ==
  /\ At("publish") /\ AwaitPurge /\ GoTo("smoke")
  /\ UNCHANGED targetVars

(* run_smoke: an API answers as expected, of whatever image. *)
SmokeApi ==
  /\ At("smoke")
  /\ "service" \in account.present /\ account.desired = 1
  /\ account.service.image # Placeholder
  /\ GoTo("browse") /\ UNCHANGED <<targetVars, frontendVars>>

(* run_published_smoke: the staged panel of this commit is served whole. *)
SmokePublished ==
  /\ At("browse")
  /\ bucket.index = op.sha /\ Bundles[op.sha] \subseteq bucket.assets /\ bucket.config
  /\ Ends("ok") /\ UNCHANGED <<targetVars, frontendVars>>

(* Mutant: an empty state is taken for an empty account. *)
TrustTheState ==
  /\ At("scan")
  /\ Ends("ok")
  /\ UNCHANGED <<targetVars, frontendVars>>

(* The inventory asks AWS itself: for whatever carries the tags of the      *)
(* profile, and for each kind of resource by its configured name.          *)
Queries == {"tagged resources", "buckets", "repositories", "clusters", "queues",
            "budgets", "sign-in domain", "distributions", "policies"}

(* What a query counts. A service, a task and its revisions have no query   *)
(* of their own; the cluster ECS still describes as INACTIVE is not counted *)
(* by any.                                                                 *)
Remains(query) ==
  CASE query = "tagged resources" -> account.present # {} \/ orphans # {}
    [] query = "clusters" -> "service" \in account.present
    [] query = "repositories" -> "repository" \in account.present
    [] OTHER -> "frontend" \in account.present

(* How an answer of the command line can look: with items that count; with  *)
(* others alone (a cluster that is INACTIVE, a domain without description), *)
(* an empty list, no list, not even the object around it, or no text at     *)
(* all; the one error that says there is none; any other, or an item the    *)
(* query does not understand.                                              *)
Forms == {"residue", "others", "empty", "no list", "bare", "silence", "not found", "error"}

AnswersTo(query) == IF Remains(query) THEN {"residue", "error"} ELSE Forms \ {"residue"}

MayOmitItsList == {"queues", "budgets", "sign-in domain", "distributions", "policies"}
MayBeSilent == {"queues", "budgets", "distributions"}

(* The answers in which nothing is left, by the leave each query gives.     *)
NothingLeft(query) ==
  {"others", "empty"}
    \cup (IF query \in MayOmitItsList THEN {"no list"} ELSE {})
    \cup (IF query \in MayBeSilent THEN {"silence"} ELSE {})
    \cup (IF query = "distributions" THEN {"bare"} ELSE {})
    \cup (IF query = "sign-in domain" THEN {"not found"} ELSE {})

(* scan_inventory: every query must say that nothing is left. *)
Scan ==
  /\ At("scan")
  /\ \/ (\A query \in Queries : AnswersTo(query) \cap NothingLeft(query) # {}) /\ Ends("ok")
     \/ (\E query \in Queries : AnswersTo(query) \ NothingLeft(query) # {}) /\ Ends("failed")
  /\ UNCHANGED <<targetVars, frontendVars>>

(* Any other call fails: a session is too short for the next one, a stale   *)
(* lock outlives the wait for it, the runner has not built the panel (the   *)
(* deploy workflow has no step that does), nothing answers.                *)
Fail ==
  /\ op.stage \notin {"idle", "applying"}
  /\ plan' = NoPlan
  /\ Abandon /\ Ends("failed")
  /\ UNCHANGED <<account, orphans, rollout, rollbacks, revisions, pushed, remote, lock, work>>

Operate ==
  \/ \E kind \in Kinds : Dispatch(kind)
  \/ ReadState \/ Build \/ MakePlan \/ ReviewPlan \/ ConfirmReady
  \/ StartApply \/ WorkOnApply \/ FinishApply \/ ApplyFails \/ AuditAfter
  \/ StageFrontend \/ Publish \/ FinishPublish \/ SmokeApi \/ SmokePublished \/ Scan \/ Fail

Surroundings ==
  \/ MainAdvances \/ RunnerLost \/ RunnerLostPlanning
  \/ (Settle \/ ReleaseStaleLock) /\ UNCHANGED <<frontendVars, controlVars>>
  \/ RollBack /\ calm' = FALSE
     /\ UNCHANGED <<frontendVars, head, op, report>>
  \/ (\E asset \in Assets : CacheAsset(asset))
     /\ UNCHANGED <<targetVars, controlVars>>
  \/ (\E sha \in Shas : CompletePurge(sha)) /\ UNCHANGED <<targetVars, controlVars>>

Next == Operate \/ Surroundings

Spec == Init /\ [][Next]_vars

-----------------------------------------------------------------------------
(* Properties *)

Reported(kind, outcome) == report.kind = kind /\ report.outcome = outcome

(* A deploy that reports success left the whole profile in the account, the *)
(* state naming the image of its commit, the service pointed to that image  *)
(* (unless ECS took it back), the panel of the same commit whole in the     *)
(* bucket and no copy of another build at the edge.                        *)
DeployedIsWhatRuns ==
  Reported("deploy", "ok") =>
    /\ account.present = Managed /\ StateRuns(remote, report.sha)
    /\ account.task = remote.world.task
    /\ rollbacks = 0 => account.service = account.task /\ account.desired = 1
    /\ bucket.index = report.sha /\ bucket.root = report.sha
    /\ bucket.assets = Bundles[report.sha] /\ edge \subseteq bucket.assets

(* A teardown that reports success left nothing in the account, whatever    *)
(* interrupted operations lost from the state before it.                   *)
TeardownLeavesNothing ==
  Reported("teardown", "ok") =>
    account.present = {} /\ orphans = {} /\ pushed = {} /\ StateIsEmpty(remote)

(* The gates turn a teardown away only after a deploy was interrupted while *)
(* it applied, after ECS took an update back, after a runner was lost while *)
(* it destroyed, or after an apply that ended before its first resource, or *)
(* past its last, and left a state of data sources or outputs alone: no     *)
(* other failure, at any point of any operation, leaves a state that cannot *)
(* be torn down.                                                           *)
TeardownIsRefusedOnlyAfterMishaps ==
  Reported("teardown", "refused") => ~calm

=============================================================================
