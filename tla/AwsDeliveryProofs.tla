--------------------------- MODULE AwsDeliveryProofs ---------------------------
(***************************************************************************)
(* For any number of commits, revisions and roll-backs, and any bundles,    *)
(* shared or not: a publication keeps every document loadable, wherever it  *)
(* is cut; what the delivery does to the site is a sequence of             *)
(* publications, so it keeps them loadable too; a teardown that reports     *)
(* success left nothing; one is refused only after a mishap; and a deploy   *)
(* that reports success is what runs and what is served.                    *)
(***************************************************************************)
EXTENDS AwsDelivery, TLAPS

-----------------------------------------------------------------------------
(* The invariant of a publication adds to the property what one in          *)
(* progress has already put: the assets outside puts, then the root files, *)
(* then the configuration; and that it never cleans an asset of its own    *)
(* build.                                                                  *)

InProgress == step # "rest"

Steps == {"rest", "assets", "config", "index", "clean", "wait"}

BucketShape ==
  bucket = [index |-> bucket.index, root |-> bucket.root,
            config |-> bucket.config, assets |-> bucket.assets]

PutSoFar ==
  /\ InProgress =>
       /\ publishing \in Shas
       /\ Bundles[publishing] \ puts \subseteq bucket.assets
       /\ deletes \cap Bundles[publishing] = {}
  /\ step \notin {"rest", "assets"} => puts = {} /\ bucket.root # Unset
  /\ step \in {"index", "clean", "wait"} => bucket.config

IndexIsThisBuild == step \in {"clean", "wait"} => bucket.index = publishing

PublicationInv ==
  /\ step \in Steps /\ BucketShape /\ PutSoFar /\ IndexIsThisBuild
  /\ DocumentHasItsBundles

LEMMA InitEstablishesPublication == FrontendInit => PublicationInv
BY DEF FrontendInit, PublicationInv, Steps, BucketShape, PutSoFar, IndexIsThisBuild,
       InProgress, DocumentHasItsBundles, EmptyBucket

LEMMA StepKeepsPublication ==
  ASSUME PublicationInv, [FrontendNext]_frontendVars PROVE PublicationInv'
<1> USE DEF PublicationInv, Steps, BucketShape, PutSoFar, IndexIsThisBuild, InProgress,
            DocumentHasItsBundles, Goes
<1>1. ASSUME NEW build \in Shas, List(build) PROVE PublicationInv'
  BY <1>1 DEF List
<1>2. ASSUME NEW asset \in puts, PutAsset(asset) PROVE PublicationInv'
  BY <1>2 DEF PutAsset
<1>3. CASE PutRoot
  BY <1>3, IdentityAssumption, BundleAssumption DEF PutRoot
<1>4. CASE PutConfig
  BY <1>4 DEF PutConfig
<1>5. CASE PutIndex
  BY <1>5 DEF PutIndex
<1>6. ASSUME NEW asset \in deletes, DeleteAsset(asset) PROVE PublicationInv'
  BY <1>6 DEF DeleteAsset
<1>7. CASE Invalidate
  BY <1>7 DEF Invalidate
<1>8. CASE AwaitPurge
  BY <1>8 DEF AwaitPurge
<1>9. CASE Abandon
  BY <1>9 DEF Abandon
<1>10. ASSUME NEW asset \in Assets, CacheAsset(asset) PROVE PublicationInv'
  BY <1>10 DEF CacheAsset
<1>11. ASSUME NEW build \in Shas, CompletePurge(build) PROVE PublicationInv'
  BY <1>11 DEF CompletePurge
<1>12. CASE Unpublish
  BY <1>12 DEF Unpublish, EmptyBucket
<1>13. CASE UNCHANGED frontendVars
  BY <1>13 DEF frontendVars
<1> QED
  BY <1>1, <1>2, <1>3, <1>4, <1>5, <1>6, <1>7, <1>8, <1>9, <1>10, <1>11, <1>12, <1>13
     DEF FrontendNext, PublishStep

(* A visitor who loads a document of the panel can load its bundles, its    *)
(* root files and its configuration, whatever publications were cut.       *)
THEOREM PublicationKeepsDocumentsWhole == FrontendSpec => []DocumentHasItsBundles
<1>1. PublicationInv /\ [FrontendNext]_frontendVars => PublicationInv'
  BY StepKeepsPublication
<1>2. PublicationInv => DocumentHasItsBundles
  BY DEF PublicationInv
<1> QED
  BY InitEstablishesPublication, <1>1, <1>2, PTL DEF FrontendSpec

-----------------------------------------------------------------------------
(* An operation in progress has a commit of main and has reported nothing.  *)

Stages == {"idle", "read", "ready", "build", "plan", "apply", "applying", "check",
           "stage", "publish", "smoke", "browse", "scan"}

(* The stages of an operation. *)
Proper(kind, stage) ==
  /\ kind = "plan" => stage \in {"read", "plan"}
  /\ stage \in {"build", "stage", "publish", "smoke", "browse"} => kind = "deploy"
  /\ stage = "ready" => kind = "foundation"
  /\ stage = "scan" => kind = "teardown"

OperationInv ==
  /\ head \in 1..Len(History)
  /\ op \in [kind : Kinds \cup {"none"}, stage : Stages, sha : Shas \cup {Unset}]
  /\ ~At("idle") => op.kind \in Kinds /\ op.sha \in Shas /\ report = NoReport
  /\ ~At("idle") => Proper(op.kind, op.stage)

LEMMA InitEstablishesOperation == Init => OperationInv
BY HistoryAssumption DEF Init, OperationInv, At, Is, Idle, Stages, Kinds, Proper

LEMMA GoToKeepsOperation ==
  ASSUME OperationInv, ~At("idle"), NEW stage \in Stages, GoTo(stage),
         Proper(op.kind, stage)
  PROVE  OperationInv'
BY DEF OperationInv, GoTo, At, Is, Kinds, Stages, Proper

LEMMA EndingKeepsOperation ==
  ASSUME OperationInv, op' = Idle, UNCHANGED head PROVE OperationInv'
BY DEF OperationInv, At, Is, Kinds, Idle, Stages, Proper

LEMMA GateKeepsOperation ==
  ASSUME OperationInv, ~At("idle"), NEW stage \in Stages, GoTo(stage) \/ Ends("refused"),
         Proper(op.kind, stage)
  PROVE  OperationInv'
BY GoToKeepsOperation, EndingKeepsOperation DEF Ends

LEMMA StepKeepsOperation ==
  ASSUME OperationInv, [Next]_vars PROVE OperationInv'
<1>1. CASE UNCHANGED vars
  BY <1>1 DEF vars, controlVars, OperationInv, At, Is
<1>2. CASE Operate
  <2>1. ASSUME NEW kind \in Kinds, Dispatch(kind) PROVE OperationInv'
    BY <2>1, HistoryAssumption DEF Dispatch, OperationInv, Kinds, At, Is, Stages, Proper
  <2>2. CASE ReadState
    <3>1. ~At("idle")
      BY <2>2 DEF ReadState, At
    <3>2. PICK stage \in Stages :
            (GoTo(stage) \/ Ends("refused")) /\ Proper(op.kind, stage)
      BY <2>2 DEF ReadState, Gate, Is, Stages, Proper
    <3> QED
      BY <3>1, <3>2, GateKeepsOperation
  <2>3. CASE Build
    BY <2>3, GoToKeepsOperation DEF Build, OperationInv, At, Is, Stages, Proper
  <2>4. CASE MakePlan
    BY <2>4, GateKeepsOperation DEF MakePlan, Gate, OperationInv, At, Is, Stages, Proper
  <2>5. CASE ReviewPlan \/ ConfirmReady
    BY <2>5, EndingKeepsOperation DEF ReviewPlan, ConfirmReady, Ends
  <2>6. CASE StartApply \/ FinishApply
    BY <2>6, GoToKeepsOperation DEF StartApply, FinishApply, OperationInv, At, Is, Stages, Proper
  <2>7. CASE ApplyFails
    BY <2>7, EndingKeepsOperation DEF ApplyFails
  <2>8. CASE WorkOnApply \/ Publish
    BY <2>8 DEF WorkOnApply, Publish, controlVars, OperationInv, At, Is
  <2>9. CASE AuditAfter
    <3>1. ~At("idle")
      BY <2>9 DEF AuditAfter, At
    <3>2. PICK stage \in Stages : (GoTo(stage) \/ Ends("refused")) /\ Proper(op.kind, stage)
      BY <2>9 DEF AuditAfter, Gate, Is, Stages, Proper
    <3> QED
      BY <3>1, <3>2, GateKeepsOperation
  <2>10. CASE StageFrontend \/ FinishPublish \/ SmokeApi
    BY <2>10, GoToKeepsOperation DEF StageFrontend, FinishPublish, SmokeApi, OperationInv, At, Is, Stages, Proper
  <2>11. CASE SmokePublished \/ Scan \/ Fail
    BY <2>11, EndingKeepsOperation DEF SmokePublished, Scan, Fail, Ends
  <2> QED
    BY <1>2, <2>1, <2>2, <2>3, <2>4, <2>5, <2>6, <2>7, <2>8, <2>9, <2>10, <2>11 DEF Operate
<1>3. CASE Surroundings
  <2>1. CASE MainAdvances
    BY <2>1, HistoryAssumption DEF MainAdvances, OperationInv, At, Is
  <2>2. CASE RunnerLost \/ RunnerLostPlanning
    BY <2>2, EndingKeepsOperation DEF RunnerLost, RunnerLostPlanning
  <2>3. CASE UNCHANGED <<head, op, report>>
    BY <2>3 DEF OperationInv, At, Is
  <2> QED
    BY <1>3, <2>1, <2>2, <2>3 DEF Surroundings, controlVars
<1> QED
  BY <1>1, <1>2, <1>3 DEF Next

-----------------------------------------------------------------------------
(* The site goes through publications and nothing else. *)

LEMMA InitIsPublication == Init => FrontendInit
BY DEF Init

LEMMA StepIsPublication ==
  ASSUME OperationInv, [Next]_vars PROVE [FrontendNext]_frontendVars
<1>1. CASE UNCHANGED vars
  BY <1>1 DEF vars
<1>2. CASE Operate
  <2>1. ASSUME NEW kind \in Kinds, Dispatch(kind) PROVE UNCHANGED frontendVars
    BY <2>1 DEF Dispatch
  <2>2. CASE ReadState
    BY <2>2 DEF ReadState
  <2>3. CASE Build
    BY <2>3 DEF Build
  <2>4. CASE MakePlan
    BY <2>4 DEF MakePlan
  <2>5. CASE ReviewPlan \/ ConfirmReady
    BY <2>5 DEF ReviewPlan, ConfirmReady
  <2>6. CASE StartApply \/ FinishApply \/ ApplyFails
    BY <2>6 DEF StartApply, FinishApply, ApplyFails
  <2>7. CASE WorkOnApply
    BY <2>7 DEF WorkOnApply, SiteFollows, FrontendNext
  <2>8. CASE AuditAfter
    BY <2>8 DEF AuditAfter
  <2>9. CASE StageFrontend
    <3>1. op.sha \in Shas
      BY <2>9 DEF StageFrontend, OperationInv, At
    <3> QED
      BY <2>9, <3>1 DEF StageFrontend, FrontendNext
  <2>10. CASE Publish \/ FinishPublish
    BY <2>10 DEF Publish, FinishPublish, FrontendNext
  <2>11. CASE SmokeApi \/ SmokePublished \/ Scan
    BY <2>11 DEF SmokeApi, SmokePublished, Scan
  <2>12. CASE Fail
    BY <2>12 DEF Fail, FrontendNext
  <2> QED
    BY <1>2, <2>1, <2>2, <2>3, <2>4, <2>5, <2>6, <2>7, <2>8, <2>9, <2>10, <2>11, <2>12
       DEF Operate
<1>3. CASE Surroundings
  BY <1>3 DEF Surroundings, MainAdvances, RunnerLost, RunnerLostPlanning, FrontendNext
<1> QED
  BY <1>1, <1>2, <1>3 DEF Next

(* Seen from the site, the delivery is a sequence of publications, each     *)
(* possibly cut, and of removals: publish_frontend is its only writer.      *)
THEOREM DeliveryPublishes == Spec => FrontendSpec
<1>1. OperationInv /\ [Next]_vars => [FrontendNext]_frontendVars
  BY StepIsPublication
<1>2. OperationInv /\ [Next]_vars => OperationInv'
  BY StepKeepsOperation
<1> QED
  BY InitEstablishesOperation, InitIsPublication, <1>1, <1>2, PTL DEF Spec, FrontendSpec

(* Whatever the delivery does and wherever it is cut, a visitor who loads a *)
(* document can load what the document needs.                              *)
THEOREM DeliveredDocumentsAreWhole == Spec => []DocumentHasItsBundles
BY DeliveryPublishes, PublicationKeepsDocumentsWhole, PTL

-----------------------------------------------------------------------------
(* A teardown scans an account whose state is empty, and images go with their  *)
(* repository.                                                             *)

AccountIsWorld ==
  account = [present |-> account.present, task |-> account.task,
             service |-> account.service, desired |-> account.desired]

ImagesHaveRepository == "repository" \notin account.present => pushed = {}

EmptyingInv ==
  /\ AccountIsWorld /\ ImagesHaveRepository
  /\ At("scan") => StateIsEmpty(remote)
  /\ TeardownLeavesNothing

LEMMA InitEstablishesEmptying == Init => EmptyingInv
BY DEF Init, TargetInit, Nothing, NoReport, Idle, EmptyingInv, AccountIsWorld,
       ImagesHaveRepository, At, TeardownLeavesNothing, Reported

(* What the account and the state become without an operation in the way.   *)
LEMMA ApplyingKeepsImages ==
  ASSUME AccountIsWorld, ImagesHaveRepository, ApplyStep
  PROVE  AccountIsWorld' /\ ImagesHaveRepository'
<1> USE DEF AccountIsWorld, ImagesHaveRepository, Apply, With, Without
<1>1. CASE CreateTask
  BY <1>1 DEF CreateTask
<1>2. CASE ReplaceTask
  BY <1>2 DEF ReplaceTask
<1>3. CASE PointService
  BY <1>3 DEF PointService
<1>4. ASSUME NEW a \in {"frontend", "repository"}, CreateOther(a)
      PROVE  AccountIsWorld' /\ ImagesHaveRepository'
  BY <1>4 DEF CreateOther
<1>5. ASSUME NEW a \in Managed, Delete(a)
      PROVE  AccountIsWorld' /\ ImagesHaveRepository'
  BY <1>5 DEF Delete
<1>6. CASE WriteOutputs \/ ForgetData \/ Persist
  BY <1>6 DEF WriteOutputs, ForgetData, Persist
<1> QED
  BY <1>1, <1>2, <1>3, <1>4, <1>5, <1>6 DEF ApplyStep

(* While an operation goes on nothing is reported.                          *)
LEMMA BusyKeepsTeardown ==
  ASSUME OperationInv, ~At("idle"), UNCHANGED report PROVE TeardownLeavesNothing'
BY DEF OperationInv, NoReport, TeardownLeavesNothing, Reported

(* A step that leaves the account alone and ends nothing as a teardown.     *)
LEMMA QuietStep ==
  ASSUME EmptyingInv, UNCHANGED <<account, pushed>>,
         TeardownLeavesNothing', At("scan")' => StateIsEmpty(remote')
  PROVE  EmptyingInv'
BY DEF EmptyingInv, AccountIsWorld, ImagesHaveRepository, StateIsEmpty, ListsNothing

(* The query by tags alone shows that the account is empty.                 *)
LEMMA AnsweredMeansEmpty ==
  ASSUME \A query \in Queries : AnswersTo(query) \cap NothingLeft(query) # {}
  PROVE  account.present = {} /\ orphans = {}
<1>1. AnswersTo("tagged resources") \cap NothingLeft("tagged resources") # {}
  BY DEF Queries
<1>2. NothingLeft("tagged resources") \subseteq {"others", "empty"}
  BY DEF NothingLeft, MayOmitItsList, MayBeSilent
<1>3. ~Remains("tagged resources")
  BY <1>1, <1>2 DEF AnswersTo
<1> QED
  BY <1>3 DEF Remains

LEMMA StepKeepsEmptying ==
  ASSUME OperationInv, EmptyingInv, [Next]_vars PROVE EmptyingInv'
<1>1. CASE UNCHANGED <<account, orphans, pushed, remote, op, report>>
  BY <1>1, QuietStep DEF EmptyingInv, At, StateIsEmpty, ListsNothing, TeardownLeavesNothing, Reported
<1>2. CASE Operate
  <2>1. ASSUME NEW kind \in Kinds, Dispatch(kind) PROVE EmptyingInv'
    <3>1. TeardownLeavesNothing' /\ ~At("scan")'
      BY <2>1 DEF Dispatch, NoReport, TeardownLeavesNothing, Reported, At
    <3> QED
      BY <2>1, <3>1, QuietStep DEF Dispatch, targetVars
  <2>2. CASE ReadState
    <3>1. At("scan")' => StateIsEmpty(remote)
      BY <2>2 DEF ReadState, Gate, GoTo, Ends, Idle, At, OperationInv
    <3>2. TeardownLeavesNothing'
      BY <2>2 DEF ReadState, Gate, GoTo, Ends, OperationInv, NoReport, At, TeardownLeavesNothing, Reported
    <3> QED
      BY <2>2, <3>1, <3>2, QuietStep DEF ReadState, targetVars, StateIsEmpty, ListsNothing
  <2>3. CASE Build
    <3>1. TeardownLeavesNothing' /\ ~At("scan")'
      BY <2>3, BusyKeepsTeardown DEF Build, GoTo, At, OperationInv
    <3> QED
      BY <2>3, <3>1 DEF Build, EmptyingInv, AccountIsWorld, ImagesHaveRepository
  <2>4. CASE MakePlan
    <3>1. TeardownLeavesNothing' /\ ~At("scan")'
      BY <2>4 DEF MakePlan, Gate, GoTo, Ends, Idle, At, OperationInv, NoReport, TeardownLeavesNothing, Reported
    <3> QED
      BY <2>4, <3>1, QuietStep DEF MakePlan
  <2>5. CASE ReviewPlan \/ ConfirmReady
    <3>1. TeardownLeavesNothing' /\ ~At("scan")'
      BY <2>5 DEF ReviewPlan, ConfirmReady, Ends, Idle, At, Is, Proper, OperationInv, TeardownLeavesNothing, Reported
    <3> QED
      BY <2>5, <3>1, QuietStep DEF ReviewPlan, ConfirmReady, targetVars
  <2>6. CASE StartApply \/ FinishApply
    <3>1. TeardownLeavesNothing' /\ ~At("scan")'
      BY <2>6, BusyKeepsTeardown DEF StartApply, FinishApply, GoTo, At, OperationInv
    <3> QED
      BY <2>6, <3>1, QuietStep DEF StartApply, FinishApply, BeginApply, EndApply
  <2>7. CASE ApplyFails
    <3>1. TeardownLeavesNothing' /\ ~At("scan")'
      BY <2>7 DEF ApplyFails, Idle, At, TeardownLeavesNothing, Reported
    <3> QED
      BY <2>7, <3>1, QuietStep DEF ApplyFails, EndApply
  <2>8. CASE WorkOnApply
    <3>1. TeardownLeavesNothing' /\ ~At("scan")'
      BY <2>8, BusyKeepsTeardown DEF WorkOnApply, controlVars, At
    <3> QED
      BY <2>8, <3>1, ApplyingKeepsImages DEF WorkOnApply, EmptyingInv
  <2>9. CASE AuditAfter
    <3>1. At("scan")' => StateIsEmpty(remote)
      BY <2>9 DEF AuditAfter, Gate, GoTo, Ends, Idle, At, OperationInv
    <3>2. TeardownLeavesNothing'
      BY <2>9 DEF AuditAfter, Gate, GoTo, Ends, OperationInv, NoReport, At, TeardownLeavesNothing, Reported
    <3> QED
      BY <2>9, <3>1, <3>2, QuietStep DEF AuditAfter, targetVars, StateIsEmpty, ListsNothing
  <2>10. CASE StageFrontend \/ Publish \/ FinishPublish \/ SmokeApi
    <3>1. TeardownLeavesNothing' /\ ~At("scan")'
      BY <2>10, BusyKeepsTeardown
         DEF StageFrontend, Publish, FinishPublish, SmokeApi, GoTo, controlVars, At, OperationInv
    <3> QED
      BY <2>10, <3>1, QuietStep DEF StageFrontend, Publish, FinishPublish, SmokeApi, targetVars
  <2>11. CASE SmokePublished
    <3>1. TeardownLeavesNothing' /\ ~At("scan")'
      BY <2>11 DEF SmokePublished, Ends, Idle, At, Proper, OperationInv, TeardownLeavesNothing, Reported
    <3> QED
      BY <2>11, <3>1, QuietStep DEF SmokePublished, targetVars
  <2>12. CASE Scan
    <3>1. TeardownLeavesNothing'
      <4>1. CASE Ends("ok")
        <5>1. \A query \in Queries : AnswersTo(query) \cap NothingLeft(query) # {}
          BY <2>12, <4>1 DEF Scan, Ends
        <5>2. account.present = {} /\ orphans = {}
          BY <5>1, AnsweredMeansEmpty
        <5> QED
          BY <2>12, <4>1, <5>2 DEF Scan, Ends, EmptyingInv, ImagesHaveRepository, targetVars, At,
               StateIsEmpty, ListsNothing, TeardownLeavesNothing, Reported
      <4>2. CASE Ends("failed")
        BY <4>2 DEF Ends, TeardownLeavesNothing, Reported
      <4> QED
        BY <2>12, <4>1, <4>2 DEF Scan
    <3>2. ~At("scan")'
      BY <2>12 DEF Scan, Ends, Idle, At
    <3> QED
      BY <2>12, <3>1, <3>2, QuietStep DEF Scan, targetVars
  <2>13. CASE Fail
    <3>1. TeardownLeavesNothing' /\ ~At("scan")'
      BY <2>13 DEF Fail, Ends, Idle, At, TeardownLeavesNothing, Reported
    <3> QED
      BY <2>13, <3>1, QuietStep DEF Fail
  <2> QED
    BY <1>2, <2>1, <2>2, <2>3, <2>4, <2>5, <2>6, <2>7, <2>8, <2>9, <2>10, <2>11, <2>12, <2>13
       DEF Operate
<1>3. CASE Surroundings
  <2>1. CASE RunnerLost \/ RunnerLostPlanning
    <3>1. TeardownLeavesNothing' /\ ~At("scan")'
      <4>1. op.stage # "idle" /\ op' = Idle /\ UNCHANGED report
        BY <2>1 DEF RunnerLost, RunnerLostPlanning, At
      <4> QED
        BY <4>1, BusyKeepsTeardown DEF Idle, At
    <3> QED
      BY <2>1, <3>1, QuietStep DEF RunnerLost, RunnerLostPlanning, LoseRunner
  <2>2. CASE RollBack /\ UNCHANGED <<op, report>>
    BY <2>2 DEF RollBack, EmptyingInv, AccountIsWorld, ImagesHaveRepository, At, StateIsEmpty,
         ListsNothing, TeardownLeavesNothing, Reported
  <2>3. CASE UNCHANGED <<account, orphans, pushed, remote, op, report>>
    BY <2>3, <1>1
  <2> QED
    BY <1>3, <2>1, <2>2, <2>3
       DEF Surroundings, MainAdvances, Settle, ReleaseStaleLock, targetVars, controlVars
<1> QED
  BY <1>1, <1>2, <1>3 DEF Next, vars, targetVars, controlVars

(* A teardown that reports success left no resource, no hidden revision, no *)
(* image and an empty state, whatever was interrupted before it.           *)
THEOREM TeardownIsComplete == Spec => []TeardownLeavesNothing
<1>1. OperationInv /\ EmptyingInv /\ [Next]_vars => OperationInv' /\ EmptyingInv'
  BY StepKeepsOperation, StepKeepsEmptying
<1>2. EmptyingInv => TeardownLeavesNothing
  BY DEF EmptyingInv
<1> QED
  BY InitEstablishesOperation, InitEstablishesEmptying, <1>1, <1>2, PTL DEF Spec

-----------------------------------------------------------------------------
(* A deploy that reports success has done what it says, and only mishaps    *)
(* leave a state the gates of a teardown refuse.                            *)
(*                                                                         *)
(* Both rest on what the saved plan and the state in memory say of the      *)
(* account at each stage of an operation: a plan starts from what was read  *)
(* of the account, and each of its steps changes the account and the state  *)
(* in memory alike.                                                        *)

(* What a recorded world says of the account is so. *)
Agrees(world) ==
  /\ world.present \subseteq account.present
  /\ "task" \in world.present => account.task = world.task
  /\ "service" \in world.present => account.service = world.service

TargetTyped ==
  /\ account.present \subseteq Managed
  /\ remote.world.present \subseteq Managed /\ work.world.present \subseteq Managed
  /\ work = [exists |-> work.exists, world |-> work.world, ref |-> work.ref, given |-> work.given]
  /\ plan = [change |-> plan.change, prior |-> plan.prior,
             image |-> plan.image, desired |-> plan.desired]
  /\ plan.change \in [Managed -> Actions] /\ plan.prior.present \subseteq Managed

(* A state without a resource holds nothing else either. *)
Bare(state) == state.world.present = {} => StateIsEmpty(state)

(* What is still to be done at an address. *)
Doing(a) == plan.change[a]

(* A destroy deletes all the state still records, and aims at no output. *)
TeardownOK ==
  /\ At("plan") => remote.world.present # {} /\ Related(remote.world)
  /\ op.stage \in {"apply", "applying"} => plan.image = Unset
  /\ At("apply") =>
       /\ \A a \in Managed : Doing(a) = IF a \in plan.prior.present THEN "delete" ELSE "no-op"
       /\ Related(plan.prior)
  /\ At("applying") =>
       /\ \A a \in Managed : Doing(a) = IF a \in work.world.present THEN "delete" ELSE "no-op"
       /\ Related(work.world)
  /\ At("check") => StateIsEmpty(remote)

(* A foundation starts from nothing and creates each address once; what it  *)
(* has written of the state is part of what it has in memory.              *)
ServiceHasTask(world) ==
  "service" \in world.present => "task" \in world.present /\ world.service = world.task
PartOf(early, late) ==
  /\ early.present \subseteq late.present
  /\ "task" \in early.present => early.task = late.task
  /\ "service" \in early.present => early.service = late.service

FoundationOK ==
  /\ At("plan") => StateIsEmpty(remote)
  /\ At("apply") =>
       /\ remote.world.present = {} /\ plan.prior.present = {}
       /\ \A a \in Managed : Doing(a) = "create"
  /\ At("applying") =>
       /\ \A a \in Managed : Doing(a) = IF a \in work.world.present THEN "no-op" ELSE "create"
       /\ PartOf(remote.world, work.world)
       /\ ServiceHasTask(work.world) /\ ServiceHasTask(remote.world)

(* A deploy replaces the task and points the service to it, or finds both   *)
(* done; ECS may take the second back.                                     *)
ServiceRuns == rollbacks = 0 => account.service = account.task /\ account.desired = 1

DeployPlanned ==
  /\ plan.prior.present = Managed /\ account.present = Managed
  /\ account.task = plan.prior.task /\ plan.prior.service = plan.prior.task
  /\ plan.image = op.sha /\ plan.desired = 1
  /\ \A a \in {"frontend", "repository"} : Doing(a) = "no-op"
  /\ \/ /\ Doing("task") = "no-op" /\ Doing("service") = "no-op"
        /\ plan.prior.task.image = op.sha /\ ServiceRuns
     \/ Doing("task") = "replace" /\ Doing("service") = "update"

DeployApplying ==
  /\ account.present = work.world.present /\ account.task = work.world.task
  /\ work.world.present = IF Doing("task") = "create" THEN Managed \ {"task"} ELSE Managed
  /\ plan.image = op.sha /\ plan.desired = 1
  /\ \A a \in {"frontend", "repository"} : Doing(a) = "no-op"
  /\ \/ /\ Doing("task") \in {"replace", "create"} /\ Doing("service") = "update"
     \/ /\ Doing("task") = "no-op" /\ work.world.task.image = op.sha
        /\ Doing("service") \in {"update", "no-op"}
        /\ Doing("service") = "no-op" =>
             work.world.service = work.world.task /\ ServiceRuns

DeployApplied ==
  /\ account.present = Managed /\ account.task = remote.world.task
  /\ StateRuns(remote, op.sha) /\ ServiceRuns

DeployOK ==
  /\ At("apply") => DeployPlanned
  /\ At("applying") => DeployApplying
  /\ op.stage \in {"check", "stage", "publish", "smoke", "browse"} => DeployApplied

(* Without a mishap the state may lack what an interrupted foundation has   *)
(* created, but what it records is so, and there is a resource to destroy   *)
(* or nothing at all.                                                      *)
CalmInv ==
  calm =>
    /\ ~At("applying") => Agrees(remote.world) /\ Related(remote.world) /\ Bare(remote)
    /\ At("apply") => Agrees(plan.prior)
    /\ At("applying") => Agrees(work.world) /\ (Is("foundation") => Agrees(remote.world))

TargetInv ==
  /\ TargetTyped
  /\ Is("teardown") => TeardownOK
  /\ Is("foundation") => FoundationOK
  /\ Is("deploy") => DeployOK
  /\ CalmInv
  /\ TeardownIsRefusedOnlyAfterMishaps

(* The site. *)
Published(sha) ==
  /\ bucket.index = sha /\ bucket.root = sha
  /\ bucket.assets = Bundles[sha] /\ edge \subseteq bucket.assets

CleanedOK ==
  /\ InProgress => puts \subseteq Bundles[publishing]
                   /\ bucket.assets \subseteq Bundles[publishing] \cup deletes
  /\ step \notin {"rest", "assets"} => bucket.root = publishing
  /\ step = "wait" => deletes = {}

(* What was purged stays purged until a later commit is published.          *)
PurgedOK ==
  /\ InProgress => \E i \in DOMAIN History : publishing = History[i]
  /\ purges \in [Shas -> {"none", "InProgress", "Completed"}]
  /\ \A sha \in Shas :
       purges[sha] # "none" =>
         /\ \E i, j \in DOMAIN History :
              sha = History[i] /\ publishing = History[j] /\ i <= j
         /\ publishing = sha =>
              /\ bucket.assets \subseteq Bundles[sha]
              /\ purges[sha] = "Completed" => edge \subseteq Bundles[sha]

(* Publications follow main.                                               *)
OrderOK ==
  /\ \A i \in DOMAIN History : publishing = History[i] => i <= head
  /\ ~At("idle") =>
       \E k \in 1..head :
         op.sha = History[k] /\ \A i \in DOMAIN History : publishing = History[i] => i <= k

SiteOK ==
  /\ At("publish") => publishing = op.sha /\ InProgress
  /\ op.stage \in {"smoke", "browse"} => Published(op.sha) /\ ~InProgress

SiteInv == CleanedOK /\ PurgedOK /\ OrderOK /\ SiteOK

LEMMA InitEstablishesTarget == Init => TargetInv
<1> SUFFICES ASSUME Init PROVE TargetInv
  OBVIOUS
<1>1. TargetTyped
  BY DEF Init, TargetInit, TargetTyped, Nothing, NoState, NoPlan, Actions
<1>2. CalmInv /\ TeardownIsRefusedOnlyAfterMishaps
  BY DEF Init, TargetInit, Bare, StateIsEmpty, ListsNothing, CalmInv, Agrees, Related, At, Idle,
         Nothing, NoState, TeardownIsRefusedOnlyAfterMishaps, Reported, NoReport
<1> QED
  BY <1>1, <1>2 DEF Init, TargetInv, Is, Idle

(* An operation ends. *)
LEMMA EndKeepsTarget ==
  ASSUME op' = Idle, TargetTyped',
         calm' => Agrees(remote.world)' /\ Related(remote.world)' /\ Bare(remote)',
         TeardownIsRefusedOnlyAfterMishaps'
  PROVE  TargetInv'
BY DEF TargetInv, CalmInv, At, Is, Idle

LEMMA QuietEndKeepsTarget ==
  ASSUME TargetInv, op' = Idle, ~At("applying"),
         UNCHANGED <<account, remote, work, calm>>, plan' \in {plan, NoPlan},
         TeardownIsRefusedOnlyAfterMishaps'
  PROVE  TargetInv'
<1>1. TargetTyped'
  BY DEF TargetInv, TargetTyped, NoPlan, Nothing, Actions
<1>2. calm' => Agrees(remote.world)' /\ Related(remote.world)' /\ Bare(remote)'
  BY DEF TargetInv, CalmInv, Agrees, Related, Bare, StateIsEmpty, ListsNothing
<1> QED
  BY <1>1, <1>2, EndKeepsTarget

(* A refusal of a teardown would need a reason. *)
LEMMA BusyIsNotRefused ==
  ASSUME OperationInv, ~At("idle"), UNCHANGED report
  PROVE  TeardownIsRefusedOnlyAfterMishaps'
BY DEF OperationInv, NoReport, TeardownIsRefusedOnlyAfterMishaps, Reported

LEMMA OtherOutcomeIsNotRefused ==
  ASSUME NEW outcome, outcome # "refused", report'.outcome = outcome
  PROVE  TeardownIsRefusedOnlyAfterMishaps'
BY DEF TeardownIsRefusedOnlyAfterMishaps, Reported

(* An operation goes on without touching what it works on. *)
LEMMA AdvanceKeepsTarget ==
  ASSUME TargetInv, OperationInv, ~At("idle"), ~At("applying"),
         NEW stage \in Stages \ {"applying", "apply"}, GoTo(stage),
         UNCHANGED <<account, rollbacks, remote, work, plan>>,
         Is("teardown") =>
           /\ stage = "plan" => remote.world.present # {} /\ Related(remote.world)
           /\ stage = "check" => StateIsEmpty(remote),
         Is("foundation") /\ stage = "plan" => StateIsEmpty(remote),
         Is("deploy") /\ stage \in {"check", "stage", "publish", "smoke", "browse"} =>
           DeployApplied
  PROVE  TargetInv'
<1>1. /\ op' = [op EXCEPT !.stage = stage] /\ op'.kind = op.kind /\ op'.sha = op.sha
      /\ op'.stage = stage /\ UNCHANGED <<head, report, calm>>
  BY DEF GoTo, OperationInv
<1>2. TargetTyped'
  BY DEF TargetInv, TargetTyped
<1>3. Is("teardown")' => TeardownOK'
  BY <1>1 DEF Is, At, TeardownOK, ListsNothing, Related, StateIsEmpty
<1>4. Is("foundation")' => FoundationOK'
  BY <1>1 DEF Is, At, FoundationOK, ListsNothing, StateIsEmpty
<1>5. Is("deploy")' => DeployOK'
  BY <1>1 DEF Is, At, DeployOK, DeployApplied, StateRuns, StateIsComplete, Related, ServiceRuns
<1>6. CalmInv'
  BY <1>1 DEF TargetInv, CalmInv, At, Agrees, Related, Bare, StateIsEmpty, ListsNothing
<1>7. TeardownIsRefusedOnlyAfterMishaps'
  BY <1>1, BusyIsNotRefused
<1> QED
  BY <1>2, <1>3, <1>4, <1>5, <1>6, <1>7 DEF TargetInv

LEMMA ReadStateKeepsTarget ==
  ASSUME TargetInv, OperationInv, ReadState PROVE TargetInv'
<1>1. At("read") /\ ~At("idle") /\ ~At("applying")
      /\ UNCHANGED <<account, rollbacks, remote, work, plan>>
  BY DEF ReadState, At, targetVars
<1>2. CASE Ends("refused")
  <2>1. calm => Bare(remote) /\ Related(remote.world)
    BY <1>1 DEF TargetInv, CalmInv
  <2>2. Is("teardown") => ~calm
    BY <1>2, <2>1 DEF ReadState, Gate, GoTo, Ends, At, Is, Bare, StateIsEmpty, ListsNothing,
                      StateIsDestroyable, Idle
  <2>3. TeardownIsRefusedOnlyAfterMishaps'
    BY <1>2, <2>2 DEF Ends, Is, TeardownIsRefusedOnlyAfterMishaps, Reported
  <2> QED
    BY <1>1, <1>2, <2>3, QuietEndKeepsTarget DEF Ends
<1>3. ASSUME ~Ends("refused") PROVE TargetInv'
  <2>1. CASE Is("plan")
    <3>1. GoTo("plan")
      BY <1>3, <2>1 DEF ReadState, Gate, Is
    <3> QED
      BY <1>1, <2>1, <3>1, AdvanceKeepsTarget DEF Is, Stages
  <2>2. CASE Is("foundation")
    <3>1. PICK stage \in {"plan", "ready"} :
            GoTo(stage) /\ (stage = "plan" => StateIsEmpty(remote))
      BY <1>3, <2>2 DEF ReadState, Gate, Is
    <3> QED
      BY <1>1, <2>2, <3>1, AdvanceKeepsTarget DEF Is, Stages
  <2>3. CASE Is("deploy")
    <3>1. GoTo("build")
      BY <1>3, <2>3 DEF ReadState, Gate, Is
    <3> QED
      BY <1>1, <2>3, <3>1, AdvanceKeepsTarget DEF Is, Stages
  <2>4. CASE Is("teardown")
    <3>1. PICK stage \in {"plan", "scan"} :
            GoTo(stage) /\ (stage = "plan" => remote.world.present # {} /\ Related(remote.world))
      BY <1>3, <2>4 DEF ReadState, Gate, Is, StateIsDestroyable
    <3> QED
      BY <1>1, <2>4, <3>1, AdvanceKeepsTarget DEF Is, Stages
  <2> QED
    BY <2>1, <2>2, <2>3, <2>4 DEF ReadState
<1> QED
  BY <1>2, <1>3

(* A refresh keeps of the record what the account confirms. *)
LEMMA RefreshAgrees ==
  ASSUME NEW world
  PROVE  LET prior == Refreshed(world)
         IN  /\ prior.present \subseteq world.present
             /\ prior.present \subseteq account.present
             /\ "task" \in prior.present => prior.task = account.task /\ world.task = account.task
             /\ "service" \in prior.present =>
                  prior.service = account.service /\ prior.desired = account.desired
             /\ Agrees(prior)
             /\ Agrees(world) => prior.present = world.present
BY DEF Refreshed, Agrees

(* A destroy is refused only if the record was wrong. *)
LEMMA DestroyIsAccepted ==
  ASSUME TargetTyped, Agrees(remote.world), Related(remote.world), remote.world.present # {}
  PROVE  PlanOnlyDestroys(DestroyPlan)
<1> DEFINE prior == Refreshed(remote.world)
<1>1. prior.present = remote.world.present /\ Agrees(prior)
  BY RefreshAgrees
<1>2. Related(prior)
  BY <1>1, RefreshAgrees DEF Related, Agrees
<1>3. prior.present # {} /\ prior.present \subseteq Managed
  BY <1>1 DEF TargetTyped
<1> HIDE DEF prior
<1>4. /\ DestroyPlan.prior = prior
      /\ \A a \in Managed :
           DestroyPlan.change[a] = IF a \in prior.present THEN "delete" ELSE "no-op"
  BY DEF DestroyPlan, prior
<1> QED
  BY <1>2, <1>3, <1>4 DEF PlanOnlyDestroys

(* The plan of a deploy that is accepted finds the whole profile. *)
LEMMA AcceptedDeployIsPlanned ==
  ASSUME TargetTyped, NEW sha \in Shas, PlanSwapsTheImage(PlanFor(sha, 1), sha)
  PROVE  LET new == PlanFor(sha, 1)
         IN  /\ new.prior.present = Managed /\ account.present = Managed
             /\ account.task = new.prior.task /\ new.prior.service = new.prior.task
             /\ new.image = sha /\ new.desired = 1
             /\ \A a \in {"frontend", "repository"} : new.change[a] = "no-op"
             /\ \/ /\ new.change["task"] = "no-op" /\ new.change["service"] = "no-op"
                   /\ new.prior.task.image = sha /\ ServiceRuns
                \/ new.change["task"] = "replace" /\ new.change["service"] = "update"
<1> DEFINE new == PlanFor(sha, 1)
           prior == Refreshed(remote.world)
<1>1. /\ new.prior = prior /\ new.image = sha /\ new.desired = 1
      /\ \A a \in Managed : new.change[a] = ChangeFor(prior, sha, 1, a)
  BY DEF PlanFor
<1>2. /\ prior.present \subseteq account.present
      /\ "task" \in prior.present => prior.task = account.task
      /\ "service" \in prior.present =>
           prior.service = account.service /\ prior.desired = account.desired
  BY RefreshAgrees
<1> HIDE DEF new, prior
<1>3. PlanSwapsTheImage(new, sha)
  BY DEF new
<1>4. \A a \in Managed : new.change[a] # "create"
  BY <1>3 DEF PlanSwapsTheImage, Idempotent, Managed
<1>5. \A a \in Managed : a \in prior.present
  BY <1>1, <1>4 DEF ChangeFor
<1>6. Managed \subseteq account.present /\ account.present \subseteq Managed
  BY <1>2, <1>5 DEF TargetTyped
<1>7. account.present = Managed
  BY <1>6
<1>8. prior.present = Managed
  BY <1>2, <1>5, <1>6
<1>9. prior.service = prior.task
  BY <1>1, <1>3 DEF PlanSwapsTheImage
<1>10. CASE Idempotent(new)
  <2>1. \A a \in Managed : new.change[a] = "no-op"
    BY <1>10 DEF Idempotent
  <2>2. ChangeFor(prior, sha, 1, "service") = "no-op" /\ ChangeFor(prior, sha, 1, "task") = "no-op"
    BY <1>1, <2>1 DEF Managed
  <2>3. prior.desired = 1 /\ prior.task.image = sha
    BY <1>5, <1>8, <2>2 DEF ChangeFor, Managed
  <2>4. ServiceRuns
    BY <1>2, <1>8, <1>9, <2>3 DEF ServiceRuns, Managed
  <2>5. "frontend" \in Managed /\ "repository" \in Managed /\ "task" \in Managed
        /\ "service" \in Managed
    BY DEF Managed
  <2> QED
    BY <1>1, <1>2, <1>7, <1>8, <1>9, <2>1, <2>3, <2>4, <2>5 DEF new
<1>11. CASE ~Idempotent(new)
  <2>1. new.change = [a \in Managed |-> CASE a = "task" -> "replace"
                                          [] a = "service" -> "update"
                                          [] OTHER -> "no-op"]
    BY <1>3, <1>11 DEF PlanSwapsTheImage
  <2>2. /\ new.change["task"] = "replace" /\ new.change["service"] = "update"
        /\ new.change["frontend"] = "no-op" /\ new.change["repository"] = "no-op"
    BY <2>1 DEF Managed
  <2>3. "task" \in prior.present
    BY <1>8 DEF Managed
  <2> QED
    BY <1>1, <1>2, <1>7, <1>8, <1>9, <2>2, <2>3 DEF new
<1> QED
  BY <1>10, <1>11

LEMMA MakePlanKeepsTarget ==
  ASSUME TargetInv, OperationInv, MakePlan PROVE TargetInv'
<1> DEFINE new == IF Is("teardown") THEN DestroyPlan ELSE PlanFor(Aim[1], Aim[2])
<1>1. /\ At("plan") /\ ~At("idle") /\ ~At("applying") /\ op.kind \in Kinds \ {"plan"}
      /\ op.sha \in Shas
      /\ UNCHANGED <<account, rollbacks, remote, work>>
  BY DEF MakePlan, At, Is, OperationInv
<1>2. CASE ~Accepts(new)
  <2>1. plan' = plan /\ Ends("refused")
    BY <1>2 DEF MakePlan, Gate
  <2>2. Is("teardown") => ~calm
    <3>1. SUFFICES ASSUME Is("teardown"), calm PROVE FALSE
      OBVIOUS
    <3>2. /\ remote.world.present # {} /\ Related(remote.world)
          /\ Agrees(remote.world) /\ TargetTyped
      BY <1>1, <3>1 DEF TargetInv, TeardownOK, CalmInv, At
    <3> QED
      BY <1>2, <3>1, <3>2, DestroyIsAccepted DEF Accepts, Is
  <2>3. TeardownIsRefusedOnlyAfterMishaps'
    BY <2>1, <2>2 DEF Ends, Is, TeardownIsRefusedOnlyAfterMishaps, Reported
  <2> QED
    BY <1>1, <2>1, <2>3, QuietEndKeepsTarget DEF Ends
<1>3. CASE Accepts(new)
  <2>1. plan' = new /\ GoTo("apply")
    BY <1>3 DEF MakePlan, Gate
  <2>2. /\ op'.kind = op.kind /\ op'.sha = op.sha /\ op'.stage = "apply"
        /\ UNCHANGED <<head, report, calm>>
    BY <2>1 DEF GoTo, OperationInv
  <2>3. /\ new.prior = Refreshed(remote.world)
        /\ new = [change |-> new.change, prior |-> new.prior,
                  image |-> new.image, desired |-> new.desired]
        /\ new.change \in [Managed -> Actions]
    <3>1. \A image, desired, a : ChangeFor(Refreshed(remote.world), image, desired, a) \in Actions
      BY DEF ChangeFor, Actions
    <3> QED
      BY <3>1 DEF DestroyPlan, PlanFor, Actions
  <2>4. TargetTyped'
    <3>1. new.prior.present \subseteq Managed
      BY <2>3, RefreshAgrees DEF TargetInv, TargetTyped
    <3> HIDE DEF new
    <3> QED
      BY <1>1, <2>1, <2>3, <3>1 DEF TargetInv, TargetTyped
  <2>5. Is("teardown")' => TeardownOK'
    <3> SUFFICES ASSUME Is("teardown") PROVE TeardownOK'
      BY <2>2 DEF Is
    <3>1. plan' = DestroyPlan /\ PlanOnlyDestroys(DestroyPlan)
      BY <1>3, <2>1 DEF Accepts, Is
    <3>2. Related(plan'.prior)
      BY <3>1 DEF PlanOnlyDestroys
    <3>3. \A a \in Managed :
            plan'.change[a] = IF a \in plan'.prior.present THEN "delete" ELSE "no-op"
      BY <3>1 DEF DestroyPlan
    <3>4. plan'.image = Unset
      BY <3>1 DEF DestroyPlan
    <3> QED
      BY <2>2, <3>2, <3>3, <3>4 DEF TeardownOK, At, Doing, Related
  <2>6. Is("foundation")' => FoundationOK'
    <3> SUFFICES ASSUME Is("foundation") PROVE FoundationOK'
      BY <2>2 DEF Is
    <3>1. StateIsEmpty(remote) /\ \A a \in Managed : new.change[a] = "create"
      BY <1>1, <1>3 DEF TargetInv, FoundationOK, At, Accepts, Is, PlanCreatesEverything
    <3>2. new.prior.present = {}
      BY <2>3, <3>1, RefreshAgrees DEF StateIsEmpty, ListsNothing
    <3> QED
      BY <1>1, <2>1, <2>2, <3>1, <3>2 DEF FoundationOK, At, Doing, StateIsEmpty, ListsNothing
  <2>7. Is("deploy")' => DeployOK'
    <3> SUFFICES ASSUME Is("deploy") PROVE DeployOK'
      BY <2>2 DEF Is
    <3>1. new = PlanFor(op.sha, 1) /\ PlanSwapsTheImage(PlanFor(op.sha, 1), op.sha)
      BY <1>3 DEF Accepts, Is, Aim
    <3> HIDE DEF new
    <3>2. DeployPlanned'
      BY <1>1, <2>1, <2>2, <3>1, AcceptedDeployIsPlanned
         DEF TargetInv, DeployPlanned, Doing, ServiceRuns
    <3> QED
      BY <2>2, <3>2 DEF DeployOK, At
  <2>8. CalmInv'
    <3>1. Agrees(new.prior)
      BY <2>3, RefreshAgrees
    <3> HIDE DEF new
    <3> QED
      BY <1>1, <2>1, <2>2, <3>1 DEF TargetInv, CalmInv, At, Agrees, Related, Bare,
                                      StateIsEmpty, ListsNothing
  <2>9. TeardownIsRefusedOnlyAfterMishaps'
    BY <1>1, <2>2, BusyIsNotRefused
  <2> QED
    BY <2>4, <2>5, <2>6, <2>7, <2>8, <2>9 DEF TargetInv
<1> QED
  BY <1>2, <1>3

LEMMA StartApplyKeepsTarget ==
  ASSUME TargetInv, OperationInv, StartApply PROVE TargetInv'
<1>1. /\ At("apply") /\ ~At("idle") /\ GoTo("applying")
      /\ work' = [exists |-> TRUE, world |-> plan.prior, ref |-> remote.ref,
                  given |-> remote.given \cup {"data sources"}]
      /\ UNCHANGED <<account, rollbacks, remote, plan>>
  BY DEF StartApply, BeginApply, At
<1>2. /\ op'.kind = op.kind /\ op'.sha = op.sha /\ op'.stage = "applying"
      /\ UNCHANGED <<head, report, calm>>
  BY <1>1 DEF GoTo, OperationInv
<1>3. work'.world = plan.prior
  BY <1>1
<1>4. plan.prior.present \subseteq Managed
  BY <1>1 DEF TargetInv, TargetTyped
<1>5. TargetTyped'
  BY <1>1, <1>4 DEF TargetInv, TargetTyped
<1>6. Is("teardown")' => TeardownOK'
  BY <1>1, <1>2, <1>3 DEF TargetInv, TeardownOK, At, Is, Doing, Related
<1>7. Is("foundation")' => FoundationOK'
  BY <1>1, <1>2, <1>3
     DEF TargetInv, FoundationOK, At, Is, Doing, PartOf, ServiceHasTask
<1>8. Is("deploy")' => DeployOK'
  <2> SUFFICES ASSUME Is("deploy") PROVE DeployApplying'
    BY <1>2 DEF DeployOK, At, Is
  <2>1. DeployPlanned
    BY <1>1 DEF TargetInv, DeployOK
  <2> QED
    BY <1>1, <1>2, <1>3, <2>1 DEF DeployPlanned, DeployApplying, Doing, ServiceRuns
<1>9. CalmInv'
  BY <1>1, <1>2, <1>3 DEF TargetInv, CalmInv, At, Is, Agrees
<1>10. TeardownIsRefusedOnlyAfterMishaps'
  BY <1>1, <1>2, BusyIsNotRefused
<1> QED
  BY <1>5, <1>6, <1>7, <1>8, <1>9, <1>10 DEF TargetInv

(* What a step of Terraform leaves and what it changes. *)
LEMMA BecameChanges ==
  ASSUME TargetTyped, NEW a \in Managed, NEW then \in Actions, plan' = Became(a, then)
  PROVE  /\ plan'.image = plan.image /\ plan'.desired = plan.desired
         /\ plan'.prior = plan.prior
         /\ plan'.change = [plan.change EXCEPT ![a] = then]
         /\ Doing(a)' = then
         /\ \A b \in Managed \ {a} : Doing(b)' = Doing(b)
         /\ plan' = [change |-> plan'.change, prior |-> plan'.prior,
                     image |-> plan'.image, desired |-> plan'.desired]
         /\ plan'.change \in [Managed -> Actions]
<1>1. plan' = [change |-> [plan.change EXCEPT ![a] = then], prior |-> plan.prior,
               image |-> plan.image, desired |-> plan.desired]
  BY DEF Became, TargetTyped
<1>2. plan'.change = [plan.change EXCEPT ![a] = then]
  BY <1>1
<1>3. plan.change \in [Managed -> Actions]
  BY DEF TargetTyped
<1>4. plan'.change \in [Managed -> Actions] /\ plan'.change[a] = then
      /\ \A b \in Managed \ {a} : plan'.change[b] = plan.change[b]
  BY <1>2, <1>3
<1> QED
  BY <1>1, <1>2, <1>4 DEF Doing

LEMMA WorkChanges ==
  ASSUME TargetTyped, NEW world, work' = [work EXCEPT !.world = world]
  PROVE  /\ work'.world = world
         /\ work' = [exists |-> work'.exists, world |-> work'.world, ref |-> work'.ref,
                     given |-> work'.given]
BY DEF TargetTyped

(* What is written of outputs and data sources leaves the resources alone. *)
LEMMA RewrittenWork ==
  ASSUME TargetTyped, WriteOutputs \/ ForgetData
  PROVE  /\ work'.world = work.world
         /\ work' = [exists |-> work'.exists, world |-> work'.world, ref |-> work'.ref,
                     given |-> work'.given]
         /\ UNCHANGED <<account, rollbacks, remote, plan>>
BY DEF TargetTyped, WriteOutputs, ForgetData

(* The fields of a world with, or without, an address. *)
LEMMA WithAndWithout ==
  ASSUME NEW world, NEW a, NEW revision
  PROVE  /\ With(world, a, revision).present = world.present \cup {a}
         /\ With(world, a, revision).task = IF a = "task" THEN revision ELSE world.task
         /\ With(world, a, revision).service = IF a = "service" THEN revision ELSE world.service
         /\ With(world, a, revision).desired = IF a = "service" THEN plan.desired ELSE world.desired
         /\ Without(world, a).present = world.present \ {a}
         /\ Without(world, a).task = IF a = "task" THEN NoRevision ELSE world.task
         /\ Without(world, a).service = IF a = "service" THEN NoRevision ELSE world.service
         /\ Without(world, a).desired = IF a = "service" THEN 0 ELSE world.desired
BY DEF With, Without

(* Creating or updating an address keeps what the account and the state in   *)
(* memory say alike.                                                       *)
Added(a, revision) ==
  /\ account' = With(account, a, revision)
  /\ work' = [work EXCEPT !.world = With(@, a, revision)]
  /\ plan' = Became(a, "no-op")
  /\ UNCHANGED <<rollbacks, remote>>

LEMMA AddedFields ==
  ASSUME TargetTyped, NEW a \in Managed, NEW revision, Added(a, revision)
  PROVE  /\ TargetTyped'
         /\ plan'.image = plan.image /\ plan'.desired = plan.desired
         /\ Doing(a)' = "no-op" /\ \A b \in Managed \ {a} : Doing(b)' = Doing(b)
         /\ work'.world.present = work.world.present \cup {a}
         /\ account'.present = account.present \cup {a}
         /\ work'.world.task = IF a = "task" THEN revision ELSE work.world.task
         /\ account'.task = IF a = "task" THEN revision ELSE account.task
         /\ work'.world.service = IF a = "service" THEN revision ELSE work.world.service
         /\ account'.service = IF a = "service" THEN revision ELSE account.service
         /\ account'.desired = IF a = "service" THEN plan.desired ELSE account.desired
         /\ UNCHANGED <<rollbacks, remote>>
<1>1. plan' = Became(a, "no-op") /\ "no-op" \in Actions
  BY DEF Added, Actions
<1>2. work' = [work EXCEPT !.world = With(work.world, a, revision)]
  BY DEF Added, TargetTyped
<1>3. work'.world = With(work.world, a, revision)
      /\ work' = [exists |-> work'.exists, world |-> work'.world, ref |-> work'.ref,
                  given |-> work'.given]
  BY <1>2, WorkChanges
<1>4. account' = With(account, a, revision) /\ UNCHANGED <<rollbacks, remote>>
  BY DEF Added
<1>5. /\ plan'.image = plan.image /\ plan'.desired = plan.desired /\ plan'.prior = plan.prior
      /\ Doing(a)' = "no-op" /\ \A b \in Managed \ {a} : Doing(b)' = Doing(b)
      /\ plan' = [change |-> plan'.change, prior |-> plan'.prior,
                  image |-> plan'.image, desired |-> plan'.desired]
      /\ plan'.change \in [Managed -> Actions]
  BY <1>1, BecameChanges
<1>6. /\ work'.world.present = work.world.present \cup {a}
      /\ account'.present = account.present \cup {a}
      /\ work'.world.task = IF a = "task" THEN revision ELSE work.world.task
      /\ account'.task = IF a = "task" THEN revision ELSE account.task
      /\ work'.world.service = IF a = "service" THEN revision ELSE work.world.service
      /\ account'.service = IF a = "service" THEN revision ELSE account.service
      /\ account'.desired = IF a = "service" THEN plan.desired ELSE account.desired
  BY <1>3, <1>4, WithAndWithout
<1>7. TargetTyped'
  BY <1>3, <1>4, <1>5, <1>6 DEF TargetTyped
<1> QED
  BY <1>3, <1>4, <1>5, <1>6, <1>7

LEMMA CreateTaskAdds ==
  ASSUME CreateTask
  PROVE  \E n : Added("task", Revision(n, plan.image)) /\ Doing("task") = "create"
BY DEF CreateTask, Apply, Added, Doing

LEMMA PointServiceAdds ==
  ASSUME PointService
  PROVE  /\ Added("service", work.world.task)
         /\ Doing("service") \in {"create", "update"}
         /\ Doing("service") = "create" => "service" \notin account.present
         /\ Doing("task") = "no-op" /\ "task" \in work.world.present
BY DEF PointService, Apply, Added, Doing, Ready, Pending, Needs, Managed, NameIsFree

LEMMA CreateOtherAdds ==
  ASSUME NEW a \in {"frontend", "repository"}, CreateOther(a)
  PROVE  Added(a, NoRevision) /\ Doing(a) = "create" /\ a \notin account.present
BY DEF CreateOther, Apply, Added, Doing, NameIsFree

(* A step of Terraform keeps what its kind of operation says.               *)
Applying(kind) == At("applying") /\ Is(kind) /\ UNCHANGED controlVars

LEMMA AppliedStepKeepsTarget ==
  ASSUME TargetInv, OperationInv, NEW kind \in Kinds, Applying(kind),
         TargetTyped', kind = "teardown" => TeardownOK', kind = "foundation" => FoundationOK',
         kind = "deploy" => DeployOK',
         calm => Agrees(work.world)' /\ (kind = "foundation" => Agrees(remote.world)')
  PROVE  TargetInv'
<1>1. At("applying") /\ op.kind = kind /\ UNCHANGED <<head, op, report, calm>>
  BY DEF Applying, controlVars, Is
<1>2. CalmInv'
  BY <1>1 DEF CalmInv, At, Is
<1>3. TeardownIsRefusedOnlyAfterMishaps'
  BY <1>1, BusyIsNotRefused DEF At
<1> QED
  BY <1>1, <1>2, <1>3 DEF TargetInv, Is

LEMMA FoundationAdds ==
  ASSUME TargetInv, OperationInv, Applying("foundation"), NEW a \in Managed, NEW revision,
         Added(a, revision), Doing(a) = "create",
         a = "service" => revision = work.world.task /\ "task" \in work.world.present
  PROVE  TargetInv'
<1>1. At("applying") /\ op'.stage = "applying" /\ Is("foundation") /\ "foundation" \in Kinds
  BY DEF Applying, controlVars, At, Kinds
<1>2. FoundationOK /\ TargetTyped
  BY <1>1 DEF TargetInv
<1>3. /\ \A b \in Managed : Doing(b) = IF b \in work.world.present THEN "no-op" ELSE "create"
      /\ PartOf(remote.world, work.world)
      /\ ServiceHasTask(work.world) /\ ServiceHasTask(remote.world)
  BY <1>1, <1>2 DEF FoundationOK
<1>4. a \notin work.world.present /\ a \notin remote.world.present
  BY <1>3 DEF PartOf
<1>5. /\ TargetTyped'
      /\ Doing(a)' = "no-op" /\ \A b \in Managed \ {a} : Doing(b)' = Doing(b)
      /\ work'.world.present = work.world.present \cup {a}
      /\ account'.present = account.present \cup {a}
      /\ work'.world.task = IF a = "task" THEN revision ELSE work.world.task
      /\ account'.task = IF a = "task" THEN revision ELSE account.task
      /\ work'.world.service = IF a = "service" THEN revision ELSE work.world.service
      /\ account'.service = IF a = "service" THEN revision ELSE account.service
      /\ UNCHANGED remote
  BY <1>2, AddedFields
<1>6. FoundationOK'
  <2>1. \A b \in Managed :
          Doing(b)' = IF b \in work'.world.present THEN "no-op" ELSE "create"
    BY <1>3, <1>5
  <2>2. ServiceHasTask(work.world)'
    BY <1>3, <1>4, <1>5 DEF ServiceHasTask
  <2>3. PartOf(remote.world, work.world)' /\ ServiceHasTask(remote.world)'
    BY <1>3, <1>4, <1>5 DEF PartOf, ServiceHasTask
  <2> QED
    BY <1>1, <2>1, <2>2, <2>3 DEF FoundationOK, At
<1>7. ASSUME calm PROVE Agrees(work.world)' /\ Agrees(remote.world)'
  <2>1. Agrees(work.world) /\ Agrees(remote.world)
    BY <1>1, <1>7 DEF TargetInv, CalmInv
  <2> QED
    BY <1>4, <1>5, <2>1 DEF Agrees
<1> QED
  BY <1>1, <1>5, <1>6, <1>7, AppliedStepKeepsTarget

LEMMA FoundationStep ==
  ASSUME TargetInv, OperationInv, Applying("foundation"), ApplyStep PROVE TargetInv'
<1>1. At("applying") /\ op'.stage = "applying" /\ Is("foundation") /\ "foundation" \in Kinds
  BY DEF Applying, controlVars, At, Kinds
<1>2. FoundationOK /\ TargetTyped
  BY <1>1 DEF TargetInv
<1>3. \A b \in Managed : Doing(b) \in {"no-op", "create"}
  BY <1>1, <1>2 DEF FoundationOK
<1>4. CASE CreateTask
  <2>1. PICK n : Added("task", Revision(n, plan.image)) /\ Doing("task") = "create"
    BY <1>4, CreateTaskAdds
  <2> QED
    BY <2>1, FoundationAdds DEF Managed
<1>5. CASE ReplaceTask
  BY <1>3, <1>5 DEF ReplaceTask, Doing, Managed
<1>6. CASE PointService
  <2>1. /\ Added("service", work.world.task) /\ "task" \in work.world.present
        /\ Doing("service") \in {"create", "update"}
    BY <1>6, PointServiceAdds
  <2>2. "service" \in Managed
    BY DEF Managed
  <2>3. Doing("service") = "create"
    BY <1>3, <2>1, <2>2
  <2> QED
    BY <2>1, <2>2, <2>3, FoundationAdds
<1>7. ASSUME NEW a \in {"frontend", "repository"}, CreateOther(a) PROVE TargetInv'
  BY <1>7, CreateOtherAdds, FoundationAdds DEF Managed
<1>8. ASSUME NEW a \in Managed, Delete(a) PROVE TargetInv'
  BY <1>3, <1>8 DEF Delete, Doing
<1>9. CASE WriteOutputs \/ ForgetData
  <2>1. /\ work'.world = work.world
        /\ work' = [exists |-> work'.exists, world |-> work'.world, ref |-> work'.ref,
                    given |-> work'.given]
        /\ UNCHANGED <<account, rollbacks, remote, plan>>
    BY <1>2, <1>9, RewrittenWork
  <2>2. TargetTyped'
    BY <1>2, <2>1 DEF TargetTyped
  <2>3. FoundationOK'
    BY <1>1, <1>2, <2>1 DEF FoundationOK, At, Doing, PartOf, ServiceHasTask
  <2>4. calm => Agrees(work.world)' /\ Agrees(remote.world)'
    BY <1>1, <2>1 DEF TargetInv, CalmInv, Agrees
  <2> QED
    BY <1>1, <2>2, <2>3, <2>4, AppliedStepKeepsTarget
<1>10. CASE Persist
  <2>1. remote' = work /\ UNCHANGED <<account, rollbacks, work, plan>>
    BY <1>10 DEF Persist
  <2>2. TargetTyped'
    BY <1>2, <2>1 DEF TargetTyped
  <2>3. FoundationOK'
    BY <1>1, <1>2, <2>1 DEF FoundationOK, At, Doing, PartOf, ServiceHasTask
  <2>4. calm => Agrees(work.world)' /\ Agrees(remote.world)'
    BY <1>1, <2>1 DEF TargetInv, CalmInv, Agrees
  <2> QED
    BY <1>1, <2>2, <2>3, <2>4, AppliedStepKeepsTarget
<1> QED
  BY <1>4, <1>5, <1>6, <1>7, <1>8, <1>9, <1>10 DEF ApplyStep

LEMMA DeployStep ==
  ASSUME TargetInv, OperationInv, Applying("deploy"), ApplyStep PROVE TargetInv'
<1>1. /\ At("applying") /\ op' = op /\ op.stage = "applying" /\ Is("deploy")
      /\ "deploy" \in Kinds
  BY DEF Applying, controlVars, At, Kinds
<1>2. DeployApplying /\ TargetTyped
  BY <1>1 DEF TargetInv, DeployOK
<1>3. \A b \in Managed : Doing(b) \in {"no-op", "replace", "create", "update"}
  BY <1>2 DEF DeployApplying, Managed
<1>4. ASSUME NEW a \in {"task", "service"}, NEW revision, Added(a, revision),
             a = "task" => Doing("task") = "create" /\ revision.image = plan.image,
             a = "service" => revision = work.world.task /\ Doing("task") = "no-op"
      PROVE  TargetInv'
  <2>1. /\ TargetTyped' /\ a \in Managed
        /\ plan'.image = plan.image /\ plan'.desired = plan.desired
        /\ Doing(a)' = "no-op" /\ \A b \in Managed \ {a} : Doing(b)' = Doing(b)
        /\ work'.world.present = work.world.present \cup {a}
        /\ account'.present = account.present \cup {a}
        /\ work'.world.task = IF a = "task" THEN revision ELSE work.world.task
        /\ account'.task = IF a = "task" THEN revision ELSE account.task
        /\ work'.world.service = IF a = "service" THEN revision ELSE work.world.service
        /\ account'.service = IF a = "service" THEN revision ELSE account.service
        /\ account'.desired = IF a = "service" THEN plan.desired ELSE account.desired
        /\ UNCHANGED <<rollbacks, remote>>
    BY <1>2, <1>4, AddedFields DEF Managed
  <2>2. DeployApplying'
    BY <1>1, <1>2, <1>4, <2>1 DEF DeployApplying, ServiceRuns, Managed
  <2>3. calm => Agrees(work.world)'
    BY <1>1, <2>1 DEF TargetInv, CalmInv, Agrees
  <2>4. DeployOK'
    BY <1>1, <2>2 DEF DeployOK, At
  <2> QED
    BY <1>1, <2>1, <2>3, <2>4, AppliedStepKeepsTarget
<1>5. CASE CreateTask
  <2>1. PICK n : Added("task", Revision(n, plan.image)) /\ Doing("task") = "create"
    BY <1>5, CreateTaskAdds
  <2>2. Revision(n, plan.image).image = plan.image
    BY DEF Revision
  <2> QED
    BY <1>4, <2>1, <2>2
<1>6. CASE ReplaceTask
  <2>1. /\ Doing("task") = "replace" /\ plan' = Became("task", "create")
        /\ account' = Without(account, "task")
        /\ work' = [work EXCEPT !.world = Without(work.world, "task")]
        /\ UNCHANGED <<rollbacks, remote>> /\ "task" \in Managed /\ "create" \in Actions
    BY <1>2, <1>6 DEF ReplaceTask, Apply, Doing, Managed, Actions, TargetTyped
  <2>2. /\ work'.world = Without(work.world, "task")
        /\ work' = [exists |-> work'.exists, world |-> work'.world, ref |-> work'.ref,
                    given |-> work'.given]
    BY <1>2, <2>1, WorkChanges
  <2>3. /\ work'.world.present = work.world.present \ {"task"}
        /\ account'.present = account.present \ {"task"}
        /\ work'.world.task = NoRevision /\ account'.task = NoRevision
        /\ work'.world.service = work.world.service /\ account'.service = account.service
    BY <2>1, <2>2, WithAndWithout
  <2>4. /\ plan'.image = plan.image /\ plan'.desired = plan.desired /\ plan'.prior = plan.prior
        /\ Doing("task")' = "create" /\ \A b \in Managed \ {"task"} : Doing(b)' = Doing(b)
        /\ plan' = [change |-> plan'.change, prior |-> plan'.prior,
                    image |-> plan'.image, desired |-> plan'.desired]
        /\ plan'.change \in [Managed -> Actions]
    BY <1>2, <2>1, BecameChanges
  <2>5. TargetTyped'
    BY <1>2, <2>1, <2>2, <2>3, <2>4 DEF TargetTyped
  <2>6. DeployApplying'
    BY <1>1, <1>2, <2>1, <2>3, <2>4 DEF DeployApplying, Managed
  <2>7. calm => Agrees(work.world)'
    BY <1>1, <2>3 DEF TargetInv, CalmInv, Agrees
  <2>8. DeployOK'
    BY <1>1, <2>6 DEF DeployOK, At
  <2> QED
    BY <1>1, <2>5, <2>7, <2>8, AppliedStepKeepsTarget
<1>7. CASE PointService
  BY <1>4, <1>7, PointServiceAdds
<1>8. ASSUME NEW a \in {"frontend", "repository"}, CreateOther(a) PROVE TargetInv'
  BY <1>2, <1>8, CreateOtherAdds DEF DeployApplying
<1>9. ASSUME NEW a \in Managed, Delete(a) PROVE TargetInv'
  BY <1>3, <1>9 DEF Delete, Doing
<1>10. CASE WriteOutputs \/ ForgetData \/ Persist
  <2>1. /\ work'.world = work.world
        /\ work' = [exists |-> work'.exists, world |-> work'.world, ref |-> work'.ref,
                    given |-> work'.given]
        /\ remote' \in {remote, work}
        /\ UNCHANGED <<account, rollbacks, plan>>
    BY <1>2, <1>10, RewrittenWork DEF Persist, TargetTyped
  <2>2. TargetTyped'
    BY <1>2, <2>1 DEF TargetTyped
  <2>3. DeployApplying'
    BY <1>1, <1>2, <2>1 DEF DeployApplying, Doing, ServiceRuns
  <2>4. calm => Agrees(work.world)'
    BY <1>1, <2>1 DEF TargetInv, CalmInv, Agrees
  <2>5. DeployOK'
    BY <1>1, <2>3 DEF DeployOK, At
  <2> QED
    BY <1>1, <2>2, <2>4, <2>5, AppliedStepKeepsTarget
<1> QED
  BY <1>5, <1>6, <1>7, <1>8, <1>9, <1>10 DEF ApplyStep

LEMMA TeardownStep ==
  ASSUME TargetInv, OperationInv, Applying("teardown"), ApplyStep PROVE TargetInv'
<1>1. /\ At("applying") /\ op' = op /\ op.stage = "applying" /\ Is("teardown")
      /\ "teardown" \in Kinds
  BY DEF Applying, controlVars, At, Kinds
<1>2. TeardownOK /\ TargetTyped
  BY <1>1 DEF TargetInv
<1>3. /\ \A b \in Managed : Doing(b) = IF b \in work.world.present THEN "delete" ELSE "no-op"
      /\ Related(work.world)
  BY <1>1, <1>2 DEF TeardownOK
<1>4. "task" \in Managed /\ "service" \in Managed /\ "repository" \in Managed
      /\ "frontend" \in Managed
  BY DEF Managed
<1>5. ASSUME NEW a \in Managed, Delete(a) PROVE TargetInv'
  <2>1. /\ Doing(a) = "delete" /\ plan' = Became(a, "no-op") /\ "no-op" \in Actions
        /\ account' = Without(account, a)
        /\ work' = [work EXCEPT !.world = Without(@, a)]
        /\ UNCHANGED remote
    BY <1>5 DEF Delete, Doing, Actions
  <2>2. /\ work'.world = Without(work.world, a)
        /\ work' = [exists |-> work'.exists, world |-> work'.world, ref |-> work'.ref,
                    given |-> work'.given]
    BY <1>2, <2>1 DEF TargetTyped
  <2>3. /\ work'.world.present = work.world.present \ {a}
        /\ account'.present = account.present \ {a}
        /\ work'.world.task = IF a = "task" THEN NoRevision ELSE work.world.task
        /\ account'.task = IF a = "task" THEN NoRevision ELSE account.task
        /\ work'.world.service = IF a = "service" THEN NoRevision ELSE work.world.service
        /\ account'.service = IF a = "service" THEN NoRevision ELSE account.service
    BY <2>1, <2>2 DEF Without
  <2>4. /\ Doing(a)' = "no-op" /\ \A b \in Managed \ {a} : Doing(b)' = Doing(b)
        /\ plan'.prior = plan.prior /\ plan'.image = plan.image
        /\ plan' = [change |-> plan'.change, prior |-> plan'.prior,
                    image |-> plan'.image, desired |-> plan'.desired]
        /\ plan'.change \in [Managed -> Actions]
    BY <1>2, <2>1, BecameChanges
  <2>5. TargetTyped'
    BY <1>2, <2>1, <2>2, <2>3, <2>4 DEF TargetTyped
  <2>6. TeardownOK'
    <3>1. \A b \in Managed :
            Doing(b)' = IF b \in work'.world.present THEN "delete" ELSE "no-op"
      BY <1>3, <2>3, <2>4
    <3>2. Related(work.world)'
      BY <1>3, <2>3 DEF Related
    <3>3. plan'.image = Unset
      BY <1>1, <1>2, <2>4 DEF TeardownOK
    <3> QED
      BY <1>1, <3>1, <3>2, <3>3 DEF TeardownOK, At
  <2>7. calm => Agrees(work.world)'
    BY <1>1, <2>3 DEF TargetInv, CalmInv, Agrees
  <2> QED
    BY <1>1, <2>5, <2>6, <2>7, AppliedStepKeepsTarget
<1>6. CASE CreateTask \/ ReplaceTask \/ PointService
  BY <1>3, <1>4, <1>6 DEF CreateTask, ReplaceTask, PointService, Doing
<1>7. ASSUME NEW a \in {"frontend", "repository"}, CreateOther(a) PROVE TargetInv'
  BY <1>3, <1>4, <1>7 DEF CreateOther, Doing
<1>8. CASE WriteOutputs \/ ForgetData
  <2>1. /\ work'.world = work.world
        /\ work' = [exists |-> work'.exists, world |-> work'.world, ref |-> work'.ref,
                    given |-> work'.given]
        /\ UNCHANGED <<account, rollbacks, remote, plan>>
    BY <1>2, <1>8, RewrittenWork
  <2>2. TargetTyped' /\ TeardownOK'
    BY <1>1, <1>2, <2>1 DEF TargetTyped, TeardownOK, At, Doing, Related
  <2>3. calm => Agrees(work.world)'
    BY <1>1, <2>1 DEF TargetInv, CalmInv, Agrees
  <2> QED
    BY <1>1, <2>2, <2>3, AppliedStepKeepsTarget
<1>9. CASE Persist
  <2>1. remote' = work /\ UNCHANGED <<account, rollbacks, work, plan>>
    BY <1>9 DEF Persist
  <2>2. TargetTyped' /\ TeardownOK'
    BY <1>1, <1>2, <2>1 DEF TargetTyped, TeardownOK, At, Doing, Related
  <2>3. calm => Agrees(work.world)'
    BY <1>1, <2>1 DEF TargetInv, CalmInv, Agrees
  <2> QED
    BY <1>1, <2>2, <2>3, AppliedStepKeepsTarget
<1> QED
  BY <1>5, <1>6, <1>7, <1>8, <1>9 DEF ApplyStep

LEMMA WorkOnApplyKeepsTarget ==
  ASSUME TargetInv, OperationInv, WorkOnApply PROVE TargetInv'
<1>1. ApplyStep /\ At("applying") /\ UNCHANGED controlVars
  BY DEF WorkOnApply
<1>2. op.kind \in Kinds \ {"plan"}
  BY <1>1 DEF OperationInv, At, Proper
<1>3. \/ Applying("foundation") \/ Applying("deploy") \/ Applying("teardown")
  BY <1>1, <1>2 DEF Applying, Is, Kinds
<1> QED
  BY <1>1, <1>3, FoundationStep, DeployStep, TeardownStep

(* What Terraform has done by the time it ends, however it ends. *)
LEMMA WorkIsRelated ==
  ASSUME TargetInv, OperationInv, At("applying"), ~Is("deploy") \/ Applied
  PROVE  Related(work.world)
<1>1. op.kind \in {"foundation", "deploy", "teardown"}
  BY DEF OperationInv, At, Proper, Kinds
<1>2. CASE Is("foundation")
  BY <1>2 DEF TargetInv, FoundationOK, ServiceHasTask, Related
<1>3. CASE Is("teardown")
  BY <1>3 DEF TargetInv, TeardownOK
<1>4. CASE Is("deploy")
  <2>1. DeployApplying /\ \A a \in Managed : Doing(a) = "no-op"
    BY <1>4 DEF TargetInv, DeployOK, Applied, Pending, Doing
  <2> QED
    BY <2>1 DEF DeployApplying, Related, Managed
<1> QED
  BY <1>1, <1>2, <1>3, <1>4 DEF Is

LEMMA EndedIsTyped ==
  ASSUME TargetInv, EndApply PROVE TargetTyped'
BY DEF TargetInv, TargetTyped, EndApply, NoState, NoPlan, Nothing,
       Actions

LEMMA FinishApplyKeepsTarget ==
  ASSUME TargetInv, OperationInv, FinishApply PROVE TargetInv'
<1>1. /\ At("applying") /\ ~At("idle") /\ Applied /\ EndApply /\ GoTo("check")
      /\ remote' = work /\ UNCHANGED <<account, rollbacks>>
  BY DEF FinishApply, EndApply, At
<1>2. /\ op'.kind = op.kind /\ op'.sha = op.sha /\ op'.stage = "check" /\ op.sha \in Shas
      /\ UNCHANGED <<head, report, calm>>
  BY <1>1 DEF GoTo, OperationInv
<1>3. TargetTyped'
  BY <1>1, EndedIsTyped
<1>4. \A a \in Managed : Doing(a) = "no-op"
  BY <1>1 DEF Applied, Pending, Doing
<1>5. Is("teardown")' => TeardownOK'
  <2> SUFFICES ASSUME Is("teardown") PROVE StateIsEmpty(remote')
    BY <1>2 DEF TeardownOK, At, Is
  <2>1. \A a \in Managed : a \notin work.world.present
    BY <1>1, <1>4 DEF TargetInv, TeardownOK
  <2>2. work.world.present = {}
    BY <2>1 DEF TargetInv, TargetTyped
  <2> QED
    BY <1>1, <2>2 DEF TargetInv, TeardownOK, At, Applied, StateIsEmpty, ListsNothing
<1>6. Is("foundation")' => FoundationOK'
  BY <1>2 DEF FoundationOK, At
<1>7. Is("deploy")' => DeployOK'
  <2> SUFFICES ASSUME Is("deploy") PROVE DeployApplied'
    BY <1>2 DEF DeployOK, At, Is
  <2>1. DeployApplying
    BY <1>1 DEF TargetInv, DeployOK
  <2>2. /\ work.world.present = Managed /\ work.world.task.image = op.sha
        /\ work.world.service = work.world.task /\ ServiceRuns
    BY <1>4, <2>1 DEF DeployApplying, Managed
  <2>3. work.ref = op.sha /\ op.sha # Unset /\ "outputs" \in work.given
    BY <1>1, <1>2, <2>1, IdentityAssumption DEF Applied, DeployApplying, FromVariables
  <2> QED
    BY <1>1, <1>2, <2>1, <2>2, <2>3
       DEF DeployApplying, DeployApplied, StateRuns, StateIsComplete, Related, ServiceRuns
<1>8. CalmInv'
  <2>1. Bare(remote)'
    <3>1. CASE Is("teardown")
      <4>1. StateIsEmpty(remote')
        BY <1>2, <1>5, <3>1 DEF TeardownOK, At, Is
      <4> QED
        BY <4>1 DEF Bare, StateIsEmpty, ListsNothing
    <3>2. CASE Is("foundation")
      <4>1. "frontend" \in work.world.present
        BY <1>1, <1>4, <3>2 DEF TargetInv, FoundationOK, Managed
      <4> QED
        BY <1>1, <4>1 DEF Bare
    <3>3. CASE Is("deploy")
      <4>1. "frontend" \in work.world.present
        BY <1>1, <1>4, <3>3 DEF TargetInv, DeployOK, DeployApplying, Managed
      <4> QED
        BY <1>1, <4>1 DEF Bare
    <3>4. op.kind \in {"foundation", "deploy", "teardown"}
      BY <1>1 DEF OperationInv, At, Proper, Kinds
    <3> QED
      BY <3>1, <3>2, <3>3, <3>4 DEF Is
  <2> QED
    BY <1>1, <1>2, <2>1, WorkIsRelated DEF TargetInv, CalmInv, At, Agrees
<1>9. TeardownIsRefusedOnlyAfterMishaps'
  BY <1>1, <1>2, BusyIsNotRefused
<1> QED
  BY <1>3, <1>5, <1>6, <1>7, <1>8, <1>9 DEF TargetInv

LEMMA ApplyFailsKeepsTarget ==
  ASSUME TargetInv, OperationInv, ApplyFails PROVE TargetInv'
<1>1. /\ At("applying") /\ EndApply /\ op' = Idle /\ remote' = work /\ UNCHANGED account
      /\ calm' = (calm /\ ~LeavesTrouble(FALSE, work))
      /\ report'.outcome = "failed"
  BY DEF ApplyFails, EndApply
<1>2. ASSUME calm' PROVE Agrees(remote.world)' /\ Related(remote.world)' /\ Bare(remote)'
  <2>1. calm /\ ~Is("deploy") /\ Bare(work)
    BY <1>1, <1>2 DEF LeavesTrouble, Bare
  <2>2. Agrees(work.world) /\ Related(work.world)
    BY <1>1, <2>1, WorkIsRelated DEF TargetInv, CalmInv
  <2> QED
    BY <1>1, <2>1, <2>2 DEF Agrees
<1>3. TeardownIsRefusedOnlyAfterMishaps'
  BY <1>1, OtherOutcomeIsNotRefused
<1> QED
  BY <1>1, <1>2, <1>3, EndedIsTyped, EndKeepsTarget

LEMMA RunnerLostKeepsTarget ==
  ASSUME TargetInv, OperationInv, RunnerLost PROVE TargetInv'
<1>1. /\ At("applying") /\ ~At("idle") /\ op' = Idle /\ work' = NoState /\ plan' = NoPlan
      /\ UNCHANGED <<account, remote, report>>
      /\ calm' = (calm /\ ~LeavesTrouble(TRUE, remote))
  BY DEF RunnerLost, LoseRunner, At
<1>2. TargetTyped'
  BY <1>1 DEF TargetInv, TargetTyped, NoState, NoPlan, Nothing,
              Actions
<1>3. ASSUME calm' PROVE Agrees(remote.world)' /\ Related(remote.world)' /\ Bare(remote)'
  <2>1. calm /\ ~Is("deploy") /\ ~Is("teardown") /\ Bare(remote)
    BY <1>1, <1>3 DEF LeavesTrouble, Bare, Is
  <2>2. Is("foundation")
    BY <1>1, <2>1 DEF OperationInv, At, Is, Proper, Kinds
  <2> QED
    BY <1>1, <2>1, <2>2 DEF TargetInv, CalmInv, FoundationOK, ServiceHasTask, Related, Agrees
<1>4. TeardownIsRefusedOnlyAfterMishaps'
  BY <1>1, BusyIsNotRefused
<1> QED
  BY <1>1, <1>2, <1>3, <1>4, EndKeepsTarget

LEMMA AuditAfterKeepsTarget ==
  ASSUME TargetInv, OperationInv, AuditAfter PROVE TargetInv'
<1>1. At("check") /\ ~At("idle") /\ ~At("applying")
      /\ UNCHANGED <<account, rollbacks, remote, work, plan>>
  BY DEF AuditAfter, At, targetVars
<1>2. CASE Ends("refused")
  <2>1. ~Is("teardown")
    BY <1>1, <1>2 DEF AuditAfter, TargetInv, TeardownOK, Gate, GoTo, Ends, At, Is, Idle
  <2>2. TeardownIsRefusedOnlyAfterMishaps'
    BY <1>2, <2>1 DEF Ends, Is, TeardownIsRefusedOnlyAfterMishaps, Reported
  <2> QED
    BY <1>1, <1>2, <2>2, QuietEndKeepsTarget DEF Ends
<1>3. ASSUME ~Ends("refused") PROVE TargetInv'
  <2>1. CASE Is("foundation") /\ GoTo("ready")
    BY <1>1, <2>1, AdvanceKeepsTarget DEF Is, Stages
  <2>2. CASE Is("deploy") /\ GoTo("stage")
    <3>1. DeployApplied
      BY <1>1, <2>2 DEF TargetInv, DeployOK, At
    <3> QED
      BY <1>1, <2>2, <3>1, AdvanceKeepsTarget DEF Is, Stages
  <2>3. CASE Is("teardown") /\ GoTo("scan")
    BY <1>1, <2>3, AdvanceKeepsTarget DEF Is, Stages
  <2> QED
    BY <1>3, <2>1, <2>2, <2>3 DEF AuditAfter, Gate
<1> QED
  BY <1>2, <1>3

(* A step outside the stages that change the target. *)
LEMMA IdleTargetStays ==
  ASSUME TargetInv,
         UNCHANGED <<account, rollbacks, remote, work, plan, op, report, calm>>
  PROVE  TargetInv'
<1>1. TargetTyped'
  BY DEF TargetInv, TargetTyped, At
<1>2. (Is("teardown") => TeardownOK)' /\ (Is("foundation") => FoundationOK)'
  BY DEF TargetInv, TeardownOK, FoundationOK, ListsNothing, Related, StateIsEmpty, PartOf,
         ServiceHasTask, Doing, At, Is
<1>3. (Is("deploy") => DeployOK)'
  BY DEF TargetInv, DeployOK, DeployPlanned, DeployApplying, DeployApplied, ServiceRuns, StateRuns,
         StateIsComplete, Related, Doing, At, Is
<1>4. CalmInv' /\ TeardownIsRefusedOnlyAfterMishaps'
  BY DEF TargetInv, CalmInv, Agrees, Related, Bare, StateIsEmpty, ListsNothing,
         TeardownIsRefusedOnlyAfterMishaps, Reported, At, Is
<1> QED
  BY <1>1, <1>2, <1>3, <1>4 DEF TargetInv

(* ECS takes an update back: a mishap, and what was true without is no more. *)
LEMMA RollBackKeepsTarget ==
  ASSUME TargetInv, AccountIsWorld, rollbacks \in Nat, RollBack,
         calm' = FALSE, UNCHANGED <<op, report>>
  PROVE  TargetInv'
<1>1. /\ account'.present = account.present /\ account'.task = account.task
      /\ rollbacks' = rollbacks + 1 /\ rollbacks' # 0
      /\ UNCHANGED <<remote, work, plan>> /\ ~calm'
  BY DEF RollBack, AccountIsWorld
<1>2. TargetTyped'
  BY <1>1 DEF TargetInv, TargetTyped, At
<1>3. (Is("teardown") => TeardownOK)' /\ (Is("foundation") => FoundationOK)'
  BY <1>1 DEF TargetInv, TeardownOK, FoundationOK, ListsNothing, Related, StateIsEmpty, PartOf,
              ServiceHasTask, Doing, At, Is
<1>4. (Is("deploy") => DeployOK)'
  BY <1>1 DEF TargetInv, DeployOK, DeployPlanned, DeployApplying, DeployApplied, ServiceRuns,
              StateRuns, StateIsComplete, Related, Doing, At, Is
<1>5. CalmInv' /\ TeardownIsRefusedOnlyAfterMishaps'
  BY <1>1 DEF CalmInv, TeardownIsRefusedOnlyAfterMishaps
<1> QED
  BY <1>2, <1>3, <1>4, <1>5 DEF TargetInv

LEMMA RollbacksAreCounted ==
  ASSUME rollbacks \in Nat, [Next]_vars PROVE rollbacks' \in Nat
<1>1. CASE Operate
  <2>1. ReadState \/ ReviewPlan \/ ConfirmReady \/ AuditAfter \/ StageFrontend \/ Publish
        \/ FinishPublish \/ SmokeApi \/ SmokePublished \/ Scan => UNCHANGED rollbacks
    BY DEF ReadState, ReviewPlan, ConfirmReady, AuditAfter, StageFrontend, Publish, FinishPublish,
           SmokeApi, SmokePublished, Scan, targetVars
  <2>2. Build \/ MakePlan \/ StartApply \/ FinishApply \/ ApplyFails \/ Fail => UNCHANGED rollbacks
    BY DEF Build, MakePlan, StartApply, BeginApply, FinishApply, ApplyFails, EndApply, Fail
  <2>3. WorkOnApply => UNCHANGED rollbacks
    BY DEF WorkOnApply, ApplyStep, CreateTask, ReplaceTask, PointService, CreateOther, Delete,
           WriteOutputs, ForgetData, Persist
  <2> QED
    BY <1>1, <2>1, <2>2, <2>3 DEF Operate, Dispatch, targetVars
<1>2. CASE Surroundings
  <2>1. RunnerLost \/ RunnerLostPlanning => UNCHANGED rollbacks
    BY DEF RunnerLost, LoseRunner, RunnerLostPlanning
  <2>2. RollBack => rollbacks' = rollbacks + 1
    BY DEF RollBack
  <2> QED
    BY <1>2, <2>1, <2>2 DEF Surroundings, MainAdvances, Settle, ReleaseStaleLock, targetVars
<1> QED
  BY <1>1, <1>2 DEF Next, vars, targetVars

LEMMA StepKeepsTarget ==
  ASSUME OperationInv, EmptyingInv, rollbacks \in Nat, TargetInv, [Next]_vars
  PROVE  TargetInv'
<1>1. CASE UNCHANGED vars
  BY <1>1, IdleTargetStays DEF vars, targetVars, controlVars
<1>2. CASE Operate
  <2>1. ASSUME NEW kind \in Kinds, Dispatch(kind) PROVE TargetInv'
    <3>1. /\ At("idle") /\ op'.stage = "read" /\ report' = NoReport
          /\ UNCHANGED <<account, rollbacks, remote, work, plan, calm>>
      BY <2>1 DEF Dispatch, targetVars
    <3>2. TargetTyped'
      BY <3>1 DEF TargetInv, TargetTyped, At
    <3>3. TeardownOK' /\ FoundationOK' /\ DeployOK'
      BY <3>1 DEF TeardownOK, FoundationOK, DeployOK, At
    <3>4. CalmInv' /\ TeardownIsRefusedOnlyAfterMishaps'
      BY <3>1 DEF TargetInv, CalmInv, Agrees, Related, Bare, StateIsEmpty, ListsNothing, At,
                  NoReport, TeardownIsRefusedOnlyAfterMishaps, Reported
    <3> QED
      BY <3>2, <3>3, <3>4 DEF TargetInv
  <2>2. CASE Build
    <3>1. /\ ~At("idle") /\ ~At("applying") /\ GoTo("plan") /\ op.kind = "deploy"
          /\ UNCHANGED <<account, rollbacks, remote, work, plan>>
      BY <2>2 DEF Build, At, OperationInv, Proper
    <3> QED
      BY <3>1, AdvanceKeepsTarget DEF Is, Stages
  <2>3. CASE ReviewPlan \/ ConfirmReady
    <3>1. /\ op' = Idle /\ ~At("applying") /\ op.kind # "teardown" /\ report'.kind = op.kind
          /\ UNCHANGED <<account, remote, work, calm, plan>>
      BY <2>3 DEF ReviewPlan, ConfirmReady, Ends, At, Is, targetVars, OperationInv, Proper
    <3>2. TeardownIsRefusedOnlyAfterMishaps'
      BY <3>1 DEF TeardownIsRefusedOnlyAfterMishaps, Reported
    <3> QED
      BY <3>1, <3>2, QuietEndKeepsTarget
  <2>4. CASE ReadState \/ MakePlan \/ StartApply
    BY <2>4, ReadStateKeepsTarget, MakePlanKeepsTarget, StartApplyKeepsTarget
  <2>5. CASE WorkOnApply \/ FinishApply \/ ApplyFails \/ AuditAfter
    BY <2>5, WorkOnApplyKeepsTarget, FinishApplyKeepsTarget, ApplyFailsKeepsTarget,
       AuditAfterKeepsTarget
  <2>6. CASE StageFrontend \/ FinishPublish \/ SmokeApi
    <3>1. PICK stage \in {"publish", "smoke", "browse"} : GoTo(stage)
      BY <2>6 DEF StageFrontend, FinishPublish, SmokeApi
    <3>2. /\ op.stage \in {"stage", "publish", "smoke"}
          /\ UNCHANGED <<account, rollbacks, remote, work, plan>>
      BY <2>6 DEF StageFrontend, FinishPublish, SmokeApi, At, targetVars
    <3>3. ~At("idle") /\ ~At("applying") /\ op.kind = "deploy"
      BY <3>2 DEF At, OperationInv, Proper
    <3>4. DeployApplied
      BY <3>2, <3>3 DEF TargetInv, DeployOK, Is
    <3> QED
      BY <3>1, <3>2, <3>3, <3>4, AdvanceKeepsTarget DEF Is, Stages
  <2>7. CASE Publish
    BY <2>7, IdleTargetStays DEF Publish, targetVars, controlVars
  <2>8. CASE SmokePublished \/ Scan \/ Fail
    <3>1. PICK outcome \in {"ok", "failed"} : Ends(outcome)
      BY <2>8 DEF SmokePublished, Scan, Fail
    <3>2. /\ ~At("applying") /\ plan' \in {plan, NoPlan} /\ UNCHANGED <<account, remote, work>>
      BY <2>8 DEF SmokePublished, Scan, Fail, At, targetVars
    <3>3. TeardownIsRefusedOnlyAfterMishaps'
      BY <3>1, OtherOutcomeIsNotRefused DEF Ends
    <3> QED
      BY <3>1, <3>2, <3>3, QuietEndKeepsTarget DEF Ends
  <2> QED
    BY <1>2, <2>1, <2>2, <2>3, <2>4, <2>5, <2>6, <2>7, <2>8 DEF Operate
<1>3. CASE Surroundings
  <2>1. CASE RunnerLost
    BY <2>1, RunnerLostKeepsTarget
  <2>2. CASE RunnerLostPlanning
    <3>1. /\ ~At("idle") /\ ~At("applying") /\ op' = Idle
          /\ UNCHANGED <<account, remote, work, plan, report, calm>>
      BY <2>2 DEF RunnerLostPlanning, At
    <3> QED
      BY <3>1, BusyIsNotRefused, QuietEndKeepsTarget
  <2>3. CASE RollBack /\ calm' = FALSE /\ UNCHANGED <<op, report>>
    BY <2>3, RollBackKeepsTarget DEF EmptyingInv
  <2>4. CASE UNCHANGED <<account, rollbacks, remote, work, plan, op, report, calm>>
    BY <2>4, IdleTargetStays
  <2> QED
    BY <1>3, <2>1, <2>2, <2>3, <2>4
       DEF Surroundings, MainAdvances, Settle, ReleaseStaleLock, targetVars, controlVars
<1> QED
  BY <1>1, <1>2, <1>3 DEF Next

(* What an operation knows of its target, in every stage. *)
DeliveryInv == OperationInv /\ EmptyingInv /\ rollbacks \in Nat /\ TargetInv

LEMMA DeliveryIsInvariant == Spec => []DeliveryInv
<1>1. Init => DeliveryInv
  BY InitEstablishesOperation, InitEstablishesEmptying, InitEstablishesTarget
     DEF DeliveryInv, Init, TargetInit
<1>2. DeliveryInv /\ [Next]_vars => DeliveryInv'
  BY StepKeepsOperation, StepKeepsEmptying, RollbacksAreCounted, StepKeepsTarget DEF DeliveryInv
<1> QED
  BY <1>1, <1>2, PTL DEF Spec

(* A teardown is refused only after one of the mishaps LeavesTrouble and    *)
(* RollBack name: what any other interruption of any operation leaves in    *)
(* the account and in the state passes its gates, for any number of         *)
(* commits, revisions and interruptions.                                    *)
THEOREM TeardownIsPossible == Spec => []TeardownIsRefusedOnlyAfterMishaps
<1>1. DeliveryInv => TeardownIsRefusedOnlyAfterMishaps
  BY DEF DeliveryInv, TargetInv
<1> QED
  BY <1>1, DeliveryIsInvariant, PTL

-----------------------------------------------------------------------------
(* The site at the end of a deploy.                                         *)

LEMMA HistoryIsOrdered ==
  /\ DOMAIN History = 1..Len(History) /\ Len(History) \in Nat
  /\ \A i \in DOMAIN History : i \in Nat /\ History[i] \in Shas
  /\ \A i, j \in DOMAIN History : History[i] = History[j] => i = j
BY HistoryAssumption

LEMMA InitEstablishesSite == Init => SiteInv
<1> SUFFICES ASSUME Init PROVE SiteInv
  OBVIOUS
<1>1. /\ step = "rest" /\ publishing = Unset /\ op = Idle
      /\ purges \in [Shas -> {"none", "InProgress", "Completed"}]
      /\ \A sha \in Shas : purges[sha] = "none"
  BY DEF Init, FrontendInit, NoPurge
<1>2. \A i \in DOMAIN History : publishing # History[i]
  BY <1>1, HistoryIsOrdered, IdentityAssumption
<1> QED
  BY <1>1, <1>2 DEF SiteInv, CleanedOK, PurgedOK, OrderOK, SiteOK, InProgress, At, Idle

LEMMA SiteStays ==
  ASSUME UNCHANGED frontendVars
  PROVE  /\ CleanedOK => CleanedOK'
         /\ PurgedOK => PurgedOK'
         /\ \A sha : Published(sha) => Published(sha)'
         /\ InProgress' <=> InProgress
BY DEF frontendVars, CleanedOK, PurgedOK, Published, InProgress

(* A step of a publication. *)
LEMMA PublishStepKeepsSite ==
  ASSUME PublicationInv, CleanedOK, PurgedOK, PublishStep
  PROVE  CleanedOK' /\ PurgedOK' /\ InProgress' /\ publishing' = publishing
<1>1. InProgress /\ publishing \in Shas /\ BucketShape
  BY DEF PublishStep, InProgress, PutAsset, PutRoot, PutConfig, PutIndex, DeleteAsset, Invalidate,
         Goes, PublicationInv, PutSoFar
<1>2. publishing' = publishing /\ edge' = edge
  BY DEF PublishStep, PutAsset, PutRoot, PutConfig, PutIndex, DeleteAsset, Invalidate
<1>3. CASE \E asset \in puts : PutAsset(asset)
  <2>1. PICK asset \in puts : PutAsset(asset)
    BY <1>3
  <2>2. /\ asset \in Bundles[publishing] /\ step = "assets" /\ step' = "assets"
        /\ bucket'.assets = bucket.assets \cup {asset} /\ puts' = puts \ {asset}
        /\ UNCHANGED <<edge, purges, publishing, deletes>>
    BY <1>1, <2>1 DEF PutAsset, CleanedOK, BucketShape
  <2> QED
    BY <1>1, <2>2 DEF CleanedOK, PurgedOK, InProgress
<1>4. CASE PutRoot \/ PutConfig \/ PutIndex
  <2>1. /\ bucket'.assets = bucket.assets /\ UNCHANGED <<edge, purges, publishing, puts, deletes>>
        /\ step \in {"assets", "config", "index"} /\ step' \in {"config", "index", "clean"}
        /\ bucket'.root = publishing
    BY <1>1, <1>4 DEF PutRoot, PutConfig, PutIndex, Goes, BucketShape, CleanedOK
  <2> QED
    BY <1>1, <2>1 DEF CleanedOK, PurgedOK, InProgress
<1>5. CASE \E asset \in deletes : DeleteAsset(asset)
  <2>1. PICK asset \in deletes : DeleteAsset(asset)
    BY <1>5
  <2>2. /\ step = "clean" /\ step' = "clean" /\ bucket'.root = bucket.root
        /\ bucket'.assets = bucket.assets \ {asset} /\ deletes' = deletes \ {asset}
        /\ UNCHANGED <<edge, purges, publishing, puts>>
    BY <1>1, <2>1 DEF DeleteAsset, BucketShape
  <2> QED
    BY <1>1, <2>2 DEF CleanedOK, PurgedOK, InProgress
<1>6. CASE Invalidate
  <2>1. /\ step = "clean" /\ step' = "wait" /\ deletes = {}
        /\ purges' = [purges EXCEPT ![publishing] = IF @ = "none" THEN "InProgress" ELSE @]
        /\ UNCHANGED <<bucket, edge, publishing, puts, deletes>>
    BY <1>6 DEF Invalidate, Goes
  <2>2. CleanedOK'
    BY <1>1, <2>1 DEF CleanedOK, InProgress
  <2>3. bucket.assets \subseteq Bundles[publishing]
    BY <1>1, <2>1 DEF CleanedOK
  <2>4. PICK i \in DOMAIN History : publishing = History[i]
    BY <1>1 DEF PurgedOK
  <2>5. /\ purges' \in [Shas -> {"none", "InProgress", "Completed"}]
        /\ purges'[publishing] = "Completed" => purges[publishing] = "Completed"
        /\ \A sha \in Shas \ {publishing} : purges'[sha] = purges[sha]
    BY <1>1, <2>1 DEF PurgedOK
  <2>6. ASSUME NEW sha \in Shas, purges'[sha] # "none"
        PROVE  /\ \E m, n \in DOMAIN History :
                    sha = History[m] /\ publishing' = History[n] /\ m <= n
               /\ publishing' = sha =>
                    /\ bucket'.assets \subseteq Bundles[sha]
                    /\ purges'[sha] = "Completed" => edge' \subseteq Bundles[sha]
    <3>1. CASE sha = publishing
      BY <2>1, <2>3, <2>4, <2>5, <3>1, HistoryIsOrdered DEF PurgedOK
    <3>2. CASE sha # publishing
      BY <2>1, <2>5, <2>6, <3>2 DEF PurgedOK
    <3> QED
      BY <3>1, <3>2
  <2>7. PurgedOK'
    BY <2>1, <2>4, <2>5, <2>6 DEF PurgedOK
  <2> QED
    BY <2>1, <2>2, <2>7 DEF InProgress
<1> QED
  BY <1>3, <1>4, <1>5, <1>6 DEF PublishStep

(* The publication of a commit that is on main no earlier than the last one. *)
LEMMA ListKeepsSite ==
  ASSUME PublicationInv, CleanedOK, PurgedOK, NEW k \in DOMAIN History, List(History[k]),
         \A i \in DOMAIN History : publishing = History[i] => i <= k
  PROVE  CleanedOK' /\ PurgedOK' /\ InProgress' /\ publishing' = History[k]
<1>1. /\ step' = "assets" /\ publishing' = History[k] /\ puts' = Bundles[History[k]]
      /\ deletes' = bucket.assets \ Bundles[History[k]] /\ UNCHANGED <<bucket, edge, purges>>
  BY DEF List, Goes
<1>2. CleanedOK'
  BY <1>1 DEF CleanedOK, InProgress
<1>3. ASSUME NEW sha \in Shas, purges[sha] # "none"
      PROVE  /\ \E m, n \in DOMAIN History :
                  sha = History[m] /\ publishing' = History[n] /\ m <= n
             /\ publishing' = sha =>
                  /\ bucket.assets \subseteq Bundles[sha]
                  /\ purges[sha] = "Completed" => edge \subseteq Bundles[sha]
  <2>1. PICK i \in DOMAIN History, j \in DOMAIN History :
          sha = History[i] /\ publishing = History[j] /\ i <= j
    BY <1>3 DEF PurgedOK
  <2>2. j <= k /\ i <= k
    BY <2>1, HistoryIsOrdered
  <2>3. ASSUME publishing' = sha PROVE publishing = sha
    <3>1. i = k
      BY <1>1, <2>1, <2>3, HistoryIsOrdered
    <3>2. j = k
      BY <2>1, <2>2, <3>1, HistoryIsOrdered
    <3> QED
      BY <2>1, <3>1, <3>2
  <2> QED
    BY <1>1, <1>3, <2>1, <2>2, <2>3 DEF PurgedOK
<1>4. PurgedOK'
  BY <1>1, <1>3 DEF PurgedOK
<1> QED
  BY <1>1, <1>2, <1>4 DEF InProgress

(* A publication ends, and leaves the site as it is. *)
LEMMA RestKeepsSite ==
  ASSUME PurgedOK, step' = "rest", UNCHANGED <<bucket, edge, purges, publishing>>
  PROVE  CleanedOK' /\ PurgedOK' /\ ~InProgress'
BY DEF CleanedOK, PurgedOK, InProgress

LEMMA PurgedIsPublished ==
  ASSUME PublicationInv, CleanedOK, PurgedOK, AwaitPurge PROVE Published(publishing)'
<1>1. /\ step = "wait" /\ purges[publishing] = "Completed" /\ publishing \in Shas
      /\ UNCHANGED <<bucket, edge, publishing>>
  BY DEF AwaitPurge, Goes, PublicationInv, PutSoFar, InProgress
<1>2. /\ bucket.index = publishing /\ bucket.root = publishing
      /\ Bundles[publishing] \subseteq bucket.assets
  BY <1>1 DEF PublicationInv, IndexIsThisBuild, PutSoFar, InProgress, CleanedOK
<1>3. bucket.assets \subseteq Bundles[publishing] /\ edge \subseteq Bundles[publishing]
  BY <1>1 DEF PurgedOK
<1> QED
  BY <1>1, <1>2, <1>3 DEF Published

(* What happens at the edge. *)
LEMMA EdgeKeepsSite ==
  ASSUME CleanedOK, PurgedOK,
         \/ \E asset \in Assets : CacheAsset(asset)
         \/ \E sha \in Shas : CompletePurge(sha)
  PROVE  /\ CleanedOK' /\ PurgedOK' /\ (InProgress' <=> InProgress)
         /\ publishing' = publishing /\ bucket' = bucket
         /\ \A sha : Published(sha) => Published(sha)'
<1>1. ASSUME NEW asset \in Assets, CacheAsset(asset)
      PROVE  /\ CleanedOK' /\ PurgedOK' /\ (InProgress' <=> InProgress)
             /\ publishing' = publishing /\ bucket' = bucket
             /\ \A sha : Published(sha) => Published(sha)'
  BY <1>1 DEF CacheAsset, CleanedOK, PurgedOK, InProgress, Published
<1>2. ASSUME NEW purged \in Shas, CompletePurge(purged)
      PROVE  /\ CleanedOK' /\ PurgedOK' /\ (InProgress' <=> InProgress)
             /\ publishing' = publishing /\ bucket' = bucket
             /\ \A sha : Published(sha) => Published(sha)'
  <2>1. /\ purges[purged] = "InProgress" /\ edge' = {}
        /\ purges' = [purges EXCEPT ![purged] = "Completed"]
        /\ UNCHANGED <<bucket, step, publishing, puts, deletes>>
    BY <1>2 DEF CompletePurge
  <2>2. PurgedOK'
    BY <2>1 DEF PurgedOK, InProgress
  <2> QED
    BY <2>1, <2>2 DEF CleanedOK, InProgress, Published
<1> QED
  BY <1>1, <1>2

(* A step that leaves the site alone and takes the operation on, or ends it. *)
LEMMA QuietKeepsSite ==
  ASSUME SiteInv, UNCHANGED frontendVars, UNCHANGED head, ~At("idle"),
         op' = Idle \/ op'.sha = op.sha,
         op'.stage # "publish", op'.stage \in {"smoke", "browse"} => At("smoke")
  PROVE  SiteInv'
<1>1. CleanedOK' /\ PurgedOK'
  BY SiteStays DEF SiteInv
<1>2. publishing' = publishing /\ head' = head /\ step' = step
  BY DEF frontendVars
<1>3. OrderOK'
  BY <1>2 DEF SiteInv, OrderOK, At, Idle
<1>4. op'.stage \in {"smoke", "browse"} => Published(op.sha)' /\ ~InProgress'
  <2> SUFFICES ASSUME op'.stage \in {"smoke", "browse"}
               PROVE  Published(op.sha)' /\ ~InProgress'
    OBVIOUS
  <2>1. op'.sha = op.sha /\ Published(op.sha) /\ ~InProgress
    BY DEF SiteInv, SiteOK, At, Idle
  <2> QED
    BY <2>1 DEF Published, InProgress, frontendVars
<1>5. SiteOK'
  BY <1>4 DEF SiteOK, At, Published, InProgress
<1> QED
  BY <1>1, <1>3, <1>5 DEF SiteInv

LEMMA UntouchedSite ==
  ASSUME SiteInv, UNCHANGED frontendVars, UNCHANGED <<op, head>> PROVE SiteInv'
<1>1. CleanedOK' /\ PurgedOK'
  BY SiteStays DEF SiteInv
<1>2. OrderOK'
  BY DEF SiteInv, OrderOK, At, frontendVars
<1>3. SiteOK'
  BY DEF SiteInv, SiteOK, At, Published, InProgress, frontendVars
<1> QED
  BY <1>1, <1>2, <1>3 DEF SiteInv

LEMMA DispatchKeepsSite ==
  ASSUME OperationInv, SiteInv, NEW kind \in Kinds, Dispatch(kind) PROVE SiteInv'
<1>1. /\ op'.sha = History[head] /\ op'.stage = "read"
      /\ UNCHANGED frontendVars /\ UNCHANGED head
  BY DEF Dispatch
<1>2. CleanedOK' /\ PurgedOK'
  BY <1>1, SiteStays DEF SiteInv
<1>3. head \in 1..head /\ \A i \in DOMAIN History : publishing = History[i] => i <= head
  BY HistoryIsOrdered DEF OperationInv, SiteInv, OrderOK
<1>4. publishing' = publishing /\ head' = head
  BY <1>1 DEF frontendVars
<1>5. OrderOK'
  BY <1>1, <1>3, <1>4 DEF OrderOK
<1>6. SiteOK'
  BY <1>1 DEF SiteOK, At
<1> QED
  BY <1>2, <1>5, <1>6 DEF SiteInv

LEMMA MainKeepsSite ==
  ASSUME OperationInv, SiteInv, MainAdvances PROVE SiteInv'
<1>1. UNCHANGED frontendVars /\ UNCHANGED op /\ head' = head + 1 /\ head \in Nat
  BY HistoryIsOrdered DEF MainAdvances, OperationInv
<1>2. CleanedOK' /\ PurgedOK'
  BY <1>1, SiteStays DEF SiteInv
<1>3. publishing' = publishing
  BY <1>1 DEF frontendVars
<1>4. \A i \in DOMAIN History : i \in Nat
  BY HistoryIsOrdered
<1>5. \A i \in DOMAIN History : publishing' = History[i] => i <= head'
  BY <1>1, <1>3, <1>4 DEF SiteInv, OrderOK
<1>6. ASSUME ~At("idle")
      PROVE  \E k \in 1..head' :
               op.sha = History[k] /\ \A i \in DOMAIN History : publishing = History[i] => i <= k
  <2>1. PICK k \in 1..head :
          op.sha = History[k] /\ \A i \in DOMAIN History : publishing = History[i] => i <= k
    BY <1>6 DEF SiteInv, OrderOK
  <2>2. k \in 1..head'
    BY <1>1
  <2> QED
    BY <2>1, <2>2
<1>7. OrderOK'
  BY <1>1, <1>3, <1>5, <1>6 DEF OrderOK, At
<1>8. SiteOK'
  BY <1>1 DEF SiteInv, SiteOK, At, Published, InProgress, frontendVars
<1> QED
  BY <1>2, <1>7, <1>8 DEF SiteInv

(* The panel of the operation's commit is listed, put and purged. *)
LEMMA StageKeepsSite ==
  ASSUME OperationInv, PublicationInv, SiteInv, StageFrontend PROVE SiteInv'
<1>1. At("stage") /\ List(op.sha) /\ op'.stage = "publish" /\ op'.sha = op.sha /\ UNCHANGED head
  BY DEF StageFrontend, GoTo, OperationInv, At
<1>2. PICK k \in 1..head :
        op.sha = History[k] /\ \A i \in DOMAIN History : publishing = History[i] => i <= k
  BY <1>1 DEF SiteInv, OrderOK, At
<1>3. k \in DOMAIN History /\ k \in Nat /\ k <= head
  BY HistoryIsOrdered DEF OperationInv
<1>4. CleanedOK' /\ PurgedOK' /\ InProgress' /\ publishing' = History[k]
  BY <1>1, <1>2, <1>3, ListKeepsSite DEF SiteInv
<1>5. \A i \in DOMAIN History : publishing' = History[i] => i = k
  BY <1>3, <1>4, HistoryIsOrdered
<1>6. OrderOK'
  BY <1>1, <1>2, <1>3, <1>4, <1>5 DEF OrderOK
<1>7. SiteOK'
  BY <1>1, <1>2, <1>4 DEF SiteOK, At
<1> QED
  BY <1>4, <1>6, <1>7 DEF SiteInv

LEMMA PublishKeepsSite ==
  ASSUME OperationInv, PublicationInv, SiteInv, Publish PROVE SiteInv'
<1>1. At("publish") /\ PublishStep /\ UNCHANGED <<op, head>>
  BY DEF Publish, controlVars
<1>2. CleanedOK' /\ PurgedOK' /\ InProgress' /\ publishing' = publishing
  BY <1>1, PublishStepKeepsSite DEF SiteInv
<1>3. OrderOK'
  BY <1>1, <1>2 DEF SiteInv, OrderOK, At
<1>4. SiteOK'
  BY <1>1, <1>2 DEF SiteInv, SiteOK, At
<1> QED
  BY <1>2, <1>3, <1>4 DEF SiteInv

LEMMA FinishPublishKeepsSite ==
  ASSUME OperationInv, PublicationInv, SiteInv, FinishPublish PROVE SiteInv'
<1>1. /\ At("publish") /\ AwaitPurge /\ op'.stage = "smoke" /\ op'.sha = op.sha
      /\ UNCHANGED head
  BY DEF FinishPublish, GoTo, OperationInv
<1>2. Published(publishing)'
  BY <1>1, PurgedIsPublished DEF SiteInv
<1>3. step' = "rest" /\ UNCHANGED <<bucket, edge, purges, publishing>>
  BY <1>1 DEF AwaitPurge, Goes
<1>4. CleanedOK' /\ PurgedOK' /\ ~InProgress'
  BY <1>3, RestKeepsSite DEF SiteInv
<1>5. OrderOK'
  BY <1>1, <1>3 DEF SiteInv, OrderOK, At
<1>6. publishing' = op.sha
  BY <1>1, <1>3 DEF SiteInv, SiteOK
<1>7. SiteOK'
  BY <1>1, <1>2, <1>4, <1>6 DEF SiteOK, At, Published
<1> QED
  BY <1>4, <1>5, <1>7 DEF SiteInv

LEMMA FailKeepsSite ==
  ASSUME SiteInv, Fail PROVE SiteInv'
<1>1. step' = "rest" /\ UNCHANGED <<bucket, edge, purges, publishing>> /\ op' = Idle
      /\ UNCHANGED head
  BY DEF Fail, Abandon, Ends
<1>2. CleanedOK' /\ PurgedOK'
  BY <1>1, RestKeepsSite DEF SiteInv
<1>3. OrderOK' /\ SiteOK'
  BY <1>1 DEF SiteInv, OrderOK, SiteOK, At, Idle
<1> QED
  BY <1>2, <1>3 DEF SiteInv

LEMMA WorkKeepsSite ==
  ASSUME SiteInv, WorkOnApply PROVE SiteInv'
<1>1. At("applying") /\ UNCHANGED <<op, head>> /\ (Unpublish \/ UNCHANGED frontendVars)
  BY DEF WorkOnApply, controlVars, SiteFollows
<1>2. CASE UNCHANGED frontendVars
  BY <1>1, <1>2, UntouchedSite
<1>3. CASE Unpublish
  <2>1. /\ step = "rest" /\ step' = "rest" /\ publishing' = publishing
        /\ purges' = [sha \in Shas |-> "none"]
    BY <1>3 DEF Unpublish, NoPurge
  <2>2. CleanedOK' /\ PurgedOK'
    BY <2>1 DEF CleanedOK, PurgedOK, InProgress
  <2>3. OrderOK'
    BY <1>1, <2>1 DEF SiteInv, OrderOK, At
  <2>4. SiteOK'
    BY <1>1 DEF SiteOK, At
  <2> QED
    BY <2>2, <2>3, <2>4 DEF SiteInv
<1> QED
  BY <1>1, <1>2, <1>3

LEMMA VisitsKeepSite ==
  ASSUME SiteInv, UNCHANGED <<op, head>>,
         \/ \E asset \in Assets : CacheAsset(asset)
         \/ \E sha \in Shas : CompletePurge(sha)
  PROVE  SiteInv'
<1>1. /\ CleanedOK' /\ PurgedOK' /\ (InProgress' <=> InProgress)
      /\ publishing' = publishing
      /\ \A sha : Published(sha) => Published(sha)'
  BY EdgeKeepsSite DEF SiteInv
<1>2. OrderOK'
  BY <1>1 DEF SiteInv, OrderOK, At
<1>3. Published(op.sha) => Published(op.sha)'
  BY <1>1 DEF Published
<1>4. SiteOK'
  BY <1>1, <1>3 DEF SiteInv, SiteOK, At
<1> QED
  BY <1>1, <1>2, <1>4 DEF SiteInv

LEMMA StepKeepsSite ==
  ASSUME OperationInv, PublicationInv, SiteInv, [Next]_vars PROVE SiteInv'
<1>1. CASE UNCHANGED vars
  BY <1>1, UntouchedSite DEF vars, controlVars
<1>2. CASE Operate
  <2>1. ASSUME NEW kind \in Kinds, Dispatch(kind) PROVE SiteInv'
    BY <2>1, DispatchKeepsSite
  <2>2. CASE ReadState \/ MakePlan \/ AuditAfter
    <3>1. PICK stage \in {"plan", "ready", "build", "scan", "apply", "stage"} :
            GoTo(stage) \/ Ends("refused")
      BY <2>2 DEF ReadState, MakePlan, AuditAfter, Gate
    <3>2. UNCHANGED frontendVars /\ UNCHANGED head /\ ~At("idle")
      BY <2>2, <3>1 DEF ReadState, MakePlan, AuditAfter, GoTo, Ends, At
    <3>3. op' = Idle \/ (op'.sha = op.sha /\ op'.stage = stage)
      BY <3>1 DEF GoTo, Ends, OperationInv
    <3>4. op'.stage \notin {"publish", "smoke", "browse"}
      BY <3>3 DEF Idle
    <3> QED
      BY <3>2, <3>3, <3>4, QuietKeepsSite
  <2>3. CASE Build \/ StartApply \/ FinishApply
    <3>1. PICK stage \in {"plan", "applying", "check"} : GoTo(stage)
      BY <2>3 DEF Build, StartApply, FinishApply
    <3>2. UNCHANGED frontendVars /\ UNCHANGED head /\ ~At("idle")
      BY <2>3, <3>1 DEF Build, StartApply, FinishApply, GoTo, At
    <3>3. op'.sha = op.sha /\ op'.stage = stage
      BY <3>1 DEF GoTo, OperationInv
    <3>4. op'.stage \notin {"publish", "smoke", "browse"}
      BY <3>3
    <3> QED
      BY <3>2, <3>3, <3>4, QuietKeepsSite
  <2>4. CASE ReviewPlan \/ ConfirmReady \/ ApplyFails \/ SmokePublished \/ Scan
    <3>1. UNCHANGED frontendVars /\ UNCHANGED head /\ ~At("idle") /\ op' = Idle
      BY <2>4 DEF ReviewPlan, ConfirmReady, ApplyFails, SmokePublished, Scan, Ends, At
    <3> QED
      BY <3>1, QuietKeepsSite DEF Idle
  <2>5. CASE SmokeApi
    <3>1. /\ UNCHANGED frontendVars /\ UNCHANGED head /\ ~At("idle") /\ At("smoke")
          /\ op'.sha = op.sha /\ op'.stage = "browse"
      BY <2>5 DEF SmokeApi, GoTo, At, OperationInv
    <3> QED
      BY <3>1, QuietKeepsSite
  <2>6. CASE WorkOnApply \/ StageFrontend \/ Publish \/ FinishPublish \/ Fail
    BY <2>6, WorkKeepsSite, StageKeepsSite, PublishKeepsSite, FinishPublishKeepsSite,
       FailKeepsSite
  <2> QED
    BY <1>2, <2>1, <2>2, <2>3, <2>4, <2>5, <2>6 DEF Operate
<1>3. CASE Surroundings
  <2>1. CASE MainAdvances
    BY <2>1, MainKeepsSite
  <2>2. CASE RunnerLost \/ RunnerLostPlanning
    <3>1. UNCHANGED frontendVars /\ UNCHANGED head /\ ~At("idle") /\ op' = Idle
      BY <2>2 DEF RunnerLost, RunnerLostPlanning, At
    <3> QED
      BY <3>1, QuietKeepsSite DEF Idle
  <2>3. CASE UNCHANGED frontendVars /\ UNCHANGED <<op, head>>
    BY <2>3, UntouchedSite
  <2>4. CASE /\ (\E asset \in Assets : CacheAsset(asset)) \/ (\E sha \in Shas : CompletePurge(sha))
             /\ UNCHANGED <<op, head>>
    BY <2>4, VisitsKeepSite
  <2> QED
    BY <1>3, <2>1, <2>2, <2>3, <2>4 DEF Surroundings, controlVars
<1> QED
  BY <1>1, <1>2, <1>3 DEF Next

-----------------------------------------------------------------------------
(* A deploy ends well in one place only, and what it left stays until the   *)
(* next operation: ECS may take the service back, visitors fill the edge    *)
(* with copies of the bucket's own keys.                                   *)

LEMMA OtherEndIsNoDeploy ==
  ASSUME report'.kind # "deploy" \/ report'.outcome # "ok" PROVE DeployedIsWhatRuns'
BY DEF DeployedIsWhatRuns, Reported

LEMMA BusyIsNotDeployed ==
  ASSUME OperationInv, ~At("idle"), UNCHANGED report PROVE DeployedIsWhatRuns'
BY DEF OperationInv, NoReport, DeployedIsWhatRuns, Reported

LEMMA SmokedIsDeployed ==
  ASSUME OperationInv, TargetInv, SiteInv, SmokePublished PROVE DeployedIsWhatRuns'
<1>1. /\ At("browse") /\ Is("deploy") /\ op.sha = report'.sha
      /\ UNCHANGED targetVars /\ UNCHANGED frontendVars
  BY DEF SmokePublished, Ends, OperationInv, Proper, At, Is
<1>2. DeployApplied
  BY <1>1 DEF TargetInv, DeployOK, At
<1>3. Published(op.sha)
  BY <1>1 DEF SiteInv, SiteOK, At
<1>4. /\ StateRuns(remote, op.sha) /\ account.present = Managed
      /\ account.task = remote.world.task
      /\ rollbacks = 0 => account.service = account.task /\ account.desired = 1
  BY <1>2 DEF DeployApplied, ServiceRuns
<1>5. UNCHANGED <<account, remote, rollbacks, bucket, edge>>
  BY <1>1 DEF targetVars, frontendVars
<1>6. StateRuns(remote', report'.sha)
  BY <1>1, <1>4, <1>5
<1> QED
  BY <1>1, <1>3, <1>4, <1>5, <1>6 DEF DeployedIsWhatRuns, Published, StateRuns, StateIsComplete

LEMMA DeployedStays ==
  ASSUME DeployedIsWhatRuns, UNCHANGED <<account, remote, rollbacks, bucket, edge, report>>
  PROVE  DeployedIsWhatRuns'
BY DEF DeployedIsWhatRuns, Reported, StateRuns, StateIsComplete

(* ECS takes back an update. *)
LEMMA RollBackKeepsDeployed ==
  ASSUME AccountIsWorld, rollbacks \in Nat, DeployedIsWhatRuns, RollBack,
         UNCHANGED frontendVars, UNCHANGED report
  PROVE  DeployedIsWhatRuns'
<1>1. /\ rollbacks' # 0 /\ remote' = remote
      /\ account'.present = account.present /\ account'.task = account.task
  BY DEF RollBack, AccountIsWorld
<1>2. bucket' = bucket /\ edge' = edge
  BY DEF frontendVars
<1> QED
  BY <1>1, <1>2 DEF DeployedIsWhatRuns, Reported, StateRuns, StateIsComplete

(* The edge copies what the bucket has, and forgets it. *)
LEMMA VisitsKeepDeployed ==
  ASSUME DeployedIsWhatRuns, UNCHANGED targetVars, UNCHANGED report,
         \/ \E asset \in Assets : CacheAsset(asset)
         \/ \E sha \in Shas : CompletePurge(sha)
  PROVE  DeployedIsWhatRuns'
<1>1. bucket' = bucket /\ (edge \subseteq bucket.assets => edge' \subseteq bucket.assets)
  BY DEF CacheAsset, CompletePurge
<1>2. UNCHANGED <<account, remote, rollbacks>>
  BY DEF targetVars
<1> QED
  BY <1>1, <1>2 DEF DeployedIsWhatRuns, Reported, StateRuns, StateIsComplete

LEMMA StepKeepsDeployed ==
  ASSUME DeliveryInv, SiteInv, DeployedIsWhatRuns, [Next]_vars
  PROVE  DeployedIsWhatRuns'
<1> USE DEF DeliveryInv
<1>1. CASE UNCHANGED vars
  BY <1>1, DeployedStays DEF vars, targetVars, frontendVars, controlVars
<1>2. CASE Operate
  <2>1. ASSUME NEW kind \in Kinds, Dispatch(kind) PROVE DeployedIsWhatRuns'
    BY <2>1, OtherEndIsNoDeploy DEF Dispatch, NoReport
  <2>2. CASE ReadState \/ MakePlan \/ AuditAfter
    <3>1. ~At("idle") /\ (UNCHANGED report \/ report'.outcome = "refused")
      BY <2>2 DEF ReadState, MakePlan, AuditAfter, Gate, GoTo, Ends, At
    <3> QED
      BY <3>1, BusyIsNotDeployed, OtherEndIsNoDeploy
  <2>3. CASE \/ Build \/ StartApply \/ WorkOnApply \/ FinishApply
             \/ StageFrontend \/ Publish \/ FinishPublish \/ SmokeApi
    <3>1. ~At("idle") /\ UNCHANGED report
      BY <2>3 DEF Build, StartApply, WorkOnApply, FinishApply, StageFrontend, Publish,
                  FinishPublish, SmokeApi, GoTo, controlVars, At
    <3> QED
      BY <3>1, BusyIsNotDeployed
  <2>4. CASE ReviewPlan \/ ConfirmReady \/ Scan
    <3>1. op.kind # "deploy" /\ report'.kind = op.kind
      BY <2>4 DEF ReviewPlan, ConfirmReady, Scan, Ends, At, Is, OperationInv, Proper
    <3> QED
      BY <3>1, OtherEndIsNoDeploy
  <2>5. CASE ApplyFails \/ Fail
    <3>1. report' = [kind |-> op.kind, outcome |-> "failed", sha |-> op.sha]
      BY <2>5 DEF ApplyFails, Fail, Ends
    <3>2. report'.outcome # "ok"
      BY <3>1
    <3> QED
      BY <3>2, OtherEndIsNoDeploy
  <2>6. CASE SmokePublished
    BY <2>6, SmokedIsDeployed
  <2> QED
    BY <1>2, <2>1, <2>2, <2>3, <2>4, <2>5, <2>6 DEF Operate
<1>3. CASE Surroundings
  <2>1. CASE RunnerLost \/ RunnerLostPlanning
    <3>1. ~At("idle") /\ UNCHANGED report
      BY <2>1 DEF RunnerLost, RunnerLostPlanning, At
    <3> QED
      BY <3>1, BusyIsNotDeployed
  <2>2. CASE RollBack /\ UNCHANGED frontendVars /\ UNCHANGED report
    BY <2>2, RollBackKeepsDeployed DEF EmptyingInv
  <2>3. CASE /\ (\E asset \in Assets : CacheAsset(asset)) \/ (\E sha \in Shas : CompletePurge(sha))
             /\ UNCHANGED targetVars /\ UNCHANGED report
    BY <2>3, VisitsKeepDeployed
  <2>4. CASE UNCHANGED <<account, remote, rollbacks, bucket, edge, report>>
    BY <2>4, DeployedStays
  <2> QED
    BY <1>3, <2>1, <2>2, <2>3, <2>4
       DEF Surroundings, MainAdvances, Settle, ReleaseStaleLock, targetVars, frontendVars,
           controlVars
<1> QED
  BY <1>1, <1>2, <1>3 DEF Next

(* What a deploy reports is so: the state names the image of its commit, the *)
(* account holds the whole profile with the service on that image unless    *)
(* ECS took it back, and the panel of the same commit is alone in the       *)
(* bucket and at the edge.                                                 *)
THEOREM DeployedIsTrue == Spec => []DeployedIsWhatRuns
<1>1. Init => PublicationInv /\ SiteInv /\ DeployedIsWhatRuns
  BY InitIsPublication, InitEstablishesPublication, InitEstablishesSite
     DEF Init, NoReport, DeployedIsWhatRuns, Reported
<1>2. DeliveryInv /\ (PublicationInv /\ SiteInv /\ DeployedIsWhatRuns) /\ [Next]_vars
      => (PublicationInv /\ SiteInv /\ DeployedIsWhatRuns)'
  BY StepIsPublication, StepKeepsPublication, StepKeepsSite, StepKeepsDeployed DEF DeliveryInv
<1> QED
  BY <1>1, <1>2, DeliveryIsInvariant, PTL DEF Spec

=============================================================================
