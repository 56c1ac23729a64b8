---------------------------- MODULE DeliveryTarget ----------------------------
(***************************************************************************)
(* What the delivery acts on: the AWS account, the remote Terraform state   *)
(* with its lock, and Terraform itself, seen through how the scripts call   *)
(* them and through the resources infra/aws/demo/*.tf declares.            *)
(*                                                                         *)
(* Terraform keeps the state it is changing in the memory of the runner     *)
(* and writes it to the bucket now and then, and at its end whether it      *)
(* succeeded or not; a runner that dies loses what was not written and      *)
(* leaves the lock behind.  A state also holds what needs no resource: data *)
(* sources, in the plan already, and outputs of variables, written by any   *)
(* apply that gets to them.  The task definition has no create_before_destroy *)
(* so a new revision is created after the old one is deregistered, and the  *)
(* service is updated last.  ECS may take an update back by itself          *)
(* (deployment_circuit_breaker with rollback, wait_for_steady_state false). *)
(***************************************************************************)
EXTENDS DeliveryGate

CONSTANTS
  MaxRevision,   \* bound: task revisions registered
  MaxRollbacks   \* bound: updates ECS takes back

VARIABLES
  account,    \* the world of the account
  orphans,    \* task revisions of the account that a newer one has hidden
  rollout,    \* the service revision ECS can still return to, or NoRevision
  rollbacks,  \* how many updates ECS has taken back
  revisions,  \* the last task revision number
  pushed,     \* commits whose image the repository holds
  remote,     \* the state in its bucket
  lock,       \* of the state: "free", "held" by a running Terraform, "stale"
  work,       \* the state as the running Terraform has it
  plan        \* the saved plan

targetVars == <<account, orphans, rollout, rollbacks, revisions, pushed, remote, lock, work, plan>>

NoPlan == [change |-> [a \in Managed |-> "no-op"], prior |-> Nothing,
           image |-> Placeholder, desired |-> 0]

TargetInit ==
  /\ account = Nothing /\ orphans = {} /\ rollout = NoRevision /\ rollbacks = 0 /\ revisions = 0
  /\ pushed = {} /\ remote = NoState /\ lock = "free" /\ work = NoState /\ plan = NoPlan

-----------------------------------------------------------------------------
(* Planning *)

(* A refresh reads every recorded address again, a task by its revision and *)
(* the rest by name: what is gone from the account leaves the record.      *)
Refreshed(world) ==
  LET kept == {a \in world.present \cap account.present :
                 a = "task" => account.task = world.task}
  IN  [present |-> kept,
       task    |-> IF "task" \in kept THEN account.task ELSE NoRevision,
       service |-> IF "service" \in kept THEN account.service ELSE NoRevision,
       desired |-> IF "service" \in kept THEN account.desired ELSE 0]

(* The action for one address when the profile is to run an image. *)
ChangeFor(prior, image, desired, a) ==
  LET swap == "task" \in prior.present /\ prior.task.image # image
      stale == \/ swap \/ "task" \notin prior.present
               \/ prior.service # prior.task \/ prior.desired # desired
  IN  IF a \notin prior.present THEN "create"
      ELSE CASE a = "task" /\ swap     -> "replace"
             [] a = "service" /\ stale -> "update"
             [] OTHER                  -> "no-op"

PlanFor(image, desired) ==
  LET prior == Refreshed(remote.world)
  IN  [change |-> [a \in Managed |-> ChangeFor(prior, image, desired, a)],
       prior |-> prior, image |-> image, desired |-> desired]

(* A destroy aims at no image, and so at no output. *)
DestroyPlan ==
  LET prior == Refreshed(remote.world)
  IN  [change |-> [a \in Managed |-> IF a \in prior.present THEN "delete" ELSE "no-op"],
       prior |-> prior, image |-> Unset, desired |-> 0]

-----------------------------------------------------------------------------
(* Applying: the saved plan, one change of one address at a time, from what *)
(* the planning read.                                                      *)

BeginApply ==
  /\ lock = "free" /\ lock' = "held"
  /\ work' = [exists |-> TRUE, world |-> plan.prior, ref |-> remote.ref,
              given |-> remote.given \cup {"data sources"}]
  /\ UNCHANGED <<account, orphans, rollout, rollbacks, revisions, pushed, remote, plan>>

Pending(a) == plan.change[a] # "no-op"

(* What must be done before an address is changed, or deleted. *)
Ready(a) ==
  /\ Pending(a)
  /\ IF plan.change[a] = "delete"
     THEN \A b \in Managed : a \in Needs[b] => b \notin work.world.present
     ELSE \A b \in Needs[a] : ~Pending(b) /\ b \in work.world.present

Became(a, then) == [plan EXCEPT !.change[a] = then]

Without(world, a) ==
  [present |-> world.present \ {a},
   task    |-> IF a = "task" THEN NoRevision ELSE world.task,
   service |-> IF a = "service" THEN NoRevision ELSE world.service,
   desired |-> IF a = "service" THEN 0 ELSE world.desired]

With(world, a, revision) ==
  [present |-> world.present \cup {a},
   task    |-> IF a = "task" THEN revision ELSE world.task,
   service |-> IF a = "service" THEN revision ELSE world.service,
   desired |-> IF a = "service" THEN plan.desired ELSE world.desired]

(* Both the account and the state in memory see the change. *)
Apply(Change(_)) ==
  /\ account' = Change(account)
  /\ work' = [work EXCEPT !.world = Change(@)]

(* A name that is already taken cannot be created; a task family can get    *)
(* one more revision.                                                      *)
NameIsFree(a) == a = "task" \/ a \notin account.present

CreateTask ==
  /\ Ready("task") /\ plan.change["task"] = "create" /\ revisions < MaxRevision
  /\ LET revision == Revision(revisions + 1, plan.image)
         Change(world) == With(world, "task", revision)
     IN  Apply(Change)
  /\ revisions' = revisions + 1
  /\ plan' = Became("task", "no-op")
  /\ UNCHANGED <<rollout, rollbacks, pushed, remote, lock>>
  /\ orphans' = IF "task" \in account.present THEN orphans \cup {account.task} ELSE orphans

(* The old revision of a replacement goes first. *)
ReplaceTask ==
  /\ Ready("task") /\ plan.change["task"] = "replace"
  /\ LET Change(world) == Without(world, "task") IN Apply(Change)
  /\ plan' = Became("task", "create")
  /\ UNCHANGED <<orphans, rollout, rollbacks, revisions, pushed, remote, lock>>

(* The service is created or updated to the task of the same plan; an       *)
(* update starts a deployment that ECS may still take back.                *)
PointService ==
  /\ Ready("service") /\ plan.change["service"] \in {"create", "update"}
  /\ plan.change["service"] = "create" => NameIsFree("service")
  /\ LET Change(world) == With(world, "service", work.world.task) IN Apply(Change)
  /\ rollout' = IF plan.change["service"] = "update" THEN work.world.service ELSE NoRevision
  /\ plan' = Became("service", "no-op")
  /\ UNCHANGED <<orphans, rollbacks, revisions, pushed, remote, lock>>

CreateOther(a) ==
  /\ Ready(a) /\ plan.change[a] = "create" /\ NameIsFree(a)
  /\ LET Change(world) == With(world, a, NoRevision) IN Apply(Change)
  /\ plan' = Became(a, "no-op")
  /\ UNCHANGED <<orphans, rollout, rollbacks, revisions, pushed, remote, lock>>

(* The buckets and the repository go with what they hold (force_destroy,    *)
(* force_delete).                                                          *)
Delete(a) ==
  /\ Ready(a) /\ plan.change[a] = "delete"
  /\ account' = Without(account, a)
  /\ work' = [work EXCEPT !.world = Without(@, a)]
  /\ rollout' = IF a = "service" THEN NoRevision ELSE rollout
  /\ pushed' = IF a = "repository" THEN {} ELSE pushed
  /\ plan' = Became(a, "no-op")
  /\ UNCHANGED <<orphans, rollbacks, revisions, remote, lock>>

(* The output that names the image needs the repository, the others nothing *)
(* that is modelled; a destroy takes them all away.                        *)
WriteOutputs ==
  /\ \/ /\ plan.image # Unset /\ "repository" \in work.world.present
        /\ work' = [work EXCEPT !.ref = plan.image]
     \/ /\ plan.image # Unset
        /\ work' = [work EXCEPT !.given = @ \cup {"outputs"}]
     \/ /\ plan.image = Unset
        /\ work' = [work EXCEPT !.ref = Unset, !.given = @ \ {"outputs"}]
  /\ work' # work
  /\ UNCHANGED <<account, orphans, rollout, rollbacks, revisions, pushed, remote, lock, plan>>

(* A destroy takes the data sources away too, whatever becomes of the rest. *)
ForgetData ==
  /\ plan.image = Unset /\ "data sources" \in work.given
  /\ work' = [work EXCEPT !.given = @ \ {"data sources"}]
  /\ UNCHANGED <<account, orphans, rollout, rollbacks, revisions, pushed, remote, lock, plan>>

Persist ==
  /\ remote # work /\ remote' = work
  /\ UNCHANGED <<account, orphans, rollout, rollbacks, revisions, pushed, lock, work, plan>>

ApplyStep ==
  /\ lock = "held"
  /\ \/ CreateTask \/ ReplaceTask \/ PointService
     \/ \E a \in {"frontend", "repository"} : CreateOther(a)
     \/ \E a \in Managed : Delete(a)
     \/ WriteOutputs \/ ForgetData \/ Persist

Applied ==
  /\ \A a \in Managed : ~Pending(a)
  /\ work.ref = plan.image
  /\ work.given = IF plan.image = Unset THEN {} ELSE FromVariables

(* Terraform ends, done or not: it writes the state and frees the lock. *)
EndApply ==
  /\ remote' = work /\ lock' = "free" /\ work' = NoState /\ plan' = NoPlan
  /\ UNCHANGED <<account, orphans, rollout, rollbacks, revisions, pushed>>

(* The runner dies under a Terraform that holds the lock. *)
LoseRunner ==
  /\ lock' = (IF lock = "held" THEN "stale" ELSE lock)
  /\ work' = NoState /\ plan' = NoPlan
  /\ UNCHANGED <<account, orphans, rollout, rollbacks, revisions, pushed, remote>>

-----------------------------------------------------------------------------
(* What happens in the account without the scripts. *)

(* The deployment reaches its steady state. *)
Settle ==
  /\ rollout # NoRevision /\ rollout' = NoRevision
  /\ UNCHANGED <<account, orphans, rollbacks, revisions, pushed, remote, lock, work, plan>>

(* Or its tasks keep failing and the circuit breaker returns to the last    *)
(* deployment that worked.                                                 *)
RollBack ==
  /\ rollout # NoRevision /\ rollbacks < MaxRollbacks
  /\ account' = [account EXCEPT !.service = rollout]
  /\ rollout' = NoRevision /\ rollbacks' = rollbacks + 1
  /\ UNCHANGED <<orphans, revisions, pushed, remote, lock, work, plan>>

(* An operator removes a lock nobody holds. *)
ReleaseStaleLock ==
  /\ lock = "stale" /\ lock' = "free"
  /\ UNCHANGED <<account, orphans, rollout, rollbacks, revisions, pushed, remote, work, plan>>

=============================================================================
