----------------------------- MODULE DeliveryGate -----------------------------
(***************************************************************************)
(* The gates of the AWS delivery (infra/aws/demo/scripts/delivery_gate.py): *)
(* what a pulled state and a Terraform plan must look like before an        *)
(* operation goes on.                                                      *)
(*                                                                         *)
(* A world is what a state records or what the account holds: the managed   *)
(* addresses present, the task revision, and the service with the revision  *)
(* it points to and its desired count.  The other addresses of              *)
(* EXPECTED_MANAGED carry no attribute a later operation can change; they   *)
(* are represented by the frontend (bucket and distribution) and the image  *)
(* repository.                                                             *)
(***************************************************************************)
EXTENDS Naturals, FiniteSets

CONSTANTS
  Shas,          \* commits that can be delivered
  Placeholder,   \* the digest of the empty foundation
  Unset          \* no value

ASSUME IdentityAssumption == Placeholder \notin Shas /\ Unset \notin Shas \cup {Placeholder}

Managed == {"frontend", "repository", "task", "service"}

(* What each address is created after, and deleted before. *)
Needs == [a \in Managed |-> CASE a = "task" -> {"repository"}
                              [] a = "service" -> {"task"}
                              [] OTHER -> {}]

(* An image built from a commit is known by that commit: the tag is        *)
(* immutable and the digest is confirmed when it is pushed.                *)
Images == Shas \cup {Placeholder}

Revision(n, image) == [number |-> n, image |-> image]

NoRevision == Revision(0, Unset)

Nothing == [present |-> {}, task |-> NoRevision, service |-> NoRevision, desired |-> 0]

(* validate_relationships, for the one relation that changes over time. *)
Related(world) ==
  {"task", "service"} \subseteq world.present => world.service = world.task

-----------------------------------------------------------------------------
(* What a state can hold before any resource exists: the data sources, read *)
(* while planning, and the outputs that need nothing but variables.        *)
FromVariables == {"data sources", "outputs"}

(* A state: whether the object exists, the resources it records, the image  *)
(* its outputs name (Unset when there is no such output), and what it holds *)
(* of FromVariables.                                                       *)
NoState == [exists |-> FALSE, world |-> Nothing, ref |-> Unset, given |-> {}]

(* `terraform state list` wrote an empty file: it lists the data sources    *)
(* with the resources, and no output.                                      *)
ListsNothing(state) == state.world.present = {} /\ "data sources" \notin state.given

(* audit_pulled_state: the list and the snapshot, in each mode. *)
StateIsEmpty(state) == ListsNothing(state) /\ state.ref = Unset /\ state.given = {}

(* Mutant: only a complete profile may be destroyed. *)
OnlyCompleteIsDestroyable(state) ==
  state.world.present = Managed /\ Related(state.world)

StateIsDestroyable(state) == state.world.present # {} /\ Related(state.world)

StateIsComplete(state) ==
  /\ state.world.present = Managed
  /\ Related(state.world)
  /\ state.ref # Unset /\ "outputs" \in state.given

StateRuns(state, image) == StateIsComplete(state) /\ state.world.task.image = image

-----------------------------------------------------------------------------
(* A plan: the refreshed world it starts from and one action per address.  *)

Actions == {"no-op", "create", "update", "replace", "delete"}

Idempotent(plan) == \A a \in Managed : plan.change[a] = "no-op"

(* audit_plan, phase "foundation" and phase "foundation-ready". *)
PlanCreatesEverything(plan) == \A a \in Managed : plan.change[a] = "create"

(* Mutant: a plan that only adds what is missing passes for none. *)
PlanChangesNothing(plan) == Idempotent(plan)

(* validate_runtime: nothing at all for the image already running, or the   *)
(* task replaced and the service pointed to it, and nothing else.           *)
PlanSwapsTheImage(plan, image) ==
  \/ /\ Idempotent(plan)
     /\ plan.prior.task.image = image
     /\ plan.prior.service = plan.prior.task
  \/ /\ plan.change = [a \in Managed |-> CASE a = "task" -> "replace"
                                           [] a = "service" -> "update"
                                           [] OTHER -> "no-op"]
     /\ plan.prior.service = plan.prior.task
     /\ plan.image = image

(* audit_plan, mode "review": no deletion but the task's replacement. *)
PlanIsReviewable(plan) ==
  \A a \in Managed :
    plan.change[a] \in {"no-op", "create", "update"} \/ (a = "task" /\ plan.change[a] = "replace")

(* audit_plan, mode "destroy": deletions of a non-empty part of the profile *)
(* whose values before the deletion are related.                           *)
PlanOnlyDestroys(plan) ==
  /\ \E a \in Managed : plan.change[a] = "delete"
  /\ \A a \in Managed : plan.change[a] \in {"delete", "no-op"}
  /\ Related(plan.prior)

=============================================================================
