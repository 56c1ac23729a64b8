-------------------------- MODULE FrontendPublication --------------------------
(***************************************************************************)
(* Publishing the panel (infra/aws/demo/scripts/frontend_delivery.py): the  *)
(* keys of the bucket, the copies at the edge and the invalidations of the  *)
(* distribution.                                                           *)
(*                                                                         *)
(* An asset's name carries a hash of its content, so a key under assets/    *)
(* never changes its bytes and may be cached; the other keys keep their     *)
(* names across publications and are served without a cache.               *)
(***************************************************************************)
EXTENDS DeliveryGate

CONSTANT Bundles   \* the assets of the bundle built from each commit

ASSUME BundleAssumption == DOMAIN Bundles = Shas

VARIABLES
  bucket,    \* index and root: the commit they come from; config; assets
  edge,      \* assets with a copy at the edge
  purges,    \* per caller reference: "none", "InProgress" or "Completed"
  step,      \* of the publication in progress, or "rest"
  publishing, \* the commit it publishes
  puts,      \* assets still to upload
  deletes    \* listed assets that are not of this build, still to delete

frontendVars == <<bucket, edge, purges, step, publishing, puts, deletes>>

Assets == UNION {Bundles[sha] : sha \in Shas}

EmptyBucket == [index |-> Unset, root |-> Unset, config |-> FALSE, assets |-> {}]

NoPurge == [sha \in Shas |-> "none"]

FrontendInit ==
  bucket = EmptyBucket /\ edge = {} /\ purges = NoPurge
  /\ step = "rest" /\ publishing = Unset /\ puts = {} /\ deletes = {}

Goes(from, to) == step = from /\ step' = to

-----------------------------------------------------------------------------
(* Mutant: whatever was listed is cleaned, this build's assets included. *)
ListEverythingForCleaning(sha) ==
  /\ Goes("rest", "assets") /\ publishing' = sha
  /\ puts' = Bundles[sha] /\ deletes' = bucket.assets
  /\ UNCHANGED <<bucket, edge, purges>>

(* stage_frontend and the listing: what to upload, what to clean. *)
List(sha) ==
  /\ Goes("rest", "assets") /\ publishing' = sha
  /\ puts' = Bundles[sha] /\ deletes' = bucket.assets \ Bundles[sha]
  /\ UNCHANGED <<bucket, edge, purges>>

(* What the index depends on goes before the index. *)
PutAsset(asset) ==
  /\ step = "assets" /\ asset \in puts
  /\ bucket' = [bucket EXCEPT !.assets = @ \cup {asset}]
  /\ puts' = puts \ {asset}
  /\ UNCHANGED <<edge, purges, step, publishing, deletes>>

PutRoot ==
  /\ Goes("assets", "config") /\ puts = {}
  /\ bucket' = [bucket EXCEPT !.root = publishing]
  /\ UNCHANGED <<edge, purges, publishing, puts, deletes>>

PutConfig ==
  /\ Goes("config", "index")
  /\ bucket' = [bucket EXCEPT !.config = TRUE]
  /\ UNCHANGED <<edge, purges, publishing, puts, deletes>>

PutIndex ==
  /\ Goes("index", "clean")
  /\ bucket' = [bucket EXCEPT !.index = publishing]
  /\ UNCHANGED <<edge, purges, publishing, puts, deletes>>

DeleteAsset(asset) ==
  /\ step = "clean" /\ asset \in deletes
  /\ bucket' = [bucket EXCEPT !.assets = @ \ {asset}]
  /\ deletes' = deletes \ {asset}
  /\ UNCHANGED <<edge, purges, step, publishing, puts>>

(* The caller reference is the commit: CloudFront answers a reference it    *)
(* has seen with the invalidation it already made.                         *)
Invalidate ==
  /\ Goes("clean", "wait") /\ deletes = {}
  /\ purges' = [purges EXCEPT ![publishing] = IF @ = "none" THEN "InProgress" ELSE @]
  /\ UNCHANGED <<bucket, edge, publishing, puts, deletes>>

(* Mutant: a purge that was asked for counts as done. *)
AwaitNothing ==
  /\ Goes("wait", "rest")
  /\ UNCHANGED <<bucket, edge, purges, publishing, puts, deletes>>

AwaitPurge ==
  /\ Goes("wait", "rest") /\ purges[publishing] = "Completed"
  /\ UNCHANGED <<bucket, edge, purges, publishing, puts, deletes>>

PublishStep ==
  \/ \E asset \in puts : PutAsset(asset)
  \/ PutRoot \/ PutConfig \/ PutIndex
  \/ \E asset \in deletes : DeleteAsset(asset)
  \/ Invalidate

(* A refused call, an exhausted wait or the end of the runner. *)
Abandon ==
  /\ step' = "rest" /\ puts' = {} /\ deletes' = {}
  /\ UNCHANGED <<bucket, edge, purges, publishing>>

-----------------------------------------------------------------------------
(* The distribution, and the visitors behind it. *)

(* A visitor, with whatever document, asks for an asset the bucket has. *)
CacheAsset(asset) ==
  /\ asset \in bucket.assets \ edge
  /\ edge' = edge \cup {asset}
  /\ UNCHANGED <<bucket, purges, step, publishing, puts, deletes>>

CompletePurge(sha) ==
  /\ purges[sha] = "InProgress"
  /\ purges' = [purges EXCEPT ![sha] = "Completed"]
  /\ edge' = {}
  /\ UNCHANGED <<bucket, step, publishing, puts, deletes>>

(* The bucket and the distribution are deleted. *)
Unpublish ==
  /\ step = "rest"
  /\ bucket' = EmptyBucket /\ edge' = {} /\ purges' = NoPurge
  /\ UNCHANGED <<step, publishing, puts, deletes>>

FrontendNext ==
  \/ \E sha \in Shas : List(sha) \/ CompletePurge(sha)
  \/ PublishStep \/ AwaitPurge \/ Abandon
  \/ \E asset \in Assets : CacheAsset(asset)
  \/ Unpublish

FrontendSpec == FrontendInit /\ [][FrontendNext]_frontendVars

-----------------------------------------------------------------------------
(* Whenever there is a document to load, its bundles, the root files and    *)
(* the configuration are served too: publish_frontend uploads the index     *)
(* last and deletes only afterwards, and the same must hold when it is cut   *)
(* anywhere and another build is published over what it left.              *)
DocumentHasItsBundles ==
  bucket.index # Unset =>
    /\ Bundles[bucket.index] \subseteq bucket.assets
    /\ bucket.root # Unset /\ bucket.config

=============================================================================
