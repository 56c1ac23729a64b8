----------------------------- MODULE MCAwsDelivery -----------------------------
(***************************************************************************)
(* A small instance: two commits whose bundles share one asset.            *)
(***************************************************************************)
EXTENDS AwsDelivery

CONSTANTS s1, s2

MCHistory == <<s1, s2>>
MCShas == {s1, s2}
MCBundles == [s \in MCShas |-> {"vendor", IF s = s1 THEN "index-1" ELSE "index-2"}]

=============================================================================
