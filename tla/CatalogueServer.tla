-------------------------- MODULE CatalogueServer ---------------------------
(***************************************************************************)
(* The API process: the writes of the REST API to the asset catalogue fire *)
(* the webhooks in the same step, the GraphQL mutations and the uploads do *)
(* not, and everything else interleaves.                                   *)
(***************************************************************************)
EXTENDS AssetCatalogue, WebhookHub

serverVars == <<catalogueVars, hookVars>>

ServerInit == CatalogueInit /\ HookInit

(* A write and the webhook event its handler fires. *)
AnnouncedWrite(c) ==
  \/ CreateAsset(c) /\ Fire("asset.created")
  \/ PatchAsset(c) /\ Fire("asset.updated")
  \/ DeleteAsset(c) /\ Fire("asset.deleted")
  \/ ReviewAsset(c, TRUE) /\ Fire("asset.approved")
  \/ ReviewAsset(c, FALSE) /\ Fire("asset.rejected")

ServerNext ==
  \/ \E c \in AssetIds : AnnouncedWrite(c)
  \/ CatalogueQuietNext /\ UNCHANGED hookVars
  \/ HookQuietNext /\ UNCHANGED catalogueVars

ServerSpec ==
  /\ ServerInit /\ [][ServerNext]_serverVars
  /\ CatalogueFairness /\ HookFairness

ServerTypeOK == CatalogueTypeOK /\ HookTypeOK
=============================================================================
