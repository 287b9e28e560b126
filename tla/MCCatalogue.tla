----------------------------- MODULE MCCatalogue ----------------------------
(***************************************************************************)
(* The API process in two kinds of behaviour: with Redis and no webhook    *)
(* registered, or with webhooks and no Redis, which is how the server runs *)
(* by default.  Both together would only multiply the states: a webhook    *)
(* never looks at the cache, nor the cache at a webhook.                   *)
(***************************************************************************)
EXTENDS CatalogueServer

VARIABLE setup      \* "cache" or "webhooks"

SomeContract == CHOOSE c \in AssetIds \ RandomIds : TRUE

SetupInit ==
  /\ setup \in {"cache", "webhooks"}
  /\ ServerInit

SetupNext ==
  /\ UNCHANGED setup
  /\ \/ /\ setup = "cache"
        /\ \/ \E c \in AssetIds : AnnouncedWrite(c)
           \/ CatalogueQuietNext /\ UNCHANGED hookVars
     \/ /\ setup = "webhooks"
        /\ \/ AnnouncedWrite(SomeContract)
           \/ RedisExecutes /\ UNCHANGED hookVars
           \/ HookQuietNext /\ UNCHANGED catalogueVars

SetupSpec ==
  /\ SetupInit /\ [][SetupNext]_<<serverVars, setup>>
  /\ CatalogueFairness /\ HookFairness
=============================================================================
