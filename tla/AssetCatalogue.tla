--------------------------- MODULE AssetCatalogue ---------------------------
(***************************************************************************)
(* The asset catalogue of the REST and GraphQL API (src/backend/index.js,  *)
(* graphql.js): a JSON file that every handler loads, changes and saves    *)
(* whole, a Redis cache in front of the single-asset read (cache.js), and  *)
(* an in-memory search index.                                              *)
(*                                                                         *)
(* Handlers are one step, except where they await: the cached read waits   *)
(* for Redis, a document upload waits for Pinata.  The Redis client has    *)
(* one connection, on which commands arrive in the order they were sent,   *)
(* and no offline queue: while Redis is away commands fail at once.  The   *)
(* key 'rwa:all' is left out: it is written and deleted, never read.       *)
(***************************************************************************)
EXTENDS Integers, Sequences

CONSTANTS
  AssetIds,         \* contract ids of assets
  RandomIds,        \* those made up by the GraphQL createAsset: too short to
                    \* pass validateContractId, each used once
  Uploads,          \* slots for document uploads under way
  MaxWrites,        \* bound on the writes to the file
  MaxPending,       \* bound on the reads under way
  MaxOutages        \* bound on the losses of the Redis connection

ASSUME CatalogueAssumption ==
  /\ RandomIds \subseteq AssetIds
  /\ MaxWrites \in Nat /\ MaxPending \in Nat /\ MaxOutages \in Nat

VARIABLES
  data,             \* data.json: a record or Absent per contract
  revision,         \* writes so far; stands for the times in the records
  created,          \* random ids handed out
  searchIndex,      \* _searchIndex: the indexed text of each contract, or 0
  uploads,          \* uploads under way, each with the file it has loaded
  cache,            \* Redis: the cached record, or Absent, per contract
  expiring,         \* Redis: keys with a time to live
  wire,             \* commands sent to Redis, not yet executed
  replies,          \* answers to GET on their way back
  up,               \* whether the client is connected
  outages,
  uninvalidated,    \* history: contracts whose last change no DEL followed
  undone            \* history: contracts whose text an upload put back since
                    \* the index was built

fileVars == <<data, revision, created>>
redisVars == <<cache, expiring, wire, replies, up, outages, uninvalidated>>
searchVars == <<searchIndex, undone>>
catalogueVars == <<fileVars, redisVars, searchVars, uploads>>

Absent == [rev |-> 0, text |-> 0, approved |-> FALSE]
Asset == [rev : 0..MaxWrites, text : 0..MaxWrites, approved : BOOLEAN]
Idle == [contract |-> CHOOSE c \in AssetIds : TRUE, loaded |-> <<>>]
Command == [op : {"get", "set", "del"}, key : AssetIds, val : Asset]

CatalogueInit ==
  /\ data = [c \in AssetIds |-> Absent]
  /\ revision = 0
  /\ created = {}
  /\ searchIndex = [c \in AssetIds |-> 0]
  /\ uploads = [u \in Uploads |-> Idle]
  /\ cache = [c \in AssetIds |-> Absent]
  /\ expiring = {}
  /\ wire = <<>>
  /\ replies = <<>>
  /\ up = TRUE
  /\ outages = 0
  /\ uninvalidated = {}
  /\ undone = {}

-----------------------------------------------------------------------------
(* saveData of a file in which `c` was given the record `r`. *)
Save(c, r) ==
  /\ revision < MaxWrites
  /\ revision' = revision + 1
  /\ data' = [data EXCEPT ![c] = r]

(* Mutant of SyncSearchIndex: the index is left as it was. *)
KeepSearchIndex == UNCHANGED searchVars

SyncSearchIndex ==
  /\ searchIndex' = [c \in AssetIds |-> data'[c].text]
  /\ undone' = {}

Send(cmd) == wire' = IF up THEN Append(wire, cmd) ELSE wire

(* cacheDel, not awaited and its failure ignored. *)
CacheDel(c) ==
  /\ Send([op |-> "del", key |-> c, val |-> Absent])
  /\ uninvalidated' = IF up THEN uninvalidated \ {c} ELSE uninvalidated \cup {c}
  /\ UNCHANGED <<cache, expiring, replies, up, outages>>

(* The GraphQL mutations leave the cache alone. *)
LeaveCache(c) ==
  /\ uninvalidated' = uninvalidated \cup {c}
  /\ UNCHANGED <<cache, expiring, wire, replies, up, outages>>

Touched(c) == [data[c] EXCEPT !.rev = revision + 1]

Retitled(c) == [data[c] EXCEPT !.rev = revision + 1, !.text = revision + 1]

-----------------------------------------------------------------------------
(* POST /rwa: create only, pending review. *)
CreateAsset(c) ==
  /\ c \notin RandomIds /\ data[c] = Absent
  /\ Save(c, [rev |-> revision + 1, text |-> revision + 1, approved |-> FALSE])
  /\ SyncSearchIndex
  /\ UNCHANGED <<redisVars, uploads, created>>

(* PATCH /rwa/:contractId *)
PatchAsset(c) ==
  /\ data[c] # Absent
  /\ Save(c, Retitled(c))
  /\ CacheDel(c)
  /\ SyncSearchIndex
  /\ UNCHANGED <<uploads, created>>

(* DELETE /rwa/:contractId *)
DeleteAsset(c) ==
  /\ data[c] # Absent
  /\ Save(c, Absent)
  /\ CacheDel(c)
  /\ SyncSearchIndex
  /\ UNCHANGED <<uploads, created>>

(* POST /rwa/:contractId/approve and /reject: the index is not rebuilt. *)
ReviewAsset(c, verdict) ==
  /\ data[c] # Absent
  /\ Save(c, [Touched(c) EXCEPT !.approved = verdict])
  /\ CacheDel(c)
  /\ UNCHANGED <<uploads, created, searchVars>>

(* The GraphQL createAsset: no status, which isApproved takes for approved. *)
GraphqlCreate(c) ==
  /\ c \in RandomIds \ created
  /\ created' = created \cup {c}
  /\ Save(c, [rev |-> revision + 1, text |-> revision + 1, approved |-> TRUE])
  /\ SyncSearchIndex
  /\ UNCHANGED <<redisVars, uploads>>

(* The GraphQL updateAsset and deleteAsset, on ids that pass validation. *)
GraphqlRewrite(c, r) ==
  /\ c \notin RandomIds /\ data[c] # Absent
  /\ Save(c, r)
  /\ SyncSearchIndex
  /\ LeaveCache(c)
  /\ UNCHANGED <<uploads, created>>

(* The GraphQL approveAsset, pauseAsset and unpauseAsset set fields that    *)
(* the REST API passes on, and not the status it filters on.               *)
GraphqlTouch(c) ==
  /\ c \notin RandomIds /\ data[c] # Absent
  /\ Save(c, Touched(c))
  /\ LeaveCache(c)
  /\ UNCHANGED <<uploads, created, searchVars>>

(* POST /rwa/:contractId/documents up to its await: the file as it is now  *)
(* stays in the handler until Pinata answers.                              *)
UploadBegins(u, c) ==
  /\ uploads[u] = Idle /\ data[c] # Absent
  /\ uploads' = [uploads EXCEPT ![u] = [contract |-> c, loaded |-> data]]
  /\ UNCHANGED <<fileVars, redisVars, searchVars>>

(* The document is stored and the handler saves the file it had loaded:    *)
(* whatever was written since is undone.                                   *)
UploadEnds(u) ==
  /\ uploads[u] # Idle /\ revision < MaxWrites
  /\ LET c == uploads[u].contract
         old == uploads[u].loaded
     IN  /\ revision' = revision + 1
         /\ data' = [old EXCEPT ![c].rev = revision + 1]
         /\ Send([op |-> "del", key |-> c, val |-> Absent])
         /\ uninvalidated' = (IF up THEN uninvalidated \ {c} ELSE uninvalidated \cup {c})
                               \cup {d \in AssetIds \ {c} : old[d] # data[d]}
         /\ undone' = undone \cup {d \in AssetIds : old[d].text # data[d].text}
  /\ uploads' = [uploads EXCEPT ![u] = Idle]
  /\ UNCHANGED <<created, searchIndex, cache, expiring, replies, up, outages>>

(* Pinata refuses: the answer is 502 and nothing is saved. *)
UploadFails(u) ==
  /\ uploads[u] # Idle
  /\ uploads' = [uploads EXCEPT ![u] = Idle]
  /\ UNCHANGED <<fileVars, redisVars, searchVars>>

(* GET /rwa and /rwa/search with a search text: the shared index is        *)
(* rebuilt from the approved assets alone.                                 *)
SearchAssets ==
  /\ searchIndex' = [c \in AssetIds |-> IF data[c].approved THEN data[c].text ELSE 0]
  /\ undone' = {}
  /\ UNCHANGED <<fileVars, redisVars, uploads>>

-----------------------------------------------------------------------------
(* GET /rwa/:contractId up to its await.  Without a connection the handler *)
(* answers from the file at once and changes nothing.                      *)
ReadAsset(c) ==
  /\ up /\ Len(wire) + Len(replies) < MaxPending
  /\ Send([op |-> "get", key |-> c, val |-> Absent])
  /\ UNCHANGED <<fileVars, searchVars, uploads, cache, expiring, replies, up,
                 outages, uninvalidated>>

(* Mutant of FillWith: the handler caches unapproved assets too. *)
FillWithAny(c) == data[c]

(* What a miss puts into the cache: the approved asset, loaded now. *)
FillWith(c) == IF data[c].approved THEN data[c] ELSE Absent

(* The answer to the GET arrives; on a miss the file is loaded and the     *)
(* asset, if it is there and approved, is sent to the cache.               *)
ReadAnswered ==
  /\ replies # <<>>
  /\ replies' = Tail(replies)
  /\ LET c == Head(replies).key
     IN  IF Head(replies).val = Absent /\ FillWith(c) # Absent
         THEN Send([op |-> "set", key |-> c, val |-> FillWith(c)])
         ELSE UNCHANGED wire
  /\ UNCHANGED <<fileVars, searchVars, uploads, cache, expiring, up, outages,
                 uninvalidated>>

(* Mutant of WithExpiry: SET without EX. *)
WithoutExpiry(keys, c) == keys \ {c}

(* SET ... EX CACHE_TTL *)
WithExpiry(keys, c) == keys \cup {c}

(* Redis executes the next command. *)
RedisExecutes ==
  /\ wire # <<>>
  /\ wire' = Tail(wire)
  /\ LET cmd == Head(wire)
     IN  \/ /\ cmd.op = "get"
            /\ replies' = Append(replies, [key |-> cmd.key, val |-> cache[cmd.key]])
            /\ UNCHANGED <<cache, expiring>>
         \/ /\ cmd.op = "set"
            /\ cache' = [cache EXCEPT ![cmd.key] = cmd.val]
            /\ expiring' = WithExpiry(expiring, cmd.key)
            /\ UNCHANGED replies
         \/ /\ cmd.op = "del"
            /\ cache' = [cache EXCEPT ![cmd.key] = Absent]
            /\ expiring' = expiring \ {cmd.key}
            /\ UNCHANGED replies
  /\ UNCHANGED <<fileVars, searchVars, uploads, up, outages, uninvalidated>>

PendingFor(c) == {i \in DOMAIN wire : wire[i].key = c /\ wire[i].op # "get"}

(* A key's time to live is over. *)
Expire(c) ==
  /\ c \in expiring
  /\ cache' = [cache EXCEPT ![c] = Absent]
  /\ expiring' = expiring \ {c}
  /\ uninvalidated' = IF PendingFor(c) = {} THEN uninvalidated \ {c} ELSE uninvalidated
  /\ UNCHANGED <<fileVars, searchVars, uploads, wire, replies, up, outages>>

(* The connection is lost with all that is on it; reads that wait fall     *)
(* back to the file.  If Redis itself went down, it comes back empty.      *)
ConnectionLost(crash) ==
  /\ up /\ outages < MaxOutages
  /\ up' = FALSE
  /\ outages' = outages + 1
  /\ wire' = <<>>
  /\ replies' = <<>>
  /\ cache' = IF crash THEN [c \in AssetIds |-> Absent] ELSE cache
  /\ expiring' = IF crash THEN {} ELSE expiring
  /\ uninvalidated' = IF crash THEN {}
                      ELSE uninvalidated \cup {c \in AssetIds : PendingFor(c) # {}}
  /\ UNCHANGED <<fileVars, searchVars, uploads>>

Reconnect ==
  /\ ~up
  /\ up' = TRUE
  /\ UNCHANGED <<fileVars, searchVars, uploads, cache, expiring, wire, replies,
                 outages, uninvalidated>>

-----------------------------------------------------------------------------
(* The steps besides the writes that tell the webhooks. *)
CatalogueQuietNext ==
  \/ \E c \in AssetIds : \/ GraphqlCreate(c) \/ GraphqlTouch(c)
                          \/ GraphqlRewrite(c, Retitled(c)) \/ GraphqlRewrite(c, Absent)
                          \/ ReadAsset(c) \/ Expire(c)
  \/ \E u \in Uploads : \/ \E c \in AssetIds : UploadBegins(u, c)
                        \/ UploadEnds(u) \/ UploadFails(u)
  \/ SearchAssets \/ ReadAnswered \/ RedisExecutes \/ Reconnect
  \/ \E crash \in BOOLEAN : ConnectionLost(crash)

CatalogueNext ==
  \/ \E c \in AssetIds : \/ CreateAsset(c) \/ PatchAsset(c) \/ DeleteAsset(c)
                          \/ \E verdict \in BOOLEAN : ReviewAsset(c, verdict)
  \/ CatalogueQuietNext

CatalogueSpec == CatalogueInit /\ [][CatalogueNext]_catalogueVars

(* Redis executes what it is sent, answers arrive, keys expire and the     *)
(* client reconnects.                                                      *)
CatalogueFairness ==
  /\ WF_catalogueVars(RedisExecutes) /\ WF_catalogueVars(ReadAnswered)
  /\ WF_catalogueVars(Reconnect)
  /\ \A c \in AssetIds : WF_catalogueVars(Expire(c))

-----------------------------------------------------------------------------
CatalogueTypeOK ==
  /\ data \in [AssetIds -> Asset] /\ revision \in 0..MaxWrites
  /\ created \subseteq RandomIds
  /\ searchIndex \in [AssetIds -> 0..MaxWrites]
  /\ uploads \in [Uploads -> {Idle} \cup [contract : AssetIds, loaded : [AssetIds -> Asset]]]
  /\ cache \in [AssetIds -> Asset] /\ expiring \subseteq AssetIds
  /\ wire \in Seq(Command)
  /\ replies \in Seq([key : AssetIds, val : Asset])
  /\ up \in BOOLEAN /\ outages \in 0..MaxOutages
  /\ uninvalidated \subseteq AssetIds /\ undone \subseteq AssetIds

Fresh(c, val) == val = Absent \/ (val = data[c] /\ val.approved)

(* What Redis holds for a contract once it has executed all it was sent is *)
(* the approved asset of the file, or nothing: a fill sent after a miss    *)
(* can not overtake the invalidation of a later write.  Only a change that *)
(* no DEL followed is excepted: one made through GraphQL or while Redis    *)
(* was away, or undone by an upload of another asset.                      *)
CacheFollowsFile ==
  \A c \in AssetIds \ uninvalidated :
    /\ PendingFor(c) = {} => Fresh(c, cache[c])
    /\ \A i \in PendingFor(c) :
         (\A j \in PendingFor(c) : j <= i) => Fresh(c, wire[i].val)

(* The search index never names an asset that is gone, which searchAssets  *)
(* would fail on, nor an outdated text, unless an upload put the asset     *)
(* back or took it away since the index was built.                         *)
SearchIndexFresh ==
  \A c \in AssetIds \ undone : searchIndex[c] \in {0, data[c].text}

(* Once the writes are over the cache becomes right for good, however the  *)
(* invalidations were lost: every entry has a time to live.                *)
CacheConverges ==
  \A c \in AssetIds : <>[](Fresh(c, cache[c]))
=============================================================================
