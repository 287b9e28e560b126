---------------------------- MODULE Backend_proofs ----------------------------
(***************************************************************************)
(* What holds of the backend for any constants.                            *)
(*                                                                         *)
(* The API process (CatalogueServer): the Redis cache in front of the      *)
(* catalogue never answers with an asset that the file no longer holds,    *)
(* the search index never names one that is gone, and the failures of      *)
(* webhooks are counted as they came, each with the exceptions its         *)
(* property names.  The invariant is that of the catalogue (CatalogueInv), *)
(* that of the webhooks (HookInv), and the index.                          *)
(***************************************************************************)
EXTENDS CatalogueServer, FiniteSetTheorems, TLAPS

(* Fresh with the record of the file as a parameter. *)
Good(r, v) == v = Absent \/ (v = r /\ v.approved)

Pend(w, c) == {i \in DOMAIN w : w[i].key = c /\ w[i].op # "get"}

(* What CacheFollowsFile says of one contract, with record r in the file   *)
(* and v in the cache, when the commands of w are on their way.            *)
Follows(c, w, r, v) ==
  /\ Pend(w, c) = {} => Good(r, v)
  /\ \A i \in Pend(w, c) : (\A j \in Pend(w, c) : j <= i) => Good(r, w[i].val)

(* A random id that was not handed out is in no version of the file. *)
Unborn ==
  \A c \in RandomIds \ created :
    /\ data[c] = Absent
    /\ \A u \in Uploads :
         uploads[u] # Idle => uploads[u].loaded[c] = Absent /\ uploads[u].contract # c

AllFollow == \A c \in AssetIds \ uninvalidated : Follows(c, wire, data[c], cache[c])

CatalogueInv == CatalogueTypeOK /\ Unborn /\ AllFollow

-----------------------------------------------------------------------------
(* With nothing on its way, what the cache holds is what counts.           *)
LEMMA NothingPending ==
  ASSUME NEW c, NEW w \in Seq(Command), w = <<>>, NEW r, NEW v, Good(r, v)
  PROVE  Follows(c, w, r, v)
<1>1. Len(w) = 0 /\ DOMAIN w = 1..Len(w)
  OBVIOUS
<1>2. \A i : i \notin DOMAIN w
  BY <1>1
<1> HIDE DEF Good
<1> QED BY <1>2 DEF Follows, Pend

(* Commands about other contracts, and reads, change nothing.              *)
LEMMA AppendOther ==
  ASSUME NEW c, NEW w \in Seq(Command), NEW r, NEW v, NEW cmd \in Command,
         cmd.key # c \/ cmd.op = "get", Follows(c, w, r, v)
  PROVE  Follows(c, Append(w, cmd), r, v)
<1> DEFINE x == Append(w, cmd)
<1>1. /\ DOMAIN x = 1..(Len(w) + 1) /\ DOMAIN w = 1..Len(w) /\ Len(w) \in Nat
      /\ \A i \in 1..Len(w) : x[i] = w[i]
      /\ x[Len(w) + 1] = cmd
  OBVIOUS
<1> HIDE DEF x
<1>2. Pend(x, c) = Pend(w, c)
  BY <1>1 DEF Pend
<1>3. \A i \in Pend(w, c) : x[i] = w[i]
  BY <1>1 DEF Pend
<1>4. Follows(c, x, r, v)
  BY <1>2, <1>3 DEF Follows
<1> QED BY <1>4 DEF x

(* A SET or DEL that is sent last is the one that counts.                  *)
LEMMA AppendLast ==
  ASSUME NEW c, NEW w \in Seq(Command), NEW r, NEW v, NEW cmd \in Command,
         cmd.key = c, cmd.op # "get", Good(r, cmd.val)
  PROVE  Follows(c, Append(w, cmd), r, v)
<1> DEFINE x == Append(w, cmd)
<1>1. /\ DOMAIN x = 1..(Len(w) + 1) /\ Len(w) \in Nat
      /\ x[Len(w) + 1] = cmd
  OBVIOUS
<1> HIDE DEF x
<1>2. Len(w) + 1 \in Pend(x, c)
  BY <1>1 DEF Pend
<1>3. \A i \in Pend(x, c) : Len(w) + 1 <= i => i = Len(w) + 1
  BY <1>1 DEF Pend
<1>4. Follows(c, x, r, v)
  BY <1>1, <1>2, <1>3 DEF Follows
<1> QED BY <1>4 DEF x

(* Redis executes a command about another contract, or a read.             *)
LEMMA TailOther ==
  ASSUME NEW c, NEW w \in Seq(Command), w # <<>>, NEW r, NEW v,
         Head(w).key # c \/ Head(w).op = "get", Follows(c, w, r, v)
  PROVE  Follows(c, Tail(w), r, v)
<1> DEFINE x == Tail(w)
<1>1. /\ DOMAIN x = 1..(Len(w) - 1) /\ DOMAIN w = 1..Len(w) /\ Len(w) \in Nat
      /\ \A i \in 1..(Len(w) - 1) : x[i] = w[i + 1]
      /\ Head(w) = w[1]
  OBVIOUS
<1> HIDE DEF x
<1>2. \A i \in Pend(x, c) : i + 1 \in Pend(w, c) /\ x[i] = w[i + 1] /\ i \in Nat
  BY <1>1 DEF Pend
<1>3. \A i \in Pend(w, c) : i \in Nat /\ i - 1 \in Pend(x, c)
  BY <1>1 DEF Pend
<1>4. Pend(x, c) = {} => Good(r, v)
  BY <1>3 DEF Follows
<1>5. ASSUME NEW i \in Pend(x, c), \A j \in Pend(x, c) : j <= i PROVE Good(r, x[i].val)
  <2>1. \A j \in Pend(w, c) : j <= i + 1
    BY <1>2, <1>3, <1>5
  <2> QED BY <2>1, <1>2 DEF Follows
<1>6. Follows(c, x, r, v)
  BY <1>4, <1>5 DEF Follows
<1> QED BY <1>6 DEF x

(* Redis executes a SET or DEL of the contract: the cache gets its value,  *)
(* or nothing; if it was the last one, it was a good one.                  *)
LEMMA TailSame ==
  ASSUME NEW c, NEW w \in Seq(Command), w # <<>>, NEW r, NEW v, NEW k,
         Head(w).key = c, Head(w).op # "get", Follows(c, w, r, v),
         k \in {Head(w).val, Absent}
  PROVE  Follows(c, Tail(w), r, k)
<1> DEFINE x == Tail(w)
<1>1. /\ DOMAIN x = 1..(Len(w) - 1) /\ DOMAIN w = 1..Len(w) /\ Len(w) \in Nat
      /\ Len(w) >= 1
      /\ \A i \in 1..(Len(w) - 1) : x[i] = w[i + 1]
      /\ Head(w) = w[1]
  OBVIOUS
<1> HIDE DEF x
<1>2. \A i \in Pend(x, c) : i + 1 \in Pend(w, c) /\ x[i] = w[i + 1] /\ i \in Nat
  BY <1>1 DEF Pend
<1>3. \A i \in Pend(w, c) : i \in Nat /\ (i # 1 => i - 1 \in Pend(x, c))
  BY <1>1 DEF Pend
<1>4. ASSUME Pend(x, c) = {} PROVE Good(r, k)
  <2>1. 1 \in Pend(w, c) /\ \A j \in Pend(w, c) : j <= 1
    BY <1>1, <1>3, <1>4 DEF Pend
  <2>2. Good(r, Head(w).val)
    BY <2>1, <1>1 DEF Follows
  <2> QED BY <2>2 DEF Good
<1>5. ASSUME NEW i \in Pend(x, c), \A j \in Pend(x, c) : j <= i PROVE Good(r, x[i].val)
  <2>1. \A j \in Pend(w, c) : j <= i + 1
    BY <1>2, <1>3, <1>5
  <2> QED BY <2>1, <1>2 DEF Follows
<1>6. Follows(c, x, r, k)
  BY <1>4, <1>5 DEF Follows
<1> QED BY <1>6 DEF x

-----------------------------------------------------------------------------
LEMMA AbsentIsAsset == Absent \in Asset
BY CatalogueAssumption DEF Absent, Asset

(* The records the handlers write are assets, as long as there is a number *)
(* left for the write.                                                     *)
LEMMA RewritesAreAssets ==
  ASSUME CatalogueTypeOK, revision < MaxWrites, NEW c \in AssetIds
  PROVE  /\ revision + 1 \in 0..MaxWrites
         /\ Touched(c) \in Asset /\ Retitled(c) \in Asset
         /\ \A b \in BOOLEAN :
              /\ [Touched(c) EXCEPT !.approved = b] \in Asset
              /\ [rev |-> revision + 1, text |-> revision + 1, approved |-> b] \in Asset
<1>1. revision + 1 \in 0..MaxWrites
  BY CatalogueAssumption DEF CatalogueTypeOK
<1>2. data[c] \in Asset
  BY DEF CatalogueTypeOK
<1> QED BY <1>1, <1>2 DEF Asset, Touched, Retitled

(* Saving one asset keeps the file a file of assets. *)
LEMMA SaveType ==
  ASSUME CatalogueTypeOK, NEW c \in AssetIds, NEW r \in Asset, Save(c, r)
  PROVE  data' \in [AssetIds -> Asset] /\ revision' \in 0..MaxWrites
<1>1. revision + 1 \in 0..MaxWrites
  BY RewritesAreAssets DEF Save
<1> QED BY <1>1 DEF Save, CatalogueTypeOK

(* The index holds the texts of the file. *)
LEMMA SyncType ==
  ASSUME data' \in [AssetIds -> Asset], SyncSearchIndex
  PROVE  searchIndex' \in [AssetIds -> 0..MaxWrites] /\ undone' \subseteq AssetIds
BY DEF SyncSearchIndex, Asset

(* What is sent is a command. *)
LEMMA CacheDelType ==
  ASSUME CatalogueTypeOK, NEW c \in AssetIds, CacheDel(c)
  PROVE  /\ wire' \in Seq(Command) /\ uninvalidated' \subseteq AssetIds
         /\ UNCHANGED <<cache, expiring, replies, up, outages>>
<1>1. [op |-> "del", key |-> c, val |-> Absent] \in Command
  BY AbsentIsAsset DEF Command
<1> QED BY <1>1 DEF CacheDel, Send, CatalogueTypeOK

(* The writes keep the types: through REST or GraphQL, of one asset each.  *)
LEMMA RestWritesKeepType ==
  ASSUME CatalogueTypeOK, NEW c \in AssetIds,
         \/ CreateAsset(c) \/ PatchAsset(c) \/ DeleteAsset(c)
         \/ \E verdict \in BOOLEAN : ReviewAsset(c, verdict)
  PROVE  CatalogueTypeOK'
<1>1. CASE CreateAsset(c)
  <2>1. data' \in [AssetIds -> Asset] /\ revision' \in 0..MaxWrites
    BY <1>1, RewritesAreAssets, SaveType DEF CreateAsset, Save
  <2> QED BY <1>1, <2>1, SyncType DEF CreateAsset, redisVars, CatalogueTypeOK
<1>2. CASE PatchAsset(c)
  <2>1. data' \in [AssetIds -> Asset] /\ revision' \in 0..MaxWrites
    BY <1>2, RewritesAreAssets, SaveType DEF PatchAsset, Save
  <2> QED BY <1>2, <2>1, SyncType, CacheDelType DEF PatchAsset, CatalogueTypeOK
<1>3. CASE DeleteAsset(c)
  <2>1. data' \in [AssetIds -> Asset] /\ revision' \in 0..MaxWrites
    BY <1>3, AbsentIsAsset, SaveType DEF DeleteAsset
  <2> QED BY <1>3, <2>1, SyncType, CacheDelType DEF DeleteAsset, CatalogueTypeOK
<1>4. ASSUME NEW verdict \in BOOLEAN, ReviewAsset(c, verdict) PROVE CatalogueTypeOK'
  <2>1. data' \in [AssetIds -> Asset] /\ revision' \in 0..MaxWrites
    BY <1>4, RewritesAreAssets, SaveType DEF ReviewAsset, Save
  <2> QED BY <1>4, <2>1, CacheDelType DEF ReviewAsset, searchVars, CatalogueTypeOK
<1> QED BY <1>1, <1>2, <1>3, <1>4

LEMMA GraphqlWritesKeepType ==
  ASSUME CatalogueTypeOK, NEW c \in AssetIds,
         \/ GraphqlCreate(c) \/ GraphqlTouch(c)
         \/ GraphqlRewrite(c, Retitled(c)) \/ GraphqlRewrite(c, Absent)
  PROVE  CatalogueTypeOK'
<1>1. CASE GraphqlCreate(c)
  <2>1. data' \in [AssetIds -> Asset] /\ revision' \in 0..MaxWrites
    BY <1>1, RewritesAreAssets, SaveType DEF GraphqlCreate, Save
  <2> QED BY <1>1, <2>1, SyncType DEF GraphqlCreate, redisVars, CatalogueTypeOK
<1>2. CASE GraphqlTouch(c)
  <2>1. data' \in [AssetIds -> Asset] /\ revision' \in 0..MaxWrites
    BY <1>2, RewritesAreAssets, SaveType DEF GraphqlTouch, Save
  <2> QED BY <1>2, <2>1 DEF GraphqlTouch, LeaveCache, searchVars, CatalogueTypeOK
<1>3. ASSUME NEW r \in {Retitled(c), Absent}, GraphqlRewrite(c, r) PROVE CatalogueTypeOK'
  <2>1. r \in Asset
    BY <1>3, RewritesAreAssets, AbsentIsAsset DEF GraphqlRewrite, Save
  <2>2. data' \in [AssetIds -> Asset] /\ revision' \in 0..MaxWrites
    BY <1>3, <2>1, SaveType DEF GraphqlRewrite
  <2> QED BY <1>3, <2>2, SyncType DEF GraphqlRewrite, LeaveCache, CatalogueTypeOK
<1> QED BY <1>1, <1>2, <1>3

(* So do the uploads, with the file they had loaded. *)
LEMMA UploadsKeepType ==
  ASSUME CatalogueTypeOK, NEW u \in Uploads,
         \/ \E c \in AssetIds : UploadBegins(u, c)
         \/ UploadEnds(u) \/ UploadFails(u)
  PROVE  CatalogueTypeOK'
<1>1. ASSUME NEW c \in AssetIds, UploadBegins(u, c) PROVE CatalogueTypeOK'
  BY <1>1 DEF UploadBegins, fileVars, redisVars, searchVars, CatalogueTypeOK
<1>2. CASE UploadFails(u)
  BY <1>2 DEF UploadFails, fileVars, redisVars, searchVars, CatalogueTypeOK
<1>3. CASE UploadEnds(u)
  <2> DEFINE c == uploads[u].contract
             old == uploads[u].loaded
  <2>1. c \in AssetIds /\ old \in [AssetIds -> Asset]
    BY <1>3 DEF UploadEnds, CatalogueTypeOK
  <2>2. revision + 1 \in 0..MaxWrites
    BY <1>3, CatalogueAssumption DEF UploadEnds, CatalogueTypeOK
  <2>3. /\ revision' = revision + 1
        /\ data' = [old EXCEPT ![c].rev = revision + 1]
        /\ Send([op |-> "del", key |-> c, val |-> Absent])
        /\ uploads' = [uploads EXCEPT ![u] = Idle]
        /\ UNCHANGED <<created, searchIndex, cache, expiring, replies, up, outages>>
    BY <1>3 DEF UploadEnds
  <2>4. uninvalidated' \subseteq AssetIds /\ undone' \subseteq AssetIds
    BY <1>3, <2>1 DEF UploadEnds, CatalogueTypeOK
  <2> HIDE DEF c, old
  <2>5. [op |-> "del", key |-> c, val |-> Absent] \in Command
    BY <2>1, AbsentIsAsset DEF Command
  <2>6. wire' \in Seq(Command)
    BY <2>3, <2>5 DEF Send, CatalogueTypeOK
  <2>7. data' \in [AssetIds -> Asset] /\ revision' \in 0..MaxWrites
    BY <2>1, <2>2, <2>3 DEF Asset
  <2>8. uploads' \in [Uploads -> {Idle} \cup [contract : AssetIds, loaded : [AssetIds -> Asset]]]
    BY <2>3 DEF CatalogueTypeOK
  <2> QED BY <2>3, <2>4, <2>6, <2>7, <2>8 DEF CatalogueTypeOK
<1> QED BY <1>1, <1>2, <1>3

(* And everything between the handlers and Redis. *)
LEMMA CacheStepsKeepType ==
  ASSUME CatalogueTypeOK,
         \/ SearchAssets \/ ReadAnswered \/ RedisExecutes \/ Reconnect
         \/ \E c \in AssetIds : ReadAsset(c) \/ Expire(c)
         \/ \E crash \in BOOLEAN : ConnectionLost(crash)
  PROVE  CatalogueTypeOK'
<1>1. CASE SearchAssets
  BY <1>1, CatalogueAssumption
     DEF SearchAssets, fileVars, redisVars, CatalogueTypeOK, Asset
<1>2. CASE ReadAnswered
  <2> DEFINE c == Head(replies).key
             cmd == [op |-> "set", key |-> c, val |-> FillWith(c)]
             Reply == [key : AssetIds, val : Asset]
  <2> HIDE DEF Reply
  <2>0. replies \in Seq(Reply) /\ replies # <<>> /\ replies' = Tail(replies)
    BY <1>2 DEF ReadAnswered, CatalogueTypeOK, Reply
  <2>1. replies' \in Seq(Reply) /\ Head(replies) \in Reply
    BY <2>0
  <2> USE DEF Reply
  <2>2. FillWith(c) \in Asset
    BY <2>1, AbsentIsAsset DEF FillWith, CatalogueTypeOK
  <2>3. cmd \in Command
    BY <2>1, <2>2 DEF Command
  <2>4. wire' = Append(wire, cmd) \/ wire' = wire
    BY <1>2 DEF ReadAnswered, Send
  <2> HIDE DEF cmd
  <2>5. wire' \in Seq(Command)
    <3>1. wire \in Seq(Command)
      BY DEF CatalogueTypeOK
    <3> QED BY ONLY <3>1, <2>3, <2>4
  <2> QED BY <1>2, <2>1, <2>5 DEF ReadAnswered, fileVars, searchVars, CatalogueTypeOK
<1>3. CASE RedisExecutes
  <2> DEFINE cmd == Head(wire)
  <2>1. cmd \in Command /\ wire' \in Seq(Command)
    BY <1>3 DEF RedisExecutes, CatalogueTypeOK
  <2>2. UNCHANGED <<fileVars, searchVars, uploads, up, outages, uninvalidated>>
    BY <1>3 DEF RedisExecutes
  <2>3. \/ /\ replies' = Append(replies, [key |-> cmd.key, val |-> cache[cmd.key]])
           /\ UNCHANGED <<cache, expiring>>
        \/ /\ cache' = [cache EXCEPT ![cmd.key] = cmd.val]
           /\ expiring' = WithExpiry(expiring, cmd.key)
           /\ UNCHANGED replies
        \/ /\ cache' = [cache EXCEPT ![cmd.key] = Absent]
           /\ expiring' = expiring \ {cmd.key}
           /\ UNCHANGED replies
    BY <1>3 DEF RedisExecutes
  <2> HIDE DEF cmd
  <2>4. cmd.key \in AssetIds /\ cmd.val \in Asset
    BY <2>1 DEF Command
  <2>5. /\ replies' \in Seq([key : AssetIds, val : Asset])
        /\ cache' \in [AssetIds -> Asset] /\ expiring' \subseteq AssetIds
    <3>1. [key |-> cmd.key, val |-> cache[cmd.key]] \in [key : AssetIds, val : Asset]
      BY <2>4 DEF CatalogueTypeOK
    <3>2. replies' = replies \/ replies' = Append(replies, [key |-> cmd.key, val |-> cache[cmd.key]])
      BY <2>3
    <3>3. replies' \in Seq([key : AssetIds, val : Asset])
      <4> DEFINE Reply == [key : AssetIds, val : Asset]
                 reply == [key |-> cmd.key, val |-> cache[cmd.key]]
      <4>1. replies \in Seq(Reply) /\ reply \in Reply
        BY <3>1 DEF CatalogueTypeOK
      <4>2. replies' = replies \/ replies' = Append(replies, reply)
        BY <3>2
      <4> HIDE DEF Reply, reply
      <4>3. replies' \in Seq(Reply)
        BY <4>1, <4>2
      <4> QED BY <4>3 DEF Reply
    <3>4. cache' \in [AssetIds -> Asset]
      <4>1. \/ cache' = cache \/ cache' = [cache EXCEPT ![cmd.key] = cmd.val]
            \/ cache' = [cache EXCEPT ![cmd.key] = Absent]
        BY <2>3
      <4> QED BY <4>1, <2>4, AbsentIsAsset DEF CatalogueTypeOK
    <3>5. expiring' \subseteq AssetIds
      <4>1. \/ expiring' = expiring \/ expiring' = expiring \cup {cmd.key}
            \/ expiring' = expiring \ {cmd.key}
        BY <2>3 DEF WithExpiry
      <4> QED BY <4>1, <2>4 DEF CatalogueTypeOK
    <3> QED BY <3>3, <3>4, <3>5
  <2> QED BY <2>1, <2>2, <2>5 DEF fileVars, searchVars, CatalogueTypeOK
<1>4. CASE Reconnect
  BY <1>4 DEF Reconnect, fileVars, searchVars, CatalogueTypeOK
<1>5. ASSUME NEW c \in AssetIds, ReadAsset(c) PROVE CatalogueTypeOK'
  <2>1. [op |-> "get", key |-> c, val |-> Absent] \in Command
    BY AbsentIsAsset DEF Command
  <2>2. wire' \in Seq(Command)
    BY <1>5, <2>1 DEF ReadAsset, Send, CatalogueTypeOK
  <2> QED BY <1>5, <2>2 DEF ReadAsset, fileVars, searchVars, CatalogueTypeOK
<1>6. ASSUME NEW c \in AssetIds, Expire(c) PROVE CatalogueTypeOK'
  BY <1>6, AbsentIsAsset DEF Expire, fileVars, searchVars, CatalogueTypeOK
<1>7. ASSUME NEW crash \in BOOLEAN, ConnectionLost(crash) PROVE CatalogueTypeOK'
  <2>1. outages' \in 0..MaxOutages
    BY <1>7, CatalogueAssumption DEF ConnectionLost, CatalogueTypeOK
  <2>2. wire' \in Seq(Command) /\ replies' \in Seq([key : AssetIds, val : Asset])
    BY <1>7 DEF ConnectionLost
  <2>3. cache' \in [AssetIds -> Asset] /\ expiring' \subseteq AssetIds
    BY <1>7, AbsentIsAsset DEF ConnectionLost, CatalogueTypeOK
  <2> QED BY <1>7, <2>1, <2>2, <2>3
          DEF ConnectionLost, fileVars, searchVars, CatalogueTypeOK
<1> QED BY <1>1, <1>2, <1>3, <1>4, <1>5, <1>6, <1>7

LEMMA CatalogueTypeInit == CatalogueInit => CatalogueTypeOK
BY AbsentIsAsset, CatalogueAssumption DEF CatalogueInit, CatalogueTypeOK

LEMMA CatalogueTypeNext ==
  CatalogueTypeOK /\ [CatalogueNext]_catalogueVars => CatalogueTypeOK'
<1> SUFFICES ASSUME CatalogueTypeOK, [CatalogueNext]_catalogueVars PROVE CatalogueTypeOK'
  OBVIOUS
<1>1. CASE UNCHANGED catalogueVars
  BY <1>1 DEF catalogueVars, fileVars, redisVars, searchVars, CatalogueTypeOK
<1>2. CASE CatalogueQuietNext
  BY <1>2, GraphqlWritesKeepType, UploadsKeepType, CacheStepsKeepType
     DEF CatalogueQuietNext
<1> QED BY <1>1, <1>2, RestWritesKeepType DEF CatalogueNext

-----------------------------------------------------------------------------
(* A random id is in the file from its creation on. *)
LEMMA UnbornNext ==
  ASSUME CatalogueTypeOK, Unborn, [CatalogueNext]_catalogueVars
  PROVE  Unborn'
<1>1. ASSUME NEW c \in AssetIds, NEW r, data[c] # Absent \/ c \notin RandomIds, Save(c, r),
             UNCHANGED <<created, uploads>>
      PROVE  Unborn'
  BY <1>1 DEF Save, Unborn, CatalogueTypeOK
<1>2. ASSUME NEW c \in AssetIds, GraphqlCreate(c) PROVE Unborn'
  BY <1>2 DEF GraphqlCreate, Save, Unborn, CatalogueTypeOK
<1>3. ASSUME NEW c \in AssetIds,
             \/ CreateAsset(c) \/ PatchAsset(c) \/ DeleteAsset(c)
             \/ \E verdict \in BOOLEAN : ReviewAsset(c, verdict)
             \/ GraphqlTouch(c)
             \/ GraphqlRewrite(c, Retitled(c)) \/ GraphqlRewrite(c, Absent)
      PROVE  Unborn'
  BY <1>1, <1>3 DEF CreateAsset, PatchAsset, DeleteAsset, ReviewAsset, GraphqlTouch,
                    GraphqlRewrite
<1>4. ASSUME UNCHANGED <<data, created, uploads>> PROVE Unborn'
  BY <1>4 DEF Unborn
<1>5. ASSUME NEW u \in Uploads, NEW c \in AssetIds, UploadBegins(u, c) PROVE Unborn'
  <2>1. /\ data[c] # Absent /\ UNCHANGED <<data, created>>
        /\ uploads' = [uploads EXCEPT ![u] = [contract |-> c, loaded |-> data]]
    BY <1>5 DEF UploadBegins, fileVars
  <2> QED BY <2>1 DEF Unborn, CatalogueTypeOK
<1>6. ASSUME NEW u \in Uploads, UploadFails(u) PROVE Unborn'
  BY <1>6 DEF UploadFails, fileVars, Unborn, CatalogueTypeOK
<1>7. ASSUME NEW u \in Uploads, UploadEnds(u) PROVE Unborn'
  <2> DEFINE c == uploads[u].contract
             old == uploads[u].loaded
  <2>1. /\ data' = [old EXCEPT ![c].rev = revision + 1]
        /\ uploads' = [uploads EXCEPT ![u] = Idle] /\ created' = created
        /\ uploads[u] # Idle
    BY <1>7 DEF UploadEnds
  <2>2. old \in [AssetIds -> Asset] /\ RandomIds \subseteq AssetIds
    BY <2>1, CatalogueAssumption DEF CatalogueTypeOK
  <2>3. \A d \in RandomIds \ created : old[d] = Absent /\ c # d
    BY <2>1 DEF Unborn
  <2> HIDE DEF c, old
  <2>4. \A d \in RandomIds \ created : data'[d] = Absent
    BY <2>1, <2>2, <2>3
  <2>5. \A v \in Uploads : uploads'[v] # Idle => uploads[v] # Idle /\ uploads'[v] = uploads[v]
    BY <2>1 DEF CatalogueTypeOK
  <2> QED BY <2>1, <2>4, <2>5 DEF Unborn
<1>8. ASSUME UNCHANGED catalogueVars PROVE Unborn'
  BY <1>8, <1>4 DEF catalogueVars, fileVars
<1>9. ASSUME \/ SearchAssets \/ ReadAnswered \/ RedisExecutes \/ Reconnect
             \/ \E c \in AssetIds : ReadAsset(c) \/ Expire(c)
             \/ \E crash \in BOOLEAN : ConnectionLost(crash)
      PROVE  Unborn'
  BY <1>9, <1>4 DEF SearchAssets, ReadAnswered, RedisExecutes, Reconnect, ReadAsset, Expire,
                    ConnectionLost, fileVars
<1> QED BY <1>2, <1>3, <1>5, <1>6, <1>7, <1>8, <1>9 DEF CatalogueNext, CatalogueQuietNext

-----------------------------------------------------------------------------
(* A change that sends a DEL after it. *)
LEMMA DeletingKeepsFollow ==
  ASSUME CatalogueInv, NEW c \in AssetIds,
         Send([op |-> "del", key |-> c, val |-> Absent]), cache' = cache,
         ~up => c \in uninvalidated',
         \A d \in AssetIds \ uninvalidated' :
           d # c => d \notin uninvalidated /\ data'[d] = data[d]
  PROVE  AllFollow'
<1> DEFINE cmd == [op |-> "del", key |-> c, val |-> Absent]
<1>1. cmd \in Command /\ cmd.key = c /\ cmd.op # "get" /\ \A r : Good(r, cmd.val)
  BY AbsentIsAsset DEF Command, Good
<1>2. wire \in Seq(Command)
  BY DEF CatalogueInv, CatalogueTypeOK
<1>3. wire' = IF up THEN Append(wire, cmd) ELSE wire
  BY DEF Send
<1> HIDE DEF cmd
<1> SUFFICES ASSUME NEW d \in AssetIds \ uninvalidated'
             PROVE  Follows(d, wire', data'[d], cache[d])
  BY DEF AllFollow
<1>4. CASE d = c
  <2>1. wire' = Append(wire, cmd)
    BY <1>3, <1>4
  <2> QED BY <2>1, <1>1, <1>2, <1>4, AppendLast
<1>5. CASE d # c
  <2>1. Follows(d, wire, data[d], cache[d]) /\ data'[d] = data[d]
    BY <1>5 DEF CatalogueInv, AllFollow
  <2>2. Follows(d, Append(wire, cmd), data[d], cache[d])
    BY <2>1, <1>1, <1>2, <1>5, AppendOther
  <2> QED BY <2>1, <2>2, <1>3
<1> QED BY <1>4, <1>5

(* A change behind the back of the cache is an exception from then on.     *)
LEMMA LeavingKeepsFollow ==
  ASSUME CatalogueInv, NEW c \in AssetIds, NEW r, Save(c, r), LeaveCache(c)
  PROVE  AllFollow'
BY DEF Save, LeaveCache, AllFollow, CatalogueInv, CatalogueTypeOK

(* What is not in the file is not in the cache when it is created.         *)
LEMMA CreatingKeepsFollow ==
  ASSUME CatalogueInv, NEW c \in AssetIds, data[c] = Absent, NEW r, Save(c, r),
         UNCHANGED redisVars
  PROVE  AllFollow'
<1>1. \A v, x : Good(Absent, v) => Good(x, v)
  BY DEF Good
<1>2. ASSUME Follows(c, wire, Absent, cache[c]) PROVE Follows(c, wire, r, cache[c])
  BY <1>1, <1>2 DEF Follows
<1> QED BY <1>2 DEF Save, redisVars, AllFollow, CatalogueInv, CatalogueTypeOK

(* Every write, through whichever API, leaves what the cache will hold     *)
(* right, or the asset among the exceptions.                               *)
LEMMA WritesKeepFollow ==
  ASSUME CatalogueInv, NEW c \in AssetIds,
         \/ CreateAsset(c) \/ PatchAsset(c) \/ DeleteAsset(c)
         \/ \E verdict \in BOOLEAN : ReviewAsset(c, verdict)
         \/ GraphqlCreate(c) \/ GraphqlTouch(c)
         \/ GraphqlRewrite(c, Retitled(c)) \/ GraphqlRewrite(c, Absent)
  PROVE  AllFollow'
<1>1. ASSUME NEW r, Save(c, r), CacheDel(c) PROVE AllFollow'
  <2>1. cache' = cache /\ Send([op |-> "del", key |-> c, val |-> Absent])
    BY <1>1 DEF CacheDel
  <2>2. uninvalidated' = IF up THEN uninvalidated \ {c} ELSE uninvalidated \cup {c}
    BY <1>1 DEF CacheDel
  <2>3. \A d \in AssetIds : d # c => data'[d] = data[d]
    BY <1>1 DEF Save, CatalogueInv, CatalogueTypeOK
  <2> QED BY <2>1, <2>2, <2>3, DeletingKeepsFollow
<1>2. CASE PatchAsset(c) \/ DeleteAsset(c) \/ \E verdict \in BOOLEAN : ReviewAsset(c, verdict)
  BY <1>1, <1>2 DEF PatchAsset, DeleteAsset, ReviewAsset
<1>3. CASE CreateAsset(c)
  BY <1>3, CreatingKeepsFollow DEF CreateAsset
<1>4. CASE GraphqlCreate(c)
  <2>1. data[c] = Absent
    BY <1>4 DEF GraphqlCreate, CatalogueInv, Unborn
  <2> QED BY <1>4, <2>1, CreatingKeepsFollow DEF GraphqlCreate
<1>5. CASE GraphqlTouch(c) \/ GraphqlRewrite(c, Retitled(c)) \/ GraphqlRewrite(c, Absent)
  BY <1>5, LeavingKeepsFollow DEF GraphqlTouch, GraphqlRewrite
<1> QED BY <1>2, <1>3, <1>4, <1>5

(* A stale upload puts the assets it undoes among the exceptions.          *)
LEMMA UploadEndKeepsFollow ==
  ASSUME CatalogueInv, NEW u \in Uploads, UploadEnds(u)
  PROVE  AllFollow'
<1> DEFINE c == uploads[u].contract
           old == uploads[u].loaded
<1>1. c \in AssetIds /\ old \in [AssetIds -> Asset]
  BY DEF UploadEnds, CatalogueInv, CatalogueTypeOK
<1>2. /\ data' = [old EXCEPT ![c].rev = revision + 1]
      /\ Send([op |-> "del", key |-> c, val |-> Absent])
      /\ uninvalidated' = (IF up THEN uninvalidated \ {c} ELSE uninvalidated \cup {c})
                             \cup {d \in AssetIds \ {c} : old[d] # data[d]}
      /\ cache' = cache
  BY DEF UploadEnds
<1> HIDE DEF c, old
<1>3. \A d \in AssetIds : d # c => data'[d] = old[d]
  BY <1>1, <1>2
<1>4. \A d \in AssetIds \ uninvalidated' :
        d # c => d \notin uninvalidated /\ data'[d] = data[d]
  BY <1>2, <1>3
<1>5. ~up => c \in uninvalidated'
  BY <1>2
<1> QED BY <1>1, <1>2, <1>4, <1>5, DeletingKeepsFollow

(* A read sends a GET; its miss sends what the file holds now.             *)
LEMMA ReadsKeepFollow ==
  ASSUME CatalogueInv, ReadAnswered \/ \E c \in AssetIds : ReadAsset(c)
  PROVE  AllFollow'
<1>1. wire \in Seq(Command)
  BY DEF CatalogueInv, CatalogueTypeOK
<1>2. UNCHANGED <<data, cache, uninvalidated>>
  BY DEF ReadAnswered, ReadAsset, fileVars
<1> SUFFICES ASSUME NEW d \in AssetIds \ uninvalidated PROVE Follows(d, wire', data[d], cache[d])
  BY <1>2 DEF AllFollow
<1>3. Follows(d, wire, data[d], cache[d])
  BY DEF CatalogueInv, AllFollow
<1>4. ASSUME NEW c \in AssetIds, ReadAsset(c) PROVE Follows(d, wire', data[d], cache[d])
  <2> DEFINE cmd == [op |-> "get", key |-> c, val |-> Absent]
  <2>1. cmd \in Command /\ cmd.op = "get"
    BY AbsentIsAsset DEF Command
  <2>2. wire' = Append(wire, cmd)
    BY <1>4 DEF ReadAsset, Send
  <2> HIDE DEF cmd
  <2> QED BY <2>1, <2>2, <1>1, <1>3, AppendOther
<1>5. ASSUME ReadAnswered PROVE Follows(d, wire', data[d], cache[d])
  <2> DEFINE c == Head(replies).key
             cmd == [op |-> "set", key |-> c, val |-> FillWith(c)]
             Reply == [key : AssetIds, val : Asset]
  <2> HIDE DEF Reply
  <2>1. replies \in Seq(Reply) /\ replies # <<>>
    BY <1>5 DEF ReadAnswered, CatalogueInv, CatalogueTypeOK, Reply
  <2>2. Head(replies) \in Reply
    BY <2>1
  <2>3. c \in AssetIds
    BY <2>2 DEF Reply
  <2>4. FillWith(c) \in Asset /\ Good(data[c], FillWith(c))
    BY <2>3, AbsentIsAsset DEF FillWith, Good, CatalogueInv, CatalogueTypeOK
  <2>5. cmd \in Command /\ cmd.key = c /\ cmd.op # "get" /\ cmd.val = FillWith(c)
    BY <2>3, <2>4 DEF Command
  <2>6. wire' = Append(wire, cmd) \/ wire' = wire
    BY <1>5 DEF ReadAnswered, Send
  <2> HIDE DEF cmd, c
  <2>7. CASE c = d
    <3>1. Follows(d, Append(wire, cmd), data[d], cache[d])
      BY <2>4, <2>5, <2>7, <1>1, AppendLast
    <3> QED BY <3>1, <2>6, <1>3
  <2>8. CASE c # d
    <3>1. Follows(d, Append(wire, cmd), data[d], cache[d])
      BY <2>5, <2>8, <1>1, <1>3, AppendOther
    <3> QED BY <3>1, <2>6, <1>3
  <2> QED BY <2>7, <2>8
<1> QED BY <1>4, <1>5

(* Redis executes the next command. *)
LEMMA RedisKeepsFollow ==
  ASSUME CatalogueInv, RedisExecutes
  PROVE  AllFollow'
<1> DEFINE cmd == Head(wire)
<1>1. /\ wire \in Seq(Command) /\ wire # <<>> /\ wire' = Tail(wire)
      /\ UNCHANGED <<data, uninvalidated>>
  BY DEF RedisExecutes, fileVars, CatalogueInv, CatalogueTypeOK
<1>2. cmd \in Command
  BY <1>1
<1>3. \/ cmd.op = "get" /\ cache' = cache
      \/ cmd.op \in {"set", "del"} /\ \E k \in {cmd.val, Absent} :
                                      cache' = [cache EXCEPT ![cmd.key] = k]
  BY DEF RedisExecutes
<1> HIDE DEF cmd
<1> SUFFICES ASSUME NEW d \in AssetIds \ uninvalidated
             PROVE  Follows(d, Tail(wire), data[d], cache'[d])
  BY <1>1 DEF AllFollow
<1>4. Follows(d, wire, data[d], cache[d])
  BY DEF CatalogueInv, AllFollow
<1>5. cache \in [AssetIds -> Asset]
  BY DEF CatalogueInv, CatalogueTypeOK
<1>6. CASE cmd.op = "get" \/ cmd.key # d
  <2>1. cache'[d] = cache[d]
    BY <1>3, <1>5, <1>6
  <2>2. Follows(d, Tail(wire), data[d], cache[d])
    BY <1>1, <1>4, <1>6, TailOther DEF cmd
  <2> QED BY <2>1, <2>2
<1>7. CASE cmd.op # "get" /\ cmd.key = d
  <2>1. cache'[d] \in {cmd.val, Absent}
    BY <1>3, <1>5, <1>7
  <2> QED BY <2>1, <1>1, <1>4, <1>7, TailSame DEF cmd
<1> QED BY <1>6, <1>7

(* Expiry and the loss of the connection only empty the cache and the wire. *)
LEMMA LossesKeepFollow ==
  ASSUME CatalogueInv,
         \/ \E c \in AssetIds : Expire(c)
         \/ \E crash \in BOOLEAN : ConnectionLost(crash)
  PROVE  AllFollow'
<1>1. \A c : Pend(wire, c) = PendingFor(c)
  BY DEF Pend, PendingFor
<1>2. ASSUME NEW c \in AssetIds, Expire(c) PROVE AllFollow'
  <2>1. /\ cache' = [cache EXCEPT ![c] = Absent] /\ UNCHANGED <<data, wire>>
        /\ uninvalidated' = IF Pend(wire, c) = {} THEN uninvalidated \ {c} ELSE uninvalidated
    BY <1>1, <1>2 DEF Expire, fileVars
  <2> SUFFICES ASSUME NEW d \in AssetIds \ uninvalidated'
               PROVE  Follows(d, wire, data[d], cache'[d])
    BY <2>1 DEF AllFollow
  <2>2. cache \in [AssetIds -> Asset]
    BY DEF CatalogueInv, CatalogueTypeOK
  <2>3. CASE d # c
    BY <2>1, <2>2, <2>3 DEF CatalogueInv, AllFollow
  <2>4. CASE d = c
    BY <2>1, <2>2, <2>4 DEF CatalogueInv, AllFollow, Follows, Good
  <2> QED BY <2>3, <2>4
<1>3. ASSUME NEW crash \in BOOLEAN, ConnectionLost(crash) PROVE AllFollow'
  <2>1. /\ data' = data /\ wire' = <<>>
        /\ cache' = IF crash THEN [c \in AssetIds |-> Absent] ELSE cache
        /\ uninvalidated' = IF crash THEN {}
                            ELSE uninvalidated \cup {c \in AssetIds : Pend(wire, c) # {}}
    BY <1>1, <1>3 DEF ConnectionLost, fileVars
  <2>2. <<>> \in Seq(Command)
    OBVIOUS
  <2> SUFFICES ASSUME NEW d \in AssetIds \ uninvalidated' PROVE Good(data[d], cache'[d])
    BY <2>1, <2>2, NothingPending DEF AllFollow
  <2>3. CASE crash
    BY <2>1, <2>3 DEF Good
  <2>4. CASE ~crash
    BY <2>1, <2>4 DEF CatalogueInv, AllFollow, Follows
  <2> QED BY <2>3, <2>4
<1> QED BY <1>2, <1>3

-----------------------------------------------------------------------------
LEMMA CatalogueInvInit == CatalogueInit => CatalogueInv
<1> SUFFICES ASSUME CatalogueInit PROVE CatalogueInv
  OBVIOUS
<1>1. CatalogueTypeOK
  BY CatalogueTypeInit
<1>2. Unborn
  BY CatalogueAssumption DEF CatalogueInit, Unborn
<1>3. AllFollow
  <2>1. <<>> \in Seq(Command) /\ wire = <<>>
    BY DEF CatalogueInit
  <2>2. \A c \in AssetIds : Good(data[c], cache[c])
    BY DEF CatalogueInit, Good
  <2> QED BY <2>1, <2>2, NothingPending DEF AllFollow
<1> QED BY <1>1, <1>2, <1>3 DEF CatalogueInv

LEMMA CatalogueInvNext ==
  CatalogueInv /\ [CatalogueNext]_catalogueVars => CatalogueInv'
<1> SUFFICES ASSUME CatalogueInv, [CatalogueNext]_catalogueVars PROVE CatalogueInv'
  OBVIOUS
<1>1. CatalogueTypeOK' /\ Unborn'
  BY CatalogueTypeNext, UnbornNext DEF CatalogueInv
<1>2. ASSUME UNCHANGED <<data, cache, wire, uninvalidated>> PROVE AllFollow'
  BY <1>2 DEF CatalogueInv, AllFollow
<1>3. ASSUME \/ SearchAssets \/ Reconnect
             \/ \E u \in Uploads : \/ UploadFails(u)
                                   \/ \E c \in AssetIds : UploadBegins(u, c)
             \/ UNCHANGED catalogueVars
      PROVE  AllFollow'
  BY <1>2, <1>3 DEF SearchAssets, Reconnect, UploadFails, UploadBegins, catalogueVars,
                    fileVars, redisVars
<1>4. AllFollow'
  BY <1>3, WritesKeepFollow, UploadEndKeepsFollow, ReadsKeepFollow, RedisKeepsFollow,
     LossesKeepFollow DEF CatalogueNext, CatalogueQuietNext
<1> QED BY <1>1, <1>4 DEF CatalogueInv

-----------------------------------------------------------------------------
Deliveries == UNION {[hs -> Delivery] : hs \in SUBSET Hooks}
Firing == [loaded : [Hooks -> Hook], over : BOOLEAN, deliveries : Deliveries]

(* Firings that have saved what they counted. *)
Over == {f \in DOMAIN firings : firings[f].over}

(* A version of the file, in which no webhook has counted more failures    *)
(* than n, and an id not given out is not in it.                            *)
FileOK(file, ids, n) ==
  /\ file \in [Hooks -> Hook]
  /\ \A h \in Hooks : /\ file[h].failureCount <= n
                      /\ file[h] # None => file[h].present
                      /\ h \notin ids => file[h] = None

HookInv ==
  /\ HookTypeOK
  /\ firings \in Seq(Firing) /\ Len(firings) <= MaxFirings
  /\ FileOK(hooks, used, Cardinality(Over))
  /\ \A f \in DOMAIN firings :
       /\ FileOK(firings[f].loaded, used, Cardinality(Over))
       /\ \A h \in DOMAIN firings[f].deliveries : h \in Hooks /\ firings[f].loaded[h].active
  /\ \A h \in Hooks : row[h] <= Cardinality(Over) /\ (h \notin used => row[h] = 0)
  /\ FailuresCounted

-----------------------------------------------------------------------------
(* A set of indices of a sequence has no more elements than the sequence.  *)
LEMMA PartOfRange ==
  ASSUME NEW m \in Nat, NEW S, S \subseteq 1..m
  PROVE  IsFiniteSet(S) /\ Cardinality(S) \in Nat /\ Cardinality(S) <= m
<1>1. m \in Int /\ 1 \in Int
  OBVIOUS
<1>2. IsFiniteSet(1..m)
  BY <1>1, FS_Interval
<1>3. Cardinality(1..m) = IF 1 > m THEN 0 ELSE m - 1 + 1
  BY <1>1, FS_Interval
<1>4. Cardinality(1..m) = m
  BY <1>3
<1>5. S \in SUBSET (1..m)
  OBVIOUS
<1>6. IsFiniteSet(S) /\ Cardinality(S) <= Cardinality(1..m)
  BY <1>2, <1>5, FS_Subset
<1> QED BY <1>4, <1>6, FS_CardinalityType

LEMMA OverCounted ==
  ASSUME HookInv
  PROVE  /\ IsFiniteSet(Over) /\ Cardinality(Over) \in 0..MaxFirings
         /\ \A f \in Waiting : Cardinality(Over \cup {f}) = Cardinality(Over) + 1
                               /\ Cardinality(Over) + 1 <= MaxFirings
<1>1. DOMAIN firings = 1..Len(firings) /\ Len(firings) \in Nat /\ Len(firings) <= MaxFirings
  BY DEF HookInv
<1>2. Over \subseteq 1..Len(firings)
  BY <1>1 DEF Over
<1>3. IsFiniteSet(Over) /\ Cardinality(Over) \in Nat /\ Cardinality(Over) <= Len(firings)
  BY <1>1, <1>2, PartOfRange
<1>4. ASSUME NEW f \in Waiting
      PROVE  Cardinality(Over \cup {f}) = Cardinality(Over) + 1 /\ Cardinality(Over) + 1 <= MaxFirings
  <2>1. f \notin Over /\ Over \cup {f} \subseteq 1..Len(firings)
    BY <1>1, <1>2 DEF Waiting, Over
  <2>2. Cardinality(Over \cup {f}) = Cardinality(Over) + 1
    BY <2>1, <1>3, FS_AddElement
  <2>3. Cardinality(Over \cup {f}) <= Len(firings)
    BY <2>1, <1>1, PartOfRange
  <2>4. MaxFirings \in Nat
    BY HookAssumption
  <2> QED BY ONLY <2>2, <2>3, <2>4, <1>1, <1>3
<1>5. MaxFirings \in Nat
  BY HookAssumption
<1>6. Cardinality(Over) \in 0..MaxFirings
  BY <1>1, <1>3, <1>5
<1> QED BY <1>3, <1>4, <1>6

LEMMA FileGrows ==
  ASSUME NEW file, NEW ids, NEW more, ids \subseteq more, NEW m \in Nat, NEW n \in Nat, m <= n,
         FileOK(file, ids, m)
  PROVE  FileOK(file, more, n)
BY DEF FileOK, Hook

(* A handler that edits one entry of the file. *)
LEMMA EditsKeepInv ==
  ASSUME HookInv, NEW h \in Hooks,
         \/ \E events \in SUBSET Events, active \in BOOLEAN :
              RegisterHook(h, events, active) \/ PatchHook(h, events, active)
         \/ DeleteHook(h)
  PROVE  HookInv'
<1> DEFINE n == Cardinality(Over)
<1>1. n \in Nat
  BY OverCounted
<1>2. PICK r : Edit(h, r) /\ r \in Hook /\ r.failureCount <= n
               /\ (r # None => r.present /\ h \in used')
               /\ used \subseteq used' /\ used' \subseteq Hooks /\ live' \subseteq used' /\ switchedOn' \subseteq Hooks
  <2>1. ASSUME NEW events \in SUBSET Events, NEW active \in BOOLEAN,
               RegisterHook(h, events, active)
        PROVE  \E r : Edit(h, r) /\ r \in Hook /\ r.failureCount <= n
               /\ (r # None => r.present /\ h \in used')
               /\ used \subseteq used' /\ used' \subseteq Hooks /\ live' \subseteq used' /\ switchedOn' \subseteq Hooks
    BY <2>1, <1>1, HookAssumption DEF RegisterHook, Hook, HookInv, HookTypeOK
  <2>2. ASSUME NEW events \in SUBSET Events, NEW active \in BOOLEAN,
               PatchHook(h, events, active)
        PROVE  \E r : Edit(h, r) /\ r \in Hook /\ r.failureCount <= n
               /\ (r # None => r.present /\ h \in used')
               /\ used \subseteq used' /\ used' \subseteq Hooks /\ live' \subseteq used' /\ switchedOn' \subseteq Hooks
    <3> DEFINE r == [hooks[h] EXCEPT !.events = events, !.active = active]
    <3>1. r \in Hook /\ r.failureCount <= n /\ r.present /\ h \in used
      BY <2>2 DEF PatchHook, HookInv, FileOK, Hook
    <3>2. Edit(h, r) /\ UNCHANGED <<used, live>> /\ switchedOn' \subseteq Hooks
      BY <2>2 DEF PatchHook, HookInv, HookTypeOK
    <3> HIDE DEF r
    <3> QED BY <3>1, <3>2 DEF HookInv, HookTypeOK
  <2>3. ASSUME DeleteHook(h)
        PROVE  \E r : Edit(h, r) /\ r \in Hook /\ r.failureCount <= n
               /\ (r # None => r.present /\ h \in used')
               /\ used \subseteq used' /\ used' \subseteq Hooks /\ live' \subseteq used' /\ switchedOn' \subseteq Hooks
    <3>1. None \in Hook /\ None.failureCount <= n
      BY <1>1, HookAssumption DEF None, Hook
    <3>2. Edit(h, None) /\ used' = used /\ switchedOn' = switchedOn /\ live' = live \ {h}
      BY <2>3 DEF DeleteHook
    <3> QED BY <3>1, <3>2 DEF HookInv, HookTypeOK
  <2> QED BY <2>1, <2>2, <2>3
<1>3. /\ hooks' = [hooks EXCEPT ![h] = r] /\ edits < MaxEdits /\ edits' = edits + 1
      /\ UNCHANGED <<firings, row, overwritten>>
  BY <1>2 DEF Edit
<1>4. Over' = Over
  BY <1>3 DEF Over
<1>5. FileOK(hooks', used', n)
  BY <1>1, <1>2, <1>3 DEF HookInv, FileOK
<1>6. \A f \in DOMAIN firings : FileOK(firings[f].loaded, used', n)
  BY <1>1, <1>2, FileGrows DEF HookInv
<1>7. HookTypeOK'
  <2>1. hooks' \in [Hooks -> Hook]
    BY <1>5 DEF FileOK
  <2> QED BY <2>1, <1>2, <1>3, HookAssumption DEF HookInv, HookTypeOK
<1>8. FailuresCounted'
  <2> SUFFICES ASSUME NEW g \in Hooks \ overwritten
               PROVE  /\ g \in live' <=> hooks'[g] # None
                      /\ g \in live' => /\ hooks'[g].failureCount = row[g]
                                        /\ row[g] >= FailureLimit /\ hooks'[g].active => g \in switchedOn'
    BY <1>3 DEF FailuresCounted
  <2>1. hooks \in [Hooks -> Hook] /\ row[h] \in Nat
    BY HookAssumption DEF HookInv, HookTypeOK
  <2>2. CASE g # h
    <3>1. hooks'[g] = hooks[g] /\ (g \in live' <=> g \in live) /\ (g \in switchedOn => g \in switchedOn')
      BY <2>1, <2>2, <1>3 DEF RegisterHook, PatchHook, DeleteHook
    <3> QED BY <3>1 DEF HookInv, FailuresCounted
  <2>3. CASE g = h
    <3>1. ASSUME NEW events \in SUBSET Events, NEW active \in BOOLEAN,
                 RegisterHook(h, events, active)
          PROVE  /\ h \in live' /\ hooks'[h] # None /\ hooks'[h].failureCount = row[h] /\ row[h] = 0
      <4>1. hooks'[h] = [present |-> TRUE, events |-> events, active |-> active,
                            failureCount |-> 0]
        BY <2>1, <3>1 DEF RegisterHook, Edit
      <4> QED BY <4>1, <3>1 DEF RegisterHook, None, HookInv
    <3>2. ASSUME NEW events \in SUBSET Events, NEW active \in BOOLEAN,
                 PatchHook(h, events, active)
          PROVE  /\ g \in live' <=> hooks'[g] # None
                 /\ g \in live' => /\ hooks'[g].failureCount = row[g]
                                   /\ row[g] >= FailureLimit /\ hooks'[g].active => g \in switchedOn'
      <4>1. /\ hooks'[h] = [hooks[h] EXCEPT !.events = events, !.active = active] /\ live' = live /\ hooks[h] # None
            /\ active /\ row[h] >= FailureLimit => h \in switchedOn'
        BY <2>1, <3>2 DEF PatchHook, Edit
      <4>2. hooks[h] \in Hook /\ hooks[h].present /\ h \in live
        BY <2>3, <4>1 DEF HookInv, FileOK, FailuresCounted
      <4>3. hooks'[h].failureCount = hooks[h].failureCount /\ hooks'[h].active = active
            /\ hooks'[h].present
        BY <4>1, <4>2 DEF Hook
      <4>4. hooks'[h] # None
        BY <4>3 DEF None
      <4>5. hooks[h].failureCount = row[h]
        BY <2>3, <4>2 DEF HookInv, FailuresCounted
      <4> QED BY <2>3, <4>1, <4>2, <4>3, <4>4, <4>5
    <3>3. ASSUME DeleteHook(h) PROVE h \notin live' /\ hooks'[h] = None
      BY <2>1, <3>3 DEF DeleteHook, Edit
    <3> QED BY <2>3, <3>1, <3>2, <3>3, HookAssumption
  <2> QED BY <2>2, <2>3
<1>9. \A g \in Hooks : g \notin used' => row[g] = 0
  BY <1>2 DEF HookInv
<1>10. \A g \in Hooks : row[g] <= n
  BY DEF HookInv
<1> QED BY <1>3, <1>4, <1>5, <1>6, <1>7, <1>8, <1>9, <1>10 DEF HookInv

(* A call of fireWebhooks, for whatever event: the copy of the file it     *)
(* takes is as good as the file.                                           *)
LEMMA FiringsStart ==
  ASSUME HookInv, NEW event, Fire(event)
  PROVE  HookInv'
<1>1. CASE Addressed(hooks, event) = {}
  BY <1>1 DEF Fire, hookVars, historyVars, HookInv, HookTypeOK, FailuresCounted, Over
<1>2. CASE Addressed(hooks, event) # {}
  <2> DEFINE d == [h \in Addressed(hooks, event) |-> [attempt |-> 1, status |-> "trying"]]
             new == [loaded |-> hooks, over |-> FALSE, deliveries |-> d]
  <2>1. /\ Len(firings) < MaxFirings /\ firings' = Append(firings, new)
        /\ UNCHANGED <<hooks, edits, used, live, row, switchedOn, overwritten>>
    BY <1>2 DEF Fire, historyVars
  <2>2. Addressed(hooks, event) \subseteq Hooks
        /\ \A h \in Addressed(hooks, event) : hooks[h].active
    BY DEF Addressed
  <2>3. d \in Deliveries /\ DOMAIN d = Addressed(hooks, event)
    <3>1. [attempt |-> 1, status |-> "trying"] \in Delivery
      BY HookAssumption DEF Delivery
    <3> QED BY <2>2, <3>1 DEF Deliveries
  <2>4. hooks \in [Hooks -> Hook]
    BY DEF HookInv, HookTypeOK
  <2>5. new \in Firing /\ new.loaded = hooks /\ new.over = FALSE /\ DOMAIN new.deliveries = Addressed(hooks, event)
    BY <2>3, <2>4 DEF Firing
  <2> HIDE DEF d, new
  <2>6. firings \in Seq(Firing) /\ Len(firings) \in Nat /\ DOMAIN firings = 1..Len(firings)
    BY DEF HookInv
  <2>7. /\ firings' \in Seq(Firing) /\ Len(firings') = Len(firings) + 1
        /\ DOMAIN firings' = 1..Len(firings) + 1
        /\ \A f \in DOMAIN firings : f \in DOMAIN firings' /\ firings'[f] = firings[f]
        /\ firings'[Len(firings) + 1] = new
    BY <2>1, <2>5, <2>6
  <2>8. Over' = Over
    BY <2>5, <2>6, <2>7 DEF Over
  <2>9. \A f \in DOMAIN firings' : f \in DOMAIN firings \/ firings'[f] = new
    BY <2>6, <2>7
  <2>10. \A f \in DOMAIN firings' :
           /\ FileOK(firings'[f].loaded, used, Cardinality(Over))
           /\ \A h \in DOMAIN firings'[f].deliveries : h \in Hooks /\ firings'[f].loaded[h].active
    BY <2>2, <2>5, <2>7, <2>9 DEF HookInv
  <2>11. HookTypeOK'
    <3>1. \A f \in DOMAIN firings' : firings'[f] \in Firing
      BY <2>7
    <3> QED BY <2>1, <3>1 DEF HookInv, HookTypeOK, Firing, Deliveries
  <2>12. FailuresCounted'
    BY <2>1 DEF HookInv, FailuresCounted
  <2>13. Len(firings') <= MaxFirings
    BY <2>1, <2>6, <2>7, HookAssumption
  <2> QED BY <2>1, <2>7, <2>8, <2>10, <2>11, <2>12, <2>13 DEF HookInv
<1> QED BY <1>1, <1>2

(* What a failed attempt leaves is a delivery. *)
LEMMA AfterFailureType ==
  ASSUME NEW d \in Delivery
  PROVE  AfterFailure(d) \in Delivery
BY HookAssumption DEF AfterFailure, Delivery

(* An attempt is over: only how the delivery stands changes. *)
LEMMA AttemptsKeepInv ==
  ASSUME HookInv, NEW f, NEW h, NEW ok, AttemptOver(f, h, ok)
  PROVE  HookInv'
<1> DEFINE old == firings[f]
           one == IF ok THEN [old.deliveries[h] EXCEPT !.status = "fulfilled"]
                  ELSE AfterFailure(old.deliveries[h])
           new == [old EXCEPT !.deliveries = [old.deliveries EXCEPT ![h] = one]]
<1>1. /\ f \in DOMAIN firings /\ h \in DOMAIN old.deliveries
      /\ firings' = [firings EXCEPT ![f] = new]
      /\ UNCHANGED <<hooks, edits, used, live, row, switchedOn, overwritten>>
  BY DEF AttemptOver, Waiting, historyVars
<1>2. firings \in Seq(Firing) /\ old \in Firing
  BY <1>1 DEF HookInv
<1>3. PICK hs \in SUBSET Hooks : old.deliveries \in [hs -> Delivery]
  BY <1>2 DEF Firing, Deliveries
<1>4. one \in Delivery
  <2>1. old.deliveries[h] \in Delivery
    BY <1>1, <1>3
  <2>2. [old.deliveries[h] EXCEPT !.status = "fulfilled"] \in Delivery
    BY <2>1 DEF Delivery
  <2> QED BY <2>1, <2>2, AfterFailureType
<1> HIDE DEF one
<1>5. [old.deliveries EXCEPT ![h] = one] \in [hs -> Delivery]
  BY <1>3, <1>4
<1>6. new \in Firing /\ new.loaded = old.loaded /\ new.over = old.over
      /\ DOMAIN new.deliveries = DOMAIN old.deliveries
  BY <1>2, <1>3, <1>5 DEF Firing, Deliveries
<1> HIDE DEF new
<1>7. /\ firings' \in Seq(Firing) /\ Len(firings') = Len(firings) /\ DOMAIN firings' = DOMAIN firings
      /\ firings'[f] = new /\ \A g \in DOMAIN firings : g # f => firings'[g] = firings[g]
  BY <1>1, <1>2, <1>6
<1>8. \A g \in DOMAIN firings : /\ firings'[g].loaded = firings[g].loaded
                                /\ firings'[g].over = firings[g].over
                                /\ DOMAIN firings'[g].deliveries = DOMAIN firings[g].deliveries
  BY <1>6, <1>7
<1> HIDE DEF old
<1>9. Over' = Over
  BY <1>7, <1>8 DEF Over
<1>10. HookTypeOK'
  <2>1. \A g \in DOMAIN firings' : firings'[g] \in Firing
    BY <1>7
  <2> QED BY <1>1, <2>1 DEF HookInv, HookTypeOK, Firing, Deliveries
<1>11. \A g \in DOMAIN firings' :
         /\ FileOK(firings'[g].loaded, used, Cardinality(Over))
         /\ \A k \in DOMAIN firings'[g].deliveries : k \in Hooks /\ firings'[g].loaded[k].active
  BY <1>7, <1>8 DEF HookInv
<1>12. FailuresCounted'
  BY <1>1 DEF HookInv, FailuresCounted
<1> QED BY <1>1, <1>7, <1>9, <1>10, <1>11, <1>12 DEF HookInv

(* A firing saves the file it had loaded, with its failures counted.  A    *)
(* webhook whose registration is still the one it had loaded loses         *)
(* nothing; the others are the ones it overwrites.                         *)
LEMMA FiringsEndInv ==
  ASSUME HookInv, NEW f, FiringEnds(f)
  PROVE  HookInv'
<1> DEFINE file == firings[f].loaded
           d == firings[f].deliveries
           n == Cardinality(Over)
           failed == {h \in DOMAIN d : d[h].status = "rejected"}
<1>1. /\ f \in Waiting /\ f \in DOMAIN firings
      /\ \A h \in DOMAIN d : d[h].status # "trying"
      /\ hooks' = Counted(file, d)
      /\ overwritten' = overwritten \cup {h \in Hooks : hooks[h] # file[h]}
      /\ row' = [h \in Hooks |-> IF h \notin DOMAIN d THEN row[h]
                                 ELSE IF d[h].status = "rejected" THEN row[h] + 1 ELSE 0]
      /\ switchedOn' = switchedOn \ failed
      /\ firings' = [firings EXCEPT ![f].over = TRUE]
      /\ UNCHANGED <<edits, used, live>>
  BY DEF FiringEnds, Waiting
<1>2. /\ n \in Nat /\ n + 1 <= MaxFirings /\ Cardinality(Over \cup {f}) = n + 1
      /\ MaxFirings \in Nat
  BY <1>1, OverCounted, HookAssumption
<1>3. /\ FileOK(file, used, n) /\ file \in [Hooks -> Hook]
      /\ \A h \in DOMAIN d : h \in Hooks /\ file[h].active
  BY <1>1 DEF HookInv, FileOK
<1>4. /\ firings \in Seq(Firing) /\ firings[f] \in Firing /\ Len(firings) <= MaxFirings
      /\ row \in [Hooks -> 0..MaxFirings] /\ hooks \in [Hooks -> Hook]
      /\ \A h \in Hooks : row[h] <= n /\ (h \notin used => row[h] = 0)
  BY <1>1 DEF HookInv, HookTypeOK
<1>5. \A h \in DOMAIN d : d[h].status \in {"fulfilled", "rejected"}
  <2>1. PICK hs \in SUBSET Hooks : d \in [hs -> Delivery]
    BY <1>4 DEF Firing, Deliveries
  <2> QED BY <1>1, <2>1 DEF Delivery
<1>6. \A h \in DOMAIN d : file[h] # None /\ h \in used
  BY <1>3 DEF None, FileOK
<1>7. /\ firings' \in Seq(Firing) /\ Len(firings') = Len(firings) /\ DOMAIN firings' = DOMAIN firings
      /\ firings'[f].over /\ \A g \in DOMAIN firings : g # f => firings'[g] = firings[g]
      /\ firings'[f].loaded = file /\ firings'[f].deliveries = d
  <2> DEFINE new == [firings[f] EXCEPT !.over = TRUE]
  <2>1. new \in Firing /\ new.over = TRUE /\ new.loaded = file /\ new.deliveries = d
    BY <1>4 DEF Firing
  <2>2. firings' = [firings EXCEPT ![f] = new]
    BY <1>1
  <2>3. /\ f \in DOMAIN firings /\ firings \in Seq(Firing)
    BY <1>1, <1>4
  <2> HIDE DEF new
  <2>4. /\ firings' \in Seq(Firing) /\ Len(firings') = Len(firings) /\ DOMAIN firings' = DOMAIN firings
        /\ firings'[f] = new /\ \A g \in DOMAIN firings : g # f => firings'[g] = firings[g]
    BY ONLY <2>1, <2>2, <2>3
  <2> QED BY <2>1, <2>4
<1>8. Over' = Over \cup {f}
  BY <1>1, <1>7 DEF Over
<1> HIDE DEF file, d, n
(* What becomes of the entry of one webhook. *)
<1>9. ASSUME NEW h \in Hooks
      PROVE  \/ h \notin DOMAIN d /\ hooks'[h] = file[h] /\ row'[h] = row[h]
             \/ /\ h \in DOMAIN d /\ h \notin failed /\ row'[h] = 0
                /\ hooks'[h] = [file[h] EXCEPT !.failureCount = 0]
             \/ /\ h \in failed /\ row'[h] = row[h] + 1
                /\ hooks'[h] = [file[h] EXCEPT !.failureCount = @ + 1,
                       !.active = @ /\ file[h].failureCount + 1 < FailureLimit]
  <2>1. hooks'[h] = IF h \notin DOMAIN d \/ file[h] = None THEN file[h]
                    ELSE IF d[h].status = "fulfilled" THEN [file[h] EXCEPT !.failureCount = 0]
                    ELSE [file[h] EXCEPT !.failureCount = @ + 1,
                            !.active = @ /\ file[h].failureCount + 1 < FailureLimit]
    BY <1>1 DEF Counted
  <2>2. row'[h] = IF h \notin DOMAIN d THEN row[h]
                  ELSE IF d[h].status = "rejected" THEN row[h] + 1 ELSE 0
    BY <1>1
  <2>3. CASE h \notin DOMAIN d
    BY <2>1, <2>2, <2>3
  <2>4. CASE h \in DOMAIN d /\ d[h].status = "fulfilled"
    BY <2>1, <2>2, <2>4, <1>6
  <2>5. CASE h \in DOMAIN d /\ d[h].status = "rejected"
    BY <2>1, <2>2, <2>5, <1>6
  <2> QED BY <2>3, <2>4, <2>5, <1>5
<1>10. ASSUME NEW h \in Hooks
       PROVE  /\ hooks'[h] \in Hook /\ hooks'[h].failureCount <= n + 1
              /\ hooks'[h] # None => hooks'[h].present
              /\ hooks'[h] # None <=> file[h] # None
              /\ h \notin used => hooks'[h] = None
              /\ row'[h] \in 0..MaxFirings /\ row'[h] <= n + 1 /\ (h \notin used => row'[h] = 0)
  <2>1. /\ file[h] \in Hook /\ file[h].failureCount \in 0..n
        /\ file[h] # None => file[h].present
        /\ h \notin used => file[h] = None
    BY <1>2, <1>3 DEF FileOK, Hook
  <2>2. row[h] \in 0..n /\ (h \notin used => row[h] = 0)
    BY <1>2, <1>4
  <2>3. CASE h \notin DOMAIN d /\ hooks'[h] = file[h] /\ row'[h] = row[h]
    BY <2>1, <2>2, <2>3, <1>2
  <2>4. CASE /\ h \in DOMAIN d /\ h \notin failed /\ row'[h] = 0
             /\ hooks'[h] = [file[h] EXCEPT !.failureCount = 0]
    <3>1. file[h] # None /\ h \in used
      BY <2>4, <1>6
    <3>2. hooks'[h] \in Hook /\ hooks'[h].failureCount = 0 /\ hooks'[h].present = file[h].present
      BY <2>1, <2>4, <1>2 DEF Hook
    <3>3. hooks'[h] # None
      BY <2>1, <3>1, <3>2 DEF None
    <3> QED BY <2>1, <2>4, <3>1, <3>2, <3>3, <1>2
  <2>5. CASE /\ h \in failed /\ row'[h] = row[h] + 1
             /\ hooks'[h] = [file[h] EXCEPT !.failureCount = @ + 1,
                    !.active = @ /\ file[h].failureCount + 1 < FailureLimit]
    <3>1. file[h] # None /\ h \in used
      BY <2>5, <1>6
    <3>2. hooks'[h] \in Hook /\ hooks'[h].failureCount = file[h].failureCount + 1
          /\ hooks'[h].present = file[h].present
      <4> DEFINE b == file[h].active /\ file[h].failureCount + 1 < FailureLimit
                 k == file[h].failureCount + 1
      <4>1. hooks'[h] = [file[h] EXCEPT !.failureCount = k, !.active = b]
        BY <2>1, <2>5 DEF Hook
      <4>2. k \in 0..MaxFirings /\ b \in BOOLEAN
        BY <2>1, <1>2
      <4> HIDE DEF b, k
      <4>3. hooks'[h] \in Hook /\ hooks'[h].failureCount = k /\ hooks'[h].present = file[h].present
        BY <2>1, <4>1, <4>2 DEF Hook
      <4> QED BY <4>3 DEF k
    <3>3. hooks'[h] # None
      BY <2>1, <3>1, <3>2 DEF None
    <3> QED BY <2>1, <2>2, <2>5, <3>1, <3>2, <3>3, <1>2
  <2> QED BY <1>9, <2>3, <2>4, <2>5
<1>11. FileOK(hooks', used, n + 1)
  <2>1. DOMAIN hooks' = Hooks /\ hooks' = [h \in Hooks |-> hooks'[h]]
    BY <1>1 DEF Counted
  <2>2. hooks' \in [Hooks -> Hook]
    BY <2>1, <1>10
  <2> QED BY <2>2, <1>10 DEF FileOK
<1>12. \A g \in DOMAIN firings' :
         /\ FileOK(firings'[g].loaded, used, n + 1)
         /\ \A k \in DOMAIN firings'[g].deliveries : k \in Hooks /\ firings'[g].loaded[k].active
  <2> SUFFICES ASSUME NEW g \in DOMAIN firings
               PROVE  /\ FileOK(firings'[g].loaded, used, n + 1)
                      /\ \A k \in DOMAIN firings'[g].deliveries : k \in Hooks /\ firings'[g].loaded[k].active
    BY <1>7
  <2>1. firings'[g].loaded = firings[g].loaded /\ firings'[g].deliveries = firings[g].deliveries
    BY <1>7 DEF file, d
  <2>2. /\ FileOK(firings[g].loaded, used, n)
        /\ \A k \in DOMAIN firings[g].deliveries : k \in Hooks /\ firings[g].loaded[k].active
    BY DEF HookInv, n
  <2>3. n + 1 \in Nat /\ n <= n + 1
    BY <1>2
  <2>4. FileOK(firings[g].loaded, used, n + 1)
    BY <2>2, <2>3, <1>2, FileGrows
  <2> QED BY <2>1, <2>2, <2>4
<1>13. HookTypeOK'
  <2>1. \A g \in DOMAIN firings' : firings'[g] \in Firing
    BY <1>7
  <2>2. row' \in [Hooks -> 0..MaxFirings]
    BY <1>1, <1>10
  <2>3. hooks' \in [Hooks -> Hook]
    BY <1>11 DEF FileOK
  <2>4. overwritten' \subseteq Hooks /\ switchedOn' \subseteq Hooks
    BY <1>1 DEF HookInv, HookTypeOK
  <2> QED BY <1>1, <2>1, <2>2, <2>3, <2>4 DEF HookInv, HookTypeOK, Firing, Deliveries
<1>14. live' = live
  BY <1>1
<1>15. FailuresCounted'
  <2> SUFFICES ASSUME NEW h \in Hooks \ overwritten'
               PROVE  /\ h \in live <=> hooks'[h] # None
                      /\ h \in live => /\ hooks'[h].failureCount = row'[h]
                                       /\ row'[h] >= FailureLimit /\ hooks'[h].active => h \in switchedOn'
    BY <1>14 DEF FailuresCounted
  <2>1. h \notin overwritten /\ hooks[h] = file[h]
    BY <1>1
  <2>2. /\ h \in live <=> file[h] # None
        /\ h \in live => /\ file[h].failureCount = row[h]
                         /\ row[h] >= FailureLimit /\ file[h].active => h \in switchedOn
    BY <2>1 DEF HookInv, FailuresCounted
  <2>3. file[h] \in Hook /\ row[h] \in Nat /\ FailureLimit \in Nat \ {0}
    BY <1>2, <1>3, <1>4, HookAssumption
  <2>4. CASE h \notin DOMAIN d /\ hooks'[h] = file[h] /\ row'[h] = row[h]
    BY <2>2, <2>4, <1>1
  <2>5. CASE /\ h \in DOMAIN d /\ h \notin failed /\ row'[h] = 0
             /\ hooks'[h] = [file[h] EXCEPT !.failureCount = 0]
    <3>1. hooks'[h].failureCount = 0 /\ ~ (row'[h] >= FailureLimit)
      BY <2>3, <2>5 DEF Hook
    <3> QED BY <3>1, <2>2, <2>5, <1>10
  <2>6. CASE /\ h \in failed /\ row'[h] = row[h] + 1
             /\ hooks'[h] = [file[h] EXCEPT !.failureCount = @ + 1,
                    !.active = @ /\ file[h].failureCount + 1 < FailureLimit]
    <3>1. hooks'[h].failureCount = file[h].failureCount + 1
          /\ (hooks'[h].active => file[h].failureCount + 1 < FailureLimit)
      BY <2>3, <2>6 DEF Hook
    <3>2. h \in live
      BY <2>2, <2>6, <1>6
    <3> QED BY <3>1, <3>2, <2>2, <2>3, <2>6, <1>10
  <2> QED BY <1>9, <2>4, <2>5, <2>6
<1>16. \A h \in Hooks : row'[h] <= n + 1 /\ (h \notin used => row'[h] = 0)
  BY <1>10
<1>17. Cardinality(Over') = n + 1
  BY <1>2, <1>8
<1> QED BY <1>1, <1>4, <1>7, <1>11, <1>12, <1>13, <1>15, <1>16, <1>17 DEF HookInv

LEMMA HookInvInit == HookInit => HookInv
<1> SUFFICES ASSUME HookInit PROVE HookInv
  OBVIOUS
<1>1. /\ hooks = [h \in Hooks |-> None] /\ firings = <<>> /\ edits = 0
      /\ used = {} /\ live = {} /\ switchedOn = {} /\ overwritten = {}
      /\ row = [h \in Hooks |-> 0]
  BY DEF HookInit
<1>2. /\ firings \in Seq(Firing) /\ Len(firings) = 0 /\ DOMAIN firings = {}
  BY <1>1
<1>3. Over = {} /\ Cardinality(Over) = 0
  BY <1>2, FS_EmptySet DEF Over
<1>4. None \in Hook /\ None.failureCount = 0
  BY HookAssumption DEF None, Hook
<1>5. hooks \in [Hooks -> Hook] /\ \A h \in Hooks : hooks[h] = None
  BY <1>1, <1>4
<1>6. FileOK(hooks, used, 0)
  BY <1>4, <1>5 DEF FileOK
<1>7. HookTypeOK
  BY <1>1, <1>2, <1>5, HookAssumption DEF HookTypeOK
<1>8. FailuresCounted
  BY <1>1, <1>5 DEF FailuresCounted
<1> QED BY <1>1, <1>2, <1>3, <1>6, <1>7, <1>8, HookAssumption DEF HookInv

LEMMA HookInvNext ==
  ASSUME HookInv, HookQuietNext \/ (\E event : Fire(event)) \/ UNCHANGED hookVars
  PROVE  HookInv'
<1>1. CASE UNCHANGED hookVars
  BY <1>1 DEF hookVars, historyVars, HookInv, HookTypeOK, FailuresCounted, Over
<1>2. CASE HookQuietNext
  <2>1. ASSUME NEW h \in Hooks,
               \/ \E events \in SUBSET Events, active \in BOOLEAN :
                    RegisterHook(h, events, active) \/ PatchHook(h, events, active)
               \/ DeleteHook(h)
        PROVE  HookInv'
    BY <2>1, EditsKeepInv
  <2>2. ASSUME NEW f, NEW h, NEW ok, AttemptOver(f, h, ok) PROVE HookInv'
    BY <2>2, AttemptsKeepInv
  <2>3. ASSUME NEW f, FiringEnds(f) PROVE HookInv'
    BY <2>3, FiringsEndInv
  <2> QED BY <1>2, <2>1, <2>2, <2>3 DEF HookQuietNext
<1> QED BY <1>1, <1>2, FiringsStart

-----------------------------------------------------------------------------
(* Writes that rebuild the index, and writes that keep the texts it holds. *)
LEMMA WritesKeepIndex ==
  ASSUME CatalogueInv, SearchIndexFresh, NEW c \in AssetIds,
         \/ CreateAsset(c) \/ PatchAsset(c) \/ DeleteAsset(c)
         \/ \E verdict \in BOOLEAN : ReviewAsset(c, verdict)
         \/ GraphqlCreate(c) \/ GraphqlTouch(c)
         \/ GraphqlRewrite(c, Retitled(c)) \/ GraphqlRewrite(c, Absent)
  PROVE  SearchIndexFresh'
<1>1. ASSUME SyncSearchIndex PROVE SearchIndexFresh'
  BY <1>1 DEF SyncSearchIndex, SearchIndexFresh
<1>2. ASSUME NEW r, Save(c, r), r.text = data[c].text, UNCHANGED searchVars
      PROVE  SearchIndexFresh'
  <2>1. \A d \in AssetIds : data'[d].text = data[d].text
    BY <1>2 DEF Save, CatalogueInv, CatalogueTypeOK
  <2> QED BY <1>2, <2>1 DEF searchVars, SearchIndexFresh
<1>3. data[c] \in Asset
  BY DEF CatalogueInv, CatalogueTypeOK
<1>4. Touched(c).text = data[c].text
  BY <1>3 DEF Touched, Asset
<1>5. ASSUME NEW verdict \in BOOLEAN, ReviewAsset(c, verdict) PROVE SearchIndexFresh'
  <2>1. [Touched(c) EXCEPT !.approved = verdict].text = data[c].text
    BY <1>3, <1>4 DEF Touched, Asset
  <2> QED BY <1>2, <1>5, <2>1 DEF ReviewAsset
<1> QED BY <1>1, <1>2, <1>4, <1>5
       DEF CreateAsset, PatchAsset, DeleteAsset, GraphqlCreate, GraphqlTouch, GraphqlRewrite

(* Every step keeps the index right, for the contracts no upload put back. *)
LEMMA IndexNext ==
  ASSUME CatalogueInv, SearchIndexFresh, [CatalogueNext]_catalogueVars
  PROVE  SearchIndexFresh'
<1>1. ASSUME UNCHANGED <<data, searchIndex, undone>> PROVE SearchIndexFresh'
  BY <1>1 DEF SearchIndexFresh
<1>2. ASSUME \/ ReadAnswered \/ RedisExecutes \/ Reconnect
             \/ \E c \in AssetIds : ReadAsset(c) \/ Expire(c)
             \/ \E crash \in BOOLEAN : ConnectionLost(crash)
             \/ \E u \in Uploads : \/ UploadFails(u)
                                   \/ \E c \in AssetIds : UploadBegins(u, c)
             \/ UNCHANGED catalogueVars
      PROVE  SearchIndexFresh'
  BY <1>1, <1>2 DEF ReadAnswered, RedisExecutes, Reconnect, ReadAsset, Expire, ConnectionLost,
                    UploadFails, UploadBegins, catalogueVars, fileVars, searchVars
<1>3. ASSUME SearchAssets PROVE SearchIndexFresh'
  BY <1>3 DEF SearchAssets, fileVars, SearchIndexFresh
<1>4. ASSUME NEW u \in Uploads, UploadEnds(u) PROVE SearchIndexFresh'
  <2> DEFINE c == uploads[u].contract
             old == uploads[u].loaded
  <2>1. c \in AssetIds /\ old \in [AssetIds -> Asset]
    BY <1>4 DEF UploadEnds, CatalogueInv, CatalogueTypeOK
  <2>2. /\ data' = [old EXCEPT ![c].rev = revision + 1]
        /\ undone' = undone \cup {d \in AssetIds : old[d].text # data[d].text}
        /\ searchIndex' = searchIndex
    BY <1>4 DEF UploadEnds
  <2> HIDE DEF c, old
  <2>3. \A d \in AssetIds : data'[d].text = old[d].text
    BY <2>1, <2>2 DEF Asset
  <2> QED BY <2>2, <2>3 DEF SearchIndexFresh
<1> QED BY <1>2, <1>3, <1>4, WritesKeepIndex DEF CatalogueNext, CatalogueQuietNext

-----------------------------------------------------------------------------
(* The process: a write and the firing of its event are one step.          *)
ServerInv == CatalogueInv /\ SearchIndexFresh /\ HookInv

LEMMA ServerStep ==
  ASSUME [ServerNext]_serverVars
  PROVE  /\ [CatalogueNext]_catalogueVars
         /\ HookQuietNext \/ (\E event : Fire(event)) \/ UNCHANGED hookVars
<1>1. ASSUME NEW c \in AssetIds, AnnouncedWrite(c)
      PROVE  CatalogueNext /\ \E event : Fire(event)
  BY <1>1 DEF AnnouncedWrite, CatalogueNext
<1> QED BY <1>1 DEF ServerNext, serverVars, CatalogueNext

LEMMA ServerInvInit == ServerInit => ServerInv
<1>1. CatalogueInit => SearchIndexFresh
  BY DEF CatalogueInit, SearchIndexFresh
<1> QED BY <1>1, CatalogueInvInit, HookInvInit DEF ServerInit, ServerInv

LEMMA ServerInvNext == ServerInv /\ [ServerNext]_serverVars => ServerInv'
<1> SUFFICES ASSUME ServerInv, [ServerNext]_serverVars PROVE ServerInv'
  OBVIOUS
<1>1. /\ [CatalogueNext]_catalogueVars
      /\ HookQuietNext \/ (\E event : Fire(event)) \/ UNCHANGED hookVars
  BY ServerStep
<1>2. CatalogueInv'
  BY <1>1, CatalogueInvNext DEF ServerInv
<1>3. SearchIndexFresh'
  BY <1>1, IndexNext DEF ServerInv
<1>4. HookInv'
  BY <1>1, HookInvNext DEF ServerInv
<1> QED BY <1>2, <1>3, <1>4 DEF ServerInv

(* The invariant of the process, from which the next four follow. *)
THEOREM ServerInvariant == ServerSpec => []ServerInv
BY ServerInvInit, ServerInvNext, PTL DEF ServerSpec

(* The variables of the process keep their types: in particular no count   *)
(* of failures exceeds the firings.                                        *)
THEOREM ServerWellTyped == ServerSpec => []ServerTypeOK
<1>1. ServerInv => ServerTypeOK
  BY DEF ServerInv, CatalogueInv, HookInv, ServerTypeOK
<1> QED BY <1>1, ServerInvariant, PTL

(* Once Redis has executed all it was sent, it holds of a contract what    *)
(* the file holds and may be shown, or nothing, in whatever order reads,   *)
(* writes, uploads, expiries and outages came.                             *)
THEOREM CacheIsRight == ServerSpec => []CacheFollowsFile
<1>1. ServerInv => CacheFollowsFile
  BY DEF ServerInv, CatalogueInv, AllFollow, Follows, Pend, Good, CacheFollowsFile, Fresh,
         PendingFor
<1> QED BY <1>1, ServerInvariant, PTL

(* The search index names no asset that is gone and no outdated text,      *)
(* through approvals and uploads, which do not rebuild it, and searches,   *)
(* which rebuild it from less.                                             *)
THEOREM SearchStaysFresh == ServerSpec => []SearchIndexFresh
<1>1. ServerInv => SearchIndexFresh
  BY DEF ServerInv
<1> QED BY <1>1, ServerInvariant, PTL

(* However many firings overlap with each other and with edits, a webhook  *)
(* that none of them put back is in the file while it is registered, with  *)
(* the failures it had in a row, and off at the limit.                     *)
THEOREM FailuresAreCounted == ServerSpec => []FailuresCounted
<1>1. ServerInv => FailuresCounted
  BY DEF ServerInv, HookInv
<1> QED BY <1>1, ServerInvariant, PTL

(* A firing for an event that no webhook can register for does nothing.    *)
LEMMA UnknownEvents ==
  ASSUME HookInv, NEW event, event \notin Events, Fire(event)
  PROVE  UNCHANGED hookVars
<1>1. hooks \in [Hooks -> Hook]
  BY DEF HookInv, HookTypeOK
<1>2. Addressed(hooks, event) = {}
  BY <1>1 DEF Addressed, Hook
<1> QED BY <1>2 DEF Fire

(* Together the two parts do nothing that each does not do alone: the      *)
(* process behaves as the catalogue's specification says, and as that of   *)
(* the webhooks.                                                           *)
THEOREM ServerRunsBothParts == ServerSpec => CatalogueSpec /\ HookSpec
<1>1. ServerInv /\ [ServerNext]_serverVars => [CatalogueNext]_catalogueVars
  BY ServerStep
<1>2. ASSUME ServerInv, [ServerNext]_serverVars PROVE [HookNext]_hookVars
  BY <1>2, ServerStep, UnknownEvents DEF ServerInv, HookNext
<1>3. ServerInit => CatalogueInit /\ HookInit
  BY DEF ServerInit
<1>4. ServerInv /\ [ServerNext]_serverVars => [HookNext]_hookVars
  BY <1>2
<1> QED BY <1>1, <1>3, <1>4, ServerInvariant, PTL DEF ServerSpec, CatalogueSpec, HookSpec
=============================================================================
