------------------------------- MODULE FileApi -------------------------------
(***************************************************************************)
(* The file API of the server: requests carry an API key, an owner's or    *)
(* one scoped to workspace zones.  The middleware resolves the key, the    *)
(* dispatcher picks a handler, the handler authorizes the paths it works   *)
(* on, calls the backend and publishes what changed.  Keys are issued and  *)
(* revoked while requests and uploads are under way.                       *)
(*                                                                         *)
(* A path is the sequence of its names.  Of the tree only the files count: *)
(* what the backend does with contents is in Namespace and Uploads.        *)
(***************************************************************************)
EXTENDS Common, Integers, Sequences, FiniteSets, SequencesExt

CONSTANTS
    ApiOwner,      \* the owner's key
    ApiScopedKeys, \* keys the owner can issue
    ApiClients,    \* connections
    ApiPaths,      \* paths requests are about
    ApiZones,      \* sets of scopes an owner asks a key for
    ApiUploads,    \* numbers of upload sessions
    ApiQueries     \* sets of query keys a request to /v1/fs carries

VARIABLES
    akey,     \* [keys -> row of tenant_api_keys with its fs scopes]
    areq,     \* [ApiClients -> authenticated request, or None]
    afiles,   \* paths of the files
    aup,      \* [ApiUploads -> session, or None]
    aans,     \* what the latest request did, or None
    aev       \* the event the latest request published, or None

apiVars == <<akey, areq, afiles, aup, aans, aev>>

ApiKeys == {ApiOwner} \cup ApiScopedKeys

FSOps == {"read", "list", "search", "write", "delete"}

NoKey == [st |-> "none", asked |-> {}, rows |-> {}, known |-> FALSE]

ApiInit ==
    /\ akey = [k \in ApiKeys |-> IF k = ApiOwner THEN [NoKey EXCEPT !.st = "active", !.known = TRUE]
                                 ELSE NoKey]
    /\ areq = [c \in ApiClients |-> None]
    /\ afiles = {}
    /\ aup = [u \in ApiUploads |-> None]
    /\ aans = None
    /\ aev = None

-----------------------------------------------------------------------------
(* Zones.                                                                  *)

(* pathMatchesScope: the root matches everything, another prefix itself    *)
(* and what is below it.                                                   *)
PathMatchesScope(prefix, p) == IsPrefix(prefix, p)

ScopeAllows(s, op, p) ==
    /\ op = "search" => "read" \in s.ops
    /\ op \in s.ops
    /\ PathMatchesScope(s.prefix, p)

(* AuthorizeFS with the scopes the middleware loaded for this request.     *)
AuthorizeFS(r, op, p) == r.scoped => \E s \in r.scopes : ScopeAllows(s, op, p)

AuthorizeFSPair(r, srcOp, src, dstOp, dst) == AuthorizeFS(r, srcOp, src) /\ AuthorizeFS(r, dstOp, dst)

(* parseFSScopeOps                                                         *)
ParseFSScopeOps(ops) ==
    /\ ops # {}
    /\ ops \subseteq FSOps
    /\ "search" \in ops => "read" \in ops

(* fsScopesFromMeta refuses a key with a scope it cannot read.             *)
FsScopesFromMeta(rows) == \A s \in rows : ParseFSScopeOps(s.ops)

-----------------------------------------------------------------------------
(* Dispatch.  A query selects a handler; the handler reads some keys.      *)

GetSelectors == <<"stat", "grep", "find", "list">>
PostSelectors == <<"append", "copy", "rename", "mkdir", "chmod", "create">>

FirstOf(order, q, otherwise) ==
    IF \E i \in DOMAIN order : order[i] \in q
    THEN order[Min({i \in DOMAIN order : order[i] \in q})] ELSE otherwise

(* handleFS                                                                *)
HandleFS(method, q) ==
    CASE method = "GET" -> FirstOf(GetSelectors, q, "read")
      [] method = "POST" -> FirstOf(PostSelectors, q, "unknown")
      [] OTHER -> method

ReadKeys(arm) ==
    CASE arm = "grep" -> {"grep", "limit"}
      [] arm = "find" -> {"find", "name", "tag", "newer", "older", "minsize", "maxsize", "limit"}
      [] arm = "mkdir" -> {"mkdir", "mode"}
      [] arm = "DELETE" -> {"recursive", "kind"}
      [] arm \in Range(GetSelectors) \cup Range(PostSelectors) -> {arm}
      [] OTHER -> {}

IsScopedFSGetQueryAllowed(q) == q \subseteq ReadKeys(HandleFS("GET", q))

(* isScopedFSPostQueryAllowed: exactly one selector, and never chmod.      *)
IsScopedFSPostQueryAllowed(q) ==
    /\ Cardinality(q \cap Range(PostSelectors)) = 1
    /\ "chmod" \notin q
    /\ q \subseteq ReadKeys(HandleFS("POST", q))

(* The routes of uploads; the session is authorized by its handler.        *)
IsScopedV1UploadRouteAllowed(route) ==
    route \in {"v1/list", "v1/initiate", "v1/complete", "v1/resume", "v1/abort"}

IsScopedV2UploadRouteAllowed(route) ==
    route \in {"v2/initiate", "v2/presign", "v2/presign-batch", "v2/complete", "v2/abort"}

(* queryKeysSubsetOf                                                       *)
QueryKeysSubsetOf(q, keys) == q \subseteq keys

(* isScopedBusinessRequestAllowed                                          *)
IsScopedBusinessRequestAllowed(method, q) ==
    CASE method = "GET" -> IsScopedFSGetQueryAllowed(q)
      [] method = "POST" -> IsScopedFSPostQueryAllowed(q)
      [] method \in {"PUT", "PATCH"} -> q = {}
      [] method = "DELETE" -> QueryKeysSubsetOf(q, {"recursive", "kind"})
      [] method \in {"HEAD", "BATCH"} -> TRUE
      [] OTHER -> IsScopedV1UploadRouteAllowed(method) \/ IsScopedV2UploadRouteAllowed(method)

(* handleBusiness lets request c reach the handler arm of its method.      *)
HandleBusiness(c, method, arm, q) ==
    /\ areq[c] # None
    /\ areq[c].issuing = None
    /\ areq[c].scoped => IsScopedBusinessRequestAllowed(method, q)
    /\ HandleFS(method, q) = arm

-----------------------------------------------------------------------------
(* Requests.                                                               *)

(* ResolveByAPIKeyHash: the row of the token a client holds.               *)
ResolveByAPIKeyHash(k) == akey[k].known

(* tenantAuthMiddleware: the row of the key must be active, the token not  *)
(* expired.  The scopes are loaded by a second statement; they do not      *)
(* change once the token is known.                                         *)
TenantAuthMiddleware(c, k) ==
    /\ areq[c] = None
    /\ ResolveByAPIKeyHash(k)
    /\ akey[k].st = "active"
    /\ FsScopesFromMeta(akey[k].rows)
    /\ areq' = [areq EXCEPT ![c] = [key |-> k, scoped |-> k # ApiOwner, scopes |-> akey[k].rows,
                                    issuing |-> None]]
    /\ aans' = None
    /\ aev' = None
    /\ UNCHANGED <<akey, afiles, aup>>

(* A handler returned without an effect: denied, a bad body, an error of   *)
(* the backend, a client that went away.                                   *)
RequestFails(c) ==
    /\ areq[c] # None
    /\ areq[c].issuing = None
    /\ areq' = [areq EXCEPT ![c] = None]
    /\ aans' = None
    /\ aev' = None
    /\ UNCHANGED <<akey, afiles, aup>>

(* The answer: what was done, as pairs of operation and path, and the keys *)
(* of the query the handler did not read.                                  *)
Answer(c, did, unread) ==
    /\ aans' = [key |-> areq[c].key, did |-> did, unread |-> unread]
    /\ areq' = [areq EXCEPT ![c] = None]

(* publishEvent                                                            *)
PublishEvent(path, op) == aev' = [path |-> path, op |-> op]

Below(p) == {f \in afiles : IsPrefix(p, f)}

(* Handlers that read.                                                     *)
Reads(c, did, unread) ==
    /\ Answer(c, did, unread)
    /\ aev' = None
    /\ UNCHANGED <<akey, afiles, aup>>

HandleRead(c, p) ==
    /\ \E q \in ApiQueries : HandleBusiness(c, "GET", "read", q) /\ Reads(c, {<<"read", p>>}, q)
    /\ AuthorizeFS(areq[c], "read", p)
    /\ p \in afiles

HandleList(c, p) ==
    /\ \E q \in ApiQueries :
          HandleBusiness(c, "GET", "list", q) /\ Reads(c, {<<"list", p>>}, q \ ReadKeys("list"))
    /\ AuthorizeFS(areq[c], "list", p)

HandleStatMetadata(c, p) ==
    /\ \E q \in ApiQueries :
          HandleBusiness(c, "GET", "stat", q) /\ Reads(c, {<<"read", p>>}, q \ ReadKeys("stat"))
    /\ AuthorizeFS(areq[c], "read", p)

HandleStat(c, p) ==
    /\ HandleBusiness(c, "HEAD", "HEAD", {})
    /\ AuthorizeFS(areq[c], "read", p)
    /\ Reads(c, {<<"read", p>>}, {})

HandleGrep(c, p) ==
    /\ \E q \in ApiQueries :
          HandleBusiness(c, "GET", "grep", q)
          /\ Reads(c, {<<"search", f>> : f \in Below(p)}, q \ ReadKeys("grep"))
    /\ AuthorizeFS(areq[c], "search", p)

HandleFind(c, p) ==
    /\ \E q \in ApiQueries :
          HandleBusiness(c, "GET", "find", q)
          /\ Reads(c, {<<"search", f>> : f \in Below(p)}, q \ ReadKeys("find"))
    /\ AuthorizeFS(areq[c], "search", p)

(* Batches: every path is authorized by itself, a denied one becomes an    *)
(* error of its element (authorizeFSPathForBatch).                         *)
AuthorizeFSPathForBatch(r, paths) == {p \in paths : AuthorizeFS(r, "read", p)}

BatchStatOne(r, paths) == {<<"read", p>> : p \in AuthorizeFSPathForBatch(r, paths)}

BatchReadSmallOne(r, paths) == {<<"read", p>> : p \in AuthorizeFSPathForBatch(r, paths) \cap afiles}

HandleBatchStat(c, paths) ==
    /\ HandleBusiness(c, "BATCH", "BATCH", {})
    /\ Reads(c, BatchStatOne(areq[c], paths), {})

HandleBatchReadSmall(c, paths) ==
    /\ HandleBusiness(c, "BATCH", "BATCH", {})
    /\ Reads(c, BatchReadSmallOne(areq[c], paths), {})

(* handleUploads, GET                                                      *)
HandleUploads(c, p) ==
    /\ HandleBusiness(c, "v1/list", "v1/list", {})
    /\ AuthorizeFS(areq[c], "list", p)
    /\ Reads(c, {<<"list", p>>}, {})

-----------------------------------------------------------------------------
(* Handlers that change the tree.                                          *)

Changes(c, files, did, path, op, unread) ==
    /\ afiles' = files
    /\ Answer(c, did, unread)
    /\ PublishEvent(path, op)
    /\ UNCHANGED <<akey, aup>>

(* handleWrite of a small file.                                            *)
HandleWrite(c, p) ==
    /\ \E q \in ApiQueries :
          HandleBusiness(c, "PUT", "PUT", q)
          /\ Changes(c, afiles \cup {p}, {<<"write", p>>}, p, "write", q)
    /\ AuthorizeFS(areq[c], "write", p)

HandleCreate(c, p) ==
    /\ \E q \in ApiQueries :
          HandleBusiness(c, "POST", "create", q)
          /\ Changes(c, afiles \cup {p}, {<<"write", p>>}, p, "create", q \ ReadKeys("create"))
    /\ AuthorizeFS(areq[c], "write", p)
    /\ p \notin afiles

HandleMkdir(c, p) ==
    /\ \E q \in ApiQueries :
          HandleBusiness(c, "POST", "mkdir", q)
          /\ Changes(c, afiles, {<<"write", p>>}, p, "mkdir", q \ ReadKeys("mkdir"))
    /\ AuthorizeFS(areq[c], "write", p)
    /\ p \notin afiles

(* resolveNodePath: the file of that name, else the directory: what is     *)
(* below it.                                                               *)
ResolveNodePath(p) == IF p \in afiles THEN {p} ELSE Below(p)

(* A directory goes with ?recursive only.                                  *)
HandleDelete(c, p) ==
    /\ \E q \in ApiQueries :
          LET gone == IF "recursive" \in q THEN ResolveNodePath(p) ELSE {p} \cap afiles IN
          /\ HandleBusiness(c, "DELETE", "DELETE", q)
          /\ gone # {}
          /\ Changes(c, afiles \ gone, {<<"delete", f>> : f \in gone}, p, "delete",
                     q \ ReadKeys("DELETE"))
    /\ AuthorizeFS(areq[c], "delete", p)

HandleCopy(c, src, dst) ==
    /\ \E q \in ApiQueries :
          HandleBusiness(c, "POST", "copy", q)
          /\ Changes(c, afiles \cup {dst}, {<<"read", src>>, <<"write", dst>>}, dst, "copy",
                     q \ ReadKeys("copy"))
    /\ AuthorizeFSPair(areq[c], "read", src, "write", dst)
    /\ src \in afiles /\ dst \notin afiles

Moved(f, old, new) == new \o SubSeq(f, Len(old) + 1, Len(f))

\* Mutant: only the new name is announced.
RenameAnnouncedAsWrite(c, old, new) ==
    LET from == ResolveNodePath(old)
        to == {Moved(f, old, new) : f \in from}
    IN
    /\ HandleBusiness(c, "POST", "rename", {"rename"})
    /\ Changes(c, (afiles \ from) \cup to,
               {<<"delete", f>> : f \in from} \cup {<<"write", f>> : f \in to}, new, "write", {})
    /\ AuthorizeFSPair(areq[c], "delete", old, "write", new)
    /\ from # {} /\ to \subseteq ApiPaths /\ old # new

(* A file or what is below a directory; not into itself.                   *)
HandleRename(c, old, new) ==
    LET from == ResolveNodePath(old)
        to == {Moved(f, old, new) : f \in from}
    IN
    /\ \E q \in ApiQueries :
          HandleBusiness(c, "POST", "rename", q)
          /\ Changes(c, (afiles \ from) \cup to,
                     {<<"delete", f>> : f \in from} \cup {<<"write", f>> : f \in to},
                     new, "rename", q \ ReadKeys("rename"))
    /\ AuthorizeFSPair(areq[c], "delete", old, "write", new)
    /\ from # {} /\ to \subseteq ApiPaths
    /\ old # new
    /\ old \notin afiles => ~IsPrefix(old, new) /\ Below(new) = {}

(* Owners only; nothing is published.                                      *)
HandleChmod(c, p) ==
    /\ \E q \in ApiQueries :
          HandleBusiness(c, "POST", "chmod", q) /\ Reads(c, {<<"chmod", p>>}, q \ ReadKeys("chmod"))
    /\ ~areq[c].scoped

(* handleSQL: the statement may read anything.                             *)
HandleSQL(c) ==
    /\ HandleBusiness(c, "SQL", "SQL", {})
    /\ Reads(c, {<<"sql", f>> : f \in afiles}, {})

-----------------------------------------------------------------------------
(* Uploads.  A session names its target; at most one is active for a path. *)

ActiveUpload(p) == \E u \in ApiUploads : aup[u] # None /\ aup[u].path = p /\ aup[u].st = "uploading"

NewUploads == {u \in ApiUploads : aup[u] = None /\ \A v \in ApiUploads : v < u => aup[v] # None}

Initiates(c, p) ==
    /\ AuthorizeFS(areq[c], "write", p)
    /\ ~ActiveUpload(p)
    /\ \E u \in NewUploads : aup' = [aup EXCEPT ![u] = [path |-> p, st |-> "uploading"]]
    /\ Answer(c, {<<"write", p>>}, {})
    /\ aev' = None
    /\ UNCHANGED <<akey, afiles>>

(* handleWrite of a large file, handlePatch and handleAppend of an object. *)
WriteInitiates(c, p) == HandleBusiness(c, "PUT", "PUT", {}) /\ Initiates(c, p)

HandlePatch(c, p) ==
    /\ HandleBusiness(c, "PATCH", "PATCH", {})
    /\ p \in afiles
    /\ Initiates(c, p)

HandleAppend(c, p) ==
    /\ HandleBusiness(c, "POST", "append", {"append"})
    /\ p \in afiles
    /\ Initiates(c, p)

HandleUploadInitiate(c, p) == HandleBusiness(c, "v1/initiate", "v1/initiate", {}) /\ Initiates(c, p)

HandleV2UploadInitiate(c, p) == HandleBusiness(c, "v2/initiate", "v2/initiate", {}) /\ Initiates(c, p)

\* Mutant: the session is authorized by having been initiated.
AuthorizeUploadOfInitiator(r, u, op) == aup[u] # None /\ aup[u].st = "uploading"

(* authorizeUploadSession: the session's target against the scopes of this *)
(* request, not of the one that initiated the upload.                      *)
AuthorizeUploadSession(r, u, op) ==
    /\ aup[u] # None
    /\ aup[u].st = "uploading"
    /\ AuthorizeFS(r, op, aup[u].path)

Continues(c, route, u, op) ==
    /\ HandleBusiness(c, route, route, {})
    /\ AuthorizeUploadSession(areq[c], u, op)

Completes(c, route, u) ==
    LET p == aup[u].path IN
    /\ Continues(c, route, u, "write")
    /\ aup' = [aup EXCEPT ![u].st = "completed"]
    /\ afiles' = afiles \cup {p}
    /\ Answer(c, {<<"write", p>>}, {})
    /\ PublishEvent(p, "upload_complete")
    /\ UNCHANGED akey

HandleUploadComplete(c, u) == Completes(c, "v1/complete", u)

HandleV2UploadComplete(c, u) == Completes(c, "v2/complete", u)

(* A plan or presigned URLs: they let the client write the parts.          *)
HandsOut(c, route, u) == Continues(c, route, u, "write") /\ Reads(c, {<<"write", aup[u].path>>}, {})

HandleUploadResume(c, u) == HandsOut(c, "v1/resume", u)

HandleV2PresignPart(c, u) == HandsOut(c, "v2/presign", u)

HandleV2PresignBatch(c, u) == HandsOut(c, "v2/presign-batch", u)

Aborts(c, route, u) ==
    /\ Continues(c, route, u, "delete")
    /\ aup' = [aup EXCEPT ![u].st = "aborted"]
    /\ Answer(c, {<<"delete", aup[u].path>>}, {})
    /\ aev' = None
    /\ UNCHANGED <<akey, afiles>>

HandleUploadAbort(c, u) == Aborts(c, "v1/abort", u)

HandleV2UploadAbort(c, u) == Aborts(c, "v2/abort", u)

-----------------------------------------------------------------------------
(* Keys.                                                                   *)

(* ownerScopeFromRequest                                                   *)
OwnerScopeFromRequest(c) ==
    /\ areq[c] # None
    /\ ~areq[c].scoped

(* handleTokens                                                            *)
HandleTokens(c) == OwnerScopeFromRequest(c) /\ areq[c].issuing = None

(* canonicalScopeOps                                                       *)
CanonicalScopeOps(ops) == ParseFSScopeOps(ops)

(* validateScopedTokenScopes: at least one scope, no prefix twice.         *)
ValidateScopedTokenScopes(zones) ==
    /\ zones # {}
    /\ \A s, t \in zones : s.prefix = t.prefix => s = t
    /\ \A s \in zones : CanonicalScopeOps(s.ops)

(* handleScopedTokenIssue inserts the key, then its scopes one by one; the *)
(* token is in the answer.                                                 *)
HandleScopedTokenIssue(c, k, zones) ==
    /\ HandleTokens(c)
    /\ akey[k].st = "none"
    /\ ValidateScopedTokenScopes(zones)
    /\ akey' = [akey EXCEPT ![k] = [st |-> "active", asked |-> zones, rows |-> {}, known |-> FALSE]]
    /\ areq' = [areq EXCEPT ![c].issuing = [key |-> k, left |-> zones]]
    /\ aans' = None /\ aev' = None
    /\ UNCHANGED <<afiles, aup>>

ValidateFSScopeOps(ops) == ParseFSScopeOps(ops)

InsertAPIKeyFSScope(c) ==
    /\ areq[c] # None
    /\ areq[c].issuing # None
    /\ \E s \in areq[c].issuing.left :
          /\ ValidateFSScopeOps(s.ops)
          /\ akey' = [akey EXCEPT ![areq[c].issuing.key].rows = @ \cup {s}]
          /\ areq' = [areq EXCEPT ![c].issuing.left = @ \ {s}]
    /\ aans' = None /\ aev' = None
    /\ UNCHANGED <<afiles, aup>>

(* RevokeAPIKey                                                            *)
RevokeAPIKey(k) == [akey EXCEPT ![k].st = "revoked"]

(* A scope cannot be inserted: the key is revoked, if that works.  An      *)
(* answer that gets lost ends here too, without the revocation.            *)
IssueFails(c) ==
    /\ areq[c] # None
    /\ areq[c].issuing # None
    /\ akey' \in {akey, RevokeAPIKey(areq[c].issuing.key)}
    /\ areq' = [areq EXCEPT ![c] = None]
    /\ aans' = None /\ aev' = None
    /\ UNCHANGED <<afiles, aup>>

IssueReturns(c) ==
    /\ areq[c] # None
    /\ areq[c].issuing # None
    /\ areq[c].issuing.left = {}
    /\ akey' = [akey EXCEPT ![areq[c].issuing.key].known = TRUE]
    /\ areq' = [areq EXCEPT ![c] = None]
    /\ aans' = [key |-> areq[c].key, did |-> {<<"issue", << >> >>}, unread |-> {}]
    /\ aev' = None
    /\ UNCHANGED <<afiles, aup>>

Revokes(c, k) ==
    /\ HandleTokens(c)
    /\ akey[k].st \in {"active", "expired"}
    /\ akey' = RevokeAPIKey(k)
    /\ Answer(c, {<<"revoke", << >> >>}, {})
    /\ aev' = None
    /\ UNCHANGED <<afiles, aup>>

(* By id, any key of the tenant; by the token itself, scoped keys only.    *)
HandleScopedTokenRevoke(c, k) == Revokes(c, k)

HandleScopedTokenRevokeByAPIKey(c, k) ==
    /\ k \in ApiScopedKeys
    /\ akey[k].known
    /\ Revokes(c, k)

(* The time to live of a token ends.                                       *)
KeyExpires(k) ==
    /\ akey[k].st = "active"
    /\ akey' = [akey EXCEPT ![k].st = "expired"]
    /\ aans' = None /\ aev' = None
    /\ UNCHANGED <<areq, afiles, aup>>

-----------------------------------------------------------------------------
(* The model keeps the latest answer and its event for one step.           *)
Answered ==
    /\ aans # None
    /\ aans' = None
    /\ aev' = None
    /\ UNCHANGED <<akey, areq, afiles, aup>>

ApiStep ==
    \/ \E c \in ApiClients :
          \/ \E k \in ApiKeys : TenantAuthMiddleware(c, k) \/ HandleScopedTokenRevoke(c, k)
          \/ \E k \in ApiScopedKeys :
                \/ HandleScopedTokenRevokeByAPIKey(c, k)
                \/ \E z \in ApiZones : HandleScopedTokenIssue(c, k, z)
          \/ InsertAPIKeyFSScope(c)
          \/ IssueFails(c)
          \/ IssueReturns(c)
          \/ RequestFails(c)
          \/ HandleSQL(c)
          \/ \E p \in ApiPaths :
                \/ HandleRead(c, p) \/ HandleList(c, p) \/ HandleStatMetadata(c, p)
                \/ HandleStat(c, p) \/ HandleGrep(c, p) \/ HandleFind(c, p) \/ HandleUploads(c, p)
                \/ HandleWrite(c, p) \/ HandleCreate(c, p) \/ HandleMkdir(c, p)
                \/ HandleDelete(c, p) \/ HandleChmod(c, p)
                \/ WriteInitiates(c, p) \/ HandlePatch(c, p) \/ HandleAppend(c, p)
                \/ HandleUploadInitiate(c, p) \/ HandleV2UploadInitiate(c, p)
                \/ HandleBatchStat(c, {p} \cup afiles) \/ HandleBatchReadSmall(c, {p} \cup afiles)
                \/ \E r \in ApiPaths : HandleCopy(c, p, r) \/ HandleRename(c, p, r)
          \/ \E u \in ApiUploads :
                \/ HandleUploadComplete(c, u) \/ HandleV2UploadComplete(c, u)
                \/ HandleUploadResume(c, u) \/ HandleV2PresignPart(c, u) \/ HandleV2PresignBatch(c, u)
                \/ HandleUploadAbort(c, u) \/ HandleV2UploadAbort(c, u)
    \/ \E k \in ApiScopedKeys : KeyExpires(k)

ApiNext == (aans = None /\ ApiStep) \/ Answered

ApiSpec == ApiInit /\ [][ApiNext]_apiVars

-----------------------------------------------------------------------------
(* Properties.                                                             *)

(* Every variable has its type.  The rows of a key are scopes it was asked *)
(* for, a search scope may read, and the owner never has scopes.           *)
ApiTypeOK ==
    /\ afiles \subseteq ApiPaths
    /\ \A k \in ApiKeys :
          /\ akey[k].st \in {"none", "active", "expired", "revoked"}
          /\ akey[k].rows \subseteq akey[k].asked
          /\ \A s \in akey[k].rows : "search" \in s.ops => "read" \in s.ops
    /\ akey[ApiOwner].rows = {}
    /\ \A u \in ApiUploads : aup[u] # None => aup[u].path \in ApiPaths

InZone(k, op, p) ==
    \E s \in akey[k].asked : op \in s.ops /\ Len(s.prefix) <= Len(p) /\ SubSeq(p, 1, Len(s.prefix)) = s.prefix

(* A request with a scoped key reads, lists, searches, writes and deletes  *)
(* only inside the zones its key was issued for, with the operations       *)
(* granted there: both ends of a copy or rename, every file of a recursive *)
(* delete, every element of a batch and the target of an upload somebody   *)
(* else initiated.  What has no path (SQL, chmod, keys) it never does.     *)
ZoneConfined ==
    aans # None /\ aans.key # ApiOwner =>
        \A d \in aans.did : d[1] \in FSOps /\ InZone(aans.key, d[1], d[2])

(* A scoped request whose query selects several handlers, or has a key the *)
(* selected handler does not read, is refused by the dispatcher's gate.    *)
ScopedUnambiguous == aans # None /\ aans.key # ApiOwner => aans.unread = {}

(* Every change of the tree is published: a file that is gone by an event  *)
(* the watchers treat as structural, a new one at least under its path.    *)
Structural == {"rename", "delete", "mkdir", "copy"}

ChangesAnnounced ==
    [][afiles' # afiles =>
         /\ aev' # None
         /\ aev'.op \in Structural \/ (afiles \subseteq afiles' /\ afiles' \ afiles = {aev'.path})]_apiVars

\* A scoped key is confined to its zones: every operation a request carries out
\* lies in one, and no query is read in two ways by authorization and handler.
ScopedConfined == ZoneConfined /\ ScopedUnambiguous
=============================================================================
