# A formal model of ansible-galaxy-publisher

ansible-galaxy-publisher is a proxy in front of Ansible Galaxy and Automation Hub
servers. A CI job authenticates with an OIDC token of its own; the proxy checks
the token against the issuer's published keys, finds the rule that says what the
job may publish where, looks into the upload for the collection's name, and
forwards the request with the credentials of the Galaxy server. This directory
holds TLA+ modules of that program, the instances TLC checks, and proofs checked
by TLAPS. Paths below are relative to the repository.

`PROJECT.json` maps each definition to the lines it models and lists components,
runs, mutants, findings, hazards and theorems.

## 1. Inventory

The proxy is one asyncio process. Handlers are coroutines on one event loop: the
code between two `await`s runs undisturbed, and any other request may run at an
`await`. There is no lock, no task of its own, and nothing is persisted.

| Component | Source (src/galaxy_publisher/) | State | Operations |
|---|---|---|---|
| JWKS cache | cache.py `JWKSCache` | `_cache`: issuer_url -> key set, expires_at | `get`: hit, or fetch and store |
| OAuth token cache | cache.py `OAuthTokenCache` | `_cache`: key -> token, expires_at | `get_token`: hit, or exchange and store |
| JWT validation | auth.py | none | `validate_jwt` |
| Authorization | authorization.py | none | `find_authorization_rule`, `verify_server_access`, `validate_collection_name` |
| Request path | main.py | `app_config`, the two caches | `publish_collection`, `proxy_get_request`, `lifespan` |
| Galaxy proxying | proxy.py | none | `get_server_token`, `proxy_request` |
| Collection extraction | collection.py | none | multipart, tarball, manifest |
| Task URL rewriting | main.py | none | `_rewrite_task_urls`, and the route that its URLs come back to |
| Configuration | config.py | the loaded `Config` | `load_config`, the `from_dict`s |
| Health endpoint | main.py | none | `health` |
| Deployment script | deploy/deploy-apprunner.py | AWS resources, local containers | secrets, image, roles, service |
| Publishing session | main.py, proxy.py with Galaxy and a client | what client and Galaxy remember | upload, follow the task, learn the outcome |

Interactions: the request path calls JWT validation, which calls the JWKS cache;
then authorization, without an `await` in between; for an upload it awaits the
body and calls the extraction; then `get_server_token`, which calls the OAuth
cache under the key `str(id(server))`; then `proxy_request`; for an upload the
reply's task URL is rewritten. Requests interact through the two caches only.
The script and the application meet in the image, which holds config/servers.yml, and
in the variables that the script finds in that file and gives to the service.
Outside are the issuers' JWKS endpoints, the OAuth token endpoints, the Galaxy
servers, httpx and the client.

What is hard, and what makes each component correct:

* **JWKS cache.** `now` is read before the fetch and used after it; concurrent
  misses are not coalesced and their responses arrive in any order, while the
  issuer rotates its keys. Correct: no key set is handed out for longer than the
  TTL after it was withdrawn, whatever the order.
* **OAuth cache.** The same, with lifetimes the endpoint states, a default and a
  buffer. Correct: the cache never believes a token outlives its endpoint's view.
* **Request path.** Token, keys and rule are judged once; upload and credential
  exchange come later. Correct: what reaches Galaxy was authorized by the rule
  that applies, with a key that was published; a refusal has a reason; the
  client's code tells what happened; a request reaches Galaxy at most once;
  every request ends.
* **Galaxy proxying.** The cache key is an object's id. Correct: each server gets
  its own credentials.
* **Collection extraction.** Parts and members come in any order and many are not meant.
  Correct: a well-formed upload is judged by its own collection, whatever surrounds it.
* **Task URL rewriting, publishing session.** A URL goes from Galaxy through the rewriting,
  the client's urljoin, the route and `target_url` back to Galaxy, while replies are lost
  and the application restarts or is replaced. Correct: Galaxy is asked for the URL it
  named; a client is never told something untrue of its import, and learns its outcome
  unless told why not.
* **Configuration.** Two readers of one file: config.py requires variables, the script
  provides them. Correct: what is deployed starts and has credentials for every server,
  and a sound file goes live.
* **Deployment script.** A dozen AWS calls that look first and create then, with
  interrupted, repeated and overlapping runs; one test container per machine; an
  unlimited wait. Correct: a service never refers to what is not there, only tested
  images are pushed, a run that reports success has deployed its own commit or was
  rolled back, what is left on the machine has a cause, every run ends.

## 2. Modules

| Module | Models | Extends or instantiates |
|---|---|---|
| `KeySource` | abstract: what the request path may expect of the place it gets key sets from | |
| `JWKSCache` | `JWKSCache.get` | `KeySource`, as what it implements |
| `JWKSCacheProofs` | theorems | `JWKSCache` |
| `OAuthTokenCache` | `OAuthTokenCache.get_token` | |
| `OAuthTokenCacheProofs` | theorems | `OAuthTokenCache` |
| `Authorization` | authorization.py, as operators | |
| `Collection` | collection.py, as operators | |
| `Gateway` | auth.py, main.py, `get_server_token`, `proxy_request` | `KeySource`, `Authorization`, `Collection` |
| `GatewayProofs` | theorems | `Gateway` |
| `Deploy` | deploy/deploy-apprunner.py | |
| `DeployProofs` | type correctness, `ServiceGrounded` | `Deploy` |
| `DeployOutcomeProofs` | what runs leave behind and achieve | `DeployProofs` |
| `Configuration` | config.py, as operators | |
| `Rollout` | one run of the script at a time, App Runner, `lifespan`, `health` | `Configuration` |
| `RolloutProofs` | theorems | `Rollout` |
| `PublishSession` | abstract: what a client may expect of publishing through the proxy | |
| `PublicationParameters` | the clients and Galaxy servers of `Publication` | |
| `Publication` | a session: `_rewrite_task_urls`, `proxy_get_request`, `proxy_request`'s reply | `PublishSession`, as what it implements |
| `PublicationProofs` | theorems | `Publication` |
| `Lifecycle` | the deployed application between operator and clients | `Rollout`, `Publication` |
| `LifecycleProofs` | theorems | `Lifecycle`, `RolloutProofs`, `PublicationProofs` |
| `MC...` | instances for TLC | the module named after the MC |

**JWKSCache.** `cache` is `_cache`, a partial function. `call[c]` is the latest
call of `get` under identity `c`, with its local `now`. `Hit` and `Miss` are the
code up to the HTTP request; `Respond` is the endpoint's; `Store` and `Fail` are
the code after it. `Tick` and `Publish` move time and the issuer. Documents are
numbered per issuer, and `born` records when each was published: it exists for
the properties only.

**KeySource** has no cache. A call is asked, and later answered with any document
still published less than TTL before the call began, or refused; an answer may
come in the step of the question. `JWKSCache` implements it with `served` mapped to
what a caller sees of a call: `Respond` and the cache's content are invisible.

**OAuthTokenCache** is built in the same way. `issued` records, for the
properties, which server each token is for, when it was issued and when its
endpoint stops honouring it. The type of a token is carried along unchanged by
the code and left out.

**Gateway.** One record per request; `st` says what the request awaits (`keys`,
`body`, `token`, `sent`, `replied`) or that it is `done`, or `gone` when the client
left. Each action is the whole stretch between two awaits, with every early
return: `ArriveKeysCached` for instance goes from the arrival through
`extract_token_from_header`, `validate_jwt` with a cache hit, the rule, the
server check and, for a GET of a server with a static token, to the sending.
Key sets come from `KeySource`: since `JWKSCache` implements it, the request path
is checked against everything the cache can answer, and more. Of the token
cache the module keeps only which key an entry is stored under and whose secret
earned it; a lookup may always find the entry too old. `wire` holds requests that
have left the proxy and `galaxy` what a Galaxy server did with those it received;
a `Timeout` may leave a request on the wire. `Restart` is `lifespan` ending and
starting again in the same process: new `Server` objects, old caches. `checked`, `cred`
and `galaxy` exist for the properties.

Abstractions in Gateway: a token is the record of what the code asks of it
(issuer, signing key, whether its header names the key, audience, expiry,
claims); a claim pattern is the set of values that fnmatch lets it match; issuers
are a list, since only the first with an issuer_url is ever found; all keys are of one
kind that PyJWT supports; nbf and iat never object; a GET has no body. Bodies, headers
and URLs of the Galaxy request are Publication's.

**Collection.** An upload is what the email parser, gzip, tar and JSON make of its
bytes: parts with their field, whether they count as a file, and a payload; members of
a tarball with their name, whether `extractfile` gives their content, gives nothing or fails on a
dangling link, and which fields their JSON has. `Extract` is the code's choice
among them, with every refusal (400) and the failures it does not catch (500). It is
part of Gateway's `BodyRead`.

**Configuration.** `Problems` is `Config.from_dict` with its order of checks: the problem that
is raised for a document and a set of variables, or none. A mapping is a function on
the keys whose value Python takes for true, which is what the code asks. YAML itself and
values of unexpected types are left out.

**Rollout** has what Deploy leaves out: the data. `file` is the draft in
config/servers.yml, edited at any time; a run reads variables from it or from another
file (`--config`), builds in what is there by then, tests and deploys. `EndOperation` is
App Runner replacing the process, or rolling back and being RUNNING as before (`CREATE_FAILED`
if nothing was live); `Crash` and `Startup` end and restart it. One run at
a time, since overlapping ones are Deploy's; the calls between two reads of data are one
action here. A name is known by its length.

**Publication.** `session[c].at` is where a client's publication is: between client and
proxy, between proxy and Galaxy, or done. A URL is a host and a sequence of segments, and
a reference may be a path from the root, a relative path, an absolute URL, or missing.
`Rewritten`, `Routed` and `Target` are the code's; `Resolve` is the client's urljoin, which
main.py names (lines 86-88). `meant` records the URL a client would have had from Galaxy
directly, and `asked` the one that Galaxy is asked for in the end. `serving` is the loaded
configuration; it changes between two requests, and that is all the proxy remembers.
`Lose` is a 502 before or after Galaxy has acted (main.py lines 254-265); `Drop` is a stop of
the process. An upload that was being sent then is adrift (`late`): it may arrive at any later time
(`ArriveLate`), also after the client has begun again (`Again`) and been told an outcome, and is taken or
refused, or it may never arrive. `import` is the state of Galaxy's last import of the
collection, `task` that of the one that the client's present upload began, whose URL it has.

**PublishSession** is what that promises: the outcome reported is that of the import which the
client's own upload began, once; a refusal or conflict only when there is one; giving up is always
possible. It does not promise that nothing follows: an upload the client was told nothing of may arrive
after another was reported, and begin an import that nobody follows (`Arrive`).

**Lifecycle** puts Publication's sessions on what Rollout has live: `Serving` are the base
URLs of the loaded configuration while the process is up. While the script runs up to
the update of the service, and while edits are still to come, sessions wait (`Steady`).
Those steps read and write only the file and the run, which no session sees, so that
each interleaving has the same effect as one in which sessions' steps come before or
after them; the invariants relate no session to a run.

**Deploy.** `run[d].at` is the call a run of the script makes next; an action is that
call, to AWS or to the container engine, and the code up to the next one.
`DescribeSecret` and `EnterSecret`, `DescribeRepo` and `CreateRepo`, `GetRole` and
`CreateRole`, `ListServices` and `DeployService` are the two halves of a get-or-create,
between which another run may act. `Fail` is an exception at any place (a refused call,
Control-C, a health check that never passes) and does what the `finally` block it
passes through does; `Kill` passes through none. A removal may not be done (`slips`): the result of
`rm -f` is not looked at (lines 402-407), and a second Control-C may hit the `finally` block itself; the
run then goes on, or fails, with the container or file still there. `Stuck` says where the code can do
nothing but fail. All runs share one machine, so one test container (`box`), and the
runs of one commit share a checkout and its generated requirements.txt (`reqs`). An update that fails
is rolled back: the service is RUNNING with what it ran before, which `Poll` takes for success as the
script does (lines 728-732); only a service that ran nothing ends in CREATE_FAILED.
UPDATE_FAILED, which the script looks for as well, is no status of App Runner's. `by` and `before`,
in a service's record, are the run whose deployment it is and what it ran before.

Abstractions in Deploy: an image is the commit it is tagged with, and `Broken` are the
commits whose image fails the health check; the working tree does not change during a
run; a secret is known by which service its value was entered for; of App Runner's
states those are kept that the script tells apart and that exist; a service whose creation has
failed takes another deployment, as if the operator had deleted it first, which App Runner asks for;
`list_services` is not paged. The
content of images is Rollout's.

Operators marked "Mutation" are not part of any specification. Each is a variant
of the definition that follows it, as a plausible bug would make it, and is
used to confirm that a property notices that bug (`PROJECT.json`, "mutants").

## 3. Runs

| Run | Checks | Result |
|---|---|---|
| `jwks_cache` | `TypeOK`, `EntryExpires`, `BoundedStaleness`, `RegressesOnlyByOverlap`, `ImplementsKeySource` | hold |
| `oauth_token_cache` | `TypeOK`, `EntryWithinLife`, `ReusedTokenUsable` | hold |
| `gateway` | `TypeOK`, `ForwardedIsAuthorized`, `ForwardedKeyWasPublished`, `RefusalExplained`, `OwnErrorMeansUntouched`, `CodeTellsPublished`, `UploadRefusalExplained`, `ReachesGalaxyOnce` | hold |
| `gateway_lifespans` | `OwnCredentials`, `EveryRequestEnds` | hold |
| `deploy` | `TypeOK`, `ServiceGrounded`, `SuccessIsOurs`, `LeftoversExplained`, `EveryRunEnds` | hold |
| `deploy_alone` | `PushedIsHealthy`, `ServiceGrounded`, `LeftoversExplained` | hold |
| `lifecycle` | `TypesOK`, `DeployedStarts`, `LiveServersUsable`, `FollowsTask`, `ReplyReadable`, `LastEditServed`, `LearnsOutcome`, `ImplementsSession` | hold |
| `undecodable_reply` | `ReplyPassedOn` | violated (finding 1) |
| `task_path` | `FollowsTask` | violated (finding 2) |
| `encoded_reply` | `ReplyReadable` | violated (finding 3) |
| `deploy_role` | `RolesAllow` | violated (finding 4) |
| `deploy_secrets` | `OwnSecrets` | violated (finding 5) |

Run one with `tlc -config MCGateway.cfg MCGateway.tla`, and the proofs with
`tlapm JWKSCacheProofs.tla`.

Bounds, and why they are enough for the questions asked:

* `jwks_cache`: two calls (an overlap of two fetches is the only interaction), two
  issuers (entries of one must not serve the other), two documents each,
  `TTL` = 2 and `MaxClock` = 3, so that a fetch may outlive an entry and the stored
  result still be hit. About 209,000 states.
* `oauth_token_cache`: two calls, two servers, `Buffer` = 1, lifetimes of exactly
  the buffer and of three times it, and an unstated lifetime above the default
  of 2. `MaxClock` = 4 lets every token die.
* `gateway`: two concurrent requests, each of any of ten inputs: publishable uploads with
  parts and members in either order, one with a second part that is marked as a file, one with two
  collections sent at once, ones that the first rule shadows, raw, truncated
  and incomplete ones, GETs, unknown server, no token; tokens signed with an old or new
  key, with and without kid, expiring during the fetch. Two issuers with one issuer_url.
  Two documents, the old key with a second one and then the new key with that second
  one, so that one key is withdrawn, one introduced and one kept; `TTL` = 1. One server
  with exchanged and one with static credentials. About 279,000 states.
* `gateway_lifespans`: two requests, two OAuth servers, two lifespans and four
  ids, enough for every id of the first lifespan to be free or taken in the next.
  About 120,000 states.
* `deploy`: two runs at a time, three starts in all (a third run repeats one that
  failed or ended while the other is still under way), all for the same
  service, with one commit that passes the health check and one that does not, and one removal
  that may not be done; no kills, which `deploy_alone` has. About 152,000 states.
* `deploy_alone`: one run at a time, four starts, two kills, one removal not done, either service: a
  run may find any of the remains of earlier ones. About 899,000 states.
* `lifecycle`: four drafts (a token; a token and an OAuth secret with a base_url below a
  path; a variable in braces, which never loads; no credentials), one of them also
  in another file, one edit, service names of 3, 36 and 37 characters (refused, the
  longest that works, and accepted but refused by IAM), one fault of the deployment, one client that
  publishes to either server as often as it takes, one lost reply and the late arrivals it and
restarts leave. One client is enough:
  sessions share only what is served (the theorems are for any number). In this run Galaxy encodes
  no reply and, below a path, names its tasks by relative URLs; `encoded_reply` and
  `task_path` show what happens otherwise. About 147,000 states.
* Requests are interchangeable and declared symmetric in the runs without liveness.

**Fairness** (`FairSpec`, for `EveryRequestEnds` only). Weak fairness of what the proxy
does once an awaited result or httpx's default timeout is there: `KeysFetched` or
`KeysFailed`, `TokenFetched` or `TokenFailed`, `Timeout` or `Answer`. asyncio resumes a
coroutine whose future is done, and the code passes no `timeout=` to httpx, whose
default limits each phase to five seconds. Weak fairness of `BodyRead` or
`Disconnect`: a client sends its upload or goes away; the proxy sets no limit of
its own there. None of the services is assumed to answer.

For Deploy's `EveryRunEnds`: every call of the script returns and every prompt is
answered, so that a run takes its next step, or fails where it is stuck; the health
check gives up after 60 attempts (`Stuck` at "health"); and App Runner ends every
operation it has begun, the only thing that ends the script's wait. `Fail` elsewhere is
never assumed.

For Lifecycle's `LastEditServed` and `LearnsOutcome`: the script's calls return and it fails
where it is stuck; App Runner ends its operations and starts a process that has ended; the proxy,
Galaxy and the client take their next steps, and an import ends (weak fairness each). The
operator starts the script for config/servers.yml with a name of at most 36 characters again and
again as long as something else is live (strong fairness, since a run of another
file may be under way each time); that is an assumption on people, not on code.
`LearnsOutcome` counts as an answer that the token has expired, the reply was lost, the server
is gone, or that Galaxy named the task in a way that bypasses the proxy or not at all.

**Assumptions.** The wall clock (`time.time()`) does not step back.
`DefaultAssumption`: an endpoint that states no `expires_in` issues tokens that
live at least the default hour. `CodeTellsPublished` holds for Galaxy servers that
do not redirect an upload with a 301, 302 or 303 (`PostRedirect` = FALSE): httpx
turns such a POST into a GET, whose 200 the client gets.

## 4. Proofs

All proofs hold for every value of the constants that satisfies the named
assumptions, and `tlapm` checks them to the last leaf.

*JWKSCache* (from `TTLAssumption`, `BoundAssumption`): type correctness, `EntryExpires`,
`BoundedStaleness`, `RegressesOnlyByOverlap` and the refinement of `KeySource`. The two
staleness invariants are not inductive: a rotation happens "now", so one must
know that no entry relies on the future (`Past`), that documents are numbered in
order of their publication (`Past`), and that a response still under way holds a
document published at its call's `now` or later (`ResponseTimely`). `IInv` is their
conjunction. `PublishKeeps` is the heart: a rotation now leaves everything
published after any time t <= now published after t. `SourceStep` takes each
action of the cache to an action of `KeySource` or a stutter.

*OAuthTokenCache* (from `NumberAssumption`, `DefaultAssumption`): type correctness,
`EntryWithinLife`, `ReusedTokenUsable`. `IInv` adds that a response
under way lives as long as the cache will assume (`ResponseHonest`, where
`DefaultAssumption` enters), that what a call has reused outlives the buffer, and
that nothing lies in the future.

*Gateway* (from `GatewayAssumption`, `OrderAssumption`): type correctness and all that its runs
check but liveness, for any number of requests at once, any rules, issuers, inputs and key
rotations. Between two awaits a request has only its local variables, so `IInv` says at
each place what these stand for (`Stage`): a rule in hand means a signature by a key of a
document recent when the request arrived, a token not expired, and a server the rule lists
(`Granted`); from the exchange of credentials on, a collection the rule lists as well (`Cleared`); an error
of the proxy's own has its grounds (`Grounds`), and what Galaxy says agrees with what it did
(`Says`). That a key set is recent is all the proof needs of the cache, and is what `KeySource`
promises: a call asked at the request's arrival is answered accordingly, whatever other calls do.
A step of one request leaves the others' stages alone (`Only`); time and rotations
never take away what was recent at an arrival. The searches for the first match (rules,
issuers, parts, manifests) are minima of sets of positions, and `Least` says that they exist;
`FindRuleFirst`, `IssuerFirst` and `ExtractedIsUploaded` follow. `AppendedRule` is a fact for whoever
edits the configuration: a rule appended to the list changes no verdict that an earlier rule gives.
`Authorized` (`ForwardedIsAuthorized`) is for any upload whatever: the rule lists a collection that a
manifest in a file of the upload names. The proxy takes the first part that is a file with
content, and its first manifest. That Galaxy will find the very collection judged is proved for each
upload that leaves no doubt (`Unambiguous`: the first such part is the form's only "file", whatever
other files follow it, and its manifests name one collection). For the others it is not true:
the code does nothing to make proxy and Galaxy agree on the part, and what is published then is up
to Galaxy. Both kinds are among the inputs of `gateway`.
Two results have a condition, which the code does not establish:

* `OwnErrorUntouched`: replies of Galaxy decode. Without that it is false (finding 1).
* `CodeTells` (`CodeTellsPublished`): uploads are not redirected. A redirected POST becomes a GET, whose 200
  is not of the upload.

`OwnCredentialsOnly` is proved for at most two lifespans, beyond which it is false (section 5);
`OwnTokens` says why it holds: ids in use are distinct, and until the second start the cache
has no entry but theirs.

*Deploy* (from `DeployAssumption`): type correctness, `ServiceGrounded`, `LeftoversExplained`,
`SuccessIsOurs`, `PushedIsHealthy`. What a service refers to is gathered by a run step by
step, so `IInv` says of every place a run may be at what exists by then (`Gathered`): at
"prompt" the secrets already dealt with, from "role" on the image, at "deploy" both
roles. Nothing is ever taken away (`Grows`), so a run's gains survive the others'
steps, whatever those are; that is why no assumption on the number of runs or on
their services is needed. What a service may be rolled back to has been pushed as well (`RollbackPushed`).
`LeftoversExplained` is a count. `Strays` are the test container, if no run is at "health" or "stop",
and each generated file for whose commit none is at "build" or "tag"; every way out of these places
removes what is held there, except by a kill or a removal not done, and each of those leaves one
thing at most (`NoNewStray`, `OneNewStray`). So there are never more strays than kills and
such removals (`StraysCounted`), and when no run is active all that is left is stray.
`SuccessIsOurs` is proved for any runs and services: from its deployment on, a run's service has the
run's commit or the one it was rolled back to, or has been deployed by another since (`Owned`).
`PushedIsHealthy` is proved where there is one run at a time (`OneRun`); it is false where two
runs share a machine.

*Rollout* (from `RolloutAssumption`, `NamesAssumption`, `StripAssumption`): type correctness, `DeployedStarts` and
`LiveServersUsable`, for any drafts and any number of edits and faults. The script's view and the file diverge
during a run; what saves the deployment is the local test. `IInv` says that a run that
has passed it holds an image and variables with which the image starts (`Tested`), and
neither changes until both are the service's, and that what is live has started
(`LiveStarts`). A configuration that has started has loaded, so no check of `Config.from_dict`
found a problem, those of each server's credentials among them (`EarliestNone`, `LoadedServer`,
`ServerUsable`): the ValueError of `get_server_token` cannot be raised. `ExtractedSuffice` is about the two readers
of the file: a draft that loads with any variables at all loads with those that the script finds in
it (`LoadsWithout`, `OnlyServersDiffer` and `ServerSane` take the order of the checks apart;
`SaneElsewhere` compares the variables). It is the part of `LastEditServed` that holds for every file.

*Publication* (from `PublicationAssumption`): type correctness, and that every client's
session implements `PublishSession`, for any number of clients, whatever `serving` becomes
meanwhile. `IInv` adds that nobody is told anything before the end (`Untold`), that an
accepted upload has an import (`Taken`), and that an ended import's status is still true when the client
reads it (`Honest`): a late arrival may begin another import meanwhile, but the client asks for the
task its own upload began, and that has ended. Two more results say what makes a session get anywhere:

* `RepliesReadable`: without content codings (`Coding`), every reply passed on is what its headers say,
  rewritten or not. With them it is false (finding 3).
* `TasksFollowed`: Galaxy is asked for the very URL it named, if what is served of a server
  always has the base URL `Base[s]` (`Consistent`), and a server names tasks from the root only when that URL
  has no path (`Fitting`; without it, finding 2). The path a client follows passes four hands: Galaxy's
  reference, the rewriting, the client's urljoin, the route with its prefix taken
  off. `Tracks` is the invariant: whichever URL leads to the proxy is the proxy's prefix and the task
  (`NamedWay`, for each form of reference), and what Galaxy meant is its base URL and the task
  (`WayLeads`: the route maps one to the other). A stop in between does no harm, since none of it
  is in the proxy's memory.

*Lifecycle*: these results for the composed system. `LifecycleFollowsTask` replaces `Consistent` by a condition on
the drafts: those that can be loaded agree on each server's base URL (`Agreed`, which TLC checks
of the instance's); a server moved to another URL while a client waits would be asked
for a task it does not have. `SessionsStep` and `DeploymentSteps` show
that each of its steps is one of either part or leaves that part alone.

Checked by TLC only: liveness (`EveryRequestEnds`, `EveryRunEnds`, `LastEditServed`,
`LearnsOutcome`), which is out of the prover's reach. Every invariant and every action property of
the passing runs is proved, under the conditions named here.

## 5. Findings

1. **An undecodable reply becomes a 500.** `_rewrite_task_urls` means to return the
   original body "if we can't parse or modify" it (main.py, lines 116-117), but
   `json.loads` raises `UnicodeDecodeError` on bytes that are no UTF text, which is
   not among the exceptions named. The client of an upload Galaxy has accepted
   gets a 500. Run `undecodable_reply`.
2. **A task's URL below a path.** The README configures Automation Hub with the base_url
   `https://console.redhat.com/api/automation-hub/` (line 78), and docs/design.md says "Status Polling
   Works Too" (line 69). When such a server names a task from the root, the rewriting puts the proxy's prefix
   before the whole path and `proxy_get_request` appends it to base_url: the path is there
   twice, and the client's questions reach a URL Galaxy never named. Run `task_path`.
3. **A compressed reply is passed on under its old headers.** httpx decodes the content
   (proxy.py line 98 says so), yet content-encoding and the encoded length are passed on with
   it. The rewriting of an upload's reply sets the length right, not the coding. Run
   `encoded_reply`.
4. **A role without its policy.** deploy/README.md line 251: the instance role "Allows
   App Runner to access Secrets Manager". A run that ends between `create_role` and
   the attachment of the policy leaves a role that every later run finds and uses as it
   is. Run `deploy_role`.
5. **Secrets are shared between services.** deploy/README.md line 491 lists, among what
   each environment gets of its own, a "Secrets namespace". The name is
   `galaxy-publisher/{VAR_NAME}` for every service, so that entering a value for one
   changes the other's. Run `deploy_secrets`.

Met while reading, without a run:

* An update that App Runner has rolled back is reported as "Service deployed successfully!"
  (deploy-apprunner.py lines 728-732): the service is RUNNING, with the old image. `SuccessIsOurs` allows for it.
* deploy/README.md line 144 says "Push to ECR (only if test passes)". Of two runs that
  overlap on a machine one may remove the other's test container, whose name and port are
  fixed, and answer in its place: an image that does not start is pushed. With one run at
  a time it cannot happen (`OnePushesHealthy`).
* Tokens are cached under `str(id(server))` (proxy.py line 39) in a cache that outlives the object; from the
  third lifespan in one process on, an id may be used again and find another
  server's token. Over two lifespans it cannot happen (`gateway_lifespans`).
* deploy/README.md line 124 says that `${GALAXY_TOKEN}` and `GALAXY_TOKEN` both work. The script
  strips the braces; config.py looks the literal text up, and the application does not start. The third draft
  of `lifecycle` is such a file, and never goes live.
* `--config` (deploy/README.md line 528) decides only which variables are asked for; the image
  gets config/servers.yml (Dockerfile line 19). config/servers.yml is not under version control, so that
  images with one commit's tag may hold different configurations.
* Service names of 37 to 40 characters pass `validate_service_name` and fail, after the push,
  on a role name of more than IAM's 64 characters.
* A comment in main.py (line 306) says an upload "may be raw tarball or multipart"; a raw one
  is always refused (the input `Raw` of `gateway`).
* config.py: "must be a non-empty list" is asked of anything true, and wrong types raise AttributeError
  or TypeError where the docstrings say ValueError. Rules are not checked against the configured
  issuers and servers, nor issuers for a repeated issuer_url, the second of which is never found.
* deploy/README.md lines 171, 531 and 533 say that an update with existing secrets, or CI, does not
  prompt; without `--update-secrets` the script asks for each whether to use it (deploy-apprunner.py
  line 210).

## 6. Not modelled

Logging and wording; the script's checks for tools and credentials before its first call;
the paging of `list_services`; revocation of OAuth tokens, since nothing in the code reacts to
it; a change of an issuer's jwks_url under the same issuer_url; headers other than
authorization, content-encoding and content-length; fnmatch, YAML, the email parser, gzip,
tar and JSON themselves, which are libraries; the mock server and the manual test
environment; CI. The list of components with reasons is in `PROJECT.json`.

## 7. Plan

1. *Steps towards liveness*, as far as invariants go: in `Deploy` and `Gateway`, a run or request
   that is not done has a step of its own or of its environment to wait for.
2. *Rollout*: a service whose creation has failed must be deleted by the operator before the next run.
