----------------------------- MODULE Publication -----------------------------
(***************************************************************************)
(* A client publishes a collection and follows its import through the      *)
(* proxy: the URLs that the three of them mean, and the replies that the   *)
(* proxy makes of Galaxy's.  Who may do so is Gateway's; here the proxy    *)
(* allows it until the client's token expires.                             *)
(*                                                                         *)
(* Between two requests of a session the proxy keeps nothing but its       *)
(* configuration, of which "serving" is what matters here; it is changed   *)
(* elsewhere.  A URL is [host, path], path the sequence of its segments;   *)
(* scheme, query and the slash at the end are left out.                    *)
(*                                                                         *)
(* Galaxy and its clients are external.  A client resolves the URL of its  *)
(* task as urljoin does, which is what main.py says of ansible-galaxy      *)
(* (lines 86-88), against the proxy's URL with the server id.              *)
(***************************************************************************)
EXTENDS PublicationParameters, Sequences

Server == DOMAIN Form

VARIABLES
    serving,  \* the servers' base URLs, while the application is up
    session,  \* where a client is
    import,   \* what Galaxy makes of its collection: the state of the last import
    task,     \* that of the import which the client's present upload began
    late,     \* uploads that have been given up and may still reach Galaxy
    lost

vars == <<session, import, task, late, lost>>

URL(host, path) == [host |-> host, path |-> path]
Nowhere == URL("none", <<>>)

Proxied(s) == URL("proxy", <<"api", "v1", s>>)
Task(c) == <<"api", "v3", "imports", c>>

\* A reference in a reply, as Galaxy may write it, and urljoin.
Ref(form, url) == [form |-> form, url |-> url]
Reference(form, base, path) ==
    CASE form = "root" -> Ref(form, URL("none", base.path \o path))
      [] form = "relative" -> Ref(form, URL("none", path))
      [] form = "absolute" -> Ref(form, URL(base.host, base.path \o path))
      [] form = "none" -> Ref(form, Nowhere)

Resolve(base, ref) ==
    CASE ref.form = "root" -> URL(base.host, ref.url.path)
      [] ref.form = "relative" -> URL(base.host, base.path \o ref.url.path)
      [] OTHER -> ref.url

\* A reply: its body, a reference or the state of an import, with the content
\* coding that it has and that the headers state, and what content-length is
\* the length of.
Reply(body, coding) ==
    [body |-> body, coding |-> coding, stated |-> coding, sized |-> <<body, coding>>]
Readable(reply) ==
    reply.stated = reply.coding /\ reply.sized = <<reply.body, reply.coding>>
NoReply == Reply("none", "identity")

\* A session: its server, the last reply, the task's URL to a client that asks
\* Galaxy itself, the URL this client has, the one Galaxy is asked for it.
Idle == [at |-> "idle", server |-> "none", reply |-> NoReply, meant |-> Nowhere,
         url |-> Nowhere, asked |-> Nowhere, told |-> "nothing"]
At(c, place) == session[c].at = place
Up(c) == session[c].server \in DOMAIN serving

Tell(c, what) ==
    session' = [session EXCEPT ![c] = [Idle EXCEPT !.at = "done", !.told = what]]

Init ==
    /\ session = [c \in Client |-> Idle]
    /\ import = [c \in Client |-> "none"]
    /\ task = [c \in Client |-> "none"] /\ late = [c \in Client |-> 0]
    /\ lost = 0
-----------------------------------------------------------------------------
\* proxy_request: httpx decodes the content; the headers are passed on, without
\* those of the connection.
Fetched(reply) == [reply EXCEPT !.coding = "identity"]

\* Mutation: content-length stays that of Galaxy's body.
RewrittenOnly(reply, s) ==
    IF reply.body.form = "root"
    THEN [reply EXCEPT !.body.url.path = Proxied(s).path \o @] ELSE reply

\* Mutation: the URL is passed on as it is.
NotRewritten(reply, s) == reply

\* _rewrite_task_urls, and the content-length in publish_collection.
Rewritten(reply, s) ==
    IF reply.body.form = "root"
    THEN LET body == [reply.body EXCEPT !.url.path = Proxied(s).path \o @]
         IN  [reply EXCEPT !.body = body, !.sized = <<body, "identity">>]
    ELSE reply

\* The route of proxy_get_request, and the server that is asked.
Routed(url) ==
    /\ Len(url.path) >= 3 /\ SubSeq(url.path, 1, 2) = <<"api", "v1">>
    /\ url.path[3] \in DOMAIN serving

\* Mutation: the path replaces that of base_url, as with urljoin.
TargetJoined(url) ==
    URL(serving[url.path[3]].host, SubSeq(url.path, 4, Len(url.path)))

Target(url) ==
    LET base == serving[url.path[3]]
    IN  URL(base.host, base.path \o SubSeq(url.path, 4, Len(url.path)))

Upload(c, s) ==
    /\ At(c, "idle")
    /\ session' = [session EXCEPT ![c].at = "uploading", ![c].server = s]
    /\ UNCHANGED <<import, task, late, lost>>

\* Galaxy takes the upload, refuses it, or has the collection already.  Its
\* reply is on its way to the proxy.
Accept(c, form, coding) ==
    /\ At(c, "uploading") /\ Up(c) /\ import[c] \in {"none", "failed"}
    /\ form \in Form[session[c].server]
    /\ LET base == serving[session[c].server]
           ref == Reference(form, base, Task(c))
       IN  session' = [session EXCEPT ![c].at = "accepted",
                                      ![c].reply = Reply(ref, coding),
                                      ![c].meant = Resolve(base, ref)]
    /\ import' = [import EXCEPT ![c] = "running"]
    /\ task' = [task EXCEPT ![c] = "running"]
    /\ UNCHANGED <<late, lost>>

Refuse(c) ==
    /\ At(c, "uploading") /\ Up(c)
    /\ Tell(c, IF import[c] \in {"none", "failed"} THEN "refused" ELSE "conflict")
    /\ UNCHANGED <<import, task, late, lost>>

EndImport(c) ==
    /\ import[c] = "running"
    /\ \E outcome \in {"completed", "failed"} :
          /\ import' = [import EXCEPT ![c] = outcome]
          /\ task' = [task EXCEPT ![c] = IF @ = "running" THEN outcome ELSE @]
    /\ UNCHANGED <<session, late, lost>>

\* An upload given up arrives, before or after the client has tried again, and is
\* taken or refused.  It may as well never arrive.
ArriveLate(c) ==
    /\ late[c] > 0
    /\ late' = [late EXCEPT ![c] = @ - 1]
    /\ \/ /\ import[c] \in {"none", "failed"}
          /\ import' = [import EXCEPT ![c] = "running"]
       \/ UNCHANGED import
    /\ UNCHANGED <<session, task, lost>>

\* The proxy passes the reply to the upload on.
Answer(c) ==
    /\ At(c, "accepted")
    /\ session' = [session EXCEPT ![c].at = "answered",
                     ![c].reply = Rewritten(Fetched(@), session[c].server)]
    /\ UNCHANGED <<import, task, late, lost>>

Follow(c) ==
    /\ At(c, "answered")
    /\ LET reply == session[c].reply
           url == Resolve(Proxied(session[c].server), reply.body)
       IN  \/ ~Readable(reply) /\ Tell(c, "unreadable")
           \/ Readable(reply) /\ reply.body.form = "none" /\ Tell(c, "untold")
           \/ /\ Readable(reply) /\ reply.body.form # "none"
              /\ session' = [session EXCEPT ![c].at = "following", ![c].url = url,
                                            ![c].reply = NoReply]
    /\ UNCHANGED <<import, task, late, lost>>

\* The proxy forwards the client's GET, or knows no such route or server.
Ask(c) ==
    /\ At(c, "following") /\ session[c].url.host = "proxy"
    /\ IF Routed(session[c].url)
       THEN session' = [session EXCEPT ![c].at = "asking",
                                       ![c].asked = Target(session[c].url)]
       ELSE Tell(c, IF Up(c) THEN "missing" ELSE "unserved")
    /\ UNCHANGED <<import, task, late, lost>>

\* A URL of Galaxy's own takes the client past the proxy, and its token with it.
AskOutside(c) ==
    /\ At(c, "following") /\ session[c].url.host # "proxy"
    /\ Tell(c, "outside")
    /\ UNCHANGED <<import, task, late, lost>>

\* Galaxy answers, and the proxy passes the reply on.
Status(c, coding) ==
    /\ At(c, "asking")
    /\ LET body == IF session[c].asked = session[c].meant THEN task[c] ELSE "missing"
       IN  session' = [session EXCEPT ![c].at = "informed",
                                      ![c].reply = Fetched(Reply(body, coding))]
    /\ UNCHANGED <<import, task, late, lost>>

Learn(c) ==
    /\ At(c, "informed")
    /\ LET reply == session[c].reply
       IN  IF ~Readable(reply) THEN Tell(c, "unreadable")
           ELSE IF reply.body # "running" THEN Tell(c, reply.body)
           ELSE session' = [session EXCEPT ![c].at = "following",
                                           ![c].reply = NoReply, ![c].asked = Nowhere]
    /\ UNCHANGED <<import, task, late, lost>>

\* The proxy is sending the upload, or has its request answered.
Sent(c) == At(c, "uploading") /\ Up(c)
InFlight(c) == Sent(c) \/ session[c].at \in {"accepted", "asking"}
Adrift(c) == IF Sent(c) THEN late[c] + 1 ELSE late[c]

\* Mutation: that no reply has come is reported as a refusal.
LoseRefused(c) ==
    /\ InFlight(c) /\ lost < MaxLost
    /\ lost' = lost + 1
    /\ Tell(c, "refused")
    /\ late' = [late EXCEPT ![c] = Adrift(c)]
    /\ UNCHANGED <<import, task>>

\* Galaxy cannot be asked, or its reply does not come: a 502.  What has been sent
\* of an upload may arrive nevertheless.
Lose(c) ==
    /\ InFlight(c) /\ lost < MaxLost
    /\ lost' = lost + 1
    /\ Tell(c, "error")
    /\ late' = [late EXCEPT ![c] = Adrift(c)]
    /\ UNCHANGED <<import, task>>

\* The application is down or has no such server.
Unserved(c) ==
    /\ At(c, "uploading") /\ ~Up(c)
    /\ Tell(c, "unserved")
    /\ UNCHANGED <<import, task, late, lost>>

\* The import takes longer than the client's token lives: a 401.
Expire(c) ==
    /\ At(c, "following")
    /\ Tell(c, "denied")
    /\ UNCHANGED <<import, task, late, lost>>

\* The proxy stops: what was in flight is lost.
Drop ==
    /\ session' = [c \in Client |->
          IF InFlight(c) THEN [Idle EXCEPT !.at = "done", !.told = "error"]
                         ELSE session[c]]
    /\ late' = [c \in Client |-> Adrift(c)]
    /\ UNCHANGED <<import, task, lost>>

\* A client that learned nothing publishes again.
Unknown == {"denied", "error", "missing", "outside", "unreadable", "unserved", "untold"}
Again(c) ==
    /\ session[c].told \in Unknown
    /\ session' = [session EXCEPT ![c] = Idle]
    /\ task' = [task EXCEPT ![c] = "none"]
    /\ UNCHANGED <<import, late, lost>>

Progress(c) ==
    \/ \E form \in Forms, coding \in Coding : Accept(c, form, coding)
    \/ Refuse(c) \/ Unserved(c)
    \/ Answer(c) \/ Follow(c) \/ Ask(c) \/ AskOutside(c)
    \/ \E coding \in Coding : Status(c, coding)
    \/ Learn(c)

Next ==
    \E c \in Client :
        \/ \E s \in Server : Upload(c, s)
        \/ Progress(c) \/ EndImport(c) \/ ArriveLate(c)
        \/ Lose(c) \/ Expire(c) \/ Again(c)

Spec == Init /\ [][Next \/ Drop]_vars

\* The client goes on, the proxy and Galaxy answer, imports end.
Fairness == \A c \in Client : WF_vars(Progress(c)) /\ WF_vars(EndImport(c))
-----------------------------------------------------------------------------
Told == {"nothing", "completed", "failed", "refused", "conflict"} \cup Unknown
State == {"none", "running", "completed", "failed"}

\* The types of the state; URLs and replies are whatever the actions make.
TypeOK ==
    /\ \A c \in Client :
          /\ session[c].at \in {"idle", "uploading", "accepted", "answered",
                                "following", "asking", "informed", "done"}
          /\ session[c].server \in Server \cup {"none"}
          /\ session[c].told \in Told
    /\ import \in [Client -> State] /\ task \in [Client -> State]
    /\ late \in [Client -> Nat] /\ lost \in 0 .. MaxLost

\* Galaxy is asked for the very URL that it has named: through the proxy a
\* client gets where it would get without.
FollowsTask == \A c \in Client : At(c, "asking") => session[c].asked = session[c].meant

\* The body of every reply that the proxy passes on is what its headers say.
ReplyReadable ==
    \A c \in Client :
        At(c, "answered") \/ At(c, "informed") => Readable(session[c].reply)

\* A client whose upload was accepted learns in the end what became of it,
\* unless it is told why not: its token has expired, the proxy or Galaxy did
\* not answer, Galaxy has not named the task in a way that leads to the proxy.
LearnsOutcome ==
    \A c \in Client :
        At(c, "accepted") ~>
            session[c].told \in {"completed", "failed", "denied", "error",
                                 "unserved", "outside", "untold"}

Known(c) == IF session[c].told \in Unknown THEN "unknown" ELSE session[c].told
Session(c) == INSTANCE PublishSession
                  WITH import <- import[c], mine <- task[c], told <- Known(c),
                       adrift <- late[c]

\* Each client's session implements PublishSession: a client that is told of an
\* end is told that of the import which its own upload began, whatever an earlier
\* upload that arrives late does meanwhile; it is told of a refusal or a conflict
\* only when there was one, and of both at most once.
ImplementsSession ==
    /\ \A c \in Client : Session(c)!Init
    /\ [][\A c \in Client : [Session(c)!Next]_(Session(c)!vars)]_vars
=============================================================================
