-------------------------- MODULE PublicationProofs --------------------------
(***************************************************************************)
(* Sessions keep the promise of PublishSession: proofs about Publication   *)
(* for any number of clients and servers, whatever the proxy serves and    *)
(* however often it is changed or stopped, any way to name a task, any     *)
(* number of lost replies.  The argument: a client has not been told       *)
(* anything before it is done; the status it is informed of is that of the *)
(* import which its own upload began, and that does not change once it has *)
(* ended, even if an upload given up earlier arrives and begins another.   *)
(***************************************************************************)
EXTENDS Publication, TLAPS, SequenceTheorems

\* The fields of a session.
Shape(s) ==
    s = [at |-> s.at, server |-> s.server, reply |-> s.reply, meant |-> s.meant,
         url |-> s.url, asked |-> s.asked, told |-> s.told]

Shaped ==
    /\ session = [c \in Client |-> session[c]]
    /\ \A c \in Client : Shape(session[c])

Untold == \A c \in Client : ~At(c, "done") => session[c].told = "nothing"

\* A session has an import of its own from when Galaxy has accepted its upload.
Taken ==
    \A c \in Client :
        /\ session[c].at \in {"accepted", "answered", "following", "asking", "informed"}
              => task[c] # "none"
        /\ session[c].at \in {"idle", "uploading"} => task[c] = "none"

Honest ==
    \A c \in Client :
        At(c, "informed") =>
            /\ session[c].reply.body \in {"running", "completed", "failed", "missing"}
            /\ session[c].reply.body \in {"completed", "failed"}
                  => session[c].reply.body = task[c]

IInv == TypeOK /\ Shaped /\ Untold /\ Taken /\ Honest

LEMMA InitInvariant == Init => IInv
BY PublicationAssumption
DEF Init, IInv, TypeOK, Shaped, Shape, Untold, Taken, Honest, Idle, At, State, Told

\* What a client is told ends its session.
LEMMA TellEffect ==
    ASSUME Shaped, NEW c \in Client, NEW what, Tell(c, what)
    PROVE  /\ session'[c].at = "done" /\ session'[c].told = what
           /\ session'[c].server = "none"
           /\ Shape(session'[c])
           /\ session' = [d \in Client |-> session'[d]]
           /\ \A d \in Client \ {c} : session'[d] = session[d]
BY DEF Tell, Shaped, Shape, Idle

\* A session that is told something keeps the invariant.
LEMMA TellInvariant ==
    ASSUME IInv, NEW c \in Client, NEW what \in Told, Tell(c, what),
           import' = import, task' = task, late' \in [Client -> Nat],
           lost' \in 0 .. MaxLost
    PROVE  IInv'
<1>1. /\ session'[c].at = "done" /\ session'[c].told = what
      /\ session'[c].server = "none"
      /\ Shape(session'[c])
      /\ session' = [d \in Client |-> session'[d]]
      /\ \A d \in Client \ {c} : session'[d] = session[d]
  BY TellEffect DEF IInv
<1>2. TypeOK'
  BY <1>1 DEF IInv, TypeOK
<1>3. Shaped'
  BY <1>1 DEF IInv, Shaped, Shape
<1>4. Untold' /\ Taken' /\ Honest'
  BY <1>1 DEF IInv, Untold, Taken, Honest, At
<1> QED BY <1>2, <1>3, <1>4 DEF IInv

\* Only the session of c changes.
Only(c) ==
    /\ session' = [d \in Client |-> session'[d]]
    /\ Shape(session'[c])
    /\ \A d \in Client \ {c} : session'[d] = session[d]

\* A session that goes on keeps the invariant.
LEMMA GoOnInvariant ==
    ASSUME IInv, NEW c \in Client, Only(c), lost' = lost, late' = late,
           import' \in [Client -> State], task' \in [Client -> State],
           \A d \in Client \ {c} : task'[d] = task[d],
           session'[c].at \in {"idle", "uploading", "accepted", "answered",
                               "following", "asking", "informed"},
           session'[c].server \in Server \cup {"none"},
           session'[c].told = "nothing",
           session'[c].at \notin {"idle", "uploading"} <=> task'[c] # "none",
           session'[c].at = "informed" =>
               /\ session'[c].reply.body \in {"running", "completed", "failed", "missing"}
               /\ session'[c].reply.body \in {"completed", "failed"}
                     => session'[c].reply.body = task'[c]
    PROVE  IInv'
<1>1. TypeOK'
  BY DEF IInv, TypeOK, Only, Told
<1>2. Shaped'
  BY DEF IInv, Shaped, Shape, Only
<1>3. Untold' /\ Taken' /\ Honest'
  BY DEF IInv, Untold, Taken, Honest, At, Only
<1> QED BY <1>1, <1>2, <1>3 DEF IInv

LEMMA UploadInvariant ==
    ASSUME IInv, NEW c \in Client, NEW s \in Server, Upload(c, s)
    PROVE  IInv'
<1>1. session'[c] = [session[c] EXCEPT !.at = "uploading", !.server = s]
  BY DEF Upload, IInv, Shaped
<1>2. Shape(session[c]) /\ Shape(session'[c])
  BY <1>1 DEF IInv, Shaped, Shape
<1>3. Only(c)
  BY <1>2 DEF Upload, IInv, Shaped, Only
<1>4. /\ session'[c].at = "uploading" /\ session'[c].server = s
      /\ session'[c].told = session[c].told
  BY <1>1, <1>2 DEF Shape
<1> QED BY <1>3, <1>4, GoOnInvariant DEF Upload, IInv, TypeOK, Untold, Taken, At

LEMMA AcceptInvariant ==
    ASSUME IInv, NEW c \in Client, NEW form, NEW coding, Accept(c, form, coding)
    PROVE  IInv'
<1>0. PICK reply, meant :
          session' = [session EXCEPT ![c].at = "accepted", ![c].reply = reply,
                                     ![c].meant = meant]
  BY DEF Accept
<1>1. session'[c] = [session[c] EXCEPT !.at = "accepted", !.reply = reply,
                                            !.meant = meant]
  BY <1>0 DEF IInv, Shaped
<1>2. Shape(session[c]) /\ Shape(session'[c])
  BY <1>1 DEF IInv, Shaped, Shape
<1>3. Only(c)
  BY <1>2, <1>0 DEF IInv, Shaped, Only
<1>4. /\ session'[c].at = "accepted"
      /\ session'[c].server = session[c].server
      /\ session'[c].told = session[c].told
  BY <1>1, <1>2 DEF Shape
<1>5. /\ import' \in [Client -> State]
      /\ task' \in [Client -> State] /\ task'[c] = "running"
      /\ \A d \in Client \ {c} : task'[d] = task[d]
  BY DEF Accept, IInv, TypeOK, State
<1> QED BY <1>3, <1>4, <1>5, GoOnInvariant DEF Accept, IInv, TypeOK, Untold, At

LEMMA EndImportInvariant ==
    ASSUME IInv, NEW c \in Client, EndImport(c)
    PROVE  IInv'
<1>1. PICK outcome \in {"completed", "failed"} :
          /\ import' = [import EXCEPT ![c] = outcome]
          /\ task' = [task EXCEPT ![c] = IF task[c] = "running" THEN outcome ELSE task[c]]
  BY DEF EndImport
<1>2. import' \in [Client -> State] /\ task' \in [Client -> State]
  BY <1>1 DEF IInv, TypeOK, State
<1>3. \A d \in Client :
          task'[d] = task[d] \/ (task[d] = "running" /\ task'[d] # "none")
  <2>1. \A d \in Client \ {c} : task'[d] = task[d]
    BY <1>1 DEF IInv, TypeOK
  <2>2. task'[c] = IF task[c] = "running" THEN outcome ELSE task[c]
    BY <1>1 DEF IInv, TypeOK
  <2> QED BY <2>1, <2>2
<1>4. UNCHANGED <<session, late, lost>>
  BY DEF EndImport
<1>5. TypeOK' /\ Shaped' /\ Untold'
  BY <1>2, <1>4 DEF IInv, TypeOK, Shaped, Untold, At
<1>6. Taken' /\ Honest'
  BY <1>3, <1>4 DEF IInv, Taken, Honest, At
<1> QED BY <1>5, <1>6 DEF IInv

\* An upload that arrives late touches neither the session nor its own import.
LEMMA ArriveLateInvariant ==
    ASSUME IInv, NEW c \in Client, ArriveLate(c)
    PROVE  IInv'
<1>1. late' \in [Client -> Nat] /\ import' \in [Client -> State]
  BY DEF ArriveLate, IInv, TypeOK, State
<1>2. UNCHANGED <<session, task, lost>>
  BY DEF ArriveLate
<1>3. TypeOK'
  BY <1>1, <1>2 DEF IInv, TypeOK
<1>4. Shaped' /\ Untold' /\ Taken' /\ Honest'
  BY <1>2 DEF IInv, Shaped, Untold, Taken, Honest, At
<1> QED BY <1>3, <1>4 DEF IInv

LEMMA AnswerInvariant ==
    ASSUME IInv, NEW c \in Client, Answer(c)
    PROVE  IInv'
<1>0. PICK reply : session' = [session EXCEPT ![c].at = "answered", ![c].reply = reply]
  BY DEF Answer
<1>1. session'[c] = [session[c] EXCEPT !.at = "answered", !.reply = reply]
  BY <1>0 DEF IInv, Shaped
<1>2. Shape(session[c]) /\ Shape(session'[c])
  BY <1>1 DEF IInv, Shaped, Shape
<1>3. Only(c)
  BY <1>2, <1>0 DEF IInv, Shaped, Only
<1>4. /\ session'[c].at = "answered"
      /\ session'[c].server = session[c].server
      /\ session'[c].told = session[c].told
  BY <1>1, <1>2 DEF Shape
<1> QED BY <1>3, <1>4, GoOnInvariant DEF Answer, IInv, TypeOK, Untold, Taken, At

LEMMA FollowInvariant ==
    ASSUME IInv, NEW c \in Client, Follow(c)
    PROVE  IInv'
<1>1. CASE \E what \in {"unreadable", "untold"} : Tell(c, what)
  BY <1>1, TellInvariant DEF Follow, Told, Unknown, IInv, TypeOK
<1>2. CASE \E url : session' = [session EXCEPT ![c].at = "following",
                                ![c].url = url, ![c].reply = NoReply]
  <2>0. PICK url : session' = [session EXCEPT ![c].at = "following",
                                 ![c].url = url, ![c].reply = NoReply]
    BY <1>2
  <2>1. session'[c] = [session[c] EXCEPT !.at = "following", !.url = url,
                                              !.reply = NoReply]
    BY <2>0 DEF IInv, Shaped
  <2>2. Shape(session[c]) /\ Shape(session'[c])
    BY <2>1 DEF IInv, Shaped, Shape
  <2>3. Only(c)
    BY <2>2, <2>0 DEF IInv, Shaped, Only
  <2>4. /\ session'[c].at = "following"
        /\ session'[c].server = session[c].server
        /\ session'[c].told = session[c].told
    BY <2>1, <2>2 DEF Shape
  <2> QED BY <2>3, <2>4, GoOnInvariant DEF Follow, IInv, TypeOK, Untold, Taken, At
<1> QED BY <1>1, <1>2 DEF Follow

LEMMA AskInvariant ==
    ASSUME IInv, NEW c \in Client, Ask(c)
    PROVE  IInv'
<1>1. CASE Routed(session[c].url)
  <2>0. PICK url : session' = [session EXCEPT ![c].at = "asking", ![c].asked = url]
    BY <1>1 DEF Ask
  <2>1. session'[c] = [session[c] EXCEPT !.at = "asking", !.asked = url]
    BY <2>0 DEF IInv, Shaped
  <2>2. Shape(session[c]) /\ Shape(session'[c])
    BY <2>1 DEF IInv, Shaped, Shape
  <2>3. Only(c)
    BY <2>2, <2>0 DEF IInv, Shaped, Only
  <2>4. /\ session'[c].at = "asking"
        /\ session'[c].server = session[c].server
        /\ session'[c].told = session[c].told
    BY <2>1, <2>2 DEF Shape
  <2> QED BY <2>3, <2>4, GoOnInvariant DEF Ask, IInv, TypeOK, Untold, Taken, At
<1>2. CASE ~Routed(session[c].url)
  BY <1>2, TellInvariant DEF Ask, Told, Unknown, IInv, TypeOK
<1> QED BY <1>1, <1>2

LEMMA StatusInvariant ==
    ASSUME IInv, NEW c \in Client, NEW coding, Status(c, coding)
    PROVE  IInv'
<1>0. PICK body \in {task[c], "missing"} :
          session' = [session EXCEPT ![c].at = "informed",
                                     ![c].reply = Fetched(Reply(body, coding))]
  BY DEF Status
<1> DEFINE reply == Fetched(Reply(body, coding))
<1>6. reply.body = body
  BY DEF Fetched, Reply
<1> HIDE DEF reply
<1>1. session'[c] = [session[c] EXCEPT !.at = "informed", !.reply = reply]
  BY <1>0 DEF IInv, Shaped, reply
<1>2. Shape(session[c]) /\ Shape(session'[c])
  BY <1>1 DEF IInv, Shaped, Shape
<1>3. Only(c)
  BY <1>2, <1>0 DEF IInv, Shaped, Only
<1>4. /\ session'[c].at = "informed"
      /\ session'[c].server = session[c].server
      /\ session'[c].told = session[c].told
      /\ session'[c].reply = reply
  BY <1>1, <1>2 DEF Shape
<1>5. task[c] \in {"running", "completed", "failed"}
  BY DEF Status, IInv, TypeOK, Taken, At, State
<1> QED BY <1>3, <1>4, <1>5, <1>6, GoOnInvariant DEF Status, IInv, TypeOK, Untold, At

LEMMA LearnInvariant ==
    ASSUME IInv, NEW c \in Client, Learn(c)
    PROVE  IInv'
<1>1. CASE \E what \in {"unreadable", session[c].reply.body} :
              what # "running" /\ Tell(c, what)
  BY <1>1, TellInvariant DEF Learn, Told, Unknown, IInv, TypeOK, Honest, At
<1>2. CASE session' = [session EXCEPT ![c].at = "following",
                           ![c].reply = NoReply, ![c].asked = Nowhere]
  <2>1. session'[c] = [session[c] EXCEPT !.at = "following", !.reply = NoReply,
                                              !.asked = Nowhere]
    BY <1>2 DEF IInv, Shaped
  <2>2. Shape(session[c]) /\ Shape(session'[c])
    BY <2>1 DEF IInv, Shaped, Shape
  <2>3. Only(c)
    BY <2>2, <1>2 DEF IInv, Shaped, Only
  <2>4. /\ session'[c].at = "following"
        /\ session'[c].server = session[c].server
        /\ session'[c].told = session[c].told
    BY <2>1, <2>2 DEF Shape
  <2> QED BY <2>3, <2>4, GoOnInvariant DEF Learn, IInv, TypeOK, Untold, Taken, At
<1> QED BY <1>1, <1>2 DEF Learn

LEMMA AgainInvariant ==
    ASSUME IInv, NEW c \in Client, Again(c)
    PROVE  IInv'
<1>1. session'[c] = Idle /\ Shape(Idle)
  BY DEF Again, IInv, Shaped, Shape, Idle
<1>2. Only(c)
  BY <1>1 DEF Again, IInv, Shaped, Only
<1>3. task' \in [Client -> State] /\ task'[c] = "none"
      /\ \A d \in Client \ {c} : task'[d] = task[d]
  BY DEF Again, IInv, TypeOK, State
<1> QED BY <1>1, <1>2, <1>3, GoOnInvariant DEF Again, Idle, IInv, TypeOK

LEMMA DropInvariant == IInv /\ Drop => IInv'
<1> SUFFICES ASSUME IInv, Drop PROVE IInv'
  OBVIOUS
<1>1. \A c \in Client :
         /\ Shape(session'[c])
         /\ \/ session'[c] = session[c]
            \/ /\ session'[c].at = "done" /\ session'[c].told = "error"
               /\ session'[c].server = "none"
  BY DEF Drop, IInv, Shaped, Shape, Idle
<1>2. session' = [c \in Client |-> session'[c]]
  BY DEF Drop
<1>3. TypeOK'
  <2>1. late' \in [Client -> Nat]
    BY DEF Drop, Adrift, IInv, TypeOK
  <2> QED BY <1>1, <2>1 DEF Drop, IInv, TypeOK, Told, Unknown
<1>4. Shaped'
  BY <1>1, <1>2 DEF Shaped
<1>5. Untold' /\ Taken' /\ Honest'
  BY <1>1 DEF Drop, IInv, Untold, Taken, Honest, At
<1> QED BY <1>3, <1>4, <1>5 DEF IInv

\* The inductive invariant: no client is told anything before the end, and what
\* Galaxy says of an import that has ended is so.
THEOREM Invariance == Spec => []IInv
<1>1. IInv /\ [Next \/ Drop]_vars => IInv'
  <2> SUFFICES ASSUME IInv, [Next \/ Drop]_vars PROVE IInv'
    OBVIOUS
  <2>1. ASSUME NEW c \in Client, NEW s \in Server, Upload(c, s) PROVE IInv'
    BY <2>1, UploadInvariant
  <2>2. ASSUME NEW c \in Client, Progress(c) PROVE IInv'
    <3>1. CASE Refuse(c) \/ Unserved(c) \/ AskOutside(c)
      BY <2>2, <3>1, TellInvariant
      DEF Refuse, Unserved, AskOutside, Told, Unknown, IInv, TypeOK
    <3> QED BY <2>2, <3>1, AcceptInvariant, AnswerInvariant, FollowInvariant,
               AskInvariant, StatusInvariant, LearnInvariant DEF Progress
  <2>3. ASSUME NEW c \in Client, Lose(c) \/ Expire(c) PROVE IInv'
    <3>1. late' \in [Client -> Nat]
      BY <2>3 DEF Lose, Expire, Adrift, IInv, TypeOK
    <3> QED BY <2>3, <3>1, TellInvariant, PublicationAssumption
            DEF Lose, Expire, Told, Unknown, IInv, TypeOK
  <2>4. CASE UNCHANGED vars
    BY <2>4 DEF vars, IInv, TypeOK, Shaped, Untold, Taken, Honest, At
  <2> QED BY <2>1, <2>2, <2>3, <2>4, EndImportInvariant, ArriveLateInvariant,
             AgainInvariant, DropInvariant DEF Next
<1> QED BY <1>1, InitInvariant, PTL DEF Spec

\* What is checked of the types of sessions, imports and losses holds always.
THEOREM TypeCorrect == Spec => []TypeOK
BY Invariance, PTL DEF IInv
-----------------------------------------------------------------------------
\* What one client is told, what becomes of its import, and what may still arrive,
\* in a step.
Steps(c) == [Session(c)!Next]_(Session(c)!vars)

\* What a step may leave alone.
Same(c) == import'[c] = import[c] /\ task'[c] = task[c]

LEMMA Stutters ==
    ASSUME NEW c \in Client, Same(c), late'[c] = late[c],
           session'[c].told = session[c].told
    PROVE  Steps(c)
BY DEF Same, Steps, Session!vars, Known

\* To be told nothing of the import is a step, even if what was sent is on its way.
LEMMA GivesUp ==
    ASSUME IInv, NEW c \in Client, Same(c), ~At(c, "done"),
           session'[c].told \in Unknown,
           \/ late'[c] = late[c]
           \/ task[c] = "none" /\ late'[c] = late[c] + 1
    PROVE  Steps(c)
BY DEF IInv, Same, Untold, Steps, Session!Next, Session!GiveUp, Known, Unknown

LEMMA ReportsOwn ==
    ASSUME IInv, NEW c \in Client, Same(c), late'[c] = late[c], At(c, "informed"),
           session'[c].told = session[c].reply.body,
           session[c].reply.body # "running"
    PROVE  Steps(c)
<1>1. CASE session[c].reply.body = "missing"
  BY <1>1, GivesUp DEF Unknown, At
<1>2. CASE session[c].reply.body \in {"completed", "failed"}
  BY <1>2 DEF IInv, Same, Honest, Untold, At, Steps, Session!Next, Session!Report,
              Session!Outcome, Known, Unknown
<1> QED BY <1>1, <1>2 DEF IInv, Honest

LEMMA RefuseSteps ==
    ASSUME IInv, NEW c \in Client, Refuse(c)
    PROVE  Steps(c)
<1>1. /\ session'[c].told = IF import[c] \in {"none", "failed"} THEN "refused"
                                                                ELSE "conflict"
      /\ session[c].told = "nothing" /\ UNCHANGED <<import, task, late>>
      /\ task[c] = "none"
  BY TellEffect DEF Refuse, IInv, TypeOK, Untold, Taken, At
<1> QED BY <1>1 DEF Steps, Session!Next, Session!Refuse, Session!Conflict, Session!Free,
                    Known, Unknown

LEMMA AcceptSteps ==
    ASSUME IInv, NEW c \in Client, NEW form, NEW coding, Accept(c, form, coding)
    PROVE  Steps(c)
<1>1. /\ session'[c].told = "nothing" /\ session[c].told = "nothing"
      /\ import[c] \in {"none", "failed"} /\ import'[c] = "running"
      /\ task[c] = "none" /\ task'[c] = "running" /\ late' = late
  BY DEF Accept, IInv, TypeOK, Shaped, Shape, Untold, Taken, At
<1> QED BY <1>1 DEF Steps, Session!Next, Session!Accept, Session!Free, Known, Unknown

LEMMA EndImportSteps ==
    ASSUME IInv, NEW c \in Client, EndImport(c)
    PROVE  Steps(c)
<1>1. /\ import[c] = "running" /\ import'[c] \in {"completed", "failed"}
      /\ task'[c] = IF task[c] = "running" THEN import'[c] ELSE task[c]
      /\ UNCHANGED <<session, late>>
  BY DEF EndImport, IInv, TypeOK
<1> QED BY <1>1 DEF Steps, Session!Next, Session!End, Session!Outcome, Known

LEMMA ArriveLateSteps ==
    ASSUME IInv, NEW c \in Client, ArriveLate(c)
    PROVE  Steps(c)
<1>1. /\ late[c] > 0 /\ late'[c] = late[c] - 1
      /\ \/ import[c] \in {"none", "failed"} /\ import'[c] = "running"
         \/ import'[c] = import[c]
      /\ UNCHANGED <<session, task>>
  BY DEF ArriveLate, IInv, TypeOK
<1> QED BY <1>1 DEF Steps, Session!Next, Session!Arrive, Session!Free, Known

LEMMA AgainSteps ==
    ASSUME IInv, NEW c \in Client, Again(c)
    PROVE  Steps(c)
<1>1. session'[c].told = "nothing" /\ task'[c] = "none" /\ UNCHANGED <<import, late>>
  BY DEF Again, IInv, TypeOK, Shaped, Idle
<1> QED BY <1>1 DEF Again, Steps, Session!Next, Session!TryAgain, Known, Unknown

\* Every step of the client's own session.
LEMMA OwnSteps ==
    ASSUME IInv, NEW c \in Client,
           \/ \E s \in Server : Upload(c, s)
           \/ Progress(c) \/ EndImport(c) \/ ArriveLate(c)
           \/ Lose(c) \/ Expire(c) \/ Again(c)
    PROVE  Steps(c)
<1>1. ASSUME NEW what \in Unknown, Tell(c, what), ~At(c, "done"),
             UNCHANGED <<import, task, late>>
      PROVE  Steps(c)
  BY <1>1, TellEffect, GivesUp DEF IInv, Same
<1>2. ASSUME NEW s \in Server, Upload(c, s) PROVE Steps(c)
  <2>1. session'[c] = [session[c] EXCEPT !.at = "uploading", !.server = s]
    BY <1>2 DEF Upload, IInv, Shaped
  <2>2. session'[c].told = session[c].told
    BY <2>1 DEF IInv, Shaped, Shape
  <2> QED BY <1>2, <2>2, Stutters DEF Upload, Same
<1>3. CASE Unserved(c) \/ AskOutside(c) \/ Expire(c)
  BY <1>1, <1>3 DEF Unserved, AskOutside, Expire, At, Unknown
<1>9. CASE Lose(c)
  <2>1. late'[c] = Adrift(c) /\ UNCHANGED <<import, task>>
    BY <1>9 DEF Lose, IInv, TypeOK
  <2>2. session'[c].told = "error" /\ ~At(c, "done")
    BY <1>9, TellEffect DEF Lose, IInv, InFlight, Sent, At
  <2> QED BY <2>1, <2>2, GivesUp DEF Same, Adrift, Sent, At, IInv, Taken, Unknown
<1>4. CASE Answer(c)
  <2>1. session'[c].told = session[c].told /\ UNCHANGED <<import, task, late>>
    BY <1>4 DEF Answer, IInv, Shaped, Shape
  <2> QED BY <2>1, Stutters DEF Same
<1>5. CASE Follow(c)
  BY <1>1, <1>5, Stutters DEF Same, Follow, At, Unknown, IInv, Shaped, Shape
<1>6. CASE Ask(c)
  BY <1>1, <1>6, Stutters DEF Same, Ask, At, Unknown, IInv, Shaped, Shape
<1>7. ASSUME NEW coding \in Coding, Status(c, coding) PROVE Steps(c)
  <2>1. session'[c].told = session[c].told /\ UNCHANGED <<import, task, late>>
    BY <1>7 DEF Status, IInv, Shaped, Shape
  <2> QED BY <2>1, Stutters DEF Same
<1>8. CASE Learn(c)
  <2>1. CASE Tell(c, session[c].reply.body) /\ session[c].reply.body # "running"
    BY <1>8, <2>1, TellEffect, ReportsOwn DEF Same, Learn, IInv
  <2>2. CASE Tell(c, "unreadable")
    BY <1>1, <1>8, <2>2 DEF Learn, At, Unknown
  <2> QED BY <1>8, <2>1, <2>2, Stutters DEF Same, Learn, IInv, Shaped, Shape
<1> QED BY <1>2, <1>3, <1>4, <1>5, <1>6, <1>7, <1>8, <1>9, AcceptSteps, RefuseSteps,
           EndImportSteps, ArriveLateSteps, AgainSteps DEF Progress

\* A step of one client's session leaves the others where they are.
LEMMA OthersStay ==
    ASSUME IInv, NEW c \in Client, NEW d \in Client \ {c},
           \/ \E s \in Server : Upload(c, s)
           \/ Progress(c) \/ EndImport(c) \/ ArriveLate(c)
           \/ Lose(c) \/ Expire(c) \/ Again(c)
    PROVE  session'[d] = session[d] /\ Same(d) /\ late'[d] = late[d]
<1>1. ASSUME NEW what, Tell(c, what) PROVE session'[d] = session[d]
  BY <1>1, TellEffect DEF IInv
<1>2. CASE Refuse(c) \/ Unserved(c) \/ AskOutside(c) \/ Lose(c) \/ Expire(c)
  BY <1>1, <1>2 DEF Same, Refuse, Unserved, AskOutside, Lose, Expire, IInv, TypeOK
<1>3. CASE Follow(c) \/ Ask(c) \/ Learn(c)
  BY <1>1, <1>3 DEF Same, Follow, Ask, Learn, IInv, Shaped
<1>4. CASE (\E s \in Server : Upload(c, s)) \/ Answer(c) \/ Again(c)
         \/ EndImport(c) \/ ArriveLate(c)
  BY <1>4 DEF Same, Upload, Answer, Again, EndImport, ArriveLate, IInv, Shaped, TypeOK
<1>5. CASE \E form \in Forms, coding \in Coding : Accept(c, form, coding)
  BY <1>5 DEF Same, Accept, IInv, Shaped, TypeOK
<1>6. CASE \E coding \in Coding : Status(c, coding)
  BY <1>6 DEF Same, Status, IInv, Shaped
<1> QED BY <1>2, <1>3, <1>4, <1>5, <1>6 DEF Progress

\* When the proxy stops, whoever waits for it gives up.
LEMMA DropSteps ==
    ASSUME IInv, Drop, NEW c \in Client
    PROVE  Steps(c)
<1>0. late'[c] = Adrift(c) /\ Same(c)
  BY DEF Drop, Same
<1>1. CASE InFlight(c)
  <2>1. session'[c].told = "error" /\ ~At(c, "done")
    BY <1>1 DEF Drop, Idle, InFlight, Sent, At
  <2> QED BY <1>0, <2>1, GivesUp DEF Adrift, Sent, At, IInv, Taken, Unknown
<1>2. CASE ~InFlight(c)
  BY <1>0, <1>2, Stutters DEF Drop, Adrift, InFlight
<1> QED BY <1>1, <1>2

\* Every client's session implements PublishSession, whatever the other clients
\* do, whatever is served and whenever an upload given up arrives: what a client is
\* told of its import is so, it is refused only what Galaxy refuses, and when it is
\* told nothing it may go back.
THEOREM SessionsImplemented == Spec => ImplementsSession
<1>1. Init => \A c \in Client : Session(c)!Init
  <2> SUFFICES ASSUME Init, NEW c \in Client PROVE Session(c)!Init
    OBVIOUS
  <2>1. /\ import[c] = "none" /\ task[c] = "none" /\ late[c] = 0
        /\ session[c].told = "nothing"
    BY DEF Init, Idle
  <2> QED BY <2>1 DEF Session!Init, Known, Unknown
<1>2. IInv /\ [Next \/ Drop]_vars => [\A c \in Client : Steps(c)]_vars
  <2> SUFFICES ASSUME IInv, Next \/ Drop, NEW c \in Client PROVE Steps(c)
    OBVIOUS
  <2>1. CASE Drop
    BY <2>1, DropSteps
  <2>2. CASE Next
    <3>1. PICK d \in Client :
             \/ \E s \in Server : Upload(d, s)
             \/ Progress(d) \/ EndImport(d) \/ ArriveLate(d)
             \/ Lose(d) \/ Expire(d) \/ Again(d)
      BY <2>2 DEF Next
    <3>2. CASE d = c
      BY <3>1, <3>2, OwnSteps
    <3>3. CASE d # c
      BY <3>1, <3>3, OthersStay, Stutters
    <3> QED BY <3>2, <3>3
  <2> QED BY <2>1, <2>2
<1>3. IInv /\ [Next \/ Drop]_vars
         => [\A c \in Client : [Session(c)!Next]_(Session(c)!vars)]_vars
  BY <1>2 DEF Steps
<1> QED BY <1>1, <1>3, Invariance, PTL DEF Spec, ImplementsSession

-----------------------------------------------------------------------------
\* Steps that end a session, or have not got as far as a reply.
LEMMA Ends ==
    ASSUME IInv, NEW c \in Client,
           Refuse(c) \/ Unserved(c) \/ AskOutside(c) \/ Lose(c) \/ Expire(c) \/ Again(c)
    PROVE  session'[c].at \in {"idle", "done"}
<1>1. ASSUME NEW what, Tell(c, what) PROVE session'[c].at \in {"idle", "done"}
  BY <1>1, TellEffect DEF IInv
<1>2. CASE Again(c)
  BY <1>2 DEF Again, IInv, Shaped, Idle
<1> QED BY <1>1, <1>2 DEF Refuse, Unserved, AskOutside, Lose, Expire

\* A reply without a content coding is passed on without one, rewritten or not.
LEMMA PassedOn ==
    ASSUME NEW body
    PROVE  /\ Fetched(Reply(body, "identity")) = Reply(body, "identity")
           /\ Readable(Reply(body, "identity"))
           /\ \A s : \E b : Rewritten(Reply(body, "identity"), s) = Reply(b, "identity")
<1>1. Fetched(Reply(body, "identity")) = Reply(body, "identity")
  BY DEF Fetched, Reply
<1>2. Readable(Reply(body, "identity"))
  BY DEF Readable, Reply
<1>3. ASSUME NEW s PROVE \E b : Rewritten(Reply(body, "identity"), s) = Reply(b, "identity")
  <2>1. CASE body.form = "root"
    <3>1. PICK b : Rewritten(Reply(body, "identity"), s)
                      = [Reply(body, "identity") EXCEPT !.body = b, !.sized = <<b, "identity">>]
      BY <2>1 DEF Rewritten, Reply
    <3> QED BY <3>1 DEF Reply
  <2>2. CASE body.form # "root"
    BY <2>2 DEF Rewritten, Reply
  <2> QED BY <2>1, <2>2
<1> QED BY <1>1, <1>2, <1>3

\* What the client has when the proxy has passed a reply on.
LEMMA Answered ==
    ASSUME IInv, NEW c \in Client, Answer(c)
    PROVE  /\ session'[c].at = "answered" /\ session'[c].server = session[c].server
           /\ session'[c].reply = Rewritten(Fetched(session[c].reply), session[c].server)
           /\ session'[c].meant = session[c].meant
<1> DEFINE reply == Rewritten(Fetched(session[c].reply), session[c].server)
<1>1. session'[c] = [session[c] EXCEPT !.at = "answered", !.reply = reply]
  BY DEF Answer, IInv, Shaped
<1> HIDE DEF reply
<1>2. Shape(session[c])
  BY DEF IInv, Shaped
<1>3. /\ session'[c].at = "answered" /\ session'[c].server = session[c].server
      /\ session'[c].reply = reply /\ session'[c].meant = session[c].meant
  BY <1>1, <1>2 DEF Shape
<1> QED BY <1>3 DEF reply

LEMMA Informed ==
    ASSUME IInv, NEW c \in Client, NEW coding, Status(c, coding)
    PROVE  /\ session'[c].at = "informed" /\ session'[c].server = session[c].server
           /\ \E b : session'[c].reply = Fetched(Reply(b, coding))
           /\ session'[c].meant = session[c].meant /\ session'[c].url = session[c].url
<1>1. PICK body :
          session' = [session EXCEPT ![c].at = "informed",
                                     ![c].reply = Fetched(Reply(body, coding))]
  BY DEF Status
<1> DEFINE reply == Fetched(Reply(body, coding))
<1> HIDE DEF reply
<1>2. session'[c] = [session[c] EXCEPT !.at = "informed", !.reply = reply]
  BY <1>1 DEF IInv, Shaped, reply
<1>3. Shape(session[c])
  BY DEF IInv, Shaped
<1>4. /\ session'[c].at = "informed" /\ session'[c].server = session[c].server
      /\ session'[c].reply = reply
      /\ session'[c].meant = session[c].meant /\ session'[c].url = session[c].url
  BY <1>2, <1>3 DEF Shape
<1> QED BY <1>4 DEF reply

\* The reply of a session has no content coding.
Plain(c) ==
    session[c].at \in {"accepted", "answered", "informed"}
        => \E b : session[c].reply = Reply(b, "identity")

LEMMA PlainSteps ==
    ASSUME IInv, Coding \subseteq {"identity"}, NEW c \in Client, Plain(c),
           \/ \E s \in Server : Upload(c, s)
           \/ Progress(c) \/ EndImport(c) \/ ArriveLate(c)
           \/ Lose(c) \/ Expire(c) \/ Again(c)
    PROVE  Plain(c)'
<1>1. CASE Refuse(c) \/ Unserved(c) \/ AskOutside(c) \/ Lose(c) \/ Expire(c) \/ Again(c)
  BY <1>1, Ends DEF Plain
<1>2. CASE \/ \E s \in Server : Upload(c, s)
           \/ Follow(c) \/ Ask(c) \/ Learn(c)
  <2>1. CASE \E what : Tell(c, what)
    BY <2>1, TellEffect DEF IInv, Plain
  <2>2. CASE \E s \in Server : Upload(c, s)
    BY <2>2 DEF Upload, IInv, Shaped, Shape, Plain
  <2>3. CASE Follow(c) \/ Ask(c) \/ Learn(c)
    BY <2>1, <2>3 DEF Follow, Ask, Learn, IInv, Shaped, Shape, Plain
  <2> QED BY <1>2, <2>2, <2>3
<1>3. ASSUME NEW form, NEW coding \in Coding, Accept(c, form, coding) PROVE Plain(c)'
  <2>1. PICK b : session'[c].reply = Reply(b, "identity")
    BY <1>3 DEF Accept, IInv, Shaped, Shape
  <2> QED BY <2>1 DEF Plain
<1>4. CASE Answer(c)
  <2>1. PICK b : session[c].reply = Reply(b, "identity")
    BY <1>4 DEF Answer, At, Plain
  <2>2. session'[c].reply = Rewritten(Fetched(session[c].reply), session[c].server)
    BY <1>4, Answered
  <2> QED BY <2>1, <2>2, PassedOn DEF Plain
<1>5. ASSUME NEW coding \in Coding, Status(c, coding) PROVE Plain(c)'
  <2>1. PICK b : session'[c].reply = Fetched(Reply(b, coding))
    BY <1>5, Informed
  <2> QED BY <2>1, PassedOn DEF Plain
<1>6. CASE EndImport(c) \/ ArriveLate(c)
  BY <1>6 DEF EndImport, ArriveLate, Plain
<1> QED BY <1>1, <1>2, <1>3, <1>4, <1>5, <1>6 DEF Progress

\* What holds of a session, and is kept by its own steps, by a stop of the
\* proxy, and while nothing happens to it, holds of all of them.
LEMMA PlainInvariant ==
    ASSUME Coding \subseteq {"identity"}, IInv, [Next \/ Drop]_vars,
           \A c \in Client : Plain(c)
    PROVE  \A c \in Client : Plain(c)'
<1> SUFFICES ASSUME NEW c \in Client PROVE Plain(c)'
  OBVIOUS
<1>1. CASE session'[c] = session[c]
  BY <1>1 DEF Plain
<1>2. CASE Drop
  <2>1. session'[c] = session[c] \/ session'[c].at = "done"
    BY <1>2 DEF Drop, Idle
  <2> QED BY <1>1, <2>1 DEF Plain
<1>3. CASE Next
  <2>1. PICK d \in Client :
           \/ \E s \in Server : Upload(d, s)
           \/ Progress(d) \/ EndImport(d) \/ ArriveLate(d)
             \/ Lose(d) \/ Expire(d) \/ Again(d)
    BY <1>3 DEF Next
  <2>2. CASE d = c
    BY <2>1, <2>2, PlainSteps
  <2>3. CASE d # c
    BY <1>1, <2>1, <2>3, OthersStay
  <2> QED BY <2>2, <2>3
<1> QED BY <1>1, <1>2, <1>3 DEF vars

\* Without content codings every reply that the proxy passes on, as it is or
\* with its task rewritten, has the coding and the length that its headers say.
THEOREM RepliesReadable ==
    ASSUME Coding \subseteq {"identity"}
    PROVE  Spec => []ReplyReadable
<1>1. Init => \A c \in Client : Plain(c)
  BY DEF Init, Plain, Idle
<1>2. (\A c \in Client : Plain(c)) => ReplyReadable
  BY PassedOn DEF Plain, ReplyReadable, At
<1>3. IInv /\ (\A c \in Client : Plain(c)) /\ [Next \/ Drop]_vars
         => (\A c \in Client : Plain(c))'
  BY PlainInvariant
<1> QED BY <1>1, <1>2, <1>3, Invariance, PTL DEF Spec

-----------------------------------------------------------------------------
\* What is served of a server is always the same, Base[s]; one that names its
\* tasks from the root has no path, and none is the proxy itself.
Consistent(Base) == \A s \in DOMAIN serving : serving[s] = Base[s]
Fitting(Base) ==
    \A s \in Server : /\ "root" \in Form[s] => Base[s].path = <<>>
                      /\ Base[s].host # "proxy"

\* Where a client finds its task through the proxy, and where Galaxy has it.
Way(s, c) == URL("proxy", Proxied(s).path \o Task(c))
Goal(base, c) == URL(base.host, base.path \o Task(c))

LEMMA Fields ==
    /\ \A host, path : URL(host, path).host = host /\ URL(host, path).path = path
    /\ \A form, url : Ref(form, url).form = form /\ Ref(form, url).url = url
    /\ \A s : Proxied(s).host = "proxy" /\ Proxied(s).path = <<"api", "v1", s>>
    /\ Nowhere.host = "none"
BY DEF URL, Ref, Proxied, Nowhere

LEMMA References ==
    ASSUME NEW base, NEW path
    PROVE  /\ Reference("root", base, path) = Ref("root", URL("none", base.path \o path))
           /\ Reference("relative", base, path) = Ref("relative", URL("none", path))
           /\ Reference("absolute", base, path)
                 = Ref("absolute", URL(base.host, base.path \o path))
           /\ Reference("none", base, path) = Ref("none", Nowhere)
BY DEF Reference

LEMMA Resolved ==
    ASSUME NEW base, NEW url
    PROVE  /\ Resolve(base, Ref("root", url)) = URL(base.host, url.path)
           /\ Resolve(base, Ref("relative", url)) = URL(base.host, base.path \o url.path)
           /\ Resolve(base, Ref("absolute", url)) = url
           /\ Resolve(base, Ref("none", url)) = url
BY Fields DEF Resolve

\* What a concatenation ends with.
LEMMA Behind ==
    ASSUME NEW T, NEW p \in Seq(T), NEW q \in Seq(T)
    PROVE  /\ Len(p \o q) = Len(p) + Len(q)
           /\ SubSeq(p \o q, Len(p) + 1, Len(p \o q)) = q
           /\ \A i \in 1 .. Len(p) : (p \o q)[i] = p[i]
<1>1. Len(p \o q) = Len(p) + Len(q)
  OBVIOUS
<1>2. SubSeq(p \o q, Len(p) + 1, Len(p) + Len(q)) = q
  BY SubSeqOfConcat2
<1> QED BY <1>1, <1>2

\* The route of proxy_get_request takes the way to the goal.
LEMMA WayLeads ==
    ASSUME NEW s, NEW c, Routed(Way(s, c))
    PROVE  s \in DOMAIN serving /\ Target(Way(s, c)) = Goal(serving[s], c)
<1> DEFINE T == {"api", "v1", "v3", "imports", s, c}
           p == <<"api", "v1", s>>
           q == <<"api", "v3", "imports", c>>
           path == p \o q
<1>1. p \in Seq(T) /\ q \in Seq(T) /\ Len(p) = 3 /\ p[3] = s
  OBVIOUS
<1>3. q = Task(c) /\ Proxied(s).path = p
  BY Fields DEF Task
<1> HIDE DEF T, p, q
<1>2. Way(s, c).path = Proxied(s).path \o Task(c)
  BY DEF Way, URL
<1>6. Way(s, c).path = path
  BY <1>2, <1>3
<1>7. SubSeq(path, Len(p) + 1, Len(path)) = q
  BY <1>1, Behind
<1>8. \A i \in 1 .. Len(p) : path[i] = p[i]
  BY <1>1, Behind
<1> HIDE DEF path
<1>4. path[3] = s
  BY <1>1, <1>8
<1>9. Len(p) + 1 = 4
  BY <1>1
<1>5. SubSeq(path, 4, Len(path)) = q
  BY <1>7, <1>9
<1> QED BY <1>6, <1>3, <1>4, <1>5 DEF Routed, Target, Goal

LEMMA Prefixing ==
    ASSUME NEW form, NEW path, NEW ref, ref = Ref(form, URL("none", path)),
           NEW prefix
    PROVE  [ref EXCEPT !.url.path = prefix \o @] = Ref(form, URL("none", prefix \o path))
<1> DEFINE longer == prefix \o ref.url.path
<1>1. ref = [form |-> form, url |-> [host |-> "none", path |-> path]]
  BY DEF Ref, URL
<1>2. ref.url = [host |-> "none", path |-> path] /\ ref.url.path = path
  BY <1>1
<1>3. longer = prefix \o path
  BY <1>2
<1> HIDE DEF longer
<1>4. [ref.url EXCEPT !.path = longer] = [host |-> "none", path |-> longer]
  BY <1>2
<1> DEFINE url == [ref.url EXCEPT !.path = longer]
<1> HIDE DEF url
<1>5. [ref EXCEPT !.url = url] = [form |-> form, url |-> url]
  BY <1>1
<1>6. [ref EXCEPT !.url = url] = Ref(form, URL("none", longer))
  BY <1>4, <1>5 DEF Ref, URL, url
<1>7. [ref EXCEPT !.url.path = longer] = [ref EXCEPT !.url = url]
  BY DEF url
<1> QED BY <1>3, <1>6, <1>7 DEF longer

\* The rewriting of a reference, whatever else the reply is.
LEMMA Rewriting ==
    ASSUME NEW s, NEW coding, NEW form, NEW path,
           NEW ref, ref = Ref(form, URL("none", path))
    PROVE  Rewritten(Fetched(Reply(ref, coding)), s).body
              = IF form = "root" THEN Ref(form, URL("none", Proxied(s).path \o path))
                                 ELSE ref
<1> DEFINE reply == Fetched(Reply(ref, coding))
<1>2. reply.body = ref /\ ref.form = form
  BY Fields DEF Fetched, Reply
<1>3. reply = [body |-> ref, coding |-> "identity", stated |-> coding,
               sized |-> <<ref, coding>>]
  BY DEF Fetched, Reply
<1> HIDE DEF reply
<1>4. CASE form = "root"
  <2> DEFINE body == [reply.body EXCEPT !.url.path = Proxied(s).path \o @]
  <2>1. body = Ref(form, URL("none", Proxied(s).path \o path))
    <3>1. [ref EXCEPT !.url.path = Proxied(s).path \o @]
             = Ref(form, URL("none", Proxied(s).path \o path))
      <4>1. PICK prefix : prefix = Proxied(s).path
        OBVIOUS
      <4>2. [ref EXCEPT !.url.path = prefix \o @] = Ref(form, URL("none", prefix \o path))
        BY Prefixing
      <4> QED BY <4>1, <4>2
    <3> QED BY <3>1, <1>2
  <2>2. Rewritten(reply, s) = [reply EXCEPT !.body = body, !.sized = <<body, "identity">>]
    BY <1>2, <1>4 DEF Rewritten
  <2> HIDE DEF body
  <2>3. Rewritten(reply, s).body = body
    BY <2>2, <1>3
  <2> QED BY <2>1, <2>3, <1>4 DEF reply
<1>5. CASE form # "root"
  BY <1>2, <1>5 DEF Rewritten, reply
<1> QED BY <1>4, <1>5

\* However the task is named, if the client resolves it to the proxy, to the way
\* to what Galaxy has named.
LEMMA NamedWay ==
    ASSUME NEW Base, Fitting(Base), NEW s \in Server, NEW form \in Form[s], NEW c,
           NEW coding, NEW ref, ref = Reference(form, Base[s], Task(c)),
           NEW url,
           url = Resolve(Proxied(s), Rewritten(Fetched(Reply(ref, coding)), s).body),
           url.host = "proxy"
    PROVE  url = Way(s, c) /\ Resolve(Base[s], ref) = Goal(Base[s], c)
<1>1. form \in {"root", "relative", "absolute", "none"}
  BY PublicationAssumption DEF Forms, Server
<1>0. Base[s].host # "proxy" /\ (form = "root" => Base[s].path = <<>>)
  BY DEF Fitting
<1>2. CASE form = "root"
  <2>1. Base[s].path \o Task(c) = Task(c)
    <3>1. <<>> \o Task(c) = Task(c)
      BY DEF Task
    <3> QED BY <1>0, <1>2, <3>1
  <2>2. ref = Ref("root", URL("none", Task(c)))
    BY <1>2, <2>1, References
  <2>3. Rewritten(Fetched(Reply(ref, coding)), s).body
           = Ref("root", URL("none", Proxied(s).path \o Task(c)))
    BY <2>2, Rewriting
  <2>4. url = URL("proxy", Proxied(s).path \o Task(c))
    BY <2>3, Resolved, Fields
  <2>5. Resolve(Base[s], ref) = URL(Base[s].host, Task(c))
    BY <2>2, Resolved, Fields
  <2> QED BY <2>1, <2>4, <2>5 DEF Way, Goal
<1>3. CASE form = "relative"
  <2>1. ref = Ref("relative", URL("none", Task(c)))
    BY <1>3, References
  <2>2. Rewritten(Fetched(Reply(ref, coding)), s).body = ref
    BY <2>1, Rewriting
  <2>3. url = URL("proxy", Proxied(s).path \o Task(c))
    BY <2>1, <2>2, Resolved, Fields
  <2>4. Resolve(Base[s], ref) = URL(Base[s].host, Base[s].path \o Task(c))
    BY <2>1, Resolved, Fields
  <2> QED BY <2>3, <2>4 DEF Way, Goal
<1>4. CASE form \in {"absolute", "none"}
  <2>1. PICK target : target.host # "proxy" /\ ref = Ref(form, target)
    BY <1>0, <1>4, References, Fields
  <2>2. Rewritten(Fetched(Reply(ref, coding)), s).body = ref
    <3>1. Fetched(Reply(ref, coding)).body = ref /\ ref.form = form
      BY <2>1, Fields DEF Fetched, Reply
    <3> QED BY <1>4, <3>1 DEF Rewritten
  <2>3. url = target
    BY <1>4, <2>1, <2>2, Resolved
  <2> QED BY <2>1, <2>3
<1> QED BY <1>1, <1>2, <1>3, <1>4

\* A session that leads through the proxy is on the way to its goal.
Tracks(Base, c) ==
    LET q == session[c]
    IN  /\ q.at \notin {"idle", "done"} => q.server \in Server
        /\ q.at = "accepted" =>
              \E form \in Form[q.server], coding \in Coding :
                 LET ref == Reference(form, Base[q.server], Task(c))
                 IN  q.reply = Reply(ref, coding) /\ q.meant = Resolve(Base[q.server], ref)
        /\ q.at = "answered" =>
              LET url == Resolve(Proxied(q.server), q.reply.body)
              IN  url.host = "proxy" =>
                     url = Way(q.server, c) /\ q.meant = Goal(Base[q.server], c)
        /\ q.at \in {"following", "asking", "informed"} /\ q.url.host = "proxy" =>
              q.url = Way(q.server, c) /\ q.meant = Goal(Base[q.server], c)
        /\ q.at = "asking" => q.asked = q.meant

LEMMA TracksEnds ==
    ASSUME NEW Base, NEW c \in Client, session'[c].at \in {"idle", "done"}
    PROVE  Tracks(Base, c)'
BY DEF Tracks

\* The reply to the upload names the task as the server does.
LEMMA TracksAccept ==
    ASSUME IInv, NEW Base, Consistent(Base), NEW c \in Client, Tracks(Base, c),
           NEW form, NEW coding \in Coding, Accept(c, form, coding)
    PROVE  Tracks(Base, c)'
<1> DEFINE s == session[c].server
           ref == Reference(form, serving[s], Task(c))
           reply == Reply(ref, coding)
           meant == Resolve(serving[s], ref)
<1>1. session'[c] = [session[c] EXCEPT !.at = "accepted", !.reply = reply,
                                            !.meant = meant]
  BY DEF Accept, IInv, Shaped
<1>2. Shape(session[c])
  BY DEF IInv, Shaped
<1>3. s \in DOMAIN serving /\ form \in Form[s] /\ s \in Server
  BY DEF Accept, Up, At, Tracks
<1>4. serving[s] = Base[s]
  BY <1>3 DEF Consistent
<1>5. reply = Reply(Reference(form, Base[s], Task(c)), coding)
      /\ meant = Resolve(Base[s], Reference(form, Base[s], Task(c)))
  BY <1>4
<1> HIDE DEF ref, reply, meant
<1>6. /\ session'[c].at = "accepted" /\ session'[c].server = s
      /\ session'[c].reply = reply /\ session'[c].meant = meant
  BY <1>1, <1>2 DEF Shape
<1> HIDE DEF s
<1> QED BY <1>3, <1>5, <1>6 DEF Tracks

\* What the client resolves of the reply passed on is the way through the proxy.
LEMMA TracksAnswer ==
    ASSUME IInv, NEW Base, Fitting(Base), NEW c \in Client, Tracks(Base, c), Answer(c)
    PROVE  Tracks(Base, c)'
<1> DEFINE s == session[c].server
<1>1. session[c].at = "accepted" /\ s \in Server
  BY DEF Answer, At, Tracks
<1>2. PICK form \in Form[s], coding \in Coding :
          /\ session[c].reply = Reply(Reference(form, Base[s], Task(c)), coding)
          /\ session[c].meant = Resolve(Base[s], Reference(form, Base[s], Task(c)))
  BY <1>1 DEF Tracks
<1> DEFINE ref == Reference(form, Base[s], Task(c))
           url == Resolve(Proxied(s), session'[c].reply.body)
<1>3. /\ session'[c].at = "answered" /\ session'[c].server = s
      /\ session'[c].reply = Rewritten(Fetched(Reply(ref, coding)), s)
      /\ session'[c].meant = Resolve(Base[s], ref)
  BY <1>2, Answered
<1>4. url = Resolve(Proxied(s), Rewritten(Fetched(Reply(ref, coding)), s).body)
  BY <1>3
<1> HIDE DEF s, ref, url
<1>5. url.host = "proxy" => url = Way(s, c) /\ Resolve(Base[s], ref) = Goal(Base[s], c)
  BY <1>1, <1>4, NamedWay DEF ref
<1>6. url.host = "proxy" => url = Way(s, c) /\ session'[c].meant = Goal(Base[s], c)
  BY <1>3, <1>5
<1> QED BY <1>1, <1>3, <1>6 DEF Tracks, url

LEMMA TracksFollow ==
    ASSUME IInv, NEW Base, NEW c \in Client, Tracks(Base, c), Follow(c)
    PROVE  Tracks(Base, c)'
<1> DEFINE url == Resolve(Proxied(session[c].server), session[c].reply.body)
<1>1. ASSUME NEW what, Tell(c, what) PROVE Tracks(Base, c)'
  BY <1>1, TellEffect, TracksEnds DEF IInv
<1>2. ASSUME session' = [session EXCEPT ![c].at = "following", ![c].url = url,
                                        ![c].reply = NoReply]
      PROVE  Tracks(Base, c)'
  <2>1. session'[c] = [session[c] EXCEPT !.at = "following", !.url = url,
                                              !.reply = NoReply]
    BY <1>2 DEF IInv, Shaped
  <2>2. Shape(session[c])
    BY DEF IInv, Shaped
  <2>3. /\ session[c].at = "answered" /\ session[c].server \in Server
        /\ url.host = "proxy" => /\ url = Way(session[c].server, c)
                                 /\ session[c].meant = Goal(Base[session[c].server], c)
    BY DEF Follow, At, Tracks
  <2> HIDE DEF url
  <2>4. /\ session'[c].at = "following" /\ session'[c].server = session[c].server
        /\ session'[c].url = url /\ session'[c].meant = session[c].meant
    BY <2>1, <2>2 DEF Shape
  <2> QED BY <2>3, <2>4 DEF Tracks
<1> QED BY <1>1, <1>2 DEF Follow

\* The proxy asks for what Galaxy has named.
LEMMA TracksAsk ==
    ASSUME IInv, NEW Base, Consistent(Base), NEW c \in Client, Tracks(Base, c), Ask(c)
    PROVE  Tracks(Base, c)'
<1> DEFINE s == session[c].server
           url == session[c].url
<1>1. /\ session[c].at = "following" /\ s \in Server /\ url.host = "proxy"
      /\ url = Way(s, c) /\ session[c].meant = Goal(Base[s], c)
  BY DEF Ask, At, Tracks
<1>2. CASE Routed(url)
  <2> DEFINE asked == Target(url)
  <2>1. asked = Goal(serving[s], c) /\ s \in DOMAIN serving
    BY <1>1, <1>2, WayLeads
  <2>2. asked = Goal(Base[s], c)
    BY <2>1 DEF Consistent
  <2>3. session'[c] = [session[c] EXCEPT !.at = "asking", !.asked = asked]
    BY <1>2 DEF Ask, IInv, Shaped
  <2>4. Shape(session[c])
    BY DEF IInv, Shaped
  <2> HIDE DEF asked
  <2>5. /\ session'[c].at = "asking" /\ session'[c].server = s
        /\ session'[c].url = url /\ session'[c].meant = session[c].meant
        /\ session'[c].asked = asked
    BY <2>3, <2>4 DEF Shape
  <2> HIDE DEF s, url
  <2> QED BY <1>1, <2>2, <2>5 DEF Tracks
<1>3. CASE ~Routed(url)
  BY <1>3, TellEffect, TracksEnds DEF Ask, IInv
<1> QED BY <1>2, <1>3

LEMMA TracksStatus ==
    ASSUME IInv, NEW Base, NEW c \in Client, Tracks(Base, c),
           NEW coding, Status(c, coding)
    PROVE  Tracks(Base, c)'
<1>1. session[c].at = "asking"
  BY DEF Status, At
<1>2. /\ session'[c].at = "informed" /\ session'[c].server = session[c].server
      /\ session'[c].meant = session[c].meant /\ session'[c].url = session[c].url
  BY Informed
<1> QED BY <1>1, <1>2 DEF Tracks

LEMMA TracksLearn ==
    ASSUME IInv, NEW Base, NEW c \in Client, Tracks(Base, c), Learn(c)
    PROVE  Tracks(Base, c)'
<1>1. ASSUME NEW what, Tell(c, what) PROVE Tracks(Base, c)'
  BY <1>1, TellEffect, TracksEnds DEF IInv
<1>2. ASSUME session' = [session EXCEPT ![c].at = "following",
                             ![c].reply = NoReply, ![c].asked = Nowhere]
      PROVE  Tracks(Base, c)'
  <2>1. session'[c] = [session[c] EXCEPT !.at = "following", !.reply = NoReply,
                                              !.asked = Nowhere]
    BY <1>2 DEF IInv, Shaped
  <2>2. Shape(session[c]) /\ session[c].at = "informed"
    BY DEF IInv, Shaped, Learn, At
  <2>3. /\ session'[c].at = "following" /\ session'[c].server = session[c].server
        /\ session'[c].url = session[c].url /\ session'[c].meant = session[c].meant
    BY <2>1, <2>2 DEF Shape
  <2> QED BY <2>2, <2>3 DEF Tracks
<1> QED BY <1>1, <1>2 DEF Learn

LEMMA TracksSteps ==
    ASSUME IInv, NEW Base, Fitting(Base), Consistent(Base),
           NEW c \in Client, Tracks(Base, c),
           \/ \E s \in Server : Upload(c, s)
           \/ Progress(c) \/ EndImport(c) \/ ArriveLate(c)
           \/ Lose(c) \/ Expire(c) \/ Again(c)
    PROVE  Tracks(Base, c)'
<1>1. CASE Refuse(c) \/ Unserved(c) \/ AskOutside(c) \/ Lose(c) \/ Expire(c) \/ Again(c)
  BY <1>1, Ends, TracksEnds
<1>2. ASSUME NEW s \in Server, Upload(c, s) PROVE Tracks(Base, c)'
  <2>1. session'[c] = [session[c] EXCEPT !.at = "uploading", !.server = s]
    BY <1>2 DEF Upload, IInv, Shaped
  <2>2. session'[c].at = "uploading" /\ session'[c].server = s
    BY <2>1 DEF IInv, Shaped, Shape
  <2> QED BY <2>2 DEF Tracks
<1>3. CASE EndImport(c) \/ ArriveLate(c)
  BY <1>3 DEF EndImport, ArriveLate, Tracks
<1> QED BY <1>1, <1>2, <1>3, TracksAccept, TracksAnswer, TracksFollow, TracksAsk,
           TracksStatus, TracksLearn DEF Progress

LEMMA TracksInvariant ==
    ASSUME NEW Base, Fitting(Base), Consistent(Base), IInv, [Next \/ Drop]_vars,
           \A c \in Client : Tracks(Base, c)
    PROVE  \A c \in Client : Tracks(Base, c)'
<1> SUFFICES ASSUME NEW c \in Client PROVE Tracks(Base, c)'
  OBVIOUS
<1>1. CASE session'[c] = session[c]
  BY <1>1 DEF Tracks
<1>2. CASE Drop
  <2>1. session'[c] = session[c] \/ session'[c].at = "done"
    BY <1>2 DEF Drop, Idle
  <2> QED BY <1>1, <2>1, TracksEnds
<1>3. CASE Next
  <2>1. PICK d \in Client :
           \/ \E s \in Server : Upload(d, s)
           \/ Progress(d) \/ EndImport(d) \/ ArriveLate(d)
             \/ Lose(d) \/ Expire(d) \/ Again(d)
    BY <1>3 DEF Next
  <2>2. CASE d = c
    BY <2>1, <2>2, TracksSteps
  <2>3. CASE d # c
    BY <1>1, <2>1, <2>3, OthersStay
  <2> QED BY <2>2, <2>3
<1> QED BY <1>1, <1>2, <1>3 DEF vars

\* As long as a server keeps its base URL while tasks are followed, and names
\* tasks from its root only where that is the base URL's own, the proxy asks
\* Galaxy for the URL that Galaxy has named, however often the application
\* stops and whatever else it serves.
THEOREM TasksFollowed ==
    ASSUME NEW CONSTANT Base, Fitting(Base)
    PROVE  Spec /\ []Consistent(Base) => []FollowsTask
<1>1. Init => \A c \in Client : Tracks(Base, c)
  <2> SUFFICES ASSUME Init, NEW c \in Client PROVE Tracks(Base, c)
    OBVIOUS
  <2>1. session[c].at = "idle"
    BY DEF Init, Idle
  <2> QED BY <2>1 DEF Tracks
<1>2. (\A c \in Client : Tracks(Base, c)) => FollowsTask
  BY DEF Tracks, FollowsTask, At
<1>3. IInv /\ Consistent(Base) /\ (\A c \in Client : Tracks(Base, c)) /\ [Next \/ Drop]_vars
         => (\A c \in Client : Tracks(Base, c))'
  BY TracksInvariant
<1> QED BY <1>1, <1>2, <1>3, Invariance, PTL DEF Spec
=============================================================================
