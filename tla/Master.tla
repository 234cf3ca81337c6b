------------------------------- MODULE Master -------------------------------
(***************************************************************************)
(* The MasterServer and its DatabaseAccessor.  One thread reads packets    *)
(* and gives each request to a worker; registrations and logins become     *)
(* queries that workers of the accessor run on the table of users, while   *)
(* the task waits for the future of its query.                             *)
(*                                                                         *)
(* The table is outside of the repository: whether its e-mails are unique  *)
(* is open, and every statement may fail.  The search for a game is left   *)
(* to ServerPool.  Clients send a request as often as they like.           *)
(***************************************************************************)
EXTENDS MasterMessage, FiniteSets

CONSTANTS
    Worker,     \* _taskWorkers
    DbWorker,   \* _workers of the DatabaseAccessor
    Email, Password

\* A task starts, waits for the future of its query, and has what is in it.
Steps == {"start", "pending", "success", "failure", "exception"}

\* A request as a worker keeps it.  known: it came after the answer that
\* this e-mail is registered with this password.
Request == [name : {"CLRegister", "CLLogin", "CLFindGame"},
            email : Email \cup {Null}, password : Password \cup {Null}, known : BOOLEAN]

ASSUME MasterAssumption ==
    /\ Null \notin Worker \cup DbWorker \cup Email \cup Password
    /\ Null \notin [request : Request, step : Steps]
    /\ Null \notin [for : Worker, step : {"select", "insert"}]
    /\ BYTE > Len(Messages)

VARIABLES
    stage,      \* "boot", "running", "exited" or "crashed"
    controller, \* _gameserversController is there
    unique,     \* the table takes an e-mail only once
    job,        \* worker -> its task, as [request, step], or Null
    db,         \* worker of the accessor -> its task, as [for, step], or Null
    leaving,    \* the workers of the accessor whose task has returned, not idle yet
    owners,     \* e-mail -> the passwords of its rows
    confirmed,  \* history: the <<e-mail, password>> told to be registered
    raced       \* history: the e-mails for which two tasks were about to insert

dbVars == <<db, leaving, owners, raced>>
vars == <<stage, controller, unique, job, dbVars, confirmed>>

TypeOK ==
    /\ stage \in {"boot", "running", "exited", "crashed"}
    /\ controller \in BOOLEAN /\ unique \in BOOLEAN
    /\ job \in [Worker -> [request : Request, step : Steps] \cup {Null}]
    /\ db \in [DbWorker -> [for : Worker, step : {"select", "insert"}] \cup {Null}]
    /\ leaving \subseteq DbWorker
    /\ owners \in [Email -> Seq(Password)]
    /\ \A w \in Worker : job[w] # Null /\ job[w].step = "pending" =>
         \E d \in DbWorker : db[d] \in [for : {w}, step : {"select", "insert"}]
    /\ confirmed \subseteq Email \X Password
    /\ raced \subseteq Email

Init ==
    /\ stage = "boot"
    /\ controller = FALSE
    /\ unique \in BOOLEAN
    /\ job = [w \in Worker |-> Null]
    /\ db = [d \in DbWorker |-> Null]
    /\ leaving = {}
    /\ owners = [e \in Email |-> <<>>]
    /\ confirmed = {}
    /\ raced = {}

-----------------------------------------------------------------------------
(* The constructor of MasterServer.                                        *)

\* A port that is taken or a database that does not answer ends the process;
\* a controller that cannot be made is logged and missed later.
Boot ==
    /\ stage = "boot"
    /\ stage' \in {"running", "exited"}
    /\ controller' \in BOOLEAN
    /\ UNCHANGED <<unique, job, dbVars, confirmed>>

-----------------------------------------------------------------------------
(* MasterServer::run.                                                      *)

Running == stage = "running" /\ UNCHANGED <<stage, controller, unique>>

\* What clients send and run looks at.
Packets ==
    {Envelope(name, Create(MessagesTraits[name], [email |-> e, password |-> p])) :
        name \in {"CLRegister", "CLLogin"}, e \in Email, p \in Password}
    \cup {Envelope("CLFindGame", NoFields)}

\* The strings of a search for a game are not there.
Accepted(packet) ==
    LET email == IF PayloadName(packet) = "CLFindGame" THEN Null ELSE PayloadField(packet, "email")
        password == IF email = Null THEN Null ELSE PayloadField(packet, "password")
    IN [name |-> PayloadName(packet), email |-> email, password |-> password,
        known |-> <<email, password>> \in confirmed]

\* An idle worker starts the task; without one the request is skipped.
Dispatch(packet, w) ==
    /\ Running
    /\ job[w] = Null
    /\ VerifyMessages(packet)
    /\ job' = [job EXCEPT ![w] = [request |-> Accepted(packet), step |-> "start"]]
    /\ UNCHANGED <<dbVars, confirmed>>

\* A ping is answered at once and changes nothing.
Ping ==
    /\ Running
    /\ UNCHANGED <<job, dbVars, confirmed>>

-----------------------------------------------------------------------------
(* The tasks of the master server.                                         *)

Starts(w, names) ==
    /\ Running
    /\ job[w] # Null /\ job[w].step = "start" /\ job[w].request.name \in names

\* The task of w is over.
Finish(w) == job' = [job EXCEPT ![w] = Null]

Goto(w, step) == job' = [job EXCEPT ![w] = [request |-> job[w].request, step |-> step]]

Idle == {d \in DbWorker \ leaving : db[d] = Null}

\* DatabaseAccessor::Query: an idle worker of the accessor gets the query.
Query(w, d) ==
    /\ Starts(w, {"CLRegister", "CLLogin"})
    /\ d \in Idle
    /\ Goto(w, "pending")
    /\ db' = [db EXCEPT ![d] = [for |-> w, step |-> "select"]]
    /\ UNCHANGED <<leaving, owners, raced, confirmed>>

\* Mutant of QuerySkipped: the promise is kept although no task has it.
QuerySkippedKept(w) ==
    /\ Starts(w, {"CLRegister", "CLLogin"})
    /\ Idle = {}
    /\ Goto(w, "pending")
    /\ UNCHANGED <<dbVars, confirmed>>

\* Without one the query is skipped, which breaks its promise.
QuerySkipped(w) ==
    /\ Starts(w, {"CLRegister", "CLLogin"})
    /\ Idle = {}
    /\ Goto(w, "exception")
    /\ UNCHANGED <<dbVars, confirmed>>

\* There is no session for the query: runTask is left by the exception.
QueryThrows(w) ==
    /\ Starts(w, {"CLRegister", "CLLogin"})
    /\ Idle # {}
    /\ Finish(w)
    /\ UNCHANGED <<dbVars, confirmed>>

Ready(w) == job[w] # Null /\ job[w].step \in {"success", "failure"}

\* The answer of a task that has the result of its query.
Reply(w) ==
    LET success == job[w].step = "success"
    IN IF job[w].request.name = "CLRegister"
       THEN Envelope("SVRegister",
                     Create(SVRegister, [response |-> IF success THEN RegistrationStatus.SUCCESS
                                                      ELSE RegistrationStatus.EMAIL_TAKEN]))
       ELSE Envelope("SVLogin",
                     Create(SVLogin, [response |-> IF success THEN LoginStatus.SUCCESS
                                                   ELSE LoginStatus.WRONG_INPUT]))

\* The client reads this in it.
Says(w, name, response) ==
    Ready(w) /\ PayloadName(Reply(w)) = name /\ PayloadField(Reply(w), "response") = response

\* The future is ready and the answer is sent.
Answer(w) ==
    /\ Running
    /\ Ready(w)
    /\ confirmed' = confirmed \cup
         {c \in {<<job[w].request.email, job[w].request.password>>} :
            Says(w, "SVRegister", RegistrationStatus.SUCCESS)}
    /\ Finish(w)
    /\ UNCHANGED dbVars

\* It holds an exception, which is logged; nobody is told.
GiveUp(w) ==
    /\ Running
    /\ job[w] # Null /\ job[w].step = "exception"
    /\ Finish(w)
    /\ UNCHANGED <<dbVars, confirmed>>

\* GetServerAddress of ServerPool returns a port, which is sent, or nothing.
FindGame(w) ==
    /\ Starts(w, {"CLFindGame"})
    /\ controller
    /\ Finish(w)
    /\ UNCHANGED <<dbVars, confirmed>>

\* The controller is not there.
FindGameCrashes(w) ==
    /\ stage = "running"
    /\ job[w] # Null /\ job[w].request.name = "CLFindGame"
    /\ ~controller
    /\ stage' = "crashed"
    /\ UNCHANGED <<controller, unique, job, dbVars, confirmed>>

-----------------------------------------------------------------------------
(* The tasks of the accessor.                                              *)

\* What d's task is about.  It has a copy of the request of the worker that
\* waits for it.
Asked(d) == job[db[d].for].request

At(d, step, names) ==
    /\ Running
    /\ db[d] # Null /\ db[d].step = step /\ Asked(d).name \in names
    /\ UNCHANGED confirmed

\* The promise is kept and the task returns.
Fulfil(d, outcome) ==
    /\ db' = [db EXCEPT ![d] = Null]
    /\ leaving' = leaving \cup {d}
    /\ Goto(db[d].for, outcome)

\* Tasks about to insert the e-mail of d's.
Rivals(d) ==
    {c \in DbWorker : /\ c # d /\ db[c] # Null /\ db[c].step = "insert"
                      /\ Asked(c).email = Asked(d).email}

\* The e-mail is taken to be free.
GoesOn(d) ==
    /\ db' = [db EXCEPT ![d] = [for |-> db[d].for, step |-> "insert"]]
    /\ raced' = raced \cup {e \in {Asked(d).email} : Rivals(d) # {}}
    /\ UNCHANGED <<job, leaving>>

\* Mutant of RegisterSelect: the count is not looked at.
RegisterSelectBlind(d) ==
    /\ At(d, "select", {"CLRegister"})
    /\ GoesOn(d)
    /\ UNCHANGED owners

\* SELECT COUNT: is there a row with the e-mail?
RegisterSelect(d) ==
    /\ At(d, "select", {"CLRegister"})
    /\ IF owners[Asked(d).email] # <<>>
       THEN Fulfil(d, "failure") /\ UNCHANGED raced
       ELSE GoesOn(d)
    /\ UNCHANGED owners

Stored(d) ==
    owners' = [owners EXCEPT ![Asked(d).email] = Append(@, Asked(d).password)]

\* A table of unique e-mails refuses one it has.
Refused(d) == unique /\ owners[Asked(d).email] # <<>>

\* Mutant of Insert: the promise is kept before the statement is executed.
InsertUnchecked(d) ==
    /\ At(d, "insert", {"CLRegister"})
    /\ Fulfil(d, "success")
    /\ \/ ~Refused(d) /\ Stored(d)
       \/ UNCHANGED owners
    /\ UNCHANGED raced

Insert(d) ==
    /\ At(d, "insert", {"CLRegister"})
    /\ ~Refused(d)
    /\ Stored(d)
    /\ Fulfil(d, "success")
    /\ UNCHANGED raced

\* INSERT throws, perhaps after the row was stored.
InsertThrows(d) ==
    /\ At(d, "insert", {"CLRegister"})
    /\ Fulfil(d, "exception")
    /\ \/ ~Refused(d) /\ Stored(d)
       \/ UNCHANGED owners
    /\ UNCHANGED raced

\* Mutant of LoginSelect: the password of any row will do.
LoginSelectLax(d) ==
    /\ At(d, "select", {"CLLogin"})
    /\ Fulfil(d, IF owners[Asked(d).email] # <<>> THEN "success" ELSE "failure")
    /\ UNCHANGED <<owners, raced>>

\* SELECT PASSWORD: which row is read if there are several is open.
LoginSelect(d) ==
    /\ At(d, "select", {"CLLogin"})
    /\ LET rows == owners[Asked(d).email]
       IN \/ rows = <<>> /\ Fulfil(d, "failure")
          \/ \E i \in DOMAIN rows :
               Fulfil(d, IF rows[i] = Asked(d).password THEN "success" ELSE "failure")
    /\ UNCHANGED <<owners, raced>>

SelectThrows(d) ==
    /\ At(d, "select", {"CLRegister", "CLLogin"})
    /\ Fulfil(d, "exception")
    /\ UNCHANGED <<owners, raced>>

\* The session is returned and the worker is idle.
Release(d) ==
    /\ Running
    /\ d \in leaving
    /\ leaving' = leaving \ {d}
    /\ UNCHANGED <<job, db, owners, raced, confirmed>>

-----------------------------------------------------------------------------

Work(w) ==
    \/ \E d \in DbWorker : Query(w, d)
    \/ QuerySkipped(w) \/ QueryThrows(w) \/ Answer(w) \/ GiveUp(w)
    \/ FindGame(w) \/ FindGameCrashes(w)

Serve(d) ==
    \/ RegisterSelect(d) \/ Insert(d) \/ InsertThrows(d)
    \/ LoginSelect(d) \/ SelectThrows(d) \/ Release(d)

\* The process is gone.
Gone == stage \in {"exited", "crashed"} /\ UNCHANGED vars

Next ==
    \/ Boot
    \/ \E packet \in Packets, w \in Worker : Dispatch(packet, w)
    \/ Ping
    \/ \E w \in Worker : Work(w)
    \/ \E d \in DbWorker : Serve(d)
    \/ Gone

\* Threads run on and the database answers every statement or fails it.
Spec ==
    /\ Init /\ [][Next]_vars
    /\ \A w \in Worker : WF_vars(Work(w))
    /\ \A d \in DbWorker : WF_vars(Serve(d))

-----------------------------------------------------------------------------
(* Properties.                                                             *)

\* The table has row <<e, p>>.
HasRow(e, p) == \E i \in DOMAIN owners[e] : owners[e][i] = p

\* Answers are true, whatever fails and whoever else is served meanwhile: a
\* client is told that it is registered or logged in only if there is a row
\* with its password, and that an e-mail is taken only if it is.
AnswersTrue ==
    \A w \in Worker :
        /\ \/ Says(w, "SVRegister", RegistrationStatus.SUCCESS)
           \/ Says(w, "SVLogin", LoginStatus.SUCCESS)
           => HasRow(job[w].request.email, job[w].request.password)
        /\ Says(w, "SVRegister", RegistrationStatus.EMAIL_TAKEN)
           => owners[job[w].request.email] # <<>>

\* An e-mail has one owner if the table sees to it, and otherwise as long as
\* no two registrations of it are between the SELECT and the INSERT at once.
OneOwner == \A e \in Email : unique \/ e \notin raced => Len(owners[e]) <= 1

\* Under the same condition who was told to be registered can log in: a
\* login that comes later is not called wrong.
RegisteredCanLogIn ==
    \A w \in Worker :
        Says(w, "SVLogin", LoginStatus.WRONG_INPUT) /\ job[w].request.known
        => ~unique /\ job[w].request.email \in raced

\* No worker of the master server waits for ever: not for a query that was
\* skipped, not while all workers of the accessor are busy.
WorkersFree ==
    \A w \in Worker : job[w] # Null ~> (job[w] = Null \/ stage = "crashed")
=============================================================================
