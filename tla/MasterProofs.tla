---------------------------- MODULE MasterProofs ----------------------------
(***************************************************************************)
(* Proofs about Master for any numbers of workers, any e-mails and any     *)
(* passwords.                                                              *)
(***************************************************************************)
EXTENDS Master, TLAPS

(* Messages.                                                               *)

\* What is read from a table is what was put into it, cut to the width of
\* the field, whether or not it was left out for being the default.
THEOREM ReadsBack ==
    ASSUME NEW schema, NEW given, NEW f \in DOMAIN schema
    PROVE  Field(schema, Create(schema, given), f) =
             IF f \in DOMAIN given THEN Cut(schema[f], given[f]) ELSE Default(schema[f])
  BY DEF Field, Create

LEMMA BytesFit == \A k \in 0 .. 13 : Cut("byte", k) = k
  <1>1. BYTE \in Nat /\ BYTE > 13
    BY MasterAssumption, WidthAssumption DEF Messages
  <1> QED
    BY <1>1 DEF Cut, Scalar, Width

\* The payload of an envelope is read as what it was written as.
LEMMA EnvelopeReads ==
    ASSUME NEW k \in DOMAIN Messages, NEW table
    PROVE  LET message == Envelope(Messages[k], table)
           IN /\ Field(Message, message, "payload_type") = k
              /\ PayloadName(message) = Messages[k]
              /\ Field(Message, message, "payload") = table
  <1> DEFINE message == Envelope(Messages[k], table)
             given == [sender_id |-> Null, payload |-> table, payload_type |-> k]
  <1>1. k \in 1 .. 13 /\ DOMAIN Messages = 1 .. 13
    BY DEF Messages
  <1>2. \A i \in DOMAIN Messages : Messages[i] = Messages[k] => i = k
    BY <1>1 DEF Messages
  <1>3. (CHOOSE i \in DOMAIN Messages : Messages[i] = Messages[k]) = k
    BY <1>2
  <1>4. message = Create(Message, given)
    BY <1>3 DEF Envelope
  <1>5. Field(Message, message, "payload_type") = k
    <2>1. "payload_type" \in DOMAIN Message /\ Message["payload_type"] = "byte"
      BY DEF Message
    <2>2. "payload_type" \in DOMAIN given /\ given["payload_type"] = k
      OBVIOUS
    <2>3. Cut("byte", k) = k
      BY <1>1, BytesFit
    <2> QED
      BY <1>4, <2>1, <2>2, <2>3, ReadsBack
  <1>6. Field(Message, message, "payload") = table
    <2>1. "payload" \in DOMAIN Message /\ Message["payload"] = "union"
      BY DEF Message
    <2>2. "payload" \in DOMAIN given /\ given["payload"] = table
      OBVIOUS
    <2>3. Cut("union", table) = table
      BY DEF Cut, Scalar
    <2> QED
      BY <1>4, <2>1, <2>2, <2>3, ReadsBack
  <1> QED
    BY <1>1, <1>5, <1>6 DEF PayloadName

\* A client reads in an answer what the task had in its future.
LEMMA SaysRight ==
    ASSUME NEW w \in Worker, Ready(w), job[w].request.name \in {"CLRegister", "CLLogin"}
    PROVE  LET register == job[w].request.name = "CLRegister"
               success == job[w].step = "success"
           IN /\ Says(w, "SVRegister", RegistrationStatus.SUCCESS) <=> register /\ success
              /\ Says(w, "SVRegister", RegistrationStatus.EMAIL_TAKEN) <=> register /\ ~success
              /\ Says(w, "SVLogin", LoginStatus.SUCCESS) <=> ~register /\ success
              /\ Says(w, "SVLogin", LoginStatus.WRONG_INPUT) <=> ~register /\ ~success
  <1> DEFINE success == job[w].step = "success"
             status == IF success THEN 0 ELSE 1
             table(schema) == Create(schema, [response |-> status])
  <1>1. /\ RegistrationStatus.SUCCESS = 0 /\ RegistrationStatus.EMAIL_TAKEN = 1
        /\ LoginStatus.SUCCESS = 0 /\ LoginStatus.WRONG_INPUT = 1
    BY DEF RegistrationStatus, LoginStatus
  <1>2. \A schema \in {SVRegister, SVLogin} : Field(schema, table(schema), "response") = status
    <2>1. SVRegister = [response |-> "byte"] /\ SVLogin = [response |-> "byte"]
      BY DEF SVRegister, SVLogin
    <2>2. \A schema \in {SVRegister, SVLogin} :
            "response" \in DOMAIN schema /\ schema["response"] = "byte"
      BY <2>1
    <2>3. LET given == [response |-> status]
          IN "response" \in DOMAIN given /\ given["response"] = status
      OBVIOUS
    <2>4. Cut("byte", status) = status
      BY BytesFit
    <2> QED
      BY <2>2, <2>3, <2>4, ReadsBack
  <1>3. /\ 4 \in DOMAIN Messages /\ Messages[4] = "SVRegister"
        /\ 6 \in DOMAIN Messages /\ Messages[6] = "SVLogin"
    BY DEF Messages
  <1>4. MessagesTraits["SVRegister"] = SVRegister /\ MessagesTraits["SVLogin"] = SVLogin
    BY DEF MessagesTraits
  <1>5. CASE job[w].request.name = "CLRegister"
    <2>1. Reply(w) = Envelope("SVRegister", table(SVRegister))
      BY <1>1, <1>5 DEF Reply
    <2>2. /\ PayloadName(Reply(w)) = "SVRegister"
          /\ Field(Message, Reply(w), "payload") = table(SVRegister)
      BY <1>3, <2>1, EnvelopeReads
    <2>3. PayloadField(Reply(w), "response") = status
      BY <1>2, <1>4, <2>2 DEF PayloadField
    <2> QED
      BY <1>1, <1>5, <2>2, <2>3 DEF Says
  <1>6. CASE job[w].request.name = "CLLogin"
    <2>1. Reply(w) = Envelope("SVLogin", table(SVLogin))
      BY <1>1, <1>6 DEF Reply
    <2>2. /\ PayloadName(Reply(w)) = "SVLogin"
          /\ Field(Message, Reply(w), "payload") = table(SVLogin)
      BY <1>3, <2>1, EnvelopeReads
    <2>3. PayloadField(Reply(w), "response") = status
      BY <1>2, <1>4, <2>2 DEF PayloadField
    <2> QED
      BY <1>1, <1>6, <2>2, <2>3 DEF Says
  <1> QED
    BY <1>5, <1>6

\* The server reads in a request what the client wrote.
LEMMA AcceptedRight ==
    ASSUME NEW packet \in Packets
    PROVE  LET r == Accepted(packet)
           IN /\ r \in Request
              /\ r.name # "CLFindGame" => r.email \in Email /\ r.password \in Password
              /\ r.known => <<r.email, r.password>> \in confirmed
  <1>1. CASE packet = Envelope("CLFindGame", NoFields)
    <2>1. PayloadName(packet) = "CLFindGame"
      <3>1. 7 \in DOMAIN Messages /\ Messages[7] = "CLFindGame"
        BY DEF Messages
      <3> QED
        BY <1>1, <3>1, EnvelopeReads
    <2>2. PICK known \in BOOLEAN : known <=> <<Null, Null>> \in confirmed
      OBVIOUS
    <2>3. Accepted(packet) = [name |-> "CLFindGame", email |-> Null, password |-> Null,
                              known |-> known]
      BY <2>1, <2>2, Zenon DEF Accepted
    <2> QED
      BY <2>2, <2>3 DEF Request
  <1>2. CASE packet # Envelope("CLFindGame", NoFields)
    <2>1. PICK name \in {"CLRegister", "CLLogin"}, e \in Email, p \in Password :
            packet = Envelope(name, Create(MessagesTraits[name], [email |-> e, password |-> p]))
      BY <1>2 DEF Packets
    <2> DEFINE schema == [email |-> "string", password |-> "string"]
               given == [email |-> e, password |-> p]
    <2>2. MessagesTraits[name] = schema
      BY DEF MessagesTraits, CLRegister, CLLogin
    <2>3. /\ PayloadName(packet) = name
          /\ Field(Message, packet, "payload") = Create(schema, given)
      <3>1. \E k \in DOMAIN Messages : Messages[k] = name
        <4>1. /\ 3 \in DOMAIN Messages /\ Messages[3] = "CLRegister"
              /\ 5 \in DOMAIN Messages /\ Messages[5] = "CLLogin"
          BY DEF Messages
        <4> QED
          BY <4>1
      <3> QED
        BY <2>1, <2>2, <3>1, EnvelopeReads
    <2>4. PayloadField(packet, "email") = e /\ PayloadField(packet, "password") = p
      <3>1. /\ "email" \in DOMAIN schema /\ schema["email"] = "string"
            /\ "password" \in DOMAIN schema /\ schema["password"] = "string"
        OBVIOUS
      <3>2. /\ "email" \in DOMAIN given /\ given["email"] = e
            /\ "password" \in DOMAIN given /\ given["password"] = p
        OBVIOUS
      <3>3. Cut("string", e) = e /\ Cut("string", p) = p
        BY DEF Cut, Scalar
      <3>4. /\ Field(schema, Create(schema, given), "email") = e
            /\ Field(schema, Create(schema, given), "password") = p
        BY <3>1, <3>2, <3>3, ReadsBack
      <3> QED
        BY <2>2, <2>3, <3>4 DEF PayloadField
    <2>5. e # Null
      BY MasterAssumption
    <2>6. PICK known \in BOOLEAN : known <=> <<e, p>> \in confirmed
      OBVIOUS
    <2>7. name # "CLFindGame"
      OBVIOUS
    <2>8. Accepted(packet) = [name |-> name, email |-> e, password |-> p, known |-> known]
      BY <2>3, <2>4, <2>5, <2>6, <2>7, Zenon DEF Accepted
    <2> QED
      BY <2>6, <2>8 DEF Request
  <1> QED
    BY <1>1, <1>2
-----------------------------------------------------------------------------
(* The inductive invariant.                                                *)

\* A task of the accessor works for a worker that waits for it.
TaskFine(d) ==
    db[d] # Null =>
        /\ job[db[d].for] \in [request : Request, step : {"pending"}]
        /\ Asked(d).name \in {"CLRegister", "CLLogin"}
        /\ db[d].step = "insert" => Asked(d).name = "CLRegister"

\* And for nobody else's.
Unshared ==
    \A c, d \in DbWorker : db[c] # Null /\ db[d] # Null /\ db[c].for = db[d].for => c = d

Inserting(d) == db[d] # Null /\ db[d].step = "insert"

\* An e-mail that is about to be inserted without a race is free.
StillFree ==
    \A d \in DbWorker :
        Inserting(d) /\ ~unique /\ Asked(d).email \notin raced =>
            /\ owners[Asked(d).email] = <<>>
            /\ \A c \in DbWorker : Inserting(c) /\ c # d => Asked(c).email # Asked(d).email

\* What a task has in its future is true.
JobFine(w) ==
    job[w] # Null =>
        LET r == job[w].request
        IN /\ r.name = "CLFindGame" => job[w].step = "start"
           /\ r.name # "CLFindGame" => r.email \in Email /\ r.password \in Password
           /\ r.known => <<r.email, r.password>> \in confirmed
           /\ job[w].step = "success" => HasRow(r.email, r.password)
           /\ job[w].step = "failure" =>
                /\ r.name = "CLRegister" => owners[r.email] # <<>>
                /\ r.name = "CLLogin" /\ r.known => ~unique /\ r.email \in raced

ConfirmedStored == \A e \in Email, p \in Password : <<e, p>> \in confirmed => HasRow(e, p)

Tasks == (\A d \in DbWorker : TaskFine(d)) /\ Unshared /\ StillFree
Jobs == (\A w \in Worker : JobFine(w)) /\ ConfirmedStored

Inv == TypeOK /\ Tasks /\ Jobs /\ OneOwner

LEMMA InitInv == Init => Inv
  <1> SUFFICES ASSUME Init PROVE Inv
    OBVIOUS
  <1>1. /\ \A w \in Worker : job[w] = Null
        /\ \A d \in DbWorker : db[d] = Null
        /\ \A e \in Email : owners[e] = <<>>
    BY DEF Init
  <1>2. TypeOK
    <2>1. /\ job \in [Worker -> [request : Request, step : Steps] \cup {Null}]
          /\ db \in [DbWorker -> [for : Worker, step : {"select", "insert"}] \cup {Null}]
          /\ owners \in [Email -> Seq(Password)]
      BY DEF Init
    <2> QED
      BY <1>1, <2>1 DEF Init, TypeOK
  <1>3. Tasks
    BY <1>1 DEF Tasks, TaskFine, Unshared, StillFree, Inserting
  <1>4. Jobs
    BY <1>1 DEF Init, Jobs, JobFine, ConfirmedStored
  <1>5. OneOwner
    BY <1>1 DEF OneOwner
  <1> QED
    BY <1>2, <1>3, <1>4, <1>5 DEF Inv

\* What the invariant reads of a step that leaves the rows and tasks alone.
LEMMA QuietInv ==
    ASSUME Inv, UNCHANGED <<unique, job, db, owners, raced, confirmed>>,
           stage' \in {"boot", "running", "exited", "crashed"}, controller' \in BOOLEAN,
           leaving' \subseteq DbWorker
    PROVE  Inv'
  <1>1. TypeOK'
    BY DEF Inv, TypeOK
  <1>2. Tasks'
    BY DEF Inv, Tasks, TaskFine, Unshared, StillFree, Inserting, Asked
  <1>3. Jobs'
    BY DEF Inv, Jobs, JobFine, ConfirmedStored, HasRow
  <1>4. OneOwner'
    BY DEF Inv, OneOwner
  <1> QED
    BY <1>1, <1>2, <1>3, <1>4 DEF Inv

\* Nobody in the accessor works for a worker that does not wait.
LEMMA NotAsked ==
    ASSUME Inv, NEW w \in Worker, job[w] = Null \/ job[w].step # "pending",
           NEW d \in DbWorker, db[d] # Null
    PROVE  db[d].for # w /\ db[d].for \in Worker
  <1>1. job[db[d].for] \in [request : Request, step : {"pending"}]
    BY DEF Inv, Tasks, TaskFine
  <1>2. job[db[d].for] \in [request : Request, step : Steps]
    BY <1>1 DEF Steps
  <1>3. job[db[d].for] # Null
    BY <1>2, MasterAssumption
  <1>4. db[d].for \in Worker
    BY DEF Inv, TypeOK
  <1> QED
    BY <1>1, <1>3, <1>4

\* A step of a worker that neither waits nor begins to.
LEMMA JobInv ==
    ASSUME Inv, NEW w \in Worker, job[w] = Null \/ job[w].step # "pending",
           NEW j \in [request : Request, step : Steps \ {"pending"}] \cup {Null},
           job' = [job EXCEPT ![w] = j],
           UNCHANGED <<stage, controller, unique, dbVars>>,
           confirmed \subseteq confirmed', confirmed' \subseteq Email \X Password,
           ConfirmedStored', JobFine(w)'
    PROVE  Inv'
  <1>1. \A v \in Worker : v # w => job'[v] = job[v]
    BY DEF Inv, TypeOK
  <1>2. \A d \in DbWorker : db[d] # Null => db[d].for # w /\ db[d].for \in Worker
    BY NotAsked
  <1>3. TypeOK'
    <2>1. job' \in [Worker -> [request : Request, step : Steps] \cup {Null}]
      BY DEF Inv, TypeOK
    <2>2. job'[w] = j
      BY DEF Inv, TypeOK
    <2> QED
      BY <1>1, <2>1, <2>2 DEF Inv, TypeOK, dbVars
  <1>4. Tasks'
    BY <1>1, <1>2 DEF Inv, Tasks, TaskFine, Unshared, StillFree, Inserting, Asked, dbVars
  <1>5. \A v \in Worker : v # w => JobFine(v)'
    BY <1>1 DEF Inv, Jobs, JobFine, HasRow, dbVars
  <1>6. OneOwner'
    BY DEF Inv, OneOwner, dbVars
  <1> QED
    BY <1>3, <1>4, <1>5, <1>6 DEF Inv, Jobs
-----------------------------------------------------------------------------
(* The steps of the workers of the master server.                          *)

\* Nothing is a task of the accessor.
LEMMA TaskIsNotNull == Null \notin [for : Worker, step : {"select", "insert"}]
  BY MasterAssumption

LEMMA Working ==
    ASSUME Inv, NEW w \in Worker, job[w] # Null
    PROVE  /\ job[w] \in [request : Request, step : Steps]
           /\ job[w].request \in Request
           /\ JobFine(w)
  BY DEF Inv, TypeOK, Jobs

LEMMA DispatchInv ==
    ASSUME Inv, NEW packet \in Packets, NEW w \in Worker, Dispatch(packet, w)
    PROVE  Inv'
  <1> DEFINE r == Accepted(packet)
             j == [request |-> r, step |-> "start"]
  <1>1. /\ r \in Request
        /\ r.name # "CLFindGame" => r.email \in Email /\ r.password \in Password
        /\ r.known => <<r.email, r.password>> \in confirmed
    BY AcceptedRight
  <1> HIDE DEF r
  <1>2. j \in [request : Request, step : Steps \ {"pending"}]
    BY <1>1 DEF Steps
  <1>3. job' = [job EXCEPT ![w] = j] /\ job'[w] = j
    BY DEF Inv, TypeOK, Dispatch, r
  <1>4. JobFine(w)'
    BY <1>1, <1>3 DEF JobFine, Dispatch
  <1>5. ConfirmedStored'
    BY DEF Inv, Jobs, Dispatch, ConfirmedStored, HasRow, dbVars
  <1>6. confirmed' \subseteq Email \X Password /\ confirmed \subseteq confirmed'
    BY DEF Inv, TypeOK, Dispatch
  <1> QED
    BY <1>2, <1>3, <1>4, <1>5, <1>6, JobInv DEF Dispatch, Running

\* A task that does not wait is over.
LEMMA FinishInv ==
    ASSUME Inv, NEW w \in Worker, job[w] # Null, job[w].step # "pending", Finish(w),
           UNCHANGED <<stage, controller, unique, dbVars>>,
           confirmed \subseteq confirmed', confirmed' \subseteq Email \X Password,
           ConfirmedStored'
    PROVE  Inv'
  <1>1. job'[w] = Null
    BY DEF Finish, Inv, TypeOK
  <1>2. JobFine(w)'
    BY <1>1 DEF JobFine
  <1> QED
    BY <1>2, JobInv DEF Finish

LEMMA QuerySkippedInv ==
    ASSUME Inv, NEW w \in Worker, QuerySkipped(w)
    PROVE  Inv'
  <1> DEFINE j == [request |-> job[w].request, step |-> "exception"]
  <1>1. j \in [request : Request, step : Steps \ {"pending"}]
    BY Working DEF QuerySkipped, Starts, Steps
  <1>2. job' = [job EXCEPT ![w] = j] /\ job'[w] = j
    BY DEF Inv, TypeOK, QuerySkipped, Goto
  <1>3. JobFine(w)'
    BY <1>2, Working DEF JobFine, QuerySkipped, Starts
  <1>4. ConfirmedStored'
    BY DEF Inv, Jobs, QuerySkipped, ConfirmedStored, HasRow, dbVars
  <1>5. confirmed' \subseteq Email \X Password /\ confirmed \subseteq confirmed'
    BY DEF Inv, TypeOK, QuerySkipped
  <1> QED
    BY <1>1, <1>2, <1>3, <1>4, <1>5, JobInv DEF QuerySkipped, Starts, Running

\* What is confirmed is what the task has in its future, so there is a row.
LEMMA AnswerInv ==
    ASSUME Inv, NEW w \in Worker, Answer(w)
    PROVE  Inv'
  <1> DEFINE r == job[w].request
  <1>1. job[w] # Null /\ job[w].step \in {"success", "failure"}
    BY DEF Answer, Ready
  <1>2. r.email \in Email /\ r.password \in Password /\ r.name \in {"CLRegister", "CLLogin"}
    BY <1>1, Working DEF JobFine, Request
  <1>3. ASSUME Says(w, "SVRegister", RegistrationStatus.SUCCESS)
        PROVE  HasRow(r.email, r.password)
    BY <1>1, <1>2, <1>3, SaysRight, Working DEF Answer, JobFine
  <1>4. confirmed \subseteq confirmed' /\ confirmed' \subseteq Email \X Password
    BY <1>2 DEF Answer, Inv, TypeOK
  <1>5. ConfirmedStored'
    <2> SUFFICES ASSUME NEW e \in Email, NEW p \in Password, <<e, p>> \in confirmed'
                 PROVE  HasRow(e, p)
      BY DEF ConfirmedStored, HasRow, Answer, dbVars
    <2>1. CASE <<e, p>> \in confirmed
      BY <2>1 DEF Inv, Jobs, ConfirmedStored
    <2>2. CASE <<e, p>> \notin confirmed
      <3>1. /\ <<e, p>> = <<r.email, r.password>>
            /\ Says(w, "SVRegister", RegistrationStatus.SUCCESS)
        BY <2>2 DEF Answer
      <3>2. e = r.email /\ p = r.password
        BY <3>1
      <3> QED
        BY <1>3, <3>1, <3>2
    <2> QED
      BY <2>1, <2>2
  <1> QED
    BY <1>1, <1>4, <1>5, FinishInv DEF Answer, Running

LEMMA QueryInv ==
    ASSUME Inv, NEW w \in Worker, NEW d \in DbWorker, Query(w, d)
    PROVE  Inv'
  <1> DEFINE r == job[w].request
             task == [for |-> w, step |-> "select"]
  <1>1. /\ r \in Request /\ r.name \in {"CLRegister", "CLLogin"}
        /\ job[w] # Null /\ job[w].step # "pending"
    BY Working DEF Query, Starts
  <1>2. /\ job'[w] = [request |-> r, step |-> "pending"]
        /\ \A v \in Worker : v # w => job'[v] = job[v]
    BY DEF Inv, TypeOK, Query, Goto
  <1>3. db[d] = Null
    BY DEF Query, Idle
  <1>4. db'[d] = task /\ \A c \in DbWorker : c # d => db'[c] = db[c]
    BY DEF Inv, TypeOK, Query
  <1>5. \A c \in DbWorker : db[c] # Null => db[c].for # w /\ db[c].for \in Worker
    BY <1>1, NotAsked
  <1>6. TypeOK'
    <2>1. job' \in [Worker -> [request : Request, step : Steps] \cup {Null}]
      BY <1>1 DEF Inv, TypeOK, Query, Goto, Steps
    <2>2. db' \in [DbWorker -> [for : Worker, step : {"select", "insert"}] \cup {Null}]
      BY DEF Inv, TypeOK, Query
    <2>3. \A v \in Worker : job'[v] # Null /\ job'[v].step = "pending" =>
            \E c \in DbWorker : db'[c] \in [for : {v}, step : {"select", "insert"}]
      <3> SUFFICES ASSUME NEW v \in Worker, job'[v] # Null, job'[v].step = "pending"
                   PROVE  \E c \in DbWorker : db'[c] \in [for : {v}, step : {"select", "insert"}]
        OBVIOUS
      <3>1. CASE v = w
        BY <1>4, <3>1
      <3>2. CASE v # w
        <4>1. PICK c \in DbWorker : db[c] \in [for : {v}, step : {"select", "insert"}]
          BY <1>2, <3>2 DEF Inv, TypeOK
        <4>2. CASE c = d
          <5>1. db[c] \in [for : Worker, step : {"select", "insert"}]
            BY <4>1
          <5> QED
            BY <1>3, <4>2, <5>1, TaskIsNotNull
        <4> QED
          BY <1>4, <4>1, <4>2
      <3> QED
        BY <3>1, <3>2
    <2> QED
      BY <2>1, <2>2, <2>3 DEF Inv, TypeOK, Query, Starts, Running
  <1>7. \A c \in DbWorker : TaskFine(c)'
    BY <1>1, <1>2, <1>4, <1>5 DEF Inv, Tasks, TaskFine, Asked
  <1>8. Unshared'
    BY <1>4, <1>5 DEF Inv, Tasks, Unshared
  <1>9. StillFree'
    <2>1. \A c \in DbWorker : Inserting(c)' => c # d /\ Inserting(c) /\ Asked(c)' = Asked(c)
      BY <1>2, <1>4, <1>5 DEF Inserting, Asked
    <2> QED
      BY <2>1 DEF Inv, Tasks, StillFree, Query, Starts, Running
  <1>10. Jobs'
    BY <1>1, <1>2 DEF Inv, Jobs, JobFine, ConfirmedStored, HasRow, Query, Starts, Running
  <1>11. OneOwner'
    BY DEF Inv, OneOwner, Query, Starts, Running
  <1> QED
    BY <1>6, <1>7, <1>8, <1>9, <1>10, <1>11 DEF Inv, Tasks

LEMMA WorkInv ==
    ASSUME Inv, NEW w \in Worker, Work(w)
    PROVE  Inv'
  <1>1. ASSUME NEW d \in DbWorker, Query(w, d) PROVE Inv'
    BY <1>1, QueryInv
  <1>2. CASE QuerySkipped(w)
    BY <1>2, QuerySkippedInv
  <1>3. CASE QueryThrows(w) \/ GiveUp(w) \/ FindGame(w)
    <2>1. /\ job[w] # Null /\ job[w].step # "pending" /\ Finish(w)
          /\ UNCHANGED <<stage, controller, unique, dbVars, confirmed>>
      BY <1>3 DEF QueryThrows, GiveUp, FindGame, Starts, Running
    <2>2. ConfirmedStored' /\ confirmed' \subseteq Email \X Password
      BY <2>1 DEF Inv, TypeOK, Jobs, ConfirmedStored, HasRow, dbVars
    <2> QED
      BY <2>1, <2>2, FinishInv
  <1>4. CASE Answer(w)
    BY <1>4, AnswerInv
  <1>5. CASE FindGameCrashes(w)
    BY <1>5, QuietInv DEF FindGameCrashes, dbVars, Inv, TypeOK
  <1> QED
    BY <1>1, <1>2, <1>3, <1>4, <1>5 DEF Work
-----------------------------------------------------------------------------
(* The steps of the workers of the accessor.                               *)

\* The worker that waits for d's task, and what it asked for.
LEMMA Served ==
    ASSUME Inv, NEW d \in DbWorker, db[d] # Null
    PROVE  /\ db[d].for \in Worker /\ db[d].step \in {"select", "insert"}
           /\ job[db[d].for] \in [request : Request, step : {"pending"}]
           /\ job[db[d].for] # Null
           /\ Asked(d) \in Request /\ Asked(d).name \in {"CLRegister", "CLLogin"}
           /\ Asked(d).email \in Email /\ Asked(d).password \in Password
           /\ Asked(d).known => <<Asked(d).email, Asked(d).password>> \in confirmed
           /\ db[d].step = "insert" => Asked(d).name = "CLRegister"
  <1>1. db[d].for \in Worker /\ db[d].step \in {"select", "insert"}
    BY DEF Inv, TypeOK
  <1>2. /\ job[db[d].for] \in [request : Request, step : {"pending"}]
        /\ Asked(d).name \in {"CLRegister", "CLLogin"}
        /\ db[d].step = "insert" => Asked(d).name = "CLRegister"
    BY DEF Inv, Tasks, TaskFine
  <1>3. job[db[d].for] # Null
    BY <1>2, MasterAssumption DEF Steps
  <1>4. Asked(d) \in Request
    BY <1>2 DEF Asked
  <1> QED
    BY <1>1, <1>2, <1>3, <1>4 DEF Inv, Jobs, JobFine, Asked

\* One of the rows has the password.
Holds(rows, p) == \E i \in DOMAIN rows : rows[i] = p

\* Rows are never removed.
RowsKept ==
    \A e \in Email :
        /\ owners[e] # <<>> => owners'[e] # <<>>
        /\ \A p \in Password : HasRow(e, p) => HasRow(e, p)'

LEMMA StoredRows ==
    ASSUME Inv, NEW d \in DbWorker, db[d] # Null, Stored(d)
    PROVE  LET e == Asked(d).email
           IN /\ owners' \in [Email -> Seq(Password)]
              /\ \A f \in Email : f # e => owners'[f] = owners[f]
              /\ owners'[e] # <<>> /\ Len(owners'[e]) = Len(owners[e]) + 1
              /\ RowsKept
              /\ Holds(owners'[e], Asked(d).password)
  <1> DEFINE e == Asked(d).email
             p == Asked(d).password
             rows == owners[e]
             grown == Append(rows, p)
  <1>1. e \in Email /\ p \in Password
    BY Served
  <1> HIDE DEF e, p
  <1>2. owners \in [Email -> Seq(Password)] /\ rows \in Seq(Password)
    BY <1>1 DEF Inv, TypeOK
  <1>3. owners' = [owners EXCEPT ![e] = grown]
    BY <1>1, <1>2 DEF Stored, e, p
  <1>4. /\ grown \in Seq(Password) /\ Len(grown) = Len(rows) + 1 /\ Len(rows) \in Nat
        /\ grown[Len(rows) + 1] = p
        /\ \A i \in DOMAIN rows : i \in DOMAIN grown /\ grown[i] = rows[i]
        /\ Len(rows) + 1 \in DOMAIN grown
    BY <1>1, <1>2
  <1>5. owners'[e] = grown /\ \A f \in Email : f # e => owners'[f] = owners[f]
    BY <1>1, <1>2, <1>3
  <1>6. owners' \in [Email -> Seq(Password)]
    BY <1>2, <1>3, <1>4
  <1>7. grown # <<>>
    BY <1>4
  <1>8. RowsKept
    <2> SUFFICES ASSUME NEW f \in Email
                 PROVE  /\ owners[f] # <<>> => owners'[f] # <<>>
                        /\ \A q \in Password : HasRow(f, q) => HasRow(f, q)'
      BY DEF RowsKept
    <2>1. CASE f = e
      BY <1>4, <1>5, <1>7, <2>1 DEF HasRow
    <2>2. CASE f # e
      BY <1>5, <2>2 DEF HasRow
    <2> QED
      BY <2>1, <2>2
  <1>9. Holds(owners'[e], p)
    BY <1>4, <1>5 DEF Holds
  <1> QED
    BY <1>4, <1>5, <1>6, <1>7, <1>8, <1>9 DEF e, p

\* The task of d is over and its worker has the outcome.
LEMMA FulfilInv ==
    ASSUME Inv, NEW d \in DbWorker, db[d] # Null,
           NEW outcome \in {"success", "failure", "exception"}, Fulfil(d, outcome),
           UNCHANGED <<stage, controller, unique, confirmed, raced>>,
           owners' \in [Email -> Seq(Password)], RowsKept, OneOwner',
           \A e \in Email : owners'[e] # owners[e] => Inserting(d) /\ e = Asked(d).email,
           outcome = "success" => Holds(owners'[Asked(d).email], Asked(d).password),
           outcome = "failure" =>
               /\ Asked(d).name = "CLRegister" => owners[Asked(d).email] # <<>>
               /\ Asked(d).name = "CLLogin" /\ Asked(d).known =>
                    ~unique /\ Asked(d).email \in raced
    PROVE  Inv'
  <1> DEFINE w == db[d].for
             r == Asked(d)
  <1>1. /\ w \in Worker /\ r \in Request /\ r.name \in {"CLRegister", "CLLogin"}
        /\ r.email \in Email /\ r.password \in Password
        /\ r.known => <<r.email, r.password>> \in confirmed
        /\ job[w] # Null
    BY Served
  <1>2. /\ job'[w] = [request |-> r, step |-> outcome]
        /\ \A v \in Worker : v # w => job'[v] = job[v]
        /\ job' \in [Worker -> [request : Request, step : Steps] \cup {Null}]
    BY <1>1 DEF Inv, TypeOK, Fulfil, Goto, Asked, Steps
  <1>3. db'[d] = Null /\ \A c \in DbWorker : c # d => db'[c] = db[c]
    BY DEF Inv, TypeOK, Fulfil
  <1>4. \A c \in DbWorker : db'[c] # Null =>
          c # d /\ db[c] # Null /\ db'[c] = db[c] /\ db[c].for # w /\ db[c].for \in Worker
    BY <1>3, Served DEF Inv, Tasks, Unshared
  <1>5. \A c \in DbWorker : db'[c] # Null => Asked(c)' = Asked(c)
    BY <1>2, <1>4 DEF Asked
  <1>6. TypeOK'
    <2>1. db' \in [DbWorker -> [for : Worker, step : {"select", "insert"}] \cup {Null}]
      BY DEF Inv, TypeOK, Fulfil
    <2>2. \A v \in Worker : job'[v] # Null /\ job'[v].step = "pending" =>
            \E c \in DbWorker : db'[c] \in [for : {v}, step : {"select", "insert"}]
      <3> SUFFICES ASSUME NEW v \in Worker, job'[v] # Null, job'[v].step = "pending"
                   PROVE  \E c \in DbWorker : db'[c] \in [for : {v}, step : {"select", "insert"}]
        OBVIOUS
      <3>1. v # w
        BY <1>2
      <3>2. PICK c \in DbWorker : db[c] \in [for : {v}, step : {"select", "insert"}]
        BY <1>2, <3>1 DEF Inv, TypeOK
      <3>3. c # d
        BY <3>1, <3>2
      <3> QED
        BY <1>3, <3>2, <3>3
    <2>3. leaving' \subseteq DbWorker
      BY DEF Inv, TypeOK, Fulfil
    <2> QED
      BY <1>2, <2>1, <2>2, <2>3 DEF Inv, TypeOK
  <1>7. \A c \in DbWorker : TaskFine(c)'
    BY <1>2, <1>4, <1>5 DEF Inv, Tasks, TaskFine
  <1>8. Unshared'
    BY <1>4 DEF Inv, Tasks, Unshared
  <1>9. StillFree'
    <2>1. \A c \in DbWorker :
            Inserting(c)' => c # d /\ Inserting(c) /\ Asked(c)' = Asked(c)
      BY <1>4, <1>5 DEF Inserting
    <2> SUFFICES ASSUME NEW c \in DbWorker, Inserting(c)', ~unique, Asked(c).email \notin raced
                 PROVE  /\ owners'[Asked(c).email] = <<>>
                        /\ \A b \in DbWorker :
                             Inserting(b) /\ b # c => Asked(b).email # Asked(c).email
      BY <2>1 DEF StillFree
    <2>2. /\ owners[Asked(c).email] = <<>>
          /\ \A b \in DbWorker : Inserting(b) /\ b # c => Asked(b).email # Asked(c).email
      BY <2>1 DEF Inv, Tasks, StillFree
    <2>3. Asked(c).email \in Email
      BY <2>1, Served DEF Inserting
    <2>4. owners'[Asked(c).email] = owners[Asked(c).email]
      BY <2>1, <2>2, <2>3
    <2> QED
      BY <2>2, <2>4
  <1>10. \A v \in Worker : JobFine(v)'
    <2> SUFFICES ASSUME NEW v \in Worker PROVE JobFine(v)'
      OBVIOUS
    <2>1. CASE v = w
      <3>1. job'[v].request = r /\ job'[v].step = outcome
        BY <1>2, <2>1
      <3>2. outcome = "success" => \E i \in DOMAIN owners'[r.email] : owners'[r.email][i] = r.password
        BY DEF Holds
      <3>3. outcome = "failure" /\ r.name = "CLRegister" => owners'[r.email] # <<>>
        BY <1>1 DEF RowsKept
      <3> QED
        BY <1>1, <3>1, <3>2, <3>3 DEF JobFine, HasRow
    <2>2. CASE v # w
      <3>1. job'[v] = job[v] /\ JobFine(v)
        BY <1>2, <2>2 DEF Inv, Jobs
      <3> QED
        BY <3>1 DEF JobFine, RowsKept
    <2> QED
      BY <2>1, <2>2
  <1>11. ConfirmedStored'
    BY DEF Inv, Jobs, ConfirmedStored, RowsKept
  <1> QED
    BY <1>6, <1>7, <1>8, <1>9, <1>10, <1>11 DEF Inv, Tasks, Jobs

\* A step that leaves the rows alone keeps them.
LEMMA SameRows ==
    ASSUME Inv, UNCHANGED <<unique, owners, raced>>
    PROVE  /\ owners' \in [Email -> Seq(Password)] /\ RowsKept /\ OneOwner'
           /\ \A e \in Email : owners'[e] = owners[e]
  BY DEF Inv, TypeOK, RowsKept, HasRow, OneOwner

\* The row of an insertion that is not refused is the first of its e-mail,
\* unless another one was about to be made.
LEMMA InsertedRows ==
    ASSUME Inv, NEW d \in DbWorker, Inserting(d), ~Refused(d), Stored(d),
           UNCHANGED <<unique, raced>>
    PROVE  /\ owners' \in [Email -> Seq(Password)] /\ RowsKept /\ OneOwner'
           /\ \A e \in Email : owners'[e] # owners[e] => e = Asked(d).email
           /\ Holds(owners'[Asked(d).email], Asked(d).password)
  <1> DEFINE e == Asked(d).email
  <1>1. db[d] # Null /\ e \in Email
    BY Served DEF Inserting
  <1>2. unique \/ e \notin raced => Len(owners'[e]) <= 1
    <2> HAVE unique \/ e \notin raced
    <2>1. owners[e] = <<>>
      BY DEF Inv, Tasks, StillFree, Refused
    <2> QED
      BY <1>1, <2>1, StoredRows
  <1>3. OneOwner'
    <2> SUFFICES ASSUME NEW f \in Email, unique \/ f \notin raced
                 PROVE  Len(owners'[f]) <= 1
      BY DEF OneOwner
    <2>1. CASE f = e
      BY <1>2, <2>1
    <2>2. CASE f # e
      BY <1>1, <2>2, StoredRows DEF Inv, OneOwner
    <2> QED
      BY <2>1, <2>2
  <1> QED
    BY <1>1, <1>3, StoredRows

LEMMA GoesOnInv ==
    ASSUME Inv, NEW d \in DbWorker, RegisterSelect(d), owners[Asked(d).email] = <<>>
    PROVE  Inv'
  <1> DEFINE r == Asked(d)
  <1>1. /\ db[d] # Null /\ db[d].step = "select" /\ r.name = "CLRegister"
        /\ GoesOn(d)
        /\ UNCHANGED <<stage, controller, unique, owners, confirmed>>
    BY DEF RegisterSelect, At, Running
  <1>2. db[d].for \in Worker /\ r.email \in Email
    BY <1>1, Served
  <1>3. /\ db'[d] = [for |-> db[d].for, step |-> "insert"]
        /\ \A c \in DbWorker : c # d => db'[c] = db[c]
        /\ db' \in [DbWorker -> [for : Worker, step : {"select", "insert"}] \cup {Null}]
    BY <1>1, <1>2 DEF Inv, TypeOK, GoesOn
  <1>4. \A c \in DbWorker : db'[c] # Null => db[c] # Null /\ db'[c].for = db[c].for
    BY <1>1, <1>3
  <1>5. \A c \in DbWorker : db'[c] # Null => Asked(c)' = Asked(c)
    BY <1>1, <1>4 DEF Asked, GoesOn
  <1>6. raced' = raced \cup {e \in {r.email} : Rivals(d) # {}}
    BY <1>1 DEF GoesOn
  <1>7. TypeOK'
    <2>1. \A v \in Worker : job'[v] # Null /\ job'[v].step = "pending" =>
            \E c \in DbWorker : db'[c] \in [for : {v}, step : {"select", "insert"}]
      <3> SUFFICES ASSUME NEW v \in Worker, job'[v] # Null, job'[v].step = "pending"
                   PROVE  \E c \in DbWorker : db'[c] \in [for : {v}, step : {"select", "insert"}]
        OBVIOUS
      <3>1. PICK c \in DbWorker : db[c] \in [for : {v}, step : {"select", "insert"}]
        BY <1>1 DEF Inv, TypeOK, GoesOn
      <3>2. CASE c = d
        BY <1>3, <3>1, <3>2
      <3>3. CASE c # d
        BY <1>3, <3>1, <3>3
      <3> QED
        BY <3>2, <3>3
    <2>2. raced' \subseteq Email
      BY <1>2, <1>6 DEF Inv, TypeOK
    <2>3. /\ stage' \in {"boot", "running", "exited", "crashed"}
          /\ controller' \in BOOLEAN /\ unique' \in BOOLEAN
          /\ job' \in [Worker -> [request : Request, step : Steps] \cup {Null}]
          /\ leaving' \subseteq DbWorker /\ owners' \in [Email -> Seq(Password)]
          /\ confirmed' \subseteq Email \X Password
      BY <1>1 DEF GoesOn, Inv, TypeOK
    <2> QED
      BY <1>3, <2>1, <2>2, <2>3 DEF TypeOK
  <1>8. \A c \in DbWorker : TaskFine(c)'
    <2> SUFFICES ASSUME NEW c \in DbWorker, db'[c] # Null PROVE TaskFine(c)'
      BY DEF TaskFine
    <2>1. /\ job'[db'[c].for] \in [request : Request, step : {"pending"}]
          /\ Asked(c)'.name \in {"CLRegister", "CLLogin"}
      BY <1>1, <1>4, <1>5, Served DEF GoesOn
    <2>2. db'[c].step = "insert" => Asked(c)'.name = "CLRegister"
      <3>1. CASE c = d
        BY <1>1, <1>5, <3>1
      <3>2. CASE c # d
        <4>1. db'[c] = db[c] /\ db[c] # Null
          BY <1>3, <3>2
        <4>2. db[c].step = "insert" => Asked(c).name = "CLRegister"
          BY <4>1, Served
        <4> QED
          BY <1>5, <4>1, <4>2
      <3> QED
        BY <3>1, <3>2
    <2> QED
      BY <2>1, <2>2 DEF TaskFine
  <1>9. Unshared'
    BY <1>4 DEF Inv, Tasks, Unshared
  <1>10. StillFree'
    <2> SUFFICES ASSUME NEW c \in DbWorker, Inserting(c)', ~unique, Asked(c).email \notin raced',
                        NEW b \in DbWorker
                 PROVE  /\ owners[Asked(c).email] = <<>>
                        /\ Inserting(b)' /\ b # c => Asked(b).email # Asked(c).email
      BY <1>1, <1>5 DEF StillFree, Inserting
    <2>1. Asked(c).email \notin raced
      BY <1>6
    <2>2. \A x \in DbWorker : Inserting(x)' /\ x # d => Inserting(x)
      BY <1>3 DEF Inserting
    <2>3. \A x \in DbWorker : Inserting(x) /\ x # d /\ Asked(x).email = r.email =>
            Rivals(d) # {} /\ r.email \in raced'
      BY <1>6 DEF Rivals, Inserting
    <2>4. CASE c = d
      BY <2>2, <2>3, <2>4
    <2>5. CASE c # d
      <3>1. /\ owners[Asked(c).email] = <<>>
            /\ Inserting(b) /\ b # c => Asked(b).email # Asked(c).email
        BY <2>1, <2>2, <2>5 DEF Inv, Tasks, StillFree
      <3>2. Asked(c).email # r.email
        BY <2>2, <2>3, <2>5
      <3> QED
        BY <2>2, <3>1, <3>2
    <2> QED
      BY <2>4, <2>5
  <1>11. Jobs'
    BY <1>1, <1>6 DEF GoesOn, Inv, Jobs, JobFine, ConfirmedStored, HasRow
  <1>12. OneOwner'
    BY <1>1, <1>6 DEF Inv, OneOwner
  <1> QED
    BY <1>7, <1>8, <1>9, <1>10, <1>11, <1>12 DEF Inv, Tasks

LEMMA RegisterSelectInv ==
    ASSUME Inv, NEW d \in DbWorker, RegisterSelect(d)
    PROVE  Inv'
  <1>1. CASE owners[Asked(d).email] = <<>>
    BY <1>1, GoesOnInv
  <1>2. CASE owners[Asked(d).email] # <<>>
    BY <1>2, SameRows, FulfilInv DEF RegisterSelect, At, Running
  <1> QED
    BY <1>1, <1>2

LEMMA InsertInv ==
    ASSUME Inv, NEW d \in DbWorker, Insert(d) \/ InsertThrows(d)
    PROVE  Inv'
  <1>1. /\ db[d] # Null /\ Inserting(d)
        /\ UNCHANGED <<stage, controller, unique, confirmed, raced>>
    BY DEF Insert, InsertThrows, At, Running, Inserting
  <1>2. CASE ~Refused(d) /\ Stored(d)
    <2>1. PICK outcome \in {"success", "exception"} : Fulfil(d, outcome)
      BY DEF Insert, InsertThrows
    <2> QED
      BY <1>1, <1>2, <2>1, InsertedRows, FulfilInv
  <1>3. CASE ~(~Refused(d) /\ Stored(d))
    <2>1. Fulfil(d, "exception") /\ UNCHANGED owners
      BY <1>3 DEF Insert, InsertThrows
    <2> QED
      BY <1>1, <2>1, SameRows, FulfilInv
  <1> QED
    BY <1>2, <1>3

\* A wrong password of somebody registered: there are two rows.
LEMMA LoginSelectInv ==
    ASSUME Inv, NEW d \in DbWorker, LoginSelect(d)
    PROVE  Inv'
  <1> DEFINE r == Asked(d)
             rows == owners[r.email]
  <1>1. /\ db[d] # Null /\ r.name = "CLLogin"
        /\ UNCHANGED <<stage, controller, unique, confirmed, owners, raced>>
    BY DEF LoginSelect, At, Running
  <1>2. /\ r.email \in Email /\ r.password \in Password /\ rows \in Seq(Password)
        /\ r.known => \E i \in DOMAIN rows : rows[i] = r.password
    <2>1. r.email \in Email /\ r.password \in Password
      BY <1>1, Served
    <2>2. r.known => HasRow(r.email, r.password)
      BY <1>1, <2>1, Served DEF Inv, Jobs, ConfirmedStored
    <2> QED
      BY <2>1, <2>2 DEF HasRow, Inv, TypeOK
  <1>3. CASE rows = <<>> /\ Fulfil(d, "failure")
    <2>1. ~r.known
      BY <1>2, <1>3
    <2> QED
      BY <1>1, <1>3, <2>1, SameRows, FulfilInv
  <1>4. ASSUME NEW i \in DOMAIN rows, rows[i] = r.password, Fulfil(d, "success")
        PROVE  Inv'
    <2>1. Holds(owners'[r.email], r.password)
      BY <1>1, <1>4 DEF Holds
    <2> QED
      BY <1>1, <1>4, <2>1, SameRows, FulfilInv
  <1>5. ASSUME NEW i \in DOMAIN rows, rows[i] # r.password, Fulfil(d, "failure")
        PROVE  Inv'
    <2>1. r.known => ~unique /\ r.email \in raced
      <3> SUFFICES ASSUME r.known, unique \/ r.email \notin raced PROVE FALSE
        OBVIOUS
      <3>1. PICK k \in DOMAIN rows : rows[k] = r.password
        BY <1>2
      <3>2. Len(rows) <= 1
        BY <1>2 DEF Inv, OneOwner
      <3>3. i = 1 /\ k = 1
        BY <1>2, <1>5, <3>1, <3>2
      <3> QED
        BY <1>5, <3>1, <3>3
    <2> QED
      BY <1>1, <1>5, <2>1, SameRows, FulfilInv
  <1> QED
    BY <1>3, <1>4, <1>5 DEF LoginSelect

LEMMA ServeInv ==
    ASSUME Inv, NEW d \in DbWorker, Serve(d)
    PROVE  Inv'
  <1>1. CASE RegisterSelect(d)
    BY <1>1, RegisterSelectInv
  <1>2. CASE Insert(d) \/ InsertThrows(d)
    BY <1>2, InsertInv
  <1>3. CASE LoginSelect(d)
    BY <1>3, LoginSelectInv
  <1>4. CASE SelectThrows(d)
    BY <1>4, SameRows, FulfilInv DEF SelectThrows, At, Running
  <1>5. CASE Release(d)
    BY <1>5, QuietInv DEF Release, Running, Inv, TypeOK
  <1> QED
    BY <1>1, <1>2, <1>3, <1>4, <1>5 DEF Serve

LEMMA NextInv == Inv /\ [Next]_vars => Inv'
  <1> SUFFICES ASSUME Inv, [Next]_vars PROVE Inv'
    OBVIOUS
  <1>1. CASE Boot
    BY <1>1, QuietInv DEF Boot, dbVars, Inv, TypeOK
  <1>2. ASSUME NEW packet \in Packets, NEW w \in Worker, Dispatch(packet, w) PROVE Inv'
    BY <1>2, DispatchInv
  <1>3. CASE Ping
    BY <1>3, QuietInv DEF Ping, Running, dbVars, Inv, TypeOK
  <1>4. ASSUME NEW w \in Worker, Work(w) PROVE Inv'
    BY <1>4, WorkInv
  <1>5. ASSUME NEW d \in DbWorker, Serve(d) PROVE Inv'
    BY <1>5, ServeInv
  <1>6. CASE UNCHANGED vars
    BY <1>6, QuietInv DEF vars, dbVars, Inv, TypeOK
  <1> QED
    BY <1>1, <1>2, <1>3, <1>4, <1>5, <1>6 DEF Next, Gone

\* The invariant holds for any numbers of workers, e-mails and passwords.
THEOREM InvHolds == Spec => []Inv
  BY InitInv, NextInv, PTL DEF Spec

-----------------------------------------------------------------------------
(* What follows from it.                                                   *)

\* Tasks, queries and rows are of their types, and whoever waits for a query
\* has a worker of the accessor on it: no promise is dropped while it is
\* waited for.
THEOREM TypeCorrect == Spec => []TypeOK
  <1>1. Inv => TypeOK
    BY DEF Inv
  <1> QED
    BY <1>1, InvHolds, PTL

\* Clients are told that they are registered or logged in only if there is a
\* row with their password, and that an e-mail is taken only if it is.
THEOREM AnswersAreTrue == Spec => []AnswersTrue
  <1>1. Inv => AnswersTrue
    <2> SUFFICES ASSUME Inv, NEW w \in Worker, Ready(w)
                 PROVE  /\ \/ Says(w, "SVRegister", RegistrationStatus.SUCCESS)
                           \/ Says(w, "SVLogin", LoginStatus.SUCCESS)
                           => HasRow(job[w].request.email, job[w].request.password)
                        /\ Says(w, "SVRegister", RegistrationStatus.EMAIL_TAKEN)
                           => owners[job[w].request.email] # <<>>
      BY DEF AnswersTrue, Says
    <2>1. /\ job[w].request.name \in {"CLRegister", "CLLogin"}
          /\ job[w].step \in {"success", "failure"}
          /\ JobFine(w) /\ job[w] # Null
      BY Working DEF Ready, JobFine, Request
    <2> QED
      BY <2>1, SaysRight DEF JobFine
  <1> QED
    BY <1>1, InvHolds, PTL

\* An e-mail has two owners only if the table allows it and two
\* registrations of it were between the SELECT and the INSERT at once.
THEOREM OneOwnerHolds == Spec => []OneOwner
  <1>1. Inv => OneOwner
    BY DEF Inv
  <1> QED
    BY <1>1, InvHolds, PTL

\* And only then is somebody who was told to be registered refused at login.
THEOREM RegisteredMayLogIn == Spec => []RegisteredCanLogIn
  <1>1. Inv => RegisteredCanLogIn
    <2> SUFFICES ASSUME Inv, NEW w \in Worker, Says(w, "SVLogin", LoginStatus.WRONG_INPUT),
                        job[w].request.known
                 PROVE  ~unique /\ job[w].request.email \in raced
      BY DEF RegisteredCanLogIn
    <2>1. Ready(w)
      BY DEF Says
    <2>2. /\ job[w].request.name \in {"CLRegister", "CLLogin"}
          /\ job[w].step \in {"success", "failure"}
          /\ JobFine(w) /\ job[w] # Null
      BY <2>1, Working DEF Ready, JobFine, Request
    <2>3. job[w].request.name = "CLLogin" /\ job[w].step = "failure"
      BY <2>1, <2>2, SaysRight
    <2> QED
      BY <2>2, <2>3 DEF JobFine
  <1> QED
    BY <1>1, InvHolds, PTL
=============================================================================
