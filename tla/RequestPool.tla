----------------------------- MODULE RequestPool -----------------------------
(***************************************************************************)
(* The requests one process of the API serves at a time, and what they     *)
(* compete for: the worker threads that run synchronous dependencies and   *)
(* routes, and the connections of SQLAlchemy's pool.                       *)
(*                                                                         *)
(* get_current_user reads the user in a thread of its own turn; the        *)
(* session it used, and with it the connection, stays with the request,    *)
(* which has to wait for another turn of a thread to run its route.  A     *)
(* prediction keeps both while Gemini answers.  The connection goes back   *)
(* when get_db closes the session, after the answer.                       *)
(***************************************************************************)
EXTENDS Integers, FiniteSets

CONSTANTS
  Clients,   \* each has one request at most
  Threads,   \* the worker threads there are
  Capacity,  \* pool_size + max_overflow
  Retries    \* HTTP_503_RETRIES

ASSUME RequestPoolAssumption ==
  /\ IsFiniteSet(Clients)
  /\ Threads \in Nat \ {0}
  /\ Capacity \in Nat \ {0}
  /\ Retries \in Nat

Kinds == {"health", "read", "predict"}

\* Stages in which a request has a thread, and those in which it waits for one.
Threaded == {"connect", "route", "gemini", "backoff"}
Waiting == {"queued", "allowed"}
Stages == {"idle", "answered"} \cup Waiting \cup Threaded

Answers == {"200", "401", "403", "404", "422", "429", "500", "502", "503", "504"}

VARIABLES
  stage,
  kind,    \* what each client has asked for
  answer,  \* and been answered
  holds,   \* its session has a connection of the pool
  inUse,   \* how many connections the pool has handed out
  posts,   \* how often the request has been sent to Gemini
  dbUp

vars == <<stage, kind, answer, holds, inUse, posts, dbUp>>

TypeOK ==
  /\ stage \in [Clients -> Stages]
  /\ kind \in [Clients -> Kinds]
  /\ answer \in [Clients -> Answers \cup {"none"}]
  /\ holds \in [Clients -> BOOLEAN]
  /\ inUse \in 0 .. Capacity
  /\ posts \in [Clients -> 0 .. Retries + 1]
  /\ dbUp \in BOOLEAN

Init ==
  /\ stage = [c \in Clients |-> "idle"]
  /\ kind = [c \in Clients |-> "health"]
  /\ answer = [c \in Clients |-> "none"]
  /\ holds = [c \in Clients |-> FALSE]
  /\ inUse = 0
  /\ posts = [c \in Clients |-> 0]
  /\ dbUp = TRUE
-----------------------------------------------------------------------------
Goto(c, st) == stage' = [stage EXCEPT ![c] = st]

Respond(c, a) == Goto(c, "answered") /\ answer' = [answer EXCEPT ![c] = a]

Busy == {c \in Clients : stage[c] \in Threaded}

ThreadFree == Cardinality(Busy) < Threads

Arrive(c, k) ==
  /\ stage[c] = "idle"
  /\ Goto(c, "queued")
  /\ kind' = [kind EXCEPT ![c] = k]
  /\ UNCHANGED <<answer, holds, inUse, posts, dbUp>>

\* get_current_user finds no token, or none that is valid: 401, before any
\* statement.
Reject(c) ==
  /\ stage[c] = "queued"
  /\ kind[c] # "health"
  /\ ThreadFree
  /\ Respond(c, "401")
  /\ UNCHANGED <<kind, holds, inUse, posts, dbUp>>

\* health, or get_current_user with a valid token, gets a thread.
TakeThread(c) ==
  /\ stage[c] = "queued"
  /\ ThreadFree
  /\ Goto(c, "connect")
  /\ UNCHANGED <<kind, answer, holds, inUse, posts, dbUp>>

\* The first statement of the session checks a connection out.
CheckOut(c) ==
  /\ holds' = [holds EXCEPT ![c] = TRUE]
  /\ inUse' = inUse + 1

\* The user is read, and is active and of an allowed role, or is not; SELECT 1
\* of health is answered.
Connect(c) ==
  /\ stage[c] = "connect"
  /\ inUse < Capacity
  /\ dbUp
  /\ CheckOut(c)
  /\ IF kind[c] = "health"
       THEN Respond(c, "200")
       ELSE \/ Goto(c, "allowed") /\ UNCHANGED answer
            \/ \E a \in {"401", "403"} : Respond(c, a)
  /\ UNCHANGED <<kind, posts, dbUp>>

\* Only health catches SQLAlchemyError; elsewhere it is an unhandled exception.
DatabaseError(c) == Respond(c, IF kind[c] = "health" THEN "503" ELSE "500")

\* PostgreSQL does not answer: the pool takes the slot back.
ConnectFails(c) ==
  /\ stage[c] = "connect"
  /\ inUse < Capacity
  /\ ~dbUp
  /\ DatabaseError(c)
  /\ UNCHANGED <<kind, holds, inUse, posts, dbUp>>

\* Mutants: the pool waits for ever; a request that was turned away gives back
\* a connection it never had.
WaitForEver(c) == FALSE /\ UNCHANGED vars

PoolTimeoutReturns(c) ==
  /\ stage[c] = "connect"
  /\ inUse = Capacity
  /\ DatabaseError(c)
  /\ inUse' = inUse - 1
  /\ UNCHANGED <<kind, holds, posts, dbUp>>

\* No connection for pool_timeout seconds: TimeoutError, an SQLAlchemyError.
PoolTimeout(c) ==
  /\ stage[c] = "connect"
  /\ inUse = Capacity
  /\ DatabaseError(c)
  /\ UNCHANGED <<kind, holds, inUse, posts, dbUp>>

\* The body or the query does not fit its schema: the dependencies have run.
Invalid(c) ==
  /\ stage[c] = "allowed"
  /\ Respond(c, "422")
  /\ UNCHANGED <<kind, holds, inUse, posts, dbUp>>

EnterRoute(c) ==
  /\ stage[c] = "allowed"
  /\ ThreadFree
  /\ Goto(c, "route")
  /\ UNCHANGED <<kind, answer, holds, inUse, posts, dbUp>>

\* The route reads what it was asked for, or what is not there.
Read(c) ==
  /\ stage[c] = "route"
  /\ kind[c] = "read"
  /\ dbUp
  /\ \E a \in {"200", "404"} : Respond(c, a)
  /\ UNCHANGED <<kind, holds, inUse, posts, dbUp>>

QueryFails(c) ==
  /\ stage[c] = "route"
  /\ ~dbUp
  /\ DatabaseError(c)
  /\ UNCHANGED <<kind, holds, inUse, posts, dbUp>>

\* Over the limit, or no limiter to ask in production, before any query.
Limited(c) ==
  /\ stage[c] = "route"
  /\ kind[c] = "predict"
  /\ \E a \in {"429", "503"} : Respond(c, a)
  /\ UNCHANGED <<kind, holds, inUse, posts, dbUp>>

\* No such lottery, no draws or numbers, or no API key.
Refuse(c) ==
  /\ stage[c] = "route"
  /\ kind[c] = "predict"
  /\ dbUp
  /\ \E a \in {"404", "422", "503"} : Respond(c, a)
  /\ UNCHANGED <<kind, holds, inUse, posts, dbUp>>

\* The draws are read and the prompt is sent.
Post(c) ==
  /\ posts' = [posts EXCEPT ![c] = @ + 1]
  /\ Goto(c, "gemini")

Ask(c) ==
  /\ stage[c] = "route"
  /\ kind[c] = "predict"
  /\ dbUp
  /\ Post(c)
  /\ UNCHANGED <<kind, answer, holds, inUse, dbUp>>

\* The answer of Gemini is JSON of the required contract, or is not.
GeminiReplies(c) ==
  /\ stage[c] = "gemini"
  /\ \E a \in {"200", "502"} : Respond(c, a)
  /\ UNCHANGED <<kind, holds, inUse, posts, dbUp>>

\* A timeout, a 429, another status or a transport error ends the request.
GeminiFails(c) ==
  /\ stage[c] = "gemini"
  /\ \E a \in {"504", "429", "502"} : Respond(c, a)
  /\ UNCHANGED <<kind, holds, inUse, posts, dbUp>>

MayRetry(c) == posts[c] <= Retries

\* A 503 is worth another attempt.
GeminiUnavailable(c) ==
  /\ stage[c] = "gemini"
  /\ \/ MayRetry(c) /\ Goto(c, "backoff") /\ UNCHANGED answer
     \/ ~MayRetry(c) /\ Respond(c, "503")
  /\ UNCHANGED <<kind, holds, inUse, posts, dbUp>>

AskAgain(c) ==
  /\ stage[c] = "backoff"
  /\ Post(c)
  /\ UNCHANGED <<kind, answer, holds, inUse, dbUp>>

Forget(c) ==
  /\ Goto(c, "idle")
  /\ kind' = [kind EXCEPT ![c] = "health"]
  /\ answer' = [answer EXCEPT ![c] = "none"]
  /\ posts' = [posts EXCEPT ![c] = 0]

\* Mutant: only a request that went well closes its session.
CloseAfterSuccess(c) ==
  /\ stage[c] = "answered"
  /\ Forget(c)
  /\ holds' = [holds EXCEPT ![c] = FALSE]
  /\ inUse' = IF holds[c] /\ answer[c] = "200" THEN inUse - 1 ELSE inUse
  /\ UNCHANGED dbUp

\* The request is answered and get_db closes the session, in a thread that is
\* kept for that: a connection goes back to the pool, whatever the answer was.
Close(c) ==
  /\ stage[c] = "answered"
  /\ Forget(c)
  /\ holds' = [holds EXCEPT ![c] = FALSE]
  /\ inUse' = IF holds[c] THEN inUse - 1 ELSE inUse
  /\ UNCHANGED dbUp

\* PostgreSQL goes down and comes back.
Outage ==
  /\ dbUp' = ~dbUp
  /\ UNCHANGED <<stage, kind, answer, holds, inUse, posts>>

Dial(c) == Connect(c) \/ ConnectFails(c) \/ PoolTimeout(c)

Route(c) == Read(c) \/ QueryFails(c) \/ Limited(c) \/ Refuse(c) \/ Ask(c)

Gemini(c) ==
  GeminiReplies(c) \/ GeminiFails(c) \/ GeminiUnavailable(c) \/ AskAgain(c)

Wait(c) == Reject(c) \/ TakeThread(c) \/ Invalid(c) \/ EnterRoute(c)

Next ==
  \/ \E c \in Clients : \/ \E k \in Kinds : Arrive(c, k)
                       \/ Wait(c) \/ Dial(c) \/ Route(c) \/ Gemini(c) \/ Close(c)
  \/ Outage

Spec == Init /\ [][Next]_vars

\* A thread goes on: a statement, Gemini and the wait for a connection all have
\* a timeout.  Requests that wait for a thread are served first come first
\* served.
Fairness == \A c \in Clients :
  /\ WF_vars(Dial(c) \/ Route(c) \/ Gemini(c) \/ Close(c))
  /\ SF_vars(Wait(c))

FairSpec == Spec /\ Fairness
-----------------------------------------------------------------------------
(* Properties *)

\* The pool's count is the number of sessions that have a connection, a client
\* without a request has none, and no more requests are in threads than there
\* are threads, whichever way requests end.
PoolAccounted ==
  /\ inUse = Cardinality({c \in Clients : holds[c]})
  /\ \A c \in Clients : holds[c] => stage[c] \notin {"idle", "queued", "connect"}
  /\ Cardinality(Busy) <= Threads

\* Every request is answered in the end: those that have a connection and wait
\* for a thread, and those that have a thread and wait for a connection, do not
\* wait for each other for ever.
EveryRequestAnswered == \A c \in Clients : stage[c] # "idle" ~> stage[c] = "idle"

\* Again and again there is a connection to be had.
PoolRecovers == []<>(inUse < Capacity)
=============================================================================
