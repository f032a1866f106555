----------------------------- MODULE RateLimiter -----------------------------
(***************************************************************************)
(* LoginRateLimiter in one process of the API, used by the threads that    *)
(* serve logins and health checks.                                         *)
(*                                                                         *)
(* Counters live in Redis until the first RedisError; from then on, and    *)
(* for good, in the process's memory.  The test of self._redis and its use *)
(* are two steps: another thread may have set it to None in between, and   *)
(* the use then raises AttributeError, which is not a RedisError.          *)
(***************************************************************************)
EXTENDS Integers, FiniteSets

CONSTANTS
  Threads,
  Accounts, Ips,  \* what an attempt is counted under
  Limit,          \* LOGIN_MAX_ATTEMPTS_PER_ACCOUNT, LOGIN_MAX_ATTEMPTS_PER_IP
  Window,         \* LOGIN_WINDOW_SECONDS
  Patience,       \* environment: how long a request may take, at most a window
  MaxTime,        \* bound: when the clock stops
  MaxLogins,      \* bound: how many logins there are
  None

Keys == Accounts \cup Ips
Counter == [count : Nat \ {0}, until : Nat]

\* History: an attempt that its account's counter let pass, known by the window
\* it was counted in and its place there, and when that was.
Ticket == [store : {"redis", "memory"}, until : Nat, nth : Nat \ {0}, at : Nat]

ASSUME RateLimiterAssumption ==
  /\ Accounts \cap Ips = {}
  /\ Limit \in [Keys -> Nat \ {0}]
  /\ Window \in Nat \ {0}
  /\ Patience \in 0 .. Window
  /\ MaxTime \in Nat
  /\ MaxLogins \in Nat
  /\ None \notin Counter \cup Ticket \cup Nat \cup (Accounts \X Ips)

Counting == {"check", "eval", "memory"}
Resetting == {"recheck", "delete", "forget"}
Replies == {"200", "401", "429", "500", "healthy", "unhealthy"}
Stages == {"idle", "decide", "verify", "ping"} \cup Counting \cup Resetting
            \cup Replies

VARIABLES
  clock,
  redisUp,
  remote,    \* the counters Redis holds
  connected, \* self._redis is not None
  memory,    \* the counters of _MemoryRateLimitStore
  stage,
  attempt,   \* <<account, ip>> of each thread's login
  key,       \* which of the two is being counted, 1 or 2
  over,      \* one of them is over its limit
  now,       \* monotonic() as increment read it, before it had the lock
  began,     \* when the request came
  logins,    \* how many there were, for the bound
  ticket,    \* history: the ticket of each thread's login
  admitted,  \* history: the tickets of an account that went on to the password
  blocked    \* history: since when a key has been over its limit, without a break

vars == <<clock, redisUp, remote, connected, memory, stage, attempt, key, over,
          now, began, logins, ticket, admitted, blocked>>

\* What the steps of a thread leave alone unless they say otherwise.
request == <<attempt, began, clock, redisUp, logins>>
histories == <<ticket, admitted, blocked>>

TypeOK ==
  /\ clock \in 0 .. MaxTime
  /\ redisUp \in BOOLEAN
  /\ remote \in [Keys -> Counter \cup {None}]
  /\ connected \in BOOLEAN
  /\ memory \in [Keys -> Counter \cup {None}]
  /\ stage \in [Threads -> Stages]
  /\ attempt \in [Threads -> (Accounts \X Ips) \cup {None}]
  /\ key \in [Threads -> {1, 2}]
  /\ over \in [Threads -> BOOLEAN]
  /\ now \in [Threads -> 0 .. MaxTime]
  /\ began \in [Threads -> 0 .. MaxTime]
  /\ logins \in 0 .. MaxLogins
  /\ ticket \in [Threads -> Ticket \cup {None}]
  /\ admitted \in [Accounts -> SUBSET Ticket]
  /\ blocked \in [Keys -> 0 .. MaxTime \cup {None}]

Init ==
  /\ clock = 0
  /\ redisUp = TRUE
  /\ remote = [k \in Keys |-> None]
  /\ connected = TRUE
  /\ memory = [k \in Keys |-> None]
  /\ stage = [t \in Threads |-> "idle"]
  /\ attempt = [t \in Threads |-> None]
  /\ key = [t \in Threads |-> 1]
  /\ over = [t \in Threads |-> FALSE]
  /\ now = [t \in Threads |-> 0]
  /\ began = [t \in Threads |-> 0]
  /\ logins = 0
  /\ ticket = [t \in Threads |-> None]
  /\ admitted = [a \in Accounts |-> {}]
  /\ blocked = [k \in Keys |-> None]
-----------------------------------------------------------------------------
Goto(t, st) == stage' = [stage EXCEPT ![t] = st]

Account(t) == attempt[t][1]
Key(t) == attempt[t][key[t]]

\* Mutant: every attempt begins a new window.
Extended(c, time) ==
  IF c = None \/ time >= c.until
    THEN [count |-> 1, until |-> time + Window]
    ELSE [count |-> c.count + 1, until |-> time + Window]

\* Counter c after one more attempt: a window begins with the first attempt and
\* is not extended by the later ones.
Incremented(c, time) ==
  IF c = None \/ time >= c.until
    THEN [count |-> 1, until |-> time + Window]
    ELSE [c EXCEPT !.count = @ + 1]

\* Mutant: the limit itself is one too many.
ExceedsByOne(k, c) == c.count > Limit[k] + 1

Exceeds(k, c) == c.count > Limit[k]

\* increment has returned: count under the ip as well, or decide.
Counted(t, c, store) ==
  LET k == Key(t) IN
    /\ over' = [over EXCEPT ![t] = @ \/ Exceeds(k, c)]
    /\ blocked' = [blocked EXCEPT ![k] =
         IF ~Exceeds(k, c) THEN None ELSE IF @ = None THEN clock ELSE @]
    /\ ticket' = [ticket EXCEPT ![t] =
         IF key[t] = 1 /\ ~Exceeds(k, c)
           THEN [store |-> store, until |-> c.until, nth |-> c.count, at |-> clock]
           ELSE @]
    /\ IF key[t] = 1
         THEN Goto(t, "check") /\ key' = [key EXCEPT ![t] = 2]
         ELSE Goto(t, "decide") /\ UNCHANGED key

Login(t, a, ip) ==
  /\ stage[t] = "idle"
  /\ Goto(t, "check")
  /\ attempt' = [attempt EXCEPT ![t] = <<a, ip>>]
  /\ began' = [began EXCEPT ![t] = clock]
  /\ logins < MaxLogins
  /\ logins' = logins + 1
  /\ UNCHANGED <<clock, redisUp, remote, connected, memory, key, over, now,
                 histories>>

\* _increment: is there a client?  If not, memory.increment reads the time.
Check(t) ==
  /\ stage[t] = "check"
  /\ IF connected
       THEN Goto(t, "eval") /\ UNCHANGED now
       ELSE Goto(t, "memory") /\ now' = [now EXCEPT ![t] = clock]
  /\ UNCHANGED <<request, remote, connected, memory, key, over, histories>>

\* The client is gone: None has no eval.
EvalNothing(t) ==
  /\ stage[t] = "eval"
  /\ ~connected
  /\ Goto(t, "500")
  /\ UNCHANGED <<request, remote, connected, memory, key, over, now, histories>>

\* The script runs atomically in Redis: INCR, and EXPIRE with the first one.
Eval(t) ==
  /\ stage[t] = "eval"
  /\ connected
  /\ redisUp
  /\ LET c == Incremented(remote[Key(t)], clock) IN
       /\ remote' = [remote EXCEPT ![Key(t)] = c]
       /\ Counted(t, c, "redis")
  /\ UNCHANGED <<request, connected, memory, now, admitted>>

\* RedisError: Redis is down, or has run the script and the answer is late.
EvalFails(t) ==
  /\ stage[t] = "eval"
  /\ connected
  /\ \/ UNCHANGED remote
     \/ /\ redisUp
        /\ remote' = [remote EXCEPT ![Key(t)] = Incremented(@, clock)]
  /\ connected' = FALSE
  /\ now' = [now EXCEPT ![t] = clock]
  /\ Goto(t, "memory")
  /\ UNCHANGED <<request, memory, key, over, histories>>

\* _MemoryRateLimitStore.increment under its lock.  (The entries it drops
\* every 256 operations are over, and count as absent anyway.)
Increment(t) ==
  /\ stage[t] = "memory"
  /\ LET c == Incremented(memory[Key(t)], now[t]) IN
       /\ memory' = [memory EXCEPT ![Key(t)] = c]
       /\ Counted(t, c, "memory")
  /\ now' = [now EXCEPT ![t] = 0]
  /\ UNCHANGED <<request, remote, connected, admitted>>

Recent(tickets) == {x \in tickets : clock - x.at < Window}

Decide(t) ==
  /\ stage[t] = "decide"
  /\ IF over[t]
       THEN Goto(t, "429") /\ UNCHANGED admitted
       ELSE /\ Goto(t, "verify")
            /\ admitted' = [admitted EXCEPT ![Account(t)] =
                 Recent(@) \cup ({ticket[t]} \ {None})]
  /\ ticket' = [ticket EXCEPT ![t] = None]
  /\ UNCHANGED <<request, remote, connected, memory, key, over, now, blocked>>

\* Unknown, inactive or the wrong password; or all is well.
Verify(t) ==
  /\ stage[t] = "verify"
  /\ Goto(t, "401") \/ Goto(t, "recheck")
  /\ UNCHANGED <<request, remote, connected, memory, key, over, now, histories>>

Recheck(t) ==
  /\ stage[t] = "recheck"
  /\ Goto(t, IF connected THEN "delete" ELSE "forget")
  /\ UNCHANGED <<request, remote, connected, memory, key, over, now, histories>>

\* Mutant: a reset leaves a counter of nothing.
WithZero(counters, t) ==
  [k \in Keys |-> IF k \in {attempt[t][1], attempt[t][2]}
                    THEN [count |-> 0, until |-> clock] ELSE counters[k]]

\* The counters of the attempt start anew, and so do the histories of its account.
Without(counters, t) == [k \in Keys |-> IF k \in {attempt[t][1], attempt[t][2]}
                                          THEN None ELSE counters[k]]

Clear(t) ==
  /\ ticket' = [u \in Threads |-> IF attempt[u] # None /\ Account(u) = Account(t)
                                   THEN None ELSE ticket[u]]
  /\ admitted' = [admitted EXCEPT ![Account(t)] = {}]
  /\ blocked' = Without(blocked, t)

DeleteNothing(t) ==
  /\ stage[t] = "delete"
  /\ ~connected
  /\ Goto(t, "500")
  /\ UNCHANGED <<request, remote, connected, memory, key, over, now, histories>>

\* _reset: the counters in Redis, if it answers ...
Delete(t) ==
  /\ stage[t] = "delete"
  /\ connected
  /\ \/ redisUp /\ remote' = Without(remote, t) /\ Clear(t) /\ UNCHANGED connected
     \/ /\ connected' = FALSE
        /\ UNCHANGED <<remote, histories>>
  /\ Goto(t, "forget")
  /\ UNCHANGED <<request, memory, key, over, now>>

\* ... and those in memory.
Forget(t) ==
  /\ stage[t] = "forget"
  /\ memory' = Without(memory, t)
  /\ Clear(t)
  /\ Goto(t, "200")
  /\ UNCHANGED <<request, remote, connected, key, over, now>>

\* GET /health in production, the database being well: without a client there
\* is nothing to check.
Health(t) ==
  /\ stage[t] = "idle"
  /\ Goto(t, IF connected THEN "ping" ELSE "healthy")
  /\ began' = [began EXCEPT ![t] = clock]
  /\ UNCHANGED <<clock, redisUp, logins, attempt, remote, connected, memory, key,
                 over, now, histories>>

\* A RedisError is swallowed; None has no ping, and that is caught by health.
Ping(t) ==
  /\ stage[t] = "ping"
  /\ \/ ~connected /\ Goto(t, "unhealthy") /\ UNCHANGED connected
     \/ connected /\ redisUp /\ Goto(t, "healthy") /\ UNCHANGED connected
     \/ connected /\ ~redisUp /\ Goto(t, "healthy") /\ connected' = FALSE
  /\ UNCHANGED <<request, remote, memory, key, over, now, histories>>

Reply(t) ==
  /\ stage[t] \in Replies
  /\ Goto(t, "idle")
  /\ attempt' = [attempt EXCEPT ![t] = None]
  /\ key' = [key EXCEPT ![t] = 1]
  /\ over' = [over EXCEPT ![t] = FALSE]
  /\ now' = [now EXCEPT ![t] = 0]
  /\ began' = [began EXCEPT ![t] = 0]
  /\ ticket' = [ticket EXCEPT ![t] = None]
  /\ UNCHANGED <<clock, redisUp, logins, remote, connected, memory, admitted, blocked>>

\* Redis goes down and comes back, with its counters.
Outage ==
  /\ redisUp' = ~redisUp
  /\ UNCHANGED <<clock, remote, connected, memory, stage, attempt, key, over, now,
                 began, logins, histories>>

Tick ==
  /\ clock < MaxTime
  /\ \A t \in Threads : stage[t] # "idle" => clock < began[t] + Patience
  /\ clock' = clock + 1
  /\ UNCHANGED <<redisUp, remote, connected, memory, stage, attempt, key, over, now,
                 began, logins, histories>>

Serve(t) ==
  \/ \E a \in Accounts, ip \in Ips : Login(t, a, ip)
  \/ Check(t)
  \/ EvalNothing(t)
  \/ Eval(t)
  \/ EvalFails(t)
  \/ Increment(t)
  \/ Decide(t)
  \/ Verify(t)
  \/ Recheck(t)
  \/ DeleteNothing(t)
  \/ Delete(t)
  \/ Forget(t)
  \/ Health(t)
  \/ Ping(t)
  \/ Reply(t)

Next == (\E t \in Threads : Serve(t)) \/ Outage \/ Tick

Spec == Init /\ [][Next]_vars
-----------------------------------------------------------------------------
(* Properties *)

\* Of the attempts counted since the last successful login, and less than a
\* window apart, fewer than three windows' worth on an account get to the password:
\* what is left of a window, the next one in Redis, and one more in memory after
\* a failover; or three in memory, when a thread that read the time in one window
\* counts in the next.  However the threads interleave.
AdmissionsBounded ==
  \A a \in Accounts : Cardinality(Recent(admitted[a])) < 3 * Limit[a]

\* A key over its limit is not kept there by the attempts that are turned down:
\* the series ends with the window, save for an attempt that read the time
\* before.
LockoutBounded ==
  [][\A t \in Threads :
       /\ stage[t] \in {"eval", "memory"}
       /\ stage'[t] \in {"check", "decide"}
       /\ blocked'[Key(t)] # None
       => clock - blocked'[Key(t)] < Window + Patience]_vars
=============================================================================
