--------------------------- MODULE RateLimiterProofs ---------------------------
(***************************************************************************)
(* Proofs about RateLimiter, for any number of threads, accounts and       *)
(* addresses, any limits and any window no shorter than a request.         *)
(***************************************************************************)
EXTENDS RateLimiter, FiniteSetTheorems, TLAPS

Attempting == Counting \cup {"decide", "verify"} \cup Resetting

\* A thread between Login and its reply has an attempt.
Asked == \A t \in Threads : stage[t] \in Attempting => attempt[t] # None

\* A request takes its time, and a time that was read is between its coming and
\* now; memory counts once the client is gone.
Timely == \A t \in Threads :
  /\ stage[t] # "idle" => began[t] <= clock /\ clock <= began[t] + Patience
  /\ stage[t] = "memory" => began[t] <= now[t] /\ now[t] <= clock /\ ~connected

\* No window ends later than one that begins now.
Running == \A k \in Keys :
  /\ remote[k] # None => remote[k].until <= clock + Window
  /\ memory[k] # None => memory[k].until <= clock + Window /\ ~connected

\* A series of refusals began in the window that is still counted in.
Refusing == \A k \in Keys :
  blocked[k] # None =>
    /\ blocked[k] <= clock
    /\ connected => remote[k] # None /\ remote[k].until <= blocked[k] + Window
    /\ memory[k] # None => memory[k].until <= blocked[k] + Window

\* The tickets of an account since its last success: of logins that went on to
\* the password, and of those that have yet to.
Holders(a) == {t \in Threads : attempt[t] # None /\ attempt[t][1] = a /\ ticket[t] # None}
Live(a) == admitted[a] \cup {ticket[t] : t \in Holders(a)}

\* No two attempts have the same ticket, so that a set of them counts attempts.
Holding == \A t \in Threads :
  ticket[t] # None =>
    /\ attempt[t] # None /\ key[t] = 2 /\ stage[t] # "idle"
    /\ ticket[t] \notin admitted[Account(t)]
    /\ \A u \in Threads \ {t} : u \in Holders(Account(t)) => ticket[u] # ticket[t]

\* Ticket x is of the window of counter c, or of one that ended before it.
CountedBy(x, c) ==
  /\ c # None
  /\ IF x.until = c.until THEN x.nth <= c.count ELSE x.until + Window <= c.until

\* The first ticket of a window is given when it begins.
RedisTicket(a, x) ==
  /\ CountedBy(x, remote[a])
  /\ x.until <= x.at + Window /\ x.at < x.until
  /\ x.nth = 1 => x.at + Window = x.until
  /\ memory[a] # None => x.at + Window <= memory[a].until
  /\ \A t \in Threads : stage[t] = "memory" => x.at <= now[t]

MemoryTicket(a, x) ==
  /\ CountedBy(x, memory[a])
  /\ x.until <= x.at + Window /\ x.at < x.until + Patience
  /\ x.nth = 1 => x.at + Window <= x.until + Patience

TicketOK(a, x) ==
  /\ x.nth <= Limit[a]
  /\ x.at <= clock
  /\ x.store = "redis" => RedisTicket(a, x)
  /\ x.store = "memory" => MemoryTicket(a, x)

\* Windows do not overlap, and memory's come after what Redis has counted.
Apart(x, y) ==
  /\ x.store = y.store /\ x.until = y.until /\ x.nth = y.nth => x = y
  /\ x.store = y.store /\ x.until < y.until => x.until + Window <= y.until
  /\ x.store = "redis" /\ y.store = "memory" => x.at + Window <= y.until

AccountOK(a) ==
  /\ \A x \in Live(a) : TicketOK(a, x)
  /\ \A x, y \in Live(a) : Apart(x, y)

Tickets == \A a \in Accounts : AccountOK(a)

IInv == TypeOK /\ Asked /\ Timely /\ Running /\ Refusing /\ Holding /\ Tickets
-----------------------------------------------------------------------------
(* Counters *)

LEMMA Constants ==
  /\ Window \in Nat \ {0} /\ Patience \in Nat /\ Patience <= Window
  /\ MaxTime \in Nat /\ MaxLogins \in Nat
  /\ \A k \in Keys : Limit[k] \in Nat \ {0}
  /\ None \notin Counter /\ None \notin Ticket /\ None \notin Nat
  /\ None \notin Accounts \X Ips
BY RateLimiterAssumption

LEMMA KeyOf ==
  ASSUME TypeOK, NEW t \in Threads, attempt[t] # None
  PROVE  /\ attempt[t] \in Accounts \X Ips
         /\ Account(t) \in Accounts /\ Key(t) \in Keys
         /\ key[t] = 1 => Key(t) = Account(t)
         /\ key[t] # 1 => Key(t) \notin Accounts
<1>1. attempt[t] \in Accounts \X Ips /\ key[t] \in {1, 2}
  BY DEF TypeOK
<1>2. attempt[t][1] \in Accounts /\ attempt[t][2] \in Ips
  BY <1>1
<1> QED
  BY <1>1, <1>2, RateLimiterAssumption DEF Account, Key, Keys

LEMMA IncrementedCases ==
  ASSUME NEW c \in Counter \cup {None}, NEW time \in Nat
  PROVE  /\ Incremented(c, time) \in Counter
         /\ \/ /\ c = None \/ time >= c.until
               /\ Incremented(c, time).count = 1
               /\ Incremented(c, time).until = time + Window
            \/ /\ c # None /\ time < c.until
               /\ Incremented(c, time).count = c.count + 1
               /\ Incremented(c, time).until = c.until
<1>1. CASE c = None \/ time >= c.until
  BY <1>1, Constants DEF Incremented, Counter
<1>2. CASE c # None /\ time < c.until
  <2>1. c \in Counter /\ Incremented(c, time) = [c EXCEPT !.count = @ + 1]
    BY <1>2 DEF Incremented, Counter
  <2> QED
    BY <1>2, <2>1 DEF Counter
<1>3. c # None => c.until \in Nat
  BY DEF Counter
<1> QED
  BY <1>1, <1>2, <1>3

\* What a counter has counted, the incremented one has.
LEMMA IncrementedKeeps ==
  ASSUME NEW c \in Counter \cup {None}, NEW time \in Nat, NEW x \in Ticket,
         CountedBy(x, c)
  PROVE  CountedBy(x, Incremented(c, time))
<1> DEFINE d == Incremented(c, time)
<1>1. c # None /\ c \in Counter /\ d \in Counter /\ d # None
  BY IncrementedCases, Constants DEF CountedBy
<1>2. /\ c.until \in Nat /\ c.count \in Nat /\ x.until \in Nat /\ x.nth \in Nat
      /\ d.until \in Nat /\ d.count \in Nat /\ Window \in Nat \ {0}
  BY <1>1, Constants DEF Counter, Ticket
<1>3. \/ time >= c.until /\ d.until = time + Window
      \/ d.count = c.count + 1 /\ d.until = c.until
  BY <1>1, IncrementedCases
<1>4. IF x.until = c.until THEN x.nth <= c.count ELSE x.until + Window <= c.until
  BY DEF CountedBy
<1>5. IF x.until = d.until THEN x.nth <= d.count ELSE x.until + Window <= d.until
  BY <1>2, <1>3, <1>4
<1> QED
  BY <1>1, <1>5 DEF CountedBy
-----------------------------------------------------------------------------
(* Types and the order of a thread's steps *)

LEMMA CountedTypes ==
  ASSUME TypeOK, NEW t \in Threads, attempt[t] # None,
         NEW c \in Counter, NEW st \in {"redis", "memory"}, Counted(t, c, st)
  PROVE  /\ over' \in [Threads -> BOOLEAN]
         /\ blocked' \in [Keys -> 0 .. MaxTime \cup {None}]
         /\ ticket' \in [Threads -> Ticket \cup {None}]
         /\ stage' \in [Threads -> Stages]
         /\ key' \in [Threads -> {1, 2}]
<1>1. Key(t) \in Keys
  BY KeyOf
<1>2. over' \in [Threads -> BOOLEAN]
  BY DEF Counted, TypeOK, Exceeds
<1>3. blocked' \in [Keys -> 0 .. MaxTime \cup {None}]
  BY <1>1 DEF Counted, TypeOK
<1>4. [store |-> st, until |-> c.until, nth |-> c.count, at |-> clock] \in Ticket
  BY DEF TypeOK, Counter, Ticket
<1>5. ticket' \in [Threads -> Ticket \cup {None}]
  BY <1>4 DEF Counted, TypeOK
<1>6. stage' \in [Threads -> Stages] /\ key' \in [Threads -> {1, 2}]
  BY DEF Counted, TypeOK, Goto, Stages, Counting
<1> QED
  BY <1>2, <1>3, <1>5, <1>6

LEMMA WithoutType ==
  ASSUME NEW S, NEW f \in [Keys -> S \cup {None}], NEW t
  PROVE  Without(f, t) \in [Keys -> S \cup {None}]
BY DEF Without

LEMMA ClearTypes ==
  ASSUME TypeOK, NEW t \in Threads, Clear(t)
  PROVE  /\ ticket' \in [Threads -> Ticket \cup {None}]
         /\ admitted' \in [Accounts -> SUBSET Ticket]
         /\ blocked' \in [Keys -> 0 .. MaxTime \cup {None}]
<1>1. ticket' \in [Threads -> Ticket \cup {None}] /\ admitted' \in [Accounts -> SUBSET Ticket]
  BY DEF Clear, TypeOK
<1>2. blocked' \in [Keys -> 0 .. MaxTime \cup {None}]
  BY WithoutType DEF Clear, TypeOK
<1> QED
  BY <1>1, <1>2

LEMMA ServeTypes ==
  ASSUME TypeOK, Asked, NEW t \in Threads, Serve(t)
  PROVE  TypeOK'
<1>1. ASSUME NEW a \in Accounts, NEW ip \in Ips, Login(t, a, ip) PROVE TypeOK'
  <2>1. logins' \in 0 .. MaxLogins
    BY <1>1, Constants DEF Login, TypeOK
  <2> QED
    BY <1>1, <2>1 DEF TypeOK, Login, Goto, Stages, Counting, histories
<1>2. CASE Check(t) \/ Verify(t) \/ Recheck(t) \/ EvalNothing(t) \/ DeleteNothing(t)
  BY <1>2 DEF TypeOK, Check, Verify, Recheck, EvalNothing, DeleteNothing, Goto, Stages,
     Counting, Resetting, Replies, request, histories
<1>3. CASE Eval(t) \/ Increment(t)
  <2>1. attempt[t] # None
    BY <1>3 DEF Asked, Attempting, Counting, Eval, Increment
  <2>2. Key(t) \in Keys
    BY <2>1, KeyOf
  <2>3. /\ remote[Key(t)] \in Counter \cup {None} /\ clock \in Nat
        /\ memory[Key(t)] \in Counter \cup {None} /\ now[t] \in Nat
    BY <2>2 DEF TypeOK
  <2>4. /\ Incremented(remote[Key(t)], clock) \in Counter
        /\ Incremented(memory[Key(t)], now[t]) \in Counter
    BY <2>3, IncrementedCases
  <2>5. CASE Eval(t)
    BY <2>1, <2>2, <2>4, <2>5, CountedTypes DEF Eval, TypeOK, request
  <2>6. CASE Increment(t)
    <3>1. memory' \in [Keys -> Counter \cup {None}] /\ now' \in [Threads -> 0 .. MaxTime]
      BY <2>2, <2>4, <2>6, Constants DEF Increment, TypeOK
    <3> QED
      BY <2>1, <2>4, <2>6, <3>1, CountedTypes DEF Increment, TypeOK, request
  <2> QED
    BY <1>3, <2>5, <2>6
<1>4. CASE EvalFails(t)
  <2>1. attempt[t] # None
    BY <1>4 DEF Asked, Attempting, Counting, EvalFails
  <2>2. Key(t) \in Keys
    BY <2>1, KeyOf
  <2>3. Incremented(remote[Key(t)], clock) \in Counter
    BY <2>2, IncrementedCases DEF TypeOK
  <2>4. remote' \in [Keys -> Counter \cup {None}]
    BY <1>4, <2>2, <2>3 DEF EvalFails, TypeOK
  <2> QED
    BY <1>4, <2>4 DEF TypeOK, EvalFails, Goto, Stages, Counting, request, histories
<1>5. CASE Decide(t)
  <2>1. admitted' \in [Accounts -> SUBSET Ticket]
    BY <1>5 DEF TypeOK, Decide, Recent
  <2> QED
    BY <1>5, <2>1 DEF TypeOK, Decide, Goto, Stages, Replies, request
<1>6. CASE Delete(t)
  <2>1. remote' \in [Keys -> Counter \cup {None}]
    <3>1. Without(remote, t) \in [Keys -> Counter \cup {None}]
      BY WithoutType DEF TypeOK
    <3> QED
      BY <1>6, <3>1 DEF TypeOK, Delete
  <2> QED
    BY <1>6, <2>1, ClearTypes DEF TypeOK, Delete, Goto, Stages, Resetting, request, histories
<1>7. CASE Forget(t)
  <2>1. memory' \in [Keys -> Counter \cup {None}]
    BY <1>7, WithoutType DEF TypeOK, Forget
  <2> QED
    BY <1>7, <2>1, ClearTypes DEF TypeOK, Forget, Goto, Stages, Replies, request
<1>8. CASE Health(t)
  BY <1>8 DEF TypeOK, Health, Goto, Stages, Replies, histories
<1>9. CASE Ping(t)
  BY <1>9 DEF TypeOK, Ping, Goto, Stages, Replies, request, histories
<1>10. CASE Reply(t)
  <2>1. 0 \in 0 .. MaxTime
    BY Constants
  <2> QED
    BY <1>10, <2>1 DEF TypeOK, Reply, Goto, Stages
<1> QED
  BY <1>1, <1>2, <1>3, <1>4, <1>5, <1>6, <1>7, <1>8, <1>9, <1>10 DEF Serve

LEMMA NextTypes == TypeOK /\ Asked /\ [Next]_vars => TypeOK'
<1> SUFFICES ASSUME TypeOK, Asked, [Next]_vars PROVE TypeOK'
  OBVIOUS
<1>1. CASE UNCHANGED vars
  BY <1>1 DEF TypeOK, vars
<1>2. CASE Outage
  BY <1>2 DEF TypeOK, Outage, histories
<1>3. CASE Tick
  BY <1>3, Constants DEF TypeOK, Tick, histories
<1> QED
  BY <1>1, <1>2, <1>3, ServeTypes DEF Next

\* The steps of a thread leave what the others have in hand.
OthersAlone(t) ==
  /\ clock' = clock
  /\ \A u \in Threads \ {t} :
       /\ stage'[u] = stage[u] /\ attempt'[u] = attempt[u] /\ key'[u] = key[u]
       /\ now'[u] = now[u] /\ began'[u] = began[u]

LEMMA ServeAlone ==
  ASSUME TypeOK, NEW t \in Threads, Serve(t)
  PROVE  OthersAlone(t)
<1>1. ASSUME NEW a \in Accounts, NEW ip \in Ips, Login(t, a, ip) PROVE OthersAlone(t)
  BY <1>1 DEF TypeOK, OthersAlone, Login, Goto
<1>2. CASE Check(t) \/ Verify(t) \/ Recheck(t) \/ EvalNothing(t) \/ DeleteNothing(t)
  BY <1>2 DEF TypeOK, OthersAlone, Check, Verify, Recheck, EvalNothing, DeleteNothing, Goto, request
<1>3. CASE Eval(t)
  BY <1>3 DEF TypeOK, OthersAlone, Eval, Counted, Goto, request
<1>4. CASE Increment(t)
  BY <1>4 DEF TypeOK, OthersAlone, Increment, Counted, Goto, request
<1>5. CASE EvalFails(t) \/ Decide(t)
  BY <1>5 DEF TypeOK, OthersAlone, EvalFails, Decide, Goto, request
<1>6. CASE Delete(t) \/ Forget(t)
  BY <1>6 DEF TypeOK, OthersAlone, Delete, Forget, Goto, request
<1>7. CASE Health(t) \/ Ping(t) \/ Reply(t)
  BY <1>7 DEF TypeOK, OthersAlone, Health, Ping, Reply, Goto, request
<1> QED
  BY <1>1, <1>2, <1>3, <1>4, <1>5, <1>6, <1>7 DEF Serve

LEMMA ServeAsked ==
  ASSUME TypeOK, Asked, NEW t \in Threads, Serve(t)
  PROVE  Asked'
<1> SUFFICES stage'[t] \in Attempting => attempt'[t] # None
  BY ServeAlone DEF Asked, OthersAlone
<1>1. ASSUME NEW a \in Accounts, NEW ip \in Ips, Login(t, a, ip)
      PROVE  attempt'[t] # None
  BY <1>1, Constants DEF TypeOK, Login
<1>2. CASE Check(t) \/ Verify(t) \/ Recheck(t) \/ EvalNothing(t) \/ DeleteNothing(t)
  BY <1>2 DEF TypeOK, Asked, Attempting, Counting, Resetting, Check, Verify, Recheck,
     EvalNothing, DeleteNothing, Goto, request
<1>3. CASE Eval(t) \/ Increment(t) \/ EvalFails(t) \/ Decide(t) \/ Delete(t) \/ Forget(t)
  <2>1. stage[t] \in Attempting /\ attempt' = attempt
    BY <1>3 DEF Attempting, Counting, Resetting, Eval, Increment, EvalFails, Decide, Delete,
       Forget, request
  <2> QED
    BY <2>1 DEF Asked
<1>4. CASE Health(t) \/ Ping(t) \/ Reply(t)
  <2>1. stage'[t] \in {"ping", "healthy", "unhealthy", "idle"}
    BY <1>4 DEF TypeOK, Health, Ping, Reply, Goto
  <2> QED
    BY <2>1 DEF Attempting, Counting, Resetting
<1> QED
  BY <1>1, <1>2, <1>3, <1>4 DEF Serve

\* Whoever waits for the lock of memory has just read the time.
LEMMA ServeReads ==
  ASSUME TypeOK, NEW t \in Threads, Serve(t)
  PROVE  stage'[t] = "memory" => now'[t] = clock /\ ~connected' /\ stage[t] # "idle" /\ began' = began
<1>1. CASE Check(t) \/ EvalFails(t)
  BY <1>1 DEF TypeOK, Check, EvalFails, Goto, request
<1>2. CASE Eval(t) \/ Increment(t)
  BY <1>2 DEF TypeOK, Eval, Increment, Counted, Goto
<1>3. CASE \/ EvalNothing(t) \/ Decide(t) \/ Verify(t) \/ Recheck(t)
           \/ DeleteNothing(t) \/ Delete(t) \/ Forget(t)
  BY <1>3 DEF TypeOK, EvalNothing, Decide, Verify, Recheck, DeleteNothing, Delete,
     Forget, Goto
<1>4. CASE Health(t) \/ Ping(t) \/ Reply(t)
  BY <1>4 DEF TypeOK, Health, Ping, Reply, Goto
<1>5. ASSUME NEW a \in Accounts, NEW ip \in Ips, Login(t, a, ip) PROVE stage'[t] # "memory"
  BY <1>5 DEF TypeOK, Login, Goto
<1> QED
  BY <1>1, <1>2, <1>3, <1>4, <1>5 DEF Serve

LEMMA ServeTimely ==
  ASSUME TypeOK, Timely, NEW t \in Threads, Serve(t)
  PROVE  Timely'
<1>1. /\ clock \in Nat /\ clock' = clock /\ Patience \in Nat
      /\ began[t] \in Nat /\ now[t] \in Nat
  BY ServeAlone, Constants DEF OthersAlone, TypeOK
<1>2. connected \/ ~connected'
  BY DEF Serve, Login, Check, EvalNothing, Eval, EvalFails, Increment, Decide, Verify,
     Recheck, DeleteNothing, Delete, Forget, Health, Ping, Reply
<1>3. ASSUME NEW u \in Threads \ {t}
      PROVE  /\ stage'[u] # "idle" => began'[u] <= clock' /\ clock' <= began'[u] + Patience
             /\ stage'[u] = "memory" => began'[u] <= now'[u] /\ now'[u] <= clock' /\ ~connected'
  BY <1>2, ServeAlone DEF OthersAlone, Timely
<1>4. stage'[t] # "idle" => began'[t] <= clock' /\ clock' <= began'[t] + Patience
  <2>1. ASSUME NEW a \in Accounts, NEW ip \in Ips, Login(t, a, ip) \/ Health(t)
        PROVE  began'[t] = clock
    BY <2>1 DEF TypeOK, Login, Health
  <2>2. CASE Reply(t)
    BY <2>2 DEF TypeOK, Reply, Goto
  <2>3. CASE \/ Check(t) \/ EvalNothing(t) \/ Eval(t) \/ EvalFails(t) \/ Increment(t)
             \/ Decide(t) \/ Verify(t) \/ Recheck(t) \/ DeleteNothing(t) \/ Delete(t)
             \/ Forget(t) \/ Ping(t)
    <3>1. stage[t] # "idle" /\ began' = began
      BY <2>3 DEF Check, EvalNothing, Eval, EvalFails, Increment, Decide, Verify,
         Recheck, DeleteNothing, Delete, Forget, Ping, request
    <3> QED
      BY <1>1, <3>1 DEF Timely
  <2>4. CASE Health(t)
    BY <1>1, <2>4 DEF TypeOK, Health
  <2> QED
    BY <1>1, <2>1, <2>2, <2>3, <2>4 DEF Serve
<1>5. stage'[t] = "memory" => now'[t] = clock /\ ~connected' /\ stage[t] # "idle" /\ began' = began
  BY ServeReads
<1>6. stage'[t] = "memory" => began'[t] <= now'[t] /\ now'[t] <= clock' /\ ~connected'
  BY <1>1, <1>5 DEF Timely
<1> QED
  BY <1>3, <1>4, <1>6 DEF Timely

\* Nobody waits for longer than the environment lets a request take.
LEMMA NextTimely ==
  ASSUME TypeOK, Asked, Timely, [Next]_vars
  PROVE  Asked' /\ Timely'
<1>1. CASE UNCHANGED vars
  BY <1>1 DEF vars, Asked, Timely
<1>2. CASE Outage
  BY <1>2 DEF Outage, Asked, Timely
<1>3. CASE Tick
  <2>1. /\ clock \in Nat /\ clock' = clock + 1 /\ Patience \in Nat
        /\ \A u \in Threads : began[u] \in Nat /\ now[u] \in Nat
    BY <1>3, Constants DEF Tick, TypeOK
  <2> QED
    BY <1>3, <2>1 DEF Tick, Asked, Timely
<1> QED
  BY <1>1, <1>2, <1>3, ServeAsked, ServeTimely DEF Next
-----------------------------------------------------------------------------
(* The counters                                                            *)

\* What a step of a thread does to the counters and to the client.
CountersMove(t) ==
  /\ clock' = clock
  /\ ~connected => ~connected' /\ remote' = remote
  /\ memory' # memory => stage[t] \in {"memory", "forget"}
  /\ \A k \in Keys :
       /\ \/ remote'[k] \in {remote[k], None}
          \/ remote'[k] = Incremented(remote[k], clock)
       /\ \/ memory'[k] \in {memory[k], None}
          \/ stage[t] = "memory" /\ memory'[k] = Incremented(memory[k], now[t])

LEMMA ServeCounters ==
  ASSUME TypeOK, Asked, NEW t \in Threads, Serve(t)
  PROVE  CountersMove(t)
<1>1. ASSUME NEW a \in Accounts, NEW ip \in Ips, Login(t, a, ip) PROVE CountersMove(t)
  BY <1>1 DEF CountersMove, Login
<1>2. CASE \/ Check(t) \/ EvalNothing(t) \/ Decide(t) \/ Verify(t) \/ Recheck(t)
           \/ DeleteNothing(t) \/ Health(t) \/ Ping(t) \/ Reply(t)
  BY <1>2 DEF CountersMove, Check, EvalNothing, Decide, Verify, Recheck, DeleteNothing,
     Health, Ping, Reply, request
<1>3. CASE Eval(t) \/ EvalFails(t) \/ Increment(t)
  <2>1. Key(t) \in Keys
    BY <1>3, KeyOf DEF Asked, Attempting, Counting, Eval, EvalFails, Increment
  <2>2. CASE Eval(t)
    BY <2>1, <2>2 DEF CountersMove, Eval, request, TypeOK
  <2>3. CASE EvalFails(t)
    BY <2>1, <2>3 DEF CountersMove, EvalFails, request, TypeOK
  <2>4. CASE Increment(t)
    BY <2>1, <2>4 DEF CountersMove, Increment, request, TypeOK
  <2> QED
    BY <1>3, <2>2, <2>3, <2>4
<1>4. CASE Delete(t)
  BY <1>4 DEF CountersMove, Delete, Without, request
<1>5. CASE Forget(t)
  BY <1>5 DEF CountersMove, Forget, Without, request
<1> QED
  BY <1>1, <1>2, <1>3, <1>4, <1>5 DEF Serve

LEMMA ServeRunning ==
  ASSUME TypeOK, Asked, Timely, Running, NEW t \in Threads, Serve(t)
  PROVE  Running'
<1> SUFFICES ASSUME NEW k \in Keys
             PROVE  /\ remote'[k] # None => remote'[k].until <= clock' + Window
                    /\ memory'[k] # None => memory'[k].until <= clock' + Window /\ ~connected'
  BY DEF Running
<1>1. CountersMove(t)
  BY ServeCounters
<1>2. /\ remote[k] \in Counter \cup {None} /\ memory[k] \in Counter \cup {None}
      /\ clock \in Nat /\ now[t] \in Nat /\ Window \in Nat
  BY Constants DEF TypeOK
<1>3. remote'[k] # None => remote'[k].until <= clock' + Window
  <2>1. CASE remote'[k] \in {remote[k], None}
    BY <1>1, <2>1 DEF Running, CountersMove
  <2>2. CASE remote'[k] = Incremented(remote[k], clock)
    <3>1. \/ Incremented(remote[k], clock).until = clock + Window
          \/ remote[k] # None /\ Incremented(remote[k], clock).until = remote[k].until
      BY <1>2, IncrementedCases
    <3> QED
      BY <1>1, <1>2, <2>2, <3>1 DEF Running, CountersMove
  <2> QED
    BY <1>1, <2>1, <2>2 DEF CountersMove
<1>4. memory'[k] # None => memory'[k].until <= clock' + Window /\ ~connected'
  <2>1. CASE memory'[k] \in {memory[k], None}
    BY <1>1, <2>1 DEF Running, CountersMove
  <2>2. CASE stage[t] = "memory" /\ memory'[k] = Incremented(memory[k], now[t])
    <3>1. now[t] <= clock /\ ~connected
      BY <2>2 DEF Timely
    <3>2. \/ Incremented(memory[k], now[t]).until = now[t] + Window
          \/ memory[k] # None /\ Incremented(memory[k], now[t]).until = memory[k].until
      BY <1>2, IncrementedCases
    <3> QED
      BY <1>1, <1>2, <2>2, <3>1, <3>2 DEF Running, CountersMove
  <2> QED
    BY <1>1, <2>1, <2>2 DEF CountersMove
<1> QED
  BY <1>3, <1>4

LEMMA CountedBlocked ==
  ASSUME TypeOK, NEW t \in Threads, attempt[t] # None, NEW c, NEW st, Counted(t, c, st),
         NEW k \in Keys
  PROVE  /\ k # Key(t) => blocked'[k] = blocked[k]
         /\ k = Key(t) /\ blocked'[k] # None =>
              Exceeds(k, c) /\ blocked'[k] = IF blocked[k] = None THEN clock ELSE blocked[k]
BY KeyOf DEF TypeOK, Counted

\* A counter over its limit is not one that was just begun.
LEMMA ExceedingWasThere ==
  ASSUME NEW k \in Keys, NEW c \in Counter \cup {None}, NEW time \in Nat,
         Exceeds(k, Incremented(c, time))
  PROVE  c # None /\ time < c.until /\ Incremented(c, time).until = c.until
<1>1. Limit[k] \in Nat \ {0}
  BY Constants
<1>2. Incremented(c, time).count # 1
  BY <1>1 DEF Exceeds
<1> QED
  BY <1>2, IncrementedCases

LEMMA ServeRefusing ==
  ASSUME TypeOK, Asked, Timely, Running, Refusing, NEW t \in Threads, Serve(t)
  PROVE  Refusing'
<1> SUFFICES ASSUME NEW k \in Keys, blocked'[k] # None
             PROVE  /\ blocked'[k] <= clock'
                    /\ connected' => remote'[k] # None /\ remote'[k].until <= blocked'[k] + Window
                    /\ memory'[k] # None => memory'[k].until <= blocked'[k] + Window
  BY DEF Refusing
<1>1. CountersMove(t)
  BY ServeCounters
<1>2. /\ remote[k] \in Counter \cup {None} /\ memory[k] \in Counter \cup {None}
      /\ blocked[k] \in Nat \cup {None}
      /\ clock \in Nat /\ now[t] \in Nat /\ Window \in Nat /\ clock' = clock
  BY <1>1, Constants DEF TypeOK, CountersMove
<1>3. ASSUME Eval(t) \/ Increment(t) PROVE attempt[t] # None /\ Key(t) \in Keys
  BY <1>3, KeyOf DEF Asked, Attempting, Counting, Eval, Increment
<1>4. CASE Eval(t)
  <2>1. CASE k # Key(t)
    <3>1. blocked'[k] = blocked[k] /\ remote'[k] = remote[k] /\ memory'[k] = memory[k]
          /\ connected' = connected
      BY <1>3, <1>4, <2>1, CountedBlocked DEF Eval, TypeOK
    <3> QED
      BY <1>2, <3>1 DEF Refusing
  <2>2. CASE k = Key(t)
    <3> DEFINE c == Incremented(remote[k], clock)
    <3>1. /\ Exceeds(k, c) /\ remote'[k] = c /\ memory'[k] = memory[k]
          /\ connected /\ connected' = connected
          /\ blocked'[k] = IF blocked[k] = None THEN clock ELSE blocked[k]
      BY <1>3, <1>4, <2>2, CountedBlocked DEF Eval, TypeOK
    <3>2. remote[k] # None /\ c.until = remote[k].until /\ c # None
      <4>1. c \in Counter /\ None \notin Counter
        BY <1>2, IncrementedCases, Constants
      <4>2. remote[k] # None /\ c.until = remote[k].until
        BY <1>2, <3>1, ExceedingWasThere
      <4> QED
        BY <4>1, <4>2
    <3>3. memory[k] = None
      BY <3>1 DEF Running
    <3>4. CASE blocked[k] = None
      BY <1>2, <3>1, <3>2, <3>3, <3>4 DEF Running
    <3>5. CASE blocked[k] # None
      BY <1>2, <3>1, <3>2, <3>3, <3>5 DEF Refusing
    <3> QED
      BY <3>4, <3>5
  <2> QED
    BY <2>1, <2>2
<1>5. CASE Increment(t)
  <2>1. /\ connected' = connected /\ ~connected /\ now[t] <= clock
    BY <1>5 DEF Increment, Timely
  <2>2. CASE k # Key(t)
    <3>1. blocked'[k] = blocked[k] /\ memory'[k] = memory[k]
      BY <1>3, <1>5, <2>2, CountedBlocked DEF Increment, TypeOK
    <3> QED
      BY <1>2, <2>1, <3>1 DEF Refusing
  <2>3. CASE k = Key(t)
    <3> DEFINE c == Incremented(memory[k], now[t])
    <3>1. /\ Exceeds(k, c) /\ memory'[k] = c
          /\ blocked'[k] = IF blocked[k] = None THEN clock ELSE blocked[k]
      BY <1>3, <1>5, <2>3, CountedBlocked DEF Increment, TypeOK
    <3>2. memory[k] # None /\ c.until = memory[k].until
      BY <1>2, <3>1, ExceedingWasThere
    <3>3. CASE blocked[k] = None
      BY <1>2, <2>1, <3>1, <3>2, <3>3 DEF Running
    <3>4. CASE blocked[k] # None
      BY <1>2, <2>1, <3>1, <3>2, <3>4 DEF Refusing
    <3> QED
      BY <3>3, <3>4
  <2> QED
    BY <2>2, <2>3
<1>6. CASE EvalFails(t)
  <2>1. connected /\ ~connected' /\ blocked' = blocked /\ memory' = memory
    BY <1>6 DEF EvalFails, histories
  <2>2. memory[k] = None
    BY <2>1 DEF Running
  <2> QED
    BY <1>2, <2>1, <2>2 DEF Refusing
<1>7. CASE Delete(t)
  <2>1. CASE remote' = Without(remote, t) /\ Clear(t)
    <3>1. /\ remote'[k] = remote[k] /\ blocked'[k] = blocked[k] /\ memory' = memory
          /\ connected' => connected
      BY <1>7, <2>1 DEF Delete, Clear, Without
    <3> QED
      BY <1>2, <3>1 DEF Refusing
  <2>2. CASE ~connected' /\ UNCHANGED <<remote, histories>>
    BY <1>2, <1>7, <2>2 DEF Delete, Refusing, histories
  <2> QED
    BY <1>7, <2>1, <2>2 DEF Delete
<1>8. CASE Forget(t)
  <2>1. /\ memory'[k] = memory[k] /\ blocked'[k] = blocked[k] /\ remote' = remote
        /\ connected' = connected
    BY <1>8 DEF Forget, Clear, Without
  <2> QED
    BY <1>2, <2>1 DEF Refusing
<1>9. CASE ~(Eval(t) \/ Increment(t) \/ EvalFails(t) \/ Delete(t) \/ Forget(t))
  <2>1. /\ remote' = remote /\ memory' = memory /\ blocked' = blocked
        /\ connected' => connected
    BY <1>9 DEF Serve, Login, Check, EvalNothing, Decide, Verify, Recheck, DeleteNothing,
       Health, Ping, Reply, request, histories
  <2> QED
    BY <1>2, <2>1 DEF Refusing
<1> QED
  BY <1>4, <1>5, <1>6, <1>7, <1>8, <1>9

LEMMA NextCounters ==
  ASSUME TypeOK, Asked, Timely, Running, Refusing, [Next]_vars
  PROVE  Running' /\ Refusing'
<1>1. CASE UNCHANGED vars
  BY <1>1 DEF vars, Running, Refusing
<1>2. CASE Outage
  BY <1>2 DEF Outage, Running, Refusing, histories
<1>3. CASE Tick
  <2>1. /\ clock \in Nat /\ clock' = clock + 1 /\ Window \in Nat
        /\ \A k \in Keys : /\ remote[k] # None => remote[k].until \in Nat
                           /\ memory[k] # None => memory[k].until \in Nat
                           /\ blocked[k] # None => blocked[k] \in Nat
    BY <1>3, Constants DEF Tick, TypeOK, Counter
  <2>2. UNCHANGED <<remote, memory, connected, blocked>>
    BY <1>3 DEF Tick, histories
  <2>3. Running'
    BY <2>1, <2>2 DEF Running
  <2>4. Refusing'
    BY <2>1, <2>2 DEF Refusing
  <2> QED
    BY <2>3, <2>4
<1> QED
  BY <1>1, <1>2, <1>3, ServeRunning, ServeRefusing DEF Next
-----------------------------------------------------------------------------
(* The tickets                                                             *)

\* The counters of account a go on, and so do the readings of the time.
GoesOn(a, t) ==
  /\ clock' = clock
  /\ remote'[a] \in {remote[a], Incremented(remote[a], clock)}
  /\ \/ memory'[a] = memory[a]
     \/ stage[t] = "memory" /\ memory'[a] = Incremented(memory[a], now[t])
  /\ \A u \in Threads :
       stage'[u] = "memory" => now'[u] = clock \/ (stage[u] = "memory" /\ now'[u] = now[u])

LEMMA LiveTickets ==
  ASSUME TypeOK, NEW a \in Accounts
  PROVE  Live(a) \subseteq Ticket
BY Constants DEF TypeOK, Live, Holders

LEMMA TicketStays ==
  ASSUME TypeOK, Timely, Running, NEW a \in Accounts, NEW t \in Threads, GoesOn(a, t),
         NEW x \in Ticket, TicketOK(a, x)
  PROVE  TicketOK(a, x)'
<1>1. /\ a \in Keys /\ remote[a] \in Counter \cup {None} /\ memory[a] \in Counter \cup {None}
      /\ clock \in Nat /\ now[t] \in Nat /\ Window \in Nat \ {0}
      /\ x.at \in Nat /\ x.until \in Nat
  BY Constants DEF TypeOK, Keys, Ticket
<1>2. x.at <= clock'
  BY DEF GoesOn, TicketOK
<1>3. ASSUME x.store = "redis" PROVE RedisTicket(a, x)'
  <2>1. RedisTicket(a, x)
    BY <1>3 DEF TicketOK
  <2>2. CountedBy(x, remote'[a])
    <3>1. CountedBy(x, remote[a])
      BY <2>1 DEF RedisTicket
    <3>2. CountedBy(x, Incremented(remote[a], clock))
      BY <1>1, <3>1, IncrementedKeeps
    <3> QED
      BY <3>1, <3>2 DEF GoesOn
  <2>3. memory'[a] # None => x.at + Window <= memory'[a].until
    <3>1. CASE memory'[a] = memory[a]
      BY <2>1, <3>1 DEF RedisTicket
    <3>2. CASE stage[t] = "memory" /\ memory'[a] = Incremented(memory[a], now[t])
      <4>1. \/ Incremented(memory[a], now[t]).until = now[t] + Window
            \/ memory[a] # None /\ Incremented(memory[a], now[t]).until = memory[a].until
        BY <1>1, IncrementedCases
      <4>2. x.at <= now[t]
        BY <2>1, <3>2 DEF RedisTicket
      <4> QED
        BY <1>1, <2>1, <3>2, <4>1, <4>2 DEF RedisTicket
    <3> QED
      BY <3>1, <3>2 DEF GoesOn
  <2>4. \A u \in Threads : stage'[u] = "memory" => x.at <= now'[u]
    BY <2>1 DEF RedisTicket, GoesOn, TicketOK
  <2> QED
    BY <2>1, <2>2, <2>3, <2>4 DEF RedisTicket, CountedBy
<1>4. ASSUME x.store = "memory" PROVE MemoryTicket(a, x)'
  <2>1. MemoryTicket(a, x)
    BY <1>4 DEF TicketOK
  <2>2. CountedBy(x, memory'[a])
    <3>1. CountedBy(x, memory[a])
      BY <2>1 DEF MemoryTicket
    <3>2. CountedBy(x, Incremented(memory[a], now[t]))
      BY <1>1, <3>1, IncrementedKeeps
    <3> QED
      BY <3>1, <3>2 DEF GoesOn
  <2> QED
    BY <2>1, <2>2 DEF MemoryTicket, CountedBy
<1> QED
  BY <1>2, <1>3, <1>4 DEF TicketOK

\* An account that gets no new ticket.
LEMMA AccountStays ==
  ASSUME TypeOK, Timely, Running, NEW a \in Accounts, AccountOK(a), Live(a)' \subseteq Live(a),
         NEW t \in Threads, GoesOn(a, t) \/ Live(a)' = {}
  PROVE  AccountOK(a)'
<1>1. ASSUME NEW x \in Live(a)' PROVE TicketOK(a, x)'
  BY <1>1, TicketStays, LiveTickets DEF AccountOK
<1>2. ASSUME NEW x \in Live(a)', NEW y \in Live(a)' PROVE Apart(x, y)
  BY <1>2 DEF AccountOK
<1> QED
  BY <1>1, <1>2 DEF AccountOK, Apart

\* The ticket that a counted attempt of account a gets.
Issued(c, st) == [store |-> st, until |-> c.until, nth |-> c.count, at |-> clock]

LEMMA IssuedTicket ==
  ASSUME TypeOK, NEW c \in Counter, NEW st \in {"redis", "memory"}
  PROVE  /\ Issued(c, st) \in Ticket /\ Issued(c, st) # None
         /\ Issued(c, st).store = st /\ Issued(c, st).until = c.until
         /\ Issued(c, st).nth = c.count /\ Issued(c, st).at = clock
BY Constants DEF TypeOK, Counter, Ticket, Issued

\* ... is not one that its counter has given before.
LEMMA Fresh ==
  ASSUME NEW c \in Counter \cup {None}, NEW time \in Nat, NEW x \in Ticket, CountedBy(x, c)
  PROVE  IF x.until = Incremented(c, time).until
           THEN x.nth < Incremented(c, time).count
           ELSE x.until + Window <= Incremented(c, time).until
<1> DEFINE d == Incremented(c, time)
<1>1. c # None /\ c \in Counter /\ d \in Counter
  BY IncrementedCases DEF CountedBy
<1>2. /\ c.until \in Nat /\ c.count \in Nat /\ x.until \in Nat /\ x.nth \in Nat
      /\ d.until \in Nat /\ d.count \in Nat /\ Window \in Nat \ {0}
  BY <1>1, Constants DEF Counter, Ticket
<1>3. \/ time >= c.until /\ d.until = time + Window
      \/ d.count = c.count + 1 /\ d.until = c.until
  BY <1>1, IncrementedCases
<1>4. IF x.until = c.until THEN x.nth <= c.count ELSE x.until + Window <= c.until
  BY DEF CountedBy
<1> QED
  BY <1>2, <1>3, <1>4

\* A success ends what the account had; every other step goes on with it.
LEMMA ServeGoesOn ==
  ASSUME TypeOK, Asked, NEW t \in Threads, Serve(t), NEW a \in Accounts
  PROVE  GoesOn(a, t) \/ Live(a)' = {}
<1>1. CountersMove(t) /\ OthersAlone(t) /\ a \in Keys
  BY ServeCounters, ServeAlone DEF Keys
<1>2. ASSUME NEW u \in Threads, stage'[u] = "memory"
      PROVE  now'[u] = clock \/ (stage[u] = "memory" /\ now'[u] = now[u])
  BY <1>1, <1>2, ServeReads DEF OthersAlone
<1>3. ASSUME Delete(t) \/ Forget(t)
      PROVE  attempt[t] # None /\ attempt[t][1] \in Accounts /\ attempt[t][2] \notin Accounts
  <2>1. attempt[t] # None
    BY <1>3 DEF Asked, Attempting, Resetting, Delete, Forget
  <2> QED
    BY <2>1, RateLimiterAssumption DEF TypeOK
<1>4. CASE (Delete(t) \/ Forget(t)) /\ Clear(t) /\ a = Account(t)
  <2>1. admitted'[a] = {}
    BY <1>4 DEF Clear, TypeOK
  <2>2. attempt' = attempt
    BY <1>4 DEF Delete, Forget, request
  <2>3. Holders(a)' = {}
    BY <1>4, <2>2 DEF Clear, Holders, Account
  <2> QED
    BY <2>1, <2>3 DEF Live
<1>5. CASE (Delete(t) \/ Forget(t)) /\ ~(Clear(t) /\ a = Account(t))
  <2>1. remote'[a] = remote[a] /\ memory'[a] = memory[a]
    BY <1>1, <1>3, <1>5 DEF Delete, Forget, Without, Account
  <2> QED
    BY <1>1, <1>2, <2>1 DEF GoesOn, CountersMove
<1>6. CASE EvalFails(t) \/ Eval(t) \/ Increment(t)
  <2>1. Key(t) \in Keys
    BY <1>6, KeyOf DEF Asked, Attempting, Counting, Eval, EvalFails, Increment
  <2>2. CASE EvalFails(t) \/ Eval(t)
    <3>1. /\ memory'[a] = memory[a]
          /\ remote'[a] \in {remote[a], Incremented(remote[a], clock)}
      BY <1>1, <2>1, <2>2 DEF Eval, EvalFails, TypeOK
    <3> QED
      BY <1>1, <1>2, <3>1 DEF GoesOn, CountersMove
  <2>3. CASE Increment(t)
    <3>1. /\ remote'[a] = remote[a] /\ stage[t] = "memory"
          /\ memory'[a] \in {memory[a], Incremented(memory[a], now[t])}
      BY <1>1, <2>1, <2>3 DEF Increment, TypeOK
    <3> QED
      BY <1>1, <1>2, <3>1 DEF GoesOn, CountersMove
  <2> QED
    BY <1>6, <2>2, <2>3
<1>7. CASE ~(Delete(t) \/ Forget(t) \/ EvalFails(t) \/ Eval(t) \/ Increment(t))
  <2>1. remote' = remote /\ memory' = memory
    BY <1>7 DEF Serve, Login, Check, EvalNothing, Decide, Verify, Recheck, DeleteNothing,
       Health, Ping, Reply
  <2> QED
    BY <1>1, <1>2, <2>1 DEF GoesOn, CountersMove
<1> QED
  BY <1>4, <1>5, <1>6, <1>7

\* No ticket is given: a thread keeps its own, gives it up, or hands it in.
Kept ==
  /\ \A u \in Threads :
       ticket'[u] # None =>
         /\ ticket'[u] = ticket[u] /\ attempt'[u] = attempt[u] /\ key'[u] = key[u]
         /\ stage'[u] # "idle"
  /\ \A a \in Accounts : \A x \in admitted'[a] :
       \/ x \in admitted[a]
       \/ \E u \in Holders(a) : x = ticket[u] /\ ticket'[u] = None

LEMMA KeptHolds ==
  ASSUME TypeOK, Holding, Kept
  PROVE  /\ Holding'
         /\ \A a \in Accounts : Live(a)' \subseteq Live(a)
<1>1. ASSUME NEW a \in Accounts PROVE Holders(a)' \subseteq Holders(a)
  BY DEF Kept, Holders
<1>2. ASSUME NEW a \in Accounts PROVE Live(a)' \subseteq Live(a)
  BY <1>1 DEF Kept, Live, Holders
<1>3. ASSUME NEW u \in Threads, ticket'[u] # None
      PROVE  /\ attempt'[u] # None /\ key'[u] = 2 /\ stage'[u] # "idle"
             /\ ticket'[u] \notin admitted'[Account(u)']
             /\ \A v \in Threads \ {u} : v \in Holders(Account(u))' => ticket'[v] # ticket'[u]
  <2>1. /\ ticket'[u] = ticket[u] /\ attempt'[u] = attempt[u] /\ key'[u] = key[u]
        /\ stage'[u] # "idle" /\ Account(u)' = Account(u)
    BY <1>3 DEF Kept, Account
  <2>2. /\ attempt[u] # None /\ key[u] = 2 /\ ticket[u] \notin admitted[Account(u)]
        /\ \A v \in Threads \ {u} : v \in Holders(Account(u)) => ticket[v] # ticket[u]
    BY <1>3, <2>1 DEF Holding
  <2>3. Account(u) \in Accounts
    BY <2>2, KeyOf
  <2>4. ticket[u] \notin admitted'[Account(u)]
    <3> SUFFICES ASSUME NEW v \in Holders(Account(u)), ticket[u] = ticket[v], ticket'[v] = None
                 PROVE  FALSE
      BY <2>2, <2>3 DEF Kept
    <3>1. v \in Threads /\ v # u
      BY <1>3 DEF Holders
    <3> QED
      BY <2>2, <3>1
  <2>5. ASSUME NEW v \in Threads \ {u}, v \in Holders(Account(u))' PROVE ticket'[v] # ticket'[u]
    <3>1. v \in Holders(Account(u)) /\ ticket'[v] = ticket[v]
      BY <1>1, <2>1, <2>3, <2>5 DEF Holders, Kept
    <3> QED
      BY <2>1, <2>2, <3>1
  <2> QED
    BY <2>1, <2>2, <2>4, <2>5
<1> QED
  BY <1>2, <1>3 DEF Holding

\* The account's counter has let the attempt pass.
Issues(t) == (Eval(t) \/ Increment(t)) /\ key[t] = 1 /\ ticket' # ticket

LEMMA OthersKeep ==
  ASSUME TypeOK, Asked, Holding, NEW t \in Threads, Serve(t), ~Issues(t)
  PROVE  Kept
<1> DEFINE Alone(u) == /\ ticket'[u] = ticket[u] /\ attempt'[u] = attempt[u]
                       /\ key'[u] = key[u] /\ stage'[u] # "idle"
<1>1. ASSUME NEW u \in Threads \ {t}, ticket'[u] # None PROVE Alone(u)
  <2>1. ticket'[u] = ticket[u]
    BY <1>1 DEF TypeOK, Serve, Login, Check, EvalNothing, Eval, EvalFails, Increment, Decide,
       Verify, Recheck, DeleteNothing, Delete, Forget, Health, Ping, Reply, Counted, Clear,
       histories
  <2>2. stage[u] # "idle"
    BY <1>1, <2>1 DEF Holding
  <2> QED
    BY <2>1, <2>2, ServeAlone DEF OthersAlone
<1>2. ASSUME ticket'[t] # None PROVE Alone(t)
  <2>1. ASSUME NEW a \in Accounts, NEW ip \in Ips, Login(t, a, ip) PROVE FALSE
    <3>1. stage[t] = "idle" /\ ticket' = ticket
      BY <2>1 DEF Login, histories
    <3> QED
      BY <1>2, <3>1 DEF Holding
  <2>2. CASE Decide(t) \/ Reply(t)
    BY <1>2, <2>2 DEF TypeOK, Decide, Reply
  <2>3. CASE Check(t) \/ Verify(t) \/ Recheck(t) \/ EvalNothing(t) \/ DeleteNothing(t)
    BY <2>3 DEF TypeOK, Check, Verify, Recheck, EvalNothing, DeleteNothing, Goto, request, histories
  <2>4. CASE EvalFails(t) \/ Ping(t)
    BY <2>4 DEF TypeOK, EvalFails, Ping, Goto, request, histories
  <2>5. CASE Delete(t) \/ Forget(t)
    BY <1>2, <2>5 DEF TypeOK, Delete, Forget, Clear, Goto, request, histories
  <2>6. CASE Eval(t) \/ Increment(t)
    <3>1. ticket' = ticket /\ key[t] = 2
      <4>1. key[t] = 1 => ticket' = ticket
        BY <2>6 DEF Issues
      <4>2. key[t] # 1 => ticket' = ticket
        BY <2>6 DEF TypeOK, Eval, Increment, Counted
      <4> QED
        BY <1>2, <4>1, <4>2 DEF Holding
    <3> QED
      BY <2>6, <3>1 DEF TypeOK, Eval, Increment, Counted, Goto, request
  <2>7. CASE Health(t)
    <3>1. stage[t] = "idle" /\ ticket' = ticket
      BY <2>7 DEF Health, histories
    <3> QED
      BY <1>2, <3>1 DEF Holding
  <2> QED
    BY <2>1, <2>2, <2>3, <2>4, <2>5, <2>6, <2>7 DEF Serve
<1>3. ASSUME NEW a \in Accounts, NEW x \in admitted'[a], x \notin admitted[a]
      PROVE  \E u \in Holders(a) : x = ticket[u] /\ ticket'[u] = None
  <2>1. CASE Decide(t)
    <3>1. attempt[t] # None
      BY <2>1 DEF Asked, Attempting, Decide
    <3>2. a = Account(t) /\ x = ticket[t] /\ ticket[t] # None
      BY <1>3, <2>1 DEF TypeOK, Decide, Recent
    <3>3. ticket'[t] = None
      BY <2>1 DEF TypeOK, Decide
    <3> QED
      BY <3>1, <3>2, <3>3 DEF Holders, Account
  <2>2. CASE ~Decide(t)
    BY <1>3, <2>2 DEF TypeOK, Serve, Login, Check, EvalNothing, Eval, EvalFails, Increment,
       Verify, Recheck, DeleteNothing, Delete, Forget, Health, Ping, Reply, Clear, histories
  <2> QED
    BY <2>1, <2>2
<1> QED
  BY <1>1, <1>2, <1>3 DEF Kept

\* Account a is given a ticket by counter c, which was old until now: by Redis as
\* long as there is a client, or by memory.
GivenBy(t, a, st, old, time, c) ==
  /\ c = Incremented(old, time) /\ c.count <= Limit[a]
  /\ attempt[t] # None /\ a = Account(t)
  /\ UNCHANGED <<attempt, admitted, connected, clock>>
  /\ key' = [key EXCEPT ![t] = 2] /\ stage' = [stage EXCEPT ![t] = "check"]
  /\ ticket' = [ticket EXCEPT ![t] = Issued(c, st)]
  /\ st = "redis" => /\ connected /\ old = remote[a] /\ time = clock
                     /\ remote'[a] = c /\ memory' = memory
  /\ st = "memory" => /\ stage[t] = "memory" /\ old = memory[a]
                      /\ time = now[t] /\ memory'[a] = c

LEMMA IssuingCounter ==
  ASSUME TypeOK, Asked, NEW t \in Threads, Issues(t)
  PROVE  \E a \in Accounts, st \in {"redis", "memory"}, old \in Counter \cup {None},
            time \in Nat, c \in Counter : GivenBy(t, a, st, old, time, c)
<1>1. attempt[t] # None /\ key[t] = 1
  BY DEF Issues, Asked, Attempting, Counting, Eval, Increment
<1>2. Key(t) = Account(t) /\ Account(t) \in Accounts /\ Account(t) \in Keys
  BY <1>1, KeyOf DEF Keys
<1> DEFINE a == Account(t)
           Gives(c, st) == /\ c \in Counter /\ c.count <= Limit[a]
                           /\ key' = [key EXCEPT ![t] = 2]
                           /\ stage' = [stage EXCEPT ![t] = "check"]
                           /\ ticket' = [ticket EXCEPT ![t] = Issued(c, st)]
<1>3. ASSUME NEW c \in Counter, NEW st \in {"redis", "memory"}, Counted(t, c, st)
      PROVE  Gives(c, st)
  <2>1. ~Exceeds(a, c)
    <3> SUFFICES ASSUME Exceeds(a, c) PROVE ticket' = ticket
      BY DEF Issues
    <3>1. ticket' = [ticket EXCEPT ![t] = ticket[t]]
      BY <1>2, <1>3 DEF Counted
    <3> QED
      BY <3>1 DEF TypeOK
  <2>2. c.count <= Limit[a]
    <3>1. Limit[a] \in Nat /\ c.count \in Nat
      BY <1>2, Constants DEF Counter
    <3> QED
      BY <2>1, <3>1 DEF Exceeds
  <2>3. ticket' = [ticket EXCEPT ![t] = Issued(c, st)]
    BY <1>1, <1>2, <1>3, <2>1 DEF Counted, Issued
  <2>4. key' = [key EXCEPT ![t] = 2] /\ stage' = [stage EXCEPT ![t] = "check"]
    BY <1>1, <1>3 DEF Counted, Goto
  <2> QED
    BY <2>2, <2>3, <2>4
<1>4. CASE Eval(t)
  <2>1. remote[a] \in Counter \cup {None} /\ clock \in Nat
    BY <1>2 DEF TypeOK
  <2>2. Incremented(remote[a], clock) \in Counter
    BY <2>1, IncrementedCases
  <2>3. Gives(Incremented(remote[a], clock), "redis")
    BY <1>2, <1>3, <1>4, <2>2 DEF Eval
  <2>4. /\ connected /\ connected' = connected /\ clock' = clock /\ attempt' = attempt
        /\ admitted' = admitted /\ memory' = memory
        /\ remote'[a] = Incremented(remote[a], clock)
    BY <1>2, <1>4 DEF Eval, TypeOK, request
  <2>5. GivenBy(t, a, "redis", remote[a], clock, Incremented(remote[a], clock))
    BY <1>1, <2>3, <2>4 DEF GivenBy
  <2> QED
    BY <1>2, <2>1, <2>2, <2>5
<1>5. CASE Increment(t)
  <2>1. memory[a] \in Counter \cup {None} /\ now[t] \in Nat
    BY <1>2 DEF TypeOK
  <2>2. Incremented(memory[a], now[t]) \in Counter
    BY <2>1, IncrementedCases
  <2>3. Gives(Incremented(memory[a], now[t]), "memory")
    BY <1>2, <1>3, <1>5, <2>2 DEF Increment
  <2>4. /\ connected' = connected /\ clock' = clock /\ attempt' = attempt
        /\ admitted' = admitted /\ stage[t] = "memory"
        /\ memory'[a] = Incremented(memory[a], now[t])
    BY <1>2, <1>5 DEF Increment, TypeOK, request
  <2>5. GivenBy(t, a, "memory", memory[a], now[t], Incremented(memory[a], now[t]))
    BY <1>1, <2>3, <2>4 DEF GivenBy
  <2> QED
    BY <1>2, <2>1, <2>2, <2>5
<1> QED
  BY <1>4, <1>5 DEF Issues

LEMMA IssuingKeeps ==
  ASSUME TypeOK, Asked, Timely, Running, Holding, Tickets, NEW t \in Threads,
         Serve(t), Issues(t), NEW b \in Accounts
  PROVE  Holding' /\ AccountOK(b)'
<1>1. PICK a \in Accounts, st \in {"redis", "memory"}, old \in Counter \cup {None},
           time \in Nat, c \in Counter : GivenBy(t, a, st, old, time, c)
  BY IssuingCounter
<1>2. /\ a \in Keys /\ attempt[t] # None /\ a = Account(t)
      /\ c.count \in Nat /\ c.until \in Nat /\ clock \in Nat /\ Window \in Nat \ {0}
      /\ Patience \in Nat /\ now[t] \in Nat /\ clock' = clock
  BY <1>1, Constants DEF Keys, Counter, TypeOK, GivenBy
<1>3. PICK z \in Ticket : /\ z = Issued(c, st) /\ z # None /\ z.store = st /\ z.until = c.until
                          /\ z.nth = c.count /\ z.at = clock
  BY IssuedTicket
<1>4. /\ c = Incremented(old, time) /\ c.count <= Limit[a]
      /\ UNCHANGED <<attempt, admitted, connected, clock>>
      /\ key' = [key EXCEPT ![t] = 2] /\ stage' = [stage EXCEPT ![t] = "check"]
      /\ ticket' = [ticket EXCEPT ![t] = z]
      /\ st = "redis" => /\ connected /\ old = remote[a] /\ time = clock
                         /\ remote'[a] = c /\ memory' = memory
      /\ st = "memory" => /\ stage[t] = "memory" /\ old = memory[a]
                          /\ time = now[t] /\ memory'[a] = c
  BY <1>1, <1>3 DEF GivenBy
<1>5. Live(b)' \subseteq Live(b) \cup (IF b = a THEN {z} ELSE {})
  <2>1. ASSUME NEW u \in Holders(b)'
        PROVE  \/ u \in Holders(b) /\ ticket'[u] = ticket[u]
               \/ b = a /\ ticket'[u] = z
    BY <1>4, <1>2 DEF Holders, Account, TypeOK
  <2> QED
    BY <1>4, <2>1 DEF Live
<1>6. ASSUME NEW x \in Live(a) PROVE x \in Ticket /\ TicketOK(a, x)
  BY <1>2, LiveTickets DEF Tickets, AccountOK
\* Old tickets of the same store are of an earlier place, or an earlier window.
<1>7. ASSUME NEW x \in Live(a), x.store = st
      PROVE  IF x.until = c.until THEN x.nth < c.count ELSE x.until + Window <= c.until
  <2>1. CountedBy(x, old)
    <3>1. TicketOK(a, x)
      BY <1>6
    <3>2. CASE st = "redis"
      BY <1>4, <1>7, <3>1, <3>2 DEF TicketOK, RedisTicket
    <3>3. CASE st = "memory"
      BY <1>4, <1>7, <3>1, <3>3 DEF TicketOK, MemoryTicket
    <3> QED
      BY <3>2, <3>3
  <2> QED
    BY <1>4, <1>6, <2>1, Fresh
<1>8. z \notin Live(a)
  <2> SUFFICES ASSUME z \in Live(a) PROVE FALSE
    OBVIOUS
  <2>1. c.count < c.count
    BY <1>3, <1>7
  <2> QED
    BY <1>2, <2>1
<1>9. Holding'
  <2>1. ASSUME NEW u \in Threads, ticket'[u] # None
        PROVE  /\ attempt'[u] # None /\ key'[u] = 2 /\ stage'[u] # "idle"
               /\ ticket'[u] \notin admitted'[Account(u)']
               /\ \A v \in Threads \ {u} : v \in Holders(Account(u))' => ticket'[v] # ticket'[u]
    <3>1. Account(u)' = Account(u)
      BY <1>4 DEF Account
    <3>2. CASE u = t
      <4>1. ticket'[t] = z /\ key'[t] = 2 /\ stage'[t] = "check"
        BY <1>4 DEF TypeOK
      <4>2. ASSUME NEW v \in Threads \ {t}, v \in Holders(a)' PROVE ticket'[v] # z
        <5>1. v \in Holders(a) /\ ticket'[v] = ticket[v]
          BY <1>4, <3>1, <3>2, <4>2 DEF Holders, TypeOK
        <5> QED
          BY <1>8, <5>1 DEF Live
      <4>3. z \notin admitted[a]
        BY <1>8 DEF Live
      <4> QED
        BY <1>4, <1>2, <3>1, <3>2, <4>1, <4>2, <4>3
    <3>3. CASE u # t
      <4>1. /\ ticket'[u] = ticket[u] /\ key'[u] = key[u] /\ stage'[u] = stage[u]
        BY <1>4, <3>3 DEF TypeOK
      <4>2. /\ attempt[u] # None /\ key[u] = 2 /\ stage[u] # "idle"
            /\ ticket[u] \notin admitted[Account(u)]
            /\ \A v \in Threads \ {u} : v \in Holders(Account(u)) => ticket[v] # ticket[u]
        BY <2>1, <4>1 DEF Holding
      <4>3. ASSUME NEW v \in Threads \ {u}, v \in Holders(Account(u))' PROVE ticket'[v] # ticket[u]
        <5>1. CASE v = t
          <6>1. Account(u) = a /\ ticket'[v] = z
            BY <1>4, <1>2, <3>1, <4>3, <5>1 DEF Holders, TypeOK, Account
          <6>2. ticket[u] \in Live(a)
            BY <2>1, <4>1, <4>2, <6>1 DEF Live, Holders, Account
          <6> QED
            BY <1>8, <6>1, <6>2
        <5>2. CASE v # t
          <6>1. v \in Holders(Account(u)) /\ ticket'[v] = ticket[v]
            BY <1>4, <3>1, <4>3, <5>2 DEF Holders, TypeOK
          <6> QED
            BY <4>2, <6>1
        <5> QED
          BY <5>1, <5>2
      <4> QED
        BY <1>4, <3>1, <4>1, <4>2, <4>3
    <3> QED
      BY <3>2, <3>3
  <2> QED
    BY <2>1 DEF Holding
<1>10. CASE b # a
  <2>1. Live(b)' \subseteq Live(b) /\ AccountOK(b)
    BY <1>5, <1>10 DEF Tickets
  <2> QED
    BY <1>9, <2>1, ServeGoesOn, AccountStays
<1>11. CASE b = a
  <2>1. GoesOn(a, t) \/ Live(a)' = {}
    BY <1>2, ServeGoesOn
  <2>2. CASE Live(a)' = {}
    BY <1>9, <1>11, <2>2 DEF AccountOK
  <2>3. CASE GoesOn(a, t)
    <3>1. ASSUME NEW x \in Live(a) PROVE TicketOK(a, x)'
      BY <1>2, <1>6, <2>3, TicketStays
    <3>2. \/ /\ old = None \/ time >= old.until
             /\ c.count = 1 /\ c.until = time + Window
          \/ /\ old # None /\ time < old.until /\ old \in Counter
             /\ c.count = old.count + 1 /\ c.until = old.until
      BY <1>4, IncrementedCases
    <3>3. c # None /\ c.count <= c.count
      BY <1>2, Constants
    <3>4. old # None => old.count \in Nat \ {0} /\ old.until \in Nat
      BY <1>4 DEF Counter
    <3>5. ASSUME st = "redis" PROVE RedisTicket(a, z)'
      <4>1. /\ connected /\ connected' /\ old = remote[a] /\ time = clock
            /\ remote'[a] = c /\ memory'[a] = None
        BY <1>4, <1>2, <3>5 DEF Running
      <4>2. old # None => old.until <= clock + Window
        BY <1>2, <4>1 DEF Running
      <4>3. CountedBy(z, c)
        BY <1>3, <3>3 DEF CountedBy
      <4>4. \A u \in Threads : stage'[u] # "memory"
        <5>1. Timely'
          BY ServeTimely
        <5> QED
          BY <4>1, <5>1 DEF Timely
      <4>5. /\ z.until <= z.at + Window /\ z.at < z.until
            /\ z.nth = 1 => z.at + Window = z.until
        BY <1>2, <1>3, <3>2, <3>4, <4>1, <4>2
      <4> QED
        BY <4>1, <4>3, <4>4, <4>5 DEF RedisTicket, CountedBy
    <3>6. ASSUME st = "memory" PROVE MemoryTicket(a, z)'
      <4>1. old = memory[a] /\ time = now[t] /\ memory'[a] = c /\ stage[t] = "memory"
        BY <1>4, <3>6
      <4>2. /\ now[t] <= clock /\ clock <= now[t] + Patience
        <5>1. began[t] \in Nat /\ began[t] <= now[t] /\ now[t] <= clock /\ clock <= began[t] + Patience
          BY <4>1 DEF Timely, TypeOK
        <5> QED
          BY <1>2, <5>1
      <4>3. old # None => old.until <= clock + Window
        BY <1>2, <4>1 DEF Running
      <4>4. CountedBy(z, c)
        BY <1>3, <3>3 DEF CountedBy
      <4>5. /\ z.until <= z.at + Window /\ z.at < z.until + Patience
            /\ z.nth = 1 => z.at + Window <= z.until + Patience
        BY <1>2, <1>3, <3>2, <3>4, <4>1, <4>2, <4>3
      <4> QED
        BY <4>1, <4>4, <4>5 DEF MemoryTicket, CountedBy
    <3>7. TicketOK(a, z)'
      <4>1. z.nth <= Limit[a] /\ z.at <= clock'
        BY <1>4, <1>2, <1>3
      <4> QED
        BY <1>3, <3>5, <3>6, <4>1 DEF TicketOK
    <3>8. ASSUME NEW x \in Live(a) PROVE Apart(x, z) /\ Apart(z, x)
      <4>1. /\ x \in Ticket /\ TicketOK(a, x) /\ x.until \in Nat /\ x.nth \in Nat /\ x.at \in Nat
        BY <1>6 DEF Ticket
      <4>2. x.store = z.store =>
              IF x.until = z.until THEN x.nth < z.nth ELSE x.until + Window <= z.until
        BY <1>3, <1>7
      <4>3. x.store = "redis" /\ z.store = "memory" => x.at + Window <= z.until
        BY <1>4, <1>3, <3>1, <3>3 DEF TicketOK, RedisTicket
      <4>4. ~(z.store = "redis" /\ x.store = "memory")
        BY <1>4, <1>2, <1>3, <4>1 DEF TicketOK, MemoryTicket, CountedBy, Running
      <4> QED
        BY <1>2, <1>3, <4>1, <4>2, <4>3, <4>4 DEF Apart
    <3>9. Apart(z, z)
      BY <1>2, <1>3 DEF Apart
    <3>10. \A x \in Live(a)' : x \in Live(a) \/ x = z
      BY <1>5, <1>11
    <3>11. \A x, y \in Live(a)' : Apart(x, y)
      BY <1>2, <3>8, <3>9, <3>10 DEF Tickets, AccountOK
    <3>12. \A x \in Live(a)' : TicketOK(a, x)'
      BY <3>1, <3>7, <3>10
    <3> QED
      BY <1>9, <1>11, <3>11, <3>12 DEF AccountOK, Apart
  <2> QED
    BY <2>1, <2>2, <2>3
<1> QED
  BY <1>9, <1>10, <1>11
-----------------------------------------------------------------------------
(* The invariant                                                           *)

\* Time passes, or nothing does.
LEMMA TicketsRest ==
  ASSUME TypeOK, Holding, Tickets, clock' \in Nat, clock <= clock',
         UNCHANGED <<remote, memory, connected, stage, attempt, key, now, ticket, admitted>>
  PROVE  Holding' /\ Tickets'
<1>1. Holding'
  BY DEF Holding, Holders, Account
<1>2. \A a \in Accounts : Live(a)' = Live(a)
  BY DEF Live, Holders
<1>3. ASSUME NEW a \in Accounts, NEW x \in Live(a) PROVE TicketOK(a, x)'
  <2>1. x \in Ticket /\ x.at \in Nat /\ clock \in Nat
    BY <1>3, LiveTickets DEF Ticket, TypeOK
  <2>2. TicketOK(a, x)
    BY <1>3 DEF Tickets, AccountOK
  <2> QED
    BY <2>1, <2>2 DEF TicketOK, RedisTicket, MemoryTicket, CountedBy
<1>4. Tickets'
  BY <1>2, <1>3 DEF Tickets, AccountOK, Apart
<1> QED
  BY <1>1, <1>4

LEMMA NextTickets ==
  ASSUME IInv, [Next]_vars
  PROVE  Holding' /\ Tickets'
<1>1. CASE UNCHANGED vars
  BY <1>1, TicketsRest DEF IInv, TypeOK, vars
<1>2. CASE Outage
  BY <1>2, TicketsRest DEF IInv, TypeOK, Outage, histories
<1>3. CASE Tick
  <2>1. clock' \in Nat /\ clock <= clock'
    BY <1>3 DEF IInv, TypeOK, Tick
  <2> QED
    BY <1>3, <2>1, TicketsRest DEF IInv, Tick, histories
<1>4. ASSUME NEW t \in Threads, Serve(t) PROVE Holding' /\ Tickets'
  <2>1. CASE Issues(t)
    <3>1. ASSUME NEW a \in Accounts PROVE Holding' /\ AccountOK(a)'
      BY <1>4, <2>1, <3>1, IssuingKeeps DEF IInv
    <3>2. Accounts # {}
      BY <2>1, IssuingCounter DEF IInv
    <3> QED
      BY <3>1, <3>2 DEF Tickets
  <2>2. CASE ~Issues(t)
    <3>1. Holding' /\ \A a \in Accounts : Live(a)' \subseteq Live(a)
      BY <1>4, <2>2, OthersKeep, KeptHolds DEF IInv
    <3>2. ASSUME NEW a \in Accounts PROVE AccountOK(a)'
      <4>1. GoesOn(a, t) \/ Live(a)' = {}
        BY <1>4, ServeGoesOn DEF IInv
      <4>2. AccountOK(a) /\ Live(a)' \subseteq Live(a)
        BY <3>1 DEF IInv, Tickets
      <4> QED
        BY <4>1, <4>2, AccountStays DEF IInv
    <3> QED
      BY <3>1, <3>2 DEF Tickets
  <2> QED
    BY <2>1, <2>2
<1> QED
  BY <1>1, <1>2, <1>3, <1>4 DEF Next

LEMMA InitInvariant == Init => IInv
<1> SUFFICES ASSUME Init PROVE IInv
  OBVIOUS
<1>1. TypeOK
  BY Constants DEF Init, TypeOK, Stages
<1>2. Asked /\ Timely /\ Running /\ Refusing /\ Holding
  BY DEF Init, Asked, Attempting, Counting, Resetting, Timely, Running, Refusing, Holding
<1>3. \A a \in Accounts : Live(a) = {}
  BY DEF Init, Live, Holders
<1>4. Tickets
  BY <1>3 DEF Tickets, AccountOK
<1> QED
  BY <1>1, <1>2, <1>4 DEF IInv

LEMMA NextKeeps == IInv /\ [Next]_vars => IInv'
<1> SUFFICES ASSUME IInv, [Next]_vars PROVE IInv'
  OBVIOUS
<1>1. TypeOK' /\ Asked' /\ Timely'
  BY NextTypes, NextTimely DEF IInv
<1>2. Running' /\ Refusing'
  BY NextCounters DEF IInv
<1>3. Holding' /\ Tickets'
  BY NextTickets
<1> QED
  BY <1>1, <1>2, <1>3 DEF IInv

\* The invariant that the theorems below rest on, with the two halves of its
\* induction above.
THEOREM Invariance == Spec => []IInv
BY InitInvariant, NextKeeps, PTL DEF Spec

\* However the threads interleave, with Redis up, down or late, every counter,
\* stage and history is what the code can make of it.
THEOREM TypeCorrect == Spec => []TypeOK
<1>1. IInv => TypeOK
  BY DEF IInv
<1> QED
  BY <1>1, Invariance, PTL
-----------------------------------------------------------------------------
(* Lockout                                                                 *)

\* A thread that is counted, and refused, is refused within the window of the
\* series, or waited for the lock with a time that was.
LEMMA RefusalInWindow ==
  ASSUME IInv, NEW t \in Threads, Eval(t) \/ Increment(t), blocked'[Key(t)] # None
  PROVE  clock - blocked'[Key(t)] < Window + Patience
<1>1. attempt[t] # None
  BY DEF IInv, Asked, Attempting, Counting, Eval, Increment
<1> DEFINE k == Key(t)
<1>2. k \in Keys
  BY <1>1, KeyOf DEF IInv
<1>3. /\ clock \in Nat /\ Window \in Nat \ {0} /\ Patience \in Nat /\ now[t] \in Nat
      /\ remote[k] \in Counter \cup {None} /\ memory[k] \in Counter \cup {None}
      /\ blocked[k] \in Nat \cup {None} /\ began[t] \in Nat
  BY <1>2, Constants DEF IInv, TypeOK
<1>4. CASE Eval(t)
  <2>1. PICK c : c = Incremented(remote[k], clock) /\ Counted(t, c, "redis") /\ connected
    BY <1>4 DEF Eval
  <2>2. Exceeds(k, c) /\ blocked'[k] = IF blocked[k] = None THEN clock ELSE blocked[k]
    BY <1>1, <1>2, <2>1, CountedBlocked DEF IInv
  <2>3. remote[k] # None /\ clock < remote[k].until /\ remote[k].until \in Nat
    BY <1>2, <1>3, <2>1, <2>2, ExceedingWasThere DEF Counter
  <2>4. blocked[k] # None => remote[k].until <= blocked[k] + Window
    BY <1>2, <2>1 DEF IInv, Refusing
  <2> QED
    BY <1>3, <2>2, <2>3, <2>4
<1>5. CASE Increment(t)
  <2>1. PICK c : c = Incremented(memory[k], now[t]) /\ Counted(t, c, "memory")
    BY <1>5 DEF Increment
  <2>2. Exceeds(k, c) /\ blocked'[k] = IF blocked[k] = None THEN clock ELSE blocked[k]
    BY <1>1, <1>2, <2>1, CountedBlocked DEF IInv
  <2>3. memory[k] # None /\ now[t] < memory[k].until /\ memory[k].until \in Nat
    BY <1>2, <1>3, <2>1, <2>2, ExceedingWasThere DEF Counter
  <2>4. blocked[k] # None => memory[k].until <= blocked[k] + Window
    BY <1>2, <2>3 DEF IInv, Refusing
  <2>5. began[t] <= now[t] /\ clock <= began[t] + Patience
    BY <1>5 DEF IInv, Timely, Increment
  <2> QED
    BY <1>3, <2>2, <2>3, <2>4, <2>5
<1> QED
  BY <1>4, <1>5

\* A key that is over its limit is let go when the window ends in which its
\* series of refusals began, with Redis or without it.
THEOREM LockoutEnds == Spec => LockoutBounded
<1> DEFINE A == \A t \in Threads :
                  /\ stage[t] \in {"eval", "memory"}
                  /\ stage'[t] \in {"check", "decide"}
                  /\ blocked'[Key(t)] # None
                  => clock - blocked'[Key(t)] < Window + Patience
<1>1. IInv /\ [Next]_vars => [A]_vars
  <2> SUFFICES ASSUME IInv, Next, NEW t \in Threads, stage[t] \in {"eval", "memory"},
                      stage'[t] \in {"check", "decide"}, blocked'[Key(t)] # None
               PROVE  clock - blocked'[Key(t)] < Window + Patience
    OBVIOUS
  <2>1. stage'[t] # stage[t]
    OBVIOUS
  <2>2. Serve(t)
    <3>1. PICK u \in Threads : Serve(u)
      BY <2>1 DEF Next, Outage, Tick
    <3> QED
      BY <2>1, <3>1, ServeAlone DEF OthersAlone, IInv
  <2>3. Eval(t) \/ Increment(t)
    BY <2>2 DEF IInv, TypeOK, Serve, Login, Check, EvalNothing, EvalFails, Decide, Verify,
       Recheck, DeleteNothing, Delete, Forget, Health, Ping, Reply, Goto, Replies
  <2> QED
    BY <2>3, RefusalInWindow
<1> QED
  BY <1>1, Invariance, PTL DEF LockoutBounded, Spec
-----------------------------------------------------------------------------
(* Admissions                                                              *)

\* Tickets that fit in the places of three windows, the first place of the first
\* being free, are fewer than three limits.
LEMMA ThreeWindows ==
  ASSUME NEW R \in SUBSET Ticket, NEW L \in Nat \ {0}, NEW slot \in [R -> 1 .. 3],
         \A x \in R : x.nth <= L,
         \A x \in R : slot[x] = 1 => x.nth # 1,
         \A x, y \in R : slot[x] = slot[y] /\ x.nth = y.nth => x = y
  PROVE  IsFiniteSet(R) /\ Cardinality(R) < 3 * L
<1> DEFINE Places == (1 .. 3) \X (1 .. L)
           Taken == Places \ {<<1, 1>>}
           f == [x \in R |-> <<slot[x], x.nth>>]
<1>1. IsFiniteSet(Places) /\ Cardinality(Places) = 3 * L
  <2>1. /\ IsFiniteSet(1 .. 3) /\ Cardinality(1 .. 3) = 3
        /\ IsFiniteSet(1 .. L) /\ Cardinality(1 .. L) = L
    <3>1. L \in Int /\ ~(1 > L) /\ L - 1 + 1 = L
      OBVIOUS
    <3>2. IsFiniteSet(1 .. L) /\ Cardinality(1 .. L) = L
      BY <3>1, FS_Interval
    <3>3. IsFiniteSet(1 .. 3) /\ Cardinality(1 .. 3) = IF 1 > 3 THEN 0 ELSE 3 - 1 + 1
      BY 1 \in Int, 3 \in Int, FS_Interval, Zenon
    <3> QED
      BY <3>2, <3>3
  <2> QED
    BY <2>1, FS_Product
<1>2. IsFiniteSet(Taken) /\ Cardinality(Taken) = 3 * L - 1
  <2>1. <<1, 1>> \in Places
    OBVIOUS
  <2> HIDE DEF Places
  <2> QED
    BY <1>1, <2>1, FS_RemoveElement
<1>3. f \in [R -> Taken]
  <2> SUFFICES ASSUME NEW x \in R PROVE <<slot[x], x.nth>> \in Taken
    OBVIOUS
  <2>1. x.nth \in 1 .. L
    BY DEF Ticket
  <2>2. <<slot[x], x.nth>> \in Places
    BY <2>1
  <2>3. <<slot[x], x.nth>> # <<1, 1>>
    OBVIOUS
  <2> QED
    BY <2>2, <2>3
<1>4. f \in Injection(R, Taken)
  <2>1. ASSUME NEW x \in R, NEW y \in R, f[x] = f[y] PROVE x = y
    <3>1. slot[x] = slot[y] /\ x.nth = y.nth
      BY <2>1
    <3> QED
      BY <3>1
  <2> QED
    BY <1>3, <2>1 DEF Injection, IsInjective
<1>5. IsFiniteSet(R) /\ Cardinality(R) <= 3 * L - 1
  <2> HIDE DEF f, Taken
  <2> QED
    BY <1>2, <1>4, FS_Injection
<1> QED
  BY <1>5, FS_CardinalityType

\* The first of the three is the window that was left when the period began, the
\* last is memory's, if there is a ticket of Redis, and the one that is open.
Nth(a, x) ==
  IF \E y \in Recent(Live(a)) : y.store = "redis"
    THEN IF x.store = "memory" THEN 3 ELSE IF x.until <= clock THEN 1 ELSE 2
    ELSE IF x.until <= clock - Window THEN 1 ELSE IF x.until <= clock THEN 2 ELSE 3

LEMMA RecentTickets ==
  ASSUME IInv, NEW a \in Accounts
  PROVE  IsFiniteSet(Recent(Live(a))) /\ Cardinality(Recent(Live(a))) < 3 * Limit[a]
<1> DEFINE R == Recent(Live(a))
           slot == [x \in R |-> Nth(a, x)]
<1>1. /\ clock \in Nat /\ Window \in Nat \ {0} /\ Patience \in Nat /\ Patience <= Window
      /\ Limit[a] \in Nat \ {0} /\ a \in Keys
  BY Constants DEF IInv, TypeOK, Keys
<1>2. ASSUME NEW x \in R
      PROVE  /\ x \in Ticket /\ x.store \in {"redis", "memory"} /\ TicketOK(a, x)
             /\ x.until \in Nat /\ x.at \in Nat /\ x.nth \in Nat \ {0}
             /\ clock - x.at < Window /\ x.at <= clock /\ x.nth <= Limit[a]
             /\ x.until <= x.at + Window
             /\ x.store = "redis" => x.at < x.until /\ (x.nth = 1 => x.at + Window = x.until)
             /\ x.store = "memory" => /\ x.at < x.until + Patience
                                      /\ x.nth = 1 => x.at + Window <= x.until + Patience
  <2>1. x \in Live(a) /\ x \in Ticket /\ clock - x.at < Window
    BY LiveTickets DEF IInv, Recent
  <2>2. TicketOK(a, x)
    BY <2>1 DEF IInv, Tickets, AccountOK
  <2>3. /\ x.store \in {"redis", "memory"} /\ x.until \in Nat /\ x.at \in Nat
        /\ x.nth \in Nat \ {0}
    BY <2>1 DEF Ticket
  <2> QED
    BY <2>1, <2>2, <2>3 DEF TicketOK, RedisTicket, MemoryTicket
<1>3. ASSUME NEW x \in R, NEW y \in R PROVE Apart(x, y)
  BY DEF IInv, Tickets, AccountOK, Recent
<1>4. slot \in [R -> 1 .. 3]
  BY DEF Nth
<1>5. ASSUME NEW x \in R, slot[x] = 1 PROVE x.nth # 1
  <2>1. CASE \E y \in R : y.store = "redis"
    <3>1. x.store = "redis" /\ x.until <= clock
      BY <1>2, <1>5, <2>1 DEF Nth
    <3> QED
      BY <1>1, <1>2, <3>1
  <2>2. CASE ~\E y \in R : y.store = "redis"
    <3>1. x.store = "memory" /\ x.until <= clock - Window
      BY <1>2, <1>5, <2>2 DEF Nth
    <3>2. ASSUME x.at + Window <= x.until + Patience PROVE FALSE
      <4>1. x.at \in Nat /\ x.until \in Nat /\ clock - x.at < Window
        BY <1>2
      <4> QED
        BY <1>1, <3>1, <3>2, <4>1
    <3> QED
      BY <1>1, <1>2, <3>1, <3>2
  <2> QED
    BY <2>1, <2>2
<1>6. ASSUME NEW x \in R, NEW y \in R, slot[x] = slot[y]
      PROVE  x.store = y.store /\ x.until = y.until
  <2>1. CASE \E z \in R : z.store = "redis"
    <3>1. PICK z \in R : z.store = "redis"
      BY <2>1
    <3>2. x.store = y.store
      BY <1>2, <1>6, <2>1 DEF Nth
    <3>3. CASE x.store = "memory"
      <4>1. z.at + Window <= x.until /\ z.at + Window <= y.until
        BY <1>3, <3>1, <3>2, <3>3 DEF Apart
      <4>2. clock < x.until /\ clock < y.until
        BY <1>1, <1>2, <4>1
      <4>3. ~(x.until < y.until) /\ ~(y.until < x.until)
        BY <1>1, <1>2, <1>3, <3>2, <4>2 DEF Apart
      <4> QED
        BY <1>2, <3>2, <4>3
    <3>4. CASE x.store = "redis"
      <4>1. x.until <= clock <=> y.until <= clock
        BY <1>6, <2>1, <3>2, <3>4 DEF Nth
      <4>2. clock - Window < x.until /\ clock - Window < y.until
        <5>1. /\ x.at \in Nat /\ x.until \in Nat /\ x.at < x.until /\ clock - x.at < Window
              /\ y.at \in Nat /\ y.until \in Nat /\ y.at < y.until /\ clock - y.at < Window
          BY <1>2, <3>2, <3>4
        <5> QED
          BY <1>1, <5>1
      <4>3. ~(x.until < y.until) /\ ~(y.until < x.until)
        BY <1>1, <1>2, <1>3, <3>2, <4>1, <4>2 DEF Apart
      <4> QED
        BY <1>2, <3>2, <4>3
    <3> QED
      BY <1>2, <3>3, <3>4
  <2>2. CASE ~\E z \in R : z.store = "redis"
    <3>1. x.store = "memory" /\ y.store = "memory"
      BY <1>2, <2>2
    <3>2. /\ x.until <= clock - Window <=> y.until <= clock - Window
          /\ x.until <= clock <=> y.until <= clock
      BY <1>1, <1>2, <1>6, <2>2 DEF Nth
    <3>3. ~(x.until < y.until) /\ ~(y.until < x.until)
      <4>1. /\ x.until < y.until => x.until + Window <= y.until
            /\ y.until < x.until => y.until + Window <= x.until
        BY <1>3, <3>1 DEF Apart
      <4>2. /\ clock - Window < x.until + Patience /\ clock - Window < y.until + Patience
            /\ x.until <= clock + Window /\ y.until <= clock + Window
        <5>1. /\ x.at \in Nat /\ x.until \in Nat /\ clock - x.at < Window /\ x.at <= clock
              /\ x.at < x.until + Patience /\ x.until <= x.at + Window
              /\ y.at \in Nat /\ y.until \in Nat /\ clock - y.at < Window /\ y.at <= clock
              /\ y.at < y.until + Patience /\ y.until <= y.at + Window
          BY <1>1, <1>2, <3>1
        <5> QED
          BY <1>1, <5>1
      <4> QED
        BY <1>1, <1>2, <3>2, <4>1, <4>2
    <3> QED
      BY <1>2, <3>1, <3>3
  <2> QED
    BY <2>1, <2>2
<1>7. ASSUME NEW x \in R, NEW y \in R, slot[x] = slot[y], x.nth = y.nth PROVE x = y
  BY <1>3, <1>6, <1>7 DEF Apart
<1>8. R \in SUBSET Ticket /\ \A x \in R : x.nth <= Limit[a]
  BY <1>2
<1> HIDE DEF R, slot
<1>9. IsFiniteSet(R) /\ Cardinality(R) < 3 * Limit[a]
  BY <1>1, <1>4, <1>5, <1>7, <1>8, ThreeWindows
<1> QED
  BY <1>9 DEF R

\* No two attempts have one ticket, so that a set of tickets counts attempts; a
\* ticket is within its limit, and windows of one store are a whole window apart.
THEOREM TicketsAreAttempts == Spec => [](Holding /\ Tickets)
<1>1. IInv => Holding /\ Tickets
  BY DEF IInv
<1> QED
  BY <1>1, Invariance, PTL

\* However the threads interleave, and whenever Redis fails, fewer attempts on an
\* account than three windows have get to the password within a window.
THEOREM AdmissionsStayBounded == Spec => []AdmissionsBounded
<1>1. IInv => AdmissionsBounded
  <2> SUFFICES ASSUME IInv, NEW a \in Accounts
               PROVE  Cardinality(Recent(admitted[a])) < 3 * Limit[a]
    BY DEF AdmissionsBounded
  <2>1. Recent(admitted[a]) \in SUBSET Recent(Live(a))
    BY DEF Recent, Live
  <2>2. IsFiniteSet(Recent(Live(a))) /\ Cardinality(Recent(Live(a))) < 3 * Limit[a]
    BY RecentTickets
  <2>3. /\ Cardinality(Recent(admitted[a])) <= Cardinality(Recent(Live(a)))
        /\ Cardinality(Recent(admitted[a])) \in Nat /\ Cardinality(Recent(Live(a))) \in Nat
    BY <2>1, <2>2, FS_Subset, FS_CardinalityType
  <2>4. Limit[a] \in Nat
    BY Constants DEF Keys
  <2> QED
    BY <2>2, <2>3, <2>4
<1> QED
  BY <1>1, Invariance, PTL
==============================================================================
