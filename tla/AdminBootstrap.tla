---------------------------- MODULE AdminBootstrap ----------------------------
(***************************************************************************)
(* The users table and the three operations that change it: POST           *)
(* /auth/register, the bootstrap_admin command and the reset_admin_password*)
(* command.  On PostgreSQL each begins with the same transaction-level     *)
(* advisory lock, which lasts until its transaction is committed, rolled   *)
(* back or its connection dies.  Everything else runs at READ COMMITTED.   *)
(***************************************************************************)
EXTENDS FiniteSets

CONSTANTS
  Sessions,
  Emails,        \* in lower case, as every operation makes them
  Passwords,
  Refused,       \* passwords UserCreate does not accept
  OpenAtFirst,   \* settings.allow_initial_registration
  None

ASSUME BootstrapAssumption ==
  /\ Refused \subseteq Passwords
  /\ OpenAtFirst \in BOOLEAN
  /\ None \notin Sessions \cup Emails \cup Passwords

Kinds == {"register", "bootstrap", "reset"}

Request == [kind : Kinds, email : Emails, password : Passwords]

VARIABLES
  users,  \* the table: Emails -> password or None; every user is an active admin
  lock,   \* the session that holds pg_advisory_xact_lock(831746291)
  stage,
  ask     \* what each session was asked

vars == <<users, lock, stage, ask>>

Waiting == {"lock", "look", "write"}
Outcomes == {"done", "refused", "error"}

TypeOK ==
  /\ users \in [Emails -> Passwords \cup {None}]
  /\ lock \in Sessions \cup {None}
  /\ stage \in [Sessions -> {"idle"} \cup Waiting \cup Outcomes]
  /\ ask \in [Sessions -> Request \cup {None}]

Init ==
  /\ users = [e \in Emails |-> None]
  /\ lock = None
  /\ stage = [s \in Sessions |-> "idle"]
  /\ ask = [s \in Sessions |-> None]
-----------------------------------------------------------------------------
Goto(s, st) == stage' = [stage EXCEPT ![s] = st]

NobodyYet == \A e \in Emails : users[e] = None

\* The end of a transaction releases the lock.
Release(s) == lock' = IF lock = s THEN None ELSE lock

\* A register request with a refused password does not get here (422).
Begin(s, r) ==
  /\ stage[s] = "idle"
  /\ r.kind = "register" => r.password \notin Refused
  /\ ask' = [ask EXCEPT ![s] = r]
  /\ Goto(s, "lock")
  /\ UNCHANGED <<users, lock>>

\* Mutant: the lock is not taken.
LockNothing(s) ==
  /\ stage[s] = "lock"
  /\ Goto(s, "look")
  /\ UNCHANGED <<users, lock, ask>>

Lock(s) ==
  /\ stage[s] = "lock"
  /\ lock = None
  /\ lock' = s
  /\ Goto(s, "look")
  /\ UNCHANGED <<users, ask>>

\* Mutant: the password is not validated.
MayBootstrapUnchecked(s) ==
  /\ NobodyYet
  /\ \/ ask[s].kind = "register" /\ OpenAtFirst
     \/ ask[s].kind = "bootstrap"

\* The checks register and bootstrap_admin make before they insert.
MayBootstrap(s) ==
  /\ NobodyYet
  /\ \/ ask[s].kind = "register" /\ OpenAtFirst
     \/ ask[s].kind = "bootstrap" /\ ask[s].password \notin Refused

\* reset_admin_password validates first and then looks for the account.
MayReset(s) ==
  /\ ask[s].kind = "reset"
  /\ ask[s].password \notin Refused
  /\ users[ask[s].email] # None

Look(s) ==
  /\ stage[s] = "look"
  /\ Goto(s, IF MayBootstrap(s) \/ MayReset(s) THEN "write" ELSE "refused")
  /\ UNCHANGED <<users, lock, ask>>

\* INSERT and COMMIT; the email is unique.
Insert(s) ==
  /\ stage[s] = "write"
  /\ ask[s].kind # "reset"
  /\ users[ask[s].email] = None
  /\ users' = [users EXCEPT ![ask[s].email] = ask[s].password]
  /\ Goto(s, "done")
  /\ Release(s)
  /\ UNCHANGED ask

\* UPDATE of password_hash and COMMIT: nothing deletes users.
Reset(s) ==
  /\ stage[s] = "write"
  /\ ask[s].kind = "reset"
  /\ users' = [users EXCEPT ![ask[s].email] = ask[s].password]
  /\ Goto(s, "done")
  /\ Release(s)
  /\ UNCHANGED ask

\* The statement or the COMMIT fails, or the connection dies.
Break(s) ==
  /\ stage[s] \in Waiting
  /\ Goto(s, "error")
  /\ Release(s)
  /\ UNCHANGED <<users, ask>>

\* Mutant: a refused request keeps its transaction open.
FinishOpen(s) ==
  /\ stage[s] \in Outcomes
  /\ Goto(s, "idle")
  /\ ask' = [ask EXCEPT ![s] = None]
  /\ UNCHANGED <<users, lock>>

\* The answer is given and the session closed, which rolls back.
Finish(s) ==
  /\ stage[s] \in Outcomes
  /\ Goto(s, "idle")
  /\ ask' = [ask EXCEPT ![s] = None]
  /\ Release(s)
  /\ UNCHANGED users

Work(s) == Look(s) \/ Insert(s) \/ Reset(s) \/ Finish(s)

Next == \E s \in Sessions :
  \/ \E r \in Request : Begin(s, r)
  \/ Lock(s)
  \/ Work(s)
  \/ Break(s)

Spec == Init /\ [][Next]_vars

\* A session that works goes on; PostgreSQL queues those that wait for a lock.
Fairness == \A s \in Sessions : WF_vars(Work(s)) /\ SF_vars(Lock(s))

FairSpec == Spec /\ Fairness
-----------------------------------------------------------------------------
(* Properties *)

\* However many registrations and bootstrap commands race in an empty system,
\* one of them at most creates the administrator, and there is never another.
OneAdministrator ==
  \A e, f \in Emails : users[e] # None /\ users[f] # None => e = f

\* The password of an account is never one that validation refuses, and it
\* changes by a reset of that account only: a bootstrap that comes late does
\* not take the account over.
OnlyResetChangesPassword ==
  [][\A e \in Emails :
       users'[e] # users[e] =>
         /\ users'[e] \notin Refused \cup {None}
         /\ users[e] # None =>
              \E s \in Sessions : /\ stage[s] = "write"
                                  /\ ask[s].kind = "reset"
                                  /\ ask[s].email = e]_vars

\* Everybody who waits for the lock is served in the end.
LockServed == \A s \in Sessions : stage[s] = "lock" ~> stage[s] # "lock"
=============================================================================
