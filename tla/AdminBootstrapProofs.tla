------------------------- MODULE AdminBootstrapProofs -------------------------
(***************************************************************************)
(* Proofs about AdminBootstrap, for any number of sessions and emails.     *)
(***************************************************************************)
EXTENDS AdminBootstrap, TLAPS

\* A session past the lock holds it; one about to insert has an empty table
\* and a password that was accepted, one about to reset has an account.
LockHeld == \A s \in Sessions : stage[s] \in {"look", "write"} => lock = s

WriteReady == \A s \in Sessions :
  stage[s] = "write" =>
    /\ ask[s] \in Request
    /\ ask[s].password \notin Refused
    /\ ask[s].kind # "reset" => NobodyYet
    /\ ask[s].kind = "reset" => users[ask[s].email] # None

Asked == \A s \in Sessions :
  stage[s] \in Waiting =>
    /\ ask[s] \in Request
    /\ ask[s].kind = "register" => ask[s].password \notin Refused

\* The inductive invariant.
IInv == TypeOK /\ LockHeld /\ Asked /\ WriteReady /\ OneAdministrator

LEMMA InitInvariant == Init => IInv
BY DEF Init, IInv, TypeOK, LockHeld, WriteReady, Asked, OneAdministrator, Waiting

LEMMA NobodyIsNone == None \notin Passwords
BY BootstrapAssumption

\* A step that leaves the table alone and lets go of the lock, if anything.
LEMMA LeaveKeeps ==
  ASSUME IInv, NEW s \in Sessions, Release(s), UNCHANGED users,
         NEW st \in {"idle"} \cup Outcomes, Goto(s, st),
         NEW a \in Request \cup {None}, ask' = [ask EXCEPT ![s] = a]
  PROVE  IInv'
<1>1. TypeOK'
  BY DEF IInv, TypeOK, Release, Goto
<1>2. \A t \in Sessions : /\ t = s => stage'[t] = st
                          /\ t # s => stage'[t] = stage[t] /\ ask'[t] = ask[t]
  BY DEF IInv, TypeOK, Goto
<1>3. st \notin Waiting /\ st \notin {"look", "write"}
  BY DEF Outcomes, Waiting
<1>4. LockHeld'
  BY <1>2, <1>3 DEF IInv, LockHeld, Release
<1>5. Asked' /\ WriteReady' /\ OneAdministrator'
  BY <1>2, <1>3 DEF IInv, Asked, WriteReady, OneAdministrator, NobodyYet
<1> QED
  BY <1>1, <1>4, <1>5 DEF IInv

LEMMA BeginKeeps ==
  ASSUME IInv, NEW s \in Sessions, NEW r \in Request, Begin(s, r)
  PROVE  IInv'
<1>1. TypeOK'
  BY DEF IInv, TypeOK, Begin, Goto, Waiting
<1>2. \A t \in Sessions : /\ t = s => stage'[t] = "lock" /\ ask'[t] = r
                          /\ t # s => stage'[t] = stage[t] /\ ask'[t] = ask[t]
  BY DEF IInv, TypeOK, Begin, Goto
<1> QED
  BY <1>1, <1>2 DEF IInv, LockHeld, Asked, WriteReady, OneAdministrator, NobodyYet, Begin

LEMMA LockKeeps ==
  ASSUME IInv, NEW s \in Sessions, Lock(s)
  PROVE  IInv'
<1>1. TypeOK'
  BY DEF IInv, TypeOK, Lock, Goto, Waiting
<1>2. \A t \in Sessions : /\ t = s => stage'[t] = "look"
                          /\ t # s => stage'[t] = stage[t]
  BY DEF IInv, TypeOK, Lock, Goto
<1>3. \A t \in Sessions : stage[t] \notin {"look", "write"}
  BY BootstrapAssumption DEF IInv, LockHeld, Lock
<1>4. LockHeld'
  BY <1>2, <1>3 DEF Lock, LockHeld
<1>5. Asked' /\ WriteReady' /\ OneAdministrator'
  BY <1>2, <1>3 DEF IInv, Asked, WriteReady, OneAdministrator, NobodyYet, Lock, Waiting
<1> QED
  BY <1>1, <1>4, <1>5 DEF IInv

LEMMA LookKeeps ==
  ASSUME IInv, NEW s \in Sessions, Look(s)
  PROVE  IInv'
<1>1. TypeOK'
  BY DEF IInv, TypeOK, Look, Goto, Waiting, Outcomes
<1>2. \A t \in Sessions : t # s => stage'[t] = stage[t]
  BY DEF IInv, TypeOK, Look, Goto
<1>3. /\ stage'[s] \in {"write", "refused"}
      /\ stage'[s] = "write" => MayBootstrap(s) \/ MayReset(s)
  BY DEF IInv, TypeOK, Look, Goto
<1>4. /\ ask[s] \in Request
      /\ ask[s].kind = "register" => ask[s].password \notin Refused
  BY DEF IInv, Asked, Look, Waiting
<1>5. Asked'
  BY <1>2, <1>4 DEF IInv, Asked, Look
<1>6. WriteReady'
  <2> SUFFICES ASSUME NEW t \in Sessions, stage'[t] = "write"
               PROVE  /\ ask[t] \in Request
                      /\ ask[t].password \notin Refused
                      /\ ask[t].kind # "reset" => NobodyYet
                      /\ ask[t].kind = "reset" => users[ask[t].email] # None
    BY DEF WriteReady, NobodyYet, Look
  <2>1. CASE t # s
    BY <1>2, <2>1 DEF IInv, WriteReady
  <2>2. CASE t = s
    <3>1. CASE MayReset(s)
      BY <1>4, <2>2, <3>1 DEF MayReset
    <3>2. CASE MayBootstrap(s)
      <4>1. ask[s].kind = "register" => ask[s].password \notin Refused
        BY DEF IInv, Asked, Look, Waiting
      <4> QED
        BY <1>4, <2>2, <3>2, <4>1 DEF MayBootstrap
    <3> QED
      BY <1>3, <2>2, <3>1, <3>2
  <2> QED
    BY <2>1, <2>2
<1> QED
  BY <1>1, <1>2, <1>3, <1>5, <1>6 DEF IInv, LockHeld, OneAdministrator, Look

\* The writer holds the lock, so nobody else is past it.
LEMMA WriterAlone ==
  ASSUME IInv, NEW s \in Sessions, stage[s] = "write",
         NEW t \in Sessions, t # s
  PROVE  stage[t] \notin {"look", "write"}
BY DEF IInv, LockHeld

\* The commit of an INSERT or an UPDATE.
LEMMA WriteKeeps ==
  ASSUME IInv, NEW s \in Sessions, Insert(s) \/ Reset(s)
  PROVE  IInv'
<1> DEFINE e == ask[s].email
<1> DEFINE p == ask[s].password
<1>1. /\ stage[s] = "write"
      /\ users' = [users EXCEPT ![e] = p]
      /\ stage' = [stage EXCEPT ![s] = "done"]
      /\ Release(s)
      /\ ask' = ask
  BY DEF Insert, Reset, Goto
<1>2. e \in Emails /\ p \in Passwords
  BY <1>1 DEF IInv, WriteReady, Request
<1>3. TypeOK'
  BY <1>1, <1>2 DEF IInv, TypeOK, Release, Outcomes
<1>4. \A t \in Sessions : t # s => stage'[t] = stage[t] /\ stage[t] \notin {"look", "write"}
  BY <1>1, WriterAlone DEF IInv, TypeOK
<1>5. stage'[s] = "done"
  BY <1>1 DEF IInv, TypeOK
<1>6. LockHeld' /\ WriteReady'
  BY <1>4, <1>5 DEF LockHeld, WriteReady
<1>7. Asked'
  BY <1>1, <1>4, <1>5 DEF IInv, Asked, Waiting
<1>8. \A f \in Emails : f # e => users'[f] = None
  <2>1. CASE ask[s].kind = "reset"
    BY <1>1, <1>2, <2>1 DEF IInv, WriteReady, OneAdministrator, TypeOK
  <2>2. CASE ask[s].kind # "reset"
    BY <1>1, <1>2, <2>2 DEF IInv, WriteReady, NobodyYet, TypeOK
  <2> QED
    BY <2>1, <2>2
<1>9. OneAdministrator'
  BY <1>8 DEF OneAdministrator
<1> QED
  BY <1>3, <1>6, <1>7, <1>9 DEF IInv

LEMMA NextKeeps == IInv /\ [Next]_vars => IInv'
<1> SUFFICES ASSUME IInv, [Next]_vars PROVE IInv'
  OBVIOUS
<1>1. CASE UNCHANGED vars
  BY <1>1 DEF vars, IInv, TypeOK, LockHeld, Asked, WriteReady, OneAdministrator, NobodyYet
<1>2. ASSUME NEW s \in Sessions, Break(s) PROVE IInv'
  <2>1. ask' = [ask EXCEPT ![s] = ask[s]] /\ ask[s] \in Request \cup {None}
    BY <1>2 DEF Break, IInv, TypeOK
  <2> QED
    BY <1>2, <2>1, LeaveKeeps DEF Break, Outcomes
<1>3. ASSUME NEW s \in Sessions, Finish(s) PROVE IInv'
  BY <1>3, LeaveKeeps DEF Finish
<1> QED
  BY <1>1, <1>2, <1>3, BeginKeeps, LockKeeps, LookKeeps, WriteKeeps DEF Next, Work

LEMMA Invariance == Spec => []IInv
BY InitInvariant, NextKeeps, PTL DEF Spec

\* Every reachable state is well typed.
THEOREM TypeCorrect == Spec => []TypeOK
BY Invariance, PTL DEF IInv

\* The advisory lock and the check after it make registration and bootstrap one
\* atomic test-and-insert: whoever races, there is one administrator at most.
THEOREM OneAdministratorEver == Spec => []OneAdministrator
BY Invariance, PTL DEF IInv
-----------------------------------------------------------------------------
LEMMA PasswordStep ==
  ASSUME IInv, [Next]_vars, NEW e \in Emails, users'[e] # users[e]
  PROVE  /\ users'[e] \notin Refused \cup {None}
         /\ users[e] # None => \E s \in Sessions : /\ stage[s] = "write"
                                                 /\ ask[s].kind = "reset"
                                                 /\ ask[s].email = e
<1>1. PICK s \in Sessions : Insert(s) \/ Reset(s)
  BY DEF Next, Work, vars, Begin, Lock, Look, Break, Finish
<1>2. /\ stage[s] = "write"
      /\ users' = [users EXCEPT ![ask[s].email] = ask[s].password]
  BY <1>1 DEF Insert, Reset
<1>3. ask[s] \in Request /\ ask[s].password \notin Refused
  BY <1>2 DEF IInv, WriteReady
<1>4. ask[s].password \in Passwords
  BY <1>3 DEF Request
<1>5. ask[s].email = e /\ users'[e] = ask[s].password
  BY <1>2 DEF IInv, TypeOK
<1>6. users[e] # None => ask[s].kind = "reset"
  BY <1>1, <1>5 DEF Insert, Reset
<1> QED
  BY <1>2, <1>3, <1>4, <1>5, <1>6, NobodyIsNone

\* An account keeps its password until a reset of that very account commits.
THEOREM PasswordsSafe == Spec => OnlyResetChangesPassword
<1>1. IInv /\ [Next]_vars =>
        [\A e \in Emails :
           users'[e] # users[e] =>
             /\ users'[e] \notin Refused \cup {None}
             /\ users[e] # None =>
                  \E s \in Sessions : /\ stage[s] = "write"
                                      /\ ask[s].kind = "reset"
                                      /\ ask[s].email = e]_vars
  BY PasswordStep
<1> QED
  BY <1>1, Invariance, PTL DEF Spec, OnlyResetChangesPassword
=============================================================================
