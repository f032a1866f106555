SPECIFICATION Spec
CONSTANTS
  None = None
  t1 = t1
  t2 = t2
  a1 = a1
  ip1 = ip1
  Threads = {t1, t2}
  Accounts = {a1}
  Ips = {ip1}
  Limit <- Limits
  Window = 2
  Patience = 1
  MaxTime = 3
  MaxLogins = 4
SYMMETRY Symmetry
INVARIANT TypeOK
 
PROPERTY LockoutBounded
