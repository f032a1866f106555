SPECIFICATION FairSpec
CONSTANTS
  None = None
  s1 = s1
  s2 = s2
  s3 = s3
  Sessions = {s1, s2, s3}
  Emails = {alice, bob}
  Passwords = {strong, short}
  Refused = {short}
  OpenAtFirst = TRUE
INVARIANT OneAdministrator
PROPERTY OnlyResetChangesPassword
PROPERTY LockServed
