\* Two browsers with a tab each, two threads that mail links, two links; an
\* idle time of one, a session of two and a skew of one unit of time.
SPECIFICATION Spec
CONSTANTS
  Browsers = {b1, b2}
  Tabs = {t1}
  NoCookie = NoCookie
  IdleTimeout = 1
  SessionTtl = 2
  Skew = 1
  TokenTtl = 1
  Cooldown = 1
  Tasks = {k1, k2}
  MaxLinks = 2
  Scopes <- MCScopes
INVARIANTS
  SessionsRooted
  SessionsEnd
  LinkOnce
  NewestLinkOnly
SYMMETRY Symmetric
CHECK_DEADLOCK FALSE
