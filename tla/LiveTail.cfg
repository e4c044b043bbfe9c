CONSTANTS
  q1 = q1
  q2 = q2
  h1 = h1
  h2 = h2
  s1 = s1
  s2 = s2
  None = None
  Requests = {q1, q2}
  Handlers = {h1, h2}
  Sources = {s1, s2}
  MaxLogins = 2
SPECIFICATION Spec
INVARIANTS TypeOK TokensAreTheUsers OneConnection PausedStaysPaused
PROPERTIES EndedByOwnTokens TailRecovers
CHECK_DEADLOCK FALSE
