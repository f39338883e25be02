SPECIFICATION FairSpec
CONSTANTS
  opr = opr
  other = other
  u1 = u1
  u2 = u2
  x1 = x1
  x2 = x2
  q1 = q1
  q2 = q2
  t1 = t1
  t2 = t2
  w1 = w1
  w2 = w2
  NoGroup = NoGroup
  NoContent = NoContent
  NoRequest = NoRequest
  Nothing = Nothing
  Episodes = {u1}
  Groups = {opr}
  OprGroup = opr
  Contents = {x1, x2}
  Requests = {q1, q2}
  Writers = {w1}
  Retirers = {t1, t2}
  MaxFaults = 1
INVARIANTS AnswersAgree ReceiptsMatch Forgotten
PROPERTIES TombstonesStay RetirementConfirmed
