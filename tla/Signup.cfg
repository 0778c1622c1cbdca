SPECIFICATION Spec
CONSTANTS
  s1 = s1
  s2 = s2
  p1 = p1
  p2 = p2
  l1 = l1
  l2 = l2
  Codes = {1, 2, 3}
  People = {1}
  Mailboxes = {1, 2}
  Labels = {l1, l2}
  Signups = {s1, s2}
  Presses = {p1, p2}
  MaxTrouble = 1
INVARIANTS CodeBuysOnce RecordedServes BoardIsTrue
SYMMETRY Interchangeable
CHECK_DEADLOCK FALSE
