CONSTANTS
  i1 = i1
  i2 = i2
  r1 = r1
  r2 = r2
  s1 = s1
  s2 = s2
  None = None
  Initiators = {i1, i2}
  Responders = {r1, r2}
  Servers = {s1, s2}
  MaxDraws = 5
  MaxDamage = 1
  Failing <- MCFailing
SYMMETRY Peers
CONSTRAINT FewEvents
SPECIFICATION Spec
INVARIANTS TypeOK KeysAgree KeysDistinct ImplicitRejection
CHECK_DEADLOCK FALSE
