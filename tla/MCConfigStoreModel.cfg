SPECIFICATION Spec
CONSTANTS
  c1 = c1
  c2 = c2
  r1 = r1
  r2 = r2
  s1 = s1
  s2 = s2
  Coefficients = {c1, c2}
  Ranges = {r1, r2}
  Models <- MCModelsAll
  Serials = {s1, s2}
  Default <- MCDefault
  PowerUp = c1
  Torn = Torn
  Nothing = Nothing
  MaxFails = 1
INVARIANTS HelloPassesGuard
