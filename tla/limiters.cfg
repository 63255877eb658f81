\* Two requests in any three units of time, one payment in two.
SPECIFICATION Spec
CONSTANTS
  Source = {s1, s2}
  Limit = 2
  Window = 3
  Cooldown = 2
  MaxTime = 5
INVARIANT TypeOK
INVARIANT WindowRespected
INVARIANT RefusedOnlyWhenFull
INVARIANT CooldownRespected
