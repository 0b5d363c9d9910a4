SPECIFICATION Spec
CONSTANTS
  P = 13
  Word = 8
  C <- MC_C
  Coordinates <- MC_Coordinates
INVARIANTS TypeOK SpongesAgree PlanetsAgree
