SPECIFICATION Spec
CONSTANTS
    m1 = m1  m2 = m2  m3 = m3
    lab = lab  approved = approved  open = open  bare = bare
    Trainings = {m1, m2, m3}
    Services = {r1}
    Evaluations = {e1}
    Cases = {lab, approved, open, bare}
    Source <- MCSource
    Review <- MCReview
    Dated = {lab, approved, open, bare}
    WithEvents = {lab, approved, open}
    MinCases = 1
    NoModel = NoModel
SYMMETRY Symmetry
INVARIANTS ActiveIsWarranted OneActiveInTurn
PROPERTIES NeverWithoutModel RetiredStaysRetired
CHECK_DEADLOCK FALSE
