CONSTANTS
  Root = "run"
  Simulations = {"run", "flow"}
  Models = {"constraint", "pressure", "velocity", "temperature"}
  Members <- MCMembers
  Sizes = {0, 256, 768}
  PostRaises = FALSE
  UNDEF_DT = 1000000
  FAILED_TIME_STEPS_MAX = 2
  MAX_ITER_STEPS = 1
  MAX_CHANGE_OF_DT = 2
  MaxSteps = 2
  MaxRefusals = 2
SPECIFICATION Spec
INVARIANTS TimesAgree SetUpAnew AllSatisfied
PROPERTY RunEnds
