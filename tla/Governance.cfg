CONSTANT MaxChanges = 2
SPECIFICATION Spec
INVARIANTS PassMeansEnforced FailMeansMissing
