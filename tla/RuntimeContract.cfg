SPECIFICATION Spec
INVARIANT
    SuiteJudgesTheRuntime
PROPERTY
    SuiteEnds
