SPECIFICATION Spec
INVARIANTS
    CasesAreIndependent
