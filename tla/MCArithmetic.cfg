SPECIFICATION Spec
CONSTANT Programs <- EveryProgram
INVARIANT BranchesRight
PROPERTIES SumsRight ShiftsRight DecimalRight ProductsRight QuotientsRight
\* A program ends.
CHECK_DEADLOCK FALSE
