SPECIFICATION Spec
CONSTANTS
  MaxIndexRK = 1
  MaxRegs = 30
  MaxArgBx = 2
  MaxArgC = 1
  FieldsPerFlush = 2
  MaxSteps = 400
  Programs <- MCPrograms
INVARIANTS
    CodeMeansProgram
    CodeSound
