CONSTANTS
  MaxStarts = 3
SPECIFICATION Spec
INVARIANTS
  NoUploadWithoutResults
