SPECIFICATION Spec
CONSTANTS
  Largest = 6
  Lines <- SomeLines
INVARIANTS WellFormed 
PROPERTIES IsANumberSet
