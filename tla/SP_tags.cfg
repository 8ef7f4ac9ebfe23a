SPECIFICATION Spec
CONSTANTS
  Retention = 1
  MaxRuns = 2
  MaxSegments = 2
PROPERTIES
  TagsAreExact
