\* Sessions one after another and at once, over midnight, until the numbers run out.
SPECIFICATION Spec
CONSTANTS
  Sessions = {s1, s2, s3, s4}
  MaxNumber = 2
  MaxDay = 1
  Nobody = Nobody
INVARIANTS
  TypeOK
  OnlyMeetingSessionsMix
  SummaryStays
CHECK_DEADLOCK FALSE
