CONSTANTS
  s1 = s1
  s2 = s2
  p1 = p1
  p2 = p2
  Sources = {s1, s2}
  Toggled = {s2}
  Processes = {p1, p2}
  Lasting = {p2}
  NoSource = NoSource
  MaxDay = 2
SPECIFICATION FairDailySpec
INVARIANTS NeverRepeats NoOccurrenceOverslept
PROPERTIES EveryOccurrenceHandled
CHECK_DEADLOCK FALSE
