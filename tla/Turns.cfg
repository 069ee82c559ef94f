SPECIFICATION ScenesSafety
CONSTANTS
  m1 = m1
  m2 = m2
  c1 = c1
  r1 = r1
  NoItem = NoItem
  Messages = {m1}
  Mentions = {m1}
  Instructions = {}
  Reminders = {r1}
  About <- MCAbout
  MaxControls = 3
  MaxEdits = 1
  MaxFaults = 3
  Scenes = {"controlled", "reminded"}
INVARIANTS
  ClaimOwned
  DropsAreVisible
PROPERTIES
  ImplementsObligations
  FreshDecision
  WipedIsInert
  DriverOwnsWork
  NoSecondAnswer
CHECK_DEADLOCK FALSE
