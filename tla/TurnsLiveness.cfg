SPECIFICATION ScenesSpec
CONSTANTS
  m1 = m1
  m2 = m2
  c1 = c1
  r1 = r1
  NoItem = NoItem
  Messages = {m1, m2}
  Mentions = {m1}
  Instructions = {c1}
  Reminders = {}
  About <- MCAbout
  MaxControls = 1
  MaxEdits = 0
  MaxFaults = 1
  Scenes = {"arrivals", "instructed"}
PROPERTIES
  EveryInputSettles
CHECK_DEADLOCK FALSE
