CONSTANTS
  Spots <- ASpots
  Start = "gate"
  Steps <- ASteps
  Level <- ALevel
  Distance <- ADistance
  OnRoad = {"gate", "crossing"}
  Sheltered = {"gate"}
  Talkative = {}
  Welcoming = {}
  Landmarks <- ALandmarks
  Camps <- ACamps
  Programme = {}
  HeavyRain = TRUE
  LinesOf <- FourLines
  Hippies = {"h1"}
  EventLead = {1}
  EventDuration = {1}
  EventCooldown = {1, 2}
  EventRetry = {1, 2}
  AmbientDelay = {1, 2}
  FirstSoundDelay = {1}
  SoundDelay = {2}
  GreetingPause = 2
  HistoryLimit = 3
  Horizons <- AQuietDay
SPECIFICATION Spec
PROPERTY NoLineTwiceRunning
