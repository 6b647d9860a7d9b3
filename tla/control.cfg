\* Two agents who share the channel of wakes, and an operator.
SPECIFICATION FairSpec
CONSTANTS
  Actors <- Everyone
  Agents <- Personas
  Recipients <- TaskOnly
  Told <- PersonasTold
  Picky <- TaskOnly
  ChannelSize = 1
  MaxInputs = 2
  MaxFaults = 1
INVARIANTS
  ControlTypeOK
  OneEffectPerKey
  
  AnswersAreTrue
  OneTurnAtATime
  AckedForATurn
PROPERTIES
  EventsAreHeard
  WakesAreAnswered
  ClientsAreAnswered
CHECK_DEADLOCK FALSE
