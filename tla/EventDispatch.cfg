\* Three events: a Home turn, a query and a timer are the least that defer one.
CONSTANTS
  MaxEvents = 3
  QueueLimit = 2
  DrainLimit = 2
  ReplayLimit = 1
  MaxDefers = 2
SPECIFICATION Spec
INVARIANTS TypeOK EventsAreInOnePlace TurnsPerOrigin
PROPERTIES MessagesLeaveOnlyBehindATurn EventsAreTaken
