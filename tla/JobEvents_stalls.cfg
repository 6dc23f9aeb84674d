SPECIFICATION EventsFairSpec
CONSTANTS
    Streams = {s1}
    EventsMax = 3
    MaxEvents = 6
PROPERTIES TailsTheList
CHECK_DEADLOCK FALSE
