\* A Zoom and a Google calendar, each with one event.
SPECIFICATION FairSpec
CONSTANTS
    ZoomEvents = {z}
    GoogleEvents = {g}
    MicrosoftEvents = {}
    ZoomSyncs = {sz}
    GoogleSyncs = {sg}
    MicrosoftSyncs = {}
    OtherRooms = {room}
    Dates = {d1, d2}
    NoDate = NoDate
    Deals = {deal}
    NoDeal = NoDeal
    Absent = Absent
    NoRow = NoRow
    MaxEdits = 1
INVARIANTS TypeOK OneCardPerCall
PROPERTIES OptOutStands AssignmentStands ZoomRowStays Settles
CHECK_DEADLOCK FALSE
