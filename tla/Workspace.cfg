\* Every query in turn, one change under way, two users; a status that is
\* polled for and one of the pipeline that is not.
SPECIFICATION Spec
CONSTANTS
    Users = {u1, u2}
    Slots = {1}
    MaxVersion = 2
    Statuses = {"transcribing", "diarizing"}
INVARIANTS TypeOK OwnChangeShown GuessIsChecked OwnSessionOnly
PROPERTIES SpinnerEnds PolledFollows
