SPECIFICATION Spec
CONSTANTS
    swing = swing
    monitor = monitor
    client = client
    web = web
    floppy = floppy
    p = p
    q = q
    hash = hash
    j = j
    w = w
    v = v
    Swing = swing
    Monitor = monitor
    Client = {client}
    Sessions <- Buttons
    MaxText = 7
    Budget <- Share
    Descriptors = 3
    MaxRestarts = 1
    MaxConn = 4
    Atom <- Words
    Program = {web}
    Pid = {j, w, v}
    JanixPid = j
    Absent = Absent
    Blank = Blank
    Overlay <- Digits
    Garbage <- Either
    MaxChanges = 3
    Hash = hash
    FirstPassword <- Root
    Device = {floppy}
    Behind <- Further
INVARIANTS TypeOK HungOnlyIf ToggleTellsMount PasswordAnswers StrikesTheNamed
PROPERTIES EmptyIsForGood AnswersCome
CHECK_DEADLOCK FALSE
