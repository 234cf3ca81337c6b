CONSTANTS
    BYTE = 256
    USHORT = 65536
    UINT = 70000
    Null = Null
    Worker = {w1, w2}
    DbWorker = {d1, d2}
    Email = {e}
    Password = {p, q}
SPECIFICATION Spec
INVARIANTS
    TypeOK
    AnswersTrue
    OneOwner
    RegisteredCanLogIn
PROPERTY WorkersFree
