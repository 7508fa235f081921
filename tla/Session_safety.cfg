\* One session; SSLRequest, startup, password and two more messages.
CONSTANTS
    Sessions = {s1}
    MaxMessages = 6
    SocketRoom = 2
    Env <- Behaviours
SPECIFICATION Spec
INVARIANTS
    OwnAnswersOnly
    AnswersComplete
    RequestsOnceInOrder
    RefusedNeverForwarded
    NothingLeftBehind
    ResponseForwardedWhole
    EndedIsReported
    NobodyIsStuck
