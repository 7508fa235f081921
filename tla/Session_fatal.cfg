\* The server ends the connection with a FATAL error.
CONSTANTS
    Sessions = {s1}
    MaxMessages = 3
    SocketRoom = 2
    Env <- Fatal
SPECIFICATION FairSpec
PROPERTY RequestAnswered
