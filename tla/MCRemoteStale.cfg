SPECIFICATION RemoteSpec
CONSTANTS
    RemoteSessions = {1, 2}
    RemoteThreads = {"t1", "t2"}
    MaxPlays = 5
    MaxMedia = 1
CHECK_DEADLOCK FALSE
INVARIANT StaleCannotStopNewer
