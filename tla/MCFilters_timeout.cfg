CONSTANTS
    heads = heads  logs = logs  wrong = wrong
    a1 = a1  a2 = a2  t1 = t1
    Filters = {heads, logs, wrong}
    Kind <- MCKind
    Crit <- MCCrit
    LogsOf <- MCLogsOf
    ChanSize = 1
    Scenarios <- OneStopsPolling
SPECIFICATION Spec
CHECK_DEADLOCK FALSE
PROPERTY CommitNotBlocked
