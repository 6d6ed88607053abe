SPECIFICATION MCSpec
CONSTANTS
    Procs = {1, 2, 3, 4}
    Proxies = {1, 2, 3}
    Workloads <- MCWorkloads
    Jobs <- MCJobs
INVARIANTS BarrierTogether AnswersExact  DeadListExact RanksExact
PROPERTY LaunchEnds
CHECK_DEADLOCK FALSE
