SPECIFICATION SysFairSpec
CONSTANTS
    t1 = t1
    t2 = t2
    t3 = t3
    t4 = t4
    Threads = {t1, t2, t3, t4}
    Kinds = {"semaphore", "mutex", "manual", "auto"}
    iInitCount = 1
    Counts = {1, 2}
    MaxGiven = 4
INVARIANTS
    SleepersAreCalled
PROPERTIES
    UnitsAreTaken
