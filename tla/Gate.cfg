\* Three test ids, one on a trust surface, in texts of two lines of up to five
\* tokens, and a cap of one entry.  Two versions of a module and one that a
\* directory replaces; the proxy records the first day or no time for a version,
\* so one is too young on the first day and old enough on the second, and a hand
\* edit may write an older day, a text that is no time, or spoil the file.
CONSTANTS
    Ids = {"t", "u", "w"}
    Protected = {"u"}
    Dates = {1, 2}
    MaxEntries = 1
    MaxLines = 2
    MaxTokens = 5
    Mods = {m1, m2, dir}
    Locals = {dir}
    PathOf <- MCPathOf
    Cooldown = 1
    CommitDays = {0, 2}
    EditTimes <- MCEditTimes
    FirstDay = 2
    MaxDay = 3
    MaxEdits = 1
    MaxAdvised = 1
SPECIFICATION MCSpec
INVARIANTS
    EveryLineCounts
    NothingLeftOutUnasked
PROPERTIES
    CheckVetsTheWholeLock
    RegistryFollowsTheFormat
\* A text is read to its end, and a gate run and a test end.
CHECK_DEADLOCK FALSE
