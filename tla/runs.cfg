CONSTANTS
    Run = {r1, r2}
    Session = {s1}
    NoRun = NoRun
    NoSession = NoSession
    MaxStream = 1
    MaxRestarts = 1
SPECIFICATION Spec
INVARIANTS SlotIsActiveRun RecordTellsTheRun AcceptedIsServed
PROPERTIES TerminalIsFinal ImplementsRunSpec StopConverges ShutdownCompletes
CHECK_DEADLOCK FALSE
