SPECIFICATION Spec
CONSTANTS
    Jobs <- MCJobs
    Addresses <- MCAddresses
    Digits <- MCDigits
INVARIANTS TypeOK ErrorsInPlace VerdictRight SpansInFile
CHECK_DEADLOCK FALSE
