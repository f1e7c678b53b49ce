SPECIFICATION Spec
CONSTANTS
    Jobs <- WindowsJobs
    Addresses <- MCAddresses
    Digits <- MCDigits
INVARIANT LineEndsDoNotOffset
CHECK_DEADLOCK FALSE
