SPECIFICATION Spec
CONSTANTS
    JobSizes = {1, 2, 3}
    RingSize = 2
    MaxTime = 8
PROPERTIES
    StallsRequiredTime
