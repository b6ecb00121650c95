SPECIFICATION Spec
CONSTANTS
    None = None
    Certificates <- Uploads
    Applicant = "own"
    Ratio <- LabelRatio
    Alike <- NameRatio
    Digits <- TokenDigits
    Initials = {"R."}
    MaxHarm = 2
INVARIANTS RowsApart HarmStaysLocal
CHECK_DEADLOCK FALSE
