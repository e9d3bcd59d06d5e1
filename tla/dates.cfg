\* Two threads validate tasks and log.
CONSTANTS
    Thread = {t1, t2}
    Contents <- MCContents
    Years <- MCYears
    Today <- MCToday
    None = None
SYMMETRY ThreadSymmetry
SPECIFICATION Spec
INVARIANTS RightIfAlone
