\* Two threads validate tasks at the same time.
CONSTANTS
    Thread = {t1, t2}
    Contents <- MCContents
    Years <- MCYears
    Today <- MCToday
    None = None
SYMMETRY ThreadSymmetry
SPECIFICATION Spec
INVARIANTS VerdictIsRight
