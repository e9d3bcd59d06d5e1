\* Login, logout and login within one second.
CONSTANTS
    Thread = {t1}
    Email = {alice}
    Passwd = {p1}
    Lifetime = 1
    MaxTime = 1
    Unreliable = FALSE
    None = None

SPECIFICATION Spec
PROPERTIES FreshTokenUsable
