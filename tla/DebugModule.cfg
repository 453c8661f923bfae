SPECIFICATION Spec
CONSTANTS
    Calls <- EveryCall
    Nothing = Nothing
INVARIANTS NeverRefused
PROPERTIES ApiSpec Returns
