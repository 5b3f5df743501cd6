SPECIFICATION PlaneSpec
CONSTANTS
 Admins = {"x","y"}
 EnvKeys = {"k1","k2"}
 EnvValues = {"1","2"}
 Overlap = TRUE
 MaxRestarts = 0
INVARIANT OneUpdateAtATime
