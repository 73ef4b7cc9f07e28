SPECIFICATION Spec
CONSTANTS
    Passwords = {zero, p1, p2, p3}
    ZeroPasswd = zero
    read = read
    Rights = {read, d}
    NOT = not
    O_MAX_CAPS = 3
    UserModes <- MCUserModes
    Memory <- MCMemory
SYMMETRY Symmetry
INVARIANTS
    TypeOK
    PasswordsOnce
    VerdictFromTable
    SuccessTakesEffect
PROPERTY ImplementsTable
CHECK_DEADLOCK FALSE
