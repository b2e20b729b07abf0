\* Two notifications, each requested in up to three attempts.
CONSTANTS
    k1 = k1  k2 = k2  t1 = t1  t2 = t2  t3 = t3
    Keys = {k1, k2}
    Tokens = {t1, t2, t3}
SPECIFICATION Spec
INVARIANTS
    SentOncePerKey
    AnswersAreProof
SYMMETRY Sym
CHECK_DEADLOCK FALSE
