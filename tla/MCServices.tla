----------------------------- MODULE MCServices -----------------------------
EXTENDS Services

CONSTANTS r1, w1, w2, t1, t2, t3, s1, s2, d1, k1, k2

OneReader == {r1}
TwoWorkers == {w1, w2}
ThreeThreads == {t1, t2, t3}
TwoThreads == {t1, t2}
TwoSubscribers == {s1, s2}
TwoClaimants == {k1, k2}
OneSend == {d1}

=============================================================================
