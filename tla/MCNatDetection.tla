---------------------------- MODULE MCNatDetection -----------------------------
EXTENDS NatDetection

\* Two symmetric NATs that count up, one that counts down.
MCSteps == {-4, 1, 5}
\* Ports below and above those of the mappings, and one that is far away.
MCGarbage == {0, 1004, 1030}
================================================================================
