------------------------------- MODULE MCSpace -------------------------------
EXTENDS SpaceController
CONSTANTS m1, m2, x1, base, pro, u1, none
=============================================================================
