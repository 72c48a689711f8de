---------------------------- MODULE MCConfigStore ----------------------------
\* ConfigStore on a small instance: the settings page and a login, two values.
EXTENDS ConfigStore
CONSTANTS page, login, v1, v2
TwoSavers == {page, login}
TwoValues == {v1, v2}
ValueSymmetry == Permutations(TwoSavers) \cup Permutations(TwoValues)
=============================================================================
