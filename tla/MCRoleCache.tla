---------------------------- MODULE MCRoleCache ----------------------------
(* An instance of RoleCache for TLC: browsers are interchangeable.         *)
EXTENDS RoleCache, TLC

CONSTANTS admin, ada, b1, b2

MCUsers == {admin, ada}
MCDirectory == {ada}
MCBrowsers == {b1, b2}
Symmetry == Permutations(MCBrowsers)
=============================================================================
