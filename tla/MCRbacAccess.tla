---------------------------- MODULE MCRbacAccess ----------------------------
(***************************************************************************)
(* Two machines, two requests that change something, one that reads.        *)
(***************************************************************************)
EXTENDS RbacAccess, TLC
CONSTANTS m1, m2, u1, admin, viewer, p1, c1, c2, q1
=============================================================================
