-------------------------- MODULE MCUserPriorities --------------------------
(* UserPriorities with 3 users: the smallest heap in which a stale root    *)
(* and a stale child differ.                                               *)
EXTENDS UserPriorities
=============================================================================
