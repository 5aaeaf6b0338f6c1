----------------------------- MODULE MCDigestMap -----------------------------
(***************************************************************************)
(* Three candidates, a table of eight slots and digests that collide: two  *)
(* share their home, the last slot, and their tag, the third begins where  *)
(* their probing wraps around.                                             *)
(***************************************************************************)
EXTENDS DigestMap

Collide == {[home |-> 7, tag |-> 1, lo |-> 1], [home |-> 7, tag |-> 1, lo |-> 2],
            [home |-> 0, tag |-> 2, lo |-> 1]}

\* For two candidates and four slots.
CollideFew == {[home |-> 3, tag |-> 1, lo |-> 1], [home |-> 3, tag |-> 1, lo |-> 2],
               [home |-> 0, tag |-> 2, lo |-> 1]}
==============================================================================
