------------------------------ MODULE MCResume ------------------------------
(* Three folders, in name order 1, 2, 3, with slugs in another order; the   *)
(* slug of folder 3 is too long.  Two spawns, so one may race or follow.    *)
EXTENDS Resume, TLC

MCSlugOf == 1 :> 3 @@ 2 :> 2 @@ 3 :> 4

\* All folders, one detached, one that is no directory, none; the user's
\* order against the name order; and the other backend.
MCConfigs ==
    LET Native(m, p, h) ==
            [backend |-> "native", mounts |-> m, present |-> p, hint |-> h]
    IN  { Native({1, 2}, {1, 2}, <<>>), Native({1, 2}, {1, 2}, <<2>>),
          Native({2}, {1, 2}, <<>>), Native({1, 2}, {2}, <<1, 2>>),
          Native({2, 3}, {1, 2, 3}, <<3>>), Native({}, {}, <<>>),
          [backend |-> "kvm", mounts |-> {1}, present |-> {1}, hint |-> <<>>] }

Symmetry == Permutations(Spawns)
=============================================================================
