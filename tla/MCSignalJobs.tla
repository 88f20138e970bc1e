---------------------------- MODULE MCSignalJobs ----------------------------
(* One advert, its page in two versions.                                   *)
EXTENDS SignalJobs

CONSTANTS l1, p1, p2

OneListing == {l1}
TwoPages == {p1, p2}
=============================================================================
