--------------------------- MODULE MCMobileOutbox ---------------------------
(* The payloads of the queued entries, for TLC.                            *)
EXTENDS MobileOutbox, TLC

(* A photo (1), the finding it belongs to (2), an update of that finding   *)
(* (3), an evidence photo the server refuses (4) and an update with it (5).*)
SnagPhotos  == {1, 4}
SnagCreates == {2}
SnagRefused == {4}
SnagNeeds   == 1 :> {} @@ 2 :> {1} @@ 3 :> {2} @@ 4 :> {} @@ 5 :> {2, 4}
SnagTarget  == 3 :> 2 @@ 5 :> 2
SnagWants   == 3 :> "open" @@ 5 :> "resolved"

Nothing == {}

=============================================================================
