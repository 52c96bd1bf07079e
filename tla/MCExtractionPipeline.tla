------------------------ MODULE MCExtractionPipeline ------------------------
(* Model values and small sets for TLC.                                    *)
EXTENDS ExtractionPipeline, TLC

CONSTANTS f1, r1, r2

OneFile  == {f1}
OneRequest  == {r1}
TwoRequests == {r1, r2}
NoFiles == {}

=============================================================================
