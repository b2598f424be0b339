--------------------------- MODULE MCDocumentSave ---------------------------
(* Small instances of DocumentSave for TLC.                                *)
EXTENDS DocumentSave

CONSTANTS b1, b2, t0, t1, f1

(* The formatter rewrites t1 to f1 and leaves every other text alone.      *)
MCFormat == [t \in Text |-> IF t = t1 THEN f1 ELSE t]

MCIdentity == [t \in Text |-> t]

MCLocal    == {[b \in Bufs |-> "local"]}
MCAnyKind  == [Bufs -> Kinds]

(* Nothing is claimed of a buffer once it met a race: a run that only      *)
(* checks what holds without one need not go on.                           *)
MCUnexposed == exposed # Bufs
=============================================================================
