----------------------------- MODULE MCProbeTable -----------------------------
(***************************************************************************)
(* Up to four entries, which fill half of a table or a little more, with   *)
(* three names, equal ones and colliding ones among them; homes at both    *)
(* ends of a table, so that probing goes round.                            *)
(***************************************************************************)
EXTENDS ProbeTable, SequencesExt

CONSTANTS a, b, c

ModelNames == {a, b, c}
ModelHashes == [ModelNames -> {0, 3, 7}]
ModelInputs == SeqOf(ModelNames, 4) \ {<<>>}
=============================================================================
