----------------------------- MODULE MCRecorder -----------------------------
(* Rows for one camera: motion recording at two URLs, continuous and off.  *)
EXTENDS Recorder, TLC

Row(shape, mode, enabled, expires) ==
  [shape |-> shape, mode |-> mode, enabled |-> enabled, expires |-> expires]

MotionRows == {Row(1, "motion", FALSE, FALSE), Row(2, "motion", FALSE, FALSE)}
MixedRows  == {Row(1, "motion", FALSE, TRUE), Row(2, "motion", FALSE, FALSE),
               Row(1, "off", FALSE, FALSE)}

OneAndOff == {Row(1, "motion", FALSE, TRUE), Row(1, "off", FALSE, FALSE)}
PlainRows == {Row(1, "motion", FALSE, FALSE), Row(1, "off", TRUE, FALSE)}

CallersAreAlike == Permutations(Callers)
=============================================================================
