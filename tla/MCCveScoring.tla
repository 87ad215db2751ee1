---------------------------- MODULE MCCveScoring ----------------------------
(* Two event handlers and the sweep over one CVE.  Two base scores, one on *)
(* each side of the floor, so that the score may rise and fall, under the  *)
(* knobs of config/scoring.yaml.                                           *)
EXTENDS CveScoring
=============================================================================
