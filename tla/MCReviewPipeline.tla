-------------------------- MODULE MCReviewPipeline --------------------------
(* Instances of ReviewPipeline and ReviewFormat for TLC.  A header is a byte  *)
(* that paths may contain, or that byte and another one.                      *)
EXTENDS ReviewPipeline, ReviewFormat

CONSTANTS c1, c2, v1, v2, b1, b2, i1, i2
TwoCaptures == {c1, c2}
TwoValidations == {v1, v2}
TwoBundles == {b1, b2}
TwoImages == {i1, i2}

(* Byte 130 is read as byte 2 in a header.  One header names no full blobs.   *)
ThreeBytes == {1, 2, 130}
TwoHeaders == {<<2>>, <<2, 1>>}
OneHeader == {<<2>>}

(* The bytes of every validator's run are parsed exactly (ExactFraming,       *)
(* raw-diff.ts), and every stored review has a canonical manifest             *)
(* (CanonicalManifests, crf.ts): what these say of all inputs up to the       *)
(* bounds is looked at in the states in which the code parses and stores.     *)
FramingIsExact == (\E v \in Validation : validation[v].run # None) => ExactFraming
ManifestIsCanonical == (\E a \in Capture : review[a] # None) => CanonicalManifests
=============================================================================
