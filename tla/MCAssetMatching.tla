--------------------------- MODULE MCAssetMatching ---------------------------
(* Two assets of consecutive versions, of which the sweep sees the first;  *)
(* a match holds both, or only the older.                                  *)
EXTENDS AssetMatching

VersionDef == [a \in Assets |-> a]
All == [vulnerable |-> TRUE, version |-> Absent,
        startIncluding |-> Absent, startExcluding |-> Absent,
        endIncluding |-> Absent, endExcluding |-> Absent]
RangesDef == {All, [All EXCEPT !.endExcluding = 2]}
=============================================================================
