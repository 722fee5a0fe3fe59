---------------------------- MODULE MCGeoUpdate ----------------------------
EXTENDS GeoUpdate
Files(i, s) == [f \in GeoFile |-> IF f = "geoip" THEN i ELSE s]
\* One mixed combination is refused, so that the order of replacements matters.
MCWorks == {Files("c1", "c1"), Files("c2", "c2"), Files("c1", "c2")}
=============================================================================
