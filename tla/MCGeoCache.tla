------------------------------ MODULE MCGeoCache ------------------------------
EXTENDS GeoCache, TLC

Symmetries == Permutations(Requests)

=============================================================================
