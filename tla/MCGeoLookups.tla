---------------------------- MODULE MCGeoLookups ----------------------------
(* TLC instance of GeoLookups. *)
EXTENDS GeoLookups
=============================================================================
