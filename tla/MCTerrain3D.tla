----------------------------- MODULE MCTerrain3D ------------------------------
(* A step, a lone return, a box, a wall to the ceiling and a lintel, on a small field. *)
EXTENDS Terrain3D
MCShapes == {{1}, {2}, {0, 1, 2}, {0, 1, 2, 3, 4}, {0, 3}}
MCSpots == {<<2, 1>>, <<3, 0>>}
MCOrigins == {<<0, 1, 0>>}
MCDestinations == {<<4, 1, 0>>}
=============================================================================
