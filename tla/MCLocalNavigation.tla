-------------------------- MODULE MCLocalNavigation --------------------------
(* One command's skill, and the dashboard beside it; small grids.           *)
EXTENDS Navigation, MCTerrain3D
CONSTANTS skill, desk
MCSkills == {skill}
MCDesks == {desk}
MCProviders == {"native", "direct", "nav2"}
MCStarts == {<<1, 2>>}
MCReturns == (1..3) \X (0..4)
=============================================================================
