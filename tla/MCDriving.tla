------------------------------ MODULE MCDriving -------------------------------
(* Two requests of the dashboard under way at once with a second operator; *)
(* the same three drive the transport, two of them waiting for the stream  *)
(* of the third; and a skill's command beside the drive loop of            *)
(* teleoperation.                                                          *)
EXTENDS Driving, TLC
CONSTANTS dash1, dash2, remote, keyboard, joystick
MCClients == {dash1, dash2, remote}
MCOperatorOf == dash1 :> keyboard @@ dash2 :> keyboard @@ remote :> joystick
\* The two requests of the dashboard are interchangeable.
Symmetry == Permutations({dash1, dash2})
=============================================================================
