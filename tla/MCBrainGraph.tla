---------------------------- MODULE MCBrainGraph ----------------------------
(* Plans and worlds for TLC: every skill class the backend tells apart.    *)
EXTENDS BrainGraph

Fit == [error |-> FALSE, stale |-> FALSE, standing |-> TRUE, moving |-> FALSE]
Go2States == {Fit, [Fit EXCEPT !.error = TRUE], [Fit EXCEPT !.stale = TRUE],
              [Fit EXCEPT !.standing = FALSE], [Fit EXCEPT !.moving = TRUE]}

WorldsWith(batteries, nears, alerts, selves) ==
  [estop: BOOLEAN, battery: batteries, near: nears, alert: alerts, self: selves]

Inside(s) == [skill |-> s, args |-> "inside"]
Outside(s) == [skill |-> s, args |-> "outside"]

\* A low battery is an alert, whatever the robot's state.
Go2Worlds == WorldsWith({"ok", "critical"}, {TRUE}, {FALSE}, Go2States \union {NoSelf})
               \union WorldsWith({"low"}, {TRUE}, {FALSE}, {Fit, NoSelf})
Go2Proposals == {Inside("nudge"), Outside("nudge"), Inside("scan"), Inside("nav_go_relative"),
                 Inside("dock"), Inside("recognize"), Inside("nav_relocalize")}
Go2Plans == {<<>>} \union {<<c>> : c \in Go2Proposals}
              \union {<<c, d>> : c \in {Inside("recognize"), Inside("nudge")},
                                 d \in {Inside("nudge"), Inside("scan"), Inside("dock")}}

MockWorlds == WorldsWith({"ok", "low", "critical"}, BOOLEAN, {FALSE}, {NoSelf})
MockProposals == {Inside("navigate"), Outside("navigate"), Inside("follow"), Inside("dock"),
                  Inside("nudge"), Inside("recognize"), Inside("nav_go_to_pose")}
MockPlans == {<<>>} \union {<<c>> : c \in MockProposals}
               \union {<<c, d>> : c, d \in MockProposals \ {Outside("navigate")}}

BackendWorlds == [mock |-> MockWorlds, unitree |-> Go2Worlds]
BackendPlans == [mock |-> MockPlans, unitree |-> Go2Plans]
=============================================================================
