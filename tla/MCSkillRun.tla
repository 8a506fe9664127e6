----------------------------- MODULE MCSkillRun -----------------------------
(* Every skill, on either client; every kind of answer of the model; two   *)
(* viewers beside the snapshots of the dashboard; one relay or the other.   *)
EXTENDS SkillRun, MCPlanning
MCMoveSkills == {"explore", "mock_explore", "nudge", "scan", "retreat", "local_nav"}
MCClients == {"native", "mapped", "direct"}
\* failed stands for timed_out and no_progress too: no skill tells the three apart.
MCOutcomes == {"succeeded", "failed", "canceled", "unavailable"}
MCMediaModes == [starts : {"at_once", "on_demand"}, kinds : {{"video"}, {"audio"}}]
                  \union {[starts |-> "gateway", kinds |-> {"video", "audio"}]}
=============================================================================
