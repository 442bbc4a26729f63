------------------------------- MODULE MCAgent -------------------------------
(* Five parts of the service that share no state: a behaviour is of one of *)
(* them, which "part" names; the others stay as they started.              *)
EXTENDS ServiceLoop, SpikeDetector, SettingsBounds, PerfAlerts, PipeCommands, TLC

VARIABLE part

serviceVars ==
    <<loopVars, spikeVars, boundVars, perfVars, pipeVars, part>>

ServiceInit ==
    /\ part \in {"loop", "spikes", "settings", "alerts", "pipe"}
    /\ SpikeInit /\ PerfInit
    /\ LoopInit
    /\ part # "loop" => file = [only |-> FALSE, enabled |-> FALSE, url |-> NoUrl]
    /\ IF part = "settings" THEN BoundsInit
       ELSE /\ kind = "cooldowns" /\ origin = "editor" /\ sent = <<>>
            /\ hop = "sent" /\ saved = <<>> /\ inUse = <<>> /\ agent = <<>>
    /\ PipeInit
    /\ part # "pipe" => \A c, d \in Callers : /\ caller[c] = caller[d]
                                             /\ caller[c].cmd = "register"
                                             /\ caller[c].admin
                                             /\ caller[c].want = CHOOSE e \in Endpoints : TRUE

ServiceNext ==
    \/ /\ part = "loop" /\ LoopNext
       /\ UNCHANGED <<spikeVars, boundVars, perfVars, pipeVars, part>>
    \/ /\ part = "spikes" /\ SpikeNext
       /\ UNCHANGED <<loopVars, boundVars, perfVars, pipeVars, part>>
    \/ /\ part = "settings" /\ BoundsNext
       /\ UNCHANGED <<loopVars, spikeVars, perfVars, pipeVars, part>>
    \/ /\ part = "alerts" /\ PerfNext
       /\ UNCHANGED <<loopVars, spikeVars, boundVars, pipeVars, part>>
    \/ /\ part = "pipe" /\ PipeNext
       /\ UNCHANGED <<loopVars, spikeVars, boundVars, perfVars, part>>

ServiceSpec == ServiceInit /\ [][ServiceNext]_serviceVars

\* Event channels are interchangeable.
Symmetric == Permutations(Channels)
=============================================================================
