------------------------------- MODULE MCParts ------------------------------
(***************************************************************************)
(* The parts that a call meets outside the engine, for TLC: the network    *)
(* and media path (MCMedia), the MCP task that watches a call (McpTask)    *)
(* and the breaker with its dispatcher and preflights (ProbeGate).  They   *)
(* share no state, so a behaviour exercises one of them, and the others    *)
(* stay in their initial states.                                           *)
(***************************************************************************)
EXTENDS MCMedia, McpTask

CONSTANTS
    Slots, BreakerThreshold, Cooldown, ProbeWindow, MaxTime     \* of ProbeGate

VARIABLES
    side,                                           \* the part of this behaviour
    clock, breaker, work, since, probes, probeAt    \* of ProbeGate

gateVars == <<clock, breaker, work, since, probes, probeAt>>
partVars == <<side, mediaVars, vars, gateVars>>

Gate == INSTANCE ProbeGate WITH now <- clock, Threshold <- BreakerThreshold

Sides == {"media", "task", "gate"}

PartsInit ==
    /\ side \in Sides
    /\ MCInit /\ Init /\ Gate!Init
    /\ side # "media" => part = "preflight"

Media == side = "media" /\ MCNext /\ UNCHANGED <<side, vars, gateVars>>
TaskServer == side = "task" /\ Next /\ UNCHANGED <<side, mediaVars, gateVars>>
BreakerGate == side = "gate" /\ Gate!Next /\ UNCHANGED <<side, mediaVars, vars>>

(* The pacer's ticker is a timer of the runtime; the rest is the fairness  *)
(* of McpTask and of ProbeGate, each in the behaviours that exercise it.   *)
PartsSpec ==
    /\ PartsInit /\ [][Media \/ TaskServer \/ BreakerGate]_partVars
    /\ WF_mediaVars(side = "media" /\ DownlinkTick)
    /\ WF_vars(side = "task" /\ TimePasses)
    /\ \A c \in Calls :
          /\ WF_vars(side = "task" /\ SweepComes(c))
          /\ WF_vars(side = "task" /\ PollComes(c))
          /\ WF_vars(side = "task" /\ TalkEnds(c))
    /\ WF_gateVars(side = "gate" /\ Gate!Tick)
    /\ WF_gateVars(side = "gate" /\ Gate!Mark)
    /\ \A s \in Slots :
          WF_gateVars(/\ side = "gate"
                      /\ Gate!Cancelled(s) \/ \E ok \in BOOLEAN : Gate!Reported(s, ok))

-----------------------------------------------------------------------------
(* breaker.rs:2: what is left of "a single half-open probe" for every      *)
(* cooldown and window: probes in their preflight together were sent a     *)
(* full cooldown apart.  The instance has a cooldown shorter than the      *)
(* window, as the defaults have, so that probes do overlap.                *)
ProbesAreSpaced == Gate!ProbesAreSpaced

(* breaker.rs: a hold ends within one window and one cooldown, also when   *)
(* the probe that it waits for was cancelled or lost.                      *)
HoldEnds == Gate!HoldEnds
=============================================================================
