--------------------------- MODULE ProbeGateProofs ---------------------------
(***************************************************************************)
(* ProbesAreSpaced for every number of slots, threshold, cooldown and      *)
(* window.  The inductive argument is about the next probe: while one is   *)
(* in its preflight, either its own deadline still holds everybody, or a   *)
(* report has cleared its flag, and then the breaker is closed or open for *)
(* a cooldown from that report on.                                         *)
(***************************************************************************)
EXTENDS ProbeGate, FiniteSetTheorems, TLAPS

(* preflight_max_window_ms adds a margin of 15 s to whatever is configured *)
(* (net_check.rs).                                                         *)
WindowIsPositive == ProbeWindow >= 1

(* A preflight is under way, or about to be: the probe until it is marked. *)
Preflighting == {s \in Slots : work[s] # "free"}

GateTypeOK ==
    /\ now \in Nat \ {0}
    /\ breaker \in BreakerState
    /\ work \in [Slots -> {"free", "claimed", "preflight"}]
    /\ since \in [Slots -> Nat]
    /\ probes \subseteq Slots
    /\ probeAt \in Nat

(* A disabled breaker never opens. *)
DisabledClosed == Threshold = 0 => breaker.openUntil = 0

(* An open breaker has seen its failures, so the next one trips it anew.   *)
OpenMeansTripped == breaker.openUntil # 0 => breaker.fails >= Threshold

(* A preflight is within its window, and every probe is a preflight. *)
InWindow ==
    /\ probes \subseteq Preflighting
    /\ \A s \in Preflighting : now < since[s] + ProbeWindow /\ since[s] <= now

(* No time passes between the decision and the mark. *)
MarkPending == probeAt # 0 => probeAt = now

(* What keeps the next probe a cooldown away from this one. *)
HeldOff(s) ==
    \/ probeAt # 0
    \/ breaker.openUntil = 0
    \/ since[s] + Cooldown <= breaker.openUntil
    \/ breaker.probing /\ since[s] + ProbeWindow <= breaker.probeDeadline

GateInv ==
    /\ GateTypeOK
    /\ DisabledClosed
    /\ OpenMeansTripped
    /\ InWindow
    /\ MarkPending
    /\ \A s \in probes : HeldOff(s)
    /\ ProbesAreSpaced

-----------------------------------------------------------------------------
(* What decision() answers with Probe: the breaker is open, its cooldown   *)
(* is over, and no probe holds it.                                         *)
LEMMA ProbeMeansCooledDown ==
    ASSUME GateTypeOK, IsProbe(breaker, now)
    PROVE  /\ breaker.openUntil # 0 /\ breaker.openUntil <= now
           /\ breaker.probing => breaker.probeDeadline <= now
BY DEF IsProbe, HoldUntil, GateTypeOK, BreakerState

(* So the probes that are still out were sent a cooldown ago. *)
LEMMA ProbeComesLater ==
    ASSUME GateInv, probeAt = 0, IsProbe(breaker, now), NEW u \in probes
    PROVE  since[u] + Cooldown <= now
<1>1. /\ breaker.openUntil # 0 /\ breaker.openUntil <= now
      /\ breaker.probing => breaker.probeDeadline <= now
    BY ProbeMeansCooledDown DEF GateInv
<1>2. now < since[u] + ProbeWindow /\ u \in Slots
    BY DEF GateInv, GateTypeOK, InWindow
<1>3. ~(breaker.probing /\ since[u] + ProbeWindow <= breaker.probeDeadline)
    BY <1>1, <1>2, BreakerAssumption DEF GateInv, GateTypeOK, BreakerState
<1>4. since[u] + Cooldown <= breaker.openUntil
    BY <1>1, <1>3 DEF GateInv, HeldOff
<1> QED
    BY <1>1, <1>2, <1>4, BreakerAssumption DEF GateInv, GateTypeOK, BreakerState

LEMMA InitGateInv == Init => GateInv
BY BreakerAssumption
   DEF Init, Closed, GateInv, GateTypeOK, BreakerState, DisabledClosed, OpenMeansTripped,
       InWindow, MarkPending, ProbesAreSpaced, Preflighting

-----------------------------------------------------------------------------
(* Preservation, one lemma per action. *)
LEMMA TickKeeps == GateInv /\ Tick => GateInv'
<1> SUFFICES ASSUME GateInv, Tick PROVE GateInv'
    OBVIOUS
<1>1. GateTypeOK' /\ DisabledClosed' /\ OpenMeansTripped' /\ MarkPending'
    BY DEF GateInv, GateTypeOK, DisabledClosed, OpenMeansTripped, MarkPending, Tick
<1>2. Preflighting' = Preflighting
    BY DEF Tick, Preflighting
<1>3. InWindow'
    BY <1>2 DEF GateInv, GateTypeOK, InWindow, Tick, Preflighting
<1>4. (\A s \in probes' : HeldOff(s)') /\ ProbesAreSpaced'
    BY DEF GateInv, HeldOff, ProbesAreSpaced, Tick
<1> QED
    BY <1>1, <1>3, <1>4 DEF GateInv

(* The mark holds everybody until a window from now, when whatever probe   *)
(* is out by now is over.                                                  *)
LEMMA MarkKeeps == GateInv /\ Mark => GateInv'
<1> SUFFICES ASSUME GateInv, Mark PROVE GateInv'
    OBVIOUS
<1>1. /\ breaker'.openUntil = breaker.openUntil /\ breaker'.fails = breaker.fails
      /\ breaker'.probing
      /\ breaker'.probeDeadline = now + ProbeWindow
      /\ breaker' \in BreakerState
    BY BreakerAssumption DEF GateInv, GateTypeOK, MarkPending, Mark, MarkProbe, BreakerState
<1>2. Preflighting' = Preflighting
    BY DEF Mark, Preflighting
<1>3. /\ GateTypeOK' /\ DisabledClosed' /\ OpenMeansTripped' /\ MarkPending' /\ InWindow'
      /\ ProbesAreSpaced'
    BY <1>1, <1>2
       DEF GateInv, GateTypeOK, DisabledClosed, OpenMeansTripped, MarkPending, InWindow,
           ProbesAreSpaced, Mark
<1>4. ASSUME NEW s \in probes' PROVE HeldOff(s)'
  <2>1. s \in Slots /\ since[s] <= now /\ since' = since
      BY <1>4 DEF GateInv, GateTypeOK, InWindow, Mark
  <2>2. since[s] + ProbeWindow <= now + ProbeWindow
      BY <2>1, BreakerAssumption DEF GateInv, GateTypeOK
  <2> QED
      BY <1>1, <2>1, <2>2 DEF HeldOff
<1> QED
    BY <1>3, <1>4 DEF GateInv

LEMMA ClaimKeeps ==
    ASSUME WindowIsPositive, GateInv, NEW s \in Slots, Claim(s)
    PROVE  GateInv'
<1>1. GateTypeOK' /\ DisabledClosed' /\ OpenMeansTripped' /\ MarkPending'
    BY DEF GateInv, GateTypeOK, DisabledClosed, OpenMeansTripped, MarkPending, Claim
<1>2. Preflighting' = Preflighting \cup {s}
    BY DEF GateInv, GateTypeOK, Claim, Preflighting
<1>3. \A u \in Preflighting : u # s /\ since'[u] = since[u]
    BY DEF GateInv, GateTypeOK, Claim, Preflighting
<1>4. since'[s] = now /\ now' = now /\ breaker' = breaker
    BY DEF GateInv, GateTypeOK, Claim
<1>5. probes \subseteq Preflighting
    BY DEF GateInv, InWindow
<1>6. now < now + ProbeWindow
    BY BreakerAssumption DEF WindowIsPositive, GateInv, GateTypeOK
<1>7. InWindow'
    BY <1>2, <1>3, <1>4, <1>6 DEF GateInv, GateTypeOK, InWindow, Claim
<1>8. CASE IsProbe(breaker, now)
  <2>1. probes' = probes \cup {s} /\ probeAt' = now /\ now # 0
      BY <1>8 DEF Claim, GateInv, GateTypeOK
  <2>2. \A u \in probes' : HeldOff(u)'
      BY <2>1 DEF HeldOff
  <2>3. \A u \in probes : since'[u] + Cooldown <= since'[s]
      BY <1>3, <1>4, <1>5, <1>8, ProbeComesLater DEF Claim
  <2>4. ProbesAreSpaced'
      BY <1>3, <1>5, <2>1, <2>3 DEF GateInv, ProbesAreSpaced
  <2> QED
      BY <1>1, <1>7, <2>2, <2>4 DEF GateInv
<1>9. CASE ~IsProbe(breaker, now)
  <2>1. probes' = probes /\ probeAt' = probeAt
      BY <1>9 DEF Claim
  <2>2. \A u \in probes' : HeldOff(u)'
      BY <1>3, <1>4, <1>5, <2>1 DEF GateInv, HeldOff
  <2>3. ProbesAreSpaced'
      BY <1>3, <1>5, <2>1 DEF GateInv, ProbesAreSpaced
  <2> QED
      BY <1>1, <1>7, <2>2, <2>3 DEF GateInv
<1> QED
    BY <1>8, <1>9

(* A slot that is freed: by a report, or by a cancel that reports nothing. *)
LEMMA FreeFacts ==
    ASSUME GateInv, NEW s \in Slots, Free(s), probeAt' = probeAt, now' = now
    PROVE  /\ Preflighting' = Preflighting \ {s}
           /\ \A u \in Preflighting' : since'[u] = since[u]
           /\ probes' = probes \ {s} /\ probes' \subseteq Preflighting'
           /\ work' \in [Slots -> {"free", "claimed", "preflight"}]
           /\ since' \in [Slots -> Nat]
           /\ InWindow' /\ MarkPending' /\ ProbesAreSpaced'
<1>1. /\ Preflighting' = Preflighting \ {s}
      /\ \A u \in Preflighting' : since'[u] = since[u]
      /\ probes' = probes \ {s}
      /\ work' \in [Slots -> {"free", "claimed", "preflight"}]
      /\ since' \in [Slots -> Nat]
    BY DEF GateInv, GateTypeOK, Free, Preflighting
<1>2. InWindow' /\ MarkPending'
    BY <1>1 DEF GateInv, InWindow, MarkPending
<1>3. probes' \subseteq Preflighting'
    BY <1>2 DEF InWindow
<1>4. ProbesAreSpaced'
    BY <1>1, <1>3 DEF GateInv, ProbesAreSpaced
<1> QED
    BY <1>1, <1>2, <1>3, <1>4

(* Every report clears the flag; a failure of an open breaker trips it for *)
(* a cooldown from now.                                                    *)
LEMMA ReportedKeeps ==
    ASSUME GateInv, NEW s \in Slots, NEW ok \in BOOLEAN, Reported(s, ok)
    PROVE  GateInv'
<1>1. Free(s) /\ probeAt' = probeAt /\ now' = now
    BY DEF Reported
<1>2. /\ \A u \in Preflighting' : since'[u] = since[u]
      /\ probes' = probes \ {s} /\ probes' \subseteq Preflighting'
      /\ work' \in [Slots -> {"free", "claimed", "preflight"}]
      /\ since' \in [Slots -> Nat]
      /\ InWindow' /\ MarkPending' /\ ProbesAreSpaced'
    BY <1>1, FreeFacts
<1>3. /\ breaker' \in BreakerState
      /\ Threshold = 0 => breaker' = breaker
      /\ Threshold # 0 => \/ breaker'.openUntil = 0
                          \/ /\ breaker'.openUntil = now + Cooldown
                             /\ breaker'.fails >= Threshold
    BY BreakerAssumption
       DEF GateInv, GateTypeOK, BreakerState, OpenMeansTripped, Reported, OnResult
<1>4. GateTypeOK' /\ DisabledClosed' /\ OpenMeansTripped'
    BY <1>1, <1>2, <1>3
       DEF GateInv, GateTypeOK, DisabledClosed, OpenMeansTripped, Free
<1>5. ASSUME NEW u \in probes' PROVE HeldOff(u)'
  <2>1. u \in Slots /\ u \in probes /\ since'[u] = since[u] /\ since[u] <= now
      BY <1>2, <1>5 DEF GateInv, GateTypeOK, InWindow
  <2>2. since[u] + Cooldown <= now + Cooldown
      BY <2>1, BreakerAssumption DEF GateInv, GateTypeOK
  <2> QED
      BY <1>1, <1>3, <2>1, <2>2 DEF GateInv, HeldOff, DisabledClosed
<1> QED
    BY <1>2, <1>4, <1>5 DEF GateInv

LEMMA CancelledKeeps ==
    ASSUME GateInv, NEW s \in Slots, Cancelled(s) PROVE GateInv'
<1>1. Free(s) /\ probeAt' = probeAt /\ now' = now /\ breaker' = breaker
    BY DEF Cancelled
<1>2. /\ \A u \in Preflighting' : since'[u] = since[u]
      /\ probes' = probes \ {s} /\ probes' \subseteq Preflighting'
      /\ work' \in [Slots -> {"free", "claimed", "preflight"}]
      /\ since' \in [Slots -> Nat]
      /\ InWindow' /\ MarkPending' /\ ProbesAreSpaced'
    BY <1>1, FreeFacts
<1>3. GateTypeOK' /\ DisabledClosed' /\ OpenMeansTripped'
    BY <1>1, <1>2 DEF GateInv, GateTypeOK, DisabledClosed, OpenMeansTripped
<1>4. \A u \in probes' : HeldOff(u)'
    BY <1>1, <1>2 DEF GateInv, HeldOff
<1> QED
    BY <1>2, <1>3, <1>4 DEF GateInv

(* Every step, stuttering included, preserves the invariant.               *)
LEMMA NextKeepsGateInv ==
    ASSUME WindowIsPositive, GateInv, [Next]_vars
    PROVE  GateInv'
<1>1. CASE Tick
    BY <1>1, TickKeeps
<1>2. CASE Mark
    BY <1>2, MarkKeeps
<1>3. CASE \E s \in Slots : Claim(s)
    BY <1>3, ClaimKeeps
<1>4. CASE \E s \in Slots : Cancelled(s)
    BY <1>4, CancelledKeeps
<1>5. CASE \E s \in Slots : \E ok \in BOOLEAN : Reported(s, ok)
    BY <1>5, ReportedKeeps
<1>6. CASE UNCHANGED vars
    BY <1>6 DEF vars, GateInv, GateTypeOK, DisabledClosed, OpenMeansTripped, InWindow,
                MarkPending, HeldOff, ProbesAreSpaced, Preflighting
<1> QED
    BY <1>1, <1>2, <1>3, <1>4, <1>5, <1>6 DEF Next

(* The invariant holds in every reachable state.                           *)
THEOREM GateInvariant ==
    ASSUME WindowIsPositive
    PROVE  Spec => []GateInv
<1>1. Init => GateInv
    BY InitGateInv
<1>2. GateInv /\ [Next]_vars => GateInv'
    BY NextKeepsGateInv
<1> QED
    BY <1>1, <1>2, PTL DEF Spec

(* Probes that are in their preflight together were sent a cooldown apart, *)
(* for any slots, threshold, cooldown and window (breaker.rs:84).          *)
THEOREM ProbesKeepApart ==
    ASSUME WindowIsPositive
    PROVE  Spec => []ProbesAreSpaced
<1>1. GateInv => ProbesAreSpaced
    BY DEF GateInv
<1> QED
    BY <1>1, GateInvariant, PTL

-----------------------------------------------------------------------------
(* No three of the probes in preflight are different. *)
AtMostTwo == \A s, u, v \in probes : s = u \/ s = v \/ u = v

(* When two cooldowns fill the window, as with the defaults (two of 60 s   *)
(* against 75.6 s), two probes may overlap, three never (breaker.rs:2).    *)
THEOREM TwoProbesAtMost ==
    ASSUME WindowIsPositive, ProbeWindow <= 2 * Cooldown
    PROVE  Spec => []AtMostTwo
<1>1. ASSUME GateInv PROVE AtMostTwo
  <2> SUFFICES ASSUME NEW s \in probes, NEW u \in probes, NEW v \in probes,
                      s # u, s # v, u # v
               PROVE  FALSE
      BY DEF AtMostTwo
  <2>1. /\ now \in Nat /\ since[s] \in Nat /\ since[u] \in Nat /\ since[v] \in Nat
        /\ Cooldown \in Nat /\ ProbeWindow \in Nat
      BY <1>1, BreakerAssumption DEF GateInv, GateTypeOK
  <2>2. /\ now < since[s] + ProbeWindow /\ since[s] <= now
        /\ now < since[u] + ProbeWindow /\ since[u] <= now
        /\ now < since[v] + ProbeWindow /\ since[v] <= now
      BY <1>1 DEF GateInv, InWindow
  <2>3. /\ since[s] + Cooldown <= since[u] \/ since[u] + Cooldown <= since[s]
        /\ since[s] + Cooldown <= since[v] \/ since[v] + Cooldown <= since[s]
        /\ since[u] + Cooldown <= since[v] \/ since[v] + Cooldown <= since[u]
      BY <1>1 DEF GateInv, ProbesAreSpaced
  <2> QED
      BY <2>1, <2>2, <2>3
<1> QED
    BY <1>1, GateInvariant, PTL

(* One at a time it is where the cooldown is as long as the window, which  *)
(* the defaults do not see to (breaker.rs:2).                              *)
COROLLARY SingleWithLongCooldown ==
    ASSUME WindowIsPositive, ProbeWindow <= Cooldown
    PROVE  Spec => []SingleProbe
<1>1. ASSUME GateInv PROVE SingleProbe
  <2>1. ASSUME NEW s \in probes, NEW u \in probes PROVE s = u
    <3>1. /\ now < since[s] + ProbeWindow /\ since[s] <= now /\ s \in Slots
          /\ now < since[u] + ProbeWindow /\ since[u] <= now /\ u \in Slots
        BY <1>1 DEF GateInv, GateTypeOK, InWindow
    <3>2. s # u => since[s] + Cooldown <= since[u] \/ since[u] + Cooldown <= since[s]
        BY <1>1 DEF GateInv, ProbesAreSpaced
    <3> QED
        BY <1>1, <3>1, <3>2, BreakerAssumption DEF GateInv, GateTypeOK
  <2>2. CASE probes = {}
      BY <2>2, FS_EmptySet DEF SingleProbe
  <2>3. CASE probes # {}
    <3>1. PICK s \in probes : TRUE
        BY <2>3
    <3>2. probes = {s}
        BY <2>1, <3>1
    <3>3. Cardinality({s}) = 1
        BY FS_Singleton
    <3> QED
        BY <3>2, <3>3 DEF SingleProbe
  <2> QED
      BY <2>2, <2>3
<1> QED
    BY <1>1, GateInvariant, PTL
=============================================================================
