----------------------------- MODULE MagnetProofs -----------------------------
(***************************************************************************)
(* Proofs about PersistentMagnet for every current limit, every set of     *)
(* segments and targets, and any calls.                                    *)
(***************************************************************************)
EXTENDS PersistentMagnet, WellFoundedInduction, TLAPS

\* What a magnet is made of; the values of currents and rates do not matter here.
Parts == {"current", "setpoint", "status", "rate", "heater", "hot", "coil", "toggle",
          "gen", "at", "target", "match", "tracked", "ready"}
Places == {"matching", "warmup", "ramping", "settling", "done"}
Shaped(x) == x = [p \in Parts |-> x[p]]

\* A generator that waits for the PSU to match the coil: while the PSU is on its way, it is on the
\* way to the coil current and the heater is off; when it stands at the current that
\* was read, it is safe to heat the switch, or the switch is heated.  A quench behind which the
\* generator still waits leaves it with a current that the PSU does not reach.
Matches(x) ==
  x.at = "matching" =>
    /\ x.status = "RAMPING" =>
         ~x.heater /\ x.match = x.coil /\ x.setpoint = x.coil /\ x.current # x.coil
    /\ x.status # "RAMPING" /\ x.current = x.match => x.heater \/ x.current = x.coil

MagnetInv == Shaped(m) /\ m.at \in Places /\ Matches(m)

\* What follows a magnet without a quench of its own making.
Follows(x, y) == Shaped(y) /\ y.at \in Places /\ Matches(y) /\ (y.status = "QUENCH" => x.status = "QUENCH")

-----------------------------------------------------------------------------
(* The stages.                                                              *)

\* A generator behind its matching waits for nothing of the coil.
LEMMA BehindMatching ==
  ASSUME NEW x, NEW y, Shaped(y), y.at \in Places \ {"matching"},
         y.status = "QUENCH" => x.status = "QUENCH"
  PROVE  Follows(x, y)
  BY DEF Follows, Matches

LEMMA FinishedFollows == ASSUME NEW x, Shaped(x) PROVE
  /\ Shaped(Finished(x)) /\ Finished(x).at = "done" /\ Finished(x).status = x.status
  BY DEF Shaped, Parts, Finished, At, Deenergised, HeaterDrivenOff

LEMMA SettleFollows == ASSUME NEW x, Shaped(x) PROVE
  /\ Shaped(SettleStage(x)) /\ SettleStage(x).at \in {"settling", "done"} /\ SettleStage(x).status = x.status
<1>1. Shaped(At(x, "settling")) /\ At(x, "settling").at = "settling" /\ At(x, "settling").status = x.status
  BY DEF Shaped, Parts, At
<1> QED
  BY <1>1, FinishedFollows DEF SettleStage

\* A command to the PSU changes neither the coil nor its current.
LEMMA SetpointEffect == ASSUME NEW x, Shaped(x), NEW current PROVE
  /\ Shaped(SetSetpoint(x, current))
  /\ \A p \in Parts \ {"setpoint", "status"} : SetSetpoint(x, current)[p] = x[p]
  /\ SetSetpoint(x, current).status = "QUENCH" <=> x.status = "QUENCH"
  /\ x.status # "QUENCH" =>
       /\ SetSetpoint(x, current).setpoint = current
       /\ current # x.current => SetSetpoint(x, current).status = "RAMPING"
  BY DEF Shaped, Parts, SetSetpoint

LEMMA RampFollows == ASSUME NEW x, Shaped(x) PROVE
  /\ Shaped(RampStage(x)) /\ RampStage(x).at \in {"ramping", "settling", "done"}
  /\ RampStage(x).status = "QUENCH" => x.status = "QUENCH"
<1>1. CASE x.current = x.target \/ x.status = "QUENCH"
  BY <1>1, SettleFollows DEF RampStage
<1>2. CASE ~(x.current = x.target \/ x.status = "QUENCH") /\ x.status = "RAMPING"
  BY <1>2 DEF RampStage, At, Shaped, Parts
<1>3. CASE ~(x.current = x.target \/ x.status = "QUENCH") /\ x.status # "RAMPING"
  <2> DEFINE step == IF x.target > x.current THEN 1 ELSE -1
             rate == SegmentRate(x.current, step)
             next == NextSetpoint(x.current, x.target)
             y == [x EXCEPT !.rate = rate]
  <2>1. RampStage(x) = At(SetSetpoint(y, next), "ramping")
    BY <1>3 DEF RampStage
  <2> HIDE DEF rate, next
  <2>2. Shaped(y) /\ y.status = x.status
    BY DEF Shaped, Parts
  <2> HIDE DEF y
  <2>3. Shaped(SetSetpoint(y, next)) /\ SetSetpoint(y, next).status # "QUENCH"
    BY <1>3, <2>2, SetpointEffect
  <2> QED
    BY <2>1, <2>3 DEF At, Shaped, Parts
<1> QED
  BY <1>1, <1>2, <1>3

LEMMA WarmFollows == ASSUME NEW x, Shaped(x) PROVE
  /\ Shaped(WarmStage(x)) /\ WarmStage(x).at \in Places \ {"matching"}
  /\ WarmStage(x).status = "QUENCH" => x.status = "QUENCH"
<1>1. CASE x.ready
  BY <1>1, RampFollows DEF WarmStage, Places
<1>2. CASE ~x.ready
  BY <1>2 DEF WarmStage, At, Shaped, Parts, Places
<1> QED
  BY <1>1, <1>2

\* The switch is heated without a quench when PSU and coil agree.
LEMMA EnergisedFollows ==
  ASSUME NEW x, Shaped(x), x.heater \/ x.current = x.coil
  PROVE  /\ Shaped(Energised(x)) /\ Energised(x).status = x.status
         /\ Energised(x).at = x.at /\ Energised(x).heater
  BY DEF Energised, HeaterDrivenOn, Shaped, Parts

LEMMA WarmHeated ==
  ASSUME NEW x, Shaped(x), x.heater \/ x.current = x.coil
  PROVE  Follows(x, WarmStage(Energised(x)))
<1>1. Shaped(Energised(x)) /\ Energised(x).status = x.status
  BY EnergisedFollows
<1>2. /\ Shaped(WarmStage(Energised(x))) /\ WarmStage(Energised(x)).at \in Places \ {"matching"}
      /\ WarmStage(Energised(x)).status = "QUENCH" => x.status = "QUENCH"
  BY <1>1, WarmFollows
<1> QED
  BY <1>2, BehindMatching

\* The stage that heats the switch, from any magnet that may be waiting in it.
LEMMA MatchFollows ==
  ASSUME NEW x, Shaped(x), Matches(At(x, "matching"))
  PROVE  Follows(x, MatchStage(x))
<1> DEFINE y == At(x, "matching")
<1>0. Shaped(y) /\ y.at = "matching" /\ \A p \in Parts \ {"at"} : y[p] = x[p]
  BY DEF At, Shaped, Parts
<1>1. CASE x.status # "RAMPING" /\ x.current = x.match
  <2>1. x.heater \/ x.current = x.coil
    BY <1>0, <1>1 DEF Matches, Parts
  <2> QED
    BY <1>1, <2>1, WarmHeated DEF MatchStage
<1>2. CASE ~(x.status # "RAMPING" /\ x.current = x.match) /\ x.status = "QUENCH"
  <2>1. MatchStage(x) = At(x, "done")
    BY <1>2 DEF MatchStage
  <2>2. Shaped(At(x, "done")) /\ At(x, "done").at = "done" /\ At(x, "done").status = x.status
    BY DEF At, Shaped, Parts
  <2> QED
    BY <2>1, <2>2, BehindMatching DEF Places
<1>3. CASE ~(x.status # "RAMPING" /\ x.current = x.match) /\ x.status # "QUENCH"
  <2>1. MatchStage(x) = y
    BY <1>3 DEF MatchStage
  <2> QED
    BY <1>0, <1>3, <2>1 DEF Follows, Places, Parts
<1> QED
  BY <1>1, <1>2, <1>3

LEMMA StartMatchingFollows ==
  ASSUME NEW x, Shaped(x), ~x.heater PROVE Follows(x, StartMatching(x))
<1>1. CASE x.current = x.coil
  BY <1>1, WarmHeated DEF StartMatching
<1>2. CASE x.current # x.coil
  <2> DEFINE y == [x EXCEPT !.match = x.coil, !.rate = DefaultRate]
             z == SetSetpoint(y, x.coil)
  <2>1. /\ Shaped(y) /\ y.match = x.coil /\ y.coil = x.coil /\ y.current = x.current
        /\ y.heater = x.heater /\ y.status = x.status
    BY DEF Shaped, Parts
  <2> HIDE DEF y
  <2>2. /\ Shaped(z) /\ z.match = x.coil /\ z.coil = x.coil /\ z.current = x.current
        /\ z.heater = x.heater
        /\ z.status = "QUENCH" <=> x.status = "QUENCH"
        /\ z.status # "QUENCH" => z.setpoint = x.coil /\ z.status = "RAMPING"
    <3>1. SetSetpoint(y, x.coil).status = "QUENCH" <=> y.status = "QUENCH"
      BY <2>1, SetpointEffect
    <3>2. Shaped(z) /\ \A p \in Parts \ {"setpoint", "status"} : z[p] = y[p]
      BY <2>1, SetpointEffect
    <3>3. y.status # "QUENCH" => z.setpoint = x.coil /\ z.status = "RAMPING"
      BY <1>2, <2>1, SetpointEffect
    <3> QED
      BY <2>1, <3>1, <3>2, <3>3 DEF Parts
  <2> HIDE DEF z
  <2>3. Matches(At(z, "matching"))
    BY <1>2, <2>2 DEF Matches, At, Shaped, Parts
  <2>4. StartMatching(x) = MatchStage(z)
    BY <1>2 DEF StartMatching, y, z
  <2>5. Follows(z, MatchStage(z))
    BY <2>2, <2>3, MatchFollows
  <2> QED
    BY <2>2, <2>4, <2>5 DEF Follows
<1> QED
  BY <1>1, <1>2

\* The first step of a ramp, whatever the magnet was waiting for before.
LEMMA FirstFollows ==
  ASSUME NEW x, Shaped(x), x.gen \in {"normal", "manual", "park", "unload"}
  PROVE  Follows(x, First(x))
<1>1. ASSUME NEW y, Shaped(y), y.status = x.status PROVE Follows(x, WarmStage(y))
  <2>1. /\ Shaped(WarmStage(y)) /\ WarmStage(y).at \in Places \ {"matching"}
        /\ WarmStage(y).status = "QUENCH" => y.status = "QUENCH"
    BY <1>1, WarmFollows
  <2> QED
    BY <1>1, <2>1, BehindMatching
<1>2. Follows(x, RampStage(x))
  <2>1. /\ Shaped(RampStage(x)) /\ RampStage(x).at \in Places \ {"matching"}
        /\ RampStage(x).status = "QUENCH" => x.status = "QUENCH"
    BY RampFollows DEF Places
  <2> QED
    BY <2>1, BehindMatching
<1>3. CASE x.heater /\ x.gen = "normal"
  <2>1. Shaped([x EXCEPT !.tracked = TRUE]) /\ [x EXCEPT !.tracked = TRUE].status = x.status
    BY DEF Shaped, Parts
  <2>2. First(x) = WarmStage([x EXCEPT !.tracked = TRUE])
    BY <1>3 DEF First
  <2> QED
    BY <1>1, <2>1, <2>2
<1>4. CASE ~x.heater /\ x.gen \in {"normal", "unload"}
  <2>1. First(x) = StartMatching(x)
    BY <1>4 DEF First
  <2> QED
    BY <1>4, <2>1, StartMatchingFollows
<1>5. CASE x.gen \in {"manual", "park"} \/ (x.heater /\ x.gen = "unload")
  <2>1. First(x) = RampStage(x)
    BY <1>5 DEF First
  <2> QED
    BY <1>2, <2>1
<1> QED
  BY <1>3, <1>4, <1>5

LEMMA ResumedFollows ==
  ASSUME NEW x, Shaped(x), x.at \in Places \ {"done"}, Matches(x)
  PROVE  Follows(x, Resumed(x))
<1>1. CASE x.at = "matching"
  <2>1. At(x, "matching") = x
    BY <1>1 DEF At, Shaped, Parts
  <2>2. Resumed(x) = MatchStage(x)
    BY <1>1 DEF Resumed
  <2> QED
    BY <2>1, <2>2, MatchFollows
<1>2. CASE x.at = "warmup"
  <2>1. Resumed(x) = WarmStage(x)
    BY <1>2 DEF Resumed
  <2> QED
    BY <2>1, WarmFollows, BehindMatching
<1>3. CASE x.at = "ramping"
  <2>1. Resumed(x) = RampStage(x)
    BY <1>3 DEF Resumed
  <2>2. RampStage(x).at \in Places \ {"matching"}
    BY RampFollows DEF Places
  <2> QED
    BY <2>1, <2>2, RampFollows, BehindMatching
<1>4. CASE x.at = "settling"
  <2>1. Resumed(x) = SettleStage(x)
    BY <1>4 DEF Resumed
  <2>2. SettleStage(x).at \in Places \ {"matching"} /\ SettleStage(x).status = x.status
    BY SettleFollows DEF Places
  <2> QED
    BY <2>1, <2>2, SettleFollows, BehindMatching
<1> QED
  BY <1>1, <1>2, <1>3, <1>4 DEF Places

-----------------------------------------------------------------------------
(* The actions.                                                             *)

\* A call that replaces the ramp.
LEMMA StartFollows ==
  ASSUME MagnetInv, NEW target, NEW gen \in {"normal", "manual", "park", "unload"},
         m' = First([m EXCEPT !.target = target, !.gen = gen])
  PROVE  Follows(m, m')
<1> DEFINE x == [m EXCEPT !.target = target, !.gen = gen]
<1>1. Shaped(x) /\ x.gen = gen /\ x.status = m.status
  BY DEF MagnetInv, Shaped, Parts
<1> HIDE DEF x
<1>2. Follows(x, First(x))
  BY <1>1, FirstFollows
<1> QED
  BY <1>1, <1>2 DEF Follows, x

LEMMA StopFollows ==
  ASSUME MagnetInv, StopRamp \/ Restart PROVE Follows(m, m')
<1>1. CASE StopRamp
  BY <1>1 DEF MagnetInv, StopRamp, Call, Hold, Follows, Matches, Shaped, Parts, Places
<1>2. CASE Restart
  BY <1>2 DEF MagnetInv, Restart, Call, Follows, Matches, Shaped, Parts, Places
<1> QED
  BY <1>1, <1>2

LEMMA ToggleFollows ==
  ASSUME MagnetInv, EnablePersistentMode \/ DisablePersistentMode PROVE Follows(m, m')
<1>1. \E mode \in BOOLEAN : m' = [m EXCEPT !.toggle = mode]
  BY DEF EnablePersistentMode, DisablePersistentMode, Call
<1> QED
  BY <1>1 DEF MagnetInv, Follows, Matches, Shaped, Parts

\* The operator heats the switch, or lets it cool, while a generator waits.
LEMMA HeaterFollows ==
  ASSUME MagnetInv, SwitchHeaterOn \/ SwitchHeaterOff PROVE Follows(m, m')
<1>1. CASE SwitchHeaterOn
  <2>1. m' = Energised(m) /\ (m.heater \/ m.current = m.coil)
    BY <1>1 DEF SwitchHeaterOn, Call, CoilCurrent
  <2>2. /\ m' = [m EXCEPT !.heater = m'.heater, !.tracked = TRUE]
        /\ m'.heater
    BY <2>1 DEF Energised, HeaterDrivenOn, MagnetInv, Shaped, Parts
  <2> QED
    BY <2>1, <2>2 DEF MagnetInv, Follows, Matches, Shaped, Parts
<1>2. CASE SwitchHeaterOff
  <2>1. m' = Deenergised(m)
    BY <1>2 DEF SwitchHeaterOff, Call
  <2>2. CASE m.heater
    BY <2>1, <2>2 DEF Deenergised, HeaterDrivenOff, MagnetInv, Follows, Matches, Shaped, Parts
  <2>3. CASE ~m.heater
    BY <2>1, <2>3 DEF Deenergised, HeaterDrivenOff, MagnetInv, Follows, Matches, Shaped, Parts
  <2> QED
    BY <2>2, <2>3
<1> QED
  BY <1>1, <1>2

LEMMA PsuFollows == ASSUME MagnetInv, PsuMoves PROVE Follows(m, m')
<1> DEFINE next == m.current + (IF m.setpoint > m.current THEN 1 ELSE -1)
<1>1. /\ m.status = "RAMPING"
      /\ m' = [m EXCEPT !.current = next, !.status = IF next = m.setpoint THEN "HOLD" ELSE @]
  BY DEF PsuMoves
<1> HIDE DEF next
<1> QED
  BY <1>1 DEF MagnetInv, Follows, Matches, Shaped, Parts

LEMMA WarmthFollows == ASSUME MagnetInv, Warm PROVE Follows(m, m')
  BY DEF MagnetInv, Warm, Follows, Matches, Shaped, Parts

LEMMA ResetFollows == ASSUME MagnetInv, ResetQuench PROVE Follows(m, m')
  BY DEF MagnetInv, ResetQuench, Follows, Matches, Shaped, Parts

\* A quench leaves PSU and coil at the same current.
LEMMA QuenchKeeps == ASSUME MagnetInv, Quench PROVE MagnetInv'
  BY DEF MagnetInv, Quench, Quenched, Matches, Shaped, Parts

LEMMA StepFollows == ASSUME MagnetInv, MagnetNext, ~Quench PROVE Follows(m, m')
<1>1. ASSUME NEW field \in Fields, StartRamp(field) PROVE Follows(m, m')
  <2>1. \E gen \in {"normal", "manual"} :
          m' = First([m EXCEPT !.target = Clamp(field), !.gen = gen])
    BY <1>1 DEF StartRamp, Call
  <2> QED
    BY <2>1, StartFollows
<1>2. CASE Standby
  <2>1. m' = First([m EXCEPT !.target = 0, !.gen = StandbyKind(m)]) /\ StandbyKind(m) \in {"park", "unload"}
    BY <1>2 DEF Standby, Call, StandbyKind
  <2> QED
    BY <2>1, StartFollows
<1>3. CASE Advance
  BY <1>3, ResumedFollows DEF Advance, MagnetInv
<1> QED
  BY <1>1, <1>2, <1>3, StopFollows, ToggleFollows, HeaterFollows, PsuFollows, WarmthFollows, ResetFollows
  DEF MagnetNext, Operator

LEMMA MagnetInitInv == MagnetInit => MagnetInv
  BY DEF MagnetInit, MagnetInv, Matches, Shaped, Parts, Places

LEMMA MagnetNextInv == MagnetInv /\ [MagnetNext]_magnetVars => MagnetInv'
<1> SUFFICES ASSUME MagnetInv, [MagnetNext]_magnetVars PROVE MagnetInv'
  OBVIOUS
<1>1. CASE MagnetNext /\ ~Quench
  BY <1>1, StepFollows DEF Follows, MagnetInv
<1>2. CASE Quench
  BY <1>2, QuenchKeeps
<1>3. CASE UNCHANGED magnetVars
  BY <1>3 DEF magnetVars, MagnetInv, Matches, Shaped
<1> QED
  BY <1>1, <1>2, <1>3

\* For every current limit, every segment table and every order of calls and ticks, also when
\* somebody works the heater, quenches the magnet or rebuilds the VI under a ramp: no ramp,
\* standby or call heats the switch across a mismatch.
THEOREM NeverQuenchesHolds == MagnetSpec => NeverQuenches
<1>1. MagnetInv /\ [MagnetNext]_magnetVars =>
        [(m.status # "QUENCH" /\ m'.status = "QUENCH") => Quench]_magnetVars
  BY StepFollows DEF Follows
<1> QED
  BY MagnetInitInv, MagnetNextInv, <1>1, PTL DEF MagnetSpec, NeverQuenches

-----------------------------------------------------------------------------
(* Segments and their rates.                                                *)

\* A non-empty set of natural numbers has a least element: the library's induction, stated of
\* sets, where the provers can use it.
LEMMA NatLeast ==
  ASSUME NEW T \in SUBSET Nat, T # {}
  PROVE  \E x \in T : \A y \in T : x <= y
<1> DEFINE R == OpToRel(<, Nat)
<1>1. IsWellFoundedOn(R, Nat)
  BY NatLessThanWellFounded
<1>2. \A x, y \in Nat : <<x, y>> \in R <=> x < y
  BY DEF OpToRel
<1> HIDE DEF R
<1>3. PICK x \in T : \A y \in T : ~(<<y, x>> \in R)
  BY <1>1, WFMin
<1>4. \A y \in T : ~(y < x)
  BY <1>2, <1>3
<1>5. \A y \in T : x <= y
  BY <1>4
<1> QED
  BY <1>5

\* Min and Max choose what they say they choose.
LEMMA LeastOf ==
  ASSUME NEW S \in SUBSET Int, S # {}, NEW low \in Int, \A x \in S : low <= x
  PROVE  Min(S) \in S /\ \A x \in S : Min(S) <= x
<1> DEFINE T == {n \in Nat : n + low \in S}
<1>1. T # {}
  <2>1. PICK x \in S : TRUE
    OBVIOUS
  <2>2. x - low \in T
    BY <2>1
  <2> QED
    BY <2>2
<1>2. PICK n \in T : \A k \in T : n <= k
  <2> HIDE DEF T
  <2>1. T \in SUBSET Nat
    BY DEF T
  <2> QED
    BY <1>1, <2>1, NatLeast
<1>3. n + low \in S /\ n \in Nat
  BY <1>2
<1>4. \A x \in S : n + low <= x
  <2> SUFFICES ASSUME NEW x \in S PROVE n + low <= x
    OBVIOUS
  <2>1. x - low \in T
    OBVIOUS
  <2>2. n <= x - low
    BY <1>2, <2>1
  <2> QED
    BY <1>3, <2>2
<1> HIDE DEF T
<1>5. \E x \in S : \A y \in S : x <= y
  BY <1>3, <1>4
<1> QED
  BY <1>5 DEF Min

LEMMA GreatestOf ==
  ASSUME NEW S \in SUBSET Int, S # {}, NEW high \in Int, \A x \in S : x <= high
  PROVE  Max(S) \in S /\ \A x \in S : x <= Max(S)
<1> DEFINE T == {n \in Nat : high - n \in S}
<1>1. T # {}
  <2>1. PICK x \in S : TRUE
    OBVIOUS
  <2>2. high - x \in T
    BY <2>1
  <2> QED
    BY <2>2
<1>2. PICK n \in T : \A k \in T : n <= k
  <2> HIDE DEF T
  <2>1. T \in SUBSET Nat
    BY DEF T
  <2> QED
    BY <1>1, <2>1, NatLeast
<1>3. high - n \in S /\ n \in Nat
  BY <1>2
<1>4. \A x \in S : x <= high - n
  <2> SUFFICES ASSUME NEW x \in S PROVE x <= high - n
    OBVIOUS
  <2>1. high - x \in T
    OBVIOUS
  <2>2. n <= high - x
    BY <1>2, <2>1
  <2> QED
    BY <1>3, <2>2
<1> HIDE DEF T
<1>5. \E x \in S : \A y \in S : x >= y
  BY <1>3, <1>4
<1>6. Max(S) \in S /\ \A y \in S : Max(S) >= y
  BY <1>5 DEF Max
<1> QED
  BY <1>6

\* Segments end within the current limit, on both sides.
LEMMA EndsType == Ends \subseteq Currents /\ Segments \subseteq Nat /\ MaxCurrent \in Segments
<1>1. \A b \in Segments : b \in Int /\ 1 <= b /\ b <= MaxCurrent
  BY MagnetAssumption
<1>2. ASSUME NEW b \in Ends PROVE b \in Int /\ -MaxCurrent <= b /\ b <= MaxCurrent
  <2>1. CASE b \in Segments
    BY <1>1, <2>1, MagnetAssumption
  <2>2. CASE b \notin Segments
    <3>1. PICK c \in Segments : b = -c
      BY <2>2 DEF Ends
    <3> QED
      BY <1>1, <3>1, MagnetAssumption
  <2> QED
    BY <2>1, <2>2
<1>3. Ends \subseteq Currents
  BY <1>2, MagnetAssumption DEF Currents
<1>4. Segments \subseteq Nat
  BY <1>1
<1> QED
  BY <1>3, <1>4, MagnetAssumption

\* The PSU is sent on towards its target, and no further than the next end of a segment.
LEMMA NextIsInSegment ==
  ASSUME NEW from \in Currents, NEW to \in Currents, from # to
  PROVE  /\ NextSetpoint(from, to) \in Currents
         /\ from < to => from < NextSetpoint(from, to) /\ NextSetpoint(from, to) <= to
         /\ to < from => NextSetpoint(from, to) < from /\ to <= NextSetpoint(from, to)
         /\ \A b \in Ends : /\ ~(from < b /\ b < NextSetpoint(from, to))
                            /\ ~(NextSetpoint(from, to) < b /\ b < from)
<1>1. Currents \subseteq Int /\ Ends \subseteq Int
  BY EndsType, MagnetAssumption DEF Currents
<1>2. CASE from < to
  <2> DEFINE S == {to} \cup {b \in Ends : from < b /\ b < to}
  <2>1. Min(S) \in S /\ \A x \in S : Min(S) <= x
    <3>1. S \subseteq Int /\ to \in S
      BY <1>1
    <3>2. \A x \in S : from <= x
      BY <1>1, <1>2
    <3> HIDE DEF S
    <3> QED
      BY <1>1, <3>1, <3>2, LeastOf
  <2>2. NextSetpoint(from, to) = Min(S)
    BY <1>2 DEF NextSetpoint
  <2> DEFINE s == Min(S)
  <2>3. s \in S /\ \A x \in S : s <= x
    BY <2>1
  <2> HIDE DEF s
  <2>4. s \in Currents /\ from < s /\ s <= to /\ \A b \in Ends : ~(from < b /\ b < s) /\ ~(s < b /\ b < from)
    BY <1>1, <1>2, <2>3, EndsType
  <2> QED
    BY <1>1, <1>2, <2>2, <2>4 DEF s
<1>3. CASE to < from
  <2> DEFINE S == {to} \cup {b \in Ends : to < b /\ b < from}
  <2>1. Max(S) \in S /\ \A x \in S : x <= Max(S)
    <3>1. S \subseteq Int /\ to \in S
      BY <1>1
    <3>2. \A x \in S : x <= from
      BY <1>1, <1>3
    <3> HIDE DEF S
    <3> QED
      BY <1>1, <3>1, <3>2, GreatestOf
  <2>2. NextSetpoint(from, to) = Max(S)
    BY <1>1, <1>3 DEF NextSetpoint
  <2> DEFINE s == Max(S)
  <2>3. s \in S /\ \A x \in S : x <= s
    BY <2>1
  <2> HIDE DEF s
  <2>4. s \in Currents /\ s < from /\ to <= s /\ \A b \in Ends : ~(from < b /\ b < s) /\ ~(s < b /\ b < from)
    BY <1>1, <1>3, <2>3, EndsType
  <2> QED
    BY <1>1, <1>3, <2>2, <2>4 DEF s
<1> QED
  BY <1>1, <1>2, <1>3

\* Every move has a segment, since the last one ends at the current limit.
LEMMA RateIsOfSegment ==
  ASSUME NEW i \in Currents, NEW d \in {1, -1}, i + d \in Currents
  PROVE  SegmentRate(i, d) \in Segments
<1> DEFINE S == {b \in Segments : Abs(i) <= b /\ Abs(i + d) <= b}
<1>1. MaxCurrent \in S
  BY EndsType, MagnetAssumption DEF Currents, Abs
<1>2. S \subseteq Int /\ \A x \in S : 0 <= x
  <2>1. \A b \in Segments : b \in Int /\ 0 <= b
    BY EndsType
  <2> QED
    BY <2>1
<1>3. Min(S) \in S
  <2> HIDE DEF S
  <2> QED
    BY <1>1, <1>2, LeastOf
<1> QED
  BY <1>3 DEF SegmentRate

\* A PSU that is not at the end of a segment goes on at the rate it has.
LEMMA RateCarries ==
  ASSUME NEW i \in Currents, NEW d \in {1, -1}, i + d \in Currents, i + d \notin Ends
  PROVE  SegmentRate(i + d, d) = SegmentRate(i, d)
<1> DEFINE S == {b \in Segments : Abs(i) <= b /\ Abs(i + d) <= b}
           T == {b \in Segments : Abs(i + d) <= b /\ Abs(i + d + d) <= b}
<1>1. \A b \in Segments : b \in Nat /\ b # i + d /\ -b # i + d /\ b # 0
  BY EndsType, MagnetAssumption DEF Ends
<1>2. \A b \in Segments : b \in S <=> b \in T
  BY <1>1, MagnetAssumption DEF Abs, Currents
<1>3. S = T
  BY <1>2
<1> QED
  BY <1>3 DEF SegmentRate

-----------------------------------------------------------------------------
(* The discipline of the heater and of the rate.                            *)

Dir(x) == IF x.setpoint > x.current THEN 1 ELSE -1

\* The PSU drives within one segment, at its rate.
InSegment(x) ==
  /\ x.rate = SegmentRate(x.current, Dir(x))
  /\ \A b \in Ends : /\ ~(x.current < b /\ b < x.setpoint)
                     /\ ~(x.setpoint < b /\ b < x.current)

\* A PSU on its way drives the coil within a segment, or goes to the current of a coil that
\* it does not drive.
Driven(x) ==
  x.status = "RAMPING" =>
    x.setpoint # x.current /\ (InSegment(x) \/ (~x.heater /\ x.setpoint = x.coil))

\* Behind a quench there is no current anywhere, and the warm-up clock runs for a heater
\* that was turned on.
Sound(x) ==
  /\ x \in Magnet
  /\ Driven(x)
  /\ x.status = "QUENCH" => x.current = 0 /\ x.setpoint = 0 /\ x.coil = 0
  /\ x.ready => x.tracked

\* What the VI believes of the switch is so.
Believed(x) == (x.tracked => x.heater) /\ (x.ready => x.hot)

\* What every stage leaves as it was; behind a quench it ends the generator.
Kept(x, y) ==
  /\ Sound(y)
  /\ y.current = x.current /\ y.toggle = x.toggle /\ y.gen = x.gen /\ y.target = x.target
  /\ y.status = "QUENCH" => x.status = "QUENCH"
  /\ x.gen # "unload" => y.ready = x.ready
  /\ Believed(x) => Believed(y)
  /\ x.status = "QUENCH" => y.at = "done" /\ y.setpoint = x.setpoint

\* A stage that leaves the heater alone, but for the end of a full park.
Drives(x, y) ==
  /\ Kept(x, y)
  /\ y.heater => x.heater
  /\ x.gen # "unload" => y.heater = x.heater

\* The PSU is left as it is, and a switch that is heated stays so or freezes its current.
LEMMA DrivenKept ==
  ASSUME NEW x, NEW y, Driven(x), y.current = x.current, y.setpoint = x.setpoint,
         y.status = x.status, y.rate = x.rate,
         x.heater \/ (~y.heater /\ y.coil = x.coil)
  PROVE  Driven(y)
<1>1. InSegment(x) => InSegment(y)
  BY DEF InSegment, Dir
<1> QED
  BY <1>1 DEF Driven

\* The switch may be turned off, and its clock with it.
LEMMA SwitchedOff ==
  ASSUME NEW x, Sound(x), NEW y \in Magnet, y.current = x.current, y.setpoint = x.setpoint,
         y.status = x.status, y.rate = x.rate, y.toggle = x.toggle, y.gen = x.gen,
         y.target = x.target, x.gen = "unload", x.status # "QUENCH",
         ~y.heater, ~y.tracked, ~y.ready, x.heater \/ y.coil = x.coil
  PROVE  Drives(x, y)
<1>1. Driven(y)
  BY DrivenKept DEF Sound
<1>2. Sound(y)
  BY <1>1 DEF Sound
<1>3. Believed(y)
  BY DEF Believed
<1> QED
  BY <1>2, <1>3 DEF Drives, Kept

LEMMA PlaceDrives ==
  ASSUME NEW x, Sound(x), NEW place \in Places
  PROVE  /\ At(x, place).at = place
         /\ x.status # "QUENCH" \/ place = "done" => Drives(x, At(x, place))
         /\ \A p \in Parts \ {"at"} : At(x, place)[p] = x[p]
<1> DEFINE y == At(x, place)
<1>1. y \in Magnet /\ \A p \in Parts \ {"at"} : y[p] = x[p]
  BY DEF At, Sound, Magnet, Places, Parts
<1>2. y.at = place
  BY DEF At, Sound, Magnet
<1> HIDE DEF y
<1>3. /\ y.current = x.current /\ y.setpoint = x.setpoint /\ y.status = x.status /\ y.rate = x.rate
      /\ y.heater = x.heater /\ y.coil = x.coil /\ y.hot = x.hot /\ y.tracked = x.tracked
      /\ y.ready = x.ready /\ y.toggle = x.toggle /\ y.gen = x.gen /\ y.target = x.target
  BY <1>1 DEF Parts
<1>4. Driven(y)
  BY <1>3, DrivenKept DEF Sound
<1>5. Sound(y)
  BY <1>1, <1>3, <1>4 DEF Sound
<1>6. Believed(x) => Believed(y)
  BY <1>3 DEF Believed
<1>7. x.status # "QUENCH" \/ place = "done" => Drives(x, y)
  BY <1>2, <1>3, <1>5, <1>6 DEF Drives, Kept
<1> QED
  BY <1>1, <1>2, <1>7 DEF y

LEMMA FinishedDrives == ASSUME NEW x, Sound(x) PROVE
  Drives(x, Finished(x)) /\ Finished(x).at = "done" 
<1> DEFINE y == Finished(x)
<1>1. CASE x.gen = "unload" /\ x.status # "QUENCH"
  <2>1. y.at = "done" /\ y \in Magnet
    BY <1>1 DEF Finished, At, Deenergised, HeaterDrivenOff, Sound, Magnet
  <2>2. /\ y.current = x.current /\ y.toggle = x.toggle /\ y.gen = x.gen /\ y.target = x.target
        /\ y.status = x.status /\ y.setpoint = x.setpoint /\ y.rate = x.rate
    BY <1>1 DEF Finished, At, Deenergised, HeaterDrivenOff, Sound, Magnet
  <2>3. ~y.heater /\ ~y.tracked /\ ~y.ready /\ (x.heater \/ y.coil = x.coil)
    BY <1>1 DEF Finished, At, Deenergised, HeaterDrivenOff, Sound, Magnet
  <2> HIDE DEF y
  <2> QED
    BY <1>1, <2>1, <2>2, <2>3, SwitchedOff DEF y
<1>2. CASE ~(x.gen = "unload" /\ x.status # "QUENCH")
  <2>1. Finished(x) = At(x, "done")
    BY <1>2 DEF Finished
  <2> QED
    BY <2>1, PlaceDrives DEF Places
<1> QED
  BY <1>1, <1>2

\* The driver of a PSU that is at rest or on its way: what a new setpoint does.
LEMMA SetpointSent ==
  ASSUME NEW x \in Magnet, x.status # "QUENCH", NEW next \in Currents, next # x.current
  PROVE  LET y == SetSetpoint(x, next)
         IN  /\ y \in Magnet /\ y.setpoint = next /\ y.status = "RAMPING"
             /\ \A p \in Parts \ {"setpoint", "status"} : y[p] = x[p]
  BY DEF SetSetpoint, Magnet, Parts

LEMMA SettleDrives == ASSUME NEW x, Sound(x) PROVE
  /\ Drives(x, SettleStage(x)) /\ SettleStage(x).at \in {"settling", "done"}
  BY PlaceDrives, FinishedDrives DEF SettleStage, Places

LEMMA RampDrives == ASSUME NEW x, Sound(x) PROVE
  /\ Drives(x, RampStage(x)) /\ RampStage(x).at \in {"ramping", "settling", "done"}
<1>1. CASE x.current = x.target \/ x.status = "QUENCH"
  BY <1>1, SettleDrives DEF RampStage
<1>2. CASE ~(x.current = x.target \/ x.status = "QUENCH") /\ x.status = "RAMPING"
  BY <1>2, PlaceDrives DEF RampStage, Places
<1>3. CASE ~(x.current = x.target \/ x.status = "QUENCH") /\ x.status # "RAMPING"
  <2> DEFINE step == IF x.target > x.current THEN 1 ELSE -1
             rate == SegmentRate(x.current, step)
             next == NextSetpoint(x.current, x.target)
             y == [x EXCEPT !.rate = rate]
             z == SetSetpoint(y, next)
  <2>1. RampStage(x) = At(z, "ramping")
    BY <1>3 DEF RampStage
  <2>2. x \in Magnet /\ x.current \in Currents /\ x.target \in Currents /\ x.current # x.target
    BY <1>3 DEF Sound, Magnet
  <2>3. x.current \in Int /\ x.target \in Int /\ Currents \subseteq Int
    BY <2>2, MagnetAssumption DEF Currents
  <2>4. x.target > x.current \/ x.target < x.current
    BY <2>2, <2>3
  <2>5. x.current + step \in Currents
    BY <2>2, <2>4, MagnetAssumption DEF Currents
  <2>6. rate \in Segments
    BY <2>2, <2>5, RateIsOfSegment
  <2>7. /\ next \in Currents
        /\ x.current < x.target => x.current < next
        /\ x.target < x.current => next < x.current
        /\ \A b \in Ends : /\ ~(x.current < b /\ b < next) /\ ~(next < b /\ b < x.current)
    BY <2>2, NextIsInSegment
  <2>8. next # x.current /\ step = (IF next > x.current THEN 1 ELSE -1)
    <3> HIDE DEF next
    <3>1. next \in Int
      BY <2>3, <2>7
    <3>2. CASE x.target > x.current
      BY <2>3, <2>7, <3>1, <3>2
    <3>3. CASE x.target < x.current
      BY <2>3, <2>7, <3>1, <3>3
    <3> QED
      BY <2>4, <3>2, <3>3
  <2> HIDE DEF rate, next
  <2>9. y \in Magnet /\ y.rate = rate /\ \A p \in Parts \ {"rate"} : y[p] = x[p]
    BY <2>2, <2>6 DEF Magnet, Parts
  <2> HIDE DEF y
  <2>10. y.current = x.current /\ y.status = x.status
    BY <2>9 DEF Parts
  <2>11. /\ z \in Magnet /\ z.setpoint = next /\ z.status = "RAMPING"
         /\ \A p \in Parts \ {"setpoint", "status"} : z[p] = y[p]
    BY <1>3, <2>7, <2>8, <2>9, <2>10, SetpointSent
  <2> HIDE DEF z
  <2>12. /\ z.current = x.current /\ z.rate = rate /\ z.heater = x.heater /\ z.coil = x.coil
         /\ z.hot = x.hot /\ z.tracked = x.tracked /\ z.ready = x.ready /\ z.toggle = x.toggle
         /\ z.gen = x.gen /\ z.target = x.target
    BY <2>9, <2>11 DEF Parts
  <2>13. InSegment(z)
    BY <2>7, <2>8, <2>11, <2>12 DEF InSegment, Dir, rate
  <2>14. Driven(z)
    BY <2>8, <2>11, <2>12, <2>13 DEF Driven
  <2>15. Sound(z)
    BY <2>11, <2>12, <2>14 DEF Sound
  <2>16. Drives(z, At(z, "ramping")) /\ At(z, "ramping").at = "ramping"
    BY <2>11, <2>15, PlaceDrives DEF Places
  <2>17. Believed(x) => Believed(z)
    BY <2>12 DEF Believed
  <2> QED
    BY <1>3, <2>1, <2>11, <2>12, <2>16, <2>17 DEF Drives, Kept
<1> QED
  BY <1>1, <1>2, <1>3

\* A ramp goes on behind its warm-up only when the switch has had its time.
LEMMA WarmDrives == ASSUME NEW x, Sound(x) PROVE
  /\ Drives(x, WarmStage(x)) /\ WarmStage(x).at \in Places \ {"matching"}
  /\ WarmStage(x).at \in {"ramping", "settling"} => x.ready
<1>1. CASE x.ready
  BY <1>1, RampDrives DEF WarmStage, Places
<1>2. CASE ~x.ready
  BY <1>2, PlaceDrives DEF WarmStage, Places
<1> QED
  BY <1>1, <1>2

\* The switch is heated with PSU and coil in agreement, or it is heated already.
LEMMA EnergisedSound ==
  ASSUME NEW x, Sound(x), x.heater \/ x.current = x.coil
  PROVE  LET y == Energised(x)
         IN  /\ Sound(y)
             /\ Believed(x) => Believed(y)
             /\ y.heater /\ \A p \in Parts \ {"heater", "tracked"} : y[p] = x[p]
<1> DEFINE y == Energised(x)
<1>1. y \in Magnet /\ y.heater /\ y.tracked /\ \A p \in Parts \ {"heater", "tracked"} : y[p] = x[p]
  BY DEF Energised, HeaterDrivenOn, Sound, Magnet, Parts
<1> HIDE DEF y
<1>2. /\ y.current = x.current /\ y.setpoint = x.setpoint /\ y.status = x.status /\ y.rate = x.rate
      /\ y.coil = x.coil /\ y.hot = x.hot /\ y.ready = x.ready /\ y.toggle = x.toggle
      /\ y.gen = x.gen /\ y.target = x.target
  BY <1>1 DEF Parts
<1>3. x.status = "RAMPING" => x.setpoint # x.current /\ InSegment(x)
  BY DEF Sound, Driven
<1>4. InSegment(x) => InSegment(y)
  BY <1>2 DEF InSegment, Dir
<1>5. Driven(y)
  BY <1>2, <1>3, <1>4 DEF Driven
<1>6. Sound(y)
  BY <1>1, <1>2, <1>5 DEF Sound
<1>7. Believed(x) => Believed(y)
  BY <1>1, <1>2 DEF Believed
<1> QED
  BY <1>1, <1>6, <1>7 DEF y

\* A normal ramp that goes on behind this stage has its switch heated, and for long enough.
HeatedFor(x, y) ==
  x.gen = "normal" /\ y.at \in {"ramping", "settling"} => y.heater /\ y.ready

LEMMA WarmHeatedDrives ==
  ASSUME NEW x, Sound(x), x.heater \/ x.current = x.coil
  PROVE  LET y == WarmStage(Energised(x))
         IN  Kept(x, y) /\ y.at \in Places \ {"matching"} /\ HeatedFor(x, y)
<1> DEFINE e == Energised(x)
           y == WarmStage(e)
<1>1. /\ Sound(e)
      /\ Believed(x) => Believed(e)
      /\ e.heater /\ \A p \in Parts \ {"heater", "tracked"} : e[p] = x[p]
  BY EnergisedSound
<1> HIDE DEF e
<1>2. /\ e.current = x.current /\ e.setpoint = x.setpoint /\ e.status = x.status
      /\ e.ready = x.ready /\ e.toggle = x.toggle /\ e.gen = x.gen /\ e.target = x.target
  BY <1>1 DEF Parts
<1>3. /\ Drives(e, y) /\ y.at \in Places \ {"matching"}
      /\ y.at \in {"ramping", "settling"} => e.ready
  BY <1>1, WarmDrives
<1> HIDE DEF y
<1>4. Kept(x, y)
  BY <1>1, <1>2, <1>3 DEF Drives, Kept
<1>5. HeatedFor(x, y)
  BY <1>1, <1>2, <1>3 DEF Drives, Kept, HeatedFor
<1> QED
  BY <1>3, <1>4, <1>5 DEF y, e

\* What a stage that may heat the switch leaves: it heats it at the current that was read.
Matched(x, y) ==
  /\ Kept(x, y) /\ y.at \in Places /\ HeatedFor(x, y)
  /\ y.at = "matching" => y.match = x.match
  /\ ~x.heater /\ y.heater => x.coil = x.match

LEMMA MatchDrives ==
  ASSUME NEW x, Sound(x), x.status # "RAMPING" /\ x.current = x.match => x.heater \/ x.current = x.coil
  PROVE  Matched(x, MatchStage(x))
<1>1. CASE x.status # "RAMPING" /\ x.current = x.match
  <2>1. MatchStage(x) = WarmStage(Energised(x))
    BY <1>1 DEF MatchStage
  <2> QED
    BY <1>1, <2>1, WarmHeatedDrives DEF Matched
<1>2. CASE ~(x.status # "RAMPING" /\ x.current = x.match) /\ x.status = "QUENCH"
  <2>1. MatchStage(x) = At(x, "done")
    BY <1>2 DEF MatchStage
  <2>2. Drives(x, At(x, "done")) /\ At(x, "done").at = "done"
    BY PlaceDrives DEF Places
  <2> QED
    BY <2>1, <2>2 DEF Matched, Drives, HeatedFor, Places
<1>3. CASE ~(x.status # "RAMPING" /\ x.current = x.match) /\ x.status # "QUENCH"
  <2>1. MatchStage(x) = At(x, "matching")
    BY <1>3 DEF MatchStage
  <2>2. /\ Drives(x, At(x, "matching")) /\ At(x, "matching").at = "matching"
        /\ At(x, "matching").match = x.match
    BY <1>3, PlaceDrives DEF Places, Parts
  <2> QED
    BY <2>1, <2>2 DEF Matched, Drives, HeatedFor, Places
<1> QED
  BY <1>1, <1>2, <1>3

LEMMA StartMatchingDrives ==
  ASSUME NEW x, Sound(x), ~x.heater
  PROVE  LET y == StartMatching(x)
         IN  /\ Kept(x, y) /\ y.at \in Places /\ HeatedFor(x, y)
             /\ y.at = "matching" => y.match = x.coil
<1>1. CASE x.current = x.coil
  BY <1>1, WarmHeatedDrives DEF StartMatching
<1>2. CASE x.current # x.coil
  <2> DEFINE u == [x EXCEPT !.match = x.coil, !.rate = DefaultRate]
             z == SetSetpoint(u, x.coil)
  <2>1. /\ u \in Magnet /\ u.match = x.coil
        /\ \A p \in Parts \ {"match", "rate"} : u[p] = x[p]
    BY DEF Sound, Magnet, Parts
  <2> HIDE DEF u
  <2>2. x.status # "QUENCH" /\ x.coil \in Currents
    BY <1>2 DEF Sound, Magnet
  <2>3. u.status = x.status /\ u.current = x.current
    BY <2>1 DEF Parts
  <2>4. /\ z \in Magnet /\ z.setpoint = x.coil /\ z.status = "RAMPING"
        /\ \A p \in Parts \ {"setpoint", "status"} : z[p] = u[p]
    BY <1>2, <2>1, <2>2, <2>3, SetpointSent
  <2> HIDE DEF z
  <2>5. /\ z.current = x.current /\ z.heater = x.heater /\ z.coil = x.coil /\ z.match = x.coil
        /\ z.hot = x.hot /\ z.tracked = x.tracked /\ z.ready = x.ready /\ z.toggle = x.toggle
        /\ z.gen = x.gen /\ z.target = x.target
    BY <2>1, <2>4 DEF Parts
  <2>6. Driven(z)
    BY <1>2, <2>4, <2>5 DEF Driven
  <2>7. Sound(z)
    BY <2>4, <2>5, <2>6 DEF Sound
  <2>8. StartMatching(x) = MatchStage(z)
    BY <1>2 DEF StartMatching, u, z
  <2>9. Matched(z, MatchStage(z))
    BY <2>4, <2>7, MatchDrives
  <2>10. Believed(x) => Believed(z)
    BY <2>5 DEF Believed
  <2> DEFINE y == MatchStage(z)
  <2> HIDE DEF y
  <2>11. Kept(x, y)
    BY <2>2, <2>4, <2>5, <2>9, <2>10 DEF Matched, Kept, y
  <2>12. HeatedFor(x, y)
    BY <2>5, <2>9 DEF Matched, HeatedFor, y
  <2>13. y.at \in Places /\ (y.at = "matching" => y.match = x.coil)
    BY <2>5, <2>9 DEF Matched, y
  <2> QED
    BY <2>8, <2>11, <2>12, <2>13 DEF y
<1> QED
  BY <1>1, <1>2

\* The first step of a ramp or a standby.
Started(x, y) ==
  /\ Kept(x, y) /\ y.at \in Places /\ HeatedFor(x, y)
  /\ x.gen = "park" => y.at # "matching" /\ (y.heater => x.heater)
  /\ y.at = "matching" => ~x.heater /\ y.match = x.coil
  /\ x.heater /\ x.gen # "unload" => y.heater

LEMMA FirstDrives ==
  ASSUME NEW x, Sound(x), x.gen \in {"normal", "manual", "park", "unload"}
  PROVE  Started(x, First(x))
<1>1. CASE x.gen = "normal" /\ x.heater
  <2> DEFINE u == [x EXCEPT !.tracked = TRUE]
             y == WarmStage(u)
  <2>1. u \in Magnet /\ u.tracked /\ \A p \in Parts \ {"tracked"} : u[p] = x[p]
    BY DEF Sound, Magnet, Parts
  <2> HIDE DEF u
  <2>2. /\ u.current = x.current /\ u.setpoint = x.setpoint /\ u.status = x.status /\ u.rate = x.rate
        /\ u.heater = x.heater /\ u.coil = x.coil /\ u.hot = x.hot /\ u.ready = x.ready
        /\ u.toggle = x.toggle /\ u.gen = x.gen /\ u.target = x.target
    BY <2>1 DEF Parts
  <2>3. Driven(u)
    BY <1>1, <2>2, DrivenKept DEF Sound
  <2>4. Sound(u)
    BY <2>1, <2>2, <2>3 DEF Sound
  <2>5. Believed(x) => Believed(u)
    BY <1>1, <2>2 DEF Believed
  <2>6. /\ Drives(u, y) /\ y.at \in Places \ {"matching"}
        /\ y.at \in {"ramping", "settling"} => u.ready
    BY <2>4, WarmDrives
  <2> HIDE DEF y
  <2>7. Kept(x, y)
    BY <2>2, <2>5, <2>6 DEF Drives, Kept
  <2>8. y.heater /\ HeatedFor(x, y)
    BY <1>1, <2>2, <2>6 DEF Drives, Kept, HeatedFor
  <2>9. First(x) = y
    BY <1>1 DEF First, u, y
  <2> QED
    BY <1>1, <2>6, <2>7, <2>8, <2>9 DEF Started
<1>2. CASE ~x.heater /\ x.gen \in {"normal", "unload"}
  <2>1. First(x) = StartMatching(x)
    BY <1>2 DEF First
  <2> QED
    BY <1>2, <2>1, StartMatchingDrives DEF Started
<1>3. CASE x.gen \in {"manual", "park"} \/ (x.heater /\ x.gen = "unload")
  <2>1. First(x) = RampStage(x)
    BY <1>3 DEF First
  <2>2. Drives(x, RampStage(x)) /\ RampStage(x).at \in {"ramping", "settling", "done"}
    BY RampDrives
  <2> QED
    BY <1>3, <2>1, <2>2 DEF Started, Drives, HeatedFor, Places
<1> QED
  BY <1>1, <1>2, <1>3

\* A step of a ramp that waits.
Advanced(x, y) ==
  /\ Kept(x, y) /\ y.at \in Places
  /\ x.gen = "normal" /\ y.at \in {"ramping", "settling"} =>
       y.heater \/ (~x.heater /\ (x.at \in {"ramping", "settling"} \/ x.ready))
  /\ x.gen = "normal" /\ y.at = "ramping" => x.at = "ramping" \/ y.ready
  /\ y.at = "matching" => x.at = "matching" /\ y.match = x.match
  /\ ~x.heater /\ y.heater => x.at = "matching" /\ x.coil = x.match

LEMMA ResumedDrives ==
  ASSUME NEW x, Sound(x), x.at \in Places \ {"done"}, Matches(x)
  PROVE  Advanced(x, Resumed(x))
<1>1. CASE x.at = "matching"
  <2>1. Resumed(x) = MatchStage(x)
    BY <1>1 DEF Resumed
  <2>2. x.status # "RAMPING" /\ x.current = x.match => x.heater \/ x.current = x.coil
    BY <1>1 DEF Matches
  <2>3. Matched(x, MatchStage(x))
    BY <2>2, MatchDrives
  <2> QED
    BY <1>1, <2>1, <2>3 DEF Matched, HeatedFor, Advanced
<1>2. CASE x.at = "warmup"
  <2>1. Resumed(x) = WarmStage(x)
    BY <1>2 DEF Resumed
  <2> DEFINE y == WarmStage(x)
  <2>2. Drives(x, y) /\ y.at \in Places \ {"matching"} /\ (y.at \in {"ramping", "settling"} => x.ready)
    BY WarmDrives
  <2> HIDE DEF y
  <2> QED
    BY <2>1, <2>2 DEF Drives, Kept, Advanced, y
<1>3. CASE x.at = "ramping"
  <2>1. Resumed(x) = RampStage(x)
    BY <1>3 DEF Resumed
  <2>2. Drives(x, RampStage(x)) /\ RampStage(x).at \in {"ramping", "settling", "done"}
    BY RampDrives
  <2> QED
    BY <1>3, <2>1, <2>2 DEF Drives, Advanced, Places
<1>4. CASE x.at = "settling"
  <2>1. Resumed(x) = SettleStage(x)
    BY <1>4 DEF Resumed
  <2>2. Drives(x, SettleStage(x)) /\ SettleStage(x).at \in {"settling", "done"}
    BY SettleDrives
  <2> QED
    BY <1>4, <2>1, <2>2 DEF Drives, Advanced, Places
<1> QED
  BY <1>1, <1>2, <1>3, <1>4 DEF Places

-----------------------------------------------------------------------------
(* The actions keep the discipline.                                         *)

\* A park that matches has a trapped field to bring down.
ParkInv == m.gen \in {"park", "unload"} /\ m.at = "matching" => m.match # 0

\* Without a hand on the heater the VI knows its switch, and a normal ramp drives a warm one.
WarmInv == byHand \/ (Believed(m) /\ (m.gen = "normal" /\ m.at = "ramping" => m.ready))

DisciplineInv ==
  Sound(m) /\ calls \in 0 .. Budget /\ byHand \in BOOLEAN /\ ParkInv /\ WarmInv

\* What HeaterDiscipline says of a step.
Heeds ==
  /\ Unheated' => Unheated \/ BelievedHeated \/ Quench
  /\ m'.gen \in {"park", "unload"} /\ ~m.heater /\ m'.heater => m.coil # 0 \/ SwitchHeaterOn
  /\ m.gen = "normal" /\ m.at = "ramping" /\ m'.current # m.current /\ m'.status # "QUENCH" =>
       m.hot \/ byHand
  /\ Advance /\ m.status = "QUENCH" => m'.at = "done" /\ m'.setpoint = m.setpoint
  /\ m.heater /\ m'.current # m.current /\ m'.status # "QUENCH" =>
       m.rate = SegmentRate(m.current, m'.current - m.current)

\* A call counts itself, and the calls that work the heater by hand say so.
LEMMA CallCounts ==
  ASSUME NEW name, NEW after, DisciplineInv, Call(name, after)
  PROVE  /\ calls' \in 0 .. Budget /\ byHand' \in BOOLEAN /\ (byHand => byHand') /\ m' = after
         /\ name \in {"enable", "disable", "on", "off"} => byHand'
<1>1. calls' \in 0 .. Budget
  BY MagnetAssumption DEF Call, DisciplineInv
<1>2. byHand' \in BOOLEAN /\ (byHand => byHand') /\ (name \in {"enable", "disable", "on", "off"} => byHand')
  BY DEF Call, DisciplineInv
<1> QED
  BY <1>1, <1>2 DEF Call

LEMMA ClampType == ASSUME NEW i \in Int PROVE Clamp(i) \in Currents
  BY MagnetAssumption DEF Clamp, Currents

\* A call that replaces the ramp: a park that heats the switch has a field to bring down.
LEMMA StartHeeds ==
  ASSUME DisciplineInv, NEW name, NEW target \in Currents,
         NEW gen \in {"normal", "manual", "park", "unload"},
         gen \in {"park", "unload"} => gen = StandbyKind(m),
         ~Advance, Call(name, First([m EXCEPT !.target = target, !.gen = gen]))
  PROVE  DisciplineInv' /\ Heeds
<1> DEFINE x == [m EXCEPT !.target = target, !.gen = gen]
           y == First(x)
<1>1. /\ x \in Magnet /\ x.gen = gen /\ \A p \in Parts \ {"target", "gen"} : x[p] = m[p]
  BY DEF DisciplineInv, Sound, Magnet, Parts
<1> HIDE DEF x
<1>2. /\ x.current = m.current /\ x.setpoint = m.setpoint /\ x.status = m.status /\ x.rate = m.rate
      /\ x.heater = m.heater /\ x.coil = m.coil /\ x.hot = m.hot /\ x.ready = m.ready
      /\ x.toggle = m.toggle /\ x.tracked = m.tracked
  BY <1>1 DEF Parts
<1>3. Driven(x)
  BY <1>2, DrivenKept DEF DisciplineInv, Sound
<1>4. Sound(x)
  BY <1>1, <1>2, <1>3 DEF Sound, DisciplineInv
<1>5. Started(x, y)
  BY <1>1, <1>4, FirstDrives
<1> HIDE DEF y
<1>6. m' = y /\ calls' \in 0 .. Budget /\ byHand' \in BOOLEAN /\ (byHand => byHand')
  BY CallCounts DEF x, y
<1>7. Believed(m) => Believed(x)
  BY <1>2 DEF Believed
<1>8. gen = "unload" => m.heater \/ m.coil # 0
  BY DEF StandbyKind, CoilCurrent
<1>9. gen = "park" => ~m.heater
  BY DEF StandbyKind
<1>10. ParkInv'
  BY <1>1, <1>2, <1>5, <1>6, <1>8 DEF ParkInv, Started, Kept
<1>11. WarmInv'
  BY <1>1, <1>5, <1>6, <1>7 DEF WarmInv, DisciplineInv, Started, Kept, HeatedFor
<1>12. DisciplineInv'
  BY <1>5, <1>6, <1>10, <1>11 DEF DisciplineInv, Started, Kept
<1>13. m'.current = m.current
  BY <1>2, <1>5, <1>6 DEF Started, Kept
<1>14. ~Unheated'
  BY <1>1, <1>5, <1>6 DEF Started, Kept, HeatedFor, Unheated
<1>15. m'.gen \in {"park", "unload"} /\ ~m.heater /\ m'.heater => m.coil # 0
  BY <1>1, <1>2, <1>5, <1>6, <1>8 DEF Started, Kept
<1> QED
  BY <1>12, <1>13, <1>14, <1>15 DEF Heeds

LEMMA AdvanceHeeds ==
  ASSUME DisciplineInv, MagnetInv, Advance PROVE DisciplineInv' /\ Heeds
<1> DEFINE y == Resumed(m)
<1>1. Advanced(m, y)
  BY ResumedDrives DEF DisciplineInv, MagnetInv, Advance
<1> HIDE DEF y
<1>2. m' = y /\ calls' = calls /\ byHand' = byHand
  BY DEF Advance, y
<1>3. m'.gen = m.gen /\ m'.toggle = m.toggle /\ m'.current = m.current
  BY <1>1, <1>2 DEF Advanced, Kept
<1>4. ParkInv'
  BY <1>1, <1>2, <1>3 DEF Advanced, ParkInv, DisciplineInv
<1>5. WarmInv'
  BY <1>1, <1>2, <1>3 DEF Advanced, Kept, WarmInv, DisciplineInv
<1>6. DisciplineInv'
  BY <1>1, <1>2, <1>4, <1>5 DEF DisciplineInv, Advanced, Kept
<1>7. Unheated' => Unheated \/ BelievedHeated
  <2>1. m.ready => m.tracked
    BY DEF DisciplineInv, Sound
  <2> QED
    BY <1>1, <1>2, <1>3, <2>1 DEF Advanced, Unheated, BelievedHeated
<1>8. m'.gen \in {"park", "unload"} /\ ~m.heater /\ m'.heater => m.coil # 0
  BY <1>1, <1>2, <1>3 DEF Advanced, DisciplineInv, ParkInv
<1>9. m.status = "QUENCH" => m'.at = "done" /\ m'.setpoint = m.setpoint
  BY <1>1, <1>2 DEF Advanced, Kept
<1> QED
  BY <1>3, <1>6, <1>7, <1>8, <1>9 DEF Heeds

\* A step that leaves the current and the heater as they are, and the generator too or ends
\* it, heeds the rest.
LEMMA QuietHeeds ==
  ASSUME ~Advance, m'.current = m.current \/ m'.status = "QUENCH",
         m'.heater => m.heater \/ SwitchHeaterOn, ~Unheated' \/ Unheated \/ Quench
  PROVE  Heeds
  BY DEF Heeds

LEMMA ZeroCurrent == 0 \in Currents
  BY MagnetAssumption DEF Currents

LEMMA StopHeeds == ASSUME DisciplineInv, StopRamp, ~Advance PROVE DisciplineInv' /\ Heeds
<1> DEFINE x == [m EXCEPT !.gen = "none", !.at = "done", !.target = 0]
           y == Hold(x)
<1>1. /\ m' = y /\ calls' \in 0 .. Budget /\ byHand' \in BOOLEAN /\ (byHand => byHand')
  BY CallCounts DEF StopRamp
<1>2. y \in Magnet
  BY ZeroCurrent DEF DisciplineInv, Sound, Magnet, Hold
<1>3. /\ y.current = m.current /\ y.heater = m.heater /\ y.coil = m.coil /\ y.hot = m.hot
      /\ y.tracked = m.tracked /\ y.ready = m.ready /\ y.gen = "none" /\ y.at = "done"
  BY DEF DisciplineInv, Sound, Magnet, Hold
<1>4. /\ y.status # "RAMPING" 
      /\ y.status = "QUENCH" => m.status = "QUENCH" /\ y.setpoint = m.setpoint
  BY DEF DisciplineInv, Sound, Magnet, Hold
<1> HIDE DEF x, y
<1>5. Sound(y)
  BY <1>2, <1>3, <1>4 DEF DisciplineInv, Sound, Driven
<1>6. Believed(m) => Believed(y)
  BY <1>3 DEF Believed
<1>7. ParkInv' /\ WarmInv'
  BY <1>1, <1>3, <1>6 DEF ParkInv, WarmInv, DisciplineInv
<1>8. Heeds
  BY <1>1, <1>3, QuietHeeds DEF Unheated
<1> QED
  BY <1>1, <1>5, <1>7, <1>8 DEF DisciplineInv

LEMMA RestartHeeds == ASSUME DisciplineInv, Restart, ~Advance PROVE DisciplineInv' /\ Heeds
<1> DEFINE y == [m EXCEPT !.toggle = FALSE, !.gen = "none", !.at = "done", !.target = 0,
                          !.match = 0, !.tracked = FALSE, !.ready = FALSE]
<1>1. /\ m' = y /\ calls' \in 0 .. Budget /\ byHand' \in BOOLEAN /\ (byHand => byHand')
  BY CallCounts DEF Restart
<1>2. y \in Magnet
  BY ZeroCurrent DEF DisciplineInv, Sound, Magnet
<1>3. /\ y.current = m.current /\ y.heater = m.heater /\ y.coil = m.coil /\ y.status = m.status
      /\ y.setpoint = m.setpoint /\ y.rate = m.rate
      /\ ~y.tracked /\ ~y.ready /\ y.gen = "none" /\ y.at = "done"
  BY DEF DisciplineInv, Sound, Magnet
<1> HIDE DEF y
<1>4. Driven(y)
  BY <1>3, DrivenKept DEF DisciplineInv, Sound
<1>5. Sound(y) /\ Believed(y)
  BY <1>2, <1>3, <1>4 DEF DisciplineInv, Sound, Believed
<1>6. ParkInv' /\ WarmInv'
  BY <1>1, <1>3, <1>5 DEF ParkInv, WarmInv
<1>7. Heeds
  BY <1>1, <1>3, QuietHeeds DEF Unheated
<1> QED
  BY <1>1, <1>5, <1>6, <1>7 DEF DisciplineInv

\* The toggle is a matter of the VI alone; it is turned off only over a heated switch.
LEMMA ToggleHeeds ==
  ASSUME DisciplineInv, EnablePersistentMode \/ DisablePersistentMode, ~Advance
  PROVE  DisciplineInv' /\ Heeds
<1>1. PICK mode \in BOOLEAN :
        /\ m' = [m EXCEPT !.toggle = mode]
        /\ ~mode => m.heater
  BY DEF EnablePersistentMode, DisablePersistentMode, Call
<1>2. calls' \in 0 .. Budget /\ byHand'
  BY CallCounts DEF EnablePersistentMode, DisablePersistentMode
<1>3. m' \in Magnet /\ m'.toggle = mode /\ \A p \in Parts \ {"toggle"} : m'[p] = m[p]
  BY <1>1 DEF DisciplineInv, Sound, Magnet, Parts
<1>4. /\ m'.current = m.current /\ m'.setpoint = m.setpoint /\ m'.status = m.status
      /\ m'.rate = m.rate /\ m'.heater = m.heater /\ m'.coil = m.coil /\ m'.ready = m.ready
      /\ m'.tracked = m.tracked /\ m'.gen = m.gen /\ m'.at = m.at /\ m'.match = m.match
  BY <1>3 DEF Parts
<1>5. Driven(m')
  BY <1>4, DrivenKept DEF DisciplineInv, Sound
<1>6. Sound(m')
  BY <1>3, <1>4, <1>5 DEF DisciplineInv, Sound
<1>7. ParkInv' /\ WarmInv'
  BY <1>2, <1>4 DEF ParkInv, WarmInv, DisciplineInv
<1>8. ~Unheated' \/ Unheated
  BY <1>1, <1>3, <1>4 DEF Unheated
<1>9. Heeds
  BY <1>4, <1>8, QuietHeeds
<1> QED
  BY <1>2, <1>6, <1>7, <1>9 DEF DisciplineInv

\* A hand that heats the switch cannot mismatch; it works in persistent mode only.
LEMMA HeaterOnHeeds == ASSUME DisciplineInv, SwitchHeaterOn, ~Advance PROVE DisciplineInv' /\ Heeds
<1>1. m.toggle /\ (m.heater \/ m.current = m.coil) /\ Call("on", Energised(m))
  BY DEF SwitchHeaterOn, CoilCurrent
<1>2. calls' \in 0 .. Budget /\ byHand' /\ m' = Energised(m)
  BY <1>1, CallCounts
<1>3. Sound(m') /\ \A p \in Parts \ {"heater", "tracked"} : m'[p] = m[p]
  BY <1>1, <1>2, EnergisedSound DEF DisciplineInv
<1>4. /\ m'.current = m.current /\ m'.toggle = m.toggle /\ m'.gen = m.gen /\ m'.at = m.at
      /\ m'.match = m.match
  BY <1>3 DEF Parts
<1>5. ParkInv' /\ WarmInv'
  BY <1>2, <1>4 DEF ParkInv, WarmInv, DisciplineInv
<1>6. ~Unheated'
  BY <1>1, <1>4 DEF Unheated
<1>7. Heeds
  BY <1>4, <1>6, QuietHeeds
<1> QED
  BY <1>2, <1>3, <1>5, <1>7 DEF DisciplineInv

LEMMA HeaterOffHeeds == ASSUME DisciplineInv, SwitchHeaterOff, ~Advance PROVE DisciplineInv' /\ Heeds
<1> DEFINE y == Deenergised(m)
<1>1. m.toggle /\ calls' \in 0 .. Budget /\ byHand' /\ m' = y
  BY CallCounts DEF SwitchHeaterOff
<1>2. y \in Magnet
  BY DEF DisciplineInv, Sound, Magnet, Deenergised, HeaterDrivenOff
<1>3. /\ y.current = m.current /\ y.setpoint = m.setpoint /\ y.status = m.status /\ y.rate = m.rate
      /\ y.toggle = m.toggle /\ y.gen = m.gen /\ y.at = m.at /\ y.match = m.match
  BY DEF DisciplineInv, Sound, Magnet, Deenergised, HeaterDrivenOff
<1>4. ~y.heater /\ ~y.ready /\ (m.heater \/ y.coil = m.coil) /\ (y.coil = m.coil \/ y.coil = m.current)
  BY DEF DisciplineInv, Sound, Magnet, Deenergised, HeaterDrivenOff
<1> HIDE DEF y
<1>5. Driven(y)
  BY <1>3, <1>4, DrivenKept DEF DisciplineInv, Sound
<1>6. Sound(y)
  BY <1>2, <1>3, <1>4, <1>5 DEF DisciplineInv, Sound
<1>7. ParkInv' /\ WarmInv'
  BY <1>1, <1>3 DEF ParkInv, WarmInv, DisciplineInv
<1>8. ~Unheated'
  BY <1>1, <1>3 DEF Unheated
<1>9. Heeds
  BY <1>1, <1>3, <1>4, <1>8, QuietHeeds
<1> QED
  BY <1>1, <1>6, <1>7, <1>9 DEF DisciplineInv

\* The PSU moves one unit towards its setpoint and stays in its segment.
LEMMA PsuHeeds == ASSUME DisciplineInv, PsuMoves, ~Advance PROVE DisciplineInv' /\ Heeds
<1> DEFINE d == Dir(m)
           next == m.current + d
<1>1. /\ m.status = "RAMPING" /\ calls' = calls /\ byHand' = byHand
      /\ m' = [m EXCEPT !.current = next, !.status = IF next = m.setpoint THEN "HOLD" ELSE @]
  BY DEF PsuMoves, Dir
<1>2. m \in Magnet /\ m.current \in Currents /\ m.setpoint \in Currents /\ m.setpoint # m.current
  BY <1>1 DEF DisciplineInv, Sound, Magnet, Driven
<1>3. m.current \in Int /\ m.setpoint \in Int /\ d \in {1, -1}
  BY <1>2, MagnetAssumption DEF Currents, Dir
<1>4. /\ next \in Currents /\ next \in Int /\ next # m.current /\ next - m.current = d
      /\ d = 1 => m.current < next /\ next <= m.setpoint
      /\ d = -1 => next < m.current /\ m.setpoint <= next
  BY <1>2, <1>3, MagnetAssumption DEF Currents, Dir
<1> HIDE DEF next, d
<1>5. /\ m' \in Magnet /\ m'.current = next
      /\ m'.status = (IF next = m.setpoint THEN "HOLD" ELSE "RAMPING")
      /\ \A p \in Parts \ {"current", "status"} : m'[p] = m[p]
  BY <1>1, <1>2, <1>4 DEF Magnet, Parts
<1>6. /\ m'.setpoint = m.setpoint /\ m'.rate = m.rate /\ m'.heater = m.heater /\ m'.coil = m.coil
      /\ m'.hot = m.hot /\ m'.toggle = m.toggle /\ m'.gen = m.gen /\ m'.at = m.at
      /\ m'.match = m.match /\ m'.tracked = m.tracked /\ m'.ready = m.ready
  BY <1>5 DEF Parts
<1>7. InSegment(m) /\ next # m.setpoint => InSegment(m')
  <2> SUFFICES ASSUME InSegment(m), next # m.setpoint PROVE InSegment(m')
    OBVIOUS
  <2>1. Ends \subseteq Int
    BY EndsType, MagnetAssumption DEF Currents
  <2>2. next \notin Ends
    BY <1>3, <1>4 DEF InSegment
  <2>3. SegmentRate(next, d) = SegmentRate(m.current, d)
    BY <1>2, <1>3, <1>4, <2>2, RateCarries DEF next
  <2>4. Dir(m') = d
    <3>1. (m'.setpoint > m'.current) <=> d = 1
      BY <1>3, <1>4, <1>5, <1>6
    <3> QED
      BY <1>3, <3>1 DEF Dir
  <2>5. m.rate = SegmentRate(m.current, d)
    BY DEF InSegment, d
  <2>6. \A b \in Ends : ~(next < b /\ b < m.setpoint) /\ ~(m.setpoint < b /\ b < next)
    BY <1>3, <1>4, <2>1 DEF InSegment
  <2> QED
    BY <1>5, <1>6, <2>3, <2>4, <2>5, <2>6 DEF InSegment
<1>8. Driven(m')
  BY <1>1, <1>5, <1>6, <1>7 DEF DisciplineInv, Sound, Driven
<1>9. Sound(m')
  BY <1>5, <1>6, <1>8 DEF DisciplineInv, Sound
<1>10. Believed(m) => Believed(m')
  BY <1>6 DEF Believed
<1>11. ParkInv' /\ WarmInv'
  BY <1>1, <1>6, <1>10 DEF ParkInv, WarmInv, DisciplineInv
<1>12. Unheated' => Unheated
  BY <1>6 DEF Unheated
<1>13. m.heater => m.rate = SegmentRate(m.current, m'.current - m.current)
  BY <1>1, <1>4, <1>5 DEF DisciplineInv, Sound, Driven, InSegment, d
<1>14. m.gen = "normal" /\ m.at = "ramping" => m.hot \/ byHand
  BY DEF DisciplineInv, WarmInv, Believed
<1>15. Heeds
  BY <1>6, <1>12, <1>13, <1>14 DEF Heeds
<1> QED
  BY <1>1, <1>9, <1>11, <1>15 DEF DisciplineInv

LEMMA WarmthHeeds == ASSUME DisciplineInv, Warm, ~Advance PROVE DisciplineInv' /\ Heeds
<1>1. m' = [m EXCEPT !.hot = m.heater, !.ready = m.tracked] /\ calls' = calls /\ byHand' = byHand
  BY DEF Warm
<1>2. /\ m' \in Magnet /\ m'.hot = m.heater /\ m'.ready = m.tracked
      /\ \A p \in Parts \ {"hot", "ready"} : m'[p] = m[p]
  BY <1>1 DEF DisciplineInv, Sound, Magnet, Parts
<1>3. /\ m'.current = m.current /\ m'.setpoint = m.setpoint /\ m'.status = m.status /\ m'.rate = m.rate
      /\ m'.heater = m.heater /\ m'.coil = m.coil /\ m'.toggle = m.toggle /\ m'.gen = m.gen
      /\ m'.at = m.at /\ m'.match = m.match /\ m'.tracked = m.tracked
  BY <1>2 DEF Parts
<1>4. Driven(m')
  BY <1>3, DrivenKept DEF DisciplineInv, Sound
<1>5. Sound(m')
  BY <1>2, <1>3, <1>4 DEF DisciplineInv, Sound
<1>6. Believed(m) => Believed(m')
  BY <1>2, <1>3 DEF Believed
<1>7. m.ready => m'.ready
  BY <1>2 DEF DisciplineInv, Sound
<1>8. ParkInv' /\ WarmInv'
  BY <1>1, <1>3, <1>6, <1>7 DEF ParkInv, WarmInv, DisciplineInv
<1>9. ~Unheated' \/ Unheated
  BY <1>3 DEF Unheated
<1>10. Heeds
  BY <1>3, <1>9, QuietHeeds
<1> QED
  BY <1>1, <1>5, <1>8, <1>10 DEF DisciplineInv

LEMMA QuenchHeeds == ASSUME DisciplineInv, Quench, ~Advance PROVE DisciplineInv' /\ Heeds
<1>1. m' = Quenched(m) /\ calls' = calls /\ byHand'
  BY DEF Quench
<1>2. /\ m' \in Magnet /\ m'.status = "QUENCH" /\ m'.current = 0 /\ m'.coil = 0 /\ m'.setpoint = 0
      /\ ~m'.heater /\ m'.gen = m.gen /\ m'.at = m.at /\ m'.match = m.match
  BY <1>1, ZeroCurrent DEF Quenched, DisciplineInv, Sound, Magnet
<1>3. m'.ready => m'.tracked
  BY <1>1 DEF Quenched, DisciplineInv, Sound, Magnet
<1>4. Sound(m')
  BY <1>2, <1>3 DEF Sound, Driven
<1>5. ParkInv' /\ WarmInv'
  BY <1>1, <1>2 DEF ParkInv, WarmInv, DisciplineInv
<1>6. Heeds
  BY <1>2, QuietHeeds
<1> QED
  BY <1>1, <1>4, <1>5, <1>6 DEF DisciplineInv

LEMMA ResetHeeds == ASSUME DisciplineInv, ResetQuench, ~Advance PROVE DisciplineInv' /\ Heeds
<1>1. /\ m' = [m EXCEPT !.status = "HOLD", !.setpoint = m.current] /\ calls' = calls /\ byHand' = byHand
  BY DEF ResetQuench
<1>2. /\ m' \in Magnet /\ m'.status = "HOLD"
      /\ \A p \in Parts \ {"status", "setpoint"} : m'[p] = m[p]
  BY <1>1 DEF DisciplineInv, Sound, Magnet, Parts
<1>3. /\ m'.current = m.current /\ m'.heater = m.heater /\ m'.hot = m.hot /\ m'.toggle = m.toggle
      /\ m'.gen = m.gen /\ m'.at = m.at /\ m'.match = m.match /\ m'.tracked = m.tracked /\ m'.ready = m.ready
  BY <1>2 DEF Parts
<1>4. Sound(m')
  BY <1>2, <1>3 DEF DisciplineInv, Sound, Driven
<1>5. Believed(m) => Believed(m')
  BY <1>3 DEF Believed
<1>6. ParkInv' /\ WarmInv'
  BY <1>1, <1>3, <1>5 DEF ParkInv, WarmInv, DisciplineInv
<1>7. ~Unheated' \/ Unheated
  BY <1>3 DEF Unheated
<1>8. Heeds
  BY <1>3, <1>7, QuietHeeds
<1> QED
  BY <1>1, <1>4, <1>6, <1>8 DEF DisciplineInv

LEMMA StepHeeds ==
  ASSUME DisciplineInv, MagnetInv, MagnetNext PROVE DisciplineInv' /\ Heeds
<1>1. CASE Advance
  BY <1>1, AdvanceHeeds
<1> SUFFICES ASSUME ~Advance PROVE DisciplineInv' /\ Heeds
  BY <1>1
<1>2. ASSUME NEW field \in Fields, StartRamp(field) PROVE DisciplineInv' /\ Heeds
  <2>1. Clamp(field) \in Currents
    BY MagnetAssumption, ClampType
  <2>2. PICK gen \in {"normal", "manual"} :
          Call("ramp", First([m EXCEPT !.target = Clamp(field), !.gen = gen]))
    BY <1>2 DEF StartRamp
  <2> QED
    BY <2>1, <2>2, StartHeeds
<1>3. CASE Standby
  <2>1. StandbyKind(m) \in {"park", "unload"}
    BY DEF StandbyKind
  <2> QED
    BY <1>3, <2>1, ZeroCurrent, StartHeeds DEF Standby
<1> QED
  BY <1>2, <1>3, StopHeeds, RestartHeeds, ToggleHeeds, HeaterOnHeeds, HeaterOffHeeds, PsuHeeds,
     WarmthHeeds, QuenchHeeds, ResetHeeds
  DEF MagnetNext, Operator

LEMMA DisciplineInit == MagnetInit => DisciplineInv
<1> SUFFICES ASSUME MagnetInit PROVE DisciplineInv
  OBVIOUS
<1>1. m \in Magnet
  BY ZeroCurrent DEF MagnetInit, Magnet
<1>2. /\ m.status = "HOLD" /\ ~m.ready /\ ~m.tracked /\ m.gen = "none" /\ m.at = "done"
  BY DEF MagnetInit
<1>3. Sound(m)
  BY <1>1, <1>2 DEF Sound, Driven
<1>4. ParkInv /\ WarmInv
  BY <1>2 DEF ParkInv, WarmInv, Believed
<1>5. calls \in 0 .. Budget
  BY MagnetAssumption DEF MagnetInit
<1>6. byHand \in BOOLEAN
  BY DEF MagnetInit
<1> QED
  BY <1>3, <1>4, <1>5, <1>6 DEF DisciplineInv

\* For every current limit, every segment table and every order of calls, ticks and quenches:
\* a normal ramp drives a heated and warm switch, a standby heats none over an empty coil, the
\* first tick behind a quench ends the ramp, and the field moves at the rate of its segment.
THEOREM HeaterDisciplineHolds == MagnetSpec => HeaterDiscipline
<1>1. DisciplineInv => TypeOK
  BY DEF DisciplineInv, Sound, TypeOK
<1>2. DisciplineInv /\ UNCHANGED magnetVars => DisciplineInv'
  <2> SUFFICES ASSUME DisciplineInv, UNCHANGED magnetVars PROVE DisciplineInv'
    OBVIOUS
  <2>1. m' = m /\ calls' = calls /\ byHand' = byHand
    BY DEF magnetVars
  <2> QED
    BY <2>1 DEF DisciplineInv, ParkInv, WarmInv
<1>3. DisciplineInv /\ MagnetInv /\ [MagnetNext]_magnetVars => DisciplineInv' /\ [Heeds]_magnetVars
  BY <1>2, StepHeeds
<1>4. [Heeds]_magnetVars =>
        /\ [Unheated' => Unheated \/ BelievedHeated \/ Quench]_magnetVars
        /\ [(m'.gen \in {"park", "unload"} /\ ~m.heater /\ m'.heater)
              => m.coil # 0 \/ SwitchHeaterOn]_magnetVars
        /\ [(m.gen = "normal" /\ m.at = "ramping" /\ m'.current # m.current /\ m'.status # "QUENCH")
              => m.hot \/ byHand]_magnetVars
        /\ [(Advance /\ m.status = "QUENCH") => m'.at = "done" /\ m'.setpoint = m.setpoint]_magnetVars
        /\ [(m.heater /\ m'.current # m.current /\ m'.status # "QUENCH")
              => m.rate = SegmentRate(m.current, m'.current - m.current)]_magnetVars
  BY DEF Heeds
<1> QED
  BY <1>1, <1>3, <1>4, DisciplineInit, MagnetInitInv, MagnetNextInv, PTL
  DEF MagnetSpec, HeaterDiscipline, NormalRampsHeated, StandbyLeavesColdHeaterOff, WarmBeforeRamp,
      QuenchStopsRamp, RateRespected
=============================================================================
