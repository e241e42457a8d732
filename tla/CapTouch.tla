------------------------------ MODULE CapTouch ------------------------------
(***************************************************************************)
(* sw/cap_touch/main.c: a pad is discharged, released and polled until it  *)
(* is high again; the polls measure its capacitance.  The two sensors are  *)
(* those of sim/tb_cap_touch.v: a pad that has been driven rises some time *)
(* after its release, long after if it is touched.                         *)
(***************************************************************************)
EXTENDS Iop
Sensors == {0, 1}
PRECHARGE == 10
CAP_MAX == 40  \* bound: of 200 polls
CAP_THRESHOLD == 10

MeasureSensor(s) ==
    <<Store("GPIO_OUT_CLR", {s}), Store("GPIO_OE_SET", {s}), Spin(PRECHARGE * pace),
      Store("GPIO_OE_CLR", {s}), Let("count", 0), Call("charging", s)>>
Charging(s) == IF var.count < CAP_MAX THEN <<Load("GPIO_IN"), Call("charged", s)>> ELSE <<>>
Charged(s) == IF s \in acc THEN <<>> ELSE <<Let("count", var.count + 1), Call("charging", s)>>
Report(a) ==
    LET b == var.count
    IN <<Publish(1, a), Publish(3, b),
         Publish(4, {s \in Sensors : (IF s = 0 THEN a ELSE b) > CAP_THRESHOLD}),
         Started, Publish(0, 1)>>
Paces == {5, 6}
Main == Zero(<<0, 1, 3, 4>>) \o <<Call("measure", 0), Call("second", 0)>>
Body(f, x) ==
    CASE f = "measure" -> MeasureSensor(x) [] f = "charging" -> Charging(x)
      [] f = "charged" -> Charged(x) [] f = "report" -> Report(x)
      [] f = "second" -> <<Call("measure", 1), Call("report", var.count)>>
-----------------------------------------------------------------------------
\* Cycles until a released pad is high.  Bound: a quarter of a touched pad's.
Untouched == 37
Touched == 312
Never == 5000  \* more than CAP_MAX polls
Fresh == {[rise |-> r, driven |-> {}, t |-> 0] : r \in [Sensors -> {Untouched, Touched, Never}]}
Sensed == oe \cap Sensors
Device == IF Sensed # {} THEN [dev EXCEPT !.driven = Sensed, !.t = 0]
          ELSE IF dev.driven # {} /\ dev.t < Never THEN [dev EXCEPT !.t = @ + 1] ELSE dev
Up == {s \in dev.driven \ oe : dev.t >= dev.rise[s]}
\* The touched sensors are told from the others, and one that never rises ends
\* the measurement all the same.
Served == /\ mail[4] = {s \in Sensors : dev.rise[s] > Untouched}
          /\ \A s \in Sensors : (mail[1 + 2 * s] = CAP_MAX) = (dev.rise[s] = Never)
=============================================================================
