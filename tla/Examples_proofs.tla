---------------------------- MODULE Examples_proofs --------------------------
(***************************************************************************)
(* Proofs about images on the processor, the timer and the pads of Iop.    *)
(*                                                                         *)
(* First the commutation of bldc6: no two gates of a half bridge are on    *)
(* together.  Then the delays of the bit-banged drivers.  Spec gives each  *)
(* image its pace, its device and the times of what happens outside; the   *)
(* lemmas about a step use no device, no time and, for bldc6, no pace.     *)
(***************************************************************************)
EXTENDS Examples, SequenceTheorems, TLAPS

\* What an item of the program may be that neither turns a gate on, nor enters
\* the handler, nor gives the timer a pad, nor spoils the index.
CalmRegs == {"WAKE_EDGE", "WAKE_MASK", "WAKE_FLAGS", "MAIL", "GPIO_OE_CLR", "GPIO_OE_SET",
             "GPIO_OUT_CLR"}
Calm(x) ==
    /\ "sel" \in DOMAIN x => x.sel \in CalmRegs
    /\ "call" \in DOMAIN x => x.call \in {"edge", "enable"}
    /\ ("var" \in DOMAIN x /\ x.var = "idx") => x.val \in 0..5
Calms(s) == \E S : s \in Seq(S) /\ \A x \in S : Calm(x)
\* The program begins with these items and goes on calmly.
Ahead(t, front) == \E s : Calms(s) /\ t = front \o s

Gates == 4..9
CommSteps == {Wk!CommSeq[k] : k \in 1..6}
AllOff == Store("GPIO_OUT_CLR", Gates)
On(gate) == Store("GPIO_OUT_SET", gate)
Dark == out \cap Gates = {}
IdxKept == "idx" \in DOMAIN var /\ var["idx"] \in 0..5

Calmly == IdxKept /\ Calms(todo)
Booting ==
    /\ ~mie
    /\ \/ Ahead(todo, <<Let("count", 0), Let("idx", 5)>>)
       \/ Ahead(todo, <<Let("idx", 5)>>)
\* The handler is not interrupted before its store that turns the gates on, and
\* that store comes next after the one that turns all of them off.
Handling ==
    /\ ~mie /\ IdxKept
    /\ \/ Ahead(todo, <<Call("__isr", 0)>>)
       \/ Ahead(todo, <<Load("WAKE_FLAGS"), Call("commutate", 0)>>)
       \/ Ahead(todo, <<Call("commutate", 0)>>)
       \/ \E gate \in CommSteps : Ahead(todo, <<AllOff, On(gate)>>)
       \/ \E gate \in CommSteps : /\ Ahead(todo, <<On(gate)>>)
                                  /\ core = Request(AllOff) \/ (core = Idle /\ Dark)
BusOK ==
    \/ core = Idle
    \/ core.st \in {"req", "wait"} /\ core.op.sel \in CalmRegs
    \/ \E gate \in CommSteps : core = Request(On(gate)) /\ Dark
NoToggle == \A i \in Channels : ~cmp[i].en
Apart(pads) == \A h \in {4, 6, 8} : ~({h, h + 1} \subseteq pads)

GatesInv == (Calmly \/ Booting \/ Handling) /\ BusOK /\ NoToggle /\ Apart(out)
-----------------------------------------------------------------------------
(* Items and sequences of them. *)

LEMMA CalmItems ==
  /\ \A reg \in CalmRegs : \A v : Calm(Store(reg, v))
  /\ \A reg \in CalmRegs : Calm(Load(reg))
  /\ \A w, v : Calm(Publish(w, v))
  /\ \A f \in {"edge", "enable"} : \A x : Calm(Call(f, x))
  /\ \A n, v : n # "idx" \/ v \in 0..5 => Calm(Let(n, v))
  /\ Calm(EnableIrq) /\ Calm(Mret)
  <1>1. ASSUME NEW reg \in CalmRegs, NEW v PROVE Calm(Store(reg, v)) /\ Calm(Load(reg))
    BY <1>1 DEF Calm, Store, Load
  <1>2. ASSUME NEW w, NEW v PROVE Calm(Publish(w, v))
    BY DEF Calm, Publish, CalmRegs
  <1>3. ASSUME NEW f \in {"edge", "enable"}, NEW x PROVE Calm(Call(f, x))
    BY DEF Calm, Call
  <1>4. ASSUME NEW n, NEW v, n # "idx" \/ v \in 0..5 PROVE Calm(Let(n, v))
    BY <1>4 DEF Calm, Let
  <1>5. Calm(EnableIrq) /\ Calm(Mret)
    BY DEF Calm, EnableIrq, Mret
  <1> QED
    BY <1>1, <1>2, <1>3, <1>4, <1>5

LEMMA CalmOf == ASSUME NEW s, NEW S, s \in Seq(S), \A x \in S : Calm(x) PROVE Calms(s)
  BY DEF Calms

LEMMA CalmEmpty == Calms(<<>>)
  <1> DEFINE S == {}
  <1>1. <<>> \in Seq(S) /\ \A x \in S : Calm(x)
    OBVIOUS
  <1> HIDE DEF S
  <1> QED
    BY <1>1, CalmOf

LEMMA CalmOne == ASSUME NEW a, Calm(a) PROVE Calms(<<a>>)
  <1> DEFINE S == {a}
  <1>1. <<a>> \in Seq(S) /\ \A x \in S : Calm(x)
    OBVIOUS
  <1> HIDE DEF S
  <1> QED
    BY <1>1, CalmOf

LEMMA CalmConcat ==
  ASSUME NEW s, NEW t, Calms(s), Calms(t) PROVE Calms(s \o t)
  <1>1. PICK S : s \in Seq(S) /\ \A x \in S : Calm(x)
    BY DEF Calms
  <1>2. PICK T : t \in Seq(T) /\ \A x \in T : Calm(x)
    BY DEF Calms
  <1>3. s \in Seq(S \cup T) /\ t \in Seq(S \cup T)
    BY <1>1, <1>2
  <1>4. s \o t \in Seq(S \cup T)
    BY <1>3
  <1>5. \A x \in S \cup T : Calm(x)
    BY <1>1, <1>2
  <1> QED
    BY <1>4, <1>5 DEF Calms

LEMMA CalmParts ==
  ASSUME NEW s, Calms(s), s # <<>> PROVE Calm(Head(s)) /\ Calms(Tail(s))
  <1>1. PICK S : s \in Seq(S) /\ \A x \in S : Calm(x)
    BY DEF Calms
  <1>2. Head(s) \in S /\ Tail(s) \in Seq(S)
    BY <1>1
  <1> QED
    BY <1>1, <1>2 DEF Calms

LEMMA OneAhead ==
  ASSUME NEW t, NEW a, Ahead(t, <<a>>)
  PROVE  t # <<>> /\ Head(t) = a /\ Calms(Tail(t))
  <1>1. PICK s : Calms(s) /\ t = <<a>> \o s
    BY DEF Ahead
  <1>2. PICK S : s \in Seq(S)
    BY <1>1 DEF Calms
  <1>3. <<a>> \o s # <<>> /\ Head(<<a>> \o s) = a /\ Tail(<<a>> \o s) = s
    BY <1>2
  <1> QED
    BY <1>1, <1>3

LEMMA TwoAhead ==
  ASSUME NEW t, NEW a, NEW b, Ahead(t, <<a, b>>)
  PROVE  t # <<>> /\ Head(t) = a /\ Ahead(Tail(t), <<b>>)
  <1>1. PICK s : Calms(s) /\ t = <<a, b>> \o s
    BY DEF Ahead
  <1>2. PICK S : s \in Seq(S)
    BY <1>1 DEF Calms
  <1>3. <<a, b>> \o s # <<>> /\ Head(<<a, b>> \o s) = a /\ Tail(<<a, b>> \o s) = <<b>> \o s
    BY <1>2
  <1> QED
    BY <1>1, <1>3 DEF Ahead

\* What comes behind stays behind.
LEMMA AheadOf ==
  ASSUME NEW t, NEW u, NEW a, NEW b, Ahead(t, <<a, b>>), Calms(u)
  PROVE  Ahead(t \o u, <<a, b>>)
  <1>1. PICK s : Calms(s) /\ t = <<a, b>> \o s
    BY DEF Ahead
  <1>2. PICK S : s \in Seq(S)
    BY <1>1 DEF Calms
  <1>3. PICK U : u \in Seq(U)
    BY DEF Calms
  <1> DEFINE A == S \cup U \cup {a, b}
  <1>4. s \in Seq(A) /\ u \in Seq(A) /\ <<a, b>> \in Seq(A)
    BY <1>2, <1>3
  <1>5. t \o u = <<a, b>> \o (s \o u)
    <2> HIDE DEF A
    <2>1. (<<a, b>> \o s) \o u = <<a, b>> \o (s \o u)
      BY <1>4
    <2> QED
      BY <1>1, <2>1
  <1>6. Calms(s \o u)
    BY <1>1, CalmConcat
  <1> QED
    BY <1>5, <1>6 DEF Ahead

LEMMA JustAhead == ASSUME NEW a, NEW b PROVE Ahead(<<a, b>>, <<a, b>>)
  <1>1. <<a, b>> = <<a, b>> \o <<>>
    OBVIOUS
  <1> QED
    BY <1>1, CalmEmpty DEF Ahead
-----------------------------------------------------------------------------
(* The program. *)

LEMMA ProgramIs == ASSUME image = "bldc6" PROVE Main = Wk!BldcMain
  BY DEF Main, Of, Wk!Main

LEMMA HandlerIs ==
  ASSUME image = "bldc6", NEW f, NEW x
  PROVE  /\ f = "__isr" => Body(f, x) = <<Load("WAKE_FLAGS"), Call("commutate", 0)>>
         /\ f = "commutate" => Body(f, x) = Wk!BldcIsr(acc)
         /\ f = "edge" => Body(f, x) = <<Store("WAKE_EDGE", [acc EXCEPT ![x.pad] = x.mode])>>
         /\ f = "enable" => Body(f, x) = <<Store("WAKE_MASK", acc \cup {x})>>
  <1>1. f \in {"__isr", "commutate"} => Body(f, x) = Wk!Body(f, x)
    BY DEF Body, Of, Idioms
  <1>2. f = "__isr" => Wk!Body(f, x) = Wk!Isr
    BY DEF Wk!Body
  <1>3. Wk!Isr = <<Load("WAKE_FLAGS"), Call("commutate", 0)>>
    BY DEF Wk!Isr, Wk!Load, Wk!Call, Load, Call
  <1>4. f = "commutate" => Wk!Body(f, x) = Wk!BldcIsr(acc)
    BY DEF Wk!Body
  <1>5. f \in {"edge", "enable"} => Body(f, x) = Idiom(f, x)
    BY DEF Body, Idioms
  <1>6. f = "edge" => Idiom(f, x) = SetEdge(x)
    BY DEF Idiom
  <1>7. f = "enable" => Idiom(f, x) = SetMask(x)
    BY DEF Idiom
  <1> QED
    BY <1>1, <1>2, <1>3, <1>4, <1>5, <1>6, <1>7 DEF SetEdge, SetMask

LEMMA CalmTwo == ASSUME NEW a, NEW b, Calm(a), Calm(b) PROVE Calms(<<a, b>>)
  <1> DEFINE S == {a, b}
  <1>1. <<a, b>> \in Seq(S) /\ \A x \in S : Calm(x)
    OBVIOUS
  <1> HIDE DEF S
  <1> QED
    BY <1>1, CalmOf

LEMMA CalmFive ==
  ASSUME NEW a, NEW b, NEW c, NEW d, NEW e, Calm(a), Calm(b), Calm(c), Calm(d), Calm(e)
  PROVE  Calms(<<a, b, c, d, e>>)
  <1> DEFINE S == {a, b, c, d, e}
  <1>1. <<a, b, c, d, e>> \in Seq(S) /\ \A x \in S : Calm(x)
    OBVIOUS
  <1> HIDE DEF S
  <1> QED
    BY <1>1, CalmOf

LEMMA CalmSix ==
  ASSUME NEW a, NEW b, NEW c, NEW d, NEW e, NEW f,
         Calm(a), Calm(b), Calm(c), Calm(d), Calm(e), Calm(f)
  PROVE  Calms(<<a, b, c, d, e, f>>)
  <1> DEFINE S == {a, b, c, d, e, f}
  <1>1. <<a, b, c, d, e, f>> \in Seq(S) /\ \A x \in S : Calm(x)
    OBVIOUS
  <1> HIDE DEF S
  <1> QED
    BY <1>1, CalmOf

\* main() sets the index before anything can interrupt it.
LEMMA MainBoots == ASSUME image = "bldc6" PROVE Ahead(Main, <<Let("count", 0), Let("idx", 5)>>)
  <1> USE DEF CalmRegs
  <1>1. ASSUME NEW p, NEW m PROVE Calms(Wk!WakeEdge(p, m)) /\ Calms(Wk!WakeEnable(p))
    <2>1. /\ Wk!WakeEdge(p, m) = <<Load("WAKE_EDGE"), Call("edge", [pad |-> p, mode |-> m])>>
          /\ Wk!WakeEnable(p) = <<Load("WAKE_MASK"), Call("enable", p)>>
      BY DEF Wk!WakeEdge, Wk!WakeEnable, Wk!Load, Wk!Call, Load, Call
    <2>2. /\ Calm(Load("WAKE_EDGE")) /\ Calm(Call("edge", [pad |-> p, mode |-> m]))
          /\ Calm(Load("WAKE_MASK")) /\ Calm(Call("enable", p))
      BY CalmItems
    <2> QED
      BY <2>1, <2>2, CalmTwo
  <1>2. Calms(Wk!Zero(<<0, 1>>))
    <2> DEFINE S == {Publish(w, 0) : w \in {0, 1}}
    <2>1. Wk!Zero(<<0, 1>>) = [i \in 1..2 |-> Publish(<<0, 1>>[i], 0)]
      BY DEF Wk!Zero, Wk!Publish, Publish
    <2>2. \A i \in 1..2 : Publish(<<0, 1>>[i], 0) \in S
      OBVIOUS
    <2>3. \A x \in S : Calm(x)
      BY CalmItems
    <2> HIDE DEF S
    <2>4. [i \in 1..2 |-> Publish(<<0, 1>>[i], 0)] \in Seq(S)
      BY <2>2
    <2> QED
      BY <2>1, <2>3, <2>4, CalmOf
  <1> DEFINE Pads == <<Wk!Publish(3, {}), Wk!Store("GPIO_OE_CLR", Wk!Hall),
                       Wk!Store("GPIO_OUT_CLR", Wk!Gates), Wk!Store("GPIO_OE_SET", Wk!Gates),
                       Wk!EnableIrq>>
  <1>3. Calms(Pads)
    <2>1. /\ Wk!Publish(3, {}) = Publish(3, {}) /\ Wk!EnableIrq = EnableIrq
          /\ Wk!Store("GPIO_OE_CLR", Wk!Hall) = Store("GPIO_OE_CLR", Wk!Hall)
          /\ Wk!Store("GPIO_OUT_CLR", Wk!Gates) = Store("GPIO_OUT_CLR", Wk!Gates)
          /\ Wk!Store("GPIO_OE_SET", Wk!Gates) = Store("GPIO_OE_SET", Wk!Gates)
      BY DEF Wk!Publish, Publish, Wk!EnableIrq, EnableIrq, Wk!Store, Store
    <2>2. /\ Calm(Publish(3, {})) /\ Calm(EnableIrq)
          /\ Calm(Store("GPIO_OE_CLR", Wk!Hall)) /\ Calm(Store("GPIO_OUT_CLR", Wk!Gates))
          /\ Calm(Store("GPIO_OE_SET", Wk!Gates))
      BY CalmItems
    <2> QED
      BY <2>1, <2>2, CalmFive
  <1>4. Calms(<<Wk!Started>>)
    <2>1. Wk!Started = Publish(2, 1)
      BY DEF Wk!Started, Wk!Publish, Publish
    <2> QED
      BY <2>1, CalmItems, CalmOne
  <1> DEFINE Start == <<Let("count", 0), Let("idx", 5)>>
             T1 == Start \o Wk!Zero(<<0, 1>>)
             T2 == T1 \o Pads
             T3 == T2 \o Wk!WakeEdge(0, "both")
             T4 == T3 \o Wk!WakeEdge(1, "both")
             T5 == T4 \o Wk!WakeEdge(2, "both")
             T6 == T5 \o Wk!WakeEnable(0)
             T7 == T6 \o Wk!WakeEnable(1)
             T8 == T7 \o Wk!WakeEnable(2)
             T9 == T8 \o <<Wk!Started>>
  <1>5. Main = T9
    BY ProgramIs DEF Wk!BldcMain, Wk!Let, Let
  <1>6. Ahead(T9, Start)
    <2> HIDE DEF Pads
    <2>1. Ahead(Start, Start)
      BY JustAhead
    <2>2. Ahead(T1, Start)
      BY <2>1, <1>2, AheadOf
    <2> HIDE DEF T1
    <2>3. Ahead(T2, Start)
      BY <2>2, <1>3, AheadOf
    <2> HIDE DEF T2
    <2>4. Ahead(T3, Start)
      BY <2>3, <1>1, AheadOf
    <2> HIDE DEF T3
    <2>5. Ahead(T4, Start)
      BY <2>4, <1>1, AheadOf
    <2> HIDE DEF T4
    <2>6. Ahead(T5, Start)
      BY <2>5, <1>1, AheadOf
    <2> HIDE DEF T5
    <2>7. Ahead(T6, Start)
      BY <2>6, <1>1, AheadOf
    <2> HIDE DEF T6
    <2>8. Ahead(T7, Start)
      BY <2>7, <1>1, AheadOf
    <2> HIDE DEF T7
    <2>9. Ahead(T8, Start)
      BY <2>8, <1>1, AheadOf
    <2> HIDE DEF T8
    <2> QED
      BY <2>9, <1>4, AheadOf
  <1> QED
    BY <1>5, <1>6

\* The handler's body, when the Hall sensors have changed and when not.
LEMMA Commutation ==
  ASSUME image = "bldc6", IdxKept, NEW seen
  PROVE  \/ Wk!BldcIsr(seen) = <<>>
         \/ \E gate \in CommSteps : Ahead(Wk!BldcIsr(seen), <<AllOff, On(gate)>>)
  <1> DEFINE idx == (var["idx"] + 1) % 6
             gate == Wk!CommSeq[idx + 1]
             after == <<Let("count", var["count"] + 1), Let("idx", idx), Publish(1, idx),
                        Publish(3, gate), Store("WAKE_FLAGS", seen \cap Wk!Hall),
                        Publish(0, var["count"] + 1)>>
  <1>1. idx \in 0..5 /\ idx + 1 \in 1..6
    BY DEF IdxKept
  <1>2. Wk!BldcIsr(seen) = IF seen \cap Wk!Hall = {} THEN <<>>
                           ELSE <<AllOff, On(gate)>> \o after
    BY DEF Wk!BldcIsr, Wk!Commutate, Wk!AckFlags, Wk!Gates, Gates, AllOff, On,
           Wk!Store, Store, Wk!Let, Let, Wk!Publish, Publish
  <1> HIDE DEF idx
  <1>3. Calms(after)
    BY <1>1, CalmItems, CalmSix DEF CalmRegs
  <1>4. gate \in CommSteps
    BY <1>1 DEF CommSteps
  <1> HIDE DEF gate, after
  <1> QED
    BY <1>2, <1>3, <1>4 DEF Ahead
-----------------------------------------------------------------------------
(* The registers. *)

LEMMA NoStore == ASSUME core = Idle \/ ~ClkIop, NEW reg PROVE ~Stores(reg)
  BY DEF Stores, Active, Idle

\* The only store that turns a gate on meets all of them off.
LEMMA StoreIs ==
  ASSUME BusOK, NEW reg, Stores(reg)
  PROVE  \/ reg \in CalmRegs
         \/ /\ reg = "GPIO_OUT_SET"
            /\ \E gate \in CommSteps : core = Request(On(gate)) /\ Dark
  <1>1. core.st = "req" /\ core.op.sel = reg
    BY DEF Stores, Active
  <1>2. core # Idle
    BY <1>1 DEF Idle
  <1>3. \A gate : core = Request(On(gate)) => core.op.sel = "GPIO_OUT_SET"
    BY DEF Request, On, Store
  <1> QED
    BY <1>1, <1>2, <1>3 DEF BusOK

LEMMA GateSets == ASSUME NEW gate \in CommSteps PROVE gate \subseteq Gates /\ Apart(gate)
  <1>1. PICK k \in 1..6 : gate = Wk!CommSeq[k]
    BY DEF CommSteps
  <1>2. Wk!CommSeq = <<{6, 9}, {8, 5}, {6, 5}, {4, 7}, {4, 9}, {8, 7}>>
    BY DEF Wk!CommSeq, Wk!UH, Wk!UL, Wk!VH, Wk!VL, Wk!WH, Wk!WL
  <1>3. gate \in {{6, 9}, {8, 5}, {6, 5}, {4, 7}, {4, 9}, {8, 7}}
    BY <1>1, <1>2
  <1> QED
    BY <1>3 DEF Gates, Apart

LEMMA OutIs ==
  ASSUME BusOK, GpioStep
  PROVE  /\ \/ out' \subseteq out
            \/ \E gate \in CommSteps : core = Request(On(gate)) /\ Dark /\ out' = out \cup gate
         /\ core = Idle \/ ~ClkIop => out' = out
         /\ core = Request(AllOff) /\ ClkIop => Dark'
  <1>1. out' = Written(out, "GPIO_OUT", "GPIO_OUT_SET", "GPIO_OUT_CLR")
    BY DEF GpioStep
  <1>2. ~Stores("GPIO_OUT")
    BY StoreIs DEF CalmRegs
  <1>3. CASE Stores("GPIO_OUT_SET")
    <2>1. PICK gate \in CommSteps : core = Request(On(gate)) /\ Dark
      BY <1>3, StoreIs DEF CalmRegs
    <2>2. core.op.v = gate /\ core.op.sel = "GPIO_OUT_SET"
      BY <2>1 DEF Request, On, Store
    <2>3. out' = out \cup gate
      <3>1. ~Stores("GPIO_OUT_CLR")
        BY <1>3 DEF Stores, Active
      <3>2. out' = out \cup core.op.v
        BY <1>1, <1>2, <1>3, <3>1 DEF Written
      <3> QED
        BY <2>2, <3>2
    <2>4. core # Request(AllOff)
      BY <2>2 DEF Request, AllOff, Store
    <2> QED
      BY <1>3, <2>1, <2>3, <2>4, NoStore
  <1>4. CASE ~Stores("GPIO_OUT_SET")
    <2>1. /\ Stores("GPIO_OUT_CLR") => out' = out \ core.op.v
          /\ ~Stores("GPIO_OUT_CLR") => out' = out
      BY <1>1, <1>2, <1>4 DEF Written
    <2>2. ASSUME core = Request(AllOff), ClkIop PROVE Dark'
      <3>1. core.op.v = Gates /\ Stores("GPIO_OUT_CLR")
        BY <2>2 DEF Request, AllOff, Store, Stores, Active
      <3> QED
        BY <2>1, <3>1 DEF Dark
    <2> QED
      BY <2>1, <2>2, NoStore
  <1> QED
    BY <1>3, <1>4

LEMMA ApartKept == ASSUME BusOK, Apart(out), GpioStep PROVE Apart(out)'
  <1>1. CASE out' \subseteq out
    BY <1>1 DEF Apart
  <1>2. ASSUME NEW gate \in CommSteps, Dark, out' = out \cup gate PROVE Apart(out)'
    <2>1. gate \subseteq Gates /\ Apart(gate)
      BY GateSets
    <2>2. \A h \in {4, 6, 8} : {h, h + 1} \subseteq Gates
      BY DEF Gates
    <2> QED
      BY <1>2, <2>1, <2>2 DEF Apart, Dark
  <1> QED
    BY <1>1, <1>2, OutIs

LEMMA NoToggleKept == ASSUME BusOK, NoToggle, TimerStep PROVE NoToggle'
  <1>1. ~Stores("TIMER_CMP")
    BY StoreIs DEF CalmRegs
  <1>2. cmp' = cmp
    BY <1>1 DEF TimerStep, timerVars, Configure
  <1> QED
    BY <1>2 DEF NoToggle
-----------------------------------------------------------------------------
(* The processor. *)

\* Whatever does not complete an access finds the bus idle.
LEMMA FinishIs ==
  ASSUME Finish
  PROVE  /\ core # Idle /\ UNCHANGED <<todo, mie, var>>
         /\ \/ ClkIop /\ core' = Idle
            \/ ~ClkIop /\ core' = core
            \/ core.st = "req" /\ ~core.op.wr /\ core' = Await(core.op)
  BY DEF Finish, CoreStep, CoreBegin, CoreReset

LEMMA BeginIs ==
  ASSUME Begin
  PROVE  core = Idle /\ core' = Request(Head(todo)) /\ todo' = Tail(todo) /\ UNCHANGED <<mie, var>>
  BY DEF Begin, At, Ready, CoreStep, CoreBegin, CoreReset, Idle

LEMMA Others ==
  ASSUME NEW body, Core(body), ~Finish, ~Begin PROVE core = Idle /\ core' = core
  <1>1. \/ Trap \/ Return \/ Expand(body) \/ Assign \/ BusyWait \/ Unmask \/ Compute \/ Sleep
    BY DEF Core
  <1>2. CASE Trap \/ Sleep
    BY <1>2 DEF Trap, Sleep, Interrupted, Ready
  <1>3. CASE Return \/ Expand(body) \/ Assign \/ BusyWait \/ Unmask
    BY <1>3 DEF Return, Expand, Assign, BusyWait, Unmask, At, Ready
  <1>4. CASE Compute
    BY <1>4 DEF Compute
  <1> QED
    BY <1>1, <1>2, <1>3, <1>4

LEMMA BusKept ==
  ASSUME BusOK, GpioStep, NEW body, Core(body),
         Begin => \/ Head(todo).sel \in CalmRegs
                  \/ \E gate \in CommSteps : Head(todo) = On(gate) /\ Dark
  PROVE  BusOK'
  <1>1. CASE Finish
    <2>1. CASE core.st \in {"req", "wait"} /\ core.op.sel \in CalmRegs
      BY <1>1, <2>1, FinishIs DEF BusOK, Await
    <2>2. ASSUME NEW gate \in CommSteps, core = Request(On(gate)), Dark PROVE BusOK'
      <3>1. core.op.wr = TRUE
        BY <2>2 DEF Request, On, Store
      <3>2. core' = Idle \/ (~ClkIop /\ core' = core)
        BY <1>1, <3>1, FinishIs
      <3>3. ~ClkIop => Dark'
        BY <2>2, OutIs DEF Dark
      <3> QED
        BY <2>2, <3>2, <3>3 DEF BusOK
    <2> QED
      BY <1>1, <2>1, <2>2, FinishIs DEF BusOK
  <1>2. CASE Begin
    <2>1. CASE Head(todo).sel \in CalmRegs
      BY <1>2, <2>1, BeginIs DEF BusOK, Request
    <2>2. ASSUME NEW gate \in CommSteps, Head(todo) = On(gate), Dark PROVE BusOK'
      <3>1. core' = Request(On(gate)) /\ Dark'
        BY <1>2, <2>2, BeginIs, OutIs DEF Dark
      <3> QED
        BY <3>1 DEF BusOK
    <2> QED
      BY <1>2, <2>1, <2>2
  <1>3. CASE ~Finish /\ ~Begin
    <2>1. core = Idle /\ core' = core
      BY <1>3, Others
    <2> QED
      BY <2>1 DEF BusOK
  <1> QED
    BY <1>1, <1>2, <1>3

\* What each kind of item is to the processor.
LEMMA Kinds ==
  /\ \A f, x : DOMAIN Call(f, x) = {"call", "arg"} /\ Call(f, x).call = f
  /\ \A reg : DOMAIN Load(reg) = {"sel", "wr"} /\ Load(reg).sel = reg
  /\ \A reg, v : DOMAIN Store(reg, v) = {"sel", "wr", "v"} /\ Store(reg, v).sel = reg
  /\ \A n, v : /\ DOMAIN Let(n, v) = {"var", "val"}
               /\ Let(n, v).var = n /\ Let(n, v).val = v
  BY DEF Call, Load, Store, Let

\* What the processor does with its program.
LEMMA CoreIs ==
  ASSUME NEW body, Core(body)
  PROVE  \/ UNCHANGED <<todo, mie, var>>
         \/ /\ mie /\ mie' = FALSE /\ var' = var
            /\ todo' = <<Call("__isr", 0), Mret>> \o todo
         \/ /\ todo # <<>> /\ todo' = Tail(todo) /\ var' = var /\ mie' = TRUE
            /\ "mret" \in DOMAIN Head(todo) \/ "mie" \in DOMAIN Head(todo)
         \/ /\ todo # <<>> /\ todo' = Tail(todo) /\ UNCHANGED <<mie, var>>
            /\ \/ "sel" \in DOMAIN Head(todo) /\ core = Idle /\ core' = Request(Head(todo))
               \/ "spin" \in DOMAIN Head(todo)
         \/ /\ todo # <<>> /\ todo' = body \o Tail(todo) /\ UNCHANGED <<mie, var>>
            /\ "call" \in DOMAIN Head(todo)
         \/ /\ todo # <<>> /\ todo' = Tail(todo) /\ mie' = mie /\ "var" \in DOMAIN Head(todo)
            /\ var' = Put(var, Head(todo).var, Head(todo).val)
  <1>1. CASE Trap
    BY <1>1 DEF Trap, Interrupted
  <1>2. CASE Return \/ Unmask
    BY <1>2 DEF Return, Unmask, At
  <1>3. CASE Begin
    BY <1>3, BeginIs DEF Begin, At
  <1>4. CASE BusyWait
    BY <1>4 DEF BusyWait, At
  <1>5. CASE Expand(body)
    BY <1>5 DEF Expand, At
  <1>6. CASE Assign
    BY <1>6 DEF Assign, At
  <1>7. CASE Finish \/ Compute \/ Sleep
    BY <1>7 DEF Finish, Compute, Sleep
  <1> QED
    BY <1>1, <1>2, <1>3, <1>4, <1>5, <1>6, <1>7 DEF Core

LEMMA IdxPut ==
  ASSUME NEW x, Calm(x), "var" \in DOMAIN x, var' = Put(var, x.var, x.val),
         IdxKept \/ x.var = "idx"
  PROVE  IdxKept'
  <1>1. DOMAIN var' = DOMAIN var \cup {x.var}
    BY DEF Put
  <1>2. "idx" \in DOMAIN var'
    BY <1>1 DEF IdxKept
  <1>3. var'["idx"] = IF x.var = "idx" THEN x.val ELSE var["idx"]
    BY <1>1, <1>2 DEF Put
  <1>4. x.var = "idx" => x.val \in 0..5
    BY DEF Calm
  <1> QED
    BY <1>2, <1>3, <1>4 DEF IdxKept

LEMMA BehindOne == ASSUME NEW a, NEW b, NEW s, Calm(b), Calms(s) PROVE Ahead(<<a, b>> \o s, <<a>>)
  <1>1. PICK S : s \in Seq(S)
    BY DEF Calms
  <1> DEFINE A == S \cup {a, b}
  <1>2. <<a, b>> \o s = <<a>> \o (<<b>> \o s)
    <2>1. s \in Seq(A) /\ a \in A /\ b \in A
      BY <1>1
    <2>2. <<a>> \in Seq(A) /\ <<b>> \in Seq(A)
      BY <2>1
    <2>4. <<a, b>> = <<a>> \o <<b>>
      <3>1. <<a, b>> \in Seq(A) /\ Len(<<a, b>>) = 2
        BY <2>1
      <3>2. <<a>> \o <<b>> \in Seq(A) /\ Len(<<a>> \o <<b>>) = 2
        BY <2>2
      <3>3. \A i \in 1..2 : <<a, b>>[i] = (<<a>> \o <<b>>)[i]
        BY <2>2
      <3> HIDE DEF A
      <3> QED
        BY <3>1, <3>2, <3>3, SeqEqual
    <2>3. (<<a>> \o <<b>>) \o s = <<a>> \o (<<b>> \o s)
      <3> HIDE DEF A
      <3> QED
        BY <2>1, <2>2, ConcatAssociative
    <2> QED
      BY <2>3, <2>4
  <1>3. Calms(<<b>> \o s)
    BY CalmOne, CalmConcat
  <1> QED
    BY <1>2, <1>3 DEF Ahead

LEMMA FromCalmly ==
  ASSUME image = "bldc6", Calmly, Core(Body(Head(todo).call, Head(todo).arg))
  PROVE  (Calmly \/ Handling)'
  <1> DEFINE body == Body(Head(todo).call, Head(todo).arg)
  <1>1. todo # <<>> => Calm(Head(todo)) /\ Calms(Tail(todo))
    BY CalmParts DEF Calmly
  <1>2. CASE UNCHANGED <<todo, mie, var>>
    BY <1>2 DEF Calmly, IdxKept
  <1>3. CASE mie' = FALSE /\ var' = var /\ todo' = <<Call("__isr", 0), Mret>> \o todo
    <2>1. Ahead(<<Call("__isr", 0), Mret>> \o todo, <<Call("__isr", 0)>>)
      BY CalmItems, BehindOne DEF Calmly
    <2>2. Ahead(todo', <<Call("__isr", 0)>>) /\ IdxKept' /\ ~mie'
      BY <1>3, <2>1 DEF Calmly, IdxKept
    <2> QED
      BY <2>2 DEF Handling
  <1>4. CASE todo # <<>> /\ todo' = Tail(todo) /\ var' = var
    <2>1. Calms(todo') /\ IdxKept'
      BY <1>1, <1>4 DEF Calmly, IdxKept
    <2> QED
      BY <2>1 DEF Calmly
  <1>5. CASE todo # <<>> /\ todo' = body \o Tail(todo) /\ UNCHANGED <<mie, var>>
             /\ "call" \in DOMAIN Head(todo)
    <2>1. Head(todo).call \in {"edge", "enable"}
      BY <1>1, <1>5 DEF Calm
    <2>2. Head(todo).call = "edge" => Calms(body)
      <3> HAVE Head(todo).call = "edge"
      <3>1. PICK v : body = <<Store("WAKE_EDGE", v)>>
        BY HandlerIs
      <3> QED
        BY <3>1, CalmItems, CalmOne DEF CalmRegs
    <2>3. Head(todo).call = "enable" => Calms(body)
      <3> HAVE Head(todo).call = "enable"
      <3>1. PICK v : body = <<Store("WAKE_MASK", v)>>
        BY HandlerIs
      <3> QED
        BY <3>1, CalmItems, CalmOne DEF CalmRegs
    <2>5. Calms(body)
      BY <2>1, <2>2, <2>3
    <2> HIDE DEF body
    <2>4. Calms(todo') /\ IdxKept'
      BY <1>1, <1>5, <2>5, CalmConcat DEF Calmly, IdxKept
    <2> QED
      BY <2>4 DEF Calmly
  <1>6. CASE todo # <<>> /\ todo' = Tail(todo) /\ "var" \in DOMAIN Head(todo)
             /\ var' = Put(var, Head(todo).var, Head(todo).val)
    <2>1. Calms(todo') /\ IdxKept'
      BY <1>1, <1>6, IdxPut DEF Calmly
    <2> QED
      BY <2>1 DEF Calmly
  <1> QED
    BY <1>2, <1>3, <1>4, <1>5, <1>6, CoreIs

LEMMA FromBooting ==
  ASSUME Booting, NEW body, Core(body) PROVE (Calmly \/ Booting)' /\ ~Begin
  <1>1. PICK n, v : Head(todo) = Let(n, v) /\ todo # <<>> /\ Calm(Let(n, v))
                    /\ \/ Ahead(Tail(todo), <<Let("idx", 5)>>)
                       \/ Calms(Tail(todo)) /\ n = "idx"
    BY OneAhead, TwoAhead, CalmItems DEF Booting
  <1>2. DOMAIN Head(todo) = {"var", "val"} /\ Head(todo).var = n
    BY <1>1, Kinds
  <1>3. ~Begin
    BY <1>2 DEF Begin, At
  <1>4. CASE UNCHANGED <<todo, mie, var>>
    BY <1>3, <1>4 DEF Booting
  <1>5. CASE todo' = Tail(todo) /\ mie' = mie /\ var' = Put(var, Head(todo).var, Head(todo).val)
    <2>1. CASE Ahead(Tail(todo), <<Let("idx", 5)>>)
      BY <1>3, <1>5, <2>1 DEF Booting
    <2>2. CASE Calms(Tail(todo)) /\ n = "idx"
      <3>1. IdxKept'
        BY <1>1, <1>2, <1>5, <2>2, IdxPut
      <3> QED
        BY <1>3, <1>5, <2>2, <3>1 DEF Calmly
    <2> QED
      BY <1>1, <2>1, <2>2
  <1> QED
    BY <1>2, <1>4, <1>5, CoreIs DEF Booting

\* The handler runs item by item: nothing interrupts it, and both its stores follow
\* one another on the bus.
LEMMA FromHandling ==
  ASSUME image = "bldc6", Handling, BusOK, GpioStep,
         Core(Body(Head(todo).call, Head(todo).arg))
  PROVE  /\ (Calmly \/ Handling)'
         /\ Begin => \/ Head(todo).sel \in CalmRegs
                     \/ \E gate \in CommSteps : Head(todo) = On(gate) /\ Dark
  <1> DEFINE f == Head(todo).call
             x == Head(todo).arg
             Moved == todo # <<>> /\ todo' = Tail(todo) /\ UNCHANGED <<mie, var>>
             Called == todo # <<>> /\ todo' = Body(f, x) \o Tail(todo) /\ UNCHANGED <<mie, var>>
  <1>1. \/ UNCHANGED <<todo, mie, var>>
        \/ todo = <<>> \/ "mret" \in DOMAIN Head(todo) \/ "mie" \in DOMAIN Head(todo)
        \/ "spin" \in DOMAIN Head(todo) \/ "var" \in DOMAIN Head(todo)
        \/ Moved /\ "sel" \in DOMAIN Head(todo) /\ core = Idle /\ core' = Request(Head(todo))
        \/ Called /\ "call" \in DOMAIN Head(todo)
    BY CoreIs DEF Handling
  <1>2. (~mie' /\ IdxKept') \/ ~UNCHANGED <<mie, var>>
    BY DEF Handling, IdxKept
  <1> HIDE DEF Called, Moved
  <1>3. CASE Ahead(todo, <<Call("__isr", 0)>>)
    <2>1. /\ todo # <<>> /\ Head(todo) = Call("__isr", 0) /\ Calms(Tail(todo))
          /\ DOMAIN Head(todo) = {"call", "arg"} /\ f = "__isr"
      BY <1>3, OneAhead, Kinds
    <2>2. ~Begin
      BY <2>1 DEF Begin, At
    <2>3. CASE UNCHANGED <<todo, mie, var>>
      BY <1>2, <1>3, <2>2, <2>3 DEF Handling
    <2>4. CASE Called
      <3>1. todo' = <<Load("WAKE_FLAGS"), Call("commutate", 0)>> \o Tail(todo)
        BY <2>1, <2>4, HandlerIs DEF Called
      <3>2. Ahead(todo', <<Load("WAKE_FLAGS"), Call("commutate", 0)>>)
        BY <2>1, <3>1 DEF Ahead
      <3> QED
        BY <1>2, <2>2, <2>4, <3>2 DEF Handling, Called
    <2> QED
      BY <1>1, <2>1, <2>3, <2>4
  <1>4. CASE Ahead(todo, <<Load("WAKE_FLAGS"), Call("commutate", 0)>>)
    <2>1. /\ todo # <<>> /\ Head(todo) = Load("WAKE_FLAGS")
          /\ Ahead(Tail(todo), <<Call("commutate", 0)>>)
          /\ DOMAIN Head(todo) = {"sel", "wr"} /\ Head(todo).sel = "WAKE_FLAGS"
      BY <1>4, TwoAhead, Kinds
    <2>2. Head(todo).sel \in CalmRegs
      BY <2>1 DEF CalmRegs
    <2>3. CASE UNCHANGED <<todo, mie, var>>
      BY <1>2, <1>4, <2>2, <2>3 DEF Handling
    <2>4. CASE Moved
      <3>1. Ahead(todo', <<Call("commutate", 0)>>)
        BY <2>1, <2>4 DEF Moved
      <3> QED
        BY <1>2, <2>2, <2>4, <3>1 DEF Handling, Moved
    <2> QED
      BY <1>1, <2>1, <2>3, <2>4
  <1>5. CASE Ahead(todo, <<Call("commutate", 0)>>)
    <2>1. /\ todo # <<>> /\ Head(todo) = Call("commutate", 0) /\ Calms(Tail(todo))
          /\ DOMAIN Head(todo) = {"call", "arg"} /\ f = "commutate"
      BY <1>5, OneAhead, Kinds
    <2>2. ~Begin
      BY <2>1 DEF Begin, At
    <2>3. CASE UNCHANGED <<todo, mie, var>>
      BY <1>2, <1>5, <2>2, <2>3 DEF Handling
    <2>4. CASE Called
      <3>1. todo' = Wk!BldcIsr(acc) \o Tail(todo)
        BY <2>1, <2>4, HandlerIs DEF Called
      <3>2. CASE Wk!BldcIsr(acc) = <<>>
        <4>1. PICK S : Tail(todo) \in Seq(S)
          BY <2>1 DEF Calms
        <4>2. todo' = Tail(todo)
          BY <3>1, <3>2, <4>1
        <4> QED
          BY <1>2, <2>1, <2>2, <2>4, <4>2 DEF Calmly, Called
      <3>3. ASSUME NEW gate \in CommSteps, Ahead(Wk!BldcIsr(acc), <<AllOff, On(gate)>>)
            PROVE  Handling'
        <4>1. Ahead(todo', <<AllOff, On(gate)>>)
          BY <2>1, <3>1, <3>3, AheadOf
        <4> QED
          BY <1>2, <2>4, <4>1 DEF Handling, Called
      <3> QED
        BY <2>2, <3>2, <3>3, Commutation DEF Handling
    <2> QED
      BY <1>1, <2>1, <2>3, <2>4
  <1>6. ASSUME NEW gate \in CommSteps, Ahead(todo, <<AllOff, On(gate)>>)
        PROVE  Handling' /\ Head(todo).sel \in CalmRegs
    <2>1. /\ todo # <<>> /\ Head(todo) = AllOff /\ Ahead(Tail(todo), <<On(gate)>>)
          /\ DOMAIN Head(todo) = {"sel", "wr", "v"} /\ Head(todo).sel = "GPIO_OUT_CLR"
      <3>1. DOMAIN AllOff = {"sel", "wr", "v"} /\ AllOff.sel = "GPIO_OUT_CLR"
        BY Kinds DEF AllOff
      <3> QED
        BY <1>6, <3>1, TwoAhead
    <2>2. Head(todo).sel \in CalmRegs
      BY <2>1 DEF CalmRegs
    <2>3. CASE UNCHANGED <<todo, mie, var>>
      BY <1>2, <1>6, <2>2, <2>3 DEF Handling
    <2>4. CASE Moved /\ core' = Request(AllOff)
      <3>1. Ahead(todo', <<On(gate)>>)
        BY <2>1, <2>4 DEF Moved
      <3> QED
        BY <1>2, <2>2, <2>4, <3>1 DEF Handling, Moved
    <2> QED
      BY <1>1, <2>1, <2>3, <2>4
  <1>7. ASSUME NEW gate \in CommSteps, Ahead(todo, <<On(gate)>>),
               core = Request(AllOff) \/ (core = Idle /\ Dark)
        PROVE  /\ (Calmly \/ Handling)'
               /\ Begin => Head(todo) = On(gate) /\ Dark
    <2>1. /\ todo # <<>> /\ Head(todo) = On(gate) /\ Calms(Tail(todo))
          /\ DOMAIN Head(todo) = {"sel", "wr", "v"}
      <3>1. DOMAIN On(gate) = {"sel", "wr", "v"}
        BY Kinds DEF On
      <3> QED
        BY <1>7, <3>1, OneAhead
    <2>2. Begin => Head(todo) = On(gate) /\ Dark
      BY <1>7, <2>1, BeginIs DEF Request, Idle
    <2>3. CASE Moved
      <3>1. Calms(todo') /\ IdxKept'
        BY <1>2, <2>1, <2>3 DEF Moved
      <3> QED
        BY <2>2, <3>1 DEF Calmly
    <2>4. CASE UNCHANGED <<todo, mie, var>> /\ ~Moved
      <3>1. core' = Request(AllOff) \/ (core' = Idle /\ Dark')
        <4>1. CASE core = Idle /\ Dark
          <5>1. Dark'
            BY <4>1, OutIs DEF Dark
          <5>2. core' = Idle
            BY <2>1, <2>4, <4>1, FinishIs, BeginIs, Others DEF Moved
          <5> QED
            BY <5>1, <5>2
        <4>2. CASE core = Request(AllOff)
          <5>1. core.op.wr = TRUE /\ core # Idle
            BY <4>2 DEF Request, AllOff, Store, Idle
          <5>2. Finish
            BY <5>1, BeginIs, Others
          <5>3. (ClkIop /\ core' = Idle) \/ (~ClkIop /\ core' = core)
            BY <5>1, <5>2, FinishIs
          <5> QED
            BY <4>2, <5>3, OutIs
        <4> QED
          BY <1>7, <4>1, <4>2
      <3>2. Ahead(todo', <<On(gate)>>)
        BY <1>7, <2>4
      <3> QED
        BY <1>2, <2>2, <2>4, <3>1, <3>2 DEF Handling
    <2> QED
      BY <1>1, <2>1, <2>2, <2>3, <2>4
  <1> QED
    BY <1>3, <1>4, <1>5, <1>6, <1>7 DEF Handling
-----------------------------------------------------------------------------
(* The behaviours. *)

LEMMA GatesStart == ASSUME Init, image = "bldc6" PROVE GatesInv
  <1>1. todo = Main /\ ~mie /\ core = Idle /\ out = {} /\ cmp = [i \in Channels |-> CmpOff]
    BY DEF Init, IopInit, BusInit, GpioReset, TimerReset
  <1>2. Booting
    BY <1>1, MainBoots DEF Booting
  <1>3. NoToggle
    BY <1>1 DEF NoToggle, CmpOff
  <1> QED
    BY <1>1, <1>2, <1>3 DEF GatesInv, BusOK, Apart

\* A cycle of clk_iop, whatever the pads and the device do in it.
LEMMA GatesStep ==
  ASSUME image = "bldc6", GatesInv, Registers, Core(Body(Head(todo).call, Head(todo).arg))
  PROVE  GatesInv'
  <1> DEFINE body == Body(Head(todo).call, Head(todo).arg)
             Fits == Begin => \/ Head(todo).sel \in CalmRegs
                              \/ \E gate \in CommSteps : Head(todo) = On(gate) /\ Dark
  <1>1. BusOK /\ NoToggle /\ Apart(out) /\ TimerStep /\ GpioStep
    BY DEF GatesInv, Registers
  <1>2. (Calmly \/ Booting \/ Handling)' /\ Fits
    <2>1. CASE Calmly
      <3>1. Begin => Calm(Head(todo)) /\ "sel" \in DOMAIN Head(todo)
        BY <2>1, CalmParts DEF Begin, At, Calmly
      <3> QED
        BY <2>1, <3>1, FromCalmly DEF Calm
    <2>2. CASE Booting
      BY <2>2, FromBooting
    <2>3. CASE Handling
      BY <1>1, <2>3, FromHandling
    <2> QED
      BY <2>1, <2>2, <2>3 DEF GatesInv
  <1>3. BusOK'
    BY <1>1, <1>2, BusKept
  <1>4. NoToggle' /\ Apart(out)'
    BY <1>1, NoToggleKept, ApartKept
  <1> QED
    BY <1>2, <1>3, <1>4 DEF GatesInv

LEMMA GatesFollow == ASSUME GatesInv PROVE GatesApart
  <1>1. TimerPads = {}
    BY DEF GatesInv, NoToggle, TimerPads
  <1>2. Wk!PadOut = out
    BY <1>1 DEF Wk!PadOut, Wk!Overridden, Wk!TimerPads, TimerPads
  <1> QED
    BY <1>2 DEF GatesInv, Apart, GatesApart, Wk!GatesApart, Wk!UH, Wk!VH, Wk!WH

\* The two gates of a half bridge of bldc6 are never on together, wherever the
\* handler of the Hall sensors interrupts main() and between any two of its stores.
THEOREM GatesNeverTogether == Spec => []GatesApart
  <1> DEFINE Inv == image = "bldc6" => GatesInv
  <1>1. Init => Inv
    BY GatesStart
  <1>2. Inv /\ [Next]_exVars => Inv'
    <2> SUFFICES ASSUME Inv, [Next]_exVars, image' = "bldc6" PROVE GatesInv'
      OBVIOUS
    <2>1. CASE Clock
      <3>1. image = "bldc6" /\ Registers /\ Core(Body(Head(todo).call, Head(todo).arg))
        BY <2>1 DEF Clock
      <3> QED
        BY <3>1, GatesStep
    <2>2. CASE UNCHANGED exVars
      <3>1. image' = image /\ UNCHANGED <<todo, mie, var, core, out, cmp>>
        BY <2>2 DEF exVars, coreVars, gpioVars, timerVars
      <3> QED
        BY <3>1 DEF GatesInv, Calmly, Booting, Handling, BusOK, NoToggle, Dark, IdxKept
    <2> QED
      BY <2>1, <2>2 DEF Next, Finished
  <1>3. Inv => GatesApart
    <2>1. CASE image = "bldc6"
      BY <2>1, GatesFollow
    <2>2. CASE image # "bldc6"
      BY <2>2 DEF GatesApart, Wk!GatesApart
    <2> QED
      BY <2>1, <2>2
  <1> QED
    BY <1>1, <1>2, <1>3, PTL DEF Spec
-----------------------------------------------------------------------------
(***************************************************************************)
(* The delays of tm1637, ht1621, hd44780 and onewire.                      *)
(***************************************************************************)
Delayed == {"tm1637", "ht1621", "hd44780", "onewire"}
TimerRegs == {"TIMER_CTL", "TIMER_CMP", "TIMER_STATUS"}
Lengths(im) ==
    CASE im = "tm1637" -> {25} [] im = "ht1621" -> {32} [] im = "hd44780" -> {16, 32, 64}
      [] im = "onewire" -> {12, 15, 25, 138, 150, 1200, 1500}
Calls(im) ==
    CASE im = "tm1637" -> {"start", "stop", "write", "writeBit"}
      [] im = "ht1621" -> {"cmd", "write", "sendBit"}
      [] im = "hd44780" -> {"cmd", "data"}
      [] im = "onewire" -> {"reset", "presence", "present", "writeBit", "writeByte", "readBit",
                            "take", "readByte", "keep", "scratch"}

\* An item between two delays: it leaves the timer and the interrupts alone.
Plain(x, im) ==
    /\ {"mie", "mret", "spin"} \cap DOMAIN x = {}
    /\ "sel" \in DOMAIN x => x.sel \notin TimerRegs
    /\ "var" \in DOMAIN x => x.var # "delay"
    /\ "call" \in DOMAIN x =>
         \/ x.call \in Calls(im)
         \/ x.call = "delay" /\ x.arg \in Lengths(im)
         \/ im = "tm1637" /\ x.call = "transfer" /\ x.arg \in {Tm!Transfers[i] : i \in 1..3}
Plains(s, im) == \E S : s \in Seq(S) /\ \A x \in S : Plain(x, im)
Follows(t, front, im) == \E s : Plains(s, im) /\ t = front \o s

SetCmp(n) == Cmp(0, CmpOn(n - 1))
Go == Ctl(TRUE, FALSE)
Ack == W1C({0})
PollIt == Call("poll", 0)
Look == Load("TIMER_STATUS")
Test == Call("matched", 0)
NoMore == Let("delay", 0)

CmpSet(n) == cmp[0] = CmpOn(n - 1)
Unmissed(n) == 0 \notin status => cnt <= n - 1
Set(n) == "delay" \in DOMAIN var /\ var["delay"] = n
NoDelay == "delay" \in DOMAIN var => var["delay"] = 0
Delaying(n) == CmpSet(n) /\ ctl.en /\ Unmissed(n) /\ Set(n)

\* How far a delay of n cycles is, and the count at the latest.
Setting(n) ==
    /\ Follows(todo, <<Go, Ack, Let("delay", n), PollIt, Ack, NoMore>>, image) /\ NoDelay
    /\ core = Request(SetCmp(n)) \/ (core = Idle /\ CmpSet(n))
Starting(n) ==
    /\ Follows(todo, <<Ack, Let("delay", n), PollIt, Ack, NoMore>>, image) /\ NoDelay /\ CmpSet(n)
    /\ \/ core = Request(Go) /\ rest = pace
       \/ core = Idle /\ ctl.en /\ cnt + rest <= pace
Clearing(n) ==
    /\ Follows(todo, <<Let("delay", n), PollIt, Ack, NoMore>>, image) /\ NoDelay
    /\ CmpSet(n) /\ ctl.en
    /\ \/ core = Request(Ack) /\ rest = pace /\ cnt <= pace + 1
       \/ core = Idle /\ Unmissed(n) /\ cnt + rest <= 2 * pace + 2
Polling(n) ==
    /\ Follows(todo, <<PollIt, Ack, NoMore>>, image) /\ Delaying(n)
    /\ core = Idle /\ cnt + rest <= n + 2 * pace + 1
Looking(n) ==
    /\ Follows(todo, <<Look, Test, Ack, NoMore>>, image) /\ Delaying(n)
    /\ core = Idle /\ cnt + rest <= n + 3 * pace + 2
Testing(n) ==
    /\ Follows(todo, <<Test, Ack, NoMore>>, image) /\ Delaying(n)
    /\ \/ core = Request(Look) /\ rest = pace /\ cnt <= n + 3 * pace + 3
       \/ core = Await(Look) /\ rest = pace /\ cnt <= n + 3 * pace + 4
       \/ /\ core = Idle /\ cnt + rest <= n + 4 * pace + 5
          /\ 0 \notin acc => cnt + rest <= n + pace
Seen(n) ==
    /\ Follows(todo, <<Ack, NoMore>>, image) /\ Set(n)
    /\ core = Idle /\ cnt + rest <= n + 5 * pace + 6
Ending(n) ==
    /\ Follows(todo, <<NoMore>>, image) /\ Set(n)
    /\ \/ core = Request(Ack) /\ rest = pace /\ cnt <= n + 5 * pace + 7
       \/ core = Idle /\ cnt + rest <= n + 6 * pace + 8
Waiting(n) == \/ Setting(n) \/ Starting(n) \/ Clearing(n) \/ Polling(n)
              \/ Looking(n) \/ Testing(n) \/ Seen(n) \/ Ending(n)

Called(n) == Follows(todo, DelayCycles(n), image) /\ NoDelay /\ core = Idle
Between ==
    /\ Plains(todo, image) /\ NoDelay
    /\ core = Idle \/ (core.st \in {"req", "wait"} /\ core.op.sel \notin TimerRegs)
DelayTypes ==
    /\ ~mie /\ phase = 0 /\ cnt \in Nat /\ rest \in Nat /\ pace \in Nat /\ DOMAIN cmp = Channels
    /\ \A n \in Lengths(image) : n \in Nat /\ pace + 3 <= n
DelayInv == DelayTypes /\ (Between \/ \E n \in Lengths(image) : Called(n) \/ Waiting(n))
-----------------------------------------------------------------------------
(* Sequences of plain items. *)

LEMMA PlainsOf ==
  ASSUME NEW s, NEW S, NEW im, s \in Seq(S), \A x \in S : Plain(x, im) PROVE Plains(s, im)
  BY DEF Plains

LEMMA PlainsConcat ==
  ASSUME NEW s, NEW t, NEW im, Plains(s, im), Plains(t, im) PROVE Plains(s \o t, im)
  <1>1. PICK S : s \in Seq(S) /\ \A x \in S : Plain(x, im)
    BY DEF Plains
  <1>2. PICK T : t \in Seq(T) /\ \A x \in T : Plain(x, im)
    BY DEF Plains
  <1>3. s \in Seq(S \cup T) /\ t \in Seq(S \cup T)
    BY <1>1, <1>2
  <1>4. s \o t \in Seq(S \cup T)
    BY <1>3
  <1>5. \A x \in S \cup T : Plain(x, im)
    BY <1>1, <1>2
  <1> QED
    BY <1>4, <1>5 DEF Plains

LEMMA PlainsParts ==
  ASSUME NEW s, NEW im, Plains(s, im), s # <<>> PROVE Plain(Head(s), im) /\ Plains(Tail(s), im)
  <1>1. PICK S : s \in Seq(S) /\ \A x \in S : Plain(x, im)
    BY DEF Plains
  <1>2. Head(s) \in S /\ Tail(s) \in Seq(S)
    BY <1>1
  <1> QED
    BY <1>1, <1>2 DEF Plains

LEMMA FollowsParts ==
  ASSUME NEW t, NEW im, NEW S, NEW front \in Seq(S), front # <<>>, Follows(t, front, im)
  PROVE  t # <<>> /\ Head(t) = Head(front) /\ Follows(Tail(t), Tail(front), im)
  <1>1. PICK s : Plains(s, im) /\ t = front \o s
    BY DEF Follows
  <1>2. PICK T : s \in Seq(T)
    BY <1>1 DEF Plains
  <1> DEFINE A == S \cup T
  <1>3. s \in Seq(A) /\ front \in Seq(A)
    BY <1>2
  <1> HIDE DEF A
  <1>4. front \o s # <<>> /\ Head(front \o s) = Head(front) /\ Tail(front \o s) = Tail(front) \o s
    BY <1>3
  <1> QED
    BY <1>1, <1>4 DEF Follows

LEMMA FollowsLast ==
  ASSUME NEW t, NEW im, NEW a, Follows(t, <<a>>, im)
  PROVE  t # <<>> /\ Head(t) = a /\ Plains(Tail(t), im)
  <1>1. PICK s : Plains(s, im) /\ t = <<a>> \o s
    BY DEF Follows
  <1>2. PICK S : s \in Seq(S)
    BY <1>1 DEF Plains
  <1>3. <<a>> \o s # <<>> /\ Head(<<a>> \o s) = a /\ Tail(<<a>> \o s) = s
    BY <1>2
  <1> QED
    BY <1>1, <1>3

\* What a call leaves is its body and what follows it.
LEMMA FollowsBody ==
  ASSUME NEW s, NEW u, NEW im, NEW S, NEW body \in Seq(S), NEW front \in Seq(S),
         Follows(u, front, im), s = body \o u
  PROVE  Follows(s, body \o front, im)
  <1>1. PICK r : Plains(r, im) /\ u = front \o r
    BY DEF Follows
  <1>2. PICK T : r \in Seq(T)
    BY <1>1 DEF Plains
  <1> DEFINE A == S \cup T
  <1>3. r \in Seq(A) /\ front \in Seq(A) /\ body \in Seq(A)
    BY <1>2
  <1> HIDE DEF A
  <1>4. body \o (front \o r) = (body \o front) \o r
    BY <1>3
  <1> QED
    BY <1>1, <1>4 DEF Follows

LEMMA TwoAndThree ==
  ASSUME NEW a, NEW b, NEW c, NEW d
  PROVE  /\ <<a, b>> \o <<c, d>> = <<a, b, c, d>>
         /\ <<a>> \o <<c, d>> = <<a, c, d>>
         /\ <<>> \o <<c, d>> = <<c, d>>
  <1> DEFINE A == {a, b, c, d}
  <1>1. /\ <<a, b>> \in Seq(A) /\ <<c, d>> \in Seq(A) /\ <<a>> \in Seq(A) /\ <<>> \in Seq(A)
        /\ <<a, b, c, d>> \in Seq(A) /\ <<a, c, d>> \in Seq(A)
    OBVIOUS
  <1> HIDE DEF A
  <1>2. <<a, b>> \o <<c, d>> = <<a, b, c, d>>
    <2>1. <<a, b>> \o <<c, d>> \in Seq(A) /\ Len(<<a, b>> \o <<c, d>>) = 4
      BY <1>1
    <2>2. \A i \in 1..4 : (<<a, b>> \o <<c, d>>)[i] = <<a, b, c, d>>[i]
      BY <1>1
    <2> QED
      BY <1>1, <2>1, <2>2, SeqEqual
  <1>3. <<a>> \o <<c, d>> = <<a, c, d>>
    <2>1. <<a>> \o <<c, d>> \in Seq(A) /\ Len(<<a>> \o <<c, d>>) = 3
      BY <1>1
    <2>2. \A i \in 1..3 : (<<a>> \o <<c, d>>)[i] = <<a, c, d>>[i]
      BY <1>1
    <2> QED
      BY <1>1, <2>1, <2>2, SeqEqual
  <1> QED
    BY <1>1, <1>2, <1>3

\* delay_cycles() item by item.
LEMMA DelayIs ==
  ASSUME NEW n
  PROVE  DelayCycles(n) = <<SetCmp(n), Go, Ack, Let("delay", n), PollIt, Ack, NoMore>>
  <1>1. ASSUME NEW a, NEW b, NEW c, NEW d, NEW e, NEW f
        PROVE  <<a, b, c, d>> \o <<e, c>> \o <<f>> = <<a, b, c, d, e, c, f>>
    <2> DEFINE A == {a, b, c, d, e, f}
    <2>1. /\ <<a, b, c, d>> \in Seq(A) /\ <<e, c>> \in Seq(A) /\ <<f>> \in Seq(A)
          /\ <<a, b, c, d, e, c, f>> \in Seq(A)
      OBVIOUS
    <2> HIDE DEF A
    <2>2. /\ <<a, b, c, d>> \o <<e, c>> \in Seq(A) /\ Len(<<a, b, c, d>> \o <<e, c>>) = 6
          /\ \A i \in 1..6 : (<<a, b, c, d>> \o <<e, c>>)[i] = <<a, b, c, d, e, c>>[i]
      BY <2>1
    <2>3. <<a, b, c, d, e, c>> \in Seq(A)
      BY <2>1
    <2>4. <<a, b, c, d>> \o <<e, c>> = <<a, b, c, d, e, c>>
      BY <2>2, <2>3, SeqEqual
    <2>5. /\ <<a, b, c, d, e, c>> \o <<f>> \in Seq(A) /\ Len(<<a, b, c, d, e, c>> \o <<f>>) = 7
          /\ \A i \in 1..7 : (<<a, b, c, d, e, c>> \o <<f>>)[i] = <<a, b, c, d, e, c, f>>[i]
      BY <2>1, <2>3
    <2>6. <<a, b, c, d, e, c>> \o <<f>> = <<a, b, c, d, e, c, f>>
      BY <2>1, <2>5, SeqEqual
    <2> QED
      BY <2>4, <2>6
  <1>2. DelayCycles(n) = <<SetCmp(n), Go, Ack, Let("delay", n)>> \o <<PollIt, Ack>> \o <<NoMore>>
    BY DEF DelayCycles, WaitMatch, SetCmp, Go, Ack, PollIt, NoMore
  <1> QED
    BY <1>1, <1>2
-----------------------------------------------------------------------------
(* What the four images do between their delays. *)

LEMMA ImageFacts ==
  ASSUME NEW im
  PROVE  /\ im = "tm1637" => /\ Lengths(im) = {25}
                             /\ Calls(im) = {"start", "stop", "write", "writeBit"}
         /\ im = "ht1621" => Lengths(im) = {32} /\ Calls(im) = {"cmd", "write", "sendBit"}
         /\ im = "hd44780" => Lengths(im) = {16, 32, 64} /\ Calls(im) = {"cmd", "data"}
         /\ im = "onewire" => /\ Lengths(im) = {12, 15, 25, 138, 150, 1200, 1500}
                              /\ Calls(im) = {"reset", "presence", "present", "writeBit", "writeByte",
                                              "readBit", "take", "readByte", "keep", "scratch"}
  BY DEF Lengths, Calls

LEMMA PlainItems ==
  ASSUME NEW im
  PROVE  /\ \A reg, v : reg \notin TimerRegs => Plain(Store(reg, v), im)
         /\ \A reg : reg \notin TimerRegs => Plain(Load(reg), im)
         /\ \A w, v : Plain(Publish(w, v), im)
         /\ \A n, v : n # "delay" => Plain(Let(n, v), im)
         /\ \A f, x : f \in Calls(im) => Plain(Call(f, x), im)
         /\ \A n \in Lengths(im) : Plain(Call("delay", n), im)
  <1>1. ASSUME NEW reg, NEW v, reg \notin TimerRegs
        PROVE  Plain(Store(reg, v), im) /\ Plain(Load(reg), im)
    BY <1>1 DEF Plain, Store, Load
  <1>2. ASSUME NEW w, NEW v PROVE Plain(Publish(w, v), im)
    BY DEF Plain, Publish, TimerRegs
  <1>3. ASSUME NEW n, NEW v, n # "delay" PROVE Plain(Let(n, v), im)
    BY <1>3 DEF Plain, Let
  <1>4. ASSUME NEW f, NEW x, f \in Calls(im) PROVE Plain(Call(f, x), im)
    BY <1>4 DEF Plain, Call
  <1>5. ASSUME NEW n \in Lengths(im) PROVE Plain(Call("delay", n), im)
    BY <1>5 DEF Plain, Call
  <1> QED
    BY <1>1, <1>2, <1>3, <1>4, <1>5

LEMMA PlainEach ==
  ASSUME NEW im, NEW f \in Calls(im), NEW k \in Nat, NEW xs, DOMAIN xs = 1..k
  PROVE  Plains(Each(f, xs), im)
  <1> DEFINE S == {Call(f, xs[i]) : i \in 1..k}
  <1>1. \A x \in S : Plain(x, im)
    BY PlainItems
  <1>2. \A i \in 1..k : Call(f, xs[i]) \in S
    OBVIOUS
  <1> HIDE DEF S
  <1>3. [i \in 1..k |-> Call(f, xs[i])] \in Seq(S)
    BY <1>2
  <1> QED
    BY <1>1, <1>3, PlainsOf DEF Each

LEMMA PlainOne == ASSUME NEW im, NEW a, Plain(a, im) PROVE Plains(<<a>>, im)
  <1> DEFINE S == {a}
  <1>1. <<a>> \in Seq(S) /\ \A x \in S : Plain(x, im)
    OBVIOUS
  <1> HIDE DEF S
  <1> QED
    BY <1>1, PlainsOf

LEMMA BitLists ==
  ASSUME NEW b, NEW k \in Nat
  PROVE  DOMAIN LsbFirst(b, k) = 1..k /\ DOMAIN MsbFirst(b, k) = 1..k
  BY DEF LsbFirst, MsbFirst

LEMMA TmPlain ==
  ASSUME image = "tm1637", NEW f, NEW x,
         f \in Calls(image) \/ (f = "transfer" /\ x \in {Tm!Transfers[i] : i \in 1..3})
  PROVE  Plains(Body(f, x), image)
  <1> DEFINE S == {Tm!DioLow, Tm!DioRel, Tm!ClkLow, Tm!ClkRel, Tm!Qtr}
  <1>1. \A y \in S : Plain(y, image)
    <2>1. /\ Tm!DioLow = Store("GPIO_OE_SET", {9}) /\ Tm!DioRel = Store("GPIO_OE_CLR", {9})
          /\ Tm!ClkLow = Store("GPIO_OE_SET", {10}) /\ Tm!ClkRel = Store("GPIO_OE_CLR", {10})
          /\ Tm!Qtr = Call("delay", 25)
      BY DEF Tm!DioLow, Tm!DioRel, Tm!ClkLow, Tm!ClkRel, Tm!Qtr, Tm!Store, Store, Tm!Call, Call,
             Tm!DIO, Tm!CLK, Tm!QuarterCycles
    <2>2. "GPIO_OE_SET" \notin TimerRegs /\ "GPIO_OE_CLR" \notin TimerRegs
      BY DEF TimerRegs
    <2>3. 25 \in Lengths(image)
      BY ImageFacts
    <2> QED
      BY <2>1, <2>2, <2>3, PlainItems
  <1>2. /\ Tm!DioLow \in S /\ Tm!DioRel \in S /\ Tm!ClkLow \in S /\ Tm!ClkRel \in S /\ Tm!Qtr \in S
    OBVIOUS
  <1> HIDE DEF S
  <1>3. Plains(Tm!TmStart, image) /\ Plains(Tm!TmStop, image) /\ Plains(Tm!Pulse, image)
    <2>1. Tm!TmStart \in Seq(S) /\ Tm!TmStop \in Seq(S) /\ Tm!Pulse \in Seq(S)
      BY <1>2 DEF Tm!TmStart, Tm!TmStop, Tm!Pulse
    <2> QED
      BY <1>1, <2>1, PlainsOf
  <1>4. Plains(Tm!WriteBit(x), image)
    <2>1. Plains(<<IF x = 1 THEN Tm!DioRel ELSE Tm!DioLow>>, image)
      BY <1>1, <1>2, PlainOne
    <2> QED
      BY <1>3, <2>1, PlainsConcat DEF Tm!WriteBit
  <1>5. Plains(Tm!TmWrite(x), image)
    <2>1. Tm!Each("writeBit", Tm!LsbFirst(x, 8)) = Each("writeBit", LsbFirst(x, 8))
      BY DEF Tm!Each, Each, Tm!LsbFirst, LsbFirst, Tm!BitOf, BitOf, Tm!Call, Call
    <2>2. Plains(Each("writeBit", LsbFirst(x, 8)), image)
      <3>1. "writeBit" \in Calls(image)
        BY ImageFacts
      <3>2. DOMAIN LsbFirst(x, 8) = 1..8
        BY BitLists
      <3> QED
        BY <3>1, <3>2, PlainEach
    <2>3. Plains(<<Tm!DioRel>>, image)
      BY <1>1, <1>2, PlainOne
    <2> QED
      BY <1>3, <2>1, <2>2, <2>3, PlainsConcat DEF Tm!TmWrite
  <1>6. ASSUME x \in {Tm!Transfers[i] : i \in 1..3} PROVE Plains(Tm!Transfer(x), image)
    <2>1. PICK k \in Nat : DOMAIN x = 1..k
      <3>1. x \in {<<64>>, <<192, 6, 91>>, <<143>>}
        BY <1>6 DEF Tm!Transfers
      <3>2. DOMAIN x = 1..1 \/ DOMAIN x = 1..3
        BY <3>1
      <3> QED
        BY <3>2
    <2>2. Plains(Each("write", x), image) /\ Tm!Each("write", x) = Each("write", x)
      <3>1. "write" \in Calls(image)
        BY ImageFacts
      <3> QED
        BY <2>1, <3>1, PlainEach DEF Tm!Each, Each, Tm!Call, Call
    <2>3. Plains(<<Call("start", 0)>>, image) /\ Plains(<<Call("stop", 0)>>, image)
      BY ImageFacts, PlainItems, PlainOne
    <2> QED
      BY <2>2, <2>3, PlainsConcat DEF Tm!Transfer, Tm!Call, Call
  <1>7. ASSUME f \in {"start", "stop", "transfer", "write", "writeBit"} PROVE Body(f, x) = Tm!Body(f, x)
    BY <1>7 DEF Body, Of, Idioms
  <1>8. /\ f = "start" => Tm!Body(f, x) = Tm!TmStart
        /\ f = "stop" => Tm!Body(f, x) = Tm!TmStop
        /\ f = "transfer" => Tm!Body(f, x) = Tm!Transfer(x)
        /\ f = "write" => Tm!Body(f, x) = Tm!TmWrite(x)
        /\ f = "writeBit" => Tm!Body(f, x) = Tm!WriteBit(x)
    BY DEF Tm!Body
  <1> QED
    BY <1>3, <1>4, <1>5, <1>6, <1>7, <1>8, ImageFacts

LEMMA HtPlain ==
  ASSUME image = "ht1621", NEW f, NEW x, f \in Calls(image) PROVE Plains(Body(f, x), image)
  <1> DEFINE S == {Store("GPIO_OUT_SET", {p}) : p \in 9..11}
                  \cup {Store("GPIO_OUT_CLR", {p}) : p \in 9..11} \cup {Call("delay", 32)}
  <1>1. \A y \in S : Plain(y, image)
    <2>1. "GPIO_OUT_SET" \notin TimerRegs /\ "GPIO_OUT_CLR" \notin TimerRegs
      BY DEF TimerRegs
    <2>2. 32 \in Lengths(image)
      BY ImageFacts
    <2> QED
      BY <2>1, <2>2, PlainItems
  <1>2. /\ \A p \in 9..11 : Ht!High(p) \in S /\ Ht!LowPad(p) \in S
        /\ Ht!Half \in S /\ {Ht!CS, Ht!WR, Ht!DATA} \subseteq 9..11
    <2>1. \A p : Ht!High(p) = Store("GPIO_OUT_SET", {p}) /\ Ht!LowPad(p) = Store("GPIO_OUT_CLR", {p})
      BY DEF Ht!High, Ht!LowPad, Ht!Store, Store
    <2>2. Ht!Half = Call("delay", 32)
      BY DEF Ht!Half, Ht!THalf, Ht!Call, Call
    <2>3. {Ht!CS, Ht!WR, Ht!DATA} \subseteq 9..11
      BY DEF Ht!CS, Ht!WR, Ht!DATA
    <2> QED
      BY <2>1, <2>2, <2>3
  <1> HIDE DEF S
  <1>3. Plains(Ht!Select, image) /\ Plains(Ht!Deselect, image) /\ Plains(Ht!SendBit(x), image)
    <2>1. Ht!Select \in Seq(S) /\ Ht!Deselect \in Seq(S) /\ Ht!SendBit(x) \in Seq(S)
      BY <1>2 DEF Ht!Select, Ht!Deselect, Ht!SendBit
    <2> QED
      BY <1>1, <2>1, PlainsOf
  <1>4. ASSUME NEW b, NEW k \in Nat PROVE Plains(Ht!SendBits(b, k), image)
    <2>1. Ht!SendBits(b, k) = Each("sendBit", MsbFirst(b, k))
      BY DEF Ht!SendBits, Ht!Each, Each, Ht!MsbFirst, MsbFirst, Ht!BitOf, BitOf, Ht!Call, Call
    <2>2. "sendBit" \in Calls(image)
      BY ImageFacts
    <2>3. DOMAIN MsbFirst(b, k) = 1..k
      BY BitLists
    <2> QED
      BY <2>1, <2>2, <2>3, PlainEach
  <1>5. Plains(Ht!HtCmd(x), image)
    <2>1. Plains(Ht!SendBits(7 * 2^9 + x * 2, 12), image)
      BY <1>4
    <2> QED
      BY <1>3, <2>1, PlainsConcat DEF Ht!HtCmd
  <1>6. Plains(Ht!HtWrite(x, 4660, 4), image)
    <2>1. /\ Plains(Ht!SendBits(4 * 2^6 + (x % 64), 9), image)
          /\ Plains(Ht!SendBits(4660, 4 * 4), image)
      BY <1>4
    <2> QED
      BY <1>3, <2>1, PlainsConcat DEF Ht!HtWrite
  <1>7. ASSUME f \in {"cmd", "write", "sendBit"} PROVE Body(f, x) = Ht!Body(f, x)
    BY <1>7 DEF Body, Of, Idioms
  <1>8. /\ f = "cmd" => Ht!Body(f, x) = Ht!HtCmd(x)
        /\ f = "write" => Ht!Body(f, x) = Ht!HtWrite(x, 4660, 4)
        /\ f = "sendBit" => Ht!Body(f, x) = Ht!SendBit(x)
    BY DEF Ht!Body
  <1> QED
    BY <1>3, <1>5, <1>6, <1>7, <1>8, ImageFacts

LEMMA HdPlain ==
  ASSUME image = "hd44780", NEW f, NEW x, f \in Calls(image) PROVE Plains(Body(f, x), image)
  <1>1. \A v : /\ Plain(Hd!Store("GPIO_OUT_SET", v), image)
               /\ Plain(Hd!Store("GPIO_OUT_CLR", v), image)
    BY PlainItems DEF TimerRegs, Hd!Store, Store
  <1>2. Plain(Hd!Call("delay", 16), image) /\ Plain(Hd!Call("delay", 32), image)
    BY ImageFacts, PlainItems DEF Hd!Call, Call
  <1>3. Plains(Hd!PulseE, image)
    <2> DEFINE S == {Hd!Store("GPIO_OUT_SET", {Hd!E}), Hd!Store("GPIO_OUT_CLR", {Hd!E}),
                     Hd!Call("delay", 16)}
    <2>1. Hd!PulseE \in Seq(S)
      BY DEF Hd!PulseE
    <2>2. \A y \in S : Plain(y, image)
      BY <1>1, <1>2
    <2> HIDE DEF S
    <2> QED
      BY <2>1, <2>2, PlainsOf
  <1>4. ASSUME NEW k PROVE Plains(Hd!DriveNibble(k), image)
    <2> DEFINE v == {p \in Hd!Data : Hd!BitOf(k, p - 11) = 1}
               S == {Hd!Store("GPIO_OUT_CLR", Hd!Data), Hd!Store("GPIO_OUT_SET", v)}
    <2>1. Hd!DriveNibble(k) \in Seq(S)
      BY DEF Hd!DriveNibble
    <2>2. \A y \in S : Plain(y, image)
      BY <1>1
    <2> QED
      BY <2>1, <2>2, PlainsOf
  <1>5. ASSUME NEW rs PROVE Plains(Hd!LcdSend(x, rs), image)
    <2>1. Plains(<<Hd!Store(IF rs = 1 THEN "GPIO_OUT_SET" ELSE "GPIO_OUT_CLR", {Hd!RS})>>, image)
      BY <1>1, PlainOne
    <2>2. Plains(<<Hd!Call("delay", 32)>>, image)
      BY <1>2, PlainOne
    <2>3. Plains(Hd!DriveNibble(x \div 16), image) /\ Plains(Hd!DriveNibble(x % 16), image)
      BY <1>4
    <2> QED
      BY <1>3, <2>1, <2>2, <2>3, PlainsConcat DEF Hd!LcdSend
  <1>6. ASSUME f \in {"cmd", "data"} PROVE Body(f, x) = Hd!Body(f, x)
    BY <1>6 DEF Body, Of, Idioms
  <1>7. /\ f = "cmd" => Hd!Body(f, x) = Hd!LcdSend(x, 0)
        /\ f = "data" => Hd!Body(f, x) = Hd!LcdSend(x, 1)
    BY DEF Hd!Body
  <1> QED
    BY <1>5, <1>6, <1>7, ImageFacts

LEMMA OwPlain ==
  ASSUME image = "onewire", NEW f, NEW x, f \in Calls(image) PROVE Plains(Body(f, x), image)
  <1>1. /\ Plain(Ow!DriveLow, image) /\ Plain(Ow!Release, image) /\ Plain(Ow!Sample, image)
        /\ \A n \in Lengths(image) : Plain(Ow!Delay(n), image)
        /\ \A g \in Calls(image) : \A y : Plain(Ow!Call(g, y), image)
        /\ \A n, v : n # "delay" => Plain(Ow!Let(n, v), image)
        /\ \A w, v : Plain(Ow!Publish(w, v), image)
    BY PlainItems DEF TimerRegs, Ow!DriveLow, Ow!Release, Ow!Sample, Ow!Delay, Ow!Store, Store,
       Ow!Load, Load, Ow!Call, Call, Ow!Let, Let, Ow!Publish, Publish
  <1>2. /\ {12, 15, 25, 138, 150, 1200, 1500} \subseteq Lengths(image)
        /\ {"reset", "presence", "present", "writeBit", "writeByte", "readBit", "take", "readByte",
            "keep", "scratch"} = Calls(image)
    BY ImageFacts
  <1>3. Plains(Ow!OwReset, image)
    <2> DEFINE S == {Ow!DriveLow, Ow!Delay(1200), Ow!Release, Ow!Delay(150), Ow!Sample,
                     Ow!Call("presence", 0), Ow!Delay(1500)}
    <2>1. Ow!OwReset \in Seq(S)
      BY DEF Ow!OwReset
    <2>2. \A y \in S : Plain(y, image)
      BY <1>1, <1>2
    <2> QED
      BY <2>1, <2>2, PlainsOf
  <1>4. Plains(Ow!ReadBit(x), image)
    <2> DEFINE S == {Ow!DriveLow, Ow!Delay(12), Ow!Release, Ow!Delay(25), Ow!Sample,
                     Ow!Call("take", x), Ow!Delay(138), Ow!Delay(15)}
    <2>1. Ow!ReadBit(x) \in Seq(S)
      BY DEF Ow!ReadBit
    <2>2. \A y \in S : Plain(y, image)
      BY <1>1, <1>2
    <2> QED
      BY <2>1, <2>2, PlainsOf
  <1>5. Plains(Ow!WriteBit(x), image)
    <2> DEFINE S == {Ow!DriveLow, Ow!Delay(25), Ow!Release, Ow!Delay(150), Ow!Delay(15)}
    <2>1. \A y \in S : Plain(y, image)
      BY <1>1, <1>2
    <2>2. /\ Ow!DriveLow \in S /\ Ow!Delay(25) \in S /\ Ow!Release \in S /\ Ow!Delay(150) \in S
          /\ Ow!Delay(15) \in S
      OBVIOUS
    <2> HIDE DEF S
    <2>3. /\ <<Ow!DriveLow, Ow!Delay(25), Ow!Release, Ow!Delay(150)>> \in Seq(S)
          /\ <<Ow!DriveLow, Ow!Delay(150), Ow!Release, Ow!Delay(25)>> \in Seq(S)
          /\ <<Ow!Delay(15)>> \in Seq(S)
      BY <2>2
    <2>4. /\ Plains(<<Ow!DriveLow, Ow!Delay(25), Ow!Release, Ow!Delay(150)>>, image)
          /\ Plains(<<Ow!DriveLow, Ow!Delay(150), Ow!Release, Ow!Delay(25)>>, image)
          /\ Plains(<<Ow!Delay(15)>>, image)
      BY <2>1, <2>3, PlainsOf
    <2> HIDE DEF S
    <2>5. CASE x = 1
      BY <2>4, <2>5, PlainsConcat DEF Ow!WriteBit
    <2>6. CASE x # 1
      BY <2>4, <2>6, PlainsConcat DEF Ow!WriteBit
    <2> QED
      BY <2>5, <2>6
  <1>6. Plains(Ow!Presence, image) /\ Plains(Ow!Take(x), image)
    BY <1>1, PlainOne DEF Ow!Presence, Ow!Take
  <1>7. Plains(Ow!WriteByte(x), image)
    <2>1. Ow!WriteByte(x) = Each("writeBit", LsbFirst(x, 8))
      BY DEF Ow!WriteByte, Ow!Each, Each, Ow!LsbFirst, LsbFirst, Ow!BitOf, BitOf, Ow!Call, Call
    <2>2. DOMAIN LsbFirst(x, 8) = 1..8
      BY BitLists
    <2>3. "writeBit" \in Calls(image)
      BY <1>2
    <2> QED
      BY <2>1, <2>2, <2>3, PlainEach
  <1>8. Plains(Ow!ReadByte, image)
    <2> DEFINE S == {Ow!Call("readBit", i - 1) : i \in 1..8}
    <2>1. \A i \in 1..8 : Ow!Call("readBit", i - 1) \in S
      OBVIOUS
    <2>2. \A y \in S : Plain(y, image)
      BY <1>1, <1>2
    <2> HIDE DEF S
    <2>3. [i \in 1..8 |-> Ow!Call("readBit", i - 1)] \in Seq(S)
      BY <2>1
    <2>4. Plains([i \in 1..8 |-> Ow!Call("readBit", i - 1)], image)
      BY <2>2, <2>3, PlainsOf
    <2>5. Plains(<<Ow!Let("b", 0)>>, image)
      BY <1>1, PlainOne
    <2> QED
      BY <2>4, <2>5, PlainsConcat DEF Ow!ReadByte
  <1>9. Plains(Ow!ReadAll, image)
    <2> DEFINE S == {Ow!Call("readByte", 0), Ow!Call("keep", 0)}
    <2>1. \A y \in S : Plain(y, image)
      BY <1>1, <1>2
    <2>2. Ow!ReadAll = [i \in 1..4 |-> IF i % 2 = 1 THEN Ow!Call("readByte", 0)
                                       ELSE Ow!Call("keep", 0)]
      BY DEF Ow!ReadAll, Ow!ScratchBytes
    <2>3. \A i \in 1..4 : (IF i % 2 = 1 THEN Ow!Call("readByte", 0) ELSE Ow!Call("keep", 0)) \in S
      OBVIOUS
    <2> HIDE DEF S
    <2>4. Ow!ReadAll \in Seq(S)
      BY <2>2, <2>3
    <2> QED
      BY <2>1, <2>4, PlainsOf
  <1>10. Plains(Ow!Present, image)
    <2>1. Plains(<<Ow!Publish(1, 0)>>, image) /\ Plains(<<Ow!Call("scratch", 0)>>, image)
      BY <1>1, <1>2, PlainOne
    <2>2. Plains(<<Ow!Publish(1, 1), Ow!Call("writeByte", 190), Ow!Let("scratch", <<>>)>>, image)
      <3> DEFINE a == Ow!Publish(1, 1)
                 b == Ow!Call("writeByte", 190)
                 c == Ow!Let("scratch", <<>>)
                 S == {a, b, c}
      <3>1. Plain(a, image) /\ Plain(b, image) /\ Plain(c, image)
        <4>1. Plain(a, image)
          BY <1>1
        <4>2. "writeByte" \in Calls(image)
          BY <1>2
        <4>3. Plain(b, image)
          BY <1>1, <4>2
        <4>4. Plain(c, image)
          <5>1. \A v : Plain(Ow!Let("scratch", v), image)
            BY <1>1
          <5> QED
            BY <5>1, Zenon
        <4> QED
          BY <4>1, <4>3, <4>4
      <3> HIDE DEF a, b, c
      <3>2. <<a, b, c>> \in Seq(S) /\ \A y \in S : Plain(y, image)
        BY <3>1
      <3> HIDE DEF S
      <3>3. Plains(<<a, b, c>>, image)
        BY <3>2, PlainsOf
      <3> QED
        BY <3>3 DEF a, b, c
    <2> QED
      BY <1>9, <2>1, <2>2, PlainsConcat DEF Ow!Present
  <1>11. Plains(Ow!Scratch, image)
    <2> DEFINE S == {Ow!Publish(w, v) : w \in {4, 5, 6},
                       v \in {var.scratch[1], var.scratch[2], 256 * var.scratch[2] + var.scratch[1]}}
    <2>1. Ow!Scratch \in Seq(S)
      BY DEF Ow!Scratch
    <2>2. \A y \in S : Plain(y, image)
      BY <1>1
    <2> QED
      BY <2>1, <2>2, PlainsOf
  <1>12. Plains(<<Ow!Let("scratch", Append(var.scratch, var.b))>>, image)
    BY <1>1, PlainOne
  <1>13. Body(f, x) = Ow!Body(f, x)
    BY <1>2 DEF Body, Of, Idioms
  <1>14. /\ f = "reset" => Ow!Body(f, x) = Ow!OwReset
         /\ f = "presence" => Ow!Body(f, x) = Ow!Presence
         /\ f = "present" => Ow!Body(f, x) = Ow!Present
         /\ f = "writeBit" => Ow!Body(f, x) = Ow!WriteBit(x)
         /\ f = "writeByte" => Ow!Body(f, x) = Ow!WriteByte(x)
         /\ f = "readBit" => Ow!Body(f, x) = Ow!ReadBit(x)
         /\ f = "take" => Ow!Body(f, x) = Ow!Take(x)
         /\ f = "readByte" => Ow!Body(f, x) = Ow!ReadByte
         /\ f = "keep" => Ow!Body(f, x) = <<Ow!Let("scratch", Append(var.scratch, var.b))>>
         /\ f = "scratch" => Ow!Body(f, x) = Ow!Scratch
    BY DEF Ow!Body
  <1> QED
    BY <1>2, <1>3, <1>4, <1>5, <1>6, <1>7, <1>8, <1>10, <1>11, <1>12, <1>13, <1>14

LEMMA BodyPlain ==
  ASSUME image \in Delayed, NEW x, Plain(x, image), "call" \in DOMAIN x, x.call # "delay"
  PROVE  Plains(Body(x.call, x.arg), image)
  <1>1. \/ x.call \in Calls(image)
        \/ image = "tm1637" /\ x.call = "transfer" /\ x.arg \in {Tm!Transfers[i] : i \in 1..3}
    BY DEF Plain
  <1> QED
    BY <1>1, TmPlain, HtPlain, HdPlain, OwPlain DEF Delayed

\* The main programs as well.
LEMMA MainPlain == ASSUME image \in Delayed PROVE Plains(Main, image)
  <1>1. \A v, w, u : /\ Plain(Store("GPIO_OUT_CLR", v), image) /\ Plain(Store("GPIO_OUT_SET", v), image)
                     /\ Plain(Store("GPIO_OE_CLR", v), image) /\ Plain(Store("GPIO_OE_SET", v), image)
                     /\ Plain(Publish(w, u), image)
    BY PlainItems DEF TimerRegs
  <1>2. CASE image = "tm1637"
    <2>1. Main = Tm!Main
      BY <1>2 DEF Main, Of
    <2> DEFINE a == Store("GPIO_OUT_CLR", {9, 10})
               b == Store("GPIO_OE_CLR", {9, 10})
               c == Publish(0, 0)
               d == Publish(0, 1)
    <2>2. Tm!Main = <<a, b, c>> \o Tm!Each("transfer", Tm!Transfers) \o <<d>>
      BY DEF Tm!Main, Tm!DIO, Tm!CLK, Tm!Store, Store, Tm!Publish, Publish
    <2>3. Plain(a, image) /\ Plain(b, image) /\ Plain(c, image) /\ Plain(d, image)
      BY <1>1
    <2> HIDE DEF a, b, c, d
    <2>4. Plains(<<a, b, c>>, image)
      <3> DEFINE S == {a, b, c}
      <3>1. <<a, b, c>> \in Seq(S) /\ \A y \in S : Plain(y, image)
        BY <2>3
      <3> HIDE DEF S
      <3> QED
        BY <3>1, PlainsOf
    <2>5. Plains(Tm!Each("transfer", Tm!Transfers), image)
      <3> DEFINE S == {Call("transfer", Tm!Transfers[i]) : i \in 1..3}
      <3>1. \A y \in S : Plain(y, image)
        BY <1>2 DEF Plain, Call
      <3>2. \A i \in 1..3 : Call("transfer", Tm!Transfers[i]) \in S
        OBVIOUS
      <3> HIDE DEF S
      <3>3. [i \in 1..3 |-> Call("transfer", Tm!Transfers[i])] \in Seq(S)
        BY <3>2
      <3>4. DOMAIN Tm!Transfers = 1..3
        BY DEF Tm!Transfers
      <3>5. Tm!Each("transfer", Tm!Transfers) = [i \in 1..3 |-> Call("transfer", Tm!Transfers[i])]
        BY <3>4 DEF Tm!Each, Tm!Call, Call
      <3> QED
        BY <3>1, <3>3, <3>5, PlainsOf
    <2>6. Plains(<<d>>, image)
      BY <2>3, PlainOne
    <2> QED
      BY <2>1, <2>2, <2>4, <2>5, <2>6, PlainsConcat
  <1>3. CASE image = "ht1621"
    <2>1. Main = Ht!Main
      BY <1>3 DEF Main, Of
    <2> DEFINE a == Store("GPIO_OUT_CLR", {9, 10, 11})
               b == Store("GPIO_OUT_SET", {9, 10})
               c == Store("GPIO_OE_SET", {9, 10, 11})
               d == Publish(0, 0)
               e == Call("cmd", 3)
               f == Call("cmd", 7)
               g == Call("write", 0)
               h == Publish(0, 1)
    <2>2. Ht!Main = <<a, b, c, d, e, f, g, h>>
      BY DEF Ht!Main, Ht!CS, Ht!WR, Ht!DATA, Ht!Store, Store, Ht!Publish, Publish, Ht!Call, Call
    <2>3. Plain(a, image) /\ Plain(b, image) /\ Plain(c, image) /\ Plain(d, image) /\ Plain(h, image)
      BY <1>1
    <2>4. Plain(e, image) /\ Plain(f, image) /\ Plain(g, image)
      <3>1. "cmd" \in Calls(image) /\ "write" \in Calls(image)
        BY <1>3, ImageFacts
      <3> QED
        BY <3>1, PlainItems
    <2> HIDE DEF a, b, c, d, e, f, g, h
    <2> DEFINE S == {a, b, c, d, e, f, g, h}
    <2>5. \A y \in S : Plain(y, image)
      BY <2>3, <2>4
    <2>6. a \in S /\ b \in S /\ c \in S /\ d \in S /\ e \in S /\ f \in S /\ g \in S /\ h \in S
      OBVIOUS
    <2> HIDE DEF S
    <2>7. <<a, b, c, d, e, f, g, h>> \in Seq(S)
      BY <2>6
    <2> QED
      BY <2>1, <2>2, <2>5, <2>7, PlainsOf
  <1>4. CASE image = "hd44780"
    <2>1. Main = Hd!Main
      BY <1>4 DEF Main, Of
    <2> DEFINE a == Hd!Store("GPIO_OUT_CLR", Hd!Data \cup {Hd!RS, Hd!E})
               b == Hd!Store("GPIO_OE_SET", Hd!Data \cup {Hd!RS, Hd!E})
               c == Hd!Publish(0, 0)
               d == Hd!Call("delay", 64)
               e == Hd!Publish(0, 1)
               p == Hd!Each("cmd", SubSeq(Hd!Commands, 1, 3))
               q == Hd!Each("cmd", SubSeq(Hd!Commands, 4, 5))
               r == Hd!Each("data", Hd!Text)
    <2>2. Hd!Main = <<a, b, c>> \o p \o <<d>> \o q \o r \o <<e>>
      BY DEF Hd!Main
    <2>3. Plain(a, image) /\ Plain(b, image) /\ Plain(c, image) /\ Plain(e, image)
      BY <1>1 DEF Hd!Store, Store, Hd!Publish, Publish
    <2>4. Plain(d, image)
      BY <1>4, ImageFacts, PlainItems DEF Hd!Call, Call
    <2>5. Plains(p, image) /\ Plains(q, image) /\ Plains(r, image)
      <3>1. "cmd" \in Calls(image) /\ "data" \in Calls(image)
        BY <1>4, ImageFacts
      <3>2. Hd!Commands \in Seq(Nat) /\ Len(Hd!Commands) = 5
        BY DEF Hd!Commands
      <3>3. DOMAIN SubSeq(Hd!Commands, 1, 3) = 1..3 /\ DOMAIN SubSeq(Hd!Commands, 4, 5) = 1..2
        BY <3>2
      <3>4. DOMAIN Hd!Text = 1..7
        BY DEF Hd!Text
      <3>5. \A g, xs : Hd!Each(g, xs) = Each(g, xs)
        BY DEF Hd!Each, Each, Hd!Call, Call
      <3>6. /\ Plains(Each("cmd", SubSeq(Hd!Commands, 1, 3)), image)
            /\ Plains(Each("cmd", SubSeq(Hd!Commands, 4, 5)), image)
            /\ Plains(Each("data", Hd!Text), image)
        BY <3>1, <3>3, <3>4, PlainEach
      <3> QED
        BY <3>5, <3>6
    <2> HIDE DEF a, b, c, d, e, p, q, r
    <2>6. Plains(<<a, b, c>>, image)
      <3> DEFINE S == {a, b, c}
      <3>1. <<a, b, c>> \in Seq(S) /\ \A y \in S : Plain(y, image)
        BY <2>3
      <3> HIDE DEF S
      <3> QED
        BY <3>1, PlainsOf
    <2>7. Plains(<<d>>, image) /\ Plains(<<e>>, image)
      BY <2>3, <2>4, PlainOne
    <2> QED
      BY <2>1, <2>2, <2>5, <2>6, <2>7, PlainsConcat
  <1>5. CASE image = "onewire"
    <2>1. Main = Ow!Main
      BY <1>5 DEF Main, Of
    <2> DEFINE S == {Publish(w, 0) : w \in {0, 1, 4, 5, 6}}
                    \cup {Publish(0, 1), Publish(2, 1), Ow!Release, Store("GPIO_OUT_CLR", {3}),
                          Call("reset", 0), Call("present", 0)}
    <2>2. \A y \in S : Plain(y, image)
      <3>1. "reset" \in Calls(image) /\ "present" \in Calls(image)
        BY <1>5, ImageFacts
      <3>2. Plain(Call("reset", 0), image) /\ Plain(Call("present", 0), image)
        BY <3>1, PlainItems
      <3>3. Plain(Ow!Release, image)
        BY <1>1 DEF Ow!Release, Ow!Store, Store
      <3> QED
        BY <1>1, <3>2, <3>3
    <2>3. /\ \A w \in {0, 1, 4, 5, 6} : Ow!Publish(w, 0) \in S
          /\ Ow!Publish(0, 1) \in S /\ Ow!Started \in S /\ Ow!Release \in S
          /\ Ow!Store("GPIO_OUT_CLR", {Ow!DQ}) \in S
          /\ Ow!Call("reset", 0) \in S /\ Ow!Call("present", 0) \in S
      BY DEF Ow!Publish, Publish, Ow!Started, Ow!Store, Store, Ow!Call, Call, Ow!DQ
    <2> HIDE DEF S
    <2>4. Ow!Main \in Seq(S)
      BY <2>3 DEF Ow!Main
    <2> QED
      BY <2>1, <2>2, <2>4, PlainsOf
  <1> QED
    BY <1>2, <1>3, <1>4, <1>5 DEF Delayed
-----------------------------------------------------------------------------
(* A cycle of the processor and of the timer. *)

LEMMA AlwaysClkIop == ASSUME phase = 0, ClockStep PROVE ClkIop /\ phase' = 0
  BY IopAssumption DEF ClkIop, ClockStep

LEMMA Moves ==
  ASSUME ~mie, ClkIop, rest \in Nat, NEW body, Core(body), todo # <<>>
  PROVE  /\ core # Idle =>
              /\ UNCHANGED <<todo, rest, mie, var>>
              /\ core.st = "req" /\ core.op.wr => core' = Idle /\ acc' = acc
              /\ core.st = "req" /\ ~core.op.wr => core' = Await(core.op) /\ acc' = acc
              /\ core.st = "wait" => core' = Idle /\ acc' = Read(core.op.sel)
         /\ core = Idle /\ rest > 0 => UNCHANGED <<core, todo, mie, acc, var>> /\ rest' = rest - 1
         /\ core = Idle /\ rest = 0 =>
              \/ /\ "sel" \in DOMAIN Head(todo) /\ core' = Request(Head(todo)) /\ todo' = Tail(todo)
                 /\ rest' = pace /\ UNCHANGED <<mie, acc, var>>
              \/ /\ "call" \in DOMAIN Head(todo) /\ todo' = body \o Tail(todo)
                 /\ rest' = pace /\ UNCHANGED <<core, mie, acc, var>>
              \/ /\ "var" \in DOMAIN Head(todo) /\ todo' = Tail(todo)
                 /\ var' = Put(var, Head(todo).var, Head(todo).val)
                 /\ UNCHANGED <<core, rest, mie, acc>>
              \/ {"mie", "mret", "spin"} \cap DOMAIN Head(todo) # {}
  <1>1. ~Trap /\ ~Sleep
    BY DEF Trap, Sleep, Interrupted
  <1>2. ASSUME core # Idle
        PROVE  /\ UNCHANGED <<todo, rest, mie, var>>
               /\ core.st = "req" /\ core.op.wr => core' = Idle /\ acc' = acc
               /\ core.st = "req" /\ ~core.op.wr => core' = Await(core.op) /\ acc' = acc
               /\ core.st = "wait" => core' = Idle /\ acc' = Read(core.op.sel)
    <2>1. Finish
      BY <1>2, Others, BeginIs
    <2> QED
      BY <2>1 DEF Finish, CoreStep, CoreBegin, CoreReset
  <1>3. ASSUME core = Idle, rest > 0
        PROVE  UNCHANGED <<core, todo, mie, acc, var>> /\ rest' = rest - 1
    <2>1. Compute
      <3>1. rest # 0
        BY <1>3
      <3>2. ~Return /\ ~Begin /\ ~Expand(body) /\ ~Assign /\ ~BusyWait /\ ~Unmask
        BY <3>1 DEF Return, Begin, Expand, Assign, BusyWait, Unmask, At, Ready
      <3>3. ~Finish
        BY <1>3 DEF Finish
      <3> QED
        BY <1>1, <3>2, <3>3 DEF Core
    <2> QED
      BY <2>1 DEF Compute
  <1>4. ASSUME core = Idle, rest = 0
        PROVE  Return \/ Begin \/ Expand(body) \/ Assign \/ BusyWait \/ Unmask
    BY <1>1, <1>4 DEF Core, Finish, Compute
  <1>5. CASE Return \/ Unmask \/ BusyWait
    BY <1>2, <1>3, <1>5 DEF Return, Unmask, BusyWait, At
  <1>6. CASE Begin
    BY <1>2, <1>3, <1>6, BeginIs DEF Begin, At
  <1>7. CASE Expand(body)
    BY <1>2, <1>3, <1>7 DEF Expand, At
  <1>8. CASE Assign
    BY <1>2, <1>3, <1>8 DEF Assign, At
  <1> QED
    BY <1>2, <1>3, <1>4, <1>5, <1>6, <1>7, <1>8

LEMMA TimerKept ==
  ASSUME TimerStep, ClkIop, cnt \in Nat, DOMAIN cmp = Channels
  PROVE  /\ cnt' \in Nat /\ cnt' <= cnt + 1 /\ DOMAIN cmp' = Channels
         /\ ~Stores("TIMER_CTL") => ctl' = ctl
         /\ ~Stores("TIMER_CMP") => cmp' = cmp
  <1>1. (cnt + 1) % CountMod \in Nat /\ (cnt + 1) % CountMod <= cnt + 1
    BY ChannelAssumption
  <1>2. Count /\ Configure
    BY DEF TimerStep
  <1>3. cnt' \in {0, cnt, (cnt + 1) % CountMod}
    BY <1>2 DEF Count
  <1> QED
    BY <1>1, <1>2, <1>3 DEF Configure

\* Nothing but a store of TIMER_STATUS loses a match.
LEMMA MatchKept ==
  ASSUME TimerStep, ClkIop, cnt \in Nat, DOMAIN cmp = Channels, 0 \in Channels, NEW n \in Nat,
         CmpSet(n), ctl.en, Unmissed(n),
         ~Stores("TIMER_CTL"), ~Stores("TIMER_CMP"), ~Stores("TIMER_STATUS")
  PROVE  CmpSet(n)' /\ ctl'.en /\ Unmissed(n)'
  <1>1. ctl' = ctl /\ cmp' = cmp
    BY TimerKept
  <1>2. cmp[0].en /\ cmp[0].val = n - 1
    BY DEF CmpSet, CmpOn, CmpOff
  <1>3. status' = status \cup Events
    BY DEF TimerStep, Status, Cleared
  <1>4. 0 \notin status' => 0 \notin status /\ cnt # n - 1
    BY <1>2, <1>3 DEF Events, Matches
  <1>5. cnt' \in Nat /\ cnt' <= cnt + 1
    BY TimerKept
  <1> QED
    BY <1>1, <1>4, <1>5 DEF CmpSet, Unmissed

LEMMA NoTimerStore ==
  ASSUME \/ core = Idle \/ core.st = "wait" \/ ~core.op.wr \/ core.op.sel \notin TimerRegs
  PROVE  ~Stores("TIMER_CTL") /\ ~Stores("TIMER_CMP") /\ ~Stores("TIMER_STATUS")
  BY DEF Stores, Active, Idle, TimerRegs

\* A cycle of one of the four images, its kind of item known.
DelayClock ==
    /\ DelayTypes /\ Registers /\ Core(Body(Head(todo).call, Head(todo).arg))
    /\ UNCHANGED <<pace, image>>
Kind(x) == {"sel", "call", "var", "mie", "mret", "spin"} \cap DOMAIN x

LEMMA DelayItems ==
  ASSUME NEW n
  PROVE  /\ Kind(SetCmp(n)) = {"sel"} /\ Kind(Go) = {"sel"} /\ Kind(Ack) = {"sel"}
         /\ Kind(Look) = {"sel"} /\ Kind(PollIt) = {"call"} /\ Kind(Test) = {"call"}
         /\ Kind(Let("delay", n)) = {"var"} /\ Kind(NoMore) = {"var"} /\ Kind(Call("delay", n)) = {"call"}
         /\ Let("delay", n).var = "delay" /\ Let("delay", n).val = n
         /\ NoMore.var = "delay" /\ NoMore.val = 0
         /\ PollIt.call = "poll" /\ PollIt.arg = 0 /\ Test.call = "matched" /\ Test.arg = 0
  <1>1. Kind(SetCmp(n)) = {"sel"}
    BY DEF Kind, SetCmp, Cmp
  <1>2. Kind(Go) = {"sel"} /\ Kind(Ack) = {"sel"} /\ Kind(Look) = {"sel"}
    BY DEF Kind, Go, Ctl, Ack, W1C, Look, Load, Store
  <1>3. Kind(PollIt) = {"call"} /\ Kind(Test) = {"call"} /\ Kind(Call("delay", n)) = {"call"}
    BY DEF Kind, PollIt, Test, Call
  <1>4. Kind(Let("delay", n)) = {"var"} /\ Kind(NoMore) = {"var"}
    BY DEF Kind, NoMore, Let
  <1> QED
    BY <1>1, <1>2, <1>3, <1>4 DEF PollIt, Test, NoMore, Call, Let

\* The processor between two accesses.
LEMMA IdleMoves ==
  ASSUME DelayClock, todo # <<>>, core = Idle
  PROVE  /\ rest' \in Nat \/ rest = 0
         /\ rest > 0 => UNCHANGED <<core, todo, mie, acc, var>> /\ rest' = rest - 1
         /\ rest = 0 /\ Kind(Head(todo)) = {"sel"} =>
              /\ core' = Request(Head(todo)) /\ todo' = Tail(todo) /\ rest' = pace
              /\ UNCHANGED <<mie, acc, var>>
         /\ rest = 0 /\ Kind(Head(todo)) = {"call"} =>
              /\ todo' = Body(Head(todo).call, Head(todo).arg) \o Tail(todo) /\ rest' = pace
              /\ UNCHANGED <<core, mie, acc, var>>
         /\ rest = 0 /\ Kind(Head(todo)) = {"var"} =>
              /\ todo' = Tail(todo) /\ var' = Put(var, Head(todo).var, Head(todo).val)
              /\ UNCHANGED <<core, rest, mie, acc>>
  <1>1. ~mie /\ ClkIop /\ rest \in Nat /\ Core(Body(Head(todo).call, Head(todo).arg))
    BY AlwaysClkIop DEF DelayClock, DelayTypes, Registers
  <1> DEFINE b == Body(Head(todo).call, Head(todo).arg)
             h == Head(todo)
  <1> HIDE DEF b, h
  <1>2. Core(b)
    BY <1>1 DEF b
  <1>3. /\ rest > 0 => UNCHANGED <<core, todo, mie, acc, var>> /\ rest' = rest - 1
        /\ rest = 0 =>
              \/ /\ "sel" \in DOMAIN h /\ core' = Request(h) /\ todo' = Tail(todo)
                 /\ rest' = pace /\ UNCHANGED <<mie, acc, var>>
              \/ /\ "call" \in DOMAIN h /\ todo' = b \o Tail(todo)
                 /\ rest' = pace /\ UNCHANGED <<core, mie, acc, var>>
              \/ /\ "var" \in DOMAIN h /\ todo' = Tail(todo)
                 /\ var' = Put(var, h.var, h.val) /\ UNCHANGED <<core, rest, mie, acc>>
              \/ {"mie", "mret", "spin"} \cap DOMAIN h # {}
    BY <1>1, <1>2, Moves DEF h
  <1>4. rest > 0 => rest' \in Nat
    BY <1>1, <1>3
  <1>5. /\ Kind(h) = {"sel"} => {"call", "var", "mie", "mret", "spin"} \cap DOMAIN h = {}
        /\ Kind(h) = {"call"} => {"sel", "var", "mie", "mret", "spin"} \cap DOMAIN h = {}
        /\ Kind(h) = {"var"} => {"sel", "call", "mie", "mret", "spin"} \cap DOMAIN h = {}
    BY DEF Kind
  <1>6. rest = 0 /\ Kind(h) = {"sel"} =>
              core' = Request(h) /\ todo' = Tail(todo) /\ rest' = pace /\ UNCHANGED <<mie, acc, var>>
    BY <1>3, <1>5
  <1>7. rest = 0 /\ Kind(h) = {"call"} =>
              todo' = b \o Tail(todo) /\ rest' = pace /\ UNCHANGED <<core, mie, acc, var>>
    BY <1>3, <1>5
  <1>8. rest = 0 /\ Kind(h) = {"var"} =>
              /\ todo' = Tail(todo) /\ var' = Put(var, h.var, h.val)
              /\ UNCHANGED <<core, rest, mie, acc>>
    BY <1>3, <1>5
  <1> QED
    BY <1>1, <1>3, <1>4, <1>6, <1>7, <1>8 DEF b, h

\* The processor during an access.
LEMMA BusMoves ==
  ASSUME DelayClock, todo # <<>>, core # Idle
  PROVE  /\ UNCHANGED <<todo, rest, mie, var>>
         /\ core.st = "req" /\ core.op.wr => core' = Idle /\ acc' = acc
         /\ core.st = "req" /\ ~core.op.wr => core' = Await(core.op) /\ acc' = acc
         /\ core.st = "wait" => core' = Idle /\ acc' = Read(core.op.sel)
  <1>1. ~mie /\ ClkIop /\ rest \in Nat /\ Core(Body(Head(todo).call, Head(todo).arg))
    BY AlwaysClkIop DEF DelayClock, DelayTypes, Registers
  <1> QED
    BY <1>1, Moves

\* The timer.
LEMMA ClockMoves ==
  ASSUME DelayClock
  PROVE  /\ phase' = 0 /\ cnt' \in Nat /\ cnt' <= cnt + 1 /\ pace' = pace /\ image' = image
         /\ DOMAIN cmp' = Channels /\ TimerStep /\ ClkIop
         /\ core = Idle \/ core.st = "wait" \/ ~core.op.wr \/ core.op.sel \notin TimerRegs =>
              ctl' = ctl /\ cmp' = cmp
  <1>1. ClkIop /\ phase' = 0 /\ TimerStep /\ cnt \in Nat /\ DOMAIN cmp = Channels
    BY AlwaysClkIop DEF DelayClock, DelayTypes, Registers
  <1> QED
    BY <1>1, TimerKept, NoTimerStore DEF DelayClock

\* While a delay runs and no store to the timer is out, it runs on.
LEMMA RunsOn ==
  ASSUME DelayClock, 0 \in Channels, NEW n \in Nat, CmpSet(n), ctl.en, Unmissed(n),
         core = Idle \/ core.st = "wait" \/ ~core.op.wr
  PROVE  CmpSet(n)' /\ ctl'.en /\ Unmissed(n)'
  <1>1. ClkIop /\ TimerStep /\ cnt \in Nat /\ DOMAIN cmp = Channels
    BY ClockMoves DEF DelayClock, DelayTypes
  <1> QED
    BY <1>1, MatchKept, NoTimerStore

\* The fronts of a program in a delay.
LEMMA Fronts ==
  ASSUME NEW n, NEW t, NEW im
  PROVE  /\ Follows(t, DelayCycles(n), im) =>
              /\ t # <<>> /\ Head(t) = SetCmp(n)
              /\ Follows(Tail(t), <<Go, Ack, Let("delay", n), PollIt, Ack, NoMore>>, im)
         /\ Follows(t, <<Go, Ack, Let("delay", n), PollIt, Ack, NoMore>>, im) =>
              /\ t # <<>> /\ Head(t) = Go
              /\ Follows(Tail(t), <<Ack, Let("delay", n), PollIt, Ack, NoMore>>, im)
         /\ Follows(t, <<Ack, Let("delay", n), PollIt, Ack, NoMore>>, im) =>
              /\ t # <<>> /\ Head(t) = Ack
              /\ Follows(Tail(t), <<Let("delay", n), PollIt, Ack, NoMore>>, im)
         /\ Follows(t, <<Let("delay", n), PollIt, Ack, NoMore>>, im) =>
              /\ t # <<>> /\ Head(t) = Let("delay", n)
              /\ Follows(Tail(t), <<PollIt, Ack, NoMore>>, im)
         /\ Follows(t, <<PollIt, Ack, NoMore>>, im) =>
              t # <<>> /\ Head(t) = PollIt /\ Follows(Tail(t), <<Ack, NoMore>>, im)
         /\ Follows(t, <<Look, Test, Ack, NoMore>>, im) =>
              t # <<>> /\ Head(t) = Look /\ Follows(Tail(t), <<Test, Ack, NoMore>>, im)
         /\ Follows(t, <<Test, Ack, NoMore>>, im) =>
              t # <<>> /\ Head(t) = Test /\ Follows(Tail(t), <<Ack, NoMore>>, im)
         /\ Follows(t, <<Ack, NoMore>>, im) =>
              t # <<>> /\ Head(t) = Ack /\ Follows(Tail(t), <<NoMore>>, im)
         /\ Follows(t, <<NoMore>>, im) => t # <<>> /\ Head(t) = NoMore /\ Plains(Tail(t), im)
  <1>0. ASSUME NEW S, NEW front \in Seq(S), front # <<>>, NEW a, NEW back,
               Head(front) = a, Tail(front) = back
        PROVE  Follows(t, front, im) => t # <<>> /\ Head(t) = a /\ Follows(Tail(t), back, im)
    BY <1>0, FollowsParts
  <1>1. ASSUME NEW a, NEW b, NEW c, NEW d, NEW e, NEW f, NEW g
        PROVE  /\ Follows(t, <<a, b, c, d, e, f, g>>, im) =>
                    t # <<>> /\ Head(t) = a /\ Follows(Tail(t), <<b, c, d, e, f, g>>, im)
               /\ Follows(t, <<b, c, d, e, f, g>>, im) =>
                    t # <<>> /\ Head(t) = b /\ Follows(Tail(t), <<c, d, e, f, g>>, im)
               /\ Follows(t, <<c, d, e, f, g>>, im) =>
                    t # <<>> /\ Head(t) = c /\ Follows(Tail(t), <<d, e, f, g>>, im)
    <2> DEFINE S == {a, b, c, d, e, f, g}
    <2>1. /\ <<a, b, c, d, e, f, g>> \in Seq(S) /\ <<b, c, d, e, f, g>> \in Seq(S)
          /\ <<c, d, e, f, g>> \in Seq(S)
      OBVIOUS
    <2>2. /\ <<a, b, c, d, e, f, g>> # <<>> /\ <<b, c, d, e, f, g>> # <<>> /\ <<c, d, e, f, g>> # <<>>
          /\ Head(<<a, b, c, d, e, f, g>>) = a /\ Tail(<<a, b, c, d, e, f, g>>) = <<b, c, d, e, f, g>>
          /\ Head(<<b, c, d, e, f, g>>) = b /\ Tail(<<b, c, d, e, f, g>>) = <<c, d, e, f, g>>
          /\ Head(<<c, d, e, f, g>>) = c /\ Tail(<<c, d, e, f, g>>) = <<d, e, f, g>>
      OBVIOUS
    <2> DEFINE w == <<a, b, c, d, e, f, g>>
               x == <<b, c, d, e, f, g>>
               y == <<c, d, e, f, g>>
               z == <<d, e, f, g>>
    <2>3. /\ w \in Seq(S) /\ w # <<>> /\ Head(w) = a /\ Tail(w) = x
          /\ x \in Seq(S) /\ x # <<>> /\ Head(x) = b /\ Tail(x) = y
          /\ y \in Seq(S) /\ y # <<>> /\ Head(y) = c /\ Tail(y) = z
      BY <2>1, <2>2
    <2> HIDE DEF S, w, x, y, z
    <2>4. /\ Follows(t, w, im) => t # <<>> /\ Head(t) = a /\ Follows(Tail(t), x, im)
          /\ Follows(t, x, im) => t # <<>> /\ Head(t) = b /\ Follows(Tail(t), y, im)
          /\ Follows(t, y, im) => t # <<>> /\ Head(t) = c /\ Follows(Tail(t), z, im)
      BY <2>3, <1>0
    <2> QED
      BY <2>4 DEF w, x, y, z
  <1>2. ASSUME NEW a, NEW b, NEW c, NEW d
        PROVE  /\ Follows(t, <<a, b, c, d>>, im) =>
                    t # <<>> /\ Head(t) = a /\ Follows(Tail(t), <<b, c, d>>, im)
               /\ Follows(t, <<b, c, d>>, im) =>
                    t # <<>> /\ Head(t) = b /\ Follows(Tail(t), <<c, d>>, im)
               /\ Follows(t, <<c, d>>, im) => t # <<>> /\ Head(t) = c /\ Follows(Tail(t), <<d>>, im)
    <2> DEFINE S == {a, b, c, d}
    <2>1. <<a, b, c, d>> \in Seq(S) /\ <<b, c, d>> \in Seq(S) /\ <<c, d>> \in Seq(S)
      OBVIOUS
    <2>2. /\ <<a, b, c, d>> # <<>> /\ <<b, c, d>> # <<>> /\ <<c, d>> # <<>>
          /\ Head(<<a, b, c, d>>) = a /\ Tail(<<a, b, c, d>>) = <<b, c, d>>
          /\ Head(<<b, c, d>>) = b /\ Tail(<<b, c, d>>) = <<c, d>>
          /\ Head(<<c, d>>) = c /\ Tail(<<c, d>>) = <<d>>
      OBVIOUS
    <2> DEFINE w == <<a, b, c, d>>
               x == <<b, c, d>>
               y == <<c, d>>
               z == <<d>>
    <2>3. /\ w \in Seq(S) /\ w # <<>> /\ Head(w) = a /\ Tail(w) = x
          /\ x \in Seq(S) /\ x # <<>> /\ Head(x) = b /\ Tail(x) = y
          /\ y \in Seq(S) /\ y # <<>> /\ Head(y) = c /\ Tail(y) = z
      BY <2>1, <2>2
    <2> HIDE DEF S, w, x, y, z
    <2>4. /\ Follows(t, w, im) => t # <<>> /\ Head(t) = a /\ Follows(Tail(t), x, im)
          /\ Follows(t, x, im) => t # <<>> /\ Head(t) = b /\ Follows(Tail(t), y, im)
          /\ Follows(t, y, im) => t # <<>> /\ Head(t) = c /\ Follows(Tail(t), z, im)
      BY <2>3, <1>0
    <2> QED
      BY <2>4 DEF w, x, y, z
  <1>3. Follows(t, <<NoMore>>, im) => t # <<>> /\ Head(t) = NoMore /\ Plains(Tail(t), im)
    BY FollowsLast
  <1> QED
    BY <1>1, <1>2, <1>3, DelayIs
-----------------------------------------------------------------------------
(* A cycle of a delay, stage by stage. *)

LEMMA LengthFacts ==
  ASSUME DelayClock, NEW n \in Lengths(image)
  PROVE  /\ n \in Nat /\ pace \in Nat /\ pace + 3 <= n /\ cnt \in Nat /\ rest \in Nat
         /\ cnt' \in Nat /\ cnt' <= cnt + 1 /\ pace' = pace /\ image' = image
  BY ClockMoves DEF DelayClock, DelayTypes

\* The store that is out.
LEMMA StoreOut ==
  ASSUME DelayClock, todo # <<>>, NEW reg, NEW op, op.sel = reg, op.wr = TRUE, core = Request(op)
  PROVE  /\ Stores(reg) /\ \A r : r # reg => ~Stores(r)
         /\ core # Idle /\ core.op = op /\ core' = Idle /\ UNCHANGED <<todo, rest, mie, var>>
  <1>1. core # Idle /\ core.st = "req" /\ core.op = op
    BY DEF Request, Idle
  <1>2. ClkIop
    BY ClockMoves
  <1>3. core' = Idle /\ UNCHANGED <<todo, rest, mie, var>>
    BY <1>1, BusMoves
  <1> QED
    BY <1>1, <1>2, <1>3 DEF Stores, Active

LEMMA CalledStep ==
  ASSUME DelayClock, NEW n \in Lengths(image), Called(n)
  PROVE  Called(n)' \/ Setting(n)'
  <1>1. /\ todo # <<>> /\ Head(todo) = SetCmp(n)
        /\ Follows(Tail(todo), <<Go, Ack, Let("delay", n), PollIt, Ack, NoMore>>, image)
    BY Fronts DEF Called
  <1>2. core = Idle /\ NoDelay /\ Follows(todo, DelayCycles(n), image) /\ image' = image
    BY LengthFacts DEF Called
  <1>3. CASE rest > 0
    <2>1. UNCHANGED <<core, todo, var>>
      BY <1>1, <1>2, <1>3, IdleMoves
    <2> QED
      BY <1>2, <2>1 DEF Called, NoDelay
  <1>4. CASE ~(rest > 0)
    <2>1. rest = 0
      BY <1>4, LengthFacts
    <2>2. core' = Request(SetCmp(n)) /\ todo' = Tail(todo) /\ var' = var
      BY <1>1, <1>2, <2>1, IdleMoves, DelayItems
    <2> QED
      BY <1>1, <1>2, <2>2 DEF Setting, NoDelay
  <1> QED
    BY <1>3, <1>4

LEMMA SettingStep ==
  ASSUME DelayClock, 0 \in Channels, NEW n \in Lengths(image), Setting(n)
  PROVE  Setting(n)' \/ Starting(n)'
  <1> DEFINE f == <<Go, Ack, Let("delay", n), PollIt, Ack, NoMore>>
             g == <<Ack, Let("delay", n), PollIt, Ack, NoMore>>
  <1>1. todo # <<>> /\ Head(todo) = Go /\ Follows(Tail(todo), g, image)
    BY Fronts DEF Setting
  <1>2. NoDelay /\ Follows(todo, f, image) /\ image' = image /\ pace' = pace
    BY LengthFacts DEF Setting
  <1>3. CASE core = Request(SetCmp(n))
    <2>1. /\ SetCmp(n).sel = "TIMER_CMP" /\ SetCmp(n).wr = TRUE
          /\ SetCmp(n).i = 0 /\ SetCmp(n).v = CmpOn(n - 1)
      BY DEF SetCmp, Cmp
    <2>2. Stores("TIMER_CMP") /\ core.op = SetCmp(n) /\ core' = Idle /\ UNCHANGED <<todo, var>>
      BY <1>1, <1>3, <2>1, StoreOut
    <2>3. cmp' = [cmp EXCEPT ![0] = CmpOn(n - 1)]
      BY <2>1, <2>2, ClockMoves DEF TimerStep, Configure
    <2>4. CmpSet(n)'
      BY <2>3 DEF CmpSet, DelayClock, DelayTypes
    <2> QED
      BY <1>2, <2>2, <2>4 DEF Setting, NoDelay
  <1>4. CASE core = Idle /\ CmpSet(n) /\ rest > 0
    <2>1. UNCHANGED <<core, todo, var>> /\ cmp' = cmp
      BY <1>1, <1>4, IdleMoves, ClockMoves
    <2> QED
      BY <1>2, <1>4, <2>1 DEF Setting, NoDelay, CmpSet
  <1>5. CASE core = Idle /\ CmpSet(n) /\ ~(rest > 0)
    <2>1. rest = 0
      BY <1>5, LengthFacts
    <2>2. core' = Request(Go) /\ todo' = Tail(todo) /\ rest' = pace /\ var' = var /\ cmp' = cmp
      BY <1>1, <1>5, <2>1, IdleMoves, ClockMoves, DelayItems
    <2> QED
      BY <1>1, <1>2, <1>5, <2>2 DEF Starting, NoDelay, CmpSet
  <1> QED
    BY <1>3, <1>4, <1>5 DEF Setting

LEMMA StartingStep ==
  ASSUME DelayClock, 0 \in Channels, NEW n \in Lengths(image), Starting(n)
  PROVE  Starting(n)' \/ Clearing(n)'
  <1> DEFINE f == <<Ack, Let("delay", n), PollIt, Ack, NoMore>>
             g == <<Let("delay", n), PollIt, Ack, NoMore>>
  <1>1. todo # <<>> /\ Head(todo) = Ack /\ Follows(Tail(todo), g, image)
    BY Fronts DEF Starting
  <1>2. NoDelay /\ Follows(todo, f, image) /\ image' = image /\ pace' = pace /\ CmpSet(n)
    BY LengthFacts DEF Starting
  <1>3. CASE core = Request(Go) /\ rest = pace
    <2>1. /\ Go.sel = "TIMER_CTL" /\ Go.wr = TRUE /\ Go.v.reset = TRUE /\ Go.v.ctl.en = TRUE
      BY DEF Go, Ctl, Store, CtlOff
    <2>2. /\ Stores("TIMER_CTL") /\ ~Stores("TIMER_CMP") /\ core.op = Go
          /\ core' = Idle /\ UNCHANGED <<todo, rest, var>>
      BY <1>1, <1>3, <2>1, StoreOut
    <2>3. cnt' = 0 /\ ctl'.en /\ cmp' = cmp
      BY <2>1, <2>2, ClockMoves DEF TimerStep, Configure, Count
    <2>4. cnt' + rest' <= pace'
      BY <1>2, <1>3, <2>2, <2>3, LengthFacts
    <2> QED
      BY <1>2, <2>2, <2>3, <2>4 DEF Starting, NoDelay, CmpSet
  <1>4. CASE core = Idle /\ ctl.en /\ cnt + rest <= pace /\ rest > 0
    <2>1. UNCHANGED <<core, todo, var>> /\ cmp' = cmp /\ ctl' = ctl /\ rest' = rest - 1
      BY <1>1, <1>4, IdleMoves, ClockMoves
    <2>2. cnt' + rest' <= pace'
      BY <1>4, <2>1, LengthFacts
    <2> QED
      BY <1>2, <1>4, <2>1, <2>2 DEF Starting, NoDelay, CmpSet
  <1>5. CASE core = Idle /\ ctl.en /\ cnt + rest <= pace /\ ~(rest > 0)
    <2>1. rest = 0
      BY <1>5, LengthFacts
    <2>2. /\ core' = Request(Ack) /\ todo' = Tail(todo) /\ rest' = pace /\ var' = var
          /\ cmp' = cmp /\ ctl' = ctl
      BY <1>1, <1>5, <2>1, IdleMoves, ClockMoves, DelayItems
    <2>3. cnt' <= pace + 1
      BY <1>5, <2>1, LengthFacts
    <2> QED
      BY <1>1, <1>2, <1>5, <2>2, <2>3 DEF Clearing, NoDelay, CmpSet
  <1> QED
    BY <1>3, <1>4, <1>5 DEF Starting

LEMMA DelayPut ==
  ASSUME NEW n, NEW x, x.var = "delay", x.val = n, var' = Put(var, x.var, x.val)
  PROVE  Set(n)' /\ (n = 0 => NoDelay')
  <1>1. "delay" \in DOMAIN var' /\ var'["delay"] = n
    BY DEF Put
  <1> QED
    BY <1>1 DEF Set, NoDelay

LEMMA ClearingStep ==
  ASSUME DelayClock, 0 \in Channels, NEW n \in Lengths(image), Clearing(n)
  PROVE  Clearing(n)' \/ Polling(n)'
  <1> DEFINE f == <<Let("delay", n), PollIt, Ack, NoMore>>
             g == <<PollIt, Ack, NoMore>>
  <1>1. todo # <<>> /\ Head(todo) = Let("delay", n) /\ Follows(Tail(todo), g, image)
    BY Fronts DEF Clearing
  <1>2. /\ NoDelay /\ Follows(todo, f, image) /\ image' = image /\ pace' = pace
        /\ CmpSet(n) /\ ctl.en
    BY LengthFacts DEF Clearing
  <1>3. CASE core = Request(Ack) /\ rest = pace /\ cnt <= pace + 1
    <2>1. Ack.sel = "TIMER_STATUS" /\ Ack.wr = TRUE /\ Ack.v = {0}
      BY DEF Ack, W1C, Store
    <2>2. /\ ~Stores("TIMER_CTL") /\ ~Stores("TIMER_CMP") /\ core' = Idle
          /\ UNCHANGED <<todo, rest, var>>
      BY <1>1, <1>3, <2>1, StoreOut
    <2>3. ctl' = ctl /\ cmp' = cmp
      BY <2>2, TimerKept, ClockMoves DEF DelayClock, DelayTypes
    <2>4. cnt' <= n - 1 /\ cnt' + rest' <= 2 * pace' + 2
      BY <1>2, <1>3, <2>2, LengthFacts
    <2> QED
      BY <1>2, <2>2, <2>3, <2>4 DEF Clearing, NoDelay, CmpSet, Unmissed
  <1>4. CASE core = Idle /\ Unmissed(n) /\ cnt + rest <= 2 * pace + 2
    <2>1. CmpSet(n)' /\ ctl'.en /\ Unmissed(n)'
      BY <1>2, <1>4, RunsOn, LengthFacts
    <2>2. CASE rest > 0
      <3>1. UNCHANGED <<core, todo, var>> /\ rest' = rest - 1
        BY <1>1, <1>4, <2>2, IdleMoves
      <3>2. cnt' + rest' <= 2 * pace' + 2
        BY <1>4, <2>2, <3>1, LengthFacts
      <3> QED
        BY <1>2, <1>4, <2>1, <3>1, <3>2 DEF Clearing, NoDelay
    <2>3. CASE ~(rest > 0)
      <3>1. rest = 0
        BY <2>3, LengthFacts
      <3>2. /\ todo' = Tail(todo) /\ var' = Put(var, Head(todo).var, Head(todo).val)
            /\ UNCHANGED <<core, rest>>
        BY <1>1, <1>4, <3>1, IdleMoves, DelayItems
      <3>3. Set(n)'
        BY <1>1, <3>2, DelayPut, DelayItems
      <3>4. cnt' + rest' <= n + 2 * pace' + 1
        <4>1. cnt <= 2 * pace + 2 /\ rest' = 0
          BY <1>4, <3>1, <3>2, LengthFacts
        <4>2. n >= 3 /\ cnt' <= 2 * pace + 3
          BY <4>1, LengthFacts
        <4> QED
          BY <1>2, <4>1, <4>2, LengthFacts
      <3> QED
        BY <1>1, <1>2, <1>4, <2>1, <3>2, <3>3, <3>4 DEF Polling, Delaying
    <2> QED
      BY <2>2, <2>3
  <1> QED
    BY <1>3, <1>4 DEF Clearing

\* What the calls of the wait leave.
LEMMA PollBodies ==
  /\ Body("poll", 0) = <<Look, Test>>
  /\ Body("matched", 0) = IF 0 \in acc THEN <<>> ELSE <<PollIt>>
  <1>1. Body("poll", 0) = Idiom("poll", 0) /\ Body("matched", 0) = Idiom("matched", 0)
    BY DEF Body, Idioms
  <1>2. Idiom("poll", 0) = Poll(0) /\ Idiom("matched", 0) = Matched(0)
    BY DEF Idiom
  <1> QED
    BY <1>1, <1>2 DEF Poll, Matched, Look, Test, PollIt

\* A call in front of two items is replaced by its body.
LEMMA BodyAhead ==
  ASSUME NEW s, NEW u, NEW im, NEW a, NEW b, NEW c, NEW d, Follows(u, <<c, d>>, im)
  PROVE  /\ s = <<a, b>> \o u => Follows(s, <<a, b, c, d>>, im)
         /\ s = <<a>> \o u => Follows(s, <<a, c, d>>, im)
         /\ s = <<>> \o u => Follows(s, <<c, d>>, im)
  <1> DEFINE S == {a, b, c, d}
             w == <<a, b>>
             x == <<a>>
             y == <<>>
             z == <<c, d>>
  <1>1. w \in Seq(S) /\ x \in Seq(S) /\ y \in Seq(S) /\ z \in Seq(S)
    OBVIOUS
  <1> HIDE DEF S, w, x, y, z
  <1>2. Follows(u, z, im)
    BY DEF z
  <1>3. /\ s = w \o u => Follows(s, w \o z, im)
        /\ s = x \o u => Follows(s, x \o z, im)
        /\ s = y \o u => Follows(s, y \o z, im)
    BY <1>1, <1>2, FollowsBody
  <1>4. w \o z = <<a, b, c, d>> /\ x \o z = <<a, c, d>> /\ y \o z = <<c, d>>
    BY TwoAndThree DEF w, x, y, z
  <1> QED
    BY <1>3, <1>4 DEF w, x, y

LEMMA PollingStep ==
  ASSUME DelayClock, 0 \in Channels, NEW n \in Lengths(image), Polling(n)
  PROVE  Polling(n)' \/ Looking(n)'
  <1>1. todo # <<>> /\ Head(todo) = PollIt /\ Follows(Tail(todo), <<Ack, NoMore>>, image)
    BY Fronts DEF Polling
  <1>2. /\ Follows(todo, <<PollIt, Ack, NoMore>>, image) /\ image' = image /\ pace' = pace
        /\ CmpSet(n) /\ ctl.en /\ Unmissed(n) /\ Set(n) /\ core = Idle /\ cnt + rest <= n + 2 * pace + 1
    BY LengthFacts DEF Polling, Delaying
  <1>3. CmpSet(n)' /\ ctl'.en /\ Unmissed(n)'
    BY <1>2, RunsOn, LengthFacts
  <1>4. CASE rest > 0
    <2>1. UNCHANGED <<core, todo, var>> /\ rest' = rest - 1
      BY <1>1, <1>2, <1>4, IdleMoves
    <2>2. cnt' + rest' <= n + 2 * pace' + 1
      BY <1>2, <1>4, <2>1, LengthFacts
    <2> QED
      BY <1>2, <1>3, <2>1, <2>2 DEF Polling, Delaying, Set
  <1>5. CASE ~(rest > 0)
    <2>1. rest = 0
      BY <1>5, LengthFacts
    <2>2. /\ todo' = Body("poll", 0) \o Tail(todo) /\ rest' = pace /\ UNCHANGED <<core, var>>
      BY <1>1, <1>2, <2>1, IdleMoves, DelayItems
    <2>3. Follows(todo', <<Look, Test, Ack, NoMore>>, image)
      BY <1>1, <2>2, PollBodies, BodyAhead
    <2>4. cnt' + rest' <= n + 3 * pace' + 2
      <3>1. cnt <= n + 2 * pace + 1 /\ rest' = pace /\ pace' = pace
        BY <1>2, <2>1, <2>2, LengthFacts
      <3> QED
        BY <3>1, LengthFacts
    <2> QED
      BY <1>2, <1>3, <2>2, <2>3, <2>4 DEF Looking, Delaying, Set
  <1> QED
    BY <1>4, <1>5

LEMMA LookingStep ==
  ASSUME DelayClock, 0 \in Channels, NEW n \in Lengths(image), Looking(n)
  PROVE  Looking(n)' \/ Testing(n)'
  <1>1. todo # <<>> /\ Head(todo) = Look /\ Follows(Tail(todo), <<Test, Ack, NoMore>>, image)
    BY Fronts DEF Looking
  <1>2. /\ Follows(todo, <<Look, Test, Ack, NoMore>>, image) /\ image' = image /\ pace' = pace
        /\ CmpSet(n) /\ ctl.en /\ Unmissed(n) /\ Set(n) /\ core = Idle /\ cnt + rest <= n + 3 * pace + 2
    BY LengthFacts DEF Looking, Delaying
  <1>3. CmpSet(n)' /\ ctl'.en /\ Unmissed(n)'
    BY <1>2, RunsOn, LengthFacts
  <1>4. CASE rest > 0
    <2>1. UNCHANGED <<core, todo, var>> /\ rest' = rest - 1
      BY <1>1, <1>2, <1>4, IdleMoves
    <2>2. cnt' + rest' <= n + 3 * pace' + 2
      BY <1>2, <1>4, <2>1, LengthFacts
    <2> QED
      BY <1>2, <1>3, <2>1, <2>2 DEF Looking, Delaying, Set
  <1>5. CASE ~(rest > 0)
    <2>1. rest = 0
      BY <1>5, LengthFacts
    <2>2. core' = Request(Look) /\ todo' = Tail(todo) /\ rest' = pace /\ var' = var
      BY <1>1, <1>2, <2>1, IdleMoves, DelayItems
    <2>3. cnt' <= n + 3 * pace' + 3
      BY <1>2, <2>1, LengthFacts
    <2> QED
      BY <1>1, <1>2, <1>3, <2>2, <2>3 DEF Testing, Delaying, Set
  <1> QED
    BY <1>4, <1>5

LEMMA TestingStep ==
  ASSUME DelayClock, 0 \in Channels, NEW n \in Lengths(image), Testing(n)
  PROVE  Testing(n)' \/ Polling(n)' \/ Seen(n)'
  <1>1. todo # <<>> /\ Head(todo) = Test /\ Follows(Tail(todo), <<Ack, NoMore>>, image)
    BY Fronts DEF Testing
  <1>2. /\ Follows(todo, <<Test, Ack, NoMore>>, image) /\ image' = image /\ pace' = pace
        /\ CmpSet(n) /\ ctl.en /\ Unmissed(n) /\ Set(n)
    BY LengthFacts DEF Testing, Delaying
  <1>3. Look.wr = FALSE /\ Look.sel = "TIMER_STATUS"
    BY DEF Look, Load
  <1>4. CASE core = Request(Look) /\ rest = pace /\ cnt <= n + 3 * pace + 3
    <2>1. core # Idle /\ core.st = "req" /\ core.op = Look
      BY <1>4 DEF Request, Idle
    <2>2. core' = Await(Look) /\ UNCHANGED <<todo, rest, var>>
      BY <1>1, <1>3, <2>1, BusMoves
    <2>3. CmpSet(n)' /\ ctl'.en /\ Unmissed(n)'
      BY <1>2, <1>3, <2>1, RunsOn, LengthFacts
    <2>4. cnt' <= n + 3 * pace' + 4 /\ rest' = pace'
      BY <1>2, <1>4, <2>2, LengthFacts
    <2> QED
      BY <1>2, <2>2, <2>3, <2>4 DEF Testing, Delaying, Set
  <1>5. CASE core = Await(Look) /\ rest = pace /\ cnt <= n + 3 * pace + 4
    <2>1. core # Idle /\ core.st = "wait" /\ core.op = Look
      BY <1>5 DEF Await, Idle
    <2>2. core' = Idle /\ acc' = Read("TIMER_STATUS") /\ UNCHANGED <<todo, rest, var>>
      BY <1>1, <1>3, <2>1, BusMoves
    <2>3. acc' = status
      BY <2>2 DEF Read
    <2>4. CmpSet(n)' /\ ctl'.en /\ Unmissed(n)'
      BY <1>2, <2>1, RunsOn, LengthFacts
    <2>5. cnt' + rest' <= n + 4 * pace' + 5
      BY <1>2, <1>5, <2>2, LengthFacts
    <2>6. 0 \notin acc' => cnt' + rest' <= n + pace'
      <3>1. 0 \notin acc' => cnt <= n - 1
        BY <1>2, <2>3 DEF Unmissed
      <3> QED
        BY <1>2, <1>5, <2>2, <3>1, LengthFacts
    <2> QED
      BY <1>2, <2>2, <2>4, <2>5, <2>6 DEF Testing, Delaying, Set
  <1>6. CASE core = Idle /\ cnt + rest <= n + 4 * pace + 5 /\ (0 \notin acc => cnt + rest <= n + pace)
    <2>1. CmpSet(n)' /\ ctl'.en /\ Unmissed(n)'
      BY <1>2, <1>6, RunsOn, LengthFacts
    <2>2. CASE rest > 0
      <3>1. UNCHANGED <<core, todo, acc, var>> /\ rest' = rest - 1
        BY <1>1, <1>6, <2>2, IdleMoves
      <3>2. cnt' + rest' <= n + 4 * pace' + 5
        BY <1>2, <1>6, <2>2, <3>1, LengthFacts
      <3>3. 0 \notin acc' => cnt' + rest' <= n + pace'
        BY <1>2, <1>6, <2>2, <3>1, LengthFacts
      <3> QED
        BY <1>2, <1>6, <2>1, <3>1, <3>2, <3>3 DEF Testing, Delaying, Set
    <2>3. CASE ~(rest > 0)
      <3>1. rest = 0
        BY <2>3, LengthFacts
      <3>2. todo' = Body("matched", 0) \o Tail(todo) /\ rest' = pace /\ UNCHANGED <<core, var>>
        BY <1>1, <1>6, <3>1, IdleMoves, DelayItems
      <3>3. CASE 0 \in acc
        <4>1. Follows(todo', <<Ack, NoMore>>, image)
          BY <1>1, <3>2, <3>3, PollBodies, BodyAhead
        <4>2. cnt' + rest' <= n + 5 * pace' + 6
          <5>1. cnt <= n + 4 * pace + 5 /\ rest' = pace /\ pace' = pace
            BY <1>2, <1>6, <3>1, <3>2, LengthFacts
          <5> QED
            BY <5>1, LengthFacts
        <4> QED
          BY <1>2, <1>6, <3>2, <4>1, <4>2 DEF Seen, Set
      <3>4. CASE 0 \notin acc
        <4>1. Follows(todo', <<PollIt, Ack, NoMore>>, image)
          BY <1>1, <3>2, <3>4, PollBodies, BodyAhead
        <4>2. cnt' + rest' <= n + 2 * pace' + 1
          <5>1. cnt <= n + pace /\ rest' = pace /\ pace' = pace
            BY <1>2, <1>6, <3>1, <3>2, <3>4, LengthFacts
          <5> QED
            BY <5>1, LengthFacts
        <4> QED
          BY <1>2, <1>6, <2>1, <3>2, <4>1, <4>2 DEF Polling, Delaying, Set
      <3> QED
        BY <3>3, <3>4
    <2> QED
      BY <2>2, <2>3
  <1> QED
    BY <1>4, <1>5, <1>6 DEF Testing

LEMMA SeenStep ==
  ASSUME DelayClock, NEW n \in Lengths(image), Seen(n)
  PROVE  Seen(n)' \/ Ending(n)'
  <1>1. todo # <<>> /\ Head(todo) = Ack /\ Follows(Tail(todo), <<NoMore>>, image)
    BY Fronts DEF Seen
  <1>2. /\ Follows(todo, <<Ack, NoMore>>, image) /\ image' = image /\ pace' = pace
        /\ Set(n) /\ core = Idle /\ cnt + rest <= n + 5 * pace + 6
    BY LengthFacts DEF Seen
  <1>3. CASE rest > 0
    <2>1. UNCHANGED <<core, todo, var>> /\ rest' = rest - 1
      BY <1>1, <1>2, <1>3, IdleMoves
    <2>2. cnt' + rest' <= n + 5 * pace' + 6
      BY <1>2, <1>3, <2>1, LengthFacts
    <2> QED
      BY <1>2, <2>1, <2>2 DEF Seen, Set
  <1>4. CASE ~(rest > 0)
    <2>1. rest = 0
      BY <1>4, LengthFacts
    <2>2. core' = Request(Ack) /\ todo' = Tail(todo) /\ rest' = pace /\ var' = var
      BY <1>1, <1>2, <2>1, IdleMoves, DelayItems
    <2>3. cnt' <= n + 5 * pace' + 7
      BY <1>2, <2>1, LengthFacts
    <2> QED
      BY <1>1, <1>2, <2>2, <2>3 DEF Ending, Set
  <1> QED
    BY <1>3, <1>4

LEMMA EndingStep ==
  ASSUME DelayClock, NEW n \in Lengths(image), Ending(n)
  PROVE  Ending(n)' \/ Between'
  <1>1. todo # <<>> /\ Head(todo) = NoMore /\ Plains(Tail(todo), image)
    BY Fronts DEF Ending
  <1>2. Follows(todo, <<NoMore>>, image) /\ image' = image /\ pace' = pace /\ Set(n)
    BY LengthFacts DEF Ending
  <1>3. CASE core = Request(Ack) /\ rest = pace /\ cnt <= n + 5 * pace + 7
    <2>1. Ack.sel = "TIMER_STATUS" /\ Ack.wr = TRUE
      BY DEF Ack, W1C, Store
    <2>2. core' = Idle /\ UNCHANGED <<todo, rest, var>>
      BY <1>1, <1>3, <2>1, StoreOut
    <2>3. cnt' + rest' <= n + 6 * pace' + 8
      BY <1>2, <1>3, <2>2, LengthFacts
    <2> QED
      BY <1>2, <2>2, <2>3 DEF Ending, Set
  <1>4. CASE core = Idle /\ cnt + rest <= n + 6 * pace + 8 /\ rest > 0
    <2>1. UNCHANGED <<core, todo, var>> /\ rest' = rest - 1
      BY <1>1, <1>4, IdleMoves
    <2>2. cnt' + rest' <= n + 6 * pace' + 8
      BY <1>2, <1>4, <2>1, LengthFacts
    <2> QED
      BY <1>2, <1>4, <2>1, <2>2 DEF Ending, Set
  <1>5. CASE core = Idle /\ ~(rest > 0)
    <2>1. rest = 0
      BY <1>5, LengthFacts
    <2>2. todo' = Tail(todo) /\ var' = Put(var, Head(todo).var, Head(todo).val) /\ core' = core
      BY <1>1, <1>5, <2>1, IdleMoves, DelayItems
    <2>3. NoDelay'
      BY <1>1, <2>2, DelayPut, DelayItems
    <2> QED
      BY <1>1, <1>2, <1>5, <2>2, <2>3 DEF Between
  <1> QED
    BY <1>3, <1>4, <1>5 DEF Ending
-----------------------------------------------------------------------------
(* A cycle between two delays, and the invariant. *)

LEMMA PlainPut ==
  ASSUME NEW x, Plain(x, image), "var" \in DOMAIN x, NoDelay, var' = Put(var, x.var, x.val)
  PROVE  NoDelay'
  <1>1. x.var # "delay"
    BY DEF Plain
  <1>2. "delay" \in DOMAIN var' => "delay" \in DOMAIN var /\ var'["delay"] = var["delay"]
    BY <1>1 DEF Put
  <1> QED
    BY <1>2 DEF NoDelay

\* A delay that is called is of one of the lengths of its image.
LEMMA PlainDelay ==
  ASSUME image \in Delayed, NEW x, Plain(x, image), "call" \in DOMAIN x, x.call = "delay"
  PROVE  x.arg \in Lengths(image) /\ Body(x.call, x.arg) = DelayCycles(x.arg)
  <1>1. "delay" \notin Calls(image)
    BY ImageFacts DEF Delayed
  <1>2. x.arg \in Lengths(image)
    BY <1>1 DEF Plain
  <1>3. Body("delay", x.arg) = Idiom("delay", x.arg) /\ Idiom("delay", x.arg) = DelayCycles(x.arg)
    BY DEF Body, Idioms, Idiom
  <1> QED
    BY <1>2, <1>3

LEMMA BetweenStep ==
  ASSUME image \in Delayed, DelayClock, Between, todo # <<>>
  PROVE  /\ Between' \/ \E n \in Lengths(image) : Called(n)'
         /\ rest' \in Nat /\ ~mie'
  <1> DEFINE b == Body(Head(todo).call, Head(todo).arg)
             h == Head(todo)
  <1>1. /\ ~mie /\ ClkIop /\ rest \in Nat /\ Core(b) /\ pace \in Nat /\ image' = image
    BY ClockMoves DEF DelayClock, DelayTypes
  <1>2. Plains(todo, image) /\ NoDelay /\ Plain(h, image) /\ Plains(Tail(todo), image)
    BY PlainsParts DEF Between
  <1>3. /\ h.call # "delay" /\ "call" \in DOMAIN h => Plains(b, image)
        /\ h.call = "delay" /\ "call" \in DOMAIN h =>
             h.arg \in Lengths(image) /\ b = DelayCycles(h.arg)
    BY <1>2, BodyPlain, PlainDelay
  <1> HIDE DEF b, h
  <1>4. CASE core # Idle
    <2>1. core.st \in {"req", "wait"} /\ core.op.sel \notin TimerRegs
      BY <1>4 DEF Between
    <2>2. /\ UNCHANGED <<todo, rest, mie, var>>
          /\ core' = Idle \/ core' = Await(core.op)
      BY <1>1, <1>4, <2>1, Moves
    <2>3. Await(core.op).st \in {"req", "wait"} /\ Await(core.op).op = core.op
      BY DEF Await
    <2> QED
      BY <1>1, <1>2, <2>1, <2>2, <2>3 DEF Between, NoDelay
  <1>5. CASE core = Idle /\ rest > 0
    <2>1. UNCHANGED <<core, todo, mie, acc, var>> /\ rest' = rest - 1
      BY <1>1, <1>5, Moves
    <2> QED
      BY <1>1, <1>2, <1>5, <2>1 DEF Between, NoDelay
  <1>6. CASE core = Idle /\ rest = 0
    <2>1. {"mie", "mret", "spin"} \cap DOMAIN h = {}
      BY <1>2 DEF Plain
    <2>2. \/ /\ "sel" \in DOMAIN h /\ core' = Request(h) /\ todo' = Tail(todo)
             /\ rest' = pace /\ UNCHANGED <<mie, acc, var>>
          \/ /\ "call" \in DOMAIN h /\ todo' = b \o Tail(todo)
             /\ rest' = pace /\ UNCHANGED <<core, mie, acc, var>>
          \/ /\ "var" \in DOMAIN h /\ todo' = Tail(todo)
             /\ var' = Put(var, h.var, h.val) /\ UNCHANGED <<core, rest, mie, acc>>
      BY <1>1, <1>6, <2>1, Moves DEF h
    <2>3. CASE /\ "sel" \in DOMAIN h /\ core' = Request(h) /\ todo' = Tail(todo)
               /\ rest' = pace /\ UNCHANGED <<mie, acc, var>>
      <3>1. h.sel \notin TimerRegs
        BY <1>2, <2>3 DEF Plain
      <3>2. Request(h).st = "req" /\ Request(h).op = h
        BY DEF Request
      <3> QED
        BY <1>1, <1>2, <2>3, <3>1, <3>2 DEF Between, NoDelay
    <2>4. CASE /\ "call" \in DOMAIN h /\ todo' = b \o Tail(todo)
               /\ rest' = pace /\ UNCHANGED <<core, mie, acc, var>>
      <3>1. NoDelay'
        BY <1>2, <2>4 DEF NoDelay
      <3>2. CASE h.call = "delay"
        <4>1. PICK n \in Lengths(image) : b = DelayCycles(n)
          BY <1>3, <2>4, <3>2
        <4>2. Follows(todo', DelayCycles(n), image)
          BY <1>2, <2>4, <4>1 DEF Follows
        <4>3. Called(n)'
          BY <1>1, <1>6, <2>4, <3>1, <4>2 DEF Called
        <4> QED
          BY <1>1, <2>4, <4>3
      <3>3. CASE h.call # "delay"
        <4>1. Plains(todo', image)
          BY <1>2, <1>3, <2>4, <3>3, PlainsConcat
        <4> QED
          BY <1>1, <1>6, <2>4, <3>1, <4>1 DEF Between
      <3> QED
        BY <3>2, <3>3
    <2>5. CASE /\ "var" \in DOMAIN h /\ todo' = Tail(todo)
               /\ var' = Put(var, h.var, h.val) /\ UNCHANGED <<core, rest, mie, acc>>
      <3>1. NoDelay'
        BY <1>2, <2>5, PlainPut
      <3> QED
        BY <1>1, <1>2, <1>6, <2>5, <3>1 DEF Between
    <2> QED
      BY <2>2, <2>3, <2>4, <2>5
  <1>7. rest > 0 \/ rest = 0
    BY <1>1
  <1> QED
    BY <1>4, <1>5, <1>6, <1>7

\* The program is over.
LEMMA EndStep ==
  ASSUME DelayClock, Between, todo = <<>>
  PROVE  Between' /\ rest' \in Nat /\ ~mie'
  <1>1. ~mie /\ ClkIop /\ rest \in Nat /\ Core(Body(Head(todo).call, Head(todo).arg)) /\ image' = image
    BY ClockMoves DEF DelayClock, DelayTypes
  <1>2. Finish \/ Compute \/ Sleep
    BY <1>1 DEF Core, Trap, Interrupted, Return, Begin, Expand, Assign, BusyWait, Unmask, At
  <1>3. CASE Finish
    <2>1. /\ core # Idle /\ UNCHANGED <<todo, rest, mie, var>>
          /\ core' = Idle \/ core' = Await(core.op)
      BY <1>1, <1>3, FinishIs DEF Finish
    <2>2. Await(core.op).st \in {"req", "wait"} /\ Await(core.op).op = core.op
      BY DEF Await
    <2> QED
      BY <1>1, <2>1, <2>2 DEF Between, NoDelay
  <1>4. CASE Compute
    <2>1. UNCHANGED <<core, todo, mie, acc, var>> /\ rest' = rest - 1 /\ rest > 0
      BY <1>4 DEF Compute
    <2> QED
      BY <1>1, <2>1 DEF Between, NoDelay
  <1>5. CASE Sleep
    BY <1>1, <1>5 DEF Sleep, Between, NoDelay
  <1> QED
    BY <1>2, <1>3, <1>4, <1>5

\* In a delay the item that comes next is one of its own.
LEMMA DelayHead ==
  ASSUME NEW n, Called(n) \/ Waiting(n)
  PROVE  todo # <<>> /\ Kind(Head(todo)) \in {{"sel"}, {"call"}, {"var"}}
  <1>1. Called(n) => todo # <<>> /\ Head(todo) = SetCmp(n)
    BY Fronts DEF Called
  <1>2. Setting(n) => todo # <<>> /\ Head(todo) = Go
    BY Fronts DEF Setting
  <1>3. Starting(n) => todo # <<>> /\ Head(todo) = Ack
    BY Fronts DEF Starting
  <1>4. Clearing(n) => todo # <<>> /\ Head(todo) = Let("delay", n)
    BY Fronts DEF Clearing
  <1>5. Polling(n) => todo # <<>> /\ Head(todo) = PollIt
    BY Fronts DEF Polling
  <1>6. Looking(n) => todo # <<>> /\ Head(todo) = Look
    BY Fronts DEF Looking
  <1>7. Testing(n) => todo # <<>> /\ Head(todo) = Test
    BY Fronts DEF Testing
  <1>8. Seen(n) => todo # <<>> /\ Head(todo) = Ack
    BY Fronts DEF Seen
  <1>9. Ending(n) => todo # <<>> /\ Head(todo) = NoMore
    BY Fronts DEF Ending
  <1> QED
    BY <1>1, <1>2, <1>3, <1>4, <1>5, <1>6, <1>7, <1>8, <1>9, DelayItems DEF Waiting

LEMMA TypesKept ==
  ASSUME DelayClock, rest' \in Nat, ~mie'
  PROVE  DelayTypes'
  BY ClockMoves DEF DelayClock, DelayTypes

LEMMA DelayKeepsTypes ==
  ASSUME DelayClock, NEW n, Called(n) \/ Waiting(n)
  PROVE  DelayTypes'
  <1>1. ~mie /\ rest \in Nat /\ pace \in Nat
    BY DEF DelayClock, DelayTypes
  <1>2. CASE core # Idle
    <2>1. UNCHANGED <<todo, rest, mie, var>>
      BY <1>2, BusMoves, DelayHead
    <2> QED
      BY <1>1, <2>1, TypesKept
  <1>3. CASE core = Idle
    <2>1. mie' = mie /\ rest' \in Nat
      <3>1. CASE rest > 0
        BY <1>1, <1>3, <3>1, IdleMoves, DelayHead
      <3>2. CASE rest = 0
        BY <1>1, <1>3, <3>2, IdleMoves, DelayHead
      <3> QED
        BY <1>1, <3>1, <3>2
    <2> QED
      BY <1>1, <2>1, TypesKept
  <1> QED
    BY <1>2, <1>3

LEMMA DelayStep ==
  ASSUME image \in Delayed, 0 \in Channels, DelayInv, DelayClock
  PROVE  DelayInv'
  <1>1. image' = image
    BY DEF DelayClock
  <1>2. CASE Between
    <2>1. /\ Between' \/ \E n \in Lengths(image) : Called(n)'
          /\ rest' \in Nat /\ ~mie'
      BY <1>2, BetweenStep, EndStep
    <2>2. DelayTypes'
      BY <2>1, TypesKept
    <2> QED
      BY <1>1, <2>1, <2>2 DEF DelayInv
  <1>3. ASSUME NEW n \in Lengths(image), Called(n) \/ Waiting(n) PROVE DelayInv'
    <2>1. DelayTypes'
      BY <1>3, DelayKeepsTypes
    <2>2. Between' \/ Called(n)' \/ Waiting(n)'
      BY <1>3, CalledStep, SettingStep, StartingStep, ClearingStep, PollingStep, LookingStep,
         TestingStep, SeenStep, EndingStep DEF Waiting
    <2>3. n \in Lengths(image')
      BY <1>1
    <2> QED
      BY <2>1, <2>2, <2>3 DEF DelayInv
  <1> QED
    BY <1>2, <1>3 DEF DelayInv

LEMMA DelayStart == ASSUME Init, image \in Delayed PROVE DelayInv
  <1>1. pace \in Paces
    BY DEF Init
  <1>2. /\ image = "tm1637" => pace = 5
        /\ image = "ht1621" => pace = 5
        /\ image = "hd44780" => pace \in {5, 8}
        /\ image = "onewire" => pace = 6
    BY <1>1 DEF Paces, Of, Tm!Paces, Ht!Paces, Hd!Paces, Ow!Paces
  <1>3. pace \in Nat /\ \A n \in Lengths(image) : n \in Nat /\ pace + 3 <= n
    BY <1>2, ImageFacts DEF Delayed
  <1>4. /\ todo = Main /\ rest = 0 /\ mie = FALSE /\ var = <<>>
        /\ phase = 0 /\ core = Idle /\ cnt = 0 /\ cmp = [i \in Channels |-> CmpOff]
    BY DEF Init, IopInit, BusInit, TimerReset
  <1>5. DelayTypes
    BY <1>3, <1>4 DEF DelayTypes
  <1>6. Plains(todo, image)
    BY <1>4, MainPlain
  <1>7. NoDelay
    <2>1. DOMAIN <<>> = {}
      OBVIOUS
    <2> QED
      BY <1>4, <2>1 DEF NoDelay
  <1> QED
    BY <1>4, <1>5, <1>6, <1>7 DEF DelayInv, Between

LEMMA DelayMeans == ASSUME DelayInv PROVE DelayKept
  <1>1. SUFFICES ASSUME "delay" \in DOMAIN var, var["delay"] > 0
                 PROVE  cnt <= var["delay"] + 6 * (pace + 2)
    BY DEF DelayKept
  <1>2. ~NoDelay
    BY <1>1 DEF NoDelay
  <1>3. PICK n \in Lengths(image) : Polling(n) \/ Looking(n) \/ Testing(n) \/ Seen(n) \/ Ending(n)
    BY <1>2 DEF DelayInv, Between, Called, Waiting, Setting, Starting, Clearing
  <1>4. n \in Nat /\ pace \in Nat /\ cnt \in Nat /\ rest \in Nat /\ var["delay"] = n
    BY <1>3 DEF DelayInv, DelayTypes, Polling, Looking, Testing, Seen, Ending, Delaying, Set
  <1>5. cnt <= n + 6 * pace + 8
    BY <1>3, <1>4 DEF Polling, Looking, Testing, Seen, Ending
  <1> QED
    BY <1>4, <1>5

\* The delays of tm1637, ht1621, hd44780 and onewire: while a delay of n cycles
\* lasts the count is n + 6 * (pace + 2) at most.  Its match is never missed,
\* although the counter, the compare channel and the flag are set by three stores
\* and the flag of an earlier delay may still be up: the flag is cleared before
\* the fresh count gets to the match, for the shortest delay of each image is
\* longer than its pace by three cycles.
THEOREM DelaysKept == ASSUME 0 \in Channels PROVE Spec => [](image \in Delayed => DelayKept)
  <1> DEFINE Inv == image \in Delayed => DelayInv
  <1>1. Init => Inv
    BY DelayStart
  <1>2. Inv /\ [Next]_exVars => Inv'
    <2>1. ASSUME Inv, Clock PROVE Inv'
      <3>1. image' = image
        BY <2>1 DEF Clock
      <3>2. ASSUME image \in Delayed PROVE DelayInv'
        <4>1. DelayClock
          BY <2>1, <3>2 DEF Clock, DelayClock, DelayInv
        <4> QED
          BY <2>1, <3>2, <4>1, DelayStep
      <3> QED
        BY <3>1, <3>2
    <2>2. ASSUME Inv, UNCHANGED exVars PROVE Inv'
      <3>1. UNCHANGED <<phase, core, todo, rest, mie, acc, var, cnt, ctl, cmp, status, pace, image>>
        BY <2>2 DEF exVars, coreVars, timerVars
      <3> QED
        BY <2>2, <3>1 DEF DelayInv, DelayTypes, Between, Called, Waiting, Setting, Starting, Clearing,
           Polling, Looking, Testing, Seen, Ending, Delaying, CmpSet, Unmissed, Set, NoDelay
    <2> QED
      BY <2>1, <2>2 DEF Next, Finished
  <1>3. Inv => (image \in Delayed => DelayKept)
    BY DelayMeans
  <1> QED
    BY <1>1, <1>2, <1>3, PTL DEF Spec
=============================================================================
