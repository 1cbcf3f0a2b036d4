-------------------------- MODULE BoardStartProofs --------------------------
(***************************************************************************)
(* Proofs about BoardStart, for any boards, plans, programs and number of  *)
(* faults, given an outline (StartOutline) that is sound for them.  One    *)
(* step of root at a time: what is claimed where root is holds, and the    *)
(* soundness of the outline at that step gives what is claimed where the   *)
(* step leads.  The lemmas go from the stack to the claims (how one is kept*)
(* by a change of the state), to the places of the outline (the step stays *)
(* in the function, returns from it or calls another), to the kinds of     *)
(* steps, one lemma per action, and to the six theorems at the end.        *)
(***************************************************************************)
EXTENDS StartOutline, SequenceTheorems, FiniteSetTheorems, TLAPS

-----------------------------------------------------------------------------
(* The stack.                                                              *)

LEMMA TopOf ==
  ASSUME NEW S, NEW stk \in Seq(S), stk # <<>>
  PROVE  /\ Len(stk) \in Nat /\ Len(stk) >= 1 /\ DOMAIN stk = 1 .. Len(stk)
         /\ Last(stk) = stk[Len(stk)] /\ Last(stk) \in S
         /\ \A j \in 1 .. Len(stk) : stk[j] \in S
  BY DEF Last

LEMMA SetOf ==
  ASSUME NEW S, NEW stk \in Seq(S), stk # <<>>, NEW f \in S
  PROVE  /\ [stk EXCEPT ![Len(stk)] = f] \in Seq(S)
         /\ Len([stk EXCEPT ![Len(stk)] = f]) = Len(stk)
         /\ [stk EXCEPT ![Len(stk)] = f][Len(stk)] = f
         /\ \A j \in 1 .. Len(stk) - 1 : [stk EXCEPT ![Len(stk)] = f][j] = stk[j]
  <1>1. Len(stk) \in Nat /\ Len(stk) \in 1 .. Len(stk)
    BY TopOf
  <1>2. /\ [stk EXCEPT ![Len(stk)] = f] \in Seq(S)
        /\ Len([stk EXCEPT ![Len(stk)] = f]) = Len(stk)
        /\ \A j \in 1 .. Len(stk) :
              [stk EXCEPT ![Len(stk)] = f][j] = IF j = Len(stk) THEN f ELSE stk[j]
    BY <1>1, ExceptSeq
  <1>3. \A j \in 1 .. Len(stk) - 1 : j \in 1 .. Len(stk) /\ j # Len(stk)
    BY <1>1
  <1> QED
    BY <1>1, <1>2, <1>3

LEMMA PopOf ==
  ASSUME NEW S, NEW stk \in Seq(S), Len(stk) > 1
  PROVE  /\ Front(stk) \in Seq(S) /\ Len(Front(stk)) = Len(stk) - 1
         /\ Front(stk) # <<>>
         /\ \A j \in 1 .. Len(stk) - 1 : Front(stk)[j] = stk[j]
  <1>1. Len(stk) \in Nat
    OBVIOUS
  <1>2. /\ Front(stk) \in Seq(S) /\ Len(Front(stk)) = Len(stk) - 1
        /\ \A j \in 1 .. Len(stk) - 1 : Front(stk)[j] = stk[j]
    BY DEF Front
  <1> QED
    BY <1>1, <1>2

LEMMA PushOf ==
  ASSUME NEW S, NEW stk \in Seq(S), NEW f \in S
  PROVE  /\ Append(stk, f) \in Seq(S) /\ Len(Append(stk, f)) = Len(stk) + 1
         /\ Append(stk, f)[Len(stk) + 1] = f
         /\ \A j \in 1 .. Len(stk) : Append(stk, f)[j] = stk[j]
  OBVIOUS

LEMMA RestOf ==
  ASSUME NEW S, NEW s \in Seq(S), NEW m \in Nat, m >= 1
  PROVE  SubSeq(s, m, Len(s)) \in Seq(S) /\ Len(SubSeq(s, m, Len(s))) \in Nat
  <1>1. \A i \in m .. Len(s) : s[i] \in S
    OBVIOUS
  <1>2. m \in Int /\ Len(s) \in Int
    OBVIOUS
  <1>3. SubSeq(s, m, Len(s)) \in Seq(S)
    BY <1>1, <1>2, SubSeqProperties
  <1> QED
    BY <1>3

-----------------------------------------------------------------------------
(* What a weaker claim means.                                              *)

LEMMA WeakerValid ==
  ASSUME NEW c, NEW d, Weaker(d, c), NEW e, NEW ep, Valid(c, e, ep)'
  PROVE  Valid(d, e, ep)'
  <1>1. /\ d.on \subseteq c.on /\ d.off \subseteq c.off
        /\ d.apart \subseteq c.apart /\ d.tied \subseteq c.tied
        /\ d.up \subseteq c.up /\ d.tried \subseteq c.tried
        /\ d.down \subseteq c.down /\ d.alone \subseteq c.alone
        /\ d.manned \subseteq c.manned /\ d.ready \subseteq c.ready
        /\ d.tidy \subseteq c.tidy /\ d.open \subseteq c.open
        /\ d.quiet \subseteq c.quiet /\ d.frame \subseteq c.frame
    BY DEF Weaker, Fields
  <1>2. OfFacts(d)'
    BY <1>1 DEF Valid, OfFacts
  <1>3. OfDrivers(d)'
    BY <1>1 DEF Valid, OfDrivers
  <1>4. OfNodes(d)' /\ OfFrame(d, e, ep)'
    BY <1>1 DEF Valid, OfNodes, OfFrame
  <1> QED
    BY <1>2, <1>3, <1>4 DEF Valid

LEMMA LearnValid ==
  ASSUME NEW c, DOMAIN c = Fields, NEW x, NEW e, NEW ep, Valid(c, e, ep),
         Holds(x), NEW d, d = Learn(Drivers, c, x)
  PROVE  Valid(d, e, ep)
  <1>1. /\ d.up = c.up \cup ({x} \cap Drivers)
        /\ d.tried = c.tried \cup ({x} \cap Drivers)
        /\ d.on = c.on \cup ({x} \ Drivers)
                 \cup {p[2] : p \in {q \in c.tied : q[1] \in {x} \ Drivers}}
        /\ d.off = c.off /\ d.apart = c.apart /\ d.tied = c.tied
        /\ d.down = c.down /\ d.alone = c.alone /\ d.manned = c.manned
        /\ d.ready = c.ready /\ d.tidy = c.tidy /\ d.open = c.open
        /\ d.quiet = c.quiet /\ d.frame = c.frame
    BY DEF Learn, Fields
  <1>2. OfFacts(d)
    <2>1. \A p \in c.tied : p[1] \in {x} \ Drivers => p[2] \in facts \cup missed
      BY DEF Valid, OfFacts, Holds
    <2>2. {x} \ Drivers \subseteq facts
      BY DEF Holds
    <2>3. \A y \in d.on : y \in facts \cup missed
      BY <1>1, <2>1, <2>2 DEF Valid, OfFacts
    <2> QED
      BY <1>1, <2>3 DEF Valid, OfFacts
  <1>3. OfDrivers(d)
    BY <1>1 DEF Valid, OfDrivers, Holds
  <1>4. OfNodes(d) /\ OfFrame(d, e, ep)
    BY <1>1 DEF Valid, OfNodes, OfFrame
  <1> QED
    BY <1>2, <1>3, <1>4 DEF Valid
LEMMA OutValid ==
  ASSUME NEW c, DOMAIN c = Fields, NEW e, NEW ep, Valid(c, e, ep)',
         NEW d, d = Out(c), NEW e2, NEW ep2
  PROVE  Valid(d, e2, ep2)'
  <1>1. /\ d.on = c.on /\ d.off = c.off /\ d.apart = c.apart /\ d.tied = c.tied
        /\ d.up = c.up /\ d.tried = c.tried /\ d.down = c.down
        /\ d.alone = c.alone /\ d.manned = c.manned /\ d.ready = c.ready
        /\ d.tidy = c.tidy /\ d.open = c.open /\ d.quiet = c.quiet
        /\ d.frame = {}
    BY DEF Out, Fields
  <1>2. OfFacts(d)'
    BY <1>1 DEF Valid, OfFacts
  <1>3. OfDrivers(d)'
    BY <1>1 DEF Valid, OfDrivers
  <1>4. OfNodes(d)' /\ OfFrame(d, e2, ep2)'
    BY <1>1 DEF Valid, OfNodes, OfFrame
  <1> QED
    BY <1>2, <1>3, <1>4 DEF Valid

LEMMA DenyValid ==
  ASSUME NEW c, DOMAIN c = Fields, NEW x, NEW e, NEW ep, Valid(c, e, ep),
         ~Holds(x), \A n \in c.open : n.drivers \subseteq Drivers,
         NEW seals, \A y \in Sealed(seals, x) : ~Live(y),
         NEW d, d = Deny(Drivers, seals, c, x)
  PROVE  Valid(d, e, ep)
  <1>1. /\ d.down = c.down \cup ({x} \cap Drivers)
        /\ d.off = c.off \cup ({x} \ Drivers)
        /\ d.alone = c.alone \cup Sealed(seals, x)
        /\ d.quiet = c.quiet \cup {n \in c.open : x \in n.drivers}
        /\ d.on = c.on /\ d.apart = c.apart /\ d.tied = c.tied
        /\ d.up = c.up /\ d.tried = c.tried /\ d.manned = c.manned
        /\ d.ready = c.ready /\ d.tidy = c.tidy /\ d.open = c.open
        /\ d.frame = c.frame
    BY DEF Deny, Fields
  <1>2. OfFacts(d)
    BY <1>1 DEF Valid, OfFacts, Holds
  <1>3. OfDrivers(d)
    BY <1>1 DEF Valid, OfDrivers, Holds
  <1>4. OfNodes(d)
    <2>1. ASSUME NEW n \in c.open, x \in n.drivers, n.path \in facts
          PROVE  Met(n)
      BY <2>1 DEF Valid, OfNodes, Opens, Holds
    <2> QED
      BY <1>1, <2>1 DEF Valid, OfNodes
  <1>5. OfFrame(d, e, ep)
    BY <1>1 DEF Valid, OfFrame
  <1> QED
    BY <1>2, <1>3, <1>4, <1>5 DEF Valid

(* Trouble that has been met elsewhere does not disturb a claim, nor does  *)
(* a server that gets its capabilities or stops.                           *)
LEMMA SameValid ==
  ASSUME NEW c, NEW e, NEW ep, Valid(c, e, ep),
         pub' = pub, made' = made, gone' = gone, facts' = facts,
         missed' = missed, blamed \subseteq blamed',
         \A d, n : Own(d, n) => Own(d, n)' \/ Stopped(d)',
         \A d : ByHandle(d) => ByHandle(d)' \/ Stopped(d)',
         \A d : Stopped(d) => Stopped(d)',
         \A d : Live(d)' => Live(d)
  PROVE  Valid(c, e, ep)'
  <1>1. OfFacts(c)'
    BY DEF Valid, OfFacts
  <1>2. OfDrivers(c)'
    <2>1. \A d : Manned(d) => Manned(d)'
      BY DEF Manned
    <2>2. \A d : Tidy(d, {}) => Tidy(d, {})'
      BY DEF Tidy
    <2> QED
      BY <2>1, <2>2 DEF Valid, OfDrivers
  <1>3. OfNodes(c)'
    BY DEF Valid, OfNodes, Opens, Met
  <1>4. OfFrame(c, e, ep)'
    <2>1. Tidy(e, {ep}) => Tidy(e, {ep})'
      BY DEF Tidy
    <2> QED
      BY <2>1 DEF Valid, OfFrame
  <1> QED
    BY <1>1, <1>2, <1>3, <1>4 DEF Valid

LEMMA StackValid ==
  ASSUME NEW c, NEW e, NEW ep, Valid(c, e, ep), UNCHANGED <<kernel, facts, trouble>>
  PROVE  Valid(c, e, ep)'
  <1>1. /\ \A d, n : Own(d, n) => Own(d, n)'
        /\ \A d : ByHandle(d) => ByHandle(d)'
        /\ \A d : Stopped(d) => Stopped(d)'
        /\ \A d : Live(d)' => Live(d)
    BY DEF kernel, Own, ByHandle, Stopped, Live
  <1> QED
    BY <1>1, SameValid DEF kernel, trouble

LEMMA BlameValid ==
  ASSUME NEW c, DOMAIN c = Fields, NEW e, NEW ep, Valid(c, e, ep)', e \in blamed',
         NEW d, d = Blame(c, e), NEW e2, NEW ep2
  PROVE  Valid(d, e2, ep2)'
  <1>1. /\ d.on = c.on /\ d.off = c.off /\ d.apart = c.apart /\ d.tied = c.tied
        /\ d.up = c.up /\ d.tried = c.tried \cup {e} /\ d.down = c.down
        /\ d.alone = c.alone /\ d.manned = c.manned
        /\ d.ready = c.ready \cup {e}
        /\ d.tidy = c.tidy /\ d.open = c.open /\ d.quiet = c.quiet
        /\ d.frame = {}
    BY DEF Blame, Out, Fields
  <1>2. OfFacts(d)'
    BY <1>1 DEF Valid, OfFacts
  <1>3. OfDrivers(d)'
    BY <1>1 DEF Valid, OfDrivers
  <1>4. OfNodes(d)' /\ OfFrame(d, e2, ep2)'
    BY <1>1 DEF Valid, OfNodes, OfFrame
  <1> QED
    BY <1>2, <1>3, <1>4 DEF Valid

-----------------------------------------------------------------------------
(* What the steps on kernel objects establish.                             *)

LEMMA NewEpValid ==
  ASSUME NEW c, DOMAIN c = Fields, NEW e \in Drivers, NEW ep, Valid(c, e, ep),
         made \in [Drivers -> Nat], <<e, made[e] + 1>> \notin gone,
         c.tidy \subseteq Drivers,
         NEW new, new = made[e] + 1, made' = [made EXCEPT ![e] = @ + 1],
         UNCHANGED <<pub, gone, thr, facts, trouble>>,
         NEW d, d = NewEpMade(c, e)
  PROVE  Valid(d, e, new)'
  <1>1. /\ d.on = c.on /\ d.off = c.off /\ d.apart = c.apart /\ d.tied = c.tied
        /\ d.up = c.up /\ d.tried = c.tried /\ d.down = c.down
        /\ d.alone = c.alone /\ d.manned = c.manned /\ d.ready = c.ready
        /\ d.tidy = c.tidy \ {e} /\ d.open = c.open /\ d.quiet = c.quiet
        /\ d.frame = {"made"} \cup {x \in {"left"} : e \in c.tidy}
    BY DEF NewEpMade, Fields
  <1>2. OfFacts(d)'
    BY <1>1 DEF Valid, OfFacts, trouble
  <1>3. OfDrivers(d)'
    <2>1. \A x \in c.tidy \ {e} : Tidy(x, {})'
      BY DEF Valid, OfDrivers, Tidy
    <2> QED
      BY <1>1, <2>1 DEF Valid, OfDrivers, Manned, Own, ByHandle, Stopped,
                        Live, trouble
  <1>4. OfNodes(d)'
    BY <1>1 DEF Valid, OfNodes, Opens, Met, trouble
  <1>5. OfFrame(d, e, new)'
    <2>1. ASSUME e \in c.tidy PROVE Tidy(e, {new})'
      BY <2>1 DEF Valid, OfDrivers, Tidy
    <2> QED
      BY <1>1, <2>1 DEF OfFrame
  <1> QED
    BY <1>2, <1>3, <1>4, <1>5 DEF Valid

LEMMA BoundEpValid ==
  ASSUME NEW c, DOMAIN c = Fields, NEW e \in Drivers, NEW ep, Valid(c, e, ep),
         made \in [Drivers -> Nat], pub \in [Drivers -> Nat],
         <<e, made[e] + 1>> \notin gone,
         Proper(board, c),
         NEW new, new = made[e] + 1, made' = [made EXCEPT ![e] = @ + 1],
         pub' = [pub EXCEPT ![e] = new],
         UNCHANGED <<gone, thr, facts, trouble>>,
         NEW d, d = BoundEpMade(c, e)
  PROVE  Valid(d, e, new)'
  <1>1. /\ d.on = c.on /\ d.off = c.off /\ d.apart = c.apart /\ d.tied = c.tied
        /\ d.up = c.up \cup {e} /\ d.tried = c.tried \cup {e}
        /\ d.down = c.down \ {e}
        /\ d.alone = c.alone /\ d.manned = c.manned \ {e}
        /\ d.ready = c.ready \ {e}
        /\ d.tidy = c.tidy \ ({e} \ c.down)
        /\ d.open = c.open /\ d.quiet = c.quiet
        /\ d.frame = {"made", "bound"}
    BY DEF BoundEpMade, Fields
  <1>0. \A x : x # e => pub'[x] = pub[x] /\ made'[x] = made[x]
    OBVIOUS
  <1>2. OfFacts(d)'
    BY <1>1 DEF Valid, OfFacts, trouble
  <1>3. OfDrivers(d)'
    <2>1. \A x \in c.tidy \ {e} : Tidy(x, {})'
      BY <1>0 DEF Valid, OfDrivers, Tidy
    <2>2. ASSUME e \in c.tidy, e \in c.down PROVE Tidy(e, {})'
      BY <2>2 DEF Valid, OfDrivers, Tidy
    <2>3. \A x \in c.manned \cup c.ready : x # e /\ Manned(x) => Manned(x)'
      BY DEF Manned, Own, ByHandle, Stopped
    <2>4. new # 0 /\ pub'[e] = new
      OBVIOUS
    <2> QED
      BY <1>1, <2>1, <2>2, <2>3, <2>4, <1>0 DEF Valid, OfDrivers, Live, trouble
  <1>4. OfNodes(d)'
    BY <1>0, <1>1 DEF Valid, OfNodes, Opens, Met, trouble
  <1>5. OfFrame(d, e, new)'
    BY <1>1 DEF OfFrame
  <1> QED
    BY <1>2, <1>3, <1>4, <1>5 DEF Valid

(* The handle becomes invalid, and the driver meets a fault or has no node *)
(* registered that relies on it.                                           *)
LEMMA ResetValid ==
  ASSUME NEW c, DOMAIN c = Fields, NEW e \in Drivers, NEW ep, Valid(c, e, ep),
         Proper(board, c), pub \in [Drivers -> Nat],
         pub' = [pub EXCEPT ![e] = 0],
         UNCHANGED <<made, gone, thr, facts, missed>>, blamed \subseteq blamed',
         NEW d, d = Reset(c, e),
         NEW o \in SUBSET c.open,
         \A n \in o : e \in n.drivers => n \in c.quiet \/ e \in blamed',
         NEW f, f = [d EXCEPT !.open = o]
  PROVE  Valid(f, e, ep)'
  <1>1. /\ f.on = c.on /\ f.off = c.off /\ f.apart = c.apart /\ f.tied = c.tied
        /\ f.up = c.up \ {e} /\ f.tried = c.tried \ {e}
        /\ f.down = c.down \cup {e} /\ f.alone = c.alone
        /\ f.manned = c.manned \cup {e} /\ f.ready = c.ready \cup {e}
        /\ f.tidy = c.tidy \ ({e} \ c.down) /\ f.open = o
        /\ f.quiet = c.quiet /\ f.frame = c.frame \ {"bound", "left"}
    BY DEF Reset, Fields
  <1>0. pub'[e] = 0 /\ \A x : x # e => pub'[x] = pub[x]
    OBVIOUS
  <1>2. OfFacts(f)'
    BY <1>1 DEF Valid, OfFacts
  <1>3. OfDrivers(f)'
    <2>1. \A x \in c.tidy \ ({e} \ c.down) : Tidy(x, {})'
      BY <1>0 DEF Valid, OfDrivers, Tidy
    <2>2. \A x : x # e /\ Manned(x) => Manned(x)'
      BY <1>0 DEF Manned, Own, ByHandle, Stopped
    <2>3. Manned(e)'
      BY <1>0 DEF Manned
    <2> QED
      BY <1>1, <2>1, <2>2, <2>3, <1>0 DEF Valid, OfDrivers, Live
  <1>4. OfNodes(f)'
    BY <1>0, <1>1 DEF Valid, OfNodes, Opens, Met
  <1>5. OfFrame(f, e, ep)'
    BY <1>1 DEF Valid, OfFrame, Own, ByHandle, Stopped
  <1> QED
    BY <1>2, <1>3, <1>4, <1>5 DEF Valid

LEMMA HandleSetValid ==
  ASSUME NEW c, DOMAIN c = Fields, NEW e \in Drivers, NEW ep, Valid(c, e, ep),
         Proper(board, c), pub \in [Drivers -> Nat], "made" \in c.frame,
         pub' = [pub EXCEPT ![e] = ep],
         UNCHANGED <<made, gone, thr, facts, trouble>>,
         NEW d, d = HandleSet(c, e)
  PROVE  Valid(d, e, ep)'
  <1> DEFINE served == {x \in {e} : c.frame \cap {"own", "handle"} # {}}
  <1>1. /\ d.on = c.on /\ d.off = c.off /\ d.apart = c.apart /\ d.tied = c.tied
        /\ d.up = c.up \cup {e} /\ d.tried = c.tried \cup {e}
        /\ d.down = c.down \ {e} /\ d.alone = c.alone
        /\ d.manned = (c.manned \ {e}) \cup served
        /\ d.ready = (c.ready \ {e}) \cup served
        /\ d.tidy = (c.tidy \ {e})
                      \cup {x \in {e} \cap c.down : "left" \in c.frame}
        /\ d.open = c.open /\ d.quiet = c.quiet
        /\ d.frame = (c.frame \ {"left"}) \cup {"bound"}
    BY DEF HandleSet, Fields
  <1>0. ep # 0 /\ pub'[e] = ep /\ \A x : x # e => pub'[x] = pub[x]
    BY DEF Valid, OfFrame
  <1>2. OfFacts(d)'
    BY <1>1 DEF Valid, OfFacts, trouble
  <1>3. OfDrivers(d)'
    <2>1. \A x \in c.tidy \ {e} : Tidy(x, {})'
      BY <1>0 DEF Valid, OfDrivers, Tidy
    <2>2. ASSUME e \in c.down, "left" \in c.frame PROVE Tidy(e, {})'
      <3>1. pub[e] = 0 /\ Tidy(e, {ep})
        BY <2>2 DEF Valid, OfDrivers, OfFrame
      <3>2. \A n \in 1 .. made[e] : n # 0
        OBVIOUS
      <3> QED
        BY <1>0, <3>1, <3>2 DEF Tidy
    <2>3. \A x : x # e /\ Manned(x) => Manned(x)'
      BY <1>0 DEF Manned, Own, ByHandle, Stopped
    <2>4. e \in served => Manned(e)'
      BY <1>0 DEF Manned, Own, ByHandle, Stopped, Valid, OfFrame
    <2> HIDE DEF served
    <2>5. served \subseteq {e}
      BY DEF served
    <2>6. \A x \in d.manned : Manned(x)'
      BY <1>1, <2>3, <2>4, <2>5 DEF Valid, OfDrivers
    <2>7. \A x \in d.ready : x \in blamed \/ Manned(x)'
      BY <1>1, <2>3, <2>4, <2>5 DEF Valid, OfDrivers
    <2>8. \A x \in d.tidy : Tidy(x, {})'
      BY <1>1, <2>1, <2>2
    <2> QED
      BY <1>1, <2>6, <2>7, <2>8, <1>0 DEF Valid, OfDrivers, Live, trouble
  <1>4. OfNodes(d)'
    BY <1>0, <1>1 DEF Valid, OfNodes, Opens, Met, trouble
  <1>5. OfFrame(d, e, ep)'
    BY <1>0, <1>1 DEF Valid, OfFrame, Own, ByHandle, Stopped
  <1> QED
    BY <1>2, <1>3, <1>4, <1>5 DEF Valid

LEMMA ThreadValid ==
  ASSUME NEW c, DOMAIN c = Fields, NEW e \in Drivers, NEW ep, Valid(c, e, ep),
         Proper(board, c),
         NEW t, t.driver = e, t.ep = ep, t.st # "dead",
         t.serves \in {"own", "handle", "none"}, thr' = thr \cup {t},
         UNCHANGED <<pub, made, gone, facts, trouble>>,
         NEW d, d = ThreadMade(c, e, t.serves)
  PROVE  Valid(d, e, ep)'
  <1> DEFINE served == {x \in {e} : \/ t.serves = "handle"
                                    \/ t.serves = "own" /\ "bound" \in c.frame}
  <1>1. /\ d.on = c.on /\ d.off = c.off /\ d.apart = c.apart /\ d.tied = c.tied
        /\ d.up = c.up /\ d.tried = c.tried /\ d.down = c.down
        /\ d.alone = IF t.serves = "none" THEN c.alone ELSE c.alone \ {e}
        /\ d.manned = c.manned \cup served
        /\ d.ready = c.ready \cup served
        /\ d.tidy = c.tidy /\ d.open = c.open /\ d.quiet = c.quiet
        /\ d.frame = c.frame \cup ({t.serves} \cap {"own", "handle"})
    BY DEF ThreadMade, Fields
  <1>2. OfFacts(d)'
    BY <1>1 DEF Valid, OfFacts, trouble
  <1>3. OfDrivers(d)'
    <2>1. \A x \in c.tidy : Tidy(x, {})'
      BY DEF Valid, OfDrivers, Tidy
    <2>3. \A x : Manned(x) => Manned(x)'
      BY DEF Manned, Own, ByHandle, Stopped
    <2>4. e \in served => Manned(e)'
      BY DEF Manned, Own, ByHandle, Valid, OfFrame
    <2> HIDE DEF served
    <2>5. served \subseteq {e}
      BY DEF served
    <2>6. \A x \in d.manned : Manned(x)'
      BY <1>1, <2>3, <2>4, <2>5 DEF Valid, OfDrivers
    <2>7. \A x \in d.ready : x \in blamed \/ Manned(x)'
      BY <1>1, <2>3, <2>4, <2>5 DEF Valid, OfDrivers
    <2>8. \A x \in d.alone : ~Live(x)'
      BY <1>1 DEF Valid, OfDrivers, Live
    <2> QED
      BY <1>1, <2>1, <2>6, <2>7, <2>8 DEF Valid, OfDrivers, trouble
  <1>4. OfNodes(d)'
    BY <1>1 DEF Valid, OfNodes, Opens, Met, trouble
  <1>5. OfFrame(d, e, ep)'
    <2>1. Tidy(e, {ep}) => Tidy(e, {ep})'
      BY DEF Tidy
    <2>2. /\ Own(e, ep) => Own(e, ep)'
          /\ ByHandle(e) => ByHandle(e)'
          /\ Stopped(e) => Stopped(e)'
          /\ t.serves = "own" => Own(e, ep)'
          /\ t.serves = "handle" => ByHandle(e)'
      BY DEF Own, ByHandle, Stopped
    <2> QED
      BY <1>1, <2>1, <2>2 DEF Valid, OfFrame
  <1> QED
    BY <1>2, <1>3, <1>4, <1>5 DEF Valid

(* A step fails and releases what its plan says.                           *)
LEMMA ReleasedValid ==
  ASSUME NEW c, DOMAIN c = Fields, NEW e \in Drivers, NEW ep, Valid(c, e, ep),
         Proper(board, c), pub \in [Drivers -> Nat],
         NEW undo, "ep" \in undo => "made" \in c.frame,
         "ep" \in undo => "handle" \in undo \/ e \in c.down,
         gone' = gone \cup {x \in {<<e, ep>>} : "ep" \in undo},
         pub' = IF "handle" \in undo THEN [pub EXCEPT ![e] = 0] ELSE pub,
         UNCHANGED <<made, thr, facts, missed>>, blamed' = blamed \cup {e},
         NEW d, d = Released(c, e, undo), NEW e2, NEW ep2
  PROVE  Valid(d, e2, ep2)'
  <1> DEFINE handle == "handle" \in undo
             clean == \/ e \in c.tidy /\ ~handle
                      \/ e \in c.tidy /\ e \in c.down
                      \/ e \in c.tidy /\ "bound" \in c.frame /\ "ep" \in undo
                      \/ "left" \in c.frame /\ "ep" \in undo
                         /\ (handle => e \in c.down)
             lost == IF handle THEN {e} ELSE {}
  <1>1. /\ d.on = c.on /\ d.off = c.off /\ d.apart = c.apart /\ d.tied = c.tied
        /\ d.up = c.up \ lost
        /\ d.tried = (c.tried \ lost) \cup {e}
        /\ d.down = c.down \cup lost /\ d.alone = c.alone
        /\ d.manned = c.manned \cup lost
        /\ d.ready = c.ready \cup {e}
        /\ d.tidy \subseteq (c.tidy \ {e}) \cup {x \in {e} : clean}
        /\ d.open = c.open /\ d.quiet = c.quiet /\ d.frame = {}
    <2>1. CASE handle
      BY <2>1 DEF Released, Blame, Out, Reset, Fields
    <2>2. CASE ~handle
      BY <2>2 DEF Released, Blame, Out, Fields
    <2> QED
      BY <2>1, <2>2
  <1>0. /\ \A x : x \notin lost => pub'[x] = pub[x]
        /\ \A x \in lost : pub'[x] = 0
        /\ \A x, n : <<x, n>> \in gone => <<x, n>> \in gone'
        /\ "ep" \in undo => <<e, ep>> \in gone'
    OBVIOUS
  <1>2. OfFacts(d)'
    BY <1>1 DEF Valid, OfFacts
  <1>3. OfDrivers(d)'
    <2>1. \A x \in c.tidy \ {e} : Tidy(x, {})'
      BY <1>0 DEF Valid, OfDrivers, Tidy
    <2>2. ASSUME clean PROVE Tidy(e, {})'
      <3> SUFFICES ASSUME NEW n \in 1 .. made[e]
                   PROVE  <<e, n>> \in gone' \/ n = pub'[e]
        BY DEF Tidy
      <3>1. e \in c.tidy => <<e, n>> \in gone \/ n = pub[e]
        BY DEF Valid, OfDrivers, Tidy
      <3>2. "left" \in c.frame => <<e, n>> \in gone \/ n = pub[e] \/ n = ep
        BY DEF Valid, OfFrame, Tidy
      <3>3. "bound" \in c.frame => pub[e] = ep
        BY DEF Valid, OfFrame
      <3>4. e \in c.down => pub[e] = 0 /\ n # 0
        BY DEF Valid, OfDrivers
      <3> QED
        BY <2>2, <1>0, <3>1, <3>2, <3>3, <3>4
    <2>3. \A x : x \notin lost /\ Manned(x) => Manned(x)'
      BY <1>0 DEF Manned, Own, ByHandle, Stopped
    <2>4. \A x \in lost : Manned(x)'
      BY <1>0 DEF Manned
    <2>5. lost \subseteq {e}
      OBVIOUS
    <2> HIDE DEF lost, clean, handle
    <2>6. \A x \in d.manned : Manned(x)'
      BY <1>1, <2>3, <2>4 DEF Valid, OfDrivers
    <2>7. \A x \in d.ready : x \in blamed' \/ Manned(x)'
      BY <1>1, <2>3, <2>5 DEF Valid, OfDrivers
    <2>8. \A x \in d.tidy : Tidy(x, {})'
      BY <1>1, <2>1, <2>2
    <2>9. \A x \in d.alone : ~Live(x)'
      BY <1>1 DEF Valid, OfDrivers, Live
    <2> QED
      BY <1>0, <1>1, <2>6, <2>7, <2>8, <2>9 DEF Valid, OfDrivers
  <1>4. OfNodes(d)'
    BY <1>0, <1>1 DEF Valid, OfNodes, Opens, Met
  <1>5. OfFrame(d, e2, ep2)'
    BY <1>1 DEF OfFrame
  <1> QED
    BY <1>2, <1>3, <1>4, <1>5 DEF Valid

-----------------------------------------------------------------------------
(* What the steps on flags and registers establish.                        *)

LEMMA WroteValid ==
  ASSUME NEW c, DOMAIN c = Fields, NEW e, NEW ep, Valid(c, e, ep),
         \A n \in c.open : n.flags \cap missed = {},
         NEW s, facts' = (facts \cup s.sets) \ s.clears,
         UNCHANGED <<kernel, blamed, missed>>,
         NEW d, d = Wrote(c, s)
  PROVE  Valid(d, e, ep)'
  <1>1. /\ d.on = (c.on \cup s.sets) \ s.clears
        /\ d.off = (c.off \ s.sets) \cup s.clears
        /\ d.apart = {p \in Conflicts :
                    \/ p[1] \in d.off \/ p[2] \in d.off
                    \/ p \in c.apart /\ {p[1], p[2]} \cap s.sets = {}}
        /\ d.tied = {p \in Ties :
                    \/ p[1] \in d.off \/ p[2] \in d.on
                    \/ p \in c.tied /\ p[1] \notin s.sets
                                    /\ p[2] \notin s.clears}
        /\ d.up = c.up /\ d.tried = c.tried /\ d.down = c.down
        /\ d.alone = c.alone /\ d.manned = c.manned
        /\ d.ready = c.ready /\ d.tidy = c.tidy /\ d.frame = c.frame
        /\ d.quiet = {n \in c.quiet : n.path \notin s.sets}
        /\ d.open = {n \in c.open :
            /\ n.path \in s.sets => n.drivers \subseteq c.tried
                                    /\ n.flags \subseteq d.on
            /\ n.flags \cap s.clears # {} => n \in c.quiet
                                             /\ n.path \notin s.sets}
    BY DEF Wrote, Changed, Fields
  <1>2. OfFacts(d)'
    <2>1. d.on \subseteq facts' \cup missed' /\ d.off \cap facts' = {}
      BY <1>1 DEF Valid, OfFacts
    <2>2. \A p \in d.apart : p[1] \in facts' => p[2] \notin facts'
      BY <1>1, <2>1 DEF Valid, OfFacts
    <2>3. \A p \in d.tied : p[1] \in facts' => p[2] \in facts' \cup missed'
      BY <1>1, <2>1 DEF Valid, OfFacts
    <2> QED
      BY <2>1, <2>2, <2>3 DEF OfFacts
  <1>3. OfDrivers(d)'
    BY <1>1 DEF Valid, OfDrivers, Manned, Own, ByHandle, Stopped, Live, Tidy,
                kernel
  <1>4. OfNodes(d)'
    <2>1. \A n \in d.quiet : n.path \in facts' => Met(n)'
      BY <1>1 DEF Valid, OfNodes, Met
    <2>2. ASSUME NEW n \in d.open, n.path \in facts', ~Met(n)
          PROVE  n.flags \subseteq facts' /\ \A x \in n.drivers : pub'[x] # 0
      <3>1. CASE n.path \in s.sets
        <4>1. n \in c.open /\ n.drivers \subseteq c.tried
              /\ n.flags \subseteq d.on
          BY <1>1, <3>1
        <4>2. \A x \in n.drivers : pub[x] # 0
          BY <4>1, <2>2 DEF Valid, OfDrivers, Met
        <4>3. \A x \in d.on : x \in facts' \cup missed
          BY <1>1 DEF Valid, OfFacts
        <4> QED
          BY <4>1, <4>2, <4>3 DEF kernel
      <3>2. CASE n.path \notin s.sets
        <4>1. n \in c.open /\ n.path \in facts
          BY <1>1, <2>2, <3>2
        <4>2. n \notin c.quiet
          BY <4>1, <2>2 DEF Valid, OfNodes
        <4>3. n.flags \cap s.clears = {}
          BY <1>1, <4>2
        <4>4. n.flags \subseteq facts /\ \A x \in n.drivers : pub[x] # 0
          BY <4>1, <2>2 DEF Valid, OfNodes, Opens
        <4> QED
          BY <4>3, <4>4 DEF kernel
      <3> QED
        BY <3>1, <3>2
    <2>3. \A n : Met(n)' = Met(n)
      BY DEF Met
    <2> QED
      BY <2>1, <2>2, <2>3 DEF OfNodes, Opens
  <1>5. OfFrame(d, e, ep)'
    BY <1>1 DEF Valid, OfFrame, Own, ByHandle, Stopped, Tidy, kernel
  <1> QED
    BY <1>2, <1>3, <1>4, <1>5 DEF Valid

(* A poll changes nothing that a registration depends on.                  *)
LEMMA PolledNodes ==
  ASSUME NEW c, NEW e, NEW ep, Valid(c, e, ep), NEW lost,
         \A n \in c.open \cup c.quiet :
            n.path \notin lost /\ n.flags \cap lost = {},
         facts' \ lost = facts \ lost, pub' = pub, blamed \subseteq blamed'
  PROVE  OfNodes(c)'
  BY DEF Valid, OfNodes, Opens, Met

LEMMA PolledDrivers ==
  ASSUME NEW c, NEW e, NEW ep, Valid(c, e, ep),
         UNCHANGED kernel, blamed \subseteq blamed'
  PROVE  OfDrivers(c)' /\ OfFrame(c, e, ep)'
  <1>1. OfDrivers(c)'
    BY DEF Valid, OfDrivers, Manned, Own, ByHandle, Stopped, Live, Tidy, kernel
  <1>2. OfFrame(c, e, ep)'
    BY DEF Valid, OfFrame, Own, ByHandle, Stopped, Tidy, kernel
  <1> QED
    BY <1>1, <1>2

LEMMA PolledValid ==
  ASSUME NEW c, DOMAIN c = Fields, NEW e, NEW ep, Valid(c, e, ep), NEW s,
         \A n \in c.open \cup c.quiet :
            n.path \notin s.sets /\ n.flags \cap s.sets = {},
         facts' \ s.sets = facts \ s.sets, s.sets \subseteq facts' \cup missed',
         UNCHANGED kernel, blamed \subseteq blamed', missed \subseteq missed',
         NEW d, d = Polled(c, s)
  PROVE  Valid(d, e, ep)'
  <1>1. /\ d.on = c.on \cup s.sets /\ d.off = c.off \ s.sets
        /\ d.apart = {p \in Conflicts :
                    \/ p[1] \in d.off \/ p[2] \in d.off
                    \/ p \in c.apart /\ {p[1], p[2]} \cap s.sets = {}}
        /\ d.tied = {p \in Ties :
                    \/ p[1] \in d.off \/ p[2] \in d.on
                    \/ p \in c.tied /\ p[1] \notin s.sets /\ p[2] \notin {}}
        /\ d.up = c.up /\ d.tried = c.tried /\ d.down = c.down
        /\ d.alone = c.alone /\ d.manned = c.manned
        /\ d.ready = c.ready /\ d.tidy = c.tidy /\ d.frame = c.frame
        /\ d.quiet = c.quiet /\ d.open = c.open
    BY DEF Polled, Changed, Fields
  <1>2. OfFacts(d)'
    <2>1. d.on \subseteq facts' \cup missed' /\ d.off \cap facts' = {}
      BY <1>1 DEF Valid, OfFacts
    <2>2. \A p \in d.apart : p[1] \in facts' => p[2] \notin facts'
      BY <1>1, <2>1 DEF Valid, OfFacts
    <2>3. \A p \in d.tied : p[1] \in facts' => p[2] \in facts' \cup missed'
      BY <1>1, <2>1 DEF Valid, OfFacts
    <2> QED
      BY <2>1, <2>2, <2>3 DEF OfFacts
  <1>3. OfDrivers(c)' /\ OfFrame(c, e, ep)'
    BY PolledDrivers
  <1>4. OfNodes(c)'
    BY PolledNodes DEF kernel
  <1>5. OfDrivers(d)'
    BY <1>1, <1>3 DEF OfDrivers
  <1>6. OfFrame(d, e, ep)'
    BY <1>1, <1>3 DEF OfFrame
  <1>7. OfNodes(d)'
    BY <1>1, <1>4 DEF OfNodes
  <1> QED
    BY <1>2, <1>5, <1>6, <1>7 DEF Valid

LEMMA CheckedValid ==
  ASSUME NEW c, DOMAIN c = Fields, NEW e, NEW ep, Valid(c, e, ep), NEW s,
         \A n \in c.open \cup c.quiet :
            n.path \notin s.sets /\ n.flags \cap s.sets = {},
         facts' \ s.sets = facts \ s.sets,
         UNCHANGED kernel, blamed \subseteq blamed', missed \subseteq missed',
         NEW d, d = Checked(c, s)
  PROVE  Valid(d, e, ep)'
  <1>1. /\ d.on = c.on \ s.sets /\ d.off = c.off \ s.sets
        /\ d.apart = {p \in Conflicts :
                    \/ p[1] \in d.off \/ p[2] \in d.off
                    \/ p \in c.apart /\ {p[1], p[2]} \cap s.sets = {}}
        /\ d.tied = {p \in Ties :
                    \/ p[1] \in d.off \/ p[2] \in d.on
                    \/ p \in c.tied /\ p[1] \notin s.sets
                                    /\ p[2] \notin s.sets}
        /\ d.up = c.up /\ d.tried = c.tried /\ d.down = c.down
        /\ d.alone = c.alone /\ d.manned = c.manned
        /\ d.ready = c.ready /\ d.tidy = c.tidy /\ d.frame = c.frame
        /\ d.quiet = c.quiet /\ d.open = c.open
    BY DEF Checked, Changed, Fields
  <1>2. OfFacts(d)'
    <2>1. d.on \subseteq facts' \cup missed' /\ d.off \cap facts' = {}
      BY <1>1 DEF Valid, OfFacts
    <2>2. \A p \in d.apart : p[1] \in facts' => p[2] \notin facts'
      BY <1>1, <2>1 DEF Valid, OfFacts
    <2>3. \A p \in d.tied : p[1] \in facts' => p[2] \in facts' \cup missed'
      BY <1>1, <2>1 DEF Valid, OfFacts
    <2> QED
      BY <2>1, <2>2, <2>3 DEF OfFacts
  <1>3. OfDrivers(c)' /\ OfFrame(c, e, ep)'
    BY PolledDrivers
  <1>4. OfNodes(c)'
    BY PolledNodes DEF kernel
  <1>5. OfDrivers(d)'
    BY <1>1, <1>3 DEF OfDrivers
  <1>6. OfFrame(d, e, ep)'
    BY <1>1, <1>3 DEF OfFrame
  <1>7. OfNodes(d)'
    BY <1>1, <1>4 DEF OfNodes
  <1> QED
    BY <1>2, <1>5, <1>6, <1>7 DEF Valid

LEMMA PollFailedValid ==
  ASSUME NEW c, DOMAIN c = Fields, NEW e, NEW ep, Valid(c, e, ep), NEW s,
         NEW lost, lost = s.sets \cup s.clears,
         \A n \in c.open \cup c.quiet :
            n.path \notin lost /\ n.flags \cap lost = {},
         facts' = facts \ lost,
         UNCHANGED kernel, blamed' = blamed \cup {e}, missed' = missed,
         NEW d, d = PollFailed(c, e, s), NEW e2, NEW ep2
  PROVE  Valid(d, e2, ep2)'
  <1>1. /\ d.on = c.on \ lost /\ d.off = c.off \cup lost
        /\ d.apart = {p \in Conflicts :
                    \/ p[1] \in d.off \/ p[2] \in d.off
                    \/ p \in c.apart /\ {p[1], p[2]} \cap {} = {}}
        /\ d.tied = {p \in Ties :
                    \/ p[1] \in d.off \/ p[2] \in d.on
                    \/ p \in c.tied /\ p[1] \notin {} /\ p[2] \notin lost}
        /\ d.up = c.up /\ d.tried = c.tried \cup {e} /\ d.down = c.down
        /\ d.alone = c.alone /\ d.manned = c.manned
        /\ d.ready = c.ready \cup {e} /\ d.tidy = c.tidy /\ d.frame = {}
        /\ d.quiet = c.quiet /\ d.open = c.open
    BY DEF PollFailed, Blame, Out, Changed, Fields
  <1>2. OfFacts(d)'
    <2>1. d.on \subseteq facts' \cup missed' /\ d.off \cap facts' = {}
      BY <1>1 DEF Valid, OfFacts
    <2>2. \A p \in d.apart : p[1] \in facts' => p[2] \notin facts'
      BY <1>1, <2>1 DEF Valid, OfFacts
    <2>3. \A p \in d.tied : p[1] \in facts' => p[2] \in facts' \cup missed'
      BY <1>1, <2>1 DEF Valid, OfFacts
    <2> QED
      BY <2>1, <2>2, <2>3 DEF OfFacts
  <1>3. OfDrivers(c)'
    BY PolledDrivers
  <1>4. OfNodes(c)'
    <2>1. facts' \ lost = facts \ lost
      OBVIOUS
    <2>2. pub' = pub /\ blamed \subseteq blamed'
      BY DEF kernel
    <2> QED
      BY <2>1, <2>2, PolledNodes
  <1>5. OfDrivers(d)'
    BY <1>1, <1>3 DEF OfDrivers
  <1>6. OfFrame(d, e2, ep2)'
    BY <1>1 DEF OfFrame
  <1>7. OfNodes(d)'
    BY <1>1, <1>4 DEF OfNodes
  <1> QED
    BY <1>2, <1>5, <1>6, <1>7 DEF Valid

LEMMA FramelessValid ==
  ASSUME NEW c, NEW e, NEW ep, Valid(c, e, ep)', c.frame = {}, NEW e2, NEW ep2
  PROVE  Valid(c, e2, ep2)'
  BY DEF Valid, OfFrame

-----------------------------------------------------------------------------
(* Where root is in the outline.                                           *)

LEMMA ChainSame ==
  ASSUME NEW k, NEW m \in Nat, \A j \in 1 .. m : stack'[j] = stack[j],
         NEW i \in 1 .. m + 1
  PROVE  Chain(k, i)' = Chain(k, i)
  BY DEF Chain

LEMMA ChainPush ==
  ASSUME NEW k, NEW i \in Nat \ {0}
  PROVE  Chain(k, i + 1) = Append(Chain(k, i), stack[i].pc - 1)
  <1>1. Chain(k, i) = [j \in 1 .. i |-> IF j = 1 THEN k ELSE stack[j - 1].pc - 1]
    BY DEF Chain
  <1>2. Len(Chain(k, i)) = i
    BY <1>1
  <1> QED
    BY <1>1, <1>2 DEF Chain

LEMMA ChainPushed ==
  ASSUME NEW k, NEW i \in Nat \ {0}
  PROVE  Chain(k, i + 1)' = Append(Chain(k, i)', stack'[i].pc - 1)
  <1>1. Chain(k, i)' = [j \in 1 .. i |->
                          IF j = 1 THEN k ELSE stack'[j - 1].pc - 1]
    BY DEF Chain
  <1>2. Len(Chain(k, i)') = i
    BY <1>1
  <1> QED
    BY <1>1, <1>2 DEF Chain

LEMMA ChainStays ==
  ASSUME NEW k, NEW n \in Nat \ {0}, \A j \in 1 .. n - 1 : stack'[j] = stack[j]
  PROVE  Chain(k, n)' = Chain(k, n)
  BY DEF Chain

LEMMA ChainOne == ASSUME NEW k PROVE Chain(k, 1) = <<k>>
  <1>1. Chain(k, 1) = [j \in 1 .. 1 |->
                         IF j = 1 THEN k ELSE stack[j - 1].pc - 1]
    BY DEF Chain
  <1>2. \A j \in 1 .. 1 : j = 1
    OBVIOUS
  <1> QED
    BY <1>1, <1>2

LEMMA FollowsSame ==
  ASSUME NEW book, NEW k, NEW m \in Nat, m < Len(stack), m <= Len(stack'),
         stack \in Seq(Frames), stack' \in Seq(Frames),
         \A j \in 1 .. m : stack'[j] = stack[j] /\ Follows(book, k, j),
         board' = board, \A d \in Drivers : made[d] <= made'[d],
         made \in [Drivers -> Nat], made' \in [Drivers -> Nat]
  PROVE  \A j \in 1 .. m : Follows(book, k, j)'
  <1> SUFFICES ASSUME NEW j \in 1 .. m PROVE Follows(book, k, j)'
    OBVIOUS
  <1>1. Chain(k, j)' = Chain(k, j)
    <2>1. \A x \in 1 .. j - 1 : stack'[x] = stack[x]
      OBVIOUS
    <2> QED
      BY <2>1 DEF Chain
  <1>2. stack'[j] = stack[j] /\ stack[j] \in Frames /\ j < Len(stack)
    OBVIOUS
  <1>3. Plans[board][stack[j].plan].driver \in Drivers
    BY <1>2 DEF Frames, Drivers
  <1>4. stack[j].ep \in Nat
    BY <1>2 DEF Frames
  <1>5. Follows(book, k, j)
    OBVIOUS
  <1> DEFINE path == Chain(k, j)
             plan == Plans[board][stack[j].plan]
  <1>6. /\ path \in DOMAIN book.at /\ book.at[path].plan = stack[j].plan
        /\ stack[j].pc \in 1 .. Len(plan.steps) + 1
        /\ stack[j].ep <= made[plan.driver]
        /\ Waits(stack[j], plan.steps)
    BY <1>2, <1>5 DEF Follows
  <1>7. stack[j].ep <= made'[plan.driver]
    BY <1>3, <1>4, <1>6
  <1>8. Waits(stack[j], plan.steps)'
    BY <1>2, <1>6 DEF Waits
  <1> QED
    BY <1>1, <1>2, <1>6, <1>7, <1>8 DEF Follows

BookOf(program) == Outline[board][program]
CallOf(program) == Len(program) - Len(todo)
PathOf(program) == Chain(CallOf(program), Len(stack))
Here(program)   == BookOf(program).at[PathOf(program)]

(* A function that has not failed is at a place of the outline whose claims*)
(* hold.                                                                   *)
LEMMA AtHere ==
  ASSUME NEW program, Placed(program), Sound(board, program), TypeOK,
         stack # <<>>
  PROVE  /\ Len(stack) \in Nat \ {0} /\ DOMAIN stack = 1 .. Len(stack)
         /\ Top = stack[Len(stack)] /\ Top \in Frames
         /\ CallOf(program) \in Nat /\ CallOf(program) >= 1
         /\ todo = SubSeq(program, CallOf(program) + 1, Len(program))
         /\ program \in Seq(DOMAIN Plans[board])
         /\ PathOf(program) \in DOMAIN BookOf(program).at
         /\ SoundAt(board, BookOf(program), PathOf(program))
         /\ \A j \in 1 .. Len(stack) :
               Follows(BookOf(program), CallOf(program), j)
         /\ Here(program).plan = Top.plan /\ Top.plan \in DOMAIN Plans[board]
         /\ Self \in Drivers
         /\ Len(Steps) \in Nat /\ DOMAIN Steps = 1 .. Len(Steps)
         /\ Top.pc \in 1 .. Len(Steps) + 1 /\ Top.ep <= made[Self]
         /\ DOMAIN Here(program).claims = 1 .. Len(Steps) + 1
         /\ \A j \in 1 .. Len(Steps) + 1 :
               Proper(board, Here(program).claims[j])
         /\ Here(program).any.frame = {} /\ Here(program).ok.frame = {}
         /\ Weaker(Here(program).any, Here(program).ok)
         /\ Valid(IF GivingUp THEN Here(program).any
                  ELSE Here(program).claims[Top.pc], Self, Top.ep)
  <1>1. /\ Len(stack) \in Nat \ {0} /\ DOMAIN stack = 1 .. Len(stack)
        /\ Top = stack[Len(stack)] /\ Top \in Frames
    BY TopOf DEF TypeOK, Top
  <1>2. /\ CallOf(program) \in Nat /\ CallOf(program) >= 1
        /\ todo = SubSeq(program, CallOf(program) + 1, Len(program))
        /\ \A j \in 1 .. Len(stack) :
              Follows(BookOf(program), CallOf(program), j)
        /\ Valid(Claimed(Here(program)), Self, Top.ep)
    BY <1>1 DEF Placed, CallOf, BookOf, Here, PathOf
  <1>3. /\ PathOf(program) \in DOMAIN BookOf(program).at
        /\ Here(program).plan = Top.plan /\ Top.pc \in 1 .. Len(Steps) + 1
        /\ Top.ep <= made[Self]
    BY <1>1, <1>2 DEF Follows, Here, PathOf, Steps, Self
  <1>4. /\ SoundAt(board, BookOf(program), PathOf(program))
        /\ program \in Seq(DOMAIN Plans[board])
    BY <1>3 DEF Sound, SoundProgram, BookOf
  <1>5. /\ Here(program).plan \in DOMAIN Plans[board]
        /\ Len(Steps) \in Nat /\ DOMAIN Steps = 1 .. Len(Steps)
        /\ DOMAIN Here(program).claims = 1 .. Len(Steps) + 1
        /\ \A j \in DOMAIN Here(program).claims :
              Proper(board, Here(program).claims[j])
        /\ Here(program).any.frame = {} /\ Here(program).ok.frame = {}
        /\ Weaker(Here(program).any, Here(program).ok)
    BY <1>3, <1>4 DEF SoundAt, Steps, Here
  <1>6. Self \in Drivers
    BY <1>3, <1>5 DEF Self, Drivers
  <1>7. Valid(IF GivingUp THEN Here(program).any
              ELSE Here(program).claims[Top.pc], Self, Top.ep)
    BY <1>2 DEF Claimed
  <1> QED
    BY <1>1, <1>2, <1>3, <1>4, <1>5, <1>6, <1>7

(* Root goes on in the same function.                                      *)
LEMMA Stays ==
  ASSUME NEW program, Placed(program), Sound(board, program), TypeOK,
         stack # <<>>, ~GivingUp, board' = board, todo' = todo,
         made' \in [Drivers -> Nat], \A d \in Drivers : made[d] <= made'[d],
         NEW f \in Frames, SetTop(f), f.plan = Top.plan, f.due = Top.due,
         f.got = Top.got, f.ep <= made'[Self],
         f.pc \in 1 .. Len(Steps) + 1,
         NEW e, e = Self,
         NEW d, d = Here(program).claims[f.pc], Valid(d, e, f.ep)'
  PROVE  /\ Placed(program)' /\ stack' # <<>> /\ ~GivingUp' /\ Top' = f
         /\ Steps' = Steps /\ Self' = Self /\ stack' \in Seq(Frames)
  <1>1. PICK book, k, n, path, a :
           /\ book = BookOf(program) /\ k = CallOf(program)
           /\ n = Len(stack) /\ path = PathOf(program) /\ a = Here(program)
    OBVIOUS
  <1>2. /\ n \in Nat \ {0} /\ k \in Nat /\ k >= 1 /\ Top = stack[n]
        /\ a = book.at[path] /\ path \in DOMAIN book.at
        /\ a.plan = Top.plan
        /\ \A j \in 1 .. n : Follows(book, k, j)
        /\ todo = SubSeq(program, k + 1, Len(program))
        /\ path = Chain(k, n)
    BY <1>1, AtHere DEF Here, PathOf
  <1>3. /\ stack' \in Seq(Frames) /\ Len(stack') = n /\ stack' # <<>>
        /\ Top' = f /\ stack'[n] = f
        /\ \A j \in 1 .. n - 1 : stack'[j] = stack[j]
    <2>1. stack' = [stack EXCEPT ![Len(stack)] = f] /\ stack \in Seq(Frames)
      BY DEF SetTop, TypeOK
    <2>2. /\ stack' \in Seq(Frames) /\ Len(stack') = Len(stack)
          /\ stack'[Len(stack)] = f
          /\ \A j \in 1 .. Len(stack) - 1 : stack'[j] = stack[j]
      BY <2>1, SetOf
    <2>3. stack' # <<>>
      BY <1>1, <1>2, <2>2
    <2> QED
      BY <1>1, <1>2, <2>2, <2>3 DEF Top, Last
  <1>4. ~GivingUp' /\ Steps' = Steps /\ Self' = Self
    BY <1>3 DEF GivingUp, Steps, Self
  <1>5. \A j \in 1 .. n - 1 : Follows(book, k, j)'
    <2>1. n - 1 \in Nat /\ n - 1 < Len(stack) /\ n - 1 <= Len(stack')
      BY <1>1, <1>2, <1>3
    <2>2. \A j \in 1 .. n - 1 : stack'[j] = stack[j] /\ Follows(book, k, j)
      BY <1>2, <1>3
    <2> QED
      BY <2>1, <2>2, <1>3, FollowsSame DEF TypeOK
  <1>6. Chain(k, n)' = path
    BY <1>2, <1>3, ChainStays
  <1>7. Follows(book, k, n)'
    <2>1. Follows(book, k, n) /\ stack[n] = Top
      BY <1>2
    <2>2. path \in DOMAIN book.at /\ book.at[path].plan = f.plan
      BY <1>2
    <2>3. /\ Plans[board'][f.plan].steps = Steps
          /\ Plans[board'][f.plan].driver = Self
      BY DEF Steps, Self
    <2>4. ~(n < Len(stack'))
      BY <1>2, <1>3
    <2> QED
      BY <1>3, <1>6, <2>2, <2>3, <2>4 DEF Follows
  <1>8. \A j \in DOMAIN stack' : Follows(book, k, j)'
    <2>1. \A j \in DOMAIN stack' : j \in 1 .. n - 1 \/ j = n
      BY <1>2, <1>3
    <2> QED
      BY <2>1, <1>5, <1>7
  <1>9. Valid(Claimed(book.at[Chain(k, Len(stack))]), Self, Top.ep)'
    BY <1>1, <1>2, <1>3, <1>4, <1>6 DEF Claimed
  <1> QED
    BY <1>1, <1>2, <1>3, <1>4, <1>8, <1>9 DEF Placed, BookOf, CallOf

(* Root returns to the caller, or rests.                                   *)
LEMMA ChainOfTop ==
  ASSUME NEW k, NEW n \in Nat, n >= 2
  PROVE  Chain(k, n) = Append(Chain(k, n - 1), stack[n - 1].pc - 1)
  <1>1. n - 1 \in Nat \ {0} /\ (n - 1) + 1 = n
    OBVIOUS
  <1>2. Chain(k, (n - 1) + 1) = Append(Chain(k, n - 1), stack[n - 1].pc - 1)
    BY <1>1, ChainPush
  <1> QED
    BY <1>1, <1>2

LEMMA Leaves ==
  ASSUME NEW program, Placed(program), Sound(board, program), TypeOK,
         stack # <<>>, UNCHANGED <<board, todo, made>>,
         NEW answer \in {"ok", "fail"}, Return(answer),
         NEW c, Weaker(IF answer = "ok" THEN Here(program).ok
                       ELSE Here(program).any, c),
         NEW e, NEW ep, Valid(c, e, ep)'
  PROVE  Placed(program)' /\ stack' \in Seq(Frames)
  <1>1. PICK book, k, n, path, a :
           /\ book = BookOf(program) /\ k = CallOf(program)
           /\ n = Len(stack) /\ path = PathOf(program) /\ a = Here(program)
    OBVIOUS
  <1>2. /\ n \in Nat \ {0} /\ k \in Nat /\ k >= 1 /\ Top = stack[n]
        /\ a = book.at[path] /\ path \in DOMAIN book.at
        /\ \A j \in 1 .. n : Follows(book, k, j)
        /\ todo = SubSeq(program, k + 1, Len(program))
        /\ path = Chain(k, n)
        /\ a.any.frame = {} /\ a.ok.frame = {} /\ Weaker(a.any, a.ok)
        /\ program \in Seq(DOMAIN Plans[board])
    BY <1>1, AtHere DEF Here, PathOf
  <1>3. PICK x : x = IF answer = "ok" THEN a.ok ELSE a.any
    OBVIOUS
  <1>4. /\ x.frame = {} /\ Weaker(a.any, x)
        /\ \A e2, ep2 : Valid(x, e2, ep2)' /\ Valid(a.any, e2, ep2)'
    <2>1. x.frame = {} /\ Weaker(a.any, x)
      BY <1>2, <1>3 DEF Weaker
    <2>2. Valid(x, e, ep)'
      BY <1>1, <1>3, WeakerValid
    <2>3. Valid(a.any, e, ep)'
      BY <2>1, <2>2, WeakerValid
    <2> QED
      BY <1>2, <2>1, <2>2, <2>3, FramelessValid
  <1>5. CASE n = 1
    <2>1. stack' = <<>>
      BY <1>1, <1>5 DEF Return
    <2>2. path = <<k>>
      BY <1>2, <1>5, ChainOne
    <2>3. /\ k \in DOMAIN program /\ k + 1 \in DOMAIN book.rest
          /\ Weaker(book.rest[k + 1], a.any)
      <3>1. Sound(board, program) /\ book = Outline[board][program]
        BY <1>1 DEF BookOf
      <3>2. k \in DOMAIN program
        <4>1. Len(program) \in Nat /\ DOMAIN program = 1 .. Len(program)
          BY <1>2
        <4>2. k = Len(program) - Len(todo)
          BY <1>1 DEF CallOf
        <4>3. Len(todo) \in Nat
          <5>1. k + 1 \in Nat /\ k + 1 >= 1
            BY <1>2
          <5>2. Len(SubSeq(program, k + 1, Len(program))) \in Nat
            BY <1>2, <5>1, RestOf
          <5> QED
            BY <1>2, <5>2
        <4>4. k \in Nat /\ k >= 1
          BY <1>2
        <4>5. k \in 1 .. Len(program)
          BY <4>1, <4>2, <4>3, <4>4
        <4> QED
          BY <4>1, <4>5
      <3>3. /\ DOMAIN book.rest = 1 .. Len(program) + 1
            /\ \A j \in DOMAIN program :
                 Weaker(book.rest[j + 1], book.at[<<j>>].any)
        BY <3>1 DEF Sound, SoundProgram
      <3>4. book.at[<<k>>] = a
        BY <1>2, <2>2
      <3>5. k + 1 \in DOMAIN book.rest
        <4>1. Len(program) \in Nat /\ DOMAIN program = 1 .. Len(program)
          BY <1>2
        <4> QED
          BY <3>2, <3>3, <4>1
      <3> QED
        BY <3>2, <3>3, <3>4, <3>5
    <2>4. Valid(book.rest[k + 1], "none", 0)'
      BY <1>4, <2>3, WeakerValid
    <2>5. /\ Outline[board'][program] = book
          /\ Len(program) - Len(todo') = k
          /\ todo' = SubSeq(program, k + 1, Len(program))
      BY <1>1, <1>2 DEF BookOf, CallOf
    <2>6. PICK r : r = book.rest[k + 1] /\ Valid(r, "none", 0)'
      BY <2>4
    <2>7. r = Outline[board'][program].rest[Len(program) - Len(todo') + 1]
      BY <2>5, <2>6
    <2>8. (stack = <<>> => Valid(Outline[board][program].rest[
                              Len(program) - Len(todo) + 1], "none", 0))'
      BY <2>6, <2>7
    <2>9. Placed(program)'
      BY <1>2, <2>1, <2>5, <2>8 DEF Placed
    <2> QED
      BY <2>1, <2>9
  <1>6. CASE n >= 2
    <2> DEFINE m == n - 1
               low == stack[m]
               i == low.pc - 1
               steps == Plans[board][low.plan].steps
               lower == Chain(k, m)
               b == book.at[lower]
    <2>1. /\ m \in Nat \ {0} /\ m < n /\ low \in Frames /\ stack \in Seq(Frames)
          /\ Follows(book, k, m)
      <3>1. stack \in Seq(Frames)
        BY DEF TypeOK
      <3>2. m \in Nat \ {0} /\ m < n /\ m \in 1 .. n
        BY <1>2, <1>6
      <3>3. low \in Frames
        BY <1>1, <3>1, <3>2
      <3> QED
        BY <1>2, <3>1, <3>2, <3>3
    <2>2. /\ lower \in DOMAIN book.at /\ b.plan = low.plan
          /\ low.pc \in 1 .. Len(steps) + 1
          /\ low.ep <= made[Plans[board][low.plan].driver]
          /\ i \in DOMAIN steps /\ low.due = steps[i].op
          /\ low.due \in {"must", "also"}
      BY <1>1, <2>1 DEF Follows, Waits
    <2>3. path = Append(lower, i)
      BY <1>2, <1>6, ChainOfTop
    <2>4. SoundAt(board, book, lower)
      BY <1>1, <2>2 DEF Sound, SoundProgram, BookOf
    <2>5. /\ low.due = "also" => Goes(b, i, a.any)
          /\ low.due = "must" => Goes(b, i, a.ok) /\ Weaker(b.any, a.any)
          /\ DOMAIN b.claims = 1 .. Len(steps) + 1
      <3>1. Calls(book, lower, b, i, steps[i], b.claims[i])
        BY <2>2, <2>4 DEF SoundAt
      <3>2. DOMAIN b.claims = 1 .. Len(steps) + 1
        BY <2>2, <2>4 DEF SoundAt
      <3> QED
        BY <1>2, <2>2, <2>3, <3>1, <3>2 DEF Calls
    <2>6. PICK f : f = [low EXCEPT !.got = answer]
      OBVIOUS
    <2>7. /\ f \in Frames /\ f.plan = low.plan /\ f.pc = low.pc
          /\ f.ep = low.ep /\ f.due = low.due /\ f.got = answer
      BY <2>1, <2>6 DEF Frames
    <2>8. /\ stack' \in Seq(Frames) /\ Len(stack') = m /\ stack'[m] = f
          /\ \A j \in 1 .. m - 1 : stack'[j] = stack[j]
      <3>1. /\ Front(stack) \in Seq(Frames) /\ Len(Front(stack)) = m
            /\ Front(stack) # <<>>
            /\ \A j \in 1 .. m : Front(stack)[j] = stack[j]
        BY <1>1, <1>2, <1>6, <2>1, PopOf
      <3>2. stack' = [Front(stack) EXCEPT ![Len(stack) - 1].got = answer]
        BY <1>1, <1>2, <1>6 DEF Return
      <3>3. Front(stack)[m] = low
        BY <2>1, <3>1
      <3>4. stack' = [Front(stack) EXCEPT ![m] = f]
        BY <1>1, <2>6, <3>2, <3>3
      <3>5. stack' = [Front(stack) EXCEPT ![Len(Front(stack))] = f]
        BY <3>1, <3>4
      <3>6. /\ stack' \in Seq(Frames) /\ Len(stack') = Len(Front(stack))
            /\ stack'[Len(Front(stack))] = f
            /\ \A j \in 1 .. Len(Front(stack)) - 1 : stack'[j] = Front(stack)[j]
        BY <2>7, <3>1, <3>5, SetOf
      <3> QED
        BY <3>1, <3>6, <2>1
    <2>9. /\ Top' = f /\ stack' # <<>>
          /\ GivingUp' <=> (f.due = "must" /\ f.got = "fail")
      BY <2>1, <2>8 DEF Top, Last, GivingUp
    <2>10. Chain(k, m)' = lower
      <3>1. \A j \in 1 .. m - 1 : stack'[j] = stack[j]
        BY <2>8
      <3> QED
        BY <2>1, <3>1 DEF Chain
    <2>11. \A j \in 1 .. m - 1 : Follows(book, k, j)'
      <3>1. m - 1 \in Nat /\ m - 1 < Len(stack) /\ m - 1 <= Len(stack')
        BY <1>1, <2>1, <2>8
      <3>2. \A j \in 1 .. m - 1 : stack'[j] = stack[j] /\ Follows(book, k, j)
        BY <1>2, <2>1, <2>8
      <3>3. /\ \A d \in Drivers : made[d] <= made'[d]
            /\ made \in [Drivers -> Nat] /\ made' \in [Drivers -> Nat]
        BY DEF TypeOK
      <3> QED
        BY <2>1, <2>8, <3>1, <3>2, <3>3, FollowsSame
    <2>12. Follows(book, k, m)'
      <3>1. /\ stack'[m] = f /\ Len(stack') = m
            /\ Plans[board'][f.plan] = Plans[board][low.plan]
        BY <2>7, <2>8
      <3>2. f.ep <= made'[Plans[board][low.plan].driver]
        BY <2>2, <2>7
      <3>3. ~(m < Len(stack'))
        BY <2>1, <3>1
      <3> QED
        BY <2>2, <2>7, <2>10, <3>1, <3>2, <3>3 DEF Follows
    <2>13. \A j \in DOMAIN stack' : Follows(book, k, j)'
      <3>1. \A j \in DOMAIN stack' : j \in 1 .. m - 1 \/ j = m
        BY <2>1, <2>8
      <3> QED
        BY <3>1, <2>11, <2>12
    <2>14. PICK y : y = IF low.due = "must" /\ answer = "fail" THEN b.any
                        ELSE b.claims[low.pc]
      OBVIOUS
    <2>15. Weaker(y, x) \/ Weaker(y, a.any)
      <3>1. i + 1 + 0 = low.pc
        <4>1. low.pc \in Nat
          BY <2>1 DEF Frames
        <4> QED
          BY <4>1
      <3> QED
        BY <1>3, <2>2, <2>5, <2>14, <3>1 DEF Goes, Skips
    <2>18. PICK e2, p2 : e2 = Self' /\ p2 = Top'.ep
      OBVIOUS
    <2>16. Valid(y, e2, p2)'
      <3>1. Valid(y, e, ep)'
        BY <1>4, <2>15, WeakerValid
      <3>2. y.frame = {}
        BY <1>2, <1>4, <2>15 DEF Weaker, Fields
      <3> QED
        BY <3>1, <3>2, FramelessValid
    <2>17. Claimed(book.at[Chain(k, Len(stack))])' = y
      BY <2>7, <2>8, <2>9, <2>10, <2>14 DEF Claimed
    <2> QED
      <3>1. /\ Outline[board'][program] = book
            /\ Len(program) - Len(todo') = k
            /\ todo' = SubSeq(program, k + 1, Len(program))
        BY <1>1, <1>2 DEF BookOf, CallOf
      <3>2. Valid(Claimed(book.at[Chain(k, Len(stack))]), Self, Top.ep)'
        BY <2>18, <2>16, <2>17
      <3> QED
        BY <1>2, <2>8, <2>9, <2>13, <3>1, <3>2 DEF Placed
  <1> QED
    BY <1>2, <1>5, <1>6

(* Root calls a function.                                                  *)
Waiting(f, op) == [f EXCEPT !.pc = @ + 1, !.due = op, !.got = "none"]

LEMMA WaitingFrame ==
  ASSUME NEW f \in Frames, NEW op \in {"must", "also"}
  PROVE  /\ Waiting(f, op) \in Frames /\ Waiting(f, op).plan = f.plan
         /\ Waiting(f, op).pc = f.pc + 1 /\ Waiting(f, op).ep = f.ep
         /\ Waiting(f, op).due = op /\ Waiting(f, op).got = "none"
  <1>1. PICK n : n = f.pc + 1 /\ n \in Nat \ {0}
    BY DEF Frames
  <1>2. PICK g : g = Waiting(f, op)
    OBVIOUS
  <1>3. g = [f EXCEPT !.pc = n, !.due = op, !.got = "none"]
    BY <1>1, <1>2 DEF Waiting
  <1>4. g \in Frames
    BY <1>1, <1>3 DEF Frames
  <1>5. g.plan = f.plan /\ g.pc = f.pc + 1 /\ g.ep = f.ep
        /\ g.due = op /\ g.got = "none"
    BY <1>1, <1>3 DEF Frames
  <1> QED
    BY <1>2, <1>4, <1>5

LEMMA Descends ==
  ASSUME NEW program, Placed(program), Sound(board, program), TypeOK, Call
  PROVE  /\ Placed(program)' /\ stack' \in Seq(Frames) /\ stack' # <<>>
         /\ ~GivingUp'
  <1>0. /\ stack # <<>> /\ ~GivingUp /\ Top.pc <= Len(Steps)
        /\ Cur.op \in {"must", "also"}
        /\ UNCHANGED <<board, todo, kernel, facts, trouble>>
    BY DEF Call, Running
  <1>1. PICK book, k, n, path, a, i, g :
           /\ book = BookOf(program) /\ k = CallOf(program)
           /\ n = Len(stack) /\ path = PathOf(program) /\ a = Here(program)
           /\ i = Top.pc /\ g = Frame(Cur.arg)
    OBVIOUS
  <1>2. /\ n \in Nat \ {0} /\ k \in Nat /\ k >= 1 /\ Top = stack[n]
        /\ Top \in Frames
        /\ a = book.at[path] /\ path \in DOMAIN book.at
        /\ \A j \in 1 .. n : Follows(book, k, j)
        /\ todo = SubSeq(program, k + 1, Len(program))
        /\ path = Chain(k, n) /\ a.plan = Top.plan
        /\ Len(Steps) \in Nat /\ DOMAIN Steps = 1 .. Len(Steps)
        /\ i \in 1 .. Len(Steps) /\ Top.ep <= made[Self]
        /\ SoundAt(board, book, path)
        /\ Valid(a.claims[i], Self, Top.ep) /\ Proper(board, a.claims[i])
    BY <1>0, <1>1, AtHere DEF Here, PathOf
  <1>3. /\ Append(path, i) \in DOMAIN book.at
        /\ book.at[Append(path, i)].plan = Cur.arg
        /\ Weaker(book.at[Append(path, i)].claims[1], Out(a.claims[i]))
    <2>1. Calls(book, path, a, i, Cur, a.claims[i])
      BY <1>1, <1>2 DEF SoundAt, Cur, Steps
    <2> QED
      BY <1>0, <2>1 DEF Calls
  <1>4. PICK c2 : c2 = book.at[Append(path, i)]
    OBVIOUS
  <1>5. /\ Cur.arg \in DOMAIN Plans[board]
        /\ Len(Plans[board][Cur.arg].steps) \in Nat
    <2>1. SoundAt(board, book, Append(path, i))
      BY <1>1, <1>3 DEF Sound, SoundProgram, BookOf
    <2> QED
      BY <1>3, <2>1 DEF SoundAt
  <1>6. Valid(c2.claims[1], "none", 0)'
    <2>1. PICK c, o : c = a.claims[i] /\ o = Out(c)
      OBVIOUS
    <2>2. Valid(c, Self, Top.ep) /\ DOMAIN c = Fields
      BY <1>2, <2>1 DEF Proper
    <2>3. PICK e, ep : e = Self /\ ep = Top.ep
      OBVIOUS
    <2>4. Valid(c, e, ep)'
      BY <1>0, <2>2, <2>3, StackValid
    <2>5. Valid(o, "none", 0)'
      BY <2>1, <2>2, <2>4, OutValid
    <2> QED
      BY <1>3, <1>4, <2>1, <2>5, WeakerValid
  <1>7. c2.claims[1].frame = {}
    <2>1. DOMAIN a.claims[i] = Fields
      BY <1>2 DEF Proper
    <2>2. Out(a.claims[i]).frame = {}
      BY <2>1 DEF Out, Fields
    <2>3. "frame" \in Fields
      BY DEF Fields
    <2> QED
      BY <1>3, <1>4, <2>2, <2>3 DEF Weaker
  <1>8. PICK f : f = [Top EXCEPT !.pc = @ + 1, !.due = Cur.op, !.got = "none"]
    OBVIOUS
  <1>9. /\ f \in Frames /\ f.plan = Top.plan /\ f.pc = i + 1 /\ f.ep = Top.ep
        /\ f.due = Cur.op /\ f.got = "none"
    <2>1. f = Waiting(Top, Cur.op)
      BY <1>8 DEF Waiting
    <2> QED
      BY <1>0, <1>1, <1>2, <2>1, WaitingFrame
  <1>10. /\ g \in Frames /\ g.plan = Cur.arg /\ g.pc = 1 /\ g.ep = 0
         /\ g.due = "none" /\ g.got = "none"
    BY <1>1, <1>5 DEF Frame, Frames
  <1>11. /\ stack' \in Seq(Frames) /\ Len(stack') = n + 1
         /\ stack'[n] = f /\ stack'[n + 1] = g
         /\ \A j \in 1 .. n - 1 : stack'[j] = stack[j]
    <2>1. PICK mid : mid = [stack EXCEPT ![Len(stack)] = f]
      OBVIOUS
    <2>2. stack \in Seq(Frames)
      BY DEF TypeOK
    <2>3. /\ mid \in Seq(Frames) /\ Len(mid) = n /\ mid[n] = f
          /\ \A j \in 1 .. n - 1 : mid[j] = stack[j]
      BY <1>0, <1>1, <1>9, <2>1, <2>2, SetOf
    <2>4. stack' = Append(mid, g)
      BY <1>1, <1>8, <2>1 DEF Call
    <2>5. /\ stack' \in Seq(Frames) /\ Len(stack') = n + 1
          /\ stack'[n + 1] = g /\ \A j \in 1 .. n : stack'[j] = mid[j]
      BY <1>10, <2>3, <2>4, PushOf
    <2> QED
      BY <1>2, <2>3, <2>5
  <1>12. /\ stack' # <<>> /\ Top' = g /\ ~GivingUp'
         /\ Self' = Plans[board][Cur.arg].driver
         /\ Steps' = Plans[board][Cur.arg].steps
    BY <1>0, <1>2, <1>10, <1>11 DEF Top, Last, GivingUp, Self, Steps
  <1>13. Chain(k, n)' = path
    BY <1>2, <1>11, ChainStays
  <1>14. Chain(k, n + 1)' = Append(path, i)
    <2>1. Chain(k, n + 1)' = Append(Chain(k, n)', stack'[n].pc - 1)
      BY <1>2, ChainPushed
    <2>2. stack'[n].pc - 1 = i
      <3>1. i \in Int
        BY <1>2
      <3>2. stack'[n].pc = i + 1
        BY <1>9, <1>11
      <3> QED
        BY <3>1, <3>2
    <2> QED
      BY <1>13, <2>1, <2>2
  <1>15. \A j \in 1 .. n - 1 : Follows(book, k, j)'
    <2>1. n - 1 \in Nat /\ n - 1 < Len(stack) /\ n - 1 <= Len(stack')
      BY <1>1, <1>2, <1>11
    <2>2. \A j \in 1 .. n - 1 : stack'[j] = stack[j] /\ Follows(book, k, j)
      BY <1>2, <1>11
    <2>3. /\ \A d \in Drivers : made[d] <= made'[d]
          /\ made \in [Drivers -> Nat] /\ made' \in [Drivers -> Nat]
          /\ board' = board /\ stack \in Seq(Frames)
      BY <1>0 DEF TypeOK, kernel
    <2> QED
      BY <1>11, <2>1, <2>2, <2>3, FollowsSame
  <1>16. Follows(book, k, n)'
    <2>1. Plans[board'][f.plan].steps = Steps /\ Plans[board'][f.plan].driver = Self
      BY <1>0, <1>9 DEF Steps, Self
    <2>2. f.pc \in 1 .. Len(Steps) + 1 /\ f.ep <= made'[Self]
      BY <1>0, <1>2, <1>9 DEF kernel
    <2>3. Waits(f, Steps)
      <3>1. f.pc - 1 = i
        BY <1>2, <1>9
      <3> QED
        BY <1>0, <1>1, <1>2, <1>9, <3>1 DEF Waits, Cur
    <2>4. path \in DOMAIN book.at /\ book.at[path].plan = f.plan
      BY <1>2, <1>9
    <2>5. Waits(stack[n], Plans[board][stack[n].plan].steps)'
      BY <1>11, <2>1, <2>3 DEF Waits
    <2> QED
      BY <1>11, <1>13, <2>1, <2>2, <2>4, <2>5 DEF Follows
  <1>17. Follows(book, k, n + 1)'
    <2>1. g.ep <= made'[Plans[board][Cur.arg].driver]
      BY <1>0, <1>5, <1>10 DEF TypeOK, Drivers, kernel
    <2>2. /\ Append(path, i) \in DOMAIN book.at
          /\ book.at[Append(path, i)].plan = g.plan
          /\ g.pc \in 1 .. Len(Plans[board][g.plan].steps) + 1
      BY <1>3, <1>5, <1>10
    <2>3. ~(n + 1 < Len(stack')) /\ board' = board
      BY <1>0, <1>2, <1>11
    <2> QED
      BY <1>10, <1>11, <1>14, <2>1, <2>2, <2>3 DEF Follows
  <1>18. \A j \in DOMAIN stack' : Follows(book, k, j)'
    <2>1. \A j \in DOMAIN stack' : j \in 1 .. n - 1 \/ j = n \/ j = n + 1
      BY <1>2, <1>11
    <2> QED
      BY <2>1, <1>15, <1>16, <1>17
  <1>19. Valid(Claimed(book.at[Chain(k, Len(stack))]), Self, Top.ep)'
    <2>1. Claimed(book.at[Chain(k, Len(stack))])' = c2.claims[1]
      BY <1>4, <1>10, <1>11, <1>12, <1>14 DEF Claimed
    <2>2. PICK y, e2, p2 : y = c2.claims[1] /\ e2 = Self' /\ p2 = Top'.ep
      OBVIOUS
    <2>3. Valid(y, e2, p2)'
      BY <1>6, <1>7, <2>2, FramelessValid
    <2> QED
      BY <2>1, <2>2, <2>3
  <1>20. /\ Outline[board'][program] = book
         /\ Len(program) - Len(todo') = k
         /\ todo' = SubSeq(program, k + 1, Len(program))
    BY <1>0, <1>1, <1>2 DEF BookOf, CallOf
  <1>21. Placed(program)'
    BY <1>2, <1>12, <1>18, <1>19, <1>20 DEF Placed
  <1> QED
    BY <1>11, <1>12, <1>21

(* Root makes its next call.                                               *)
LEMMA Begins ==
  ASSUME NEW program, Placed(program), Sound(board, program), TypeOK, Begin
  PROVE  /\ Placed(program)' /\ stack' \in Seq(Frames) /\ stack' # <<>>
         /\ ~GivingUp'
  <1>0. /\ stack = <<>> /\ todo # <<>> /\ stack' = <<Frame(Head(todo))>>
        /\ todo' = Tail(todo)
        /\ UNCHANGED <<board, kernel, facts, trouble>>
    BY DEF Begin
  <1>1. PICK book, k, m, g :
           /\ book = BookOf(program) /\ k = CallOf(program) /\ m = k + 1
           /\ g = Frame(Head(todo))
    OBVIOUS
  <1>2. /\ k \in Nat /\ todo = SubSeq(program, k + 1, Len(program))
        /\ Valid(book.rest[k + 1], "none", 0)
        /\ program \in Seq(DOMAIN Plans[board])
    BY <1>0, <1>1 DEF Placed, BookOf, CallOf, Sound, SoundProgram
  <1>3. /\ m \in 1 .. Len(program) /\ Head(todo) = program[m]
        /\ Tail(todo) = SubSeq(program, m + 1, Len(program))
        /\ Len(program) - Len(Tail(todo)) = m
    <2>1. todo \in Seq(DOMAIN Plans[board]) /\ Len(program) \in Nat
      <3>1. k + 1 \in Nat /\ k + 1 >= 1
        BY <1>2
      <3>2. SubSeq(program, k + 1, Len(program)) \in Seq(DOMAIN Plans[board])
        BY <1>2, <3>1, RestOf
      <3> QED
        BY <1>2, <3>2
    <2>2. Len(todo) \in Nat /\ Len(todo) >= 1
      BY <1>0, <2>1
    <2>3. k = Len(program) - Len(todo)
      BY <1>1 DEF CallOf
    <2>4. m \in 1 .. Len(program)
      <3>1. /\ m = k + 1 /\ k \in Nat /\ Len(program) \in Nat
            /\ Len(todo) \in Nat
        BY <1>1, <1>2, <2>1, <2>2
      <3> QED
        BY <2>2, <2>3, <3>1
    <2>5. Len(Tail(todo)) = Len(todo) - 1
      BY <1>0, <2>1
    <2>6. Head(todo) = program[m] /\ Tail(todo) = SubSeq(program, m + 1, Len(program))
      <3>1. todo = SubSeq(program, m, Len(program))
        BY <1>1, <1>2
      <3>2. Len(program) \in m .. Len(program)
        BY <2>1, <2>4
      <3>3. /\ Head(SubSeq(program, m, Len(program))) = program[m]
            /\ Tail(SubSeq(program, m, Len(program)))
                  = SubSeq(program, m + 1, Len(program))
        BY <1>2, <2>4, <3>2, HeadTailOfSubSeq
      <3> QED
        BY <3>1, <3>3
    <2> QED
      <3>1. /\ m = k + 1 /\ k \in Nat /\ Len(program) \in Nat
            /\ Len(todo) \in Nat
        BY <1>1, <1>2, <2>1, <2>2
      <3>2. Len(program) - Len(Tail(todo)) = m
        <4>1. PICK x, y : x = Len(Tail(todo)) /\ y = Len(todo)
          OBVIOUS
        <4>2. x = y - 1 /\ y \in Nat /\ k = Len(program) - y
          BY <2>3, <2>5, <3>1, <4>1
        <4>3. Len(program) - x = m
          BY <3>1, <4>2
        <4> QED
          BY <4>1, <4>3
      <3> QED
        BY <2>4, <2>6, <3>2
  <1>4. /\ <<m>> \in DOMAIN book.at /\ book.at[<<m>>].plan = program[m]
        /\ Weaker(book.at[<<m>>].claims[1], book.rest[m])
    <2>1. m \in DOMAIN program
      BY <1>2, <1>3
    <2> QED
      BY <1>1, <1>3, <2>1 DEF Sound, SoundProgram, BookOf
  <1>5. PICK a : a = book.at[<<m>>]
    OBVIOUS
  <1>6. /\ a.plan \in DOMAIN Plans[board] /\ Len(Plans[board][a.plan].steps) \in Nat
    <2>1. SoundAt(board, book, <<m>>)
      BY <1>1, <1>4 DEF Sound, SoundProgram, BookOf
    <2> QED
      BY <1>5, <2>1 DEF SoundAt
  <1>7. /\ g \in Frames /\ g.plan = a.plan /\ g.pc = 1 /\ g.ep = 0
        /\ g.due = "none" /\ g.got = "none"
    BY <1>1, <1>3, <1>4, <1>5, <1>6 DEF Frame, Frames
  <1>8. /\ stack' = <<g>> /\ Len(stack') = 1 /\ stack'[1] = g /\ stack' # <<>>
        /\ DOMAIN stack' = {1} /\ stack' \in Seq(Frames)
    BY <1>0, <1>1, <1>7
  <1>9. Top' = g /\ ~GivingUp'
    BY <1>7, <1>8 DEF Top, Last, GivingUp
  <1>10. Chain(m, 1)' = <<m>>
    BY DEF Chain
  <1>11. Follows(book, m, 1)'
    <2>1. g.ep <= made'[Plans[board][a.plan].driver]
      BY <1>0, <1>6, <1>7 DEF TypeOK, Drivers, kernel
    <2>2. ~(1 < Len(stack')) /\ board' = board
      BY <1>0, <1>8
    <2> QED
      BY <1>4, <1>5, <1>6, <1>7, <1>8, <1>10, <2>1, <2>2 DEF Follows
  <1>12. Valid(Claimed(book.at[Chain(m, Len(stack))]), Self, Top.ep)'
    <2>1. Claimed(book.at[Chain(m, Len(stack))])' = a.claims[1]
      BY <1>5, <1>7, <1>8, <1>9, <1>10 DEF Claimed
    <2>2. PICK y, c, e2, p2 : /\ y = a.claims[1] /\ c = book.rest[m]
                              /\ e2 = Self' /\ p2 = Top'.ep
      OBVIOUS
    <2>3. Valid(c, "none", 0)'
      BY <1>0, <1>1, <1>2, <2>2, StackValid
    <2>4. Valid(y, "none", 0)'
      BY <1>4, <1>5, <2>2, <2>3, WeakerValid
    <2>5. y.frame = {}
      <3>1. c.frame = {}
        <4>1. m \in 1 .. Len(program) + 1
          BY <1>2, <1>3
        <4> QED
          BY <1>1, <2>2, <4>1 DEF Sound, SoundProgram, Suffices, BookOf
      <3> QED
        BY <1>4, <1>5, <2>2, <3>1 DEF Weaker, Fields
    <2>6. Valid(y, e2, p2)'
      BY <2>4, <2>5, FramelessValid
    <2> QED
      BY <2>1, <2>2, <2>6
  <1>13. /\ Outline[board'][program] = book
         /\ Len(program) - Len(todo') = m
         /\ todo' = SubSeq(program, m + 1, Len(program))
         /\ m \in Nat /\ m >= 1
    <2>1. m \in Nat /\ m >= 1
      BY <1>1, <1>2
    <2> QED
      BY <1>0, <1>1, <1>3, <2>1 DEF BookOf
  <1>14. Placed(program)'
    <2>1. \A j \in DOMAIN stack' : Follows(book, m, j)'
      BY <1>8, <1>11
    <2> QED
      BY <2>1, <1>8, <1>12, <1>13 DEF Placed
  <1> QED
    BY <1>8, <1>9, <1>14

-----------------------------------------------------------------------------
(* What holds everywhere.                                                  *)

Safe == TypeOK /\ Granted /\ Locked /\ Kept /\ OneServer

(* No server awaits its capabilities, and no way to a second server is     *)
(* about to be closed.                                                     *)
Settled ==
    New = {} /\ \A x \in Seals[board] : Live(x[1]) => Holds(x[2])

Follow(program) == Safe /\ Placed(program) /\ Sound(board, program)

Claims(program) == Here(program).claims[Top.pc]

LEMMA SettledWhen ==
  ASSUME NEW program, Follow(program),
         \/ stack = <<>> \/ GivingUp \/ Top.pc > Len(Steps)
         \/ Cur.op \notin {"bind", "write", "grant"}
  PROVE  Settled
  <1>1. ASSUME stack # <<>>, ~GivingUp
        PROVE  /\ Len(Steps) \in Nat /\ DOMAIN Steps = 1 .. Len(Steps)
               /\ Top.pc \in Nat
    BY <1>1, AtHere DEF Follow, Safe
  <1>2. ASSUME NEW x, stack # <<>>, ~GivingUp
        PROVE  ~Closing(Steps, Top.pc, Self, x)
    BY <1>1, <1>2 DEF Closing, Closes, Cur
  <1>3. ~Running("grant")
    BY <1>1 DEF Running
  <1> QED
    BY <1>2, <1>3 DEF Follow, Safe, Settled, Granted, Locked

LEMMA SafeStep ==
  ASSUME Safe, New = {}, board' = board, stack' \in Seq(Frames), thr' = thr,
         pub' \in [Drivers -> Nat], made' \in [Drivers -> Nat],
         \A d \in Drivers : pub'[d] <= made'[d],
         gone' \subseteq UNION {{d} \X (1 .. made'[d]) : d \in Drivers},
         faults' \in 0 .. MaxFaults, blamed \subseteq blamed',
         blamed' \subseteq Drivers, facts' \cap Drivers = {},
         missed' \subseteq GoneOn(board), misused' \subseteq missed',
         \A d \in Drivers : pub'[d] # 0 => <<d, pub'[d]>> \notin gone',
         \A x \in Seals[board] : Live(x[1]) => Holds(x[2])'
  PROVE  Safe'
  <1>1. /\ Drivers' = Drivers /\ Frames' = Frames /\ Threads' = Threads
        /\ New' = New /\ GoneOn(board)' = GoneOn(board)
        /\ \A d : Live(d)' = Live(d)
    BY DEF Drivers, Frames, Threads, New, Live, GoneOn
  <1>2. TypeOK'
    BY <1>1 DEF Safe, TypeOK
  <1>3. Granted'
    BY <1>1 DEF Granted
  <1>4. Locked'
    BY <1>1 DEF Locked
  <1>5. Kept'
    BY <1>1 DEF Safe, Kept
  <1>6. OneServer'
    BY DEF Safe, OneServer
  <1> QED
    BY <1>2, <1>3, <1>4, <1>5, <1>6 DEF Safe

LEMMA SafeStack ==
  ASSUME Safe, Settled, stack' \in Seq(Frames),
         UNCHANGED <<board, kernel, facts, trouble>>
  PROVE  Safe'
  <1>1. \A x \in Seals[board] : Live(x[1]) => Holds(x[2])'
    BY DEF Settled, Holds, Drivers, kernel
  <1>2. /\ pub' = pub /\ made' = made /\ gone' = gone /\ thr' = thr
        /\ facts' = facts /\ faults' = faults /\ blamed' = blamed
        /\ missed' = missed /\ misused' = misused /\ board' = board
    BY DEF kernel, trouble
  <1> QED
    BY <1>1, <1>2, SafeStep DEF Safe, TypeOK, Kept, Settled

(* What is known before a step.                                            *)
LEMMA AtWork ==
  ASSUME NEW program, Follow(program), stack # <<>>, ~GivingUp,
         Top.pc <= Len(Steps)
  PROVE  /\ Top.pc \in 1 .. Len(Steps) /\ Top \in Frames
         /\ Self \in Drivers /\ Top.ep <= made[Self] /\ Top.ep \in Nat
         /\ Len(Steps) \in Nat /\ DOMAIN Steps = 1 .. Len(Steps)
         /\ DOMAIN Here(program).claims = 1 .. Len(Steps) + 1
         /\ Cur \in StepsOf(board) /\ SoundPlans(board)
         /\ Valid(Claims(program), Self, Top.ep)
         /\ Proper(board, Claims(program)) /\ DOMAIN Claims(program) = Fields
         /\ Looks(board, Here(program), Top.pc, Cur, Claims(program))
         /\ Makes(board, Here(program), Steps, Top.pc, Self, Cur, Claims(program))
         /\ Flags(Here(program), Top.pc, Self, Cur, Claims(program))
         /\ \A n \in Claims(program).open \cup Claims(program).quiet :
               n \in Devices[board] /\ n.drivers \subseteq Drivers
  <1>1. /\ Len(Steps) \in Nat /\ DOMAIN Steps = 1 .. Len(Steps)
        /\ Top.pc \in 1 .. Len(Steps) + 1 /\ Top \in Frames
        /\ Self \in Drivers /\ Top.ep <= made[Self]
        /\ Top.plan \in DOMAIN Plans[board] /\ Here(program).plan = Top.plan
        /\ DOMAIN Here(program).claims = 1 .. Len(Steps) + 1
        /\ Proper(board, Claims(program))
        /\ Valid(Claims(program), Self, Top.ep)
        /\ SoundAt(board, BookOf(program), PathOf(program))
    BY AtHere DEF Follow, Safe, Claims
  <1>2. Top.pc \in 1 .. Len(Steps) /\ Top.ep \in Nat
    BY <1>1 DEF Frames
  <1>3. Cur \in StepsOf(board)
    BY <1>1, <1>2 DEF StepsOf, Cur, Steps
  <1>4. SoundPlans(board)
    BY DEF Follow, Sound
  <1>5. /\ Looks(board, Here(program), Top.pc, Cur, Claims(program))
        /\ Makes(board, Here(program), Steps, Top.pc, Self, Cur, Claims(program))
        /\ Flags(Here(program), Top.pc, Self, Cur, Claims(program))
    <2>1. Here(program) = BookOf(program).at[PathOf(program)]
      BY DEF Here
    <2> QED
      BY <1>1, <1>2, <2>1 DEF SoundAt, Cur, Steps, Self, Claims
  <1>6. \A n \in Claims(program).open \cup Claims(program).quiet :
               n \in Devices[board] /\ n.drivers \subseteq Drivers
    BY <1>1, <1>4 DEF Proper, SoundPlans, DriversOf, Drivers
  <1> QED
    BY <1>1, <1>2, <1>3, <1>4, <1>5, <1>6 DEF Proper

(* Root goes on some steps further in the same function.                   *)
LEMMA Advances ==
  ASSUME NEW program, Follow(program), stack # <<>>, ~GivingUp,
         Top.pc <= Len(Steps), UNCHANGED <<board, todo, made>>,
         NEW n, Skip(n), NEW d, Skips(Here(program), Top.pc, n, d),
         NEW e, e = Self, NEW ep, ep = Top.ep, Valid(d, e, ep)'
  PROVE  /\ Placed(program)' /\ stack' \in Seq(Frames) /\ stack' # <<>>
         /\ ~GivingUp' /\ Steps' = Steps /\ Self' = Self
         /\ Top'.pc = Top.pc + 1 + n
  <1>1. /\ Top \in Frames /\ Top.ep <= made[Self] /\ Top.pc \in Nat
        /\ DOMAIN Here(program).claims = 1 .. Len(Steps) + 1
        /\ Len(Steps) \in Nat
    BY AtWork
  <1>2. PICK f, p : f = [Top EXCEPT !.pc = p] /\ p = Top.pc + 1 + n
    OBVIOUS
  <1>3. /\ p \in 1 .. Len(Steps) + 1
        /\ Weaker(Here(program).claims[p], d)
    BY <1>1, <1>2 DEF Skips
  <1>4. /\ f \in Frames /\ f.plan = Top.plan /\ f.due = Top.due
        /\ f.got = Top.got /\ f.ep = Top.ep /\ f.pc = p
    BY <1>1, <1>2, <1>3 DEF Frames
  <1>5. PICK y : y = Here(program).claims[p]
    OBVIOUS
  <1>6. Valid(y, e, ep)'
    BY <1>3, <1>5, WeakerValid
  <1>7. SetTop(f)
    BY <1>2 DEF Skip
  <1>8. /\ \A x \in Drivers : made[x] <= made'[x]
        /\ made' \in [Drivers -> Nat] /\ TypeOK
        /\ Placed(program) /\ Sound(board, program)
    BY DEF Follow, Safe, TypeOK
  <1>9. /\ f.ep <= made'[Self] /\ f.pc \in 1 .. Len(Steps) + 1
        /\ y = Here(program).claims[f.pc] /\ Valid(y, e, f.ep)'
    BY <1>1, <1>3, <1>4, <1>5, <1>6
  <1>10. /\ Placed(program)' /\ stack' # <<>> /\ ~GivingUp' /\ Top' = f
         /\ Steps' = Steps /\ Self' = Self /\ stack' \in Seq(Frames)
    BY <1>4, <1>7, <1>8, <1>9, Stays
  <1> QED
    BY <1>2, <1>4, <1>10

(* A condition that root finds to hold, or not to hold.                    *)
LEMMA Found ==
  ASSUME NEW program, Follow(program), stack # <<>>, ~GivingUp,
         Top.pc <= Len(Steps), NEW x, Holds(x),
         NEW c, c = Claims(program), NEW d, d = Learn(DriversOf(board), c, x)
  PROVE  /\ x \notin c.down \cup c.off /\ DOMAIN d = Fields
         /\ Valid(d, Self, Top.ep)
  <1>1. /\ Valid(c, Self, Top.ep) /\ Proper(board, c) /\ DOMAIN c = Fields
        /\ DriversOf(board) = Drivers
    BY AtWork DEF DriversOf, Drivers
  <1>2. Valid(d, Self, Top.ep)
    BY <1>1, LearnValid
  <1>3. x \notin c.down \cup c.off
    BY <1>1 DEF Valid, OfFacts, OfDrivers, Proper, Holds
  <1>4. DOMAIN d = Fields
    BY <1>1 DEF Learn
  <1> QED
    BY <1>2, <1>3, <1>4

LEMMA NotFound ==
  ASSUME NEW program, Follow(program), stack # <<>>, ~GivingUp,
         Top.pc <= Len(Steps), Settled, NEW x, ~Holds(x),
         NEW c, c = Claims(program),
         NEW d, d = Deny(DriversOf(board), Seals[board], c, x)
  PROVE  /\ x \notin c.up /\ DOMAIN d = Fields
         /\ Valid(d, Self, Top.ep)
  <1>1. /\ Valid(c, Self, Top.ep) /\ Proper(board, c) /\ DOMAIN c = Fields
        /\ DriversOf(board) = Drivers
        /\ \A n \in c.open : n.drivers \subseteq Drivers
    BY AtWork DEF DriversOf, Drivers
  <1>2. \A y \in Sealed(Seals[board], x) : ~Live(y)
    BY DEF Settled, Sealed
  <1>3. Valid(d, Self, Top.ep)
    BY <1>1, <1>2, DenyValid
  <1>4. x \notin c.up
    BY <1>1 DEF Valid, OfDrivers, Proper, Holds
  <1>5. DOMAIN d = Fields
    BY <1>1 DEF Deny
  <1> QED
    BY <1>3, <1>4, <1>5

(* Root returns from a function, with what is known at the step.           *)
LEMMA Exits ==
  ASSUME NEW program, Follow(program), stack # <<>>,
         UNCHANGED <<board, todo, made>>,
         NEW answer \in {"ok", "fail"}, Return(answer),
         NEW d, DOMAIN d = Fields, Returns(Here(program), d, answer),
         NEW e, NEW ep, Valid(d, e, ep)'
  PROVE  Placed(program)' /\ stack' \in Seq(Frames)
  <1>1. PICK c : c = Out(d)
    OBVIOUS
  <1>2. Valid(c, e, ep)'
    BY <1>1, OutValid
  <1>3. Weaker(IF answer = "ok" THEN Here(program).ok
               ELSE Here(program).any, c)
    BY <1>1 DEF Returns
  <1>4. Placed(program) /\ Sound(board, program) /\ TypeOK
    BY DEF Follow, Safe
  <1> QED
    BY <1>2, <1>3, <1>4, Leaves

(* Steps that change nothing but where root is.                            *)
LEMMA LooksOn ==
  ASSUME NEW program, Follow(program), stack # <<>>, ~GivingUp,
         Top.pc <= Len(Steps), UNCHANGED <<board, todo, kernel, facts, trouble>>,
         NEW n, Skip(n), NEW d, Skips(Here(program), Top.pc, n, d),
         Valid(d, Self, Top.ep)
  PROVE  Placed(program)' /\ stack' \in Seq(Frames)
  <1>1. PICK e, ep : e = Self /\ ep = Top.ep
    OBVIOUS
  <1>2. Valid(d, e, ep)'
    BY <1>1, StackValid
  <1>3. UNCHANGED <<board, todo, made>>
    BY DEF kernel
  <1> QED
    BY <1>1, <1>2, <1>3, Advances

LEMMA LooksOut ==
  ASSUME NEW program, Follow(program), stack # <<>>,
         UNCHANGED <<board, todo, kernel, facts, trouble>>,
         NEW answer \in {"ok", "fail"}, Return(answer),
         NEW d, DOMAIN d = Fields, Returns(Here(program), d, answer),
         Valid(d, Self, Top.ep)
  PROVE  Placed(program)' /\ stack' \in Seq(Frames)
  <1>1. PICK e, ep : e = Self /\ ep = Top.ep
    OBVIOUS
  <1>2. Valid(d, e, ep)'
    BY <1>1, StackValid
  <1>3. UNCHANGED <<board, todo, made>>
    BY DEF kernel
  <1> QED
    BY <1>2, <1>3, Exits

-----------------------------------------------------------------------------
(* The steps.                                                              *)

LEMMA BeginStep ==
  ASSUME NEW program, Follow(program), Begin
  PROVE  Safe' /\ Placed(program)'
  <1>1. Placed(program)' /\ stack' \in Seq(Frames)
    BY Begins DEF Follow, Safe
  <1>2. Settled
    BY SettledWhen DEF Begin
  <1> QED
    BY <1>1, <1>2, SafeStack DEF Begin, Follow

LEMMA CallStep ==
  ASSUME NEW program, Follow(program), Call
  PROVE  Safe' /\ Placed(program)'
  <1>1. Placed(program)' /\ stack' \in Seq(Frames)
    BY Descends DEF Follow, Safe
  <1>2. Settled
    BY SettledWhen DEF Call, Running
  <1> QED
    BY <1>1, <1>2, SafeStack DEF Call, Follow

LEMMA GiveUpStep ==
  ASSUME NEW program, Follow(program), GiveUp
  PROVE  Safe' /\ Placed(program)'
  <1>1. /\ Valid(Here(program).any, Self, Top.ep)
        /\ Placed(program) /\ Sound(board, program) /\ TypeOK
    BY AtHere DEF Follow, Safe, GiveUp
  <1>2. PICK c, e, ep : c = Here(program).any /\ e = Self /\ ep = Top.ep
    OBVIOUS
  <1>3. Valid(c, e, ep)'
    BY <1>1, <1>2, StackValid DEF GiveUp
  <1>4. Weaker(Here(program).any, c)
    BY <1>2 DEF Weaker
  <1>5. UNCHANGED <<board, todo, made>>
    BY DEF GiveUp, kernel
  <1>6. Placed(program)' /\ stack' \in Seq(Frames)
    BY <1>1, <1>3, <1>4, <1>5, Leaves DEF GiveUp
  <1>7. Settled
    BY SettledWhen DEF GiveUp
  <1> QED
    BY <1>6, <1>7, SafeStack DEF GiveUp, Follow

LEMMA EndStep ==
  ASSUME NEW program, Follow(program), End
  PROVE  Safe' /\ Placed(program)'
  <1>1. /\ Len(Steps) \in Nat /\ Top.pc \in 1 .. Len(Steps) + 1
        /\ \A j \in 1 .. Len(Steps) + 1 :
               Proper(board, Here(program).claims[j])
        /\ Valid(Here(program).claims[Top.pc], Self, Top.ep)
        /\ SoundAt(board, BookOf(program), PathOf(program))
        /\ Here(program).plan = Top.plan
    BY AtHere DEF Follow, Safe, End
  <1>2. Top.pc = Len(Steps) + 1
    BY <1>1 DEF End
  <1>3. PICK d : d = Here(program).claims[Top.pc]
    OBVIOUS
  <1>4. DOMAIN d = Fields /\ Valid(d, Self, Top.ep)
    BY <1>1, <1>3 DEF Proper
  <1>5. Returns(Here(program), d, "ok")
    <2>1. Here(program) = BookOf(program).at[PathOf(program)]
      BY DEF Here
    <2> QED
      BY <1>1, <1>2, <1>3, <2>1 DEF SoundAt, Steps
  <1>6. Placed(program)' /\ stack' \in Seq(Frames)
    BY <1>4, <1>5, LooksOut DEF End
  <1>7. Settled
    BY SettledWhen DEF End
  <1> QED
    BY <1>6, <1>7, SafeStack DEF End, Follow

LEMMA LeaveStep ==
  ASSUME NEW program, Follow(program), Leave
  PROVE  Safe' /\ Placed(program)'
  <1>1. /\ stack # <<>> /\ ~GivingUp /\ Top.pc <= Len(Steps)
        /\ Cur.op = "leave"
    BY DEF Leave, Running
  <1>2. Settled
    BY <1>1, SettledWhen
  <1>3. UNCHANGED <<board, todo, kernel, facts, trouble>>
    BY DEF Leave
  <1>4. PICK x, answer, c, a : /\ x = Cur.arg[1] /\ answer = Cur.arg[2]
                               /\ c = Claims(program) /\ a = Here(program)
    OBVIOUS
  <1>5. PICK yes, no : /\ yes = Learn(DriversOf(board), c, x)
                       /\ no = Deny(DriversOf(board), Seals[board], c, x)
    OBVIOUS
  <1>6. /\ x \notin c.down \cup c.off =>
             /\ answer # "fail" => Returns(a, yes, "ok")
             /\ answer # "ok" => Returns(a, yes, "fail")
        /\ x \notin c.up => Goes(a, Top.pc, no)
    BY <1>1, <1>4, <1>5, AtWork DEF Looks
  <1>7. Placed(program)' /\ stack' \in Seq(Frames)
    <2>1. CASE Holds(x)
      <3>1. /\ x \notin c.down \cup c.off /\ DOMAIN yes = Fields
            /\ Valid(yes, Self, Top.ep)
        BY <1>1, <1>4, <1>5, <2>1, Found
      <3>2. PICK said : said = Answer(answer)
        OBVIOUS
      <3>3. /\ said \in {"ok", "fail"}
            /\ said = "ok" => answer # "fail"
            /\ said = "fail" => answer # "ok"
        BY <3>2 DEF Answer
      <3>4. Return(said)
        BY <1>4, <2>1, <3>2 DEF Leave
      <3>5. Returns(Here(program), yes, said)
        BY <1>4, <1>6, <3>1, <3>3
      <3> QED
        BY <1>1, <1>3, <3>1, <3>3, <3>4, <3>5, LooksOut
    <2>2. CASE ~Holds(x)
      <3>1. /\ x \notin c.up /\ Valid(no, Self, Top.ep)
        BY <1>1, <1>2, <1>4, <1>5, <2>2, NotFound
      <3>2. Skip(0)
        BY <1>4, <2>2 DEF Leave, Advance
      <3>3. Skips(Here(program), Top.pc, 0, no)
        BY <1>4, <1>6, <3>1 DEF Goes
      <3> QED
        BY <1>1, <1>3, <3>1, <3>2, <3>3, LooksOn
    <2> QED
      BY <2>1, <2>2
  <1> QED
    BY <1>2, <1>3, <1>7, SafeStack DEF Follow

LEMMA BranchStep ==
  ASSUME NEW program, Follow(program), Branch
  PROVE  Safe' /\ Placed(program)'
  <1>1. /\ stack # <<>> /\ ~GivingUp /\ Top.pc <= Len(Steps)
        /\ Cur.op \in {"unless", "if ok", "require"}
    BY DEF Branch, Running
  <1>2. Settled
    BY <1>1, SettledWhen
  <1>3. UNCHANGED <<board, todo, kernel, facts, trouble>>
    BY DEF Branch
  <1>4. PICK arg, c, a :
          arg = Cur.arg /\ c = Claims(program) /\ a = Here(program)
    OBVIOUS
  <1>5. Looks(board, a, Top.pc, Cur, c) /\ Valid(c, Self, Top.ep)
    BY <1>1, <1>4, AtWork
  <1>6. Placed(program)' /\ stack' \in Seq(Frames)
    <2>1. CASE Cur.op = "unless"
      <3>1. PICK x, yes, no : /\ x = arg[1]
                              /\ yes = Learn(DriversOf(board), c, x)
                              /\ no = Deny(DriversOf(board), Seals[board], c, x)
        OBVIOUS
      <3>2. /\ x \notin c.down \cup c.off => Skips(a, Top.pc, arg[2], yes)
            /\ x \notin c.up => Skips(a, Top.pc, 0, no)
        BY <1>4, <1>5, <2>1, <3>1 DEF Looks, Goes
      <3>3. Skip(IF Holds(x) THEN arg[2] ELSE 0)
        BY <1>4, <2>1, <3>1 DEF Branch, Running
      <3>4. CASE Holds(x)
        <4>1. /\ x \notin c.down \cup c.off /\ Valid(yes, Self, Top.ep)
          BY <1>1, <1>4, <3>1, <3>4, Found
        <4>2. Skip(arg[2]) /\ Skips(Here(program), Top.pc, arg[2], yes)
          BY <1>4, <3>2, <3>3, <3>4, <4>1
        <4> QED
          BY <1>1, <1>3, <4>1, <4>2, LooksOn
      <3>5. CASE ~Holds(x)
        <4>1. /\ x \notin c.up /\ Valid(no, Self, Top.ep)
          BY <1>1, <1>2, <1>4, <3>1, <3>5, NotFound
        <4>2. Skip(0) /\ Skips(Here(program), Top.pc, 0, no)
          BY <1>4, <3>2, <3>3, <3>5, <4>1
        <4> QED
          BY <1>1, <1>3, <4>1, <4>2, LooksOn
      <3> QED
        BY <3>4, <3>5
    <2>2. CASE Cur.op = "if ok"
      <3>1. Skips(a, Top.pc, 0, c) /\ Skips(a, Top.pc, arg, c)
        BY <1>4, <1>5, <2>2 DEF Looks, Goes
      <3>2. PICK n : n = IF Top.got = "ok" THEN 0 ELSE arg
        OBVIOUS
      <3>3. Skip(n)
        BY <1>4, <2>2, <3>2 DEF Branch, Running
      <3>4. Skips(Here(program), Top.pc, n, c)
        BY <1>4, <3>1, <3>2
      <3> QED
        BY <1>1, <1>3, <1>5, <3>3, <3>4, LooksOn
    <2>3. CASE Cur.op = "require"
      <3>1. PICK yes, no : /\ yes = Learn(DriversOf(board), c, arg)
                           /\ no = Deny(DriversOf(board), Seals[board], c, arg)
        OBVIOUS
      <3>2. /\ arg \notin c.down \cup c.off => Skips(a, Top.pc, 0, yes)
            /\ arg \notin c.up => Returns(a, no, "fail")
        BY <1>4, <1>5, <2>3, <3>1 DEF Looks, Goes
      <3>3. IF Holds(arg) THEN Skip(0) ELSE Return("fail")
        BY <1>4, <2>3 DEF Branch, Running, Advance
      <3>4. CASE Holds(arg)
        <4>1. /\ arg \notin c.down \cup c.off /\ Valid(yes, Self, Top.ep)
          BY <1>1, <1>4, <3>1, <3>4, Found
        <4>2. Skip(0) /\ Skips(Here(program), Top.pc, 0, yes)
          BY <1>4, <3>2, <3>3, <3>4, <4>1
        <4> QED
          BY <1>1, <1>3, <4>1, <4>2, LooksOn
      <3>5. CASE ~Holds(arg)
        <4>1. /\ arg \notin c.up /\ Valid(no, Self, Top.ep) /\ DOMAIN no = Fields
          BY <1>1, <1>2, <1>4, <3>1, <3>5, NotFound
        <4>2. Return("fail") /\ Returns(Here(program), no, "fail")
          BY <1>4, <3>2, <3>3, <3>5, <4>1
        <4> QED
          BY <1>1, <1>3, <4>1, <4>2, LooksOut
      <3> QED
        BY <3>4, <3>5
    <2> QED
      BY <1>1, <2>1, <2>2, <2>3
  <1> QED
    BY <1>2, <1>3, <1>6, SafeStack DEF Follow

LEMMA TryStep ==
  ASSUME NEW program, Follow(program), Try
  PROVE  Safe' /\ Placed(program)'
  <1>1. /\ stack # <<>> /\ ~GivingUp /\ Top.pc <= Len(Steps)
        /\ Cur.op = "try"
    BY DEF Try, Running
  <1>2. Settled
    BY <1>1, SettledWhen
  <1>3. UNCHANGED <<board, todo, kernel, facts, trouble>> /\ Skip(0)
    BY DEF Try, Advance
  <1>4. PICK c : c = Claims(program)
    OBVIOUS
  <1>5. Skips(Here(program), Top.pc, 0, c) /\ Valid(c, Self, Top.ep)
    BY <1>1, <1>4, AtWork DEF Makes, Goes
  <1>6. Placed(program)' /\ stack' \in Seq(Frames)
    BY <1>1, <1>3, <1>5, LooksOn
  <1> QED
    BY <1>2, <1>3, <1>6, SafeStack DEF Follow

LEMMA AskStep ==
  ASSUME NEW program, Follow(program), Ask
  PROVE  Safe' /\ Placed(program)'
  <1>1. /\ stack # <<>> /\ ~GivingUp /\ Top.pc <= Len(Steps)
        /\ Cur.op \in {"ask", "probe"}
    BY DEF Ask, Running
  <1>2. Settled
    BY <1>1, SettledWhen
  <1>3. UNCHANGED <<board, todo, kernel, facts, trouble>>
    BY DEF Ask
  <1>4. PICK x, c, no : /\ x = Cur.arg /\ c = Claims(program)
                        /\ no = Deny(DriversOf(board), Seals[board], c, x)
    OBVIOUS
  <1>5. /\ x \in DriversOf(board) /\ Skips(Here(program), Top.pc, 0, c)
        /\ Cur.op = "ask" /\ x \notin c.up => Returns(Here(program), no, "fail")
        /\ Valid(c, Self, Top.ep)
    BY <1>1, <1>4, AtWork DEF Looks, Goes
  <1>6. /\ Skip(0) \/ (Cur.op = "ask" /\ Return("fail") /\ pub[x] = 0)
    BY <1>1, <1>4 DEF Ask, Advance
  <1>7. CASE Skip(0)
    BY <1>1, <1>2, <1>3, <1>5, <1>7, LooksOn, SafeStack DEF Follow
  <1>8. CASE Cur.op = "ask" /\ Return("fail") /\ pub[x] = 0
    <2>1. ~Holds(x)
      BY <1>5, <1>8 DEF Holds, DriversOf, Drivers
    <2>2. /\ x \notin c.up /\ Valid(no, Self, Top.ep) /\ DOMAIN no = Fields
      BY <1>1, <1>2, <1>4, <2>1, NotFound
    <2>3. Returns(Here(program), no, "fail")
      BY <1>5, <1>8, <2>2
    <2>4. Placed(program)' /\ stack' \in Seq(Frames)
      BY <1>1, <1>3, <1>8, <2>2, <2>3, LooksOut
    <2> QED
      BY <1>2, <1>3, <2>4, SafeStack DEF Follow
  <1> QED
    BY <1>6, <1>7, <1>8

-----------------------------------------------------------------------------
(* Steps on endpoints and handles.                                         *)

LEMMA MoreMade ==
  ASSUME TypeOK, NEW e \in Drivers, NEW n, n = made[e] + 1,
         made' = [made EXCEPT ![e] = n]
  PROVE  /\ made' \in [Drivers -> Nat] /\ made'[e] = n
         /\ \A d \in Drivers : made[d] <= made'[d]
         /\ n \in Nat /\ n # 0 /\ <<e, n>> \notin gone
         /\ gone \subseteq UNION {{d} \X (1 .. made'[d]) : d \in Drivers}
  <1>1. /\ made \in [Drivers -> Nat] /\ n \in Nat /\ n # 0
        /\ gone \subseteq UNION {{d} \X (1 .. made[d]) : d \in Drivers}
    BY DEF TypeOK
  <1>2. /\ made' \in [Drivers -> Nat] /\ made'[e] = n
        /\ \A d \in Drivers : made[d] <= made'[d]
    BY <1>1
  <1>3. <<e, n>> \notin gone
    BY <1>1
  <1>4. \A d \in Drivers : 1 .. made[d] \subseteq 1 .. made'[d]
    BY <1>1, <1>2
  <1>5. gone \subseteq UNION {{d} \X (1 .. made'[d]) : d \in Drivers}
    BY <1>1, <1>4
  <1> QED
    BY <1>1, <1>2, <1>3, <1>5

(* A handle may become invalid only if it keeps no second server away.     *)
LEMMA StillLocked ==
  ASSUME NEW e \in Drivers, NEW v, pub \in [Drivers -> Nat],
         pub' = [pub EXCEPT ![e] = v], facts' = facts, board' = board,
         \A x \in Seals[board] : Live(x[1]) /\ x[2] # e => Holds(x[2]),
         v # 0 \/ \A x \in Seals[board] : x[2] = e => ~Live(x[1])
  PROVE  \A x \in Seals[board] : Live(x[1]) => Holds(x[2])'
  <1>1. Drivers' = Drivers
    BY DEF Drivers
  <1>2. \A d \in Drivers : pub'[d] = IF d = e THEN v ELSE pub[d]
    OBVIOUS
  <1> QED
    BY <1>1, <1>2 DEF Holds

LEMMA NoneNew ==
  ASSUME NEW program, Follow(program), ~Running("grant")
  PROVE  New = {}
  BY DEF Follow, Safe, Granted

LEMMA Lonely ==
  ASSUME NEW c, NEW e, NEW ep, Valid(c, e, ep), NEW h,
         Sealed(Seals[board], h) \subseteq c.alone
  PROVE  \A x \in Seals[board] : x[2] = h => ~Live(x[1])
  BY DEF Valid, OfDrivers, Sealed

LEMMA CreateEpStep ==
  ASSUME NEW program, Follow(program), CreateEp
  PROVE  Safe' /\ Placed(program)'
  <1>1. /\ stack # <<>> /\ ~GivingUp /\ Top.pc <= Len(Steps)
        /\ Cur.op \in {"new ep", "new bound ep"}
    BY DEF CreateEp, Running
  <1>2. Settled /\ Safe /\ Placed(program) /\ Sound(board, program) /\ TypeOK
    BY <1>1, SettledWhen DEF Follow, Safe
  <1>3. PICK e, ep, c, a, n : /\ e = Self /\ ep = Top.ep /\ c = Claims(program)
                              /\ a = Here(program) /\ n = made[e] + 1
    OBVIOUS
  <1>4. /\ Top.pc \in 1 .. Len(Steps) /\ Top \in Frames
        /\ e \in Drivers /\ Len(Steps) \in Nat
        /\ Valid(c, e, ep) /\ Proper(board, c) /\ DOMAIN c = Fields
        /\ Makes(board, a, Steps, Top.pc, e, Cur, c)
        /\ DOMAIN a.claims = 1 .. Len(Steps) + 1
    BY <1>1, <1>3, AtWork
  <1>5. /\ made' = [made EXCEPT ![e] = @ + 1]
        /\ made' = [made EXCEPT ![e] = n]
        /\ UNCHANGED <<board, todo, gone, thr, facts, trouble>>
    BY <1>3 DEF CreateEp
  <1>6. /\ made' \in [Drivers -> Nat] /\ made'[e] = n
        /\ \A d \in Drivers : made[d] <= made'[d]
        /\ n \in Nat /\ n # 0 /\ <<e, n>> \notin gone
        /\ gone \subseteq UNION {{d} \X (1 .. made'[d]) : d \in Drivers}
    BY <1>2, <1>3, <1>4, <1>5, MoreMade
  <1>7. /\ pub \in [Drivers -> Nat] /\ made \in [Drivers -> Nat]
        /\ \A d \in Drivers : pub[d] <= made[d]
    BY <1>2 DEF TypeOK
  <1>8. PICK f, p : f = [Top EXCEPT !.pc = p, !.ep = n] /\ p = Top.pc + 1
    OBVIOUS
  <1>9. PICK d : d = IF Cur.op = "new ep" THEN NewEpMade(c, e)
                      ELSE BoundEpMade(c, e)
    OBVIOUS
  <1>10. /\ SetTop(f) /\ Goes(a, Top.pc, d)
    BY <1>1, <1>3, <1>4, <1>8, <1>9 DEF CreateEp, Makes
  <1>11. /\ p \in 1 .. Len(Steps) + 1 /\ Weaker(a.claims[p], d)
    <2>1. Top.pc \in Nat /\ p = Top.pc + 1
      BY <1>4, <1>8
    <2>2. p = Top.pc + 1 + 0
      BY <2>1
    <2> QED
      BY <1>4, <1>10, <2>1, <2>2 DEF Goes, Skips
  <1>12. /\ f \in Frames /\ f.plan = Top.plan /\ f.due = Top.due
         /\ f.got = Top.got /\ f.ep = n /\ f.pc = p
    <2>1. p \in Nat \ {0} /\ n \in Nat
      BY <1>4, <1>6, <1>11
    <2> QED
      BY <1>4, <1>8, <2>1 DEF Frames
  <1>13. Valid(d, e, n)'
    <2>1. CASE Cur.op = "new ep"
      <3>1. d = NewEpMade(c, e) /\ c.tidy \subseteq Drivers
        BY <1>4, <1>9, <2>1 DEF Proper, DriversOf, Drivers
      <3>2. UNCHANGED <<pub, gone, thr, facts, trouble>>
        BY <1>5, <2>1 DEF CreateEp
      <3> QED
        BY <1>3, <1>4, <1>5, <1>6, <1>7, <3>1, <3>2, NewEpValid
    <2>2. CASE Cur.op = "new bound ep"
      <3>1. d = BoundEpMade(c, e)
        BY <1>9, <2>2
      <3>2. pub' = [pub EXCEPT ![e] = n]
        BY <1>3, <2>2 DEF CreateEp
      <3> QED
        BY <1>3, <1>4, <1>5, <1>6, <1>7, <3>1, <3>2, BoundEpValid
    <2> QED
      BY <1>1, <2>1, <2>2
  <1>14. PICK y : y = a.claims[p]
    OBVIOUS
  <1>15. Valid(y, e, n)'
    BY <1>11, <1>13, <1>14, WeakerValid
  <1>16. Placed(program)' /\ stack' \in Seq(Frames)
    <2>1. /\ y = Here(program).claims[f.pc] /\ Valid(y, e, f.ep)' /\ e = Self
          /\ f.ep <= made'[Self] /\ f.pc \in 1 .. Len(Steps) + 1
      BY <1>3, <1>6, <1>11, <1>12, <1>14, <1>15
    <2> QED
      BY <1>1, <1>2, <1>5, <1>6, <1>10, <1>12, <2>1, Stays
  <1>17. \/ pub' = pub
         \/ pub' = [pub EXCEPT ![e] = n]
    BY <1>3 DEF CreateEp
  <1>18. /\ pub' \in [Drivers -> Nat] /\ \A x \in Drivers : pub'[x] <= made'[x]
         /\ \A x \in Drivers : pub'[x] # 0 => <<x, pub'[x]>> \notin gone
    <2>1. \A x \in Drivers : pub[x] # 0 => <<x, pub[x]>> \notin gone
      BY <1>2 DEF Safe, Kept
    <2>2. pub' \in [Drivers -> Nat]
      BY <1>4, <1>6, <1>7, <1>17
    <2>3. \A x \in Drivers : pub'[x] = pub[x] \/ (x = e /\ pub'[x] = n)
      BY <1>4, <1>6, <1>7, <1>17
    <2> QED
      BY <1>6, <1>7, <2>1, <2>2, <2>3
  <1>19. \A x \in Seals[board] : Live(x[1]) => Holds(x[2])'
    <2>1. \A x \in Seals[board] : Live(x[1]) => Holds(x[2])
      BY <1>2 DEF Settled
    <2>2. CASE pub' = pub
      BY <1>5, <2>1, <2>2 DEF Holds, Drivers
    <2>3. CASE pub' = [pub EXCEPT ![e] = n]
      BY <1>4, <1>5, <1>6, <1>7, <2>1, <2>3, StillLocked
    <2> QED
      BY <1>17, <2>2, <2>3
  <1>20. Safe'
    BY <1>2, <1>5, <1>6, <1>16, <1>18, <1>19, SafeStep
       DEF Safe, TypeOK, Kept, Settled, trouble
  <1> QED
    BY <1>16, <1>20

LEMMA CreateEpFailsStep ==
  ASSUME NEW program, Follow(program), CreateEpFails
  PROVE  Safe' /\ Placed(program)'
  <1>1. /\ stack # <<>> /\ ~GivingUp /\ Top.pc <= Len(Steps)
        /\ Cur.op \in {"new ep", "new bound ep"}
    BY DEF CreateEpFails, Running
  <1>2. Settled /\ Safe /\ TypeOK
    BY <1>1, SettledWhen DEF Follow, Safe
  <1>3. PICK e, ep, c, a : /\ e = Self /\ ep = Top.ep /\ c = Claims(program)
                           /\ a = Here(program)
    OBVIOUS
  <1>4. /\ e \in Drivers /\ Valid(c, e, ep) /\ Proper(board, c)
        /\ DOMAIN c = Fields /\ Makes(board, a, Steps, Top.pc, e, Cur, c)
    BY <1>1, <1>3, AtWork
  <1>5. /\ UNCHANGED <<board, todo, made, gone, thr, facts, missed, misused>>
        /\ blamed' = blamed \cup {e} /\ faults < MaxFaults
        /\ faults' = faults + 1 /\ Return("fail")
    BY <1>3 DEF CreateEpFails, Fault
  <1>6. /\ pub \in [Drivers -> Nat] /\ blamed \subseteq blamed' /\ e \in blamed'
        /\ blamed' \subseteq Drivers /\ faults' \in 0 .. MaxFaults
    BY <1>2, <1>4, <1>5, MaxFaultsAssumption DEF TypeOK
  <1>7. CASE Cur.op = "new ep"
    <2>1. pub' = pub
      BY <1>7 DEF CreateEpFails
    <2>2. Valid(c, e, ep)'
      <3>1. /\ \A d, n : Own(d, n)' = Own(d, n)
            /\ \A d : ByHandle(d)' = ByHandle(d) /\ Stopped(d)' = Stopped(d)
            /\ \A d : Live(d)' = Live(d)
        BY <1>5 DEF Own, ByHandle, Stopped, Live
      <3> QED
        BY <1>4, <1>5, <1>6, <2>1, <3>1, SameValid
    <2>3. PICK d : d = Blame(c, e)
      OBVIOUS
    <2>4. Valid(d, e, ep)' /\ DOMAIN d = Fields
      BY <1>4, <1>6, <2>2, <2>3, BlameValid DEF Blame, Out
    <2>5. Returns(Here(program), d, "fail")
      BY <1>3, <1>4, <1>7, <2>3 DEF Makes
    <2>6. Placed(program)' /\ stack' \in Seq(Frames)
      BY <1>1, <1>5, <2>4, <2>5, Exits
    <2>7. \A x \in Seals[board] : Live(x[1]) => Holds(x[2])'
      BY <1>2, <1>5, <2>1 DEF Settled, Holds, Drivers
    <2> QED
      BY <1>2, <1>5, <1>6, <2>1, <2>6, <2>7, SafeStep
         DEF Safe, TypeOK, Kept, Settled
  <1>8. CASE Cur.op = "new bound ep"
    <2>1. pub' = [pub EXCEPT ![e] = 0]
      BY <1>3, <1>8 DEF CreateEpFails
    <2>2. PICK r, o : r = Reset(c, e) /\ o = c.open
      OBVIOUS
    <2>3. r = [r EXCEPT !.open = o] /\ DOMAIN r = Fields
      BY <1>4, <2>2 DEF Reset, Fields
    <2>4. \A n \in o : e \in n.drivers => n \in c.quiet \/ e \in blamed'
      BY <1>6
    <2>5. o \in SUBSET c.open
      BY <2>2
    <2>6. Valid(r, e, ep)'
      BY <1>4, <1>5, <1>6, <2>1, <2>2, <2>3, <2>4, <2>5, ResetValid
    <2>7. PICK lost : lost = Blame(r, e)
      OBVIOUS
    <2>8. Valid(lost, e, ep)' /\ DOMAIN lost = Fields
      BY <1>6, <2>3, <2>6, <2>7, BlameValid DEF Blame, Out
    <2>9. /\ Returns(Here(program), lost, "fail")
          /\ Sealed(Seals[board], e) \subseteq c.alone
      BY <1>3, <1>4, <1>8, <2>2, <2>7 DEF Makes
    <2>10. Placed(program)' /\ stack' \in Seq(Frames)
      BY <1>1, <1>5, <2>8, <2>9, Exits
    <2>11. \A x \in Seals[board] : x[2] = e => ~Live(x[1])
      BY <1>4, <2>9, Lonely
    <2>12. \A x \in Seals[board] : Live(x[1]) => Holds(x[2])'
      <3>1. \A x \in Seals[board] : Live(x[1]) => Holds(x[2])
        BY <1>2 DEF Settled
      <3> QED
        BY <1>4, <1>5, <1>6, <2>1, <2>11, <3>1, StillLocked
    <2>13. /\ pub' \in [Drivers -> Nat]
           /\ \A d \in Drivers : pub'[d] = IF d = e THEN 0 ELSE pub[d]
      BY <1>6, <2>1
    <2>14. /\ \A d \in Drivers : pub'[d] <= made'[d]
           /\ \A d \in Drivers : pub'[d] # 0 => <<d, pub'[d]>> \notin gone'
      <3>1. /\ \A d \in Drivers : pub[d] <= made[d] /\ made[d] \in Nat
            /\ \A d \in Drivers : pub[d] # 0 => <<d, pub[d]>> \notin gone
        BY <1>2 DEF Safe, TypeOK, Kept
      <3> QED
        BY <1>5, <2>13, <3>1
    <2>15. UNCHANGED <<board, thr, made, gone, facts, missed, misused>>
      BY <1>5
    <2>16. /\ made \in [Drivers -> Nat] /\ facts \cap Drivers = {}
           /\ gone \subseteq UNION {{d} \X (1 .. made[d]) : d \in Drivers}
      BY <1>2 DEF TypeOK
    <2>17. misused \subseteq missed /\ missed \subseteq GoneOn(board)
      BY <1>2 DEF Safe, Kept
    <2> QED
      <3>1. gone' \subseteq UNION {{d} \X (1 .. made'[d]) : d \in Drivers}
        BY <2>15, <2>16
      <3>2. /\ board' = board /\ thr' = thr /\ made' \in [Drivers -> Nat]
            /\ facts' \cap Drivers = {} /\ missed' \subseteq GoneOn(board)
            /\ misused' \subseteq missed'
        BY <2>15, <2>16, <2>17
      <3> QED
        BY <1>2, <1>6, <2>10, <2>12, <2>13, <2>14, <3>1, <3>2, SafeStep
           DEF Settled
  <1> QED
    BY <1>1, <1>7, <1>8

LEMMA BindStep ==
  ASSUME NEW program, Follow(program), SetHandle, Running("bind")
  PROVE  Safe' /\ Placed(program)'
  <1>1. /\ stack # <<>> /\ ~GivingUp /\ Top.pc <= Len(Steps) /\ Cur.op = "bind"
    BY DEF Running
  <1>2. New = {} /\ Safe /\ TypeOK
    BY <1>1, NoneNew DEF Follow, Safe, Running
  <1>3. PICK e, ep, c, a : /\ e = Self /\ ep = Top.ep /\ c = Claims(program)
                           /\ a = Here(program)
    OBVIOUS
  <1>4. /\ e \in Drivers /\ Valid(c, e, ep) /\ Proper(board, c)
        /\ DOMAIN c = Fields /\ Makes(board, a, Steps, Top.pc, e, Cur, c)
        /\ ep <= made[e] /\ ep \in Nat /\ Top.pc \in 1 .. Len(Steps)
        /\ Len(Steps) \in Nat
    BY <1>1, <1>3, AtWork
  <1>5. /\ UNCHANGED <<board, todo, made, gone, thr, facts, trouble>>
        /\ pub' = [pub EXCEPT ![e] = ep] /\ Skip(0)
    BY <1>1, <1>3 DEF SetHandle, Running, Advance
  <1>6. pub \in [Drivers -> Nat]
    BY <1>2 DEF TypeOK
  <1>7. PICK d : d = HandleSet(c, e)
    OBVIOUS
  <1>8. "made" \in c.frame /\ Skips(Here(program), Top.pc, 0, d)
    BY <1>1, <1>3, <1>4, <1>7 DEF Makes, Goes
  <1>9. Valid(d, e, ep)'
    BY <1>4, <1>5, <1>6, <1>7, <1>8, HandleSetValid
  <1>10. Placed(program)' /\ stack' \in Seq(Frames)
    BY <1>1, <1>3, <1>5, <1>8, <1>9, Advances
  <1>11. ep # 0 /\ <<e, ep>> \notin gone
    BY <1>4, <1>8 DEF Valid, OfFrame
  <1>12. /\ pub' \in [Drivers -> Nat]
         /\ \A x \in Drivers : pub'[x] = IF x = e THEN ep ELSE pub[x]
    BY <1>4, <1>5, <1>6
  <1>13. /\ \A x \in Drivers : pub'[x] <= made'[x]
         /\ \A x \in Drivers : pub'[x] # 0 => <<x, pub'[x]>> \notin gone'
    BY <1>2, <1>4, <1>5, <1>11, <1>12 DEF Safe, TypeOK, Kept
  <1>14. \A x \in Seals[board] : Live(x[1]) => Holds(x[2])'
    <2>1. ASSUME NEW x, Closing(Steps, Top.pc, e, x)
          PROVE  x = e
      BY <1>1, <1>4, <2>1 DEF Closing, Closes, Cur
    <2>2. \A x \in Seals[board] : Live(x[1]) /\ x[2] # e => Holds(x[2])
      BY <1>2, <1>3, <1>11, <2>1 DEF Safe, Locked
    <2>3. /\ ep # 0 /\ facts' = facts /\ board' = board /\ e \in Drivers
          /\ pub' = [pub EXCEPT ![e] = ep] /\ pub \in [Drivers -> Nat]
      BY <1>4, <1>5, <1>6, <1>11
    <2> QED
      BY <2>2, <2>3, StillLocked
  <1>15. Safe'
    BY <1>2, <1>5, <1>10, <1>12, <1>13, <1>14, SafeStep
       DEF Safe, TypeOK, Kept, trouble
  <1> QED
    BY <1>10, <1>15

LEMMA UnbindStep ==
  ASSUME NEW program, Follow(program), SetHandle, Running("unbind")
  PROVE  Safe' /\ Placed(program)'
  <1>1. /\ stack # <<>> /\ ~GivingUp /\ Top.pc <= Len(Steps) /\ Cur.op = "unbind"
    BY DEF Running
  <1>2. Settled /\ Safe /\ TypeOK
    BY <1>1, SettledWhen DEF Follow, Safe
  <1>3. PICK e, ep, c, a : /\ e = Self /\ ep = Top.ep /\ c = Claims(program)
                           /\ a = Here(program)
    OBVIOUS
  <1>4. /\ e \in Drivers /\ Valid(c, e, ep) /\ Proper(board, c)
        /\ DOMAIN c = Fields /\ Makes(board, a, Steps, Top.pc, e, Cur, c)
    BY <1>1, <1>3, AtWork
  <1>5. /\ UNCHANGED <<board, todo, made, gone, thr, facts, trouble>>
        /\ pub' = [pub EXCEPT ![e] = 0] /\ Skip(0)
    BY <1>1, <1>3 DEF SetHandle, Running, Advance
  <1>6. pub \in [Drivers -> Nat] /\ blamed \subseteq blamed' /\ missed' = missed
    BY <1>2, <1>5 DEF TypeOK, trouble
  <1>7. PICK r, o : r = Reset(c, e)
                    /\ o = {n \in c.open : e \in n.drivers => n \in c.quiet}
    OBVIOUS
  <1>8. PICK d : d = [r EXCEPT !.open = o]
    OBVIOUS
  <1>9. d = Unset(c, e)
    <2>1. r.open = c.open
      BY <1>4, <1>7 DEF Reset, Fields
    <2> QED
      BY <1>7, <1>8, <2>1 DEF Unset
  <1>10. /\ Sealed(Seals[board], e) \subseteq c.alone
         /\ Skips(Here(program), Top.pc, 0, d)
    BY <1>1, <1>3, <1>4, <1>9 DEF Makes, Goes
  <1>11. Valid(d, e, ep)'
    <2>1. /\ \A n \in o : e \in n.drivers => n \in c.quiet \/ e \in blamed'
          /\ o \in SUBSET c.open
      BY <1>7
    <2> QED
      BY <1>4, <1>5, <1>6, <1>7, <1>8, <2>1, ResetValid
  <1>12. Placed(program)' /\ stack' \in Seq(Frames)
    BY <1>1, <1>3, <1>5, <1>10, <1>11, Advances
  <1>13. /\ pub' \in [Drivers -> Nat]
         /\ \A x \in Drivers : pub'[x] = IF x = e THEN 0 ELSE pub[x]
    BY <1>4, <1>5, <1>6
  <1>14. /\ \A x \in Drivers : pub'[x] <= made'[x]
         /\ \A x \in Drivers : pub'[x] # 0 => <<x, pub'[x]>> \notin gone'
    BY <1>2, <1>5, <1>13 DEF Safe, TypeOK, Kept
  <1>15. \A x \in Seals[board] : x[2] = e => ~Live(x[1])
    BY <1>4, <1>10, Lonely
  <1>16. \A x \in Seals[board] : Live(x[1]) => Holds(x[2])'
    <2>1. \A x \in Seals[board] : Live(x[1]) => Holds(x[2])
      BY <1>2 DEF Settled
    <2> QED
      BY <1>4, <1>5, <1>6, <1>15, <2>1, StillLocked
  <1>17. Safe'
    BY <1>2, <1>5, <1>12, <1>13, <1>14, <1>16, SafeStep
       DEF Safe, TypeOK, Kept, Settled, trouble
  <1> QED
    BY <1>12, <1>17

LEMMA SetHandleStep ==
  ASSUME NEW program, Follow(program), SetHandle
  PROVE  Safe' /\ Placed(program)'
  BY BindStep, UnbindStep DEF SetHandle

LEMMA TryFailsStep ==
  ASSUME NEW program, Follow(program), TryFails
  PROVE  Safe' /\ Placed(program)'
  <1>1. /\ stack # <<>> /\ ~GivingUp /\ Top.pc <= Len(Steps)
        /\ Cur.op \in {"try", "thread"}
    BY DEF TryFails, Running
  <1>2. Settled /\ Safe /\ TypeOK
    BY <1>1, SettledWhen DEF Follow, Safe
  <1>3. PICK e, ep, c, a : /\ e = Self /\ ep = Top.ep /\ c = Claims(program)
                           /\ a = Here(program)
    OBVIOUS
  <1>4. PICK undo : undo = Cur.undo
    OBVIOUS
  <1>5. /\ e \in Drivers /\ Valid(c, e, ep) /\ Proper(board, c)
        /\ DOMAIN c = Fields /\ Makes(board, a, Steps, Top.pc, e, Cur, c)
        /\ ep <= made[e] /\ ep \in Nat
    BY <1>1, <1>3, AtWork
  <1>6. /\ UNCHANGED <<board, todo, made, thr, facts, missed, misused>>
        /\ blamed' = blamed \cup {e} /\ faults < MaxFaults
        /\ faults' = faults + 1 /\ Return("fail")
    BY <1>3 DEF TryFails, Fault, Fail
  <1>7. /\ gone' = gone \cup {x \in {<<e, ep>>} : "ep" \in undo}
        /\ pub' = IF "handle" \in undo THEN [pub EXCEPT ![e] = 0] ELSE pub
    BY <1>3, <1>4 DEF TryFails, Fail
  <1>8. /\ pub \in [Drivers -> Nat] /\ made \in [Drivers -> Nat]
        /\ blamed \subseteq blamed'
        /\ blamed' \subseteq Drivers /\ faults' \in 0 .. MaxFaults
    BY <1>2, <1>5, <1>6, MaxFaultsAssumption DEF TypeOK
  <1>9. PICK d : d = Released(c, e, undo)
    OBVIOUS
  <1>10. /\ "ep" \in undo => "made" \in c.frame
         /\ "ep" \in undo => "handle" \in undo \/ e \in c.down
         /\ "handle" \in undo => Sealed(Seals[board], e) \subseteq c.alone
         /\ Returns(Here(program), d, "fail")
    BY <1>1, <1>3, <1>4, <1>5, <1>9 DEF Makes, Undoes
  <1>11. Valid(d, e, ep)' /\ DOMAIN d = Fields
    <2>1. Valid(d, e, ep)'
      BY <1>5, <1>6, <1>7, <1>8, <1>9, <1>10, ReleasedValid
    <2>2. DOMAIN d = Fields
      BY <1>5, <1>9 DEF Released, Blame, Out, Reset, Fields
    <2> QED
      BY <2>1, <2>2
  <1>12. Placed(program)' /\ stack' \in Seq(Frames)
    BY <1>1, <1>6, <1>10, <1>11, Exits
  <1>13. "ep" \in undo => ep \in 1 .. made[e] /\ pub'[e] # ep
    BY <1>5, <1>7, <1>8, <1>10 DEF Valid, OfFrame, OfDrivers
  <1>14. gone' \subseteq UNION {{x} \X (1 .. made'[x]) : x \in Drivers}
    <2>1. gone \subseteq UNION {{x} \X (1 .. made[x]) : x \in Drivers}
      BY <1>2 DEF TypeOK
    <2>2. "ep" \in undo =>
             <<e, ep>> \in UNION {{x} \X (1 .. made[x]) : x \in Drivers}
      BY <1>5, <1>13
    <2> QED
      BY <1>6, <1>7, <2>1, <2>2
  <1>15. /\ pub' \in [Drivers -> Nat]
         /\ \A x \in Drivers : pub'[x] = pub[x] \/ (x = e /\ pub'[x] = 0)
    BY <1>5, <1>7, <1>8
  <1>16. /\ \A x \in Drivers : pub'[x] <= made'[x]
         /\ \A x \in Drivers : pub'[x] # 0 => <<x, pub'[x]>> \notin gone'
    <2>1. /\ \A x \in Drivers : pub[x] <= made[x] /\ made[x] \in Nat
          /\ \A x \in Drivers : pub[x] # 0 => <<x, pub[x]>> \notin gone
      BY <1>2 DEF Safe, TypeOK, Kept
    <2> QED
      BY <1>6, <1>7, <1>13, <1>15, <2>1
  <1>17. \A x \in Seals[board] : Live(x[1]) => Holds(x[2])'
    <2>1. \A x \in Seals[board] : Live(x[1]) => Holds(x[2])
      BY <1>2 DEF Settled
    <2>2. CASE "handle" \in undo
      <3>1. \A x \in Seals[board] : x[2] = e => ~Live(x[1])
        BY <1>5, <1>10, <2>2, Lonely
      <3>2. pub' = [pub EXCEPT ![e] = 0]
        BY <1>7, <2>2
      <3> QED
        BY <1>5, <1>6, <1>8, <2>1, <3>1, <3>2, StillLocked
    <2>3. CASE "handle" \notin undo
      BY <1>6, <1>7, <2>1, <2>3 DEF Holds, Drivers
    <2> QED
      BY <2>2, <2>3
  <1>18. Safe'
    BY <1>2, <1>6, <1>8, <1>12, <1>14, <1>15, <1>16, <1>17, SafeStep
       DEF Safe, TypeOK, Kept, Settled
  <1> QED
    BY <1>12, <1>18

-----------------------------------------------------------------------------
(* Flags and registers.                                                    *)

(* What a step that is not a write has nothing to do with.                 *)
LEMMA Unwatched ==
  ASSUME NEW b, SoundPlans(b), NEW s \in StepsOf(b), s.op # "write"
  PROVE  /\ \A n \in Devices[b] :
               /\ n.path \notin s.sets \cup s.clears
               /\ n.flags \cap (s.sets \cup s.clears) = {}
         /\ \A x \in Seals[b] :
               x[2] \in DriversOf(b) \/ x[2] \notin s.sets \cup s.clears
  BY DEF SoundPlans, Watched, SealFlags

(* A poll is not given up for what the outline watches.                    *)
LEMMA NotMissed ==
  ASSUME NEW b, SoundPlans(b), NEW m, m \subseteq GoneOn(b)
  PROVE  /\ \A n \in Devices[b] : n.flags \cap m = {}
         /\ \A x \in Seals[b] : x[2] \in DriversOf(b) \/ x[2] \notin m
  <1>1. GoneOn(b) \cap Watched(b) = {}
    BY DEF SoundPlans, GoneOn
  <1> QED
    BY <1>1 DEF Watched, SealFlags

LEMMA WriteStep ==
  ASSUME NEW program, Follow(program), Write
  PROVE  Safe' /\ Placed(program)'
  <1>1. /\ stack # <<>> /\ ~GivingUp /\ Top.pc <= Len(Steps) /\ Cur.op = "write"
    BY DEF Write, Running
  <1>2. New = {} /\ Safe /\ TypeOK
    BY <1>1, NoneNew DEF Follow, Safe, Running
  <1>3. PICK e, ep, c, a, s : /\ e = Self /\ ep = Top.ep /\ c = Claims(program)
                              /\ a = Here(program) /\ s = Cur
    OBVIOUS
  <1>4. /\ Valid(c, e, ep) /\ Proper(board, c) /\ DOMAIN c = Fields
        /\ Flags(a, Top.pc, e, s, c) /\ Top.pc \in 1 .. Len(Steps)
        /\ Len(Steps) \in Nat /\ s \in StepsOf(board) /\ SoundPlans(board)
        /\ \A n \in c.open : n \in Devices[board]
    BY <1>1, <1>3, AtWork
  <1>5. /\ UNCHANGED <<board, todo, kernel, faults, blamed, missed>>
        /\ facts' = (facts \cup s.sets) \ s.clears /\ Skip(0)
        /\ misused' = misused \cup (s.needs \ facts)
    BY <1>1, <1>3 DEF Write, Advance
  <1>6. missed \subseteq GoneOn(board) /\ misused \subseteq missed
    BY <1>2 DEF Safe, Kept
  <1>7. PICK d : d = Wrote(c, s)
    OBVIOUS
  <1>8. s.needs \subseteq c.on /\ Skips(Here(program), Top.pc, 0, d)
    BY <1>1, <1>3, <1>4, <1>7 DEF Flags, Goes
  <1>9. Valid(d, e, ep)'
    <2>1. \A n \in c.open : n.flags \cap missed = {}
      BY <1>4, <1>6, NotMissed
    <2>2. UNCHANGED <<kernel, blamed, missed>>
      BY <1>5
    <2> QED
      BY <1>4, <1>5, <1>7, <2>1, <2>2, WroteValid
  <1>10. Placed(program)' /\ stack' \in Seq(Frames)
    <2>1. UNCHANGED <<board, todo, made>>
      BY <1>5 DEF kernel
    <2> QED
      BY <1>1, <1>3, <1>5, <1>8, <1>9, <2>1, Advances
  <1>11. misused' \subseteq missed
    BY <1>4, <1>5, <1>6, <1>8 DEF Valid, OfFacts
  <1>12. s.sets \cap Drivers = {} /\ s.clears \cap SealFlags(board) = {}
         /\ DriversOf(board) = Drivers
    BY <1>1, <1>3, <1>4 DEF SoundPlans, Drivers, DriversOf
  <1>13. facts' \cap Drivers = {}
    BY <1>2, <1>5, <1>12 DEF TypeOK
  <1>14. \A x \in Seals[board] : Live(x[1]) => Holds(x[2])'
    <2>1. ASSUME NEW x, Closing(Steps, Top.pc, e, x)
          PROVE  x \in s.sets
      BY <1>1, <1>3, <1>4, <2>1 DEF Closing, Closes, Cur
    <2>2. ASSUME NEW x \in Seals[board], Live(x[1])
          PROVE  Holds(x[2]) \/ x[2] \in s.sets
      BY <1>2, <1>3, <2>1, <2>2 DEF Safe, Locked
    <2>3. Drivers' = Drivers /\ pub' = pub
      BY <1>5 DEF Drivers, kernel
    <2>4. ASSUME NEW x \in Seals[board], Live(x[1])
          PROVE  Holds(x[2])'
      <3>1. CASE x[2] \in Drivers
        BY <1>12, <2>2, <2>3, <2>4, <3>1 DEF Holds
      <3>2. CASE x[2] \notin Drivers
        <4>1. x[2] \in SealFlags(board)
          BY <1>12, <3>2 DEF SealFlags
        <4>2. x[2] \in facts \/ x[2] \in s.sets
          BY <2>2, <2>4, <3>2 DEF Holds
        <4> QED
          BY <1>5, <1>12, <2>3, <3>2, <4>1, <4>2 DEF Holds
      <3> QED
        BY <3>1, <3>2
    <2> QED
      BY <2>4
  <1>15. UNCHANGED <<pub, made, gone, thr, faults, blamed, missed>> /\ board' = board
    BY <1>5 DEF kernel
  <1>16. Safe'
    BY <1>2, <1>10, <1>11, <1>13, <1>14, <1>15, SafeStep DEF Safe, TypeOK, Kept
  <1> QED
    BY <1>10, <1>16

LEMMA FaultCounts ==
  ASSUME TypeOK, NEW e \in Drivers, Fault(e)
  PROVE  /\ faults' \in 0 .. MaxFaults /\ blamed' \subseteq Drivers
         /\ blamed \subseteq blamed'
  BY MaxFaultsAssumption DEF TypeOK, Fault

(* A poll leaves what holds everywhere alone.                              *)
LEMMA SafePoll ==
  ASSUME NEW program, Follow(program), stack # <<>>, ~GivingUp,
         Top.pc <= Len(Steps), Settled, UNCHANGED <<board, kernel, misused>>,
         Cur.op # "write", stack' \in Seq(Frames),
         facts' \ (Cur.sets \cup Cur.clears) = facts \ (Cur.sets \cup Cur.clears),
         facts' \subseteq facts \cup Cur.sets,
         \/ UNCHANGED <<faults, blamed>>
         \/ Fault(Self),
         missed' = missed \/ (Cur.op = "await or go on"
                              /\ missed' = missed \cup Cur.sets)
  PROVE  Safe'
  <1>1. PICK s : s = Cur
    OBVIOUS
  <1>2. s \in StepsOf(board) /\ SoundPlans(board) /\ Self \in Drivers
    BY <1>1, AtWork
  <1>3. Safe /\ TypeOK
    BY DEF Follow, Safe
  <1>4. DriversOf(board) = Drivers /\ s.sets \cap Drivers = {}
    BY <1>2 DEF SoundPlans, Drivers, DriversOf
  <1>5. facts' \cap Drivers = {}
    BY <1>1, <1>3, <1>4 DEF TypeOK
  <1>6. \A x \in Seals[board] : Live(x[1]) => Holds(x[2])'
    <2>1. /\ \A x \in Seals[board] : Live(x[1]) => Holds(x[2])
          /\ Drivers' = Drivers /\ pub' = pub
      BY DEF Settled, Drivers, kernel
    <2>2. \A x \in Seals[board] :
             x[2] \in Drivers \/ x[2] \notin s.sets \cup s.clears
      BY <1>1, <1>2, <1>4, Unwatched
    <2>3. \A x : x \notin s.sets \cup s.clears /\ x \in facts => x \in facts'
      BY <1>1
    <2> QED
      BY <2>1, <2>2, <2>3 DEF Holds
  <1>7. faults' \in 0 .. MaxFaults /\ blamed' \subseteq Drivers
        /\ blamed \subseteq blamed'
    <2>1. faults \in 0 .. MaxFaults /\ blamed \subseteq Drivers
      BY <1>3 DEF TypeOK
    <2>2. CASE UNCHANGED <<faults, blamed>>
      BY <2>1, <2>2
    <2>3. CASE Fault(Self)
      BY <1>2, <1>3, <2>3, FaultCounts
    <2> QED
      BY <2>2, <2>3
  <1>8. /\ missed' \subseteq GoneOn(board) /\ misused' \subseteq missed'
    <2>1. missed \subseteq GoneOn(board) /\ misused \subseteq missed
      BY <1>3 DEF Safe, Kept
    <2>2. s.op = "await or go on" => s.sets \subseteq GoneOn(board)
      BY <1>2 DEF GoneOn
    <2> QED
      BY <1>1, <2>1, <2>2
  <1>9. UNCHANGED <<pub, made, gone, thr>> /\ board' = board /\ New = {}
    BY DEF kernel, Settled
  <1> QED
    BY <1>3, <1>5, <1>6, <1>7, <1>8, <1>9, SafeStep DEF Safe, TypeOK, Kept

(* The nodes and what is known before a step.                              *)
LEMMA NodesApart ==
  ASSUME NEW program, Follow(program), stack # <<>>, ~GivingUp,
         Top.pc <= Len(Steps), Cur.op # "write", NEW s, s = Cur,
         NEW c, c = Claims(program), NEW lost, lost \subseteq s.sets \cup s.clears
  PROVE  \A n \in c.open \cup c.quiet :
            n.path \notin lost /\ n.flags \cap lost = {}
  <1>1. /\ s \in StepsOf(board) /\ SoundPlans(board)
        /\ \A n \in c.open \cup c.quiet : n \in Devices[board]
    BY AtWork
  <1>2. \A n \in Devices[board] :
               /\ n.path \notin s.sets \cup s.clears
               /\ n.flags \cap (s.sets \cup s.clears) = {}
    BY <1>1, Unwatched
  <1> QED
    BY <1>1, <1>2

(* A poll that succeeds, or that root gives up, going on.                  *)
LEMMA PollOn ==
  ASSUME NEW program, Follow(program), stack # <<>>, ~GivingUp,
         Top.pc <= Len(Steps),
         Cur.op \in {"await", "await or fail", "await or go on"},
         UNCHANGED <<board, todo, kernel>>, blamed \subseteq blamed',
         missed \subseteq missed', Skip(0),
         facts' \ Cur.sets = facts \ Cur.sets, Cur.sets \subseteq facts' \cup missed'
  PROVE  Placed(program)' /\ stack' \in Seq(Frames)
  <1>1. PICK e, ep, c, s : /\ e = Self /\ ep = Top.ep /\ c = Claims(program)
                           /\ s = Cur
    OBVIOUS
  <1>2. /\ Valid(c, e, ep) /\ DOMAIN c = Fields
        /\ Flags(Here(program), Top.pc, e, s, c)
    BY <1>1, AtWork
  <1>3. \A n \in c.open \cup c.quiet :
            n.path \notin s.sets /\ n.flags \cap s.sets = {}
    BY <1>1, NodesApart
  <1>4. PICK d : d = Polled(c, s)
    OBVIOUS
  <1>5. Valid(d, e, ep)'
    <2>1. UNCHANGED kernel
      OBVIOUS
    <2> QED
      BY <1>1, <1>2, <1>3, <1>4, <2>1, PolledValid
  <1>6. Skips(Here(program), Top.pc, 0, d)
    BY <1>1, <1>2, <1>4 DEF Flags, Goes
  <1>7. UNCHANGED <<board, todo, made>>
    BY DEF kernel
  <1> QED
    BY <1>1, <1>5, <1>6, <1>7, Advances

LEMMA CheckOn ==
  ASSUME NEW program, Follow(program), stack # <<>>, ~GivingUp,
         Top.pc <= Len(Steps), Cur.op = "check",
         UNCHANGED <<board, todo, kernel>>, blamed \subseteq blamed',
         missed \subseteq missed', Skip(0), facts' \ Cur.sets = facts \ Cur.sets
  PROVE  Placed(program)' /\ stack' \in Seq(Frames)
  <1>1. PICK e, ep, c, s : /\ e = Self /\ ep = Top.ep /\ c = Claims(program)
                           /\ s = Cur
    OBVIOUS
  <1>2. /\ Valid(c, e, ep) /\ DOMAIN c = Fields
        /\ Flags(Here(program), Top.pc, e, s, c)
    BY <1>1, AtWork
  <1>3. \A n \in c.open \cup c.quiet :
            n.path \notin s.sets /\ n.flags \cap s.sets = {}
    BY <1>1, NodesApart
  <1>4. PICK d : d = Checked(c, s)
    OBVIOUS
  <1>5. Valid(d, e, ep)'
    <2>1. UNCHANGED kernel
      OBVIOUS
    <2> QED
      BY <1>1, <1>2, <1>3, <1>4, <2>1, CheckedValid
  <1>6. Skips(Here(program), Top.pc, 0, d)
    BY <1>1, <1>2, <1>4 DEF Flags, Goes
  <1>7. UNCHANGED <<board, todo, made>>
    BY DEF kernel
  <1> QED
    BY <1>1, <1>5, <1>6, <1>7, Advances

LEMMA PollStep ==
  ASSUME NEW program, Follow(program), Poll
  PROVE  Safe' /\ Placed(program)'
  <1>1. /\ stack # <<>> /\ ~GivingUp /\ Top.pc <= Len(Steps)
        /\ Cur.op \in {"await", "await or fail", "await or go on", "check"}
    BY DEF Poll, Running
  <1>2. Settled
    BY <1>1, SettledWhen
  <1>3. /\ UNCHANGED <<board, todo, kernel, trouble>>
        /\ facts' = facts \cup Cur.sets /\ Skip(0)
    BY DEF Poll, Advance
  <1>4. UNCHANGED <<faults, blamed, missed, misused>>
    BY <1>3 DEF trouble
  <1>5. /\ facts' \ Cur.sets = facts \ Cur.sets /\ Cur.sets \subseteq facts'
        /\ facts' \ (Cur.sets \cup Cur.clears) = facts \ (Cur.sets \cup Cur.clears)
    BY <1>3
  <1>6. Placed(program)' /\ stack' \in Seq(Frames)
    <2>1. CASE Cur.op = "check"
      BY <1>1, <1>3, <1>4, <1>5, <2>1, CheckOn
    <2>2. CASE Cur.op # "check"
      BY <1>1, <1>3, <1>4, <1>5, <2>2, PollOn
    <2> QED
      BY <2>1, <2>2
  <1>7. Safe'
    BY <1>1, <1>2, <1>3, <1>4, <1>5, <1>6, SafePoll
  <1> QED
    BY <1>6, <1>7

LEMMA PollGoesOnStep ==
  ASSUME NEW program, Follow(program), PollGoesOn
  PROVE  Safe' /\ Placed(program)'
  <1>1. /\ stack # <<>> /\ ~GivingUp /\ Top.pc <= Len(Steps)
        /\ Cur.op = "await or go on"
    BY DEF PollGoesOn, Running
  <1>2. Settled
    BY <1>1, SettledWhen
  <1>3. /\ UNCHANGED <<board, todo, kernel, misused>>
        /\ facts' = facts \ Cur.sets /\ Skip(0) /\ Fault(Self)
        /\ missed' = missed \cup Cur.sets /\ blamed \subseteq blamed'
    BY DEF PollGoesOn, Advance, Fault
  <1>4. /\ facts' \ Cur.sets = facts \ Cur.sets
        /\ Cur.sets \subseteq facts' \cup missed' /\ missed \subseteq missed'
        /\ facts' \ (Cur.sets \cup Cur.clears) = facts \ (Cur.sets \cup Cur.clears)
        /\ facts' \subseteq facts \cup Cur.sets
    BY <1>3
  <1>5. Placed(program)' /\ stack' \in Seq(Frames)
    BY <1>1, <1>3, <1>4, PollOn
  <1>6. Safe'
    BY <1>1, <1>2, <1>3, <1>4, <1>5, SafePoll
  <1> QED
    BY <1>5, <1>6

LEMMA CheckFailsStep ==
  ASSUME NEW program, Follow(program), CheckFails
  PROVE  Safe' /\ Placed(program)'
  <1>1. /\ stack # <<>> /\ ~GivingUp /\ Top.pc <= Len(Steps)
        /\ Cur.op = "check"
    BY DEF CheckFails, Running
  <1>2. Settled
    BY <1>1, SettledWhen
  <1>3. /\ UNCHANGED <<board, todo, kernel, missed, misused>>
        /\ facts' = facts \ Cur.sets /\ Skip(0)
        /\ UNCHANGED <<faults, blamed>> \/ Fault(Self)
    BY DEF CheckFails, Advance
  <1>4. /\ facts' \ Cur.sets = facts \ Cur.sets /\ missed \subseteq missed'
        /\ facts' \ (Cur.sets \cup Cur.clears) = facts \ (Cur.sets \cup Cur.clears)
        /\ facts' \subseteq facts \cup Cur.sets /\ blamed \subseteq blamed'
    BY <1>3 DEF Fault
  <1>5. Placed(program)' /\ stack' \in Seq(Frames)
    BY <1>1, <1>3, <1>4, CheckOn
  <1>6. Safe'
    BY <1>1, <1>2, <1>3, <1>4, <1>5, SafePoll
  <1> QED
    BY <1>5, <1>6

LEMMA PollFailsStep ==
  ASSUME NEW program, Follow(program), PollFails
  PROVE  Safe' /\ Placed(program)'
  <1>1. /\ stack # <<>> /\ ~GivingUp /\ Top.pc <= Len(Steps)
        /\ Cur.op = "await or fail"
    BY DEF PollFails, Running
  <1>2. Settled
    BY <1>1, SettledWhen
  <1>3. PICK e, ep, c, s : /\ e = Self /\ ep = Top.ep /\ c = Claims(program)
                           /\ s = Cur
    OBVIOUS
  <1>4. PICK lost : lost = s.sets \cup s.clears
    OBVIOUS
  <1>5. /\ UNCHANGED <<board, todo, kernel, missed, misused>>
        /\ facts' = facts \ lost /\ Return("fail") /\ Fault(Self)
        /\ blamed' = blamed \cup {e}
    BY <1>3, <1>4 DEF PollFails, Fault
  <1>6. /\ Valid(c, e, ep) /\ DOMAIN c = Fields
        /\ Flags(Here(program), Top.pc, e, s, c)
    BY <1>1, <1>3, AtWork
  <1>7. \A n \in c.open \cup c.quiet :
            n.path \notin lost /\ n.flags \cap lost = {}
    BY <1>1, <1>3, <1>4, NodesApart
  <1>8. PICK d : d = PollFailed(c, e, s)
    OBVIOUS
  <1>9. Valid(d, e, ep)' /\ DOMAIN d = Fields
    <2>1. UNCHANGED kernel /\ missed' = missed
      BY <1>5
    <2>2. Valid(d, e, ep)'
      BY <1>4, <1>5, <1>6, <1>7, <1>8, <2>1, PollFailedValid
    <2>3. DOMAIN d = Fields
      BY <1>6, <1>8 DEF PollFailed, Changed, Blame, Out
    <2> QED
      BY <2>2, <2>3
  <1>10. Returns(Here(program), d, "fail")
    BY <1>1, <1>3, <1>6, <1>8 DEF Flags
  <1>11. UNCHANGED <<board, todo, made>>
    BY <1>5 DEF kernel
  <1>12. Placed(program)' /\ stack' \in Seq(Frames)
    BY <1>1, <1>5, <1>9, <1>10, <1>11, Exits
  <1>13. /\ facts' \ (Cur.sets \cup Cur.clears) = facts \ (Cur.sets \cup Cur.clears)
         /\ facts' \subseteq facts \cup Cur.sets
    BY <1>3, <1>4, <1>5
  <1>14. Safe'
    BY <1>1, <1>2, <1>5, <1>12, <1>13, SafePoll
  <1> QED
    BY <1>12, <1>14

-----------------------------------------------------------------------------
(* Steps on threads.                                                       *)

LEMMA AtMostOne ==
  ASSUME NEW N, \A t, u \in N : t = u
  PROVE  IsFiniteSet(N) /\ Cardinality(N) <= 1
  <1>1. CASE N = {}
    BY <1>1, FS_EmptySet
  <1>2. CASE N # {}
    <2>1. PICK x : N = {x}
      BY <1>2
    <2>2. IsFiniteSet({x}) /\ Cardinality({x}) = 1
      BY FS_Singleton
    <2> QED
      BY <2>1, <2>2
  <1> QED
    BY <1>1, <1>2

(* Only threads, and where root is, change.                                *)
LEMMA SafeThreads ==
  ASSUME Safe, UNCHANGED <<board, pub, made, gone, facts, missed, misused>>,
         stack' \in Seq(Frames), thr' \subseteq Threads, IsFiniteSet(thr'),
         faults' \in 0 .. MaxFaults, blamed \subseteq blamed',
         blamed' \subseteq Drivers,
         \A t \in thr' : t.st = "dead" => t.driver \in blamed',
         Granted', Locked', OneServer'
  PROVE  Safe'
  <1>1. /\ Drivers' = Drivers /\ Frames' = Frames /\ Threads' = Threads
        /\ GoneOn(board)' = GoneOn(board)
    BY DEF Drivers, Frames, Threads, GoneOn
  <1>2. Cardinality(New') <= 1
    BY AtMostOne DEF Granted
  <1>3. TypeOK'
    BY <1>1, <1>2 DEF Safe, TypeOK
  <1>4. Kept'
    BY <1>1 DEF Safe, Kept
  <1> QED
    BY <1>3, <1>4 DEF Safe

LEMMA CreateThreadStep ==
  ASSUME NEW program, Follow(program), CreateThread
  PROVE  Safe' /\ Placed(program)'
  <1>1. /\ stack # <<>> /\ ~GivingUp /\ Top.pc <= Len(Steps) /\ Cur.op = "thread"
    BY DEF CreateThread, Running
  <1>2. Settled /\ Safe /\ TypeOK /\ New = {}
    BY <1>1, SettledWhen DEF Follow, Safe, Settled
  <1>3. PICK e, ep, c, a, i : /\ e = Self /\ ep = Top.ep /\ c = Claims(program)
                              /\ a = Here(program) /\ i = Top.pc
    OBVIOUS
  <1>4. PICK arg, serves : arg = Cur.arg /\ serves = Cur.arg.serves
    OBVIOUS
  <1>5. /\ e \in Drivers /\ Valid(c, e, ep) /\ Proper(board, c)
        /\ DOMAIN c = Fields /\ Makes(board, a, Steps, i, e, Cur, c)
        /\ ep \in Nat /\ i \in 1 .. Len(Steps) /\ Len(Steps) \in Nat
        /\ DOMAIN Steps = 1 .. Len(Steps) /\ SoundPlans(board)
    BY <1>1, <1>3, AtWork
  <1>6. PICK t : t = [id |-> Cardinality(thr), driver |-> e, name |-> arg.name,
                      ep |-> ep, serves |-> serves,
                      st |-> IF arg.begins = "maps" THEN "new" ELSE "serving"]
    OBVIOUS
  <1>7. /\ UNCHANGED <<board, todo, pub, made, gone, facts, trouble>>
        /\ thr' = thr \cup {t} /\ Skip(0)
    BY <1>3, <1>4, <1>6 DEF CreateThread, Advance
  <1>8. PICK d : d = ThreadMade(c, e, serves)
    OBVIOUS
  <1>9. /\ Starts(board, Steps, i, e, Cur, c)
        /\ Skips(Here(program), Top.pc, 0, d)
    BY <1>1, <1>3, <1>4, <1>5, <1>8 DEF Makes, Goes
  <1>10. /\ arg.name \in STRING /\ serves \in {"own", "handle", "none"}
         /\ arg.begins = "maps" =>
              i + 1 \in DOMAIN Steps /\ Steps[i + 1].op = "grant"
         /\ serves # "none" =>
              /\ e \in Repeatable[board] \/ e \in c.alone
              /\ \A x \in Seals[board] : x[1] = e =>
                   \/ x[2] \in c.up \/ x[2] \in c.on
                   \/ Closing(Steps, i + 1, e, x[2])
    BY <1>4, <1>9 DEF Starts
  <1>11. /\ t.driver = e /\ t.ep = ep /\ t.serves = serves
         /\ t.st = IF arg.begins = "maps" THEN "new" ELSE "serving"
    BY <1>6
  <1>12. thr \subseteq Threads /\ IsFiniteSet(thr) /\ t \in Threads
    <2>1. thr \subseteq Threads /\ IsFiniteSet(thr)
      BY <1>2 DEF TypeOK
    <2>2. Cardinality(thr) \in Nat
      BY <2>1, FS_CardinalityType
    <2>3. t.st \in {"new", "serving", "dead"}
      BY <1>11
    <2> QED
      BY <1>5, <1>6, <1>10, <2>1, <2>2, <2>3 DEF Threads
  <1>13. thr' \subseteq Threads /\ IsFiniteSet(thr')
    BY <1>7, <1>12, FS_AddElement
  <1>14. Valid(d, e, ep)'
    BY <1>5, <1>7, <1>8, <1>10, <1>11, ThreadValid
  <1>15. /\ Placed(program)' /\ stack' \in Seq(Frames) /\ stack' # <<>>
         /\ ~GivingUp' /\ Steps' = Steps /\ Self' = Self
         /\ Top'.pc = i + 1
    <2>1. /\ Placed(program)' /\ stack' \in Seq(Frames) /\ stack' # <<>>
          /\ ~GivingUp' /\ Steps' = Steps /\ Self' = Self
          /\ Top'.pc = Top.pc + 1 + 0
      BY <1>1, <1>3, <1>7, <1>9, <1>14, Advances
    <2> QED
      BY <1>3, <1>5, <2>1
  <1>16. Granted'
    <2>1. \A u \in New' : u = t /\ arg.begins = "maps"
      BY <1>2, <1>7, <1>11 DEF New
    <2>2. arg.begins = "maps" => Running("grant")'
      BY <1>5, <1>10, <1>15 DEF Running, Cur
    <2> QED
      BY <1>3, <1>11, <1>15, <2>1, <2>2 DEF Granted
  <1>17. Locked'
    <2>1. Drivers' = Drivers /\ board' = board /\ pub' = pub /\ facts' = facts
      BY <1>7 DEF Drivers
    <2>2. \A x \in Seals[board] : Live(x[1]) => Holds(x[2])
      BY <1>2 DEF Settled
    <2>3. ASSUME NEW x \in Seals[board], Live(x[1])', ~Live(x[1])
          PROVE  x[1] = e /\ serves # "none"
      BY <1>7, <1>11, <2>3 DEF Live
    <2>4. ASSUME NEW x \in Seals[board], x[2] \in c.up
          PROVE  Holds(x[2])
      BY <1>5, <2>4 DEF Valid, OfDrivers, Proper, Holds, DriversOf, Drivers
    <2>5. ASSUME NEW x \in Seals[board], x[2] \in c.on
          PROVE  Holds(x[2])
      <3>1. x[2] \notin Drivers /\ DriversOf(board) = Drivers
        BY <1>5, <2>5 DEF Proper, DriversOf, Drivers
      <3>2. missed \subseteq GoneOn(board)
        BY <1>2 DEF Safe, Kept
      <3>3. x[2] \notin missed
        BY <1>5, <3>1, <3>2, NotMissed
      <3> QED
        BY <1>5, <2>5, <3>1, <3>3 DEF Valid, OfFacts, Holds
    <2>6. ASSUME NEW x \in Seals[board], Live(x[1])'
          PROVE  Holds(x[2]) \/ Closing(Steps, i + 1, e, x[2])
      BY <1>10, <2>2, <2>3, <2>4, <2>5, <2>6
    <2> QED
      BY <1>3, <1>15, <2>1, <2>6 DEF Locked, Holds
  <1>18. OneServer'
    <2>1. ASSUME serves # "none", e \notin Repeatable[board], NEW u \in thr,
                 u.driver = e, u.serves # "none", u.st # "dead"
          PROVE  FALSE
      BY <1>5, <1>10, <2>1 DEF Valid, OfDrivers, Live
    <2> QED
      BY <1>2, <1>7, <1>11, <2>1 DEF Safe, OneServer
  <1>19. Safe'
    <2>1. UNCHANGED <<board, pub, made, gone, facts, faults, blamed, missed, misused>>
      BY <1>7 DEF trouble
    <2>2. \A u \in thr' : u.st = "dead" => u.driver \in blamed'
      BY <1>2, <1>7, <1>11, <2>1 DEF Safe, Kept
    <2> QED
      BY <1>2, <1>13, <1>15, <1>16, <1>17, <1>18, <2>1, <2>2, SafeThreads
         DEF TypeOK
  <1> QED
    BY <1>15, <1>19

(* The server that awaits its capabilities becomes st.                     *)
LEMMA Becomes ==
  ASSUME TypeOK, Granted, NEW st \in {"serving", "dead"}, Become(st)
  PROVE  /\ thr' \subseteq Threads /\ IsFiniteSet(thr') /\ New' = {}
         /\ \A t \in thr : t \in thr' \/ (t \in New /\ [t EXCEPT !.st = st] \in thr')
         /\ \A u \in thr' : u \in thr \/ \E t \in New : u = [t EXCEPT !.st = st]
  <1>1. thr \subseteq Threads /\ IsFiniteSet(thr) /\ New \subseteq thr
    BY DEF TypeOK, New
  <1>2. \A t \in New : [t EXCEPT !.st = st] \in Threads
                       /\ [t EXCEPT !.st = st].st = st
    BY <1>1 DEF Threads
  <1>3. PICK m : m = {[t EXCEPT !.st = st] : t \in New}
    OBVIOUS
  <1>4. thr' = (thr \ New) \cup m
    BY <1>3 DEF Become
  <1>5. m \subseteq Threads /\ \A u \in m : u.st = st
    BY <1>2, <1>3
  <1>6. IsFiniteSet(m)
    <2>1. \A t, u \in m : t = u
      BY <1>3 DEF Granted
    <2> QED
      BY <2>1, AtMostOne
  <1>7. IsFiniteSet(thr')
    <2>1. IsFiniteSet(thr \ New)
      BY <1>1, FS_Difference
    <2> QED
      BY <1>4, <1>6, <2>1, FS_Union
  <1>8. New' = {}
    BY <1>4, <1>5 DEF New
  <1> QED
    BY <1>1, <1>3, <1>4, <1>5, <1>7, <1>8

LEMMA ChangedThread ==
  ASSUME NEW t \in Threads, NEW st, NEW u, u = [t EXCEPT !.st = st]
  PROVE  /\ u.driver = t.driver /\ u.serves = t.serves /\ u.ep = t.ep
         /\ u.st = st
  BY DEF Threads

(* Root stays where it is, and what is known stays true.                   *)
LEMMA SamePlace ==
  ASSUME NEW program, Placed(program), UNCHANGED <<board, todo, stack, made>>,
         \A c, e, ep : Valid(c, e, ep) => Valid(c, e, ep)'
  PROVE  Placed(program)'
  <1>1. /\ \A k, j : Chain(k, j)' = Chain(k, j)
        /\ \A book, k, j : Follows(book, k, j)' = Follows(book, k, j)
        /\ Top' = Top /\ Self' = Self /\ Steps' = Steps /\ GivingUp' = GivingUp
    BY DEF Chain, Follows, Waits, Top, Self, Steps, GivingUp
  <1>2. PICK book, k :
          book = Outline[board][program] /\ k = Len(program) - Len(todo)
    OBVIOUS
  <1>3. /\ k \in Nat /\ todo = SubSeq(program, k + 1, Len(program))
        /\ stack = <<>> => Valid(book.rest[k + 1], "none", 0)
        /\ stack # <<>> =>
             /\ k >= 1
             /\ \A i \in DOMAIN stack : Follows(book, k, i)
             /\ Valid(Claimed(book.at[Chain(k, Len(stack))]), Self, Top.ep)
    BY <1>2 DEF Placed
  <1>4. (Outline[board][program])' = book /\ (Len(program) - Len(todo))' = k
    BY <1>2
  <1>5. PICK c, d, e, ep : /\ c = book.rest[k + 1]
                           /\ d = Claimed(book.at[Chain(k, Len(stack))])
                           /\ e = Self /\ ep = Top.ep
    OBVIOUS
  <1>6. stack = <<>> => Valid(c, "none", 0)'
    BY <1>3, <1>5
  <1>7. stack # <<>> => Valid(d, e, ep)'
    BY <1>3, <1>5
  <1>8. /\ (Claimed(book.at[Chain(k, Len(stack))]))' = d
        /\ Self' = e /\ (Top.ep)' = ep
    <2>1. PICK a : a = book.at[Chain(k, Len(stack))]
      OBVIOUS
    <2>2. (book.at[Chain(k, Len(stack))])' = a
      BY <2>1 DEF Chain
    <2>3. Claimed(a)' = Claimed(a)
      BY <1>1 DEF Claimed
    <2> QED
      BY <1>1, <1>5, <2>1, <2>2, <2>3
  <1>9. stack = <<>> => Valid(book.rest[k + 1], "none", 0)'
    BY <1>5, <1>6
  <1>10. stack # <<>> =>
            Valid(Claimed(book.at[Chain(k, Len(stack))]), Self, Top.ep)'
    BY <1>7, <1>8
  <1> QED
    BY <1>1, <1>3, <1>4, <1>9, <1>10 DEF Placed

(* What a change of threads means for what is known.                       *)
LEMMA BecomesValid ==
  ASSUME TypeOK, Granted, NEW st \in {"serving", "dead"}, Become(st),
         UNCHANGED <<pub, made, gone, facts, missed>>, blamed \subseteq blamed',
         NEW c, NEW e, NEW ep, Valid(c, e, ep)
  PROVE  Valid(c, e, ep)' /\ \A d : Live(d)' => Live(d)
  <1>1. /\ \A t \in thr : t \in thr' \/ (t \in New /\ [t EXCEPT !.st = st] \in thr')
        /\ \A u \in thr' : u \in thr \/ \E t \in New : u = [t EXCEPT !.st = st]
    BY Becomes
  <1>2. /\ New \subseteq thr /\ thr \subseteq Threads
        /\ \A t \in New : t.st = "new"
    BY DEF TypeOK, New
  <1>3. \A t \in thr : t \in thr' \/ \E u \in thr' :
           /\ t.st = "new" /\ u.driver = t.driver /\ u.serves = t.serves
           /\ u.ep = t.ep /\ u.st = st
    <2>1. ASSUME NEW t \in thr, t \notin thr'
          PROVE  \E u \in thr' :
                    /\ t.st = "new" /\ u.driver = t.driver
                    /\ u.serves = t.serves /\ u.ep = t.ep /\ u.st = st
      <3>1. t \in New /\ [t EXCEPT !.st = st] \in thr'
        BY <1>1, <2>1
      <3>2. PICK u : u = [t EXCEPT !.st = st]
        OBVIOUS
      <3>3. t \in Threads /\ t.st = "new"
        BY <1>2, <3>1
      <3>4. /\ u.driver = t.driver /\ u.serves = t.serves /\ u.ep = t.ep
            /\ u.st = st
        BY <3>2, <3>3, ChangedThread
      <3> QED
        BY <3>1, <3>2, <3>3, <3>4
    <2> QED
      BY <2>1
  <1>4. \A u \in thr' : \E t \in thr :
           /\ u.driver = t.driver /\ u.serves = t.serves /\ u.ep = t.ep
           /\ u.st # "dead" => t.st # "dead"
    <2>1. ASSUME NEW u \in thr' PROVE \E t \in thr :
           /\ u.driver = t.driver /\ u.serves = t.serves /\ u.ep = t.ep
           /\ u.st # "dead" => t.st # "dead"
      <3>1. CASE u \in thr
        BY <3>1
      <3>2. CASE u \notin thr
        <4>1. PICK t \in New : u = [t EXCEPT !.st = st]
          BY <1>1, <2>1, <3>2
        <4>2. t \in Threads /\ t \in thr /\ t.st = "new"
          BY <1>2
        <4>3. u.driver = t.driver /\ u.serves = t.serves /\ u.ep = t.ep
          BY <4>1, <4>2, ChangedThread
        <4> QED
          BY <4>2, <4>3
      <3> QED
        BY <3>1, <3>2
    <2> QED
      BY <2>1
  <1>5. \A d, n : Own(d, n) => Own(d, n)' \/ Stopped(d)'
    BY <1>3 DEF Own, Stopped
  <1>6. \A d : ByHandle(d) => ByHandle(d)' \/ Stopped(d)'
    BY <1>3 DEF ByHandle, Stopped
  <1>7. \A d : Stopped(d) => Stopped(d)'
    BY <1>3 DEF Stopped
  <1>8. \A d : Live(d)' => Live(d)
    BY <1>4 DEF Live
  <1>9. Valid(c, e, ep)'
    BY <1>5, <1>6, <1>7, <1>8, SameValid
  <1> QED
    BY <1>8, <1>9

LEMMA BecomesOne ==
  ASSUME TypeOK, Granted, OneServer, NEW st \in {"serving", "dead"}, Become(st),
         board' = board
  PROVE  OneServer'
  <1>1. /\ New \subseteq thr /\ thr \subseteq Threads
        /\ thr' = (thr \ New) \cup {[t EXCEPT !.st = st] : t \in New}
    BY DEF TypeOK, New, Become
  <1>2. \A u \in thr' : \E t \in thr :
           /\ u.driver = t.driver /\ u.serves = t.serves
           /\ u.st # "dead" => t.st # "dead"
           /\ u = IF t \in New THEN [t EXCEPT !.st = st] ELSE t
    <2>1. ASSUME NEW u \in thr' PROVE \E t \in thr :
           /\ u.driver = t.driver /\ u.serves = t.serves
           /\ u.st # "dead" => t.st # "dead"
           /\ u = IF t \in New THEN [t EXCEPT !.st = st] ELSE t
      <3>1. CASE u \in thr \ New
        BY <3>1
      <3>2. CASE u \notin thr \ New
        <4>1. PICK t \in New : u = [t EXCEPT !.st = st]
          BY <1>1, <2>1, <3>2
        <4>2. t \in Threads /\ t \in thr /\ t.st = "new"
          BY <1>1 DEF New
        <4>3. u.driver = t.driver /\ u.serves = t.serves
          BY <4>1, <4>2, ChangedThread
        <4> QED
          BY <4>1, <4>2, <4>3
      <3> QED
        BY <3>1, <3>2
    <2> QED
      BY <2>1
  <1> QED
    BY <1>2 DEF OneServer

LEMMA GrantStep ==
  ASSUME NEW program, Follow(program), Grant
  PROVE  Safe' /\ Placed(program)'
  <1>1. /\ stack # <<>> /\ ~GivingUp /\ Top.pc <= Len(Steps) /\ Cur.op = "grant"
    BY DEF Grant, Running
  <1>2. Safe /\ TypeOK /\ Granted /\ OneServer
    BY DEF Follow, Safe
  <1>3. PICK e, ep, c, i : /\ e = Self /\ ep = Top.ep /\ c = Claims(program)
                           /\ i = Top.pc
    OBVIOUS
  <1>4. /\ Valid(c, e, ep) /\ Makes(board, Here(program), Steps, i, e, Cur, c)
        /\ i \in 1 .. Len(Steps) /\ Len(Steps) \in Nat
        /\ DOMAIN Steps = 1 .. Len(Steps)
    BY <1>1, <1>3, AtWork
  <1>5. /\ UNCHANGED <<board, todo, pub, made, gone, facts, trouble>>
        /\ Become("serving") /\ Skip(0)
    BY DEF Grant, Advance
  <1>6. UNCHANGED <<faults, blamed, missed, misused>>
    BY <1>5 DEF trouble
  <1>7. Valid(c, e, ep)' /\ \A d : Live(d)' => Live(d)
    <2>1. blamed \subseteq blamed' /\ UNCHANGED <<pub, made, gone, facts, missed>>
      BY <1>5, <1>6
    <2> QED
      BY <1>2, <1>4, <1>5, <2>1, BecomesValid
  <1>8. Skips(Here(program), Top.pc, 0, c)
    BY <1>1, <1>3, <1>4 DEF Makes, Goes
  <1>9. /\ Placed(program)' /\ stack' \in Seq(Frames) /\ stack' # <<>>
        /\ ~GivingUp' /\ Steps' = Steps /\ Self' = Self
        /\ Top'.pc = i + 1
    <2>1. /\ Placed(program)' /\ stack' \in Seq(Frames) /\ stack' # <<>>
          /\ ~GivingUp' /\ Steps' = Steps /\ Self' = Self
          /\ Top'.pc = Top.pc + 1 + 0
      BY <1>1, <1>3, <1>5, <1>7, <1>8, Advances
    <2> QED
      BY <1>3, <1>4, <2>1
  <1>10. /\ thr' \subseteq Threads /\ IsFiniteSet(thr') /\ New' = {}
         /\ \A u \in thr' : u \in thr \/ \E t \in New : u = [t EXCEPT !.st = "serving"]
    BY <1>2, <1>5, Becomes
  <1>11. \A u \in thr' : u.st = "dead" => u.driver \in blamed'
    <2>1. thr \subseteq Threads /\ New \subseteq thr
      BY <1>2 DEF TypeOK, New
    <2>2. \A t \in New : [t EXCEPT !.st = "serving"].st # "dead"
      BY <2>1 DEF Threads
    <2> QED
      BY <1>2, <1>6, <1>10, <2>2 DEF Safe, Kept
  <1>12. Granted'
    BY <1>10 DEF Granted
  <1>13. Locked'
    <2>1. Drivers' = Drivers /\ board' = board /\ pub' = pub /\ facts' = facts
      BY <1>5 DEF Drivers
    <2>2. ASSUME NEW x, Closing(Steps, i, e, x)
          PROVE  Closing(Steps, i + 1, e, x)
      BY <1>1, <1>3, <1>4, <2>2 DEF Closing, Closes, Cur
    <2>3. \A x \in Seals[board] : Live(x[1]) =>
             Holds(x[2]) \/ Closing(Steps, i, e, x[2])
      BY <1>2, <1>3 DEF Safe, Locked
    <2>4. \A x \in Seals[board] : Live(x[1])' =>
             Holds(x[2]) \/ Closing(Steps, i + 1, e, x[2])
      BY <1>7, <2>2, <2>3
    <2> QED
      BY <1>3, <1>9, <2>1, <2>4 DEF Locked, Holds
  <1>14. OneServer'
    BY <1>2, <1>5, BecomesOne
  <1>15. Safe'
    BY <1>2, <1>5, <1>6, <1>9, <1>10, <1>11, <1>12, <1>13, <1>14, SafeThreads
       DEF TypeOK
  <1> QED
    BY <1>9, <1>15

LEMMA ServerStopsStep ==
  ASSUME NEW program, Follow(program), ServerStops
  PROVE  Safe' /\ Placed(program)'
  <1>1. Running("grant") /\ \A t \in New : t.driver = Self
    BY DEF ServerStops, Follow, Safe, Granted
  <1>2. stack # <<>> /\ ~GivingUp /\ Top.pc <= Len(Steps)
    BY <1>1 DEF Running
  <1>3. Safe /\ TypeOK /\ Granted /\ OneServer /\ Placed(program)
    BY DEF Follow, Safe
  <1>4. PICK e, ep, c : e = Self /\ ep = Top.ep /\ c = Claims(program)
    OBVIOUS
  <1>5. Valid(c, e, ep) /\ e \in Drivers
    BY <1>2, <1>4, AtWork
  <1>6. /\ UNCHANGED <<board, todo, stack, pub, made, gone, facts, missed, misused>>
        /\ Become("dead") /\ Fault(Self) /\ blamed' = blamed \cup {e}
    BY <1>4 DEF ServerStops, Fault
  <1>7. \A d : Live(d)' => Live(d)
    BY <1>3, <1>5, <1>6, BecomesValid
  <1>8. Top' = Top /\ Self' = Self /\ Steps' = Steps /\ GivingUp' = GivingUp
    BY <1>6 DEF Top, Self, Steps, GivingUp
  <1>9. Placed(program)'
    <2>1. UNCHANGED <<board, todo, stack, made>> /\ blamed \subseteq blamed'
          /\ UNCHANGED <<pub, made, gone, facts, missed>>
      BY <1>6
    <2>2. ASSUME NEW d, NEW x, NEW n, Valid(d, x, n) PROVE Valid(d, x, n)'
      BY <1>3, <1>6, <2>1, <2>2, BecomesValid
    <2> QED
      BY <1>3, <2>1, <2>2, SamePlace
  <1>10. /\ thr' \subseteq Threads /\ IsFiniteSet(thr') /\ New' = {}
         /\ \A u \in thr' : u \in thr \/ \E t \in New : u = [t EXCEPT !.st = "dead"]
    BY <1>3, <1>6, Becomes
  <1>11. \A u \in thr' : u.st = "dead" => u.driver \in blamed'
    <2>1. thr \subseteq Threads /\ New \subseteq thr
      BY <1>3 DEF TypeOK, New
    <2>2. \A t \in New : [t EXCEPT !.st = "dead"].driver = e
      BY <1>1, <1>4, <2>1, ChangedThread
    <2> QED
      BY <1>3, <1>6, <1>10, <2>2 DEF Safe, Kept
  <1>12. Granted'
    BY <1>10 DEF Granted
  <1>13. Locked'
    <2>1. Drivers' = Drivers
      BY <1>6 DEF Drivers
    <2> QED
      BY <1>3, <1>6, <1>7, <1>8, <2>1 DEF Safe, Locked, Holds
  <1>14. OneServer'
    BY <1>3, <1>6, BecomesOne
  <1>15. /\ faults' \in 0 .. MaxFaults /\ blamed' \subseteq Drivers
         /\ blamed \subseteq blamed'
    BY <1>3, <1>4, <1>5, <1>6, FaultCounts
  <1>16. Safe'
    BY <1>3, <1>6, <1>10, <1>11, <1>12, <1>13, <1>14, <1>15, SafeThreads
       DEF TypeOK
  <1> QED
    BY <1>9, <1>16

-----------------------------------------------------------------------------
(* The outline holds.                                                      *)

LEMMA FollowStep ==
  ASSUME NEW program, Follow(program), Next
  PROVE  Safe' /\ Placed(program)'
  <1>1. CASE Proceed
    BY <1>1, BeginStep, CallStep, GiveUpStep, EndStep, LeaveStep, BranchStep,
       CreateEpStep, SetHandleStep, TryStep, CreateThreadStep, GrantStep,
       AskStep, WriteStep, PollStep, CheckFailsStep DEF Proceed
  <1>2. CASE GoWrong
    BY <1>2, CreateEpFailsStep, TryFailsStep, ServerStopsStep, PollFailsStep,
       PollGoesOnStep, CheckFailsStep DEF GoWrong
  <1> QED
    BY <1>1, <1>2 DEF Next

LEMMA BoardStays ==
  ASSUME [Next]_vars
  PROVE  board' = board
  BY DEF Next, Proceed, GoWrong, vars, Begin, Call, GiveUp, End, Leave, Branch,
         CreateEp, SetHandle, Try, CreateThread, Grant, Ask, Write, Poll,
         CheckFails, CreateEpFails, TryFails, ServerStops, PollFails, PollGoesOn

LEMMA FollowIdle ==
  ASSUME NEW program, Follow(program), UNCHANGED vars
  PROVE  Safe' /\ Placed(program)'
  <1>1. /\ UNCHANGED <<board, todo, stack, pub, made, gone, thr, facts, faults,
                       blamed, missed, misused>>
    BY DEF vars
  <1>2. Safe /\ Placed(program)
    BY DEF Follow
  <1>3. Safe'
    BY <1>1, <1>2 DEF Safe, TypeOK, Granted, Locked, Kept, OneServer, Drivers,
       Frames, Threads, New, Live, Holds, Running, GivingUp, Cur, Steps, Top,
       Self
  <1>4. Placed(program)'
    <2>1. \A d : Live(d)' = Live(d) /\ Stopped(d)' = Stopped(d)
                /\ ByHandle(d)' = ByHandle(d) /\ \A n : Own(d, n)' = Own(d, n)
      BY <1>1 DEF Live, Stopped, ByHandle, Own
    <2>2. ASSUME NEW c, NEW e, NEW ep, Valid(c, e, ep) PROVE Valid(c, e, ep)'
      BY <1>1, <2>1, <2>2, SameValid
    <2> QED
      BY <1>1, <1>2, <2>2, SamePlace
  <1> QED
    BY <1>3, <1>4

LEMMA InitiallyValid ==
  ASSUME Init, NEW c, Weaker(c, Initially(board)), c.frame = {}, NEW e, NEW ep
  PROVE  Valid(c, e, ep)
  <1>1. /\ c.on = {} /\ c.down \subseteq Drivers /\ c.up = {} /\ c.tried = {}
        /\ c.manned \subseteq Drivers /\ c.ready \subseteq Drivers
        /\ c.tidy \subseteq Drivers
    BY DEF Weaker, Fields, Initially, DriversOf, Drivers
  <1>2. /\ pub = [d \in Drivers |-> 0] /\ made = [d \in Drivers |-> 0]
        /\ thr = {} /\ facts = {}
    BY DEF Init
  <1>3. OfFacts(c)
    BY <1>1, <1>2 DEF OfFacts
  <1>4. \A d \in Drivers : pub[d] = 0 /\ Manned(d) /\ Tidy(d, {})
    BY <1>2 DEF Manned, Tidy
  <1>5. OfDrivers(c)
    BY <1>1, <1>2, <1>4 DEF OfDrivers, Live
  <1>6. OfNodes(c) /\ OfFrame(c, e, ep)
    BY <1>2 DEF OfNodes, OfFrame, Opens
  <1> QED
    BY <1>3, <1>5, <1>6 DEF Valid

LEMMA InitSafe ==
  ASSUME Init
  PROVE  Safe
  <1>1. /\ board \in DOMAIN Programs /\ stack = <<>>
        /\ pub = [d \in Drivers |-> 0] /\ made = [d \in Drivers |-> 0]
        /\ gone = {} /\ thr = {} /\ facts = {}
        /\ faults = 0 /\ blamed = {} /\ missed = {} /\ misused = {}
    BY DEF Init
  <1>2. New = {} /\ Cardinality(New) = 0 /\ IsFiniteSet(thr)
    BY <1>1, FS_EmptySet DEF New
  <1>3. TypeOK
    BY <1>1, <1>2, MaxFaultsAssumption DEF TypeOK
  <1>4. Granted /\ OneServer
    BY <1>1, <1>2 DEF Granted, OneServer
  <1>5. Locked /\ Kept
    BY <1>1 DEF Locked, Live, Kept
  <1> QED
    BY <1>3, <1>4, <1>5 DEF Safe

LEMMA InitPlaced ==
  ASSUME Init, Sound(board, todo)
  PROVE  Placed(todo)
  <1>1. PICK book : book = Outline[board][todo]
    OBVIOUS
  <1>2. /\ todo \in Seq(DOMAIN Plans[board])
        /\ DOMAIN book.rest = 1 .. Len(todo) + 1
        /\ \A k \in DOMAIN book.rest : Suffices(board, book.rest[k])
        /\ Weaker(book.rest[1], Initially(board))
    BY <1>1 DEF Sound, SoundProgram
  <1>3. 1 \in DOMAIN book.rest
    BY <1>2
  <1>4. book.rest[1].frame = {}
    BY <1>2, <1>3 DEF Suffices
  <1>5. Valid(book.rest[1], "none", 0)
    BY <1>2, <1>4, InitiallyValid
  <1>6. Len(todo) - Len(todo) = 0 /\ todo = SubSeq(todo, 1, Len(todo))
    BY <1>2
  <1>7. stack = <<>>
    BY DEF Init
  <1> QED
    BY <1>1, <1>5, <1>6, <1>7 DEF Placed

(* Outlined.  Wherever root is in the start-up of a board, what the outline*)
(* claims of that place holds, and with it what holds everywhere: the      *)
(* types, a server created is granted its capabilities by the next step,   *)
(* and a driver that has a server cannot get to create a second one.       *)
THEOREM StartOutlined ==
  ASSUME OutlineSound(DOMAIN Programs)
  PROVE  Spec => []Outlined
  <1>1. Init => Outlined
    <2>1. ASSUME Init PROVE Outlined
      <3>1. board \in DOMAIN Programs /\ todo \in Programs[board]
        BY <2>1 DEF Init
      <3>2. Sound(board, todo)
        BY <3>1 DEF OutlineSound
      <3> QED
        BY <2>1, <3>1, <3>2, InitSafe, InitPlaced DEF Outlined, Safe
    <2> QED
      BY <2>1
  <1>2. Outlined /\ [Next]_vars => Outlined'
    <2>1. ASSUME Outlined, [Next]_vars PROVE Outlined'
      <3>1. PICK program \in Programs[board] : Placed(program)
        BY <2>1 DEF Outlined
      <3>2. board \in DOMAIN Programs /\ board' = board
        BY <2>1, BoardStays DEF Outlined, TypeOK
      <3>3. Follow(program)
        BY <2>1, <3>1, <3>2 DEF Follow, Outlined, Safe, OutlineSound
      <3>4. Safe' /\ Placed(program)'
        BY <2>1, <3>3, FollowStep, FollowIdle
      <3>5. todo' \in Programs[board] => Sound(board, todo')
        BY <3>2 DEF OutlineSound
      <3> QED
        BY <3>1, <3>2, <3>4, <3>5 DEF Outlined, Safe
    <2> QED
      BY <2>1
  <1> QED
    BY <1>1, <1>2, PTL DEF Spec

(* What is known when root rests.                                          *)
LEMMA AtRestKnown ==
  ASSUME OutlineSound(DOMAIN Programs), Outlined, AtRest
  PROVE  \E c : Suffices(board, c) /\ Valid(c, "none", 0) /\ SoundPlans(board)
  <1>1. PICK program \in Programs[board] : Placed(program)
    BY DEF Outlined
  <1>2. Sound(board, program)
    BY DEF Outlined, TypeOK, OutlineSound
  <1>3. PICK book, k :
          book = Outline[board][program] /\ k = Len(program) - Len(todo)
    OBVIOUS
  <1>4. /\ k \in Nat /\ todo = SubSeq(program, k + 1, Len(program))
        /\ Valid(book.rest[k + 1], "none", 0)
    BY <1>1, <1>3 DEF Placed, AtRest
  <1>5. /\ program \in Seq(DOMAIN Plans[board])
        /\ DOMAIN book.rest = 1 .. Len(program) + 1
        /\ \A j \in DOMAIN book.rest : Suffices(board, book.rest[j])
        /\ SoundPlans(board)
    BY <1>2, <1>3 DEF Sound, SoundProgram
  <1>6. k + 1 \in 1 .. Len(program) + 1
    <2>1. Len(todo) \in Nat
      BY <1>4, <1>5, RestOf
    <2>2. Len(program) \in Nat
      BY <1>5
    <2>3. k <= Len(program)
      BY <1>3, <2>1, <2>2
    <2> QED
      BY <1>4, <2>2, <2>3
  <1> QED
    BY <1>4, <1>5, <1>6

(* A driver said to be manned, none of whose servers has stopped.          *)
LEMMA MannedServes ==
  ASSUME TypeOK, Kept, New = {}, NEW d \in Drivers, pub[d] # 0, Manned(d)
  PROVE  Served(d) \/ Stopped(d)
  <1>1. <<d, pub[d]>> \notin gone
    BY DEF Kept
  <1>2. \A t \in thr : t.st # "dead" => t.st = "serving"
    BY DEF TypeOK, Threads, New
  <1>3. Own(d, pub[d]) => Served(d)
    BY <1>1, <1>2 DEF Own, Served, Serves
  <1>4. ByHandle(d) => Served(d)
    BY <1>1, <1>2 DEF ByHandle, Served, Serves
  <1> QED
    BY <1>3, <1>4 DEF Manned

LEMMA OutlinedRest ==
  ASSUME OutlineSound(DOMAIN Programs), Outlined
  PROVE  Unwound /\ RegisteredOpens /\ BootOrder
  <1>1. TypeOK /\ Granted /\ Kept
    BY DEF Outlined
  <1>2. ASSUME AtRest
        PROVE  /\ \A d \in Drivers :
                     /\ pub[d] # 0 /\ d \notin blamed => Served(d)
                     /\ d \in Unwinding[board] =>
                          /\ pub[d] # 0 => Served(d) \/ Stopped(d)
                          /\ \A n \in 1 .. made[d] : <<d, n>> \in gone \/ pub[d] = n
               /\ \A node \in Devices[board] :
                     node.path \in facts /\ node.drivers \cap blamed = {} =>
                        /\ \A d \in node.drivers : Served(d)
                        /\ node.flags \subseteq facts
               /\ {"cpu", "safety", "cpu1"} \cap facts = {}
               /\ "trap off" \in facts => "osc" \notin facts
    <2>1. PICK c :
            Suffices(board, c) /\ Valid(c, "none", 0) /\ SoundPlans(board)
      BY <1>2, AtRestKnown
    <2>2. New = {}
      BY <1>1, <1>2 DEF Granted, Running, AtRest
    <2>3. DriversOf(board) = Drivers
      BY DEF DriversOf, Drivers
    <2>4. \A d \in Drivers : d \in blamed \/ Manned(d)
      BY <2>1, <2>3 DEF Suffices, Valid, OfDrivers
    <2>5. \A d \in Drivers : Stopped(d) => d \in blamed
      BY <1>1 DEF Kept, Stopped
    <2>6. \A d \in Drivers : pub[d] # 0 /\ d \notin blamed => Served(d)
      BY <1>1, <2>2, <2>4, <2>5, MannedServes
    <2>7. ASSUME NEW d \in Drivers, d \in Unwinding[board]
          PROVE  /\ pub[d] # 0 => Served(d) \/ Stopped(d)
                 /\ \A n \in 1 .. made[d] : <<d, n>> \in gone \/ pub[d] = n
      <3>1. Manned(d) /\ Tidy(d, {})
        BY <2>1, <2>7 DEF Suffices, Valid, OfDrivers
      <3> QED
        BY <1>1, <2>2, <3>1, MannedServes DEF Tidy
    <2>8. ASSUME NEW node \in Devices[board], node.path \in facts,
                 node.drivers \cap blamed = {}
          PROVE  /\ \A d \in node.drivers : Served(d)
                 /\ node.flags \subseteq facts
      <3>1. Opens(node)
        BY <2>1, <2>8 DEF Suffices, Valid, OfNodes
      <3>2. node.flags \subseteq facts /\ \A d \in node.drivers : pub[d] # 0
        BY <2>8, <3>1 DEF Opens, Met
      <3>3. node.drivers \subseteq Drivers
        BY <2>1, <2>3 DEF SoundPlans
      <3> QED
        BY <2>6, <2>8, <3>2, <3>3
    <2>9. /\ {"cpu", "safety", "cpu1"} \cap facts = {}
          /\ "trap off" \in facts => "osc" \notin facts
      <3>1. c.off \cap facts = {} /\ Windows \subseteq c.off
        BY <2>1 DEF Suffices, Valid, OfFacts
      <3>2. <<"trap off", "osc">> \in c.apart
        BY <2>1 DEF Suffices, Conflicts
      <3>3. <<"trap off", "osc">>[1] \in facts => <<"trap off", "osc">>[2] \notin facts
        BY <2>1, <3>2 DEF Valid, OfFacts
      <3> QED
        BY <3>1, <3>3 DEF Windows
    <2> QED
      BY <2>6, <2>7, <2>8, <2>9
  <1>3. Unwound
    BY <1>2 DEF Unwound
  <1>4. RegisteredOpens
    BY <1>2 DEF RegisteredOpens
  <1>5. BootOrder
    BY <1>1, <1>2 DEF BootOrder, Kept
  <1> QED
    BY <1>3, <1>4, <1>5

(* The stack of root, the handles, the endpoints and the threads keep their*)
(* types, endpoints are numbered as created, and at most one server awaits *)
(* its capabilities.                                                       *)
THEOREM StartTyped ==
  ASSUME OutlineSound(DOMAIN Programs)
  PROVE  Spec => []TypeOK
  <1>1. Outlined => TypeOK
    BY DEF Outlined
  <1> QED
    BY <1>1, StartOutlined, PTL

(* OneServer.  However often the *_init functions of a board are called,   *)
(* and whatever fails in between, no driver outside Repeatable gets two    *)
(* servers on the same hardware: the guards on the global handles and on   *)
(* the *_ready flags are enough.                                           *)
THEOREM StartOneServer ==
  ASSUME OutlineSound(DOMAIN Programs)
  PROVE  Spec => []OneServer
  <1>1. Outlined => OneServer
    BY DEF Outlined
  <1> QED
    BY <1>1, StartOutlined, PTL

(* Unwound.  When root is between two calls, a valid handle has its server,*)
(* unless the start-up met a fault; and the drivers that undo a failed     *)
(* start-up have, even then, no endpoint left that nobody can reach and no *)
(* valid handle without a server, but one that stopped on its own.         *)
THEOREM StartUnwound ==
  ASSUME OutlineSound(DOMAIN Programs)
  PROVE  Spec => []Unwound
  <1>1. Outlined => Unwound
    BY OutlinedRest
  <1> QED
    BY <1>1, StartOutlined, PTL

(* RegisteredOpens.  A device node that board_devices_register* has entered*)
(* leads to a running adapter and a running driver whose open succeeds,    *)
(* unless the start-up of one of the two met a fault.                      *)
THEOREM StartRegistered ==
  ASSUME OutlineSound(DOMAIN Programs)
  PROVE  Spec => []RegisteredOpens
  <1>1. Outlined => RegisteredOpens
    BY OutlinedRest
  <1> QED
    BY <1>1, StartOutlined, PTL

(* BootOrder.  The clock, PLL, memory and core bring-up relies only on what*)
(* it has established, but for polls that were given up; when root rests no*)
(* ENDINIT window is open, and the SMU trap is off only if the oscillator  *)
(* did not start.                                                          *)
THEOREM StartInOrder ==
  ASSUME OutlineSound(DOMAIN Programs)
  PROVE  Spec => []BootOrder
  <1>1. Outlined => BootOrder
    BY OutlinedRest
  <1> QED
    BY <1>1, StartOutlined, PTL
=============================================================================
