---------------------------- MODULE Maps_proofs ----------------------------
(***************************************************************************)
(* Theorems about the two nodes that draw maps: Pgo, the map of a session, *)
(* for any number of keyframes, samples and sessions, any thresholds and   *)
(* any corrections the solver may make; and RiskLayer, the costmap, for any*)
(* anchors, poses, bounds and obstacles.                                   *)
(***************************************************************************)
EXTENDS Pgo, RiskLayer, WellFoundedInduction, TLAPS

LEMMA LeastElement ==
  ASSUME NEW S \in SUBSET Nat, S # {}
  PROVE  \E x \in S : \A y \in S : x <= y
<1>1. PICK x \in S : \A y \in S : ~(<< y, x >> \in OpToRel(<, Nat))
  BY NatLessThanWellFounded, WFMin, Zenon
<1>2. \A y \in S : ~(y < x)
  BY <1>1 DEF OpToRel
<1> QED
  BY <1>2

-----------------------------------------------------------------------------
(* Pgo.                                                                    *)
KeyPoseRec == [local : Int, global : Int, time : Int]
PairRec(n) == [key : 1..n, enu : Int, map : Int]

OfKeys(n) == { KeyPoseFactor(i) : i \in 1..n }
OfLoops(pairs) == { << "loop" >> \o p : p \in ToSet(pairs) }
OfGps(factors, n) == { f \in factors : f[1] = "gps" /\ f[2] \in 1..n }

LoopPairs(n) == Seq((1..n) \X (1..n))

(* What the solver has of n keyframes and the loops between them.          *)
InSolver(factors, pairs, n) ==
  ToSet(factors) = OfKeys(n) \cup OfLoops(pairs) \cup OfGps(ToSet(factors), n)

(* None, or one from an earlier keyframe to the newest of n.               *)
LoopsFound(loops, n) ==
  loops = << >> \/ \E t \in 1..(n - 1) : loops = << << t, n >> >>

Factor == { KeyPoseFactor(i) : i \in Nat } \cup { << "gps", i >> : i \in Nat }
            \cup { << "loop", i, j >> : i \in Nat, j \in Nat }

-----------------------------------------------------------------------------
(* Sequences and factors.                                                  *)

(* One sequence behind another that has no element of it.                  *)
LEMMA Joined ==
  ASSUME NEW S, NEW s \in Seq(S), NEW t \in Seq(S)
  PROVE  /\ s \o t \in Seq(S)
         /\ ToSet(s \o t) = ToSet(s) \cup ToSet(t)
         /\ IsInjective(s) /\ IsInjective(t) /\ ToSet(s) \cap ToSet(t) = {}
              => IsInjective(s \o t)
<1>1. s \o t \in Seq(S) /\ Len(s \o t) = Len(s) + Len(t)
  OBVIOUS
<1>2. /\ \A i \in 1..Len(s) : (s \o t)[i] = s[i]
      /\ \A i \in 1..Len(t) : (s \o t)[Len(s) + i] = t[i]
  OBVIOUS
<1>3. Len(s) \in Nat /\ Len(t) \in Nat
  OBVIOUS
<1>4. DOMAIN s = 1..Len(s) /\ DOMAIN t = 1..Len(t)
      /\ DOMAIN (s \o t) = 1..(Len(s) + Len(t))
  BY <1>1
<1>5. \A i \in 1..(Len(s) + Len(t)) :
        \/ i \in 1..Len(s)
        \/ i - Len(s) \in 1..Len(t) /\ i = Len(s) + (i - Len(s))
  BY <1>3
<1>6. /\ 1..Len(s) \subseteq 1..(Len(s) + Len(t))
      /\ \A i \in 1..Len(t) : Len(s) + i \in 1..(Len(s) + Len(t))
  BY <1>3
<1> DEFINE st == s \o t
<1>7. /\ \A i \in 1..Len(s) : st[i] = s[i]
      /\ \A i \in 1..Len(t) : st[Len(s) + i] = t[i]
      /\ DOMAIN st = 1..(Len(s) + Len(t))
  BY <1>2, <1>4
<1> HIDE DEF st
<1>8. ToSet(st) = ToSet(s) \cup ToSet(t)
  <2>1. \A x \in ToSet(st) : x \in ToSet(s) \cup ToSet(t)
    BY <1>4, <1>5, <1>7 DEF ToSet
  <2>2. \A x \in ToSet(s) : x \in ToSet(st)
    BY <1>4, <1>6, <1>7 DEF ToSet
  <2>3. \A x \in ToSet(t) : x \in ToSet(st)
    BY <1>4, <1>6, <1>7 DEF ToSet
  <2> QED
    BY <2>1, <2>2, <2>3
<1>9. ASSUME IsInjective(s), IsInjective(t), ToSet(s) \cap ToSet(t) = {}
      PROVE  IsInjective(st)
  <2> SUFFICES ASSUME NEW a \in 1..(Len(s) + Len(t)), NEW b \in 1..(Len(s) + Len(t)),
                      st[a] = st[b]
               PROVE  a = b
    BY <1>7 DEF IsInjective
  <2>1. CASE a \in 1..Len(s) /\ b \in 1..Len(s)
    BY <1>4, <1>7, <1>9, <2>1 DEF IsInjective
  <2>2. CASE ~(a \in 1..Len(s)) /\ ~(b \in 1..Len(s))
    <3>1. a - Len(s) \in 1..Len(t) /\ b - Len(s) \in 1..Len(t)
      BY <1>5, <2>2
    <3>2. t[a - Len(s)] = t[b - Len(s)]
      BY <1>5, <1>7, <2>2
    <3>3. a - Len(s) = b - Len(s)
      BY <1>4, <1>9, <3>1, <3>2 DEF IsInjective
    <3> QED
      BY <1>3, <3>3
  <2>3. ASSUME NEW c \in 1..Len(s), NEW d \in 1..Len(t)
        PROVE  s[c] # t[d]
    BY <1>4, <1>9 DEF ToSet
  <2>4. CASE a \in 1..Len(s) /\ ~(b \in 1..Len(s))
    <3>1. b - Len(s) \in 1..Len(t) /\ st[b] = t[b - Len(s)] /\ st[a] = s[a]
      BY <1>5, <1>7, <2>4
    <3> QED
      BY <2>3, <2>4, <3>1
  <2>5. CASE ~(a \in 1..Len(s)) /\ b \in 1..Len(s)
    <3>1. a - Len(s) \in 1..Len(t) /\ st[a] = t[a - Len(s)] /\ st[b] = s[b]
      BY <1>5, <1>7, <2>5
    <3> QED
      BY <2>3, <2>5, <3>1
  <2> QED
    BY <2>1, <2>2, <2>4, <2>5
<1> QED
  BY <1>1, <1>8, <1>9 DEF st

LEMMA OneElement ==
  ASSUME NEW S, NEW e \in S
  PROVE  << e >> \in Seq(S) /\ ToSet(<< e >>) = {e} /\ IsInjective(<< e >>)
<1>1. << e >> \in Seq(S) /\ DOMAIN << e >> = {1} /\ << e >>[1] = e
  OBVIOUS
<1> QED
  BY <1>1 DEF ToSet, IsInjective

LEMMA NoElement ==
  ASSUME NEW S
  PROVE  << >> \in Seq(S) /\ ToSet(<< >>) = {} /\ IsInjective(<< >>)
<1>1. << >> \in Seq(S) /\ DOMAIN << >> = {}
  OBVIOUS
<1> QED
  BY <1>1 DEF ToSet, IsInjective

(* The elements of two sequences, one behind the other.                    *)
LEMMA Behind ==
  ASSUME NEW S, NEW s \in Seq(S), NEW t \in Seq(S)
  PROVE  /\ s \o t \in Seq(S) /\ Len(s \o t) = Len(s) + Len(t)
         /\ \A i \in 1..Len(s) : (s \o t)[i] = s[i]
         /\ \A i \in 1..Len(t) : (s \o t)[Len(s) + i] = t[i]
  OBVIOUS

LEMMA LoopFactor ==
  ASSUME NEW p \in Nat \X Nat
  PROVE  << "loop" >> \o p = << "loop", p[1], p[2] >>
<1> DEFINE S == {"loop", p[1], p[2]}
           one == << "loop" >>
           two == << p[1], p[2] >>
           all == << "loop", p[1], p[2] >>
           j == one \o two
<1>1. two = p
  OBVIOUS
<1>2. /\ one \in Seq(S) /\ Len(one) = 1 /\ one[1] = "loop"
      /\ two \in Seq(S) /\ Len(two) = 2 /\ two[1] = p[1] /\ two[2] = p[2]
      /\ all \in Seq(S) /\ Len(all) = 3
      /\ all[1] = "loop" /\ all[2] = p[1] /\ all[3] = p[2]
  OBVIOUS
<1>3. one \in Seq(S) /\ two \in Seq(S)
  BY <1>2
<1> HIDE DEF S, one, two, all
<1>4. /\ j \in Seq(S) /\ Len(j) = Len(one) + Len(two)
      /\ \A i \in 1..Len(one) : j[i] = one[i]
      /\ \A i \in 1..Len(two) : j[Len(one) + i] = two[i]
  BY <1>3, Behind
<1> HIDE DEF j
<1>5. Len(j) = 3 /\ j[1] = one[1]
  BY <1>2, <1>4
<1>6. j[1 + 1] = two[1] /\ j[1 + 2] = two[2]
  BY <1>2, <1>4
<1>7. \A i \in 1..3 : j[i] = all[i]
  BY <1>2, <1>5, <1>6
<1>8. j = all
  BY <1>2, <1>4, <1>5, <1>7
<1>9. one \o two = all
  BY <1>8 DEF j
<1> QED
  BY <1>1, <1>9 DEF one, all

(* Which factors differ.                                                   *)
LEMMA FactorsDiffer ==
  /\ \A i \in Nat : KeyPoseFactor(i)[1] \in {"prior", "between"}
  /\ \A i, j \in Nat \ {0} : KeyPoseFactor(i) = KeyPoseFactor(j) => i = j
  /\ \A i \in Nat : << "gps", i >>[1] = "gps" /\ << "gps", i >>[2] = i
  /\ \A i, j \in Nat : << "loop", i, j >>[1] = "loop" /\ << "loop", i, j >>[3] = j
<1>1. \A i \in Nat : KeyPoseFactor(i)[1] \in {"prior", "between"}
  BY DEF KeyPoseFactor
<1>2. ASSUME NEW i \in Nat \ {0}, NEW j \in Nat \ {0},
             KeyPoseFactor(i) = KeyPoseFactor(j)
      PROVE  i = j
  <2>1. CASE i = 1 /\ j = 1
    BY <2>1
  <2>2. CASE i # 1 /\ j # 1
    <3>1. << "between", i - 1, i >> = << "between", j - 1, j >>
      BY <1>2, <2>2 DEF KeyPoseFactor
    <3> QED
      BY <3>1
  <2>3. CASE i = 1 /\ j # 1
    <3>1. KeyPoseFactor(i)[1] = "prior" /\ KeyPoseFactor(j)[1] = "between"
      BY <2>3 DEF KeyPoseFactor
    <3> QED
      BY <1>2, <3>1
  <2>4. CASE i # 1 /\ j = 1
    <3>1. KeyPoseFactor(j)[1] = "prior" /\ KeyPoseFactor(i)[1] = "between"
      BY <2>4 DEF KeyPoseFactor
    <3> QED
      BY <1>2, <3>1
  <2> QED
    BY <2>1, <2>2, <2>3, <2>4
<1>3. \A i \in Nat : << "gps", i >>[1] = "gps" /\ << "gps", i >>[2] = i
  OBVIOUS
<1>4. \A i, j \in Nat : << "loop", i, j >>[1] = "loop" /\ << "loop", i, j >>[3] = j
  OBVIOUS
<1> QED
  BY <1>1, <1>2, <1>3, <1>4

-----------------------------------------------------------------------------
(* The inductive invariant.                                                *)

TypeInv ==
  /\ cloud_buffer \in Seq([time : Int, pos : Int])
  /\ gps_buffer \in Seq([time : Int, enu : Int])
  /\ m_key_poses \in Seq(KeyPoseRec)
  /\ m_t_offset \in Int
  /\ alignment_pairs \in Seq(PairRec(Len(m_key_poses)))

(* What is in the solver, and that every loop in it concerns keyframes     *)
(* there are: the next keyframe's factors are new.                         *)
GraphInv ==
  /\ m_graph = << >>
  /\ m_isam2 \in Seq(Factor) /\ IsInjective(m_isam2)
  /\ m_history_pairs \in LoopPairs(Len(m_key_poses))
  /\ InSolver(m_isam2, m_history_pairs, Len(m_key_poses))

(* A valid alignment is the one of the pairs, and these lie where their    *)
(* keyframes are.                                                          *)
AlignInv ==
  /\ alignment.valid <=> Solvable(alignment_pairs)
  /\ alignment.valid => alignment.from = alignment_pairs
  /\ \A i \in 1..Len(alignment_pairs) :
       alignment_pairs[i].map = m_key_poses[alignment_pairs[i].key].global

(* What is published is the offset of the last keyframe.                   *)
OffsetInv ==
  /\ last_tf = << >> \/ last_tf = << m_t_offset >>
  /\ last_tf # << >> => m_key_poses # << >>
  /\ m_key_poses # << >> => last_offset = << m_t_offset >>

IInv == TypeInv /\ GraphInv /\ AlignInv /\ OffsetInv /\ SavedMapIsWhole

(* Where a session starts.                                                 *)
Fresh ==
  /\ cloud_buffer = << >> /\ gps_buffer = << >>
  /\ m_key_poses = << >> /\ m_history_pairs = << >>
  /\ m_graph = << >> /\ m_isam2 = << >> /\ m_t_offset = 0
  /\ alignment_pairs = << >> /\ alignment = [valid |-> FALSE, from |-> << >>]
  /\ last_tf = << >>

SessionInv == TypeInv /\ GraphInv /\ AlignInv /\ OffsetInv

LEMMA FreshInv == Fresh => SessionInv
<1> SUFFICES ASSUME Fresh PROVE SessionInv
  OBVIOUS
<1>0. Len(<< >>) = 0 /\ 1..0 = {} /\ \A S : << >> \in Seq(S)
  OBVIOUS
<1>1. TypeInv
  <2>1. << >> \in Seq(PairRec(Len(m_key_poses)))
    BY <1>0
  <2> QED
    BY <1>0, <2>1 DEF Fresh, TypeInv
<1>2. GraphInv
  <2>1. ToSet(<< >>) = {} /\ IsInjective(<< >>)
    BY NoElement
  <2>2. OfKeys(0) = {} /\ OfLoops(<< >>) = {} /\ OfGps({}, 0) = {}
    BY <1>0, <2>1 DEF OfKeys, OfLoops, OfGps
  <2>3. << >> \in Seq(Factor) /\ << >> \in Seq((1..0) \X (1..0))
    BY <1>0
  <2> QED
    BY <1>0, <2>1, <2>2, <2>3 DEF Fresh, GraphInv, InSolver, LoopPairs
<1>3. AlignInv
  <2>1. ~Solvable(<< >>)
    BY <1>0, PgoAssumption DEF Solvable
  <2> QED
    BY <1>0, <2>1 DEF Fresh, AlignInv
<1>4. OffsetInv
  BY DEF Fresh, OffsetInv
<1> QED
  BY <1>1, <1>2, <1>3, <1>4 DEF SessionInv

LEMMA FreshAgain == Fresh' => SessionInv'
  BY FreshInv, PTL

LEMMA InitIInv == Init => IInv
<1>1. Init => Fresh /\ SavedMapIsWhole
  BY DEF Init, Fresh, SavedMapIsWhole
<1> QED
  BY <1>1, FreshInv DEF IInv, SessionInv

-----------------------------------------------------------------------------
(* The factors of a keyframe.                                              *)

LEMMA Single ==
  ASSUME NEW S, NEW e \in S, NEW s, s = [i \in 1..1 |-> e]
  PROVE  s \in Seq(S) /\ ToSet(s) = {e} /\ IsInjective(s)
<1>1. s \in Seq(S) /\ DOMAIN s = {1} /\ s[1] = e
  OBVIOUS
<1> QED
  BY <1>1 DEF ToSet, IsInjective

LEMMA LoopsOf ==
  ASSUME NEW p \in Nat \X Nat
  PROVE  [i \in DOMAIN << p >> |-> << "loop" >> \o << p >>[i]]
           = [i \in 1..1 |-> << "loop", p[1], p[2] >>]
<1> DEFINE f == << "loop", p[1], p[2] >>
           lf == [i \in DOMAIN << p >> |-> << "loop" >> \o << p >>[i]]
<1>1. DOMAIN << p >> = 1..1 /\ << p >>[1] = p
  OBVIOUS
<1>2. << "loop" >> \o p = f
  BY LoopFactor
<1>3. DOMAIN lf = DOMAIN << p >> /\ \A i \in DOMAIN << p >> : lf[i] = << "loop" >> \o << p >>[i]
  OBVIOUS
<1>4. lf = [i \in DOMAIN lf |-> lf[i]]
  OBVIOUS
<1> HIDE DEF f, lf
<1>5. lf[1] = << "loop" >> \o p
  <2>1. 1 \in DOMAIN << p >>
    OBVIOUS
  <2>2. lf[1] = << "loop" >> \o << p >>[1]
    BY <1>3, <2>1
  <2> QED
    BY <1>1, <2>2, Zenon
<1>6. lf[1] = f
  BY <1>2, <1>5, Zenon
<1>7. lf = [i \in 1..1 |-> f]
  BY <1>1, <1>3, <1>4, <1>6
<1> QED
  BY <1>7 DEF lf, f

(* Three groups of factors, none of them given before.                     *)
LEMMA Handed ==
  ASSUME NEW S, NEW old \in Seq(S), NEW a \in Seq(S), NEW b \in Seq(S), NEW c \in Seq(S),
         IsInjective(old), IsInjective(a), IsInjective(b), IsInjective(c),
         ToSet(a) \cap ToSet(b) = {},
         (ToSet(a) \cup ToSet(b)) \cap ToSet(c) = {},
         ToSet(old) \cap (ToSet(a) \cup ToSet(b) \cup ToSet(c)) = {}
  PROVE  /\ old \o (a \o b \o c) \in Seq(S)
         /\ IsInjective(old \o (a \o b \o c))
         /\ ToSet(old \o (a \o b \o c)) = ToSet(old) \cup ToSet(a) \cup ToSet(b) \cup ToSet(c)
<1> DEFINE ab == a \o b
           abc == ab \o c
           new == old \o abc
<1>1. ab \in Seq(S) /\ ToSet(ab) = ToSet(a) \cup ToSet(b) /\ IsInjective(ab)
  BY Joined
<1> HIDE DEF ab
<1>2. abc \in Seq(S) /\ ToSet(abc) = ToSet(ab) \cup ToSet(c) /\ IsInjective(abc)
  BY <1>1, Joined
<1> HIDE DEF abc
<1>3. new \in Seq(S) /\ ToSet(new) = ToSet(old) \cup ToSet(abc) /\ IsInjective(new)
  BY <1>1, <1>2, Joined
<1> HIDE DEF new
<1>4. ToSet(new) = ToSet(old) \cup ToSet(a) \cup ToSet(b) \cup ToSet(c)
  BY <1>1, <1>2, <1>3
<1> QED
  BY <1>3, <1>4 DEF new, abc, ab

LEMMA NewFactors ==
  ASSUME NEW k \in Nat, NEW old \in Seq(Factor), IsInjective(old),
         NEW hist \in LoopPairs(k),
         InSolver(old, hist, k),
         NEW g, NEW graph0, graph0 = << >>,
         NEW loops, LoopsFound(loops, k + 1)
  PROVE  LET n == k + 1
             factors == graph0 \o << KeyPoseFactor(n) >>
                        \o (IF g THEN << << "gps", n >> >> ELSE << >>)
                        \o [i \in DOMAIN loops |-> << "loop" >> \o loops[i]]
             new == old \o factors
         IN  /\ new \in Seq(Factor) /\ IsInjective(new)
             /\ hist \o loops \in LoopPairs(n)
             /\ InSolver(new, hist \o loops, n)
<1> DEFINE n == k + 1
           kf == KeyPoseFactor(n)
           gf == << "gps", n >>
           gs == IF g THEN << gf >> ELSE << >>
           lf == [i \in DOMAIN loops |-> << "loop" >> \o loops[i]]
           one == graph0 \o << kf >>
           two == one \o gs
           factors == two \o lf
           new == old \o factors
<1>0. n \in Nat /\ n \in 1..n /\ n \notin 1..k /\ 1..n = (1..k) \cup {n} /\ n # 0
  OBVIOUS
<1>1. kf \in Factor /\ gf \in Factor
  BY <1>0 DEF Factor
<1>2. /\ \A f \in OfKeys(k) : f[1] \in {"prior", "between"} /\ f # kf
      /\ kf[1] \in {"prior", "between"}
  <2>1. \A i \in 1..k : i \in Nat \ {0} /\ i # n
    BY <1>0
  <2> QED
    BY <1>0, <2>1, FactorsDiffer DEF OfKeys
<1>3. \A p \in ToSet(hist) : /\ p \in Nat \X Nat /\ p[2] \in 1..k
                             /\ << "loop" >> \o p = << "loop", p[1], p[2] >>
  <2>1. \A p \in ToSet(hist) : p \in (1..k) \X (1..k)
    BY DEF ToSet, LoopPairs
  <2>2. \A p \in (1..k) \X (1..k) : p \in Nat \X Nat /\ p[2] \in 1..k
    OBVIOUS
  <2> QED
    BY <2>1, <2>2, LoopFactor
<1>4. \A f \in OfLoops(hist) : f[1] = "loop" /\ f[3] \in 1..k
  <2> SUFFICES ASSUME NEW f \in OfLoops(hist)
               PROVE  f[1] = "loop" /\ f[3] \in 1..k
    OBVIOUS
  <2>1. PICK p \in ToSet(hist) : f = << "loop" >> \o p
    BY DEF OfLoops
  <2>2. p[1] \in Nat /\ p[2] \in 1..k /\ f = << "loop", p[1], p[2] >>
    <3>1. p[1] \in Nat /\ p[2] \in 1..k
      BY <1>3
    <3>2. f = << "loop", p[1], p[2] >>
      BY <1>3, <2>1, Zenon
    <3> QED
      BY <3>1, <3>2
  <2> QED
    BY <2>2
<1>5. \A f \in OfGps(ToSet(old), k) : f[1] = "gps" /\ f[2] \in 1..k
  BY DEF OfGps
<1>6. gf[1] = "gps" /\ gf[2] = n
  OBVIOUS
<1>20. ToSet(old) = OfKeys(k) \cup OfLoops(hist) \cup OfGps(ToSet(old), k)
  BY DEF InSolver
<1>7. kf \notin ToSet(old) /\ gf \notin ToSet(old)
  <2> HIDE DEF kf, gf, n
  <2> QED
    BY <1>0, <1>2, <1>4, <1>5, <1>6, <1>20
<1> HIDE DEF kf, gf
<1>8. one \in Seq(Factor) /\ ToSet(one) = {kf} /\ IsInjective(one)
  <2>1. << kf >> \in Seq(Factor) /\ ToSet(<< kf >>) = {kf} /\ IsInjective(<< kf >>)
    BY <1>1, OneElement
  <2>2. graph0 \in Seq(Factor) /\ ToSet(graph0) = {} /\ IsInjective(graph0)
    BY NoElement
  <2> QED
    BY <2>1, <2>2, Joined
<1>9. /\ gs \in Seq(Factor) /\ IsInjective(gs)
      /\ ToSet(gs) = IF g THEN {gf} ELSE {}
  BY <1>1, OneElement, NoElement
<1> HIDE DEF one, gs
<1>10. kf # gf
  <2>1. kf[1] \in {"prior", "between"}
    BY <1>2
  <2> HIDE DEF n
  <2> QED
    BY <1>6, <2>1
<1>11. ToSet(lf) = OfLoops(loops)
  BY DEF ToSet, OfLoops
<1>12. /\ lf \in Seq(Factor) /\ IsInjective(lf)
       /\ loops \in Seq((1..n) \X (1..n))
       /\ \A f \in ToSet(lf) : f[1] = "loop" /\ f[3] = n
  <2>1. CASE loops = << >>
    <3>1. DOMAIN loops = {} /\ ToSet(loops) = {} /\ loops \in Seq((1..n) \X (1..n))
      BY <2>1, NoElement
    <3>2. DOMAIN lf = {} /\ 1..0 = {}
      BY <3>1
    <3>3. lf = [i \in DOMAIN lf |-> lf[i]]
      OBVIOUS
    <3> HIDE DEF lf
    <3>4. lf = [i \in 1..0 |-> kf]
      BY <3>2, <3>3
    <3>5. lf \in Seq(Factor)
      BY <1>1, <3>4
    <3> QED
      BY <3>1, <3>2, <3>5 DEF ToSet, IsInjective
  <2>2. ASSUME NEW t \in 1..k, loops = << << t, n >> >>
        PROVE  /\ lf \in Seq(Factor) /\ IsInjective(lf)
               /\ loops \in Seq((1..n) \X (1..n))
               /\ \A f \in ToSet(lf) : f[1] = "loop" /\ f[3] = n
    <3> DEFINE p == << t, n >>
               f == << "loop", p[1], p[2] >>
    <3>1. p \in Nat \X Nat /\ p \in (1..n) \X (1..n) /\ p[2] = n
      BY <1>0
    <3>2. f[1] = "loop" /\ f[3] = p[2] /\ f \in Factor
      <4>1. p[1] \in Nat /\ p[2] \in Nat
        BY <3>1
      <4> HIDE DEF p
      <4> QED
        BY <4>1 DEF Factor
    <3>3. lf = [i \in 1..1 |-> f]
      <4> HIDE DEF p, n
      <4>1. loops = << p >>
        BY <2>2 DEF p
      <4> QED
        BY <3>1, <4>1, LoopsOf, Zenon
    <3> HIDE DEF lf, f, n, p
    <3>4. lf \in Seq(Factor) /\ ToSet(lf) = {f} /\ IsInjective(lf)
      BY <3>2, <3>3, Single
    <3>5. loops \in Seq((1..n) \X (1..n))
      BY <2>2, <3>1, OneElement DEF p
    <3> QED
      BY <3>1, <3>2, <3>4, <3>5
  <2>3. loops = << >> \/ \E t \in 1..k : loops = << << t, n >> >>
    <3>1. n - 1 = k
      OBVIOUS
    <3> QED
      BY <3>1 DEF LoopsFound
  <2> HIDE DEF lf, n
  <2> QED
    BY <2>1, <2>2, <2>3
<1> HIDE DEF lf
<1>13. \A f \in ToSet(lf) : f # kf /\ f # gf /\ f \notin ToSet(old)
  <2>1. \A f \in ToSet(lf) : f \notin OfLoops(hist)
    <3> HIDE DEF n
    <3> QED
      BY <1>0, <1>4, <1>12
  <2>2. \A f \in ToSet(lf) : f[1] \notin {"prior", "between", "gps"}
    BY <1>12
  <2> QED
    BY <1>2, <1>5, <1>6, <1>20, <2>1, <2>2
<1>14. /\ ToSet(one) \cap ToSet(gs) = {}
       /\ (ToSet(one) \cup ToSet(gs)) \cap ToSet(lf) = {}
       /\ ToSet(old) \cap (ToSet(one) \cup ToSet(gs) \cup ToSet(lf)) = {}
  <2>1. ToSet(one) = {kf} /\ ToSet(gs) \subseteq {gf}
    BY <1>8, <1>9
  <2> HIDE DEF lf, n
  <2> QED
    BY <1>7, <1>10, <1>13, <2>1
<1>15. /\ new \in Seq(Factor) /\ IsInjective(new)
       /\ ToSet(new) = ToSet(old) \cup {kf} \cup (IF g THEN {gf} ELSE {}) \cup ToSet(lf)
  <2>1. /\ new \in Seq(Factor) /\ IsInjective(new)
        /\ ToSet(new) = ToSet(old) \cup ToSet(one) \cup ToSet(gs) \cup ToSet(lf)
    <3>1. /\ one \in Seq(Factor) /\ gs \in Seq(Factor) /\ lf \in Seq(Factor)
          /\ IsInjective(one) /\ IsInjective(gs) /\ IsInjective(lf)
      BY <1>8, <1>9, <1>12
    <3>2. /\ old \o (one \o gs \o lf) \in Seq(Factor)
          /\ IsInjective(old \o (one \o gs \o lf))
          /\ ToSet(old \o (one \o gs \o lf))
               = ToSet(old) \cup ToSet(one) \cup ToSet(gs) \cup ToSet(lf)
      BY <3>1, <1>14, Handed
    <3> QED
      BY <3>2
  <2> HIDE DEF new
  <2> QED
    BY <1>8, <1>9, <2>1
<1>16. /\ hist \o loops \in LoopPairs(n)
       /\ OfLoops(hist \o loops) = OfLoops(hist) \cup ToSet(lf)
  <2>1. hist \in Seq((1..n) \X (1..n))
    <3>1. (1..k) \X (1..k) \subseteq (1..n) \X (1..n)
      BY <1>0
    <3>2. hist \in Seq((1..k) \X (1..k))
      BY DEF LoopPairs
    <3> QED
      BY <3>1, <3>2
  <2>2. /\ hist \o loops \in Seq((1..n) \X (1..n))
        /\ ToSet(hist \o loops) = ToSet(hist) \cup ToSet(loops)
    <3> HIDE DEF n
    <3> QED
      BY <1>12, <2>1, Joined
  <2>3. OfLoops(hist \o loops) = OfLoops(hist) \cup OfLoops(loops)
    BY <2>2 DEF OfLoops
  <2> QED
    BY <1>11, <2>2, <2>3 DEF LoopPairs
<1> HIDE DEF new
<1>17. OfKeys(n) = OfKeys(k) \cup {kf}
  BY <1>0 DEF OfKeys, kf
<1>18. OfGps(ToSet(new), n) = OfGps(ToSet(old), k) \cup (IF g THEN {gf} ELSE {})
  <2>1. \A f \in OfGps(ToSet(old), k) : f \in OfGps(ToSet(new), n)
    BY <1>0, <1>15 DEF OfGps
  <2>2. g => gf \in OfGps(ToSet(new), n)
    BY <1>0, <1>6, <1>15 DEF OfGps
  <2>3. ASSUME NEW f \in OfGps(ToSet(new), n)
        PROVE  f \in OfGps(ToSet(old), k) \cup (IF g THEN {gf} ELSE {})
    <3>1. f \in ToSet(new) /\ f[1] = "gps"
      BY <2>3 DEF OfGps
    <3>2. f # kf /\ f \notin ToSet(lf)
      BY <1>2, <1>12, <3>1
    <3>3. f \in ToSet(old) => f \in OfGps(ToSet(old), k)
      BY <1>2, <1>4, <1>20, <3>1
    <3> QED
      BY <1>15, <3>1, <3>2, <3>3
  <2> QED
    BY <2>1, <2>2, <2>3
<1>19. InSolver(new, hist \o loops, n)
  <2> HIDE DEF n
  <2> QED
    BY <1>15, <1>16, <1>17, <1>18, <1>20 DEF InSolver
<1> QED
  BY <1>15, <1>16, <1>19 DEF new, factors, two, one, gs, lf, gf, kf

-----------------------------------------------------------------------------
(* The keyframes, and the GPS sample that belongs to one.                  *)

LEMMA ClosestIsSample ==
  ASSUME TypeInv, NEW time \in Int, ClosestGps(time) # << >>
  PROVE  ClosestGps(time)[1].enu \in Int
<1> DEFINE diff(i) == Dist(gps_buffer[i].time, time)
           near == { i \in DOMAIN gps_buffer : diff(i) < gps_window }
           best == { i \in near : \A j \in near : diff(i) <= diff(j) }
           diffs == { diff(i) : i \in near }
<1>1. gps_buffer \in Seq([time : Int, enu : Int]) /\ DOMAIN gps_buffer \subseteq Nat
  BY DEF TypeInv
<1>2. \A i \in DOMAIN gps_buffer : gps_buffer[i].time \in Int /\ gps_buffer[i].enu \in Int
  <2>1. \A i \in DOMAIN gps_buffer : gps_buffer[i] \in [time : Int, enu : Int]
    <3> DEFINE S == [time : Int, enu : Int]
    <3>1. gps_buffer \in Seq(S)
      BY <1>1
    <3> HIDE DEF S
    <3>2. \A i \in DOMAIN gps_buffer : gps_buffer[i] \in S
      BY <3>1
    <3> QED
      BY <3>2 DEF S
  <2>2. \A r \in [time : Int, enu : Int] : r.time \in Int /\ r.enu \in Int
    OBVIOUS
  <2> QED
    BY <2>1, <2>2
<1>3. \A i \in DOMAIN gps_buffer : diff(i) \in Nat
  BY <1>2 DEF Dist
<1>4. near # {} /\ ClosestGps(time) = << gps_buffer[Min(best)] >>
  BY DEF ClosestGps
<1> HIDE DEF diff
<1>5. best # {}
  <2>1. diffs \in SUBSET Nat /\ diffs # {}
    BY <1>3, <1>4
  <2>2. PICK d \in diffs : \A e \in diffs : d <= e
    BY <2>1, LeastElement
  <2> QED
    BY <2>2
<1>6. best \in SUBSET Nat /\ best \subseteq DOMAIN gps_buffer
  BY <1>1
<1> HIDE DEF best
<1>7. Min(best) \in best
  BY <1>5, <1>6, LeastElement DEF Min
<1>8. Min(best) \in DOMAIN gps_buffer
  BY <1>6, <1>7
<1>9. ClosestGps(time)[1] = gps_buffer[Min(best)]
  BY <1>4
<1> QED
  BY <1>2, <1>8, <1>9

LEMMA GraphPairs ==
  ASSUME NEW n \in Nat, NEW keys \in Seq(KeyPoseRec), Len(keys) = n,
         NEW pairs \in Seq(PairRec(n))
  PROVE  /\ PairsFromGraph(pairs, keys) \in Seq(PairRec(n))
         /\ Len(PairsFromGraph(pairs, keys)) = Len(pairs)
         /\ \A i \in 1..Len(pairs) :
              PairsFromGraph(pairs, keys)[i].map
                = keys[PairsFromGraph(pairs, keys)[i].key].global
<1> DEFINE from == PairsFromGraph(pairs, keys)
<1>1. DOMAIN pairs = 1..Len(pairs) /\ \A i \in 1..Len(pairs) : pairs[i] \in PairRec(n)
  OBVIOUS
<1>2. \A i \in 1..n : keys[i].global \in Int
  <2>1. \A i \in 1..n : keys[i] \in KeyPoseRec
    OBVIOUS
  <2>2. \A r \in KeyPoseRec : r.global \in Int
    BY DEF KeyPoseRec
  <2> QED
    BY <2>1, <2>2
<1>3. ASSUME NEW i \in 1..Len(pairs)
      PROVE  /\ from[i] \in PairRec(n)
             /\ from[i].map = keys[from[i].key].global
  <2> DEFINE p == pairs[i]
             q == [p EXCEPT !.map = keys[p.key].global]
  <2>1. p \in PairRec(n) /\ from[i] = q
    BY <1>1 DEF PairsFromGraph
  <2> HIDE DEF p
  <2>2. p.key \in 1..n /\ p.enu \in Int /\ p.map \in Int
    BY <2>1 DEF PairRec
  <2>3. keys[p.key].global \in Int
    BY <1>2, <2>2
  <2>4. q \in PairRec(n)
    BY <2>1, <2>3 DEF PairRec
  <2>5. q.key = p.key /\ q.map = keys[p.key].global
    BY <2>1 DEF PairRec
  <2> HIDE DEF q, from
  <2> QED
    BY <2>1, <2>4, <2>5
<1>4. from = [i \in 1..Len(pairs) |-> from[i]]
  BY <1>1 DEF PairsFromGraph
<1> HIDE DEF from
<1>5. from \in Seq(PairRec(n)) /\ Len(from) = Len(pairs)
  <2>1. \A i \in 1..Len(pairs) : from[i] \in PairRec(n)
    BY <1>3
  <2>2. Len(pairs) \in Nat
    OBVIOUS
  <2> QED
    BY <1>4, <2>1, <2>2
<1>6. \A i \in 1..Len(pairs) : from[i].map = keys[from[i].key].global
  BY <1>3
<1> QED
  BY <1>5, <1>6 DEF from

LEMMA GpsPairs ==
  ASSUME TypeInv, NEW n, n = Len(m_key_poses) + 1,
         NEW keys \in Seq(KeyPoseRec), Len(keys) = n
  PROVE  WithGps(keys) \in Seq(PairRec(n))
<1> DEFINE gps == ClosestGps(keys[Len(keys)].time)
           pair == [key |-> Len(keys), enu |-> gps[1].enu, map |-> keys[Len(keys)].global]
           more == Append(alignment_pairs, pair)
<1>0. n \in Nat /\ n \in 1..n /\ 1..Len(m_key_poses) \subseteq 1..n
  BY DEF TypeInv
<1>1. alignment_pairs \in Seq(PairRec(n))
  <2>1. PairRec(Len(m_key_poses)) \subseteq PairRec(n)
    BY <1>0 DEF PairRec
  <2>2. alignment_pairs \in Seq(PairRec(Len(m_key_poses)))
    BY DEF TypeInv
  <2> QED
    BY <2>1, <2>2
<1>2. CASE WithGps(keys) = alignment_pairs
  BY <1>1, <1>2
<1>3. CASE WithGps(keys) = PairsFromGraph(more, keys) /\ gps # << >>
  <2>1. keys[n] \in KeyPoseRec
    BY <1>0
  <2>2. keys[n].time \in Int /\ keys[n].global \in Int
    BY <2>1 DEF KeyPoseRec
  <2>3. gps[1].enu \in Int
    BY <1>3, <2>2, ClosestIsSample
  <2>4. pair \in PairRec(n)
    <3> HIDE DEF gps
    <3> QED
      BY <1>0, <2>2, <2>3 DEF PairRec
  <2> HIDE DEF pair
  <2>5. more \in Seq(PairRec(n))
    BY <1>1, <2>4
  <2> HIDE DEF more
  <2> QED
    BY <1>0, <1>3, <2>5, GraphPairs
<1>4. WithGps(keys) = alignment_pairs \/ (WithGps(keys) = PairsFromGraph(more, keys) /\ gps # << >>)
  BY DEF WithGps
<1> QED
  BY <1>2, <1>3, <1>4

LEMMA EstimatesAreKeyPoses ==
  ASSUME NEW keys \in Seq(KeyPoseRec), NEW c, NEW e \in Estimates(keys, c)
  PROVE  e \in Seq(KeyPoseRec) /\ Len(e) = Len(keys)
<1> DEFINE odometry == \A i \in DOMAIN c : c[i][1] \in {"prior", "between"}
<1>1. CASE odometry
  BY <1>1 DEF Estimates
<1>2. CASE ~odometry
  <2>1. PICK move \in [DOMAIN keys -> Corrections] :
          e = [i \in DOMAIN keys |-> [keys[i] EXCEPT !.global = keys[i].global + move[i]]]
    BY <1>2 DEF Estimates
  <2>2. DOMAIN keys = 1..Len(keys) /\ Len(keys) \in Nat
    OBVIOUS
  <2>3. ASSUME NEW i \in 1..Len(keys)
        PROVE  e[i] \in KeyPoseRec
    <3> DEFINE q == keys[i]
    <3>1. q \in KeyPoseRec
      OBVIOUS
    <3>2. move[i] \in Int
      BY <2>2, PgoAssumption
    <3>3. e[i] = [q EXCEPT !.global = q.global + move[i]]
      BY <2>1, <2>2
    <3> HIDE DEF q
    <3>4. q.local \in Int /\ q.global + move[i] \in Int /\ q.time \in Int
      BY <3>1, <3>2 DEF KeyPoseRec
    <3>5. e[i] = [local |-> q.local, global |-> q.global + move[i], time |-> q.time]
      BY <3>1, <3>3 DEF KeyPoseRec
    <3> QED
      BY <3>4, <3>5 DEF KeyPoseRec
  <2>4. e = [i \in 1..Len(keys) |-> e[i]]
    BY <2>1, <2>2
  <2>5. \A i \in 1..Len(keys) : e[i] \in KeyPoseRec
    BY <2>3
  <2> QED
    BY <2>2, <2>4, <2>5
<1> QED
  BY <1>1, <1>2

-----------------------------------------------------------------------------
(* A scan becomes a keyframe.                                              *)

LEMMA KeyPoseAdds ==
  ASSUME TypeInv, KeyPose
  PROVE  \E keys, loops :
           /\ keys \in Seq(KeyPoseRec) /\ Len(keys) = Len(m_key_poses) + 1
           /\ LoopsFound(loops, Len(keys))
           /\ AddKeyPose(keys, WithGps(keys), loops)
<1> DEFINE keys == WithKeyPose(Head(cloud_buffer))
<1>1. /\ keys \in Seq(KeyPoseRec) /\ Len(keys) = Len(m_key_poses) + 1
  <2> DEFINE cp == Head(cloud_buffer)
             kp == [local |-> cp.pos, global |-> cp.pos + m_t_offset, time |-> cp.time]
  <2>1. cp \in [time : Int, pos : Int]
    <3> DEFINE S == [time : Int, pos : Int]
    <3>1. cloud_buffer \in Seq(S) /\ cloud_buffer # << >>
      BY DEF KeyPose, TypeInv
    <3> HIDE DEF S
    <3>2. cp \in S
      BY <3>1
    <3> QED
      BY <3>2 DEF S
  <2> HIDE DEF cp
  <2>2. kp \in KeyPoseRec
    BY <2>1 DEF TypeInv, KeyPoseRec
  <2>3. keys = Append(m_key_poses, kp) /\ m_key_poses \in Seq(KeyPoseRec)
    BY DEF cp, WithKeyPose, TypeInv
  <2> HIDE DEF kp, keys
  <2> QED
    BY <2>2, <2>3
<1>2. LoopTargets(keys) \subseteq 1..(Len(keys) - 1)
  BY DEF LoopTargets
<1>3. PICK loops \in {<< >>} \cup { << << t, Len(keys) >> >> : t \in LoopTargets(keys) } :
        AddKeyPose(keys, WithGps(keys), loops)
  BY Zenon DEF KeyPose
<1> HIDE DEF keys
<1>4. LoopsFound(loops, Len(keys))
  BY <1>2 DEF LoopsFound
<1> QED
  BY <1>1, <1>3, <1>4

LEMMA AddedTypes ==
  ASSUME TypeInv, NEW keys \in Seq(KeyPoseRec), NEW loops,
         Len(keys) = Len(m_key_poses) + 1,
         AddKeyPose(keys, WithGps(keys), loops)
  PROVE  /\ m_key_poses' \in Seq(KeyPoseRec) /\ Len(m_key_poses') = Len(keys)
         /\ m_t_offset' \in Int
         /\ alignment_pairs' \in Seq(PairRec(Len(keys)))
         /\ \A i \in 1..Len(alignment_pairs') :
              alignment_pairs'[i].map = m_key_poses'[alignment_pairs'[i].key].global
<1> DEFINE n == Len(keys)
           pairs == WithGps(keys)
<1>0. n \in Nat /\ n \in 1..n
  BY DEF TypeInv
<1>1. /\ \E c : m_key_poses' \in Estimates(keys, c)
      /\ m_t_offset' = m_key_poses'[n].global - m_key_poses'[n].local
      /\ alignment_pairs' = PairsFromGraph(pairs, m_key_poses')
  BY Zenon DEF AddKeyPose, PairsAfter
<1>2. m_key_poses' \in Seq(KeyPoseRec) /\ Len(m_key_poses') = n
  BY <1>1, EstimatesAreKeyPoses
<1>3. m_t_offset' \in Int
  <2>1. m_key_poses'[n] \in KeyPoseRec
    BY <1>0, <1>2
  <2>2. m_key_poses'[n].global \in Int /\ m_key_poses'[n].local \in Int
    BY <2>1 DEF KeyPoseRec
  <2> QED
    BY <1>1, <2>2
<1>4. pairs \in Seq(PairRec(n))
  BY GpsPairs
<1> HIDE DEF n, pairs
<1>5. /\ alignment_pairs' \in Seq(PairRec(n)) /\ Len(alignment_pairs') = Len(pairs)
      /\ \A i \in 1..Len(pairs) :
           alignment_pairs'[i].map = m_key_poses'[alignment_pairs'[i].key].global
  BY <1>0, <1>1, <1>2, <1>4, GraphPairs
<1> QED
  BY <1>2, <1>3, <1>5 DEF n

LEMMA AddedGraph ==
  ASSUME TypeInv, GraphInv, NEW keys \in Seq(KeyPoseRec), NEW loops,
         Len(keys) = Len(m_key_poses) + 1, LoopsFound(loops, Len(keys)),
         AddKeyPose(keys, WithGps(keys), loops),
         Len(m_key_poses') = Len(keys)
  PROVE  GraphInv'
<1> DEFINE k == Len(m_key_poses)
           n == Len(keys)
           first == Solved(alignment, WithGps(keys))
           g == Len(WithGps(keys)) > Len(alignment_pairs) /\ first.valid
           factors == m_graph \o << KeyPoseFactor(n) >>
                      \o (IF g THEN << << "gps", n >> >> ELSE << >>)
                      \o [i \in DOMAIN loops |-> << "loop" >> \o loops[i]]
<1>1. /\ m_history_pairs' = m_history_pairs \o loops
      /\ m_isam2' = m_isam2 \o factors
      /\ m_graph' = << >>
  BY Zenon DEF AddKeyPose, Remaining
<1>2. /\ k \in Nat /\ n = k + 1
      /\ m_isam2 \in Seq(Factor) /\ IsInjective(m_isam2)
      /\ m_history_pairs \in LoopPairs(k) /\ InSolver(m_isam2, m_history_pairs, k)
      /\ m_graph = << >> /\ LoopsFound(loops, k + 1)
  BY DEF TypeInv, GraphInv
<1> HIDE DEF g
<1>3. /\ m_isam2 \o factors \in Seq(Factor) /\ IsInjective(m_isam2 \o factors)
      /\ m_history_pairs \o loops \in LoopPairs(n)
      /\ InSolver(m_isam2 \o factors, m_history_pairs \o loops, n)
  <2> HIDE DEF k
  <2>1. n = k + 1
    BY <1>2
  <2> HIDE DEF n
  <2> QED
    BY <1>2, <2>1, NewFactors, Zenon
<1>4. Len(m_key_poses') = n
  OBVIOUS
<1> HIDE DEF factors, n
<1>5. m_isam2' \in Seq(Factor) /\ IsInjective(m_isam2')
  BY <1>1, <1>3, Zenon
<1>6. /\ m_history_pairs' \in LoopPairs(Len(m_key_poses'))
      /\ InSolver(m_isam2', m_history_pairs', Len(m_key_poses'))
  BY <1>1, <1>3, <1>4, Zenon
<1> QED
  BY <1>1, <1>5, <1>6 DEF GraphInv

LEMMA AddedAlign ==
  ASSUME NEW keys, NEW loops, AddKeyPose(keys, WithGps(keys), loops),
         \A i \in 1..Len(alignment_pairs') :
           alignment_pairs'[i].map = m_key_poses'[alignment_pairs'[i].key].global
  PROVE  AlignInv'
<1>1. alignment' = Solved(Solved(alignment, WithGps(keys)), alignment_pairs')
  BY Zenon DEF AddKeyPose
<1>2. /\ alignment'.valid = Solvable(alignment_pairs')
      /\ Solvable(alignment_pairs') => alignment'.from = alignment_pairs'
  BY <1>1 DEF Solved
<1> QED
  BY <1>2 DEF AlignInv

LEMMA KeyPoseIInv ==
  ASSUME IInv, KeyPose
  PROVE  IInv'
<1>1. TypeInv /\ GraphInv
  BY DEF IInv
<1>2. PICK keys, loops :
        /\ keys \in Seq(KeyPoseRec)
        /\ Len(keys) = Len(m_key_poses) + 1
        /\ LoopsFound(loops, Len(keys))
        /\ AddKeyPose(keys, WithGps(keys), loops)
  BY <1>1, KeyPoseAdds
<1>3. /\ m_key_poses' \in Seq(KeyPoseRec) /\ Len(m_key_poses') = Len(keys)
      /\ m_t_offset' \in Int
      /\ alignment_pairs' \in Seq(PairRec(Len(keys)))
      /\ \A i \in 1..Len(alignment_pairs') :
           alignment_pairs'[i].map = m_key_poses'[alignment_pairs'[i].key].global
  BY <1>1, <1>2, AddedTypes
<1>4. TypeInv'
  <2>1. gps_buffer' \in Seq([time : Int, enu : Int])
    BY <1>1 DEF KeyPose, TypeInv
  <2>2. cloud_buffer' \in Seq([time : Int, pos : Int])
    <3> DEFINE S == [time : Int, pos : Int]
    <3>1. cloud_buffer \in Seq(S) /\ cloud_buffer # << >> /\ cloud_buffer' = Tail(cloud_buffer)
      BY <1>1 DEF KeyPose, TypeInv
    <3> HIDE DEF S
    <3>2. cloud_buffer' \in Seq(S)
      BY <3>1
    <3> QED
      BY <3>2 DEF S
  <2> QED
    BY <1>3, <2>1, <2>2 DEF TypeInv
<1>5. GraphInv'
  BY <1>1, <1>2, <1>3, AddedGraph
<1>6. AlignInv'
  BY <1>2, <1>3, AddedAlign
<1>7. OffsetInv'
  <2>1. last_tf' = << m_t_offset' >> /\ last_offset' = << m_t_offset' >>
    BY <1>2, Zenon DEF AddKeyPose
  <2>2. m_key_poses' # << >>
    BY <1>1, <1>2, <1>3 DEF TypeInv
  <2> QED
    BY <2>1, <2>2 DEF OffsetInv
<1>8. SavedMapIsWhole'
  BY DEF IInv, SavedMapIsWhole, KeyPose, saved
<1> QED
  BY <1>4, <1>5, <1>6, <1>7, <1>8 DEF IInv

-----------------------------------------------------------------------------
(* The other steps.                                                        *)

(* What the parts of the invariant say of the graph stays with the graph.  *)
LEMMA GraphStays ==
  ASSUME IInv, UNCHANGED << graph, aligned >>
  PROVE  /\ GraphInv' /\ AlignInv'
         /\ m_key_poses' \in Seq(KeyPoseRec) /\ m_t_offset' \in Int
         /\ alignment_pairs' \in Seq(PairRec(Len(m_key_poses')))
<1>1. /\ m_key_poses' = m_key_poses /\ m_history_pairs' = m_history_pairs
      /\ m_graph' = m_graph /\ m_isam2' = m_isam2 /\ m_t_offset' = m_t_offset
      /\ alignment_pairs' = alignment_pairs /\ alignment' = alignment
  BY DEF graph, aligned
<1>2. TypeInv /\ GraphInv /\ AlignInv
  BY DEF IInv
<1>3. GraphInv'
  BY <1>1, <1>2 DEF GraphInv
<1>4. AlignInv'
  BY <1>1, <1>2 DEF AlignInv
<1> QED
  BY <1>1, <1>2, <1>3, <1>4 DEF TypeInv

LEMMA gpsCBIInv ==
  ASSUME IInv, NEW time \in 0..MaxTime, NEW enu \in EnuPositions, gpsCB(time, enu)
  PROVE  IInv'
<1> DEFINE S == [time : Int, enu : Int]
           sample == [time |-> time, enu |-> enu]
           kept == Append(gps_buffer, sample)
<1>1. gps_buffer' \in Seq(S)
  <2>1. sample \in S
    BY PgoAssumption
  <2>2. gps_buffer \in Seq(S)
    BY DEF IInv, TypeInv
  <2>3. gps_buffer' = IF Len(kept) > gps_buffer_size THEN Tail(kept) ELSE kept
    BY DEF gpsCB
  <2> HIDE DEF S, sample
  <2>4. kept \in Seq(S) /\ Len(kept) = Len(gps_buffer) + 1 /\ Len(gps_buffer) \in Nat
    BY <2>1, <2>2
  <2> HIDE DEF kept
  <2>5. kept # << >>
    BY <2>4
  <2> QED
    BY <2>3, <2>4, <2>5
<1>2. /\ UNCHANGED << graph, aligned >> /\ cloud_buffer' = cloud_buffer
      /\ last_tf' = last_tf /\ last_offset' = last_offset
      /\ m_key_poses' = m_key_poses /\ m_t_offset' = m_t_offset
      /\ patches' = patches /\ poses_txt' = poses_txt
  BY DEF gpsCB, graph, published, saved
<1>3. GraphInv' /\ AlignInv' /\ TypeInv'
  BY <1>1, <1>2, GraphStays DEF IInv, TypeInv
<1> QED
  BY <1>2, <1>3 DEF IInv, OffsetInv, SavedMapIsWhole

LEMMA syncCBIInv ==
  ASSUME IInv, NEW time \in 0..MaxTime, NEW pos \in Positions, syncCB(time, pos)
  PROVE  IInv'
<1> DEFINE S == [time : Int, pos : Int]
           scan == [time |-> time, pos |-> pos]
<1>1. cloud_buffer' \in Seq(S)
  <2>1. scan \in S
    BY PgoAssumption
  <2>2. cloud_buffer \in Seq(S)
    BY DEF IInv, TypeInv
  <2>3. cloud_buffer' = Append(cloud_buffer, scan)
    BY DEF syncCB
  <2> HIDE DEF S, scan
  <2> QED
    BY <2>1, <2>2, <2>3
<1>2. /\ UNCHANGED << graph, aligned >> /\ gps_buffer' = gps_buffer
      /\ last_tf' = last_tf /\ last_offset' = last_offset
      /\ m_key_poses' = m_key_poses /\ m_t_offset' = m_t_offset
      /\ patches' = patches /\ poses_txt' = poses_txt
  BY DEF syncCB, graph, published, saved
<1>3. GraphInv' /\ AlignInv' /\ TypeInv'
  BY <1>1, <1>2, GraphStays DEF IInv, TypeInv
<1> QED
  BY <1>2, <1>3 DEF IInv, OffsetInv, SavedMapIsWhole

LEMMA OtherPoseIInv ==
  ASSUME IInv, OtherPose
  PROVE  IInv'
<1> DEFINE S == [time : Int, pos : Int]
<1>1. cloud_buffer' \in Seq(S)
  <2>1. cloud_buffer \in Seq(S) /\ cloud_buffer # << >> /\ cloud_buffer' = Tail(cloud_buffer)
    BY DEF IInv, TypeInv, OtherPose
  <2> HIDE DEF S
  <2> QED
    BY <2>1
<1>2. /\ UNCHANGED << graph, aligned >> /\ gps_buffer' = gps_buffer
      /\ last_offset' = last_offset
      /\ m_key_poses' = m_key_poses /\ m_t_offset' = m_t_offset
      /\ patches' = patches /\ poses_txt' = poses_txt
  BY DEF OtherPose, graph, saved
<1>3. GraphInv' /\ AlignInv' /\ TypeInv'
  BY <1>1, <1>2, GraphStays DEF IInv, TypeInv
<1>4. m_key_poses # << >> /\ last_tf' = << m_t_offset >>
  BY DEF OtherPose, isKeyPose
<1> QED
  BY <1>2, <1>3, <1>4 DEF IInv, OffsetInv, SavedMapIsWhole

LEMMA TimeIInv ==
  ASSUME IInv, Time
  PROVE  IInv'
<1>1. /\ UNCHANGED << graph, aligned >> /\ gps_buffer' = gps_buffer
      /\ cloud_buffer' = cloud_buffer /\ last_tf' = last_tf
      /\ last_offset' = last_offset
      /\ m_key_poses' = m_key_poses /\ m_t_offset' = m_t_offset
      /\ patches' = patches /\ poses_txt' = poses_txt
  BY DEF Time, inputs, graph, saved
<1>2. GraphInv' /\ AlignInv' /\ TypeInv'
  BY <1>1, GraphStays DEF IInv, TypeInv
<1> QED
  BY <1>1, <1>2 DEF IInv, OffsetInv, SavedMapIsWhole

LEMMA saveMapsCBIInv ==
  ASSUME IInv, saveMapsCB
  PROVE  IInv'
<1>1. /\ UNCHANGED << graph, aligned >> /\ gps_buffer' = gps_buffer
      /\ cloud_buffer' = cloud_buffer /\ last_tf' = last_tf
      /\ last_offset' = last_offset
      /\ m_key_poses' = m_key_poses /\ m_t_offset' = m_t_offset
  BY DEF saveMapsCB, inputs, graph, published
<1>2. GraphInv' /\ AlignInv' /\ TypeInv'
  BY <1>1, GraphStays DEF IInv, TypeInv
<1>3. SavedMapIsWhole'
  BY DEF saveMapsCB, OldPatches, SavedMapIsWhole
<1> QED
  BY <1>1, <1>2, <1>3 DEF IInv, OffsetInv

LEMMA RestartIInv ==
  ASSUME IInv, Restart
  PROVE  IInv'
<1>1. Fresh' /\ SavedMapIsWhole'
  BY DEF IInv, Restart, Fresh, saved, SavedMapIsWhole
<1> QED
  BY <1>1, FreshAgain DEF IInv, SessionInv

LEMMA StutterIInv ==
  ASSUME IInv, UNCHANGED vars
  PROVE  IInv'
<1>1. /\ UNCHANGED << graph, aligned >> /\ gps_buffer' = gps_buffer
      /\ cloud_buffer' = cloud_buffer /\ last_tf' = last_tf
      /\ last_offset' = last_offset
      /\ m_key_poses' = m_key_poses /\ m_t_offset' = m_t_offset
      /\ patches' = patches /\ poses_txt' = poses_txt
  BY DEF vars, inputs, graph, published, saved
<1>2. GraphInv' /\ AlignInv' /\ TypeInv'
  BY <1>1, GraphStays DEF IInv, TypeInv
<1> QED
  BY <1>1, <1>2 DEF IInv, OffsetInv, SavedMapIsWhole

LEMMA NextIInv == IInv /\ [Next]_vars => IInv'
<1> SUFFICES ASSUME IInv, [Next]_vars PROVE IInv'
  OBVIOUS
<1>1. CASE \E time \in 0..MaxTime, enu \in EnuPositions : gpsCB(time, enu)
  BY <1>1, gpsCBIInv
<1>2. CASE \E time \in 0..MaxTime, pos \in Positions : syncCB(time, pos)
  BY <1>2, syncCBIInv
<1>3. CASE KeyPose
  BY <1>3, KeyPoseIInv
<1>4. CASE OtherPose
  BY <1>4, OtherPoseIInv
<1>5. CASE Time
  BY <1>5, TimeIInv
<1>6. CASE saveMapsCB
  BY <1>6, saveMapsCBIInv
<1>7. CASE Restart
  BY <1>7, RestartIInv
<1>8. CASE UNCHANGED vars
  BY <1>8, StutterIInv
<1> QED
  BY <1>1, <1>2, <1>3, <1>4, <1>5, <1>6, <1>7, <1>8 DEF Next

LEMMA Invariance == Spec => []IInv
  BY InitIInv, NextIInv, PTL DEF Spec

-----------------------------------------------------------------------------
(* The solver has every factor exactly once, however many keyframes, loops *)
(* and GPS samples there were: smoothAndUpdate hands over each new one and *)
(* empties its list.                                                       *)
THEOREM EachFactorOnce == Spec => []SolverHasEachFactorOnce
<1>1. IInv => SolverHasEachFactorOnce
  <2> SUFFICES ASSUME IInv PROVE SolverHasEachFactorOnce
    OBVIOUS
  <2>1. /\ m_graph = << >> /\ IsInjective(m_isam2)
        /\ InSolver(m_isam2, m_history_pairs, Len(m_key_poses))
    BY DEF IInv, GraphInv
  <2>2. DOMAIN m_key_poses = 1..Len(m_key_poses)
    BY DEF IInv, TypeInv
  <2> QED
    BY <2>1, <2>2 DEF SolverHasEachFactorOnce, InSolver, OfKeys, OfLoops, OfGps
<1> QED
  BY <1>1, Invariance, PTL

(* The alignment that is published was solved from all of the pairs, as    *)
(* the solver has left the keyframes.                                      *)
THEOREM AlignedWithTheMap == Spec => []AlignmentFollowsGraph
<1>1. IInv => AlignmentFollowsGraph
  <2> SUFFICES ASSUME IInv PROVE AlignmentFollowsGraph
    OBVIOUS
  <2>1. alignment_pairs \in Seq(PairRec(Len(m_key_poses)))
    BY DEF IInv, TypeInv
  <2>2. DOMAIN alignment_pairs = 1..Len(alignment_pairs)
    BY <2>1
  <2> QED
    BY <2>2 DEF IInv, AlignInv, AlignmentFollowsGraph
<1> QED
  BY <1>1, Invariance, PTL

(* A saved map has one patch for each of its poses, of one session, also   *)
(* where an earlier session left a larger map.                             *)
THEOREM MapOfOneSession == Spec => []SavedMapIsWhole
  BY Invariance, PTL DEF IInv

LEMMA StepIsAnnounced ==
  ASSUME IInv, [Next]_vars, last_tf # << >>, last_tf' # << >>,
         Dist(last_tf'[1], last_tf[1]) > correction_jump_thresh
  PROVE  correction_for' > 0
<1>1. /\ m_t_offset \in Int /\ last_tf = << m_t_offset >>
      /\ last_offset = << m_t_offset >>
  BY DEF IInv, TypeInv, OffsetInv
<1>2. /\ correction_jump_thresh \in Nat /\ correction_window \in Nat \ {0}
  BY PgoAssumption
<1>3. Dist(m_t_offset, m_t_offset) = 0
  BY <1>1 DEF Dist
<1>4. ~(last_tf' = last_tf) /\ ~(last_tf' = << m_t_offset >>)
  BY <1>1, <1>2, <1>3
<1>5. CASE KeyPose
  <2>1. PICK keys, loops : AddKeyPose(keys, WithGps(keys), loops)
    BY <1>5, KeyPoseAdds DEF IInv
  <2>2. /\ last_tf' = << m_t_offset' >>
        /\ correction_for' = IF Jump(m_t_offset') > correction_jump_thresh
                             THEN correction_window ELSE correction_for
    BY <2>1, Zenon DEF AddKeyPose
  <2>3. Jump(m_t_offset') = Dist(last_tf'[1], last_tf[1])
    BY <1>1, <2>2 DEF Jump
  <2> QED
    BY <1>2, <2>2, <2>3
<1>6. CASE last_tf' = last_tf \/ last_tf' = << m_t_offset >> \/ last_tf' = << >>
  BY <1>4, <1>6
<1>7. KeyPose \/ last_tf' = last_tf \/ last_tf' = << m_t_offset >> \/ last_tf' = << >>
  BY DEF Next, gpsCB, syncCB, OtherPose, Time, saveMapsCB, Restart, published, vars
<1> QED
  BY <1>5, <1>6, <1>7

(* No jump of map->odom larger than the threshold goes out before the      *)
(* correction status says that the map is being corrected.                 *)
THEOREM CorrectionIsAnnounced == Spec => JumpIsAnnounced
<1> DEFINE Announced ==
      last_tf # <<>> /\ last_tf' # <<>>
      /\ Dist(last_tf'[1], last_tf[1]) > correction_jump_thresh
      => correction_for' > 0
<1>1. IInv /\ [Next]_vars => Announced
  BY StepIsAnnounced
<1>2. IInv /\ [Next]_vars => [Announced]_vars
  BY <1>1
<1> QED
  BY <1>2, Invariance, PTL DEF Spec, JumpIsAnnounced

-----------------------------------------------------------------------------
(* RiskLayer.  A published grid gives numbers to the cells it covers, and  *)
(* the costmap holds numbers; a cost the layer raises stays below that of  *)
(* a lethal cell, and is that of an obstacle only for a full risk.         *)
GridCell == [risk : 0..100, conf : 0..100]
IsGrid(g) == \E area \in SUBSET Cells : g \in [area -> GridCell]

RiskTypes ==
  /\ anchors \in AnchorLists \cup {<<>>}
  /\ pose \in Poses \cup {None}
  /\ grid # None => IsGrid(grid)
  /\ latest_ # None => IsGrid(latest_)
  /\ master \in [Cells -> Int] /\ plain \in [Cells -> Int]
  /\ max_cost_ \in Int

RiskIInv == RiskTypes /\ RiskOnlyRaises

LEMMA RiskConstants ==
  /\ tau \in Nat /\ MaxCosts \subseteq Int
  /\ Poses \subseteq Cells /\ Shifts \subseteq Int
  /\ \A list \in AnchorLists : \A i \in DOMAIN list :
       list[i].p_usable \in Int /\ list[i].severity \in Int /\ list[i].map_x \in Int
  /\ \A list \in AnchorLists : list \in Seq([state : STRING, p_usable : Int, severity : Int,
                                             map_x : Int])
  /\ Len(Decays) \in Nat /\ \A k \in 1..Len(Decays) : Decays[k] \in 0..100
<1> DEFINE A == [state : STRING, p_usable : Int, severity : Int, map_x : Int]
<1>1. \A list \in AnchorLists : list \in Seq(A)
  BY RiskAssumption
<1>2. \A a \in A : a.p_usable \in Int /\ a.severity \in Int /\ a.map_x \in Int
  OBVIOUS
<1> HIDE DEF A
<1>3. \A list \in AnchorLists : \A i \in DOMAIN list : list[i] \in A
  BY <1>1
<1>4. \A list \in AnchorLists : \A i \in DOMAIN list :
       list[i].p_usable \in Int /\ list[i].severity \in Int /\ list[i].map_x \in Int
  BY <1>2, <1>3
<1>6. \A list \in AnchorLists : list \in Seq([state : STRING, p_usable : Int, severity : Int,
                                             map_x : Int])
  BY <1>1 DEF A
<1>7. Len(Decays) \in Nat /\ \A k \in 1..Len(Decays) : Decays[k] \in 0..100
  <2> DEFINE S == 0..100
  <2>1. Decays \in Seq(S)
    BY RiskAssumption
  <2> HIDE DEF S
  <2>2. Len(Decays) \in Nat /\ \A k \in 1..Len(Decays) : Decays[k] \in S
    BY <2>1
  <2> QED
    BY <2>2 DEF S
<1> QED
  BY <1>4, <1>6, <1>7, RiskAssumption

LEMMA MaxOfTwo ==
  ASSUME NEW a \in Int, NEW b \in Int
  PROVE  /\ Max({a, b}) \in {a, b} /\ Max({a, b}) >= a /\ Max({a, b}) >= b
<1>1. \E x \in {a, b} : \A y \in {a, b} : x >= y
  <2>1. CASE a >= b
    BY <2>1
  <2>2. CASE b >= a
    BY <2>2
  <2> QED
    BY <2>1, <2>2
<1> QED
  BY <1>1 DEF Max

LEMMA MinOfTwo ==
  ASSUME NEW a \in Int, NEW b \in Int
  PROVE  /\ Min({a, b}) \in {a, b} /\ Min({a, b}) <= a /\ Min({a, b}) <= b
<1>1. \E x \in {a, b} : \A y \in {a, b} : x <= y
  <2>1. CASE a <= b
    BY <2>1
  <2>2. CASE b <= a
    BY <2>2
  <2> QED
    BY <2>1, <2>2
<1> QED
  BY <1>1 DEF Min

(* The cap is clamped, whatever the parameter is set to.                   *)
LEMMA CapType ==
  ASSUME RiskTypes
  PROVE  max_cost \in 0..Inscribed
<1> DEFINE raw == Max({max_cost_, 0})
<1>1. raw \in Int /\ raw >= 0 /\ Inscribed \in Int /\ Inscribed >= 0
  <2>1. max_cost_ \in Int /\ 0 \in Int
    BY DEF RiskTypes
  <2> QED
    BY <2>1, MaxOfTwo DEF Inscribed
<1> HIDE DEF raw
<1>2. Min({raw, Inscribed}) \in {raw, Inscribed} /\ Min({raw, Inscribed}) <= Inscribed
  BY <1>1, MinOfTwo
<1>3. Min({raw, Inscribed}) \in 0..Inscribed
  BY <1>1, <1>2
<1> QED
  BY <1>3 DEF max_cost, raw

LEMMA PercentType == \A n \in Int : Percent(n) \in 0..100
  BY DEF Percent

LEMMA Scaled ==
  ASSUME NEW n \in 0..100, NEW m \in Nat
  PROVE  (n * m) \div 100 \in 0..m
<1>1. n * m \in Nat
  OBVIOUS
<1>2. n * m <= 100 * m
  <2>1. (100 - n) * m >= 0
    OBVIOUS
  <2> QED
    BY <2>1
<1> DEFINE p == n * m
<1>3. p \in Nat /\ p <= 100 * m
  BY <1>1, <1>2
<1> HIDE DEF p
<1>4. p \div 100 \in 0..m
  BY <1>3
<1> QED
  BY <1>4 DEF p

(* The risk an anchor has at a cell is a percentage, whatever the memory   *)
(* publishes.                                                              *)
LEMMA RenderedType ==
  ASSUME RiskTypes, NEW c \in Cells, NEW shift \in Int, NEW i \in DOMAIN anchors
  PROVE  RenderedAt(c, anchors[i], shift) \in 0..100
<1>1. /\ anchors[i].p_usable \in Int /\ anchors[i].severity \in Int
      /\ anchors[i].map_x \in Int
  BY RiskConstants DEF RiskTypes
<1>2. injectionWeight(anchors[i]) \in 0..100
  <2>1. anchors[i].severity * anchors[i].p_usable \in Int
    BY <1>1
  <2>2. \A n \in Int : n \div 200 \in Int /\ n \div 100 \in Int
    OBVIOUS
  <2> QED
    BY <2>1, <2>2, PercentType DEF injectionWeight
<1> DEFINE d == Distance(c, shift + anchors[i].map_x)
<1>3. d \in Nat
  BY <1>1 DEF Distance, Cells
<1>4. CASE d < Len(Decays)
  <2>1. d + 1 \in 1..Len(Decays)
    BY <1>3, <1>4, RiskConstants
  <2> HIDE DEF d
  <2>2. Decays[d + 1] \in 0..100
    BY <2>1, RiskConstants
  <2> DEFINE w == injectionWeight(anchors[i])
             m == Decays[d + 1]
  <2>3. w \in 0..100 /\ m \in Nat /\ m <= 100
    BY <1>2, <2>2
  <2>4. RenderedAt(c, anchors[i], shift) = (w * m) \div 100
    BY <1>4 DEF RenderedAt, d
  <2> HIDE DEF w, m
  <2>5. (w * m) \div 100 \in 0..m
    BY <2>3, Scaled
  <2> QED
    BY <2>3, <2>4, <2>5
<1>5. CASE ~(d < Len(Decays))
  BY <1>5 DEF RenderedAt
<1> QED
  BY <1>4, <1>5

LEMMA GreatestValue ==
  ASSUME NEW D, D # {}, NEW f \in [D -> 0..100]
  PROVE  \E i \in D : \A j \in D : f[j] <= f[i]
<1> DEFINE slack == { n \in 0..100 : \E i \in D : n = 100 - f[i] }
<1>1. \A i \in D : f[i] \in 0..100
  OBVIOUS
<1>2. \A i \in D : 100 - f[i] \in 0..100
  <2>1. \A v \in 0..100 : 100 - v \in 0..100
    OBVIOUS
  <2> QED
    BY <1>1, <2>1, Zenon
<1>3. slack \in SUBSET Nat /\ slack # {}
  <2>1. slack \subseteq Nat
    OBVIOUS
  <2>2. PICK i \in D : TRUE
    OBVIOUS
  <2>3. 100 - f[i] \in slack
    BY <1>2, Zenon
  <2> QED
    BY <2>1, <2>3
<1>4. \E s \in slack : \A t \in slack : s <= t
  <2> HIDE DEF slack
  <2> QED
    BY <1>3, LeastElement
<1>5. PICK i \in D : \A t \in slack : 100 - f[i] <= t
  BY <1>4
<1>6. ASSUME NEW j \in D PROVE f[j] <= f[i]
  <2>1. 100 - f[j] \in slack
    BY <1>2, Zenon
  <2>2. 100 - f[i] <= 100 - f[j]
    BY <1>5, <2>1
  <2>3. f[i] \in 0..100 /\ f[j] \in 0..100
    BY <1>1
  <2> QED
    BY <2>2, <2>3
<1> QED
  BY <1>6

(* So the strongest anchor at a cell exists, and the cell gets percentages.*)
LEMMA StrongestExists ==
  ASSUME RiskTypes, NEW c \in Cells, NEW shift \in Int, anchors # <<>>
  PROVE  \E i \in DOMAIN anchors : Strongest(c, shift) = anchors[i]
<1> DEFINE D == DOMAIN anchors
           at == [i \in D |-> RenderedAt(c, anchors[i], shift)]
           best == { i \in D : \A j \in D : at[j] <= at[i] }
<1>1. D \subseteq Nat /\ D # {}
  <2> DEFINE A == [state : STRING, p_usable : Int, severity : Int, map_x : Int]
  <2>1. anchors \in Seq(A)
    BY RiskConstants DEF RiskTypes
  <2> HIDE DEF A
  <2> QED
    BY <2>1
<1>2. at \in [D -> 0..100]
  BY RenderedType
<1>3. Strongest(c, shift) = anchors[Min(best)]
  <2>1. best = { i \in DOMAIN anchors :
                   \A j \in DOMAIN anchors :
                      RenderedAt(c, anchors[j], shift) <= RenderedAt(c, anchors[i], shift) }
    OBVIOUS
  <2> QED
    BY <2>1 DEF Strongest
<1> HIDE DEF at, D
<1>4. \E i \in D : \A j \in D : at[j] <= at[i]
  BY <1>1, <1>2, GreatestValue
<1>5. best \in SUBSET Nat /\ best # {}
  BY <1>1, <1>4
<1>6. Min(best) \in best
  <2> HIDE DEF best
  <2> QED
    BY <1>5, LeastElement DEF Min
<1>7. Min(best) \in D
  BY <1>6
<1> QED
  BY <1>3, <1>7 DEF D

LEMMA FrameType ==
  ASSUME RiskTypes, pose \in Poses, NEW shift \in Shifts \cup {None}
  PROVE  Frame(shift) \in [Area -> GridCell] /\ Area \subseteq Cells
<1>1. Area \subseteq Cells
  BY DEF Area
<1>2. ASSUME NEW c \in Cells, shift # None
      PROVE  renderGaussian(c, shift).risk \in Int /\ renderGaussian(c, shift).conf \in Int
  <2>1. shift \in Int
    BY <1>2, RiskConstants
  <2>2. CASE anchors = <<>> \/ RenderedAt(c, Strongest(c, shift), shift) = 0
    BY <2>2 DEF renderGaussian, Blank
  <2>3. CASE ~(anchors = <<>> \/ RenderedAt(c, Strongest(c, shift), shift) = 0)
    <3>1. PICK i \in DOMAIN anchors : Strongest(c, shift) = anchors[i]
      BY <2>1, <2>3, StrongestExists
    <3>2. RenderedAt(c, anchors[i], shift) \in 0..100
      BY <2>1, RenderedType
    <3>3. anchors[i].p_usable \in Int
      BY RiskConstants DEF RiskTypes
    <3>4. Confidence(anchors[i]) \in Int
      BY <3>3 DEF Confidence
    <3>5. renderGaussian(c, shift)
            = [risk |-> RenderedAt(c, anchors[i], shift), conf |-> Confidence(anchors[i])]
      BY <2>3, <3>1 DEF renderGaussian
    <3> QED
      BY <3>2, <3>4, <3>5
  <2> QED
    BY <2>2, <2>3
<1>3. ASSUME NEW cell, cell.risk \in Int, cell.conf \in Int
      PROVE  toOccupancyData(cell) \in GridCell
  BY <1>3, PercentType DEF toOccupancyData, GridCell
<1>4. Blank.risk \in Int /\ Blank.conf \in Int
  BY DEF Blank
<1>5. \A c \in Area :
        toOccupancyData(IF shift = None THEN Blank ELSE renderGaussian(c, shift)) \in GridCell
  <2> SUFFICES ASSUME NEW c \in Area
               PROVE  toOccupancyData(IF shift = None THEN Blank ELSE renderGaussian(c, shift))
                        \in GridCell
    OBVIOUS
  <2>1. CASE shift = None
    BY <2>1, <1>3, <1>4
  <2>2. CASE shift # None
    BY <2>2, <1>1, <1>2, <1>3
  <2> QED
    BY <2>1, <2>2
<1> QED
  BY <1>1, <1>5 DEF Frame

(* What a cell costs after the layer, for any grid and in any state of it. *)
LEMMA GateRaises ==
  ASSUME RiskTypes, NEW current \in {0, Lethal}, NEW cell \in GridCell
  PROVE  /\ gatedCost(current, cell) \in Int /\ gatedCost(current, cell) >= current
         /\ gatedCost(current, cell) <= Lethal
         /\ gatedCost(current, cell) = Lethal => current = Lethal
         /\ gatedCost(current, cell) >= Inscribed
              => current = Lethal \/ (cell.risk = 100 /\ max_cost = Inscribed)
<1> DEFINE risk == cell.risk
           cap == max_cost
           add == (Percent(risk) * cap) \div 100
<1>1. risk \in 0..100 /\ Percent(risk) = risk /\ cap \in 0..Inscribed
  <2>1. risk \in 0..100
    BY DEF GridCell
  <2> HIDE DEF risk
  <2> QED
    BY <2>1, CapType DEF Percent
<1>2. \/ gatedCost(current, cell) = current
      \/ current = 0 /\ gatedCost(current, cell) = Max({0, add})
  <2>1. CASE cell.conf < tau \/ current >= Lethal
    BY <2>1 DEF gatedCost
  <2>2. CASE ~(cell.conf < tau \/ current >= Lethal)
    <3>1. current = 0
      BY <2>2 DEF Lethal
    <3>2. gatedCost(current, cell) = Max({current, add})
      BY <2>2, Zenon DEF gatedCost
    <3> QED
      BY <3>1, <3>2, Zenon
  <2> QED
    BY <2>1, <2>2
<1> HIDE DEF risk, cap
<1>3. add \in 0..Inscribed /\ (add >= Inscribed => risk = 100 /\ cap = Inscribed)
  <2>1. risk \in 0..100 /\ cap \in Nat /\ cap <= Inscribed /\ Inscribed \in Nat
    BY <1>1 DEF Inscribed
  <2>2. (risk * cap) \div 100 \in 0..cap
    BY <2>1, Scaled
  <2>3. add = (risk * cap) \div 100
    BY <1>1
  <2>4. ASSUME add >= Inscribed PROVE cap = Inscribed
    BY <2>1, <2>2, <2>3, <2>4
  <2>5. ASSUME cap = Inscribed, add >= Inscribed PROVE risk = 100
    <3>1. add = (risk * 253) \div 100
      BY <2>3, <2>5 DEF Inscribed
    <3>2. risk * 253 >= 25300
      BY <2>1, <2>5, <3>1 DEF Inscribed
    <3> QED
      BY <2>1, <3>2
  <2> QED
    BY <2>1, <2>2, <2>3, <2>4, <2>5
<1> HIDE DEF add
<1>4. Max({0, add}) = add
  <2>1. add \in {0, add} /\ \A y \in {0, add} : add >= y
    BY <1>3 DEF Inscribed
  <2>2. \A x \in {0, add} : (\A y \in {0, add} : x >= y) => x = add
    BY <1>3 DEF Inscribed
  <2> QED
    BY <2>1, <2>2 DEF Max
<1>5. gatedCost(current, cell) = current \/ (current = 0 /\ gatedCost(current, cell) = add)
  BY <1>2, <1>4
<1> QED
  BY <1>3, <1>5 DEF Lethal, Inscribed, risk, cap

LEMMA MarkedCosts ==
  ASSUME NEW obstacles, NEW c \in Cells
  PROVE  Marked(obstacles)[c] \in {0, Lethal}
  BY DEF Marked

(* The layer changes no cell to or from a lethal one, so the inflation     *)
(* layer surrounds the same ones.                                          *)
LEMMA RaisedCosts ==
  ASSUME RiskTypes, NEW obstacles, NEW c \in Cells
  PROVE  /\ Raised(Marked(obstacles))[c] \in Int
         /\ Raised(Marked(obstacles))[c] >= Marked(obstacles)[c]
         /\ Raised(Marked(obstacles))[c] <= Lethal
         /\ Raised(Marked(obstacles))[c] = Lethal => Marked(obstacles)[c] = Lethal
         /\ Raised(Marked(obstacles))[c] >= Inscribed
              => Marked(obstacles)[c] = Lethal \/ c \in FullRisk
<1> DEFINE m == Marked(obstacles)[c]
<1>1. m \in {0, Lethal}
  BY MarkedCosts
<1>2. CASE enabled_ /\ riskFresh /\ c \in DOMAIN latest_
  <2>1. latest_[c] \in GridCell
    BY <1>2 DEF riskFresh, RiskTypes, IsGrid
  <2>2. Raised(Marked(obstacles))[c] = gatedCost(m, latest_[c])
    BY <1>2 DEF Raised
  <2>3. latest_[c].risk = 100 /\ max_cost = Inscribed => c \in FullRisk
    BY <1>2 DEF FullRisk
  <2> HIDE DEF m
  <2>4. /\ gatedCost(m, latest_[c]) \in Int /\ gatedCost(m, latest_[c]) >= m
        /\ gatedCost(m, latest_[c]) <= Lethal
        /\ gatedCost(m, latest_[c]) = Lethal => m = Lethal
        /\ gatedCost(m, latest_[c]) >= Inscribed
             => m = Lethal \/ (latest_[c].risk = 100 /\ max_cost = Inscribed)
    BY <1>1, <2>1, GateRaises
  <2> QED
    BY <2>2, <2>3, <2>4 DEF m
<1>3. CASE ~(enabled_ /\ riskFresh /\ c \in DOMAIN latest_)
  <2>1. Raised(Marked(obstacles))[c] = m
    BY <1>3 DEF Raised
  <2> QED
    BY <1>1, <2>1 DEF Lethal, Inscribed
<1> QED
  BY <1>2, <1>3

LEMMA InflatedCosts ==
  ASSUME RiskTypes, NEW obstacles, NEW c \in Cells
  PROVE  LET new == Inflated(Raised(Marked(obstacles)))[c]
             old == Inflated(Marked(obstacles))[c]
         IN  /\ new \in Int /\ old \in Int /\ new >= old
             /\ new >= Lethal => old >= Lethal
             /\ new >= Inscribed => old >= Inscribed \/ c \in FullRisk
<1> DEFINE m == Marked(obstacles)
           r == Raised(Marked(obstacles))
<1>1. \A d \in Cells : r[d] = Lethal <=> m[d] = Lethal
  <2> SUFFICES ASSUME NEW d \in Cells PROVE r[d] = Lethal <=> m[d] = Lethal
    OBVIOUS
  <2>1. /\ r[d] \in Int /\ r[d] >= m[d] /\ r[d] <= Lethal
        /\ r[d] = Lethal => m[d] = Lethal
    BY RaisedCosts
  <2>2. m[d] \in {0, Lethal}
    BY MarkedCosts
  <2> HIDE DEF r, m
  <2> QED
    BY <2>1, <2>2 DEF Lethal
<1>2. /\ r[c] \in Int /\ r[c] >= m[c] /\ r[c] <= Lethal
      /\ r[c] = Lethal => m[c] = Lethal
      /\ r[c] >= Inscribed => m[c] = Lethal \/ c \in FullRisk
      /\ m[c] \in {0, Lethal}
  BY RaisedCosts, MarkedCosts
<1> HIDE DEF r, m
<1>3. CASE \E d \in Cells : m[d] = Lethal /\ Distance(c, d) = 1
  <2>1. /\ Inflated(r)[c] = Max({r[c], Inscribed})
        /\ Inflated(m)[c] = Max({m[c], Inscribed})
    BY <1>1, <1>3 DEF Inflated
  <2>2. Inscribed \in Int /\ m[c] \in Int
    BY <1>2 DEF Inscribed, Lethal
  <2>3. /\ Max({r[c], Inscribed}) \in {r[c], Inscribed}
        /\ Max({r[c], Inscribed}) >= r[c] /\ Max({r[c], Inscribed}) >= Inscribed
        /\ Max({m[c], Inscribed}) \in {m[c], Inscribed}
        /\ Max({m[c], Inscribed}) >= m[c] /\ Max({m[c], Inscribed}) >= Inscribed
    BY <1>2, <2>2, MaxOfTwo
  <2>4. /\ Inflated(r)[c] \in {r[c], Inscribed} /\ Inflated(r)[c] >= r[c]
        /\ Inflated(r)[c] >= Inscribed
        /\ Inflated(m)[c] \in {m[c], Inscribed} /\ Inflated(m)[c] >= m[c]
        /\ Inflated(m)[c] >= Inscribed
    BY <2>1, <2>3
  <2> QED
    BY <1>2, <2>4 DEF Lethal, Inscribed, r, m
<1>4. CASE ~(\E d \in Cells : m[d] = Lethal /\ Distance(c, d) = 1)
  <2>1. Inflated(r)[c] = r[c] /\ Inflated(m)[c] = m[c]
    BY <1>1, <1>4 DEF Inflated
  <2> QED
    BY <1>2, <2>1 DEF Lethal, Inscribed, r, m
<1> QED
  BY <1>3, <1>4

LEMMA RiskInitIInv == RiskInit => RiskIInv
<1> SUFFICES ASSUME RiskInit PROVE RiskIInv
  OBVIOUS
<1>1. /\ anchors = <<>> /\ pose = None /\ grid = None /\ latest_ = None
      /\ max_cost_ \in MaxCosts
      /\ master = [c \in Cells |-> 0] /\ plain = [c \in Cells |-> 0]
  BY DEF RiskInit
<1>2. max_cost_ \in Int
  BY <1>1, RiskConstants
<1>3. \A c \in Cells : master[c] = 0 /\ plain[c] = 0
  BY <1>1
<1> QED
  BY <1>1, <1>2, <1>3 DEF RiskIInv, RiskTypes, RiskOnlyRaises, Inscribed, Lethal

LEMMA RiskStep == RiskIInv /\ [RiskNext]_riskVars => RiskIInv'
<1> SUFFICES ASSUME RiskIInv, [RiskNext]_riskVars PROVE RiskIInv'
  OBVIOUS
<1>0. RiskTypes /\ RiskOnlyRaises
  BY DEF RiskIInv
<1>a. ASSUME UNCHANGED << anchors, pose, grid, latest_, max_cost_, master, plain, full >>
      PROVE  RiskIInv'
  BY <1>0, <1>a DEF RiskIInv, RiskTypes, RiskOnlyRaises, IsGrid
<1>b. ASSUME UNCHANGED << master, plain, full >>, RiskTypes'
      PROVE  RiskIInv'
  BY <1>0, <1>b DEF RiskIInv, RiskOnlyRaises
<1>1. CASE OnOdom
  BY <1>0, <1>1, <1>b DEF OnOdom, parameters, update, RiskTypes, IsGrid
<1>2. CASE OnAnchors
  BY <1>0, <1>2, <1>b DEF OnAnchors, parameters, update, RiskTypes, IsGrid
<1>3. ASSUME NEW slow \in BOOLEAN, Tick(slow) PROVE RiskIInv'
  <2>1. PICK shift \in Shifts \cup {None} : grid' = IF publishing' THEN Frame(shift) ELSE grid
    BY <1>3 DEF Tick
  <2>2. pose \in Poses
    BY <1>0, <1>3 DEF Tick, RiskTypes
  <2>3. Frame(shift) \in [Area -> GridCell] /\ Area \subseteq Cells
    BY <1>0, <2>2, FrameType
  <2>4. IsGrid(Frame(shift))
    BY <2>3 DEF IsGrid
  <2>5. grid' = Frame(shift) \/ grid' = grid
    BY <2>1
  <2>6. grid' # None => IsGrid(grid')
    BY <1>0, <2>4, <2>5 DEF RiskTypes
  <2>7. UNCHANGED << pose, anchors, latest_, max_cost_, master, plain, full >>
    BY <1>3 DEF Tick, parameters, update
  <2> QED
    BY <1>0, <1>b, <2>6, <2>7 DEF RiskTypes
<1>4. CASE riskCB
  BY <1>0, <1>4, <1>b DEF riskCB, pipeline, parameters, update, RiskTypes, IsGrid
<1>5. CASE SetEnabled \/ Clock \/ updateBounds
  BY <1>5, <1>a DEF SetEnabled, Clock, updateBounds, pipeline, parameters, update
<1>6. CASE updateCosts
  <2>1. PICK obstacles \in Obstacles :
          /\ master' = Redrawn(master, Inflated(Raised(Marked(obstacles))))
          /\ plain' = Redrawn(plain, Inflated(Marked(obstacles)))
          /\ full' = (full \ bounds) \cup (FullRisk \cap bounds)
    BY <1>6 DEF updateCosts
  <2> DEFINE new == Inflated(Raised(Marked(obstacles)))
             old == Inflated(Marked(obstacles))
  <2>2. \A c \in Cells : /\ new[c] \in Int /\ old[c] \in Int /\ new[c] >= old[c]
                         /\ new[c] >= Lethal => old[c] >= Lethal
                         /\ new[c] >= Inscribed => old[c] >= Inscribed \/ c \in FullRisk
    BY <1>0, InflatedCosts
  <2> HIDE DEF new, old
  <2>3. /\ master' = [c \in Cells |-> IF c \in bounds THEN new[c] ELSE master[c]]
        /\ plain' = [c \in Cells |-> IF c \in bounds THEN old[c] ELSE plain[c]]
    BY <2>1 DEF new, old, Redrawn
  <2>4. master' \in [Cells -> Int] /\ plain' \in [Cells -> Int]
    BY <1>0, <2>2, <2>3 DEF RiskTypes
  <2>5. RiskTypes'
    BY <1>0, <1>6, <2>4 DEF updateCosts, pipeline, parameters, RiskTypes, IsGrid
  <2>6. RiskOnlyRaises'
    <3> SUFFICES ASSUME NEW c \in Cells
                 PROVE  /\ master'[c] >= plain'[c]
                        /\ master'[c] >= Lethal => plain'[c] >= Lethal
                        /\ master'[c] >= Inscribed => plain'[c] >= Inscribed \/ c \in full'
      BY DEF RiskOnlyRaises
    <3>1. CASE c \in bounds
      <4>1. /\ master'[c] = new[c] /\ plain'[c] = old[c]
            /\ c \in FullRisk => c \in full'
        BY <2>1, <2>3, <3>1
      <4> QED
        BY <2>2, <4>1
    <3>2. CASE c \notin bounds
      <4>1. /\ master'[c] = master[c] /\ plain'[c] = plain[c]
            /\ c \in full => c \in full'
        BY <2>1, <2>3, <3>2
      <4> QED
        BY <1>0, <4>1 DEF RiskOnlyRaises
    <3> QED
      BY <3>1, <3>2
  <2> QED
    BY <2>5, <2>6 DEF RiskIInv
<1>7. CASE reset
  BY <1>0, <1>7 DEF reset, pipeline, parameters, RiskIInv, RiskTypes, RiskOnlyRaises, IsGrid
<1>8. CASE UNCHANGED riskVars
  BY <1>8, <1>a DEF riskVars, pipeline, parameters, update
<1>9. CASE SetMaxCost
  <2>1. max_cost_' \in Int
    BY <1>9, RiskConstants DEF SetMaxCost
  <2>2. RiskTypes'
    BY <1>0, <1>9, <2>1 DEF SetMaxCost, pipeline, update, RiskTypes, IsGrid
  <2> QED
    BY <1>9, <1>b, <2>2 DEF SetMaxCost, update
<1> QED
  BY <1>1, <1>2, <1>3, <1>4, <1>5, <1>6, <1>7, <1>8, <1>9 DEF RiskNext

(* The layer only raises costs and makes no cell lethal, nor an obstacle   *)
(* but by a full risk under the highest cap: not with the grid it had when *)
(* the bounds were asked for, nor with any that came since.                *)
THEOREM RaisesOnly == RiskSpec => []RiskOnlyRaises
<1>1. RiskIInv => RiskOnlyRaises
  BY DEF RiskIInv
<1> QED
  BY RiskInitIInv, RiskStep, <1>1, PTL DEF RiskSpec
=============================================================================
