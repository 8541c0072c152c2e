--------------------------- MODULE PluginExecProofs ---------------------------
(***************************************************************************)
(* Proofs about the commands of plugins (module PluginExec) for every      *)
(* program, every rules table and every way to cut the output into chunks. *)
(***************************************************************************)
EXTENDS PluginExec, FiniteSetTheorems, NaturalsInduction, WellFoundedInduction, TLAPS

-----------------------------------------------------------------------------
(* Folds.  What a recursive function computes is shown by induction over   *)
(* its argument, in the form that a nonempty set of natural numbers has a  *)
(* least element.                                                          *)

LEMMA LeastNumber ==
    ASSUME NEW T \in SUBSET Nat, T # {}
    PROVE  \E n \in T : \A m \in T : n <= m
<1> DEFINE less == {ss \in Nat \X Nat : ss[1] < ss[2]}
<1>1. IsWellFoundedOn(less, Nat)
  BY NatLessThanWellFounded DEF OpToRel
<1>2. \A x, y \in T : <<y, x>> \in less <=> y < x
  OBVIOUS
<1> HIDE DEF less
<1>3. PICK x \in T : \A y \in T : ~(<<y, x>> \in less)
  BY <1>1, WFMin
<1>4. \A y \in T : ~(y < x)
  BY <1>2, <1>3
<1>5. \A y \in T : x <= y
  BY <1>4
<1> QED
  BY <1>5

(* What holds at the start and is passed on holds at every step.           *)
LEMMA StepByStep ==
    ASSUME NEW n \in Nat, NEW g, NEW Inv,
           g[0] \in Inv[0],
           \A k \in 1..n : g[k - 1] \in Inv[k - 1] => g[k] \in Inv[k]
    PROVE  \A k \in 0..n : g[k] \in Inv[k]
<1> DEFINE T == {k \in 0..n : g[k] \notin Inv[k]}
<1> SUFFICES ASSUME T # {} PROVE FALSE
  OBVIOUS
<1>1. T \in SUBSET Nat
  OBVIOUS
<1>2. PICK k \in T : \A m \in T : k <= m
  BY <1>1, LeastNumber
<1>3. k # 0
  BY <1>2
<1>4. k \in 1..n /\ k - 1 \in 0..n /\ ~(k <= k - 1)
  BY <1>2, <1>3
<1>5. k - 1 \notin T
  BY <1>2, <1>4
<1> QED
  BY <1>2, <1>4, <1>5

LEMMA StaysInside ==
    ASSUME NEW n \in Nat, NEW g, NEW X, g[0] \in X,
           \A k \in 1..n : g[k - 1] \in X => g[k] \in X
    PROVE  \A k \in 0..n : g[k] \in X
<1> DEFINE Inv == [k \in 0..n |-> X]
<1>1. \A k \in 0..n : Inv[k] = X
  OBVIOUS
<1>2. 0 \in 0..n /\ \A k \in 1..n : k \in 0..n /\ k - 1 \in 0..n
  OBVIOUS
<1> HIDE DEF Inv
<1>3. g[0] \in Inv[0] /\ \A k \in 1..n : g[k - 1] \in Inv[k - 1] => g[k] \in Inv[k]
  BY <1>1, <1>2
<1>4. \A k \in 0..n : g[k] \in Inv[k]
  BY <1>3, StepByStep
<1> QED
  BY <1>1, <1>4

(* Stepping n times from a start within a set.                             *)
Steps(n, base, F, g) ==
    g = [k \in 0..n |-> IF k = 0 THEN base ELSE F[<<k, g[k - 1]>>]]

LEMMA StepsExist ==
    ASSUME NEW n \in Nat, NEW X, NEW base \in X, NEW F,
           \A k \in 1..n : \A x \in X : F[<<k, x>>] \in X
    PROVE  \E g \in [0..n -> X] : Steps(n, base, F, g)
<1> DEFINE T == {m \in 0..n : ~\E g \in [0..m -> X] : Steps(m, base, F, g)}
<1>1. CASE T = {}
  BY <1>1
<1>2. CASE T # {}
  <2>1. T \in SUBSET Nat
    OBVIOUS
  <2>2. PICK m \in T : \A l \in T : m <= l
    BY <1>2, <2>1, LeastNumber
  <2>3. m # 0
    <3> DEFINE g == [k \in 0..0 |-> base]
    <3>1. g \in [0..0 -> X]
      OBVIOUS
    <3>2. Steps(0, base, F, g)
      BY DEF Steps
    <3> QED
      BY <2>2, <3>1, <3>2
  <2>4. m \in 1..n /\ m - 1 \in 0..n /\ ~(m <= m - 1)
    BY <2>2, <2>3
  <2>5. PICK h \in [0..(m - 1) -> X] : Steps(m - 1, base, F, h)
    BY <2>2, <2>4
  <2> DEFINE last == F[<<m, h[m - 1]>>]
             g == [k \in 0..m |-> IF k = m THEN last ELSE h[k]]
  <2>6. last \in X
    BY <2>4, <2>5
  <2>7. \A k \in 0..m : k = m \/ k \in 0..(m - 1)
    BY <2>4
  <2> HIDE DEF last
  <2>8. g \in [0..m -> X]
    BY <2>5, <2>6, <2>7
  <2>9. ASSUME NEW k \in 0..m
        PROVE  g[k] = IF k = 0 THEN base ELSE F[<<k, g[k - 1]>>]
    <3>1. CASE k = m
      <4>1. g[k] = last /\ k # 0 /\ m - 1 \in 0..m /\ m - 1 # m
        BY <2>4, <3>1
      <4>2. g[m - 1] = h[m - 1]
        BY <4>1
      <4> QED
        BY <3>1, <4>1, <4>2 DEF last
    <3>2. CASE k # m
      <4>1. k \in 0..(m - 1) /\ g[k] = h[k]
        BY <2>7, <3>2
      <4>2. h[k] = IF k = 0 THEN base ELSE F[<<k, h[k - 1]>>]
        BY <2>5, <4>1 DEF Steps
      <4>3. k # 0 => k - 1 \in 0..m /\ k - 1 # m
        BY <2>4, <4>1
      <4>4. k # 0 => g[k - 1] = h[k - 1]
        BY <4>3
      <4> QED
        BY <4>1, <4>2, <4>4
    <3> QED
      BY <3>1, <3>2
  <2> HIDE DEF g
  <2>10. Steps(m, base, F, g)
    BY <2>8, <2>9 DEF Steps
  <2> QED
    BY <2>2, <2>8, <2>10
<1> QED
  BY <1>1, <1>2

-----------------------------------------------------------------------------
(* Flatten.                                                                *)

(* The step of Flatten, as Fold computes it.                               *)
Glued(x, y) == CHOOSE r \in {before \o y : before \in {x}} : TRUE

LEMMA FlattenSteps ==
    ASSUME NEW S, NEW s \in Seq(Seq(S))
    PROVE  \E g \in [0..Len(s) -> Seq(S)] :
              /\ g[0] = << >>
              /\ \A k \in 1..Len(s) : g[k] = g[k - 1] \o s[k]
              /\ Flatten(s) = g[Len(s)]
<1> DEFINE n == Len(s)
           none == << >>
           Eq(g) == g = [k \in 0..n |-> IF k = 0 THEN none ELSE Glued(g[k - 1], s[k])]
           f == CHOOSE g : Eq(g)
           F == [p \in (1..n) \X Seq(S) |-> p[2] \o s[p[1]]]
<1>1. Flatten(s) = f[n]
  BY DEF Flatten, Fold, With, Glued
<1>2. n \in Nat /\ none \in Seq(S) /\ \A k \in 1..n : s[k] \in Seq(S)
  OBVIOUS
<1>3. \A k \in 1..n : \A x \in Seq(S) : F[<<k, x>>] = x \o s[k]
  OBVIOUS
<1>4. \A k \in 1..n : \A x \in Seq(S) : x \o s[k] \in Seq(S)
  <2> TAKE k \in 1..n
  <2>1. s[k] \in Seq(S)
    BY <1>2
  <2> QED
    BY <2>1
<1> HIDE DEF F, n, none
<1>5. PICK g \in [0..n -> Seq(S)] : Steps(n, none, F, g)
  <2> DEFINE X == Seq(S)
  <2>1. none \in X /\ \A k \in 1..n : \A x \in X : F[<<k, x>>] \in X
    BY <1>2, <1>3, <1>4
  <2> HIDE DEF X
  <2>2. \E g \in [0..n -> X] : Steps(n, none, F, g)
    BY <1>2, <2>1, StepsExist
  <2> QED
    BY <2>2 DEF X
<1>6. ASSUME NEW x, NEW y PROVE Glued(x, y) = x \o y
  <2> DEFINE z == x \o y
             T == {before \o y : before \in {x}}
  <2>1. z \in T /\ \A t \in T : t = z
    OBVIOUS
  <2>2. Glued(x, y) = CHOOSE r \in T : TRUE
    BY DEF Glued
  <2> HIDE DEF z, T
  <2>3. (CHOOSE r \in T : TRUE) \in T
    BY <2>1
  <2> QED
    BY <2>1, <2>2, <2>3 DEF z
<1>7. 0 \in 0..n /\ \A k \in 1..n : k \in 0..n /\ k - 1 \in 0..n /\ k # 0
  BY <1>2
<1>8. \A k \in 0..n : k # 0 => k \in 1..n
  BY <1>2
<1>9. g[0] = none /\ \A k \in 1..n : g[k] = g[k - 1] \o s[k]
  BY <1>3, <1>5, <1>7 DEF Steps
<1>10. Eq(g)
  <2>1. \A k \in 0..n : g[k] = IF k = 0 THEN none ELSE Glued(g[k - 1], s[k])
    BY <1>6, <1>8, <1>9
  <2> QED
    BY <1>5, <2>1
<1>11. Eq(f)
  BY <1>10
<1> HIDE DEF f
<1>12. f[0] = none /\ \A k \in 1..n : f[k] = f[k - 1] \o s[k]
  BY <1>6, <1>7, <1>11
<1>13. \A k \in 0..n : f[k] \in Seq(S)
  <2> DEFINE X == Seq(S)
  <2>1. f[0] \in X /\ \A k \in 1..n : f[k - 1] \in X => f[k] \in X
    BY <1>2, <1>4, <1>12
  <2> HIDE DEF X
  <2>2. \A k \in 0..n : f[k] \in X
    BY <1>2, <2>1, StaysInside
  <2> QED
    BY <2>2 DEF X
<1>14. f \in [0..n -> Seq(S)]
  BY <1>11, <1>13
<1> QED
  BY <1>1, <1>12, <1>14 DEF n, none

(* Flatten of sequences is a sequence.                                     *)
LEMMA FlattenType ==
    ASSUME NEW S, NEW s \in Seq(Seq(S))
    PROVE  Flatten(s) \in Seq(S)
<1>1. Len(s) \in 0..Len(s)
  OBVIOUS
<1>2. PICK g \in [0..Len(s) -> Seq(S)] : Flatten(s) = g[Len(s)]
  BY FlattenSteps
<1> QED
  BY <1>1, <1>2

(* The value of a singleton.                                               *)
LEMMA OnlyOne ==
    ASSUME NEW z
    PROVE  (CHOOSE r \in {z} : TRUE) = z
  OBVIOUS

-----------------------------------------------------------------------------
(* What rules of text yield.                                               *)

(* Strings; the provers do not know that the literals the model uses are   *)
(* among them.                                                             *)
Symbols == STRING \cup {LF, CR, "message", "default"}

Texts == Seq(Symbols)

ActionsIn(rs) == UNION {ToSet(rs[i].actions) : i \in DOMAIN rs}

(* Rules as parse_exec_rules leaves them.                                  *)
TextRules(rs) ==
    /\ Len(rs) \in Nat /\ DOMAIN rs = 1..Len(rs)
    /\ \A i \in DOMAIN rs : /\ rs[i].regex \in Texts
                            /\ rs[i].actions \in Seq(ActionsIn(rs))
                            /\ rs[i].repeat \in BOOLEAN /\ rs[i].stop \in BOOLEAN
    /\ \A a \in ActionsIn(rs) : a.type \in {"send", "state"} => a.value \in Symbols

Runtimes(rs) == [current : Symbols, disabled : [DOMAIN rs -> BOOLEAN], cursor : [DOMAIN rs -> Nat]]

LEMMA ValuesAre ==
    ASSUME NEW A, NEW V, NEW actions \in Seq(A), NEW type,
           \A a \in A : a.type = type => a.value \in V
    PROVE  Values(actions, type) \in Seq(V)
<1> DEFINE s == [k \in DOMAIN actions |->
                   IF actions[k].type = type /\ actions[k].value # "" THEN <<actions[k].value>> ELSE << >>]
<1>1. DOMAIN actions = 1..Len(actions) /\ Len(actions) \in Nat
  OBVIOUS
<1>2. ASSUME NEW k \in DOMAIN actions PROVE s[k] \in Seq(V)
  <2>1. actions[k] \in A
    BY <1>1
  <2>2. CASE actions[k].type = type /\ actions[k].value # ""
    <3> DEFINE v == actions[k].value
    <3>1. v \in V /\ s[k] = <<v>>
      BY <2>1, <2>2
    <3> HIDE DEF v, s
    <3> QED
      BY <3>1
  <2>3. CASE ~(actions[k].type = type /\ actions[k].value # "")
    <3>1. s[k] = << >>
      BY <2>3
    <3> HIDE DEF s
    <3> QED
      BY <3>1
  <2> QED
    BY <2>2, <2>3
<1>3. s \in Seq(Seq(V))
  <2>1. s = [k \in 1..Len(actions) |-> s[k]]
    BY <1>1
  <2> HIDE DEF s
  <2> QED
    BY <1>1, <1>2, <2>1
<1>4. Values(actions, type) = Flatten(s)
  BY DEF Values
<1> HIDE DEF s
<1> QED
  BY <1>3, <1>4, FlattenType

LEMMA ValuesType ==
    ASSUME NEW A, NEW actions \in Seq(A), NEW type,
           \A a \in A : a.type = type => a.value \in Symbols
    PROVE  Values(actions, type) \in Texts
  BY ValuesAre DEF Texts

LEMMA StateAfterType ==
    ASSUME NEW A, NEW actions \in Seq(A), NEW current \in Symbols,
           \A a \in A : a.type = "state" => a.value \in Symbols
    PROVE  StateAfter(actions, current) \in Symbols
<1> DEFINE values == Values(actions, "state")
<1>1. values \in Seq(Symbols)
  BY ValuesType DEF Texts
<1>2. StateAfter(actions, current) = IF values = << >> THEN current ELSE values[Len(values)]
  BY DEF StateAfter, Last
<1> HIDE DEF values
<1>3. CASE values # << >>
  <2>1. Len(values) \in 1..Len(values)
    BY <1>1, <1>3
  <2> QED
    BY <1>1, <1>2, <1>3, <2>1
<1> QED
  BY <1>2, <1>3

(* Where a match ends, and where the cursor goes.                          *)
LEMMA SearchEnds ==
    ASSUME NEW rule, rule.regex \in Texts, NEW text, Len(text) \in Nat
    PROVE  \A e \in regex_search(rule, text) : e \in Nat /\ e <= Len(text)
<1> DEFINE n == Len(rule.regex)
<1>1. n \in Nat
  BY DEF Texts
<1> HIDE DEF n
<1> QED
  BY <1>1 DEF regex_search, n

LEMMA MinOfTwo ==
    ASSUME NEW a \in Nat, NEW b \in Nat
    PROVE  Min({a, b}) \in Nat /\ Min({a, b}) <= a /\ Min({a, b}) <= b
           /\ (Min({a, b}) = a \/ Min({a, b}) = b)
<1>1. \E x \in {a, b} : \A y \in {a, b} : x <= y
  <2>1. a <= b \/ b <= a
    OBVIOUS
  <2> QED
    BY <2>1
<1>2. Min({a, b}) = CHOOSE x \in {a, b} : \A y \in {a, b} : x <= y
  BY DEF Min
<1>3. Min({a, b}) \in {a, b} /\ \A y \in {a, b} : Min({a, b}) <= y
  BY <1>1, <1>2
<1> QED
  BY <1>3

(* What a rule that was tried leaves is what the rules before it left, or  *)
(* the rule fired.                                                         *)
Evaluations(rs) == [runtime : Runtimes(rs), fired : Seq(DOMAIN rs), stopped : BOOLEAN]

LEMMA TryRuleType ==
    ASSUME NEW rs, TextRules(rs), NEW source, NEW text \in Texts,
           NEW acc \in Evaluations(rs), NEW i \in DOMAIN rs
    PROVE  TryRule(source, rs, text, acc, i) \in Evaluations(rs)
<1> DEFINE ends == regex_search(rs[i], TriedOn(source, acc.runtime, i, text))
           e == CHOOSE e \in ends : TRUE
           to == StateAfter(rs[i].actions, acc.runtime.current)
           moved == CursorAfter(source, acc.runtime.cursor[i], Len(text), e)
           used == ~rs[i].repeat
           disabled == [acc.runtime.disabled EXCEPT ![i] = used]
           cursor == [acc.runtime.cursor EXCEPT ![i] = moved]
           new == [runtime |-> [current |-> to, disabled |-> disabled, cursor |-> cursor],
                   fired |-> Append(acc.fired, i), stopped |-> rs[i].stop]
<1>1. /\ acc.runtime.current \in Symbols
      /\ acc.runtime.disabled \in [DOMAIN rs -> BOOLEAN]
      /\ acc.runtime.cursor \in [DOMAIN rs -> Nat]
      /\ acc.fired \in Seq(DOMAIN rs)
  BY DEF Evaluations, Runtimes
<1>2. CASE ends = {}
  BY <1>2 DEF TryRule
<1>3. CASE ends # {}
  <2> DEFINE before == acc.runtime.cursor[i]
             shorter == Min({before, Len(text)})
  <2>a. before \in Nat /\ Len(text) \in Nat
    BY <1>1 DEF Texts
  <2> HIDE DEF before
  <2>b. shorter \in Nat
    BY <2>a, MinOfTwo
  <2>c. Len(SubSeq(text, shorter + 1, Len(text))) \in Nat
    <3> HIDE DEF shorter
    <3> QED
      BY <2>a, <2>b DEF Texts
  <2>1. Len(TriedOn(source, acc.runtime, i, text)) \in Nat
    BY <2>a, <2>c DEF TriedOn, before
  <2>2. e \in Nat
    BY <1>3, <2>1, SearchEnds DEF TextRules
  <2>3. moved \in Nat
    <3>1. moved = IF source = "line" THEN before ELSE shorter + e
      BY DEF CursorAfter, before
    <3> HIDE DEF shorter, e, moved
    <3> QED
      BY <2>2, <2>a, <2>b, <3>1
  <2>4. to \in Symbols
    BY <1>1, StateAfterType DEF TextRules
  <2>5. rs[i].repeat \in BOOLEAN /\ rs[i].stop \in BOOLEAN
    BY DEF TextRules
  <2>6. TryRule(source, rs, text, acc, i) = acc \/ TryRule(source, rs, text, acc, i) = new
    BY DEF TryRule
  <2>7. disabled \in [DOMAIN rs -> BOOLEAN]
    BY <1>1, <2>5
  <2> HIDE DEF moved, to, used
  <2>8. cursor \in [DOMAIN rs -> Nat]
    BY <1>1, <2>3
  <2>9. Append(acc.fired, i) \in Seq(DOMAIN rs)
    BY <1>1
  <2> HIDE DEF disabled, cursor
  <2>10. new \in Evaluations(rs)
    BY <2>4, <2>5, <2>7, <2>8, <2>9 DEF Evaluations, Runtimes
  <2> HIDE DEF new
  <2> QED
    BY <2>6, <2>10
<1> QED
  BY <1>2, <1>3

(* The step of evaluate_rules_for_source, as Fold computes it.             *)
Tried(source, rs, text, x, i) ==
    CHOOSE r \in {TryRule(source, rs, text, before, i) : before \in {x}} : TRUE

LEMMA EvaluationSteps ==
    ASSUME NEW rs, TextRules(rs), NEW source, NEW text \in Texts, NEW rt \in Runtimes(rs)
    PROVE  \E g \in [0..Len(rs) -> Evaluations(rs)] :
               /\ g[0] = [runtime |-> rt, fired |-> << >>, stopped |-> FALSE]
               /\ \A k \in 1..Len(rs) : g[k] = TryRule(source, rs, text, g[k - 1], k)
               /\ evaluate_rules_for_source(source, rs, rt, text) = g[Len(rs)]
<1> DEFINE s == [i \in DOMAIN rs |-> i]
           n == Len(s)
           base == [runtime |-> rt, fired |-> << >>, stopped |-> FALSE]
           Eq(g) == g = [k \in 0..n |-> IF k = 0 THEN base ELSE Tried(source, rs, text, g[k - 1], s[k])]
           f == CHOOSE g : Eq(g)
           X == Evaluations(rs)
           F == [p \in (1..n) \X X |-> TryRule(source, rs, text, p[2], p[1])]
<1>1. evaluate_rules_for_source(source, rs, rt, text) = f[n]
  <2> DEFINE Over(v) == (CHOOSE g : g = [k \in 0..Len(v) |->
                            IF k = 0 THEN base ELSE Tried(source, rs, text, g[k - 1], v[k])])[Len(v)]
  <2>1. evaluate_rules_for_source(source, rs, rt, text) = CHOOSE r \in {Over(v) : v \in {s}} : TRUE
    BY DEF evaluate_rules_for_source, Fold, With, Tried
  <2>2. Over(s) = f[n]
    OBVIOUS
  <2>3. {Over(v) : v \in {s}} = {Over(s)}
    <3> HIDE DEF s
    <3> QED
      BY Zenon
  <2> QED
    BY <2>1, <2>2, <2>3, OnlyOne
<1>2. n \in Nat /\ DOMAIN rs = 1..n /\ \A k \in 1..n : s[k] = k
  <2>1. s \in Seq(Nat)
    BY DEF TextRules
  <2>2. n \in Nat /\ DOMAIN s = 1..n
    BY <2>1
  <2> QED
    BY <2>2
<1>3. base \in X
  <2>1. << >> \in Seq(DOMAIN rs)
    OBVIOUS
  <2> QED
    BY <2>1 DEF Evaluations
<1>4. \A k \in 1..n : \A x \in X : F[<<k, x>>] = TryRule(source, rs, text, x, k)
  OBVIOUS
<1>5. \A k \in 1..n : \A x \in X : F[<<k, x>>] \in X
  BY <1>2, <1>4, TryRuleType
<1>6. ASSUME NEW x, NEW i PROVE Tried(source, rs, text, x, i) = TryRule(source, rs, text, x, i)
  <2>1. {TryRule(source, rs, text, before, i) : before \in {x}} = {TryRule(source, rs, text, x, i)}
    OBVIOUS
  <2> QED
    BY <2>1, OnlyOne DEF Tried
<1> HIDE DEF F, X, base, s, n
<1>7. PICK g \in [0..n -> X] : Steps(n, base, F, g)
  BY <1>2, <1>3, <1>5, StepsExist
<1>8. 0 \in 0..n /\ \A k \in 1..n : k \in 0..n /\ k - 1 \in 0..n /\ k # 0
  BY <1>2
<1>9. \A k \in 0..n : k # 0 => k \in 1..n
  BY <1>2
<1>10. Eq(g)
  <2>1. \A k \in 0..n : g[k] = IF k = 0 THEN base ELSE Tried(source, rs, text, g[k - 1], s[k])
    BY <1>2, <1>4, <1>6, <1>7, <1>8, <1>9 DEF Steps
  <2> QED
    BY <1>7, <2>1
<1>11. Eq(f)
  BY <1>10
<1> HIDE DEF f
<1>12. f[0] = base /\ \A k \in 1..n : f[k] = TryRule(source, rs, text, f[k - 1], k)
  BY <1>2, <1>6, <1>8, <1>11
<1>13. \A k \in 0..n : f[k] \in X
  <2>1. f[0] \in X /\ \A k \in 1..n : f[k - 1] \in X => f[k] \in X
    <3> USE DEF X
    <3> QED
      BY <1>2, <1>3, <1>12, TryRuleType
  <2> QED
    BY <1>2, <2>1, StaysInside
<1>14. n = Len(rs)
  <2> DEFINE m == Len(rs)
  <2>1. m \in Nat /\ 1..n = 1..m
    BY <1>2 DEF TextRules
  <2> HIDE DEF m
  <2>2. (m > 0 => m \in 1..m) /\ (n > 0 => n \in 1..n)
    BY <1>2, <2>1
  <2>3. (m > 0 => m \in 1..n) /\ (n > 0 => n \in 1..m)
    BY <2>1, <2>2
  <2>4. n = m
    BY <1>2, <2>1, <2>3
  <2> QED
    BY <2>4 DEF m
<1>15. f \in [0..n -> X]
  BY <1>11, <1>13
<1> QED
  BY <1>1, <1>12, <1>14, <1>15 DEF X, base

LEMMA EvaluationType ==
    ASSUME NEW rs, TextRules(rs), NEW source, NEW text \in Texts, NEW rt \in Runtimes(rs)
    PROVE  evaluate_rules_for_source(source, rs, rt, text) \in Evaluations(rs)
<1>1. Len(rs) \in 0..Len(rs)
  BY DEF TextRules
<1>2. PICK g \in [0..Len(rs) -> Evaluations(rs)] :
          evaluate_rules_for_source(source, rs, rt, text) = g[Len(rs)]
  BY EvaluationSteps, ZenonT(60)
<1> QED
  BY <1>1, <1>2

(* The rules on lines.                                                     *)
Findings(rs) == [runtime : Runtimes(rs), fired : Seq(DOMAIN rs)]

LEMMA EvaluateType ==
    ASSUME TextRules(rules), NEW source, NEW text \in Texts, NEW acc \in Findings(rules)
    PROVE  Evaluate(source, acc, text) \in Findings(rules)
<1> DEFINE e == evaluate_rules_for_source(source, rules, acc.runtime, text)
           all == acc.fired \o e.fired
           D == DOMAIN rules
<1>1. e \in Evaluations(rules)
  BY EvaluationType DEF Findings
<1>2. Evaluate(source, acc, text) = [runtime |-> e.runtime, fired |-> all]
  BY DEF Evaluate
<1> HIDE DEF e
<1>3. e.runtime \in Runtimes(rules) /\ e.fired \in Seq(D) /\ acc.fired \in Seq(D)
  BY <1>1 DEF Evaluations, Findings
<1>4. all \in Seq(D)
  <2> HIDE DEF D
  <2> QED
    BY <1>3
<1> HIDE DEF all
<1> QED
  BY <1>2, <1>3, <1>4 DEF Findings

(* The step of EvaluateLines, as Fold computes it.                         *)
OneLine(x, line) == CHOOSE r \in {Evaluate("line", before, line) : before \in {x}} : TRUE

LEMMA EvaluateLinesSteps ==
    ASSUME TextRules(rules), NEW rt \in Runtimes(rules), NEW lines \in Seq(Texts)
    PROVE  \E g \in [0..Len(lines) -> Findings(rules)] :
               /\ g[0] = [runtime |-> rt, fired |-> << >>]
               /\ \A k \in 1..Len(lines) : g[k] = Evaluate("line", g[k - 1], lines[k])
               /\ EvaluateLines(rt, lines) = g[Len(lines)]
<1> DEFINE n == Len(lines)
           base == [runtime |-> rt, fired |-> << >>]
           Eq(g) == g = [k \in 0..n |-> IF k = 0 THEN base ELSE OneLine(g[k - 1], lines[k])]
           f == CHOOSE g : Eq(g)
           X == Findings(rules)
           F == [p \in (1..n) \X X |-> Evaluate("line", p[2], lines[p[1]])]
<1>1. EvaluateLines(rt, lines) = f[n]
  <2> DEFINE Over(v) == (CHOOSE g : g = [k \in 0..Len(v) |->
                            IF k = 0 THEN base ELSE OneLine(g[k - 1], v[k])])[Len(v)]
  <2>1. EvaluateLines(rt, lines) = CHOOSE r \in {Over(v) : v \in {lines}} : TRUE
    BY DEF EvaluateLines, Fold, With, OneLine
  <2>2. Over(lines) = f[n]
    OBVIOUS
  <2>3. {Over(v) : v \in {lines}} = {Over(lines)}
    BY ZenonT(60)
  <2> QED
    BY <2>1, <2>2, <2>3, OnlyOne
<1>2. n \in Nat /\ \A k \in 1..n : lines[k] \in Texts
  OBVIOUS
<1>3. base \in X
  <2>1. << >> \in Seq(DOMAIN rules)
    OBVIOUS
  <2> QED
    BY <2>1 DEF Findings
<1>4. \A k \in 1..n : \A x \in X : F[<<k, x>>] = Evaluate("line", x, lines[k])
  OBVIOUS
<1>5. \A k \in 1..n : \A x \in X : F[<<k, x>>] \in X
  BY <1>2, <1>4, EvaluateType
<1>6. ASSUME NEW x, NEW line PROVE OneLine(x, line) = Evaluate("line", x, line)
  <2>1. {Evaluate("line", before, line) : before \in {x}} = {Evaluate("line", x, line)}
    OBVIOUS
  <2> QED
    BY <2>1, OnlyOne DEF OneLine
<1> HIDE DEF F, X, base, n
<1>7. PICK g \in [0..n -> X] : Steps(n, base, F, g)
  BY <1>2, <1>3, <1>5, StepsExist
<1>8. 0 \in 0..n /\ \A k \in 1..n : k \in 0..n /\ k - 1 \in 0..n /\ k # 0
  BY <1>2
<1>9. \A k \in 0..n : k # 0 => k \in 1..n
  BY <1>2
<1>10. Eq(g)
  <2>1. \A k \in 0..n : g[k] = IF k = 0 THEN base ELSE OneLine(g[k - 1], lines[k])
    BY <1>2, <1>4, <1>6, <1>7, <1>8, <1>9 DEF Steps
  <2> QED
    BY <1>7, <2>1
<1>11. Eq(f)
  BY <1>10
<1> HIDE DEF f
<1>12. f[0] = base /\ \A k \in 1..n : f[k] = Evaluate("line", f[k - 1], lines[k])
  BY <1>2, <1>6, <1>8, <1>11
<1>13. \A k \in 0..n : f[k] \in X
  <2>1. f[0] \in X /\ \A k \in 1..n : f[k - 1] \in X => f[k] \in X
    <3> USE DEF X
    <3> QED
      BY <1>2, <1>3, <1>12, EvaluateType
  <2> QED
    BY <1>2, <2>1, StaysInside
<1>14. f \in [0..n -> X]
  BY <1>11, <1>13
<1> QED
  BY <1>1, <1>12, <1>14 DEF X, base, n

LEMMA EvaluateLinesType ==
    ASSUME TextRules(rules), NEW rt \in Runtimes(rules), NEW lines \in Seq(Texts)
    PROVE  EvaluateLines(rt, lines) \in Findings(rules)
<1>1. Len(lines) \in 0..Len(lines)
  OBVIOUS
<1>2. PICK g \in [0..Len(lines) -> Findings(rules)] : EvaluateLines(rt, lines) = g[Len(lines)]
  BY EvaluateLinesSteps
<1> QED
  BY <1>1, <1>2

(* What the rules send.                                                    *)
LEMMA ActionsOfType ==
    ASSUME NEW rs, TextRules(rs), NEW which \in Seq(DOMAIN rs)
    PROVE  ActionsOf(rs, which) \in Seq(ActionsIn(rs))
<1> DEFINE s == [k \in DOMAIN which |-> rs[which[k]].actions]
           A == ActionsIn(rs)
           D == DOMAIN rs
<1>1. DOMAIN which = 1..Len(which) /\ Len(which) \in Nat /\ \A k \in DOMAIN which : which[k] \in D
  <2>1. which \in Seq(D)
    OBVIOUS
  <2> HIDE DEF D
  <2> QED
    BY <2>1
<1>2. \A k \in DOMAIN which : s[k] \in Seq(A)
  BY <1>1 DEF TextRules
<1>3. s = [k \in 1..Len(which) |-> s[k]]
  BY <1>1
<1>4. ActionsOf(rs, which) = Flatten(s)
  BY DEF ActionsOf
<1> HIDE DEF s, A
<1>5. s \in Seq(Seq(A))
  BY <1>1, <1>2, <1>3
<1> QED
  BY <1>4, <1>5, FlattenType DEF A

LEMMA SentType ==
    ASSUME NEW rs, TextRules(rs), NEW which \in Seq(DOMAIN rs), NEW terminal
    PROVE  Sent(ActionsOf(rs, which), terminal) \in Texts
<1> DEFINE actions == ActionsOf(rs, which)
<1>1. actions \in Seq(ActionsIn(rs))
  BY ActionsOfType
<1> HIDE DEF actions
<1>2. Values(actions, "send") \in Texts
  BY <1>1, ValuesType DEF TextRules
<1>3. << >> \in Texts
  BY DEF Texts
<1> QED
  BY <1>2, <1>3 DEF Sent, actions

-----------------------------------------------------------------------------
(* Text that is written, cleaned and cut.                                  *)

LEMMA OnTheTerminalType ==
    ASSUME NEW text \in Texts
    PROVE  OnTheTerminal(text) \in Texts
<1> DEFINE s == [k \in DOMAIN text |-> IF text[k] = LF THEN <<CR, LF>> ELSE <<text[k]>>]
<1>1. DOMAIN text = 1..Len(text) /\ Len(text) \in Nat /\ \A k \in DOMAIN text : text[k] \in Symbols
  BY DEF Texts
<1>2. CR \in Symbols /\ LF \in Symbols
  BY DEF Symbols
<1>3. ASSUME NEW k \in DOMAIN text PROVE s[k] \in Seq(Symbols)
  <2> DEFINE c == text[k]
  <2>1. s[k] = <<CR, LF>> \/ s[k] = <<c>>
    OBVIOUS
  <2>2. c \in Symbols
    BY <1>1
  <2> HIDE DEF c, s
  <2>3. <<CR, LF>> \in Seq(Symbols) /\ <<c>> \in Seq(Symbols)
    BY <1>2, <2>2
  <2> QED
    BY <2>1, <2>3
<1>4. s = [k \in 1..Len(text) |-> s[k]]
  BY <1>1
<1>5. OnTheTerminal(text) = Flatten(s)
  BY DEF OnTheTerminal
<1> HIDE DEF s
<1>6. s \in Seq(Seq(Symbols))
  BY <1>1, <1>3, <1>4
<1> QED
  BY <1>5, <1>6, FlattenType DEF Texts

(* The terminal's echo of what the rules send.                             *)
Echo(sent) == Flatten([k \in DOMAIN sent |-> <<sent[k], CR, LF>>])

LEMMA EchoType ==
    ASSUME NEW sent \in Texts
    PROVE  Echo(sent) \in Texts
<1> DEFINE s == [k \in DOMAIN sent |-> <<sent[k], CR, LF>>]
<1>1. DOMAIN sent = 1..Len(sent) /\ Len(sent) \in Nat /\ \A k \in DOMAIN sent : sent[k] \in Symbols
  BY DEF Texts
<1>2. CR \in Symbols /\ LF \in Symbols
  BY DEF Symbols
<1>3. ASSUME NEW k \in DOMAIN sent PROVE s[k] \in Seq(Symbols)
  <2> DEFINE c == sent[k]
  <2>1. s[k] = <<c, CR, LF>>
    OBVIOUS
  <2>2. c \in Symbols
    BY <1>1
  <2> HIDE DEF c, s
  <2> QED
    BY <1>2, <2>1, <2>2
<1>4. s = [k \in 1..Len(sent) |-> s[k]]
  BY <1>1
<1>5. Echo(sent) = Flatten(s)
  BY DEF Echo
<1> HIDE DEF s
<1>6. s \in Seq(Seq(Symbols))
  BY <1>1, <1>3, <1>4
<1> QED
  BY <1>5, <1>6, FlattenType DEF Texts

(* Cleaning a chunk.                                                       *)
Cleanings == [at : {"text", "esc", "csi", "osc", "oscEsc", "cr"}, text : Texts]

LEMMA NormalizeSymbolType ==
    ASSUME NEW s \in Cleanings, NEW c \in Symbols
    PROVE  NormalizeSymbol(s, c) \in Cleanings
<1> DEFINE t == s.text
<1>1. t \in Texts /\ s.at \in {"text", "esc", "csi", "osc", "oscEsc", "cr"}
  BY DEF Cleanings
<1>2. LF \in Symbols /\ Append(t, LF) \in Texts /\ Append(t, c) \in Texts /\ << >> \in Texts
  <2>1. LF \in Symbols
    BY DEF Symbols
  <2> HIDE DEF t
  <2> QED
    BY <1>1, <2>1 DEF Texts
<1>3. t # << >> => Front(t) \in Texts
  <2> HIDE DEF t
  <2> QED
    BY <1>1 DEF Texts, Front
<1>4. s = [at |-> s.at, text |-> t]
  BY DEF Cleanings
<1> HIDE DEF t
<1>5. ASSUME NEW a \in {"text", "esc", "csi", "osc", "oscEsc", "cr"}
      PROVE  [s EXCEPT !.at = a] \in Cleanings
  BY DEF Cleanings
<1>6. ASSUME NEW a \in {"text", "cr"}, NEW u \in Texts
      PROVE  [at |-> a, text |-> u] \in Cleanings
  BY DEF Cleanings
<1>7. CASE s.at \in {"esc", "csi", "osc", "oscEsc"}
  <2>1. \E a \in {"text", "esc", "csi", "osc", "oscEsc", "cr"} : NormalizeSymbol(s, c) = [s EXCEPT !.at = a]
    BY <1>7 DEF NormalizeSymbol
  <2> QED
    BY <1>5, <2>1
<1>8. CASE s.at \in {"text", "cr"}
  <2> DEFINE cut == IF t = << >> THEN << >> ELSE Front(t)
  <2>1. \/ \E a \in {"text", "esc"} : NormalizeSymbol(s, c) = [s EXCEPT !.at = a]
        \/ NormalizeSymbol(s, c) = [at |-> "cr", text |-> Append(t, LF)]
        \/ NormalizeSymbol(s, c) = [at |-> "text", text |-> cut]
        \/ NormalizeSymbol(s, c) = [at |-> "text", text |-> Append(t, c)]
    BY <1>8 DEF NormalizeSymbol, t
  <2>2. cut \in Texts
    BY <1>2, <1>3
  <2> HIDE DEF cut
  <2> QED
    BY <1>2, <1>5, <1>6, <2>1, <2>2
<1> QED
  BY <1>1, <1>7, <1>8

(* The step of normalize_exec_rule_pty_chunk, as Fold computes it.         *)
Cleaned(x, c) == CHOOSE r \in {NormalizeSymbol(before, c) : before \in {x}} : TRUE

LEMMA NormalizeSteps ==
    ASSUME NEW chunk \in Texts
    PROVE  \E g \in [0..Len(chunk) -> Cleanings] :
              /\ g[0] = [at |-> "text", text |-> << >>]
              /\ \A k \in 1..Len(chunk) : g[k] = NormalizeSymbol(g[k - 1], chunk[k])
              /\ normalize_exec_rule_pty_chunk(chunk) = g[Len(chunk)].text
<1> DEFINE n == Len(chunk)
           base == [at |-> "text", text |-> << >>]
           Eq(g) == g = [k \in 0..n |-> IF k = 0 THEN base ELSE Cleaned(g[k - 1], chunk[k])]
           f == CHOOSE g : Eq(g)
           X == Cleanings
           F == [p \in (1..n) \X X |-> NormalizeSymbol(p[2], chunk[p[1]])]
<1>1. normalize_exec_rule_pty_chunk(chunk) = f[n].text
  <2> DEFINE Over(v) == (CHOOSE g : g = [k \in 0..Len(v) |->
                            IF k = 0 THEN base ELSE Cleaned(g[k - 1], v[k])])[Len(v)]
  <2>1. normalize_exec_rule_pty_chunk(chunk) = (CHOOSE r \in {Over(v) : v \in {chunk}} : TRUE).text
    BY DEF normalize_exec_rule_pty_chunk, Fold, With, Cleaned
  <2>2. Over(chunk) = f[n]
    OBVIOUS
  <2>3. {Over(v) : v \in {chunk}} = {Over(chunk)}
    BY Zenon
  <2>4. (CHOOSE r \in {Over(v) : v \in {chunk}} : TRUE) = f[n]
    BY <2>2, <2>3, OnlyOne
  <2> HIDE DEF Over, f
  <2> QED
    BY <2>1, <2>4
<1>2. n \in Nat /\ \A k \in 1..n : chunk[k] \in Symbols
  BY DEF Texts
<1>3. base \in X
  <2>1. << >> \in Texts
    BY DEF Texts
  <2> QED
    BY <2>1 DEF Cleanings
<1>4. \A k \in 1..n : \A x \in X : F[<<k, x>>] = NormalizeSymbol(x, chunk[k])
  OBVIOUS
<1>5. \A k \in 1..n : \A x \in X : F[<<k, x>>] \in X
  BY <1>2, <1>4, NormalizeSymbolType
<1>6. ASSUME NEW x, NEW c PROVE Cleaned(x, c) = NormalizeSymbol(x, c)
  <2>1. {NormalizeSymbol(before, c) : before \in {x}} = {NormalizeSymbol(x, c)}
    OBVIOUS
  <2> QED
    BY <2>1, OnlyOne DEF Cleaned
<1> HIDE DEF F, X, base, n
<1>7. PICK g \in [0..n -> X] : Steps(n, base, F, g)
  BY <1>2, <1>3, <1>5, StepsExist
<1>8. 0 \in 0..n /\ \A k \in 1..n : k \in 0..n /\ k - 1 \in 0..n /\ k # 0
  BY <1>2
<1>9. \A k \in 0..n : k # 0 => k \in 1..n
  BY <1>2
<1>10. Eq(g)
  <2>1. \A k \in 0..n : g[k] = IF k = 0 THEN base ELSE Cleaned(g[k - 1], chunk[k])
    BY <1>2, <1>4, <1>6, <1>7, <1>8, <1>9 DEF Steps
  <2> QED
    BY <1>7, <2>1
<1>11. Eq(f)
  BY <1>10
<1> HIDE DEF f
<1>12. f[0] = base /\ \A k \in 1..n : f[k] = NormalizeSymbol(f[k - 1], chunk[k])
  BY <1>2, <1>6, <1>8, <1>11
<1>13. \A k \in 0..n : f[k] \in X
  <2>1. f[0] \in X /\ \A k \in 1..n : f[k - 1] \in X => f[k] \in X
    <3> USE DEF X
    <3> QED
      BY <1>2, <1>3, <1>12, NormalizeSymbolType
  <2> QED
    BY <1>2, <2>1, StaysInside
<1>14. f \in [0..n -> X]
  BY <1>11, <1>13
<1> QED
  BY <1>1, <1>12, <1>14 DEF X, n, base

LEMMA NormalizeType ==
    ASSUME NEW chunk \in Texts
    PROVE  normalize_exec_rule_pty_chunk(chunk) \in Texts
<1>1. Len(chunk) \in 0..Len(chunk)
  BY DEF Texts
<1>2. PICK g \in [0..Len(chunk) -> Cleanings] : normalize_exec_rule_pty_chunk(chunk) = g[Len(chunk)].text
  BY NormalizeSteps
<1> QED
  BY <1>1, <1>2 DEF Cleanings

(* Cutting text into lines.                                                *)
PlainLines == Seq(Symbols \ {LF})
Cuts == [lines : Seq(PlainLines), buffer : PlainLines]

LEMMA AccumulateType ==
    ASSUME NEW acc \in Cuts, NEW c \in Symbols
    PROVE  AccumulateSymbol(acc, c) \in Cuts
<1> DEFINE b == acc.buffer
           l == acc.lines
           P == PlainLines
<1>1. b \in P /\ l \in Seq(P)
  BY DEF Cuts
<1>2. acc = [lines |-> l, buffer |-> b]
  BY DEF Cuts
<1> HIDE DEF b, l
<1>3. CASE c = LF
  <2>1. << >> \in P /\ Append(l, b) \in Seq(P)
    <3>1. << >> \in P
      BY DEF PlainLines
    <3> HIDE DEF P
    <3> QED
      BY <1>1, <3>1
  <2>2. AccumulateSymbol(acc, c) = [lines |-> Append(l, b), buffer |-> << >>]
    BY <1>2, <1>3 DEF AccumulateSymbol
  <2> QED
    BY <2>1, <2>2 DEF Cuts
<1>4. CASE c # LF
  <2>1. Append(b, c) \in P
    BY <1>1, <1>4 DEF PlainLines
  <2>2. AccumulateSymbol(acc, c) = [lines |-> l, buffer |-> Append(b, c)]
    BY <1>2, <1>4 DEF AccumulateSymbol
  <2> QED
    BY <1>1, <2>1, <2>2 DEF Cuts
<1> QED
  BY <1>3, <1>4

(* The step of LineAccumulator, as Fold computes it.                       *)
Accumulated(x, c) == CHOOSE r \in {AccumulateSymbol(before, c) : before \in {x}} : TRUE

LEMMA AccumulatorSteps ==
    ASSUME NEW start \in PlainLines, NEW text \in Texts
    PROVE  \E g \in [0..Len(text) -> Cuts] :
              /\ g[0] = [lines |-> << >>, buffer |-> start]
              /\ \A k \in 1..Len(text) : g[k] = AccumulateSymbol(g[k - 1], text[k])
              /\ LineAccumulator(start, text) = g[Len(text)]
<1> DEFINE n == Len(text)
           base == [lines |-> << >>, buffer |-> start]
           Eq(g) == g = [k \in 0..n |-> IF k = 0 THEN base ELSE Accumulated(g[k - 1], text[k])]
           f == CHOOSE g : Eq(g)
           X == Cuts
           F == [p \in (1..n) \X X |-> AccumulateSymbol(p[2], text[p[1]])]
<1>1. LineAccumulator(start, text) = f[n]
  <2> DEFINE Over(v) == (CHOOSE g : g = [k \in 0..Len(v) |->
                            IF k = 0 THEN base ELSE Accumulated(g[k - 1], v[k])])[Len(v)]
  <2>1. LineAccumulator(start, text) = CHOOSE r \in {Over(v) : v \in {text}} : TRUE
    BY DEF LineAccumulator, Fold, With, Accumulated
  <2>2. Over(text) = f[n]
    OBVIOUS
  <2>3. {Over(v) : v \in {text}} = {Over(text)}
    BY Zenon
  <2> QED
    BY <2>1, <2>2, <2>3, OnlyOne
<1>2. n \in Nat /\ \A k \in 1..n : text[k] \in Symbols
  BY DEF Texts
<1>3. base \in X
  <2>1. << >> \in Seq(PlainLines)
    OBVIOUS
  <2> QED
    BY <2>1 DEF Cuts
<1>4. \A k \in 1..n : \A x \in X : F[<<k, x>>] = AccumulateSymbol(x, text[k])
  OBVIOUS
<1>5. \A k \in 1..n : \A x \in X : F[<<k, x>>] \in X
  BY <1>2, <1>4, AccumulateType
<1>6. ASSUME NEW x, NEW c PROVE Accumulated(x, c) = AccumulateSymbol(x, c)
  <2>1. {AccumulateSymbol(before, c) : before \in {x}} = {AccumulateSymbol(x, c)}
    OBVIOUS
  <2> QED
    BY <2>1, OnlyOne DEF Accumulated
<1> HIDE DEF F, X, base, n
<1>7. PICK g \in [0..n -> X] : Steps(n, base, F, g)
  BY <1>2, <1>3, <1>5, StepsExist
<1>8. 0 \in 0..n /\ \A k \in 1..n : k \in 0..n /\ k - 1 \in 0..n /\ k # 0
  BY <1>2
<1>9. \A k \in 0..n : k # 0 => k \in 1..n
  BY <1>2
<1>10. Eq(g)
  <2>1. \A k \in 0..n : g[k] = IF k = 0 THEN base ELSE Accumulated(g[k - 1], text[k])
    BY <1>2, <1>4, <1>6, <1>7, <1>8, <1>9 DEF Steps
  <2> QED
    BY <1>7, <2>1
<1>11. Eq(f)
  BY <1>10
<1> HIDE DEF f
<1>12. f[0] = base /\ \A k \in 1..n : f[k] = AccumulateSymbol(f[k - 1], text[k])
  BY <1>2, <1>6, <1>8, <1>11
<1>13. \A k \in 0..n : f[k] \in X
  <2>1. f[0] \in X /\ \A k \in 1..n : f[k - 1] \in X => f[k] \in X
    <3> USE DEF X
    <3> QED
      BY <1>2, <1>3, <1>12, AccumulateType
  <2> QED
    BY <1>2, <2>1, StaysInside
<1>14. f \in [0..n -> X]
  BY <1>11, <1>13
<1> QED
  BY <1>1, <1>12, <1>14 DEF X, n, base

LEMMA FlattenAppend ==
    ASSUME NEW S, NEW s \in Seq(Seq(S)), NEW x \in Seq(S)
    PROVE  Flatten(Append(s, x)) = Flatten(s) \o x
<1> DEFINE Q == Seq(S)
           t == Append(s, x)
           n == Len(s)
<1>1. t \in Seq(Q) /\ n \in Nat /\ Len(t) = n + 1 /\ t[n + 1] = x /\ \A k \in 1..n : t[k] = s[k]
  <2>1. s \in Seq(Q) /\ x \in Q
    OBVIOUS
  <2> HIDE DEF Q
  <2> QED
    BY <2>1
<1>2. PICK g \in [0..n -> Q] : /\ g[0] = << >>
                               /\ \A k \in 1..n : g[k] = g[k - 1] \o s[k]
                               /\ Flatten(s) = g[n]
  BY FlattenSteps
<1> HIDE DEF t
<1>3. PICK h \in [0..Len(t) -> Q] : /\ h[0] = << >>
                                    /\ \A k \in 1..Len(t) : h[k] = h[k - 1] \o t[k]
                                    /\ Flatten(t) = h[Len(t)]
  BY <1>1, FlattenSteps
<1> HIDE DEF n
<1>4. \A k \in 1..n : k \in 1..(n + 1)
  BY <1>1
<1>5. \A k \in 0..n : h[k] = g[k]
  <2> DEFINE Inv == [k \in 0..n |-> {g[k]}]
  <2>1. \A k \in 0..n : Inv[k] = {g[k]}
    OBVIOUS
  <2>2. 0 \in 0..n /\ \A k \in 1..n : k \in 0..n /\ k - 1 \in 0..n
    BY <1>1
  <2> HIDE DEF Inv
  <2>3. h[0] \in Inv[0] /\ \A k \in 1..n : h[k - 1] \in Inv[k - 1] => h[k] \in Inv[k]
    <3>1. h[0] \in Inv[0]
      BY <1>2, <1>3, <2>1, <2>2
    <3>2. ASSUME NEW k \in 1..n, h[k - 1] \in Inv[k - 1] PROVE h[k] \in Inv[k]
      <4>1. h[k - 1] = g[k - 1]
        BY <2>1, <2>2, <3>2
      <4>2. h[k] = h[k - 1] \o s[k] /\ g[k] = g[k - 1] \o s[k]
        BY <1>1, <1>2, <1>3, <1>4
      <4> QED
        BY <2>1, <2>2, <4>1, <4>2
    <3> QED
      BY <3>1, <3>2
  <2>4. \A k \in 0..n : h[k] \in Inv[k]
    BY <1>1, <2>3, StepByStep
  <2> QED
    BY <2>1, <2>4
<1>6. n \in 0..n /\ n + 1 \in 1..(n + 1) /\ (n + 1) - 1 = n
  BY <1>1
<1>7. h[n + 1] = h[n] \o x
  BY <1>1, <1>3, <1>6
<1> QED
  BY <1>1, <1>2, <1>3, <1>5, <1>6, <1>7 DEF t

(* The text of lines, each with its newline.                               *)
LEMMA JoinedSequence ==
    ASSUME NEW lines \in Seq(PlainLines)
    PROVE  [k \in DOMAIN lines |-> Append(lines[k], LF)] \in Seq(Texts)
<1> DEFINE s == [k \in DOMAIN lines |-> Append(lines[k], LF)]
<1>1. DOMAIN lines = 1..Len(lines) /\ Len(lines) \in Nat /\ \A k \in DOMAIN lines : lines[k] \in PlainLines
  OBVIOUS
<1>2. ASSUME NEW k \in DOMAIN lines PROVE s[k] \in Texts
  <2> DEFINE l == lines[k]
  <2>1. l \in Seq(Symbols \ {LF}) /\ LF \in Symbols /\ s[k] = Append(l, LF)
    BY <1>1 DEF PlainLines, Symbols
  <2> HIDE DEF l, s
  <2> QED
    BY <2>1 DEF Texts
<1>3. s = [k \in 1..Len(lines) |-> s[k]]
  BY <1>1
<1> HIDE DEF s
<1>4. s \in Seq(Texts)
  BY <1>1, <1>2, <1>3
<1> QED
  BY <1>4 DEF s

LEMMA JoinedType ==
    ASSUME NEW lines \in Seq(PlainLines)
    PROVE  Joined(lines) \in Texts
  BY JoinedSequence, FlattenType DEF Joined, Texts

LEMMA JoinedAppend ==
    ASSUME NEW lines \in Seq(PlainLines), NEW line \in PlainLines
    PROVE  Joined(Append(lines, line)) = Joined(lines) \o Append(line, LF)
<1> DEFINE s == [k \in DOMAIN lines |-> Append(lines[k], LF)]
           more == Append(lines, line)
           t == [k \in DOMAIN more |-> Append(more[k], LF)]
           x == Append(line, LF)
           P == PlainLines
<1>1. s \in Seq(Texts)
  BY JoinedSequence
<1>2. x \in Texts
  <2>1. line \in Seq(Symbols \ {LF}) /\ LF \in Symbols
    BY DEF PlainLines, Symbols
  <2> QED
    BY <2>1 DEF Texts
<1>3. /\ DOMAIN lines = 1..Len(lines) /\ Len(lines) \in Nat
      /\ DOMAIN more = 1..(Len(lines) + 1) /\ more[Len(lines) + 1] = line
      /\ \A k \in 1..Len(lines) : more[k] = lines[k]
  <2>1. lines \in Seq(P) /\ line \in P
    OBVIOUS
  <2> HIDE DEF P
  <2> QED
    BY <2>1
<1>4. t = Append(s, x)
  <2> DEFINE n == Len(lines)
             y == Append(s, x)
  <2>1. DOMAIN s = 1..n /\ Len(s) = n
    BY <1>3
  <2>2. DOMAIN t = 1..(n + 1) /\ t[n + 1] = x /\ \A k \in 1..n : t[k] = s[k]
    <3> HIDE DEF more
    <3> QED
      BY <1>3
  <2> HIDE DEF s, x, n
  <2>3. /\ y \in Seq(Texts) /\ Len(y) = n + 1
        /\ y[n + 1] = x /\ \A k \in 1..n : y[k] = s[k]
    BY <1>1, <1>2, <2>1
  <2>4. y = [k \in 1..(n + 1) |-> y[k]]
    <3> HIDE DEF y
    <3> QED
      BY <2>3
  <2>5. t = [k \in 1..(n + 1) |-> t[k]]
    BY <2>2
  <2>6. \A k \in 1..(n + 1) : k = n + 1 \/ k \in 1..n
    BY <1>3 DEF n
  <2> HIDE DEF y, t
  <2>7. \A k \in 1..(n + 1) : t[k] = y[k]
    BY <2>2, <2>3, <2>6
  <2> QED
    BY <2>4, <2>5, <2>7 DEF y
<1>5. Joined(lines) = Flatten(s) /\ Joined(more) = Flatten(t)
  BY DEF Joined
<1> HIDE DEF s, t, x, more
<1>6. Flatten(Append(s, x)) = Flatten(s) \o x
  BY <1>1, <1>2, FlattenAppend DEF Texts
<1> QED
  BY <1>4, <1>5, <1>6 DEF x, more

LEMMA PrefixLengths ==
    ASSUME NEW S, NEW text \in Seq(S)
    PROVE  /\ SubSeq(text, 1, 0) = << >> /\ SubSeq(text, 1, Len(text)) = text
           /\ \A k \in 1..Len(text) : SubSeq(text, 1, k) = Append(SubSeq(text, 1, k - 1), text[k])
           /\ \A k \in 0..Len(text) : SubSeq(text, 1, k) \in Seq(S)
  OBVIOUS

(* One symbol: what was joined before it, and it.                          *)
LEMMA AccumulateJoins ==
    ASSUME NEW old \in Seq(PlainLines), NEW acc \in Cuts, NEW c \in Symbols, NEW all \in Texts,
           Joined(old \o acc.lines) \o acc.buffer = all
    PROVE  Joined(old \o AccumulateSymbol(acc, c).lines) \o AccumulateSymbol(acc, c).buffer = Append(all, c)
<1> DEFINE b == acc.buffer
           l == acc.lines
           P == PlainLines
           o == old \o l
           j == Joined(o)
<1>1. b \in P /\ l \in Seq(P) /\ acc = [lines |-> l, buffer |-> b]
  BY DEF Cuts
<1>2. o \in Seq(P) /\ old \o Append(l, b) = Append(o, b)
  <2>1. old \in Seq(P)
    OBVIOUS
  <2> HIDE DEF P, l, b
  <2> QED
    BY <1>1, <2>1
<1>3. j \in Texts
  BY <1>2, JoinedType
<1>4. b \in Texts
  BY <1>1 DEF PlainLines, Texts
<1>5. Joined(Append(o, b)) = j \o Append(b, LF)
  BY <1>1, <1>2, JoinedAppend
<1>6. j \o b = all
  OBVIOUS
<1>7. /\ c = LF => AccumulateSymbol(acc, c) = [lines |-> Append(l, b), buffer |-> << >>]
      /\ c # LF => AccumulateSymbol(acc, c) = [lines |-> l, buffer |-> Append(b, c)]
  BY <1>1 DEF AccumulateSymbol
<1> HIDE DEF b, l, j
<1>8. CASE c = LF
  <2>1. (j \o Append(b, LF)) \o << >> = Append(j \o b, LF)
    BY <1>3, <1>4, <1>8 DEF Texts
  <2> DEFINE new == AccumulateSymbol(acc, c)
  <2>2. new.lines = Append(l, b) /\ new.buffer = << >>
    BY <1>7, <1>8
  <2> HIDE DEF new
  <2>3. Joined(old \o new.lines) \o new.buffer = (j \o Append(b, LF)) \o << >>
    BY <1>2, <1>5, <2>2
  <2> QED
    BY <1>6, <1>8, <2>1, <2>3 DEF new
<1>9. CASE c # LF
  <2>1. j \o Append(b, c) = Append(j \o b, c)
    BY <1>3, <1>4 DEF Texts
  <2> DEFINE new == AccumulateSymbol(acc, c)
  <2>2. new.lines = l /\ new.buffer = Append(b, c)
    BY <1>7, <1>9
  <2> HIDE DEF new
  <2>3. Joined(old \o new.lines) \o new.buffer = j \o Append(b, c)
    BY <2>2 DEF j
  <2> QED
    BY <1>6, <2>1, <2>3 DEF new
<1> QED
  BY <1>8, <1>9

(* However the text is cut into chunks, the lines and the buffer are it.   *)
LEMMA LinesJoin ==
    ASSUME NEW old \in Seq(PlainLines), NEW start \in PlainLines, NEW text \in Texts
    PROVE  LET cut == LineAccumulator(start, text)
           IN  /\ cut \in Cuts
               /\ Joined(old \o cut.lines) \o cut.buffer = (Joined(old) \o start) \o text
<1> DEFINE n == Len(text)
           first == Joined(old) \o start
           Good(acc, k) == Joined(old \o acc.lines) \o acc.buffer = first \o SubSeq(text, 1, k)
           Inv == [k \in 0..n |-> {acc \in Cuts : Good(acc, k)}]
<1>1. PICK g \in [0..n -> Cuts] : /\ g[0] = [lines |-> << >>, buffer |-> start]
                                  /\ \A k \in 1..n : g[k] = AccumulateSymbol(g[k - 1], text[k])
                                  /\ LineAccumulator(start, text) = g[n]
  BY AccumulatorSteps
<1>2. n \in Nat /\ 0 \in 0..n /\ n \in 0..n /\ \A k \in 1..n : k \in 0..n /\ k - 1 \in 0..n
  BY DEF Texts
<1>3. first \in Texts
  <2>1. Joined(old) \in Texts /\ start \in Texts
    BY JoinedType DEF PlainLines, Texts
  <2> QED
    BY <2>1 DEF Texts
<1>4. /\ SubSeq(text, 1, 0) = << >> /\ SubSeq(text, 1, n) = text
      /\ \A k \in 1..n : SubSeq(text, 1, k) = Append(SubSeq(text, 1, k - 1), text[k])
      /\ \A k \in 0..n : SubSeq(text, 1, k) \in Texts
  BY PrefixLengths DEF Texts
<1>5. \A k \in 1..n : text[k] \in Symbols
  BY DEF Texts
<1>6. \A k \in 0..n : Inv[k] = {acc \in Cuts : Good(acc, k)}
  OBVIOUS
<1>7. g[0] \in Inv[0]
  <2>1. old \o << >> = old
    <3> DEFINE P == PlainLines
    <3>1. old \in Seq(P)
      OBVIOUS
    <3> HIDE DEF P
    <3> QED
      BY <3>1
  <2>2. first \o << >> = first
    <3> HIDE DEF first
    <3> QED
      BY <1>3 DEF Texts
  <2>3. Good(g[0], 0)
    BY <1>1, <1>4, <2>1, <2>2
  <2> HIDE DEF Inv, Good
  <2> QED
    BY <1>1, <1>2, <1>6, <2>3
<1>8. ASSUME NEW k \in 1..n, g[k - 1] \in Inv[k - 1] PROVE g[k] \in Inv[k]
  <2> DEFINE all == first \o SubSeq(text, 1, k - 1)
  <2>1. g[k - 1] \in Cuts /\ Good(g[k - 1], k - 1)
    <3> HIDE DEF Good, Inv
    <3> QED
      BY <1>2, <1>6, <1>8
  <2>2. all \in Texts /\ first \o SubSeq(text, 1, k) = Append(all, text[k])
    <3> DEFINE t == SubSeq(text, 1, k - 1)
    <3>1. t \in Texts /\ text[k] \in Symbols /\ SubSeq(text, 1, k) = Append(t, text[k])
      BY <1>2, <1>4, <1>5
    <3> HIDE DEF t, first
    <3>2. first \o t \in Texts /\ first \o Append(t, text[k]) = Append(first \o t, text[k])
      BY <1>3, <3>1 DEF Texts
    <3> QED
      BY <3>1, <3>2 DEF t
  <2>3. text[k] \in Symbols /\ g[k] = AccumulateSymbol(g[k - 1], text[k])
    BY <1>1, <1>5
  <2> HIDE DEF first
  <2>4. Joined(old \o g[k - 1].lines) \o g[k - 1].buffer = all
    BY <2>1
  <2> HIDE DEF all
  <2>5. Joined(old \o g[k].lines) \o g[k].buffer = Append(all, text[k])
    <3> DEFINE acc == g[k - 1]
               c == text[k]
    <3>1. acc \in Cuts /\ c \in Symbols /\ all \in Texts /\ Joined(old \o acc.lines) \o acc.buffer = all
      BY <2>1, <2>2, <2>3, <2>4
    <3> HIDE DEF acc, c
    <3>2. Joined(old \o AccumulateSymbol(acc, c).lines) \o AccumulateSymbol(acc, c).buffer = Append(all, c)
      BY <3>1, AccumulateJoins
    <3> QED
      BY <2>3, <3>2 DEF acc, c
  <2>6. Good(g[k], k)
    BY <2>2, <2>5
  <2> HIDE DEF Good, Inv
  <2> QED
    BY <1>1, <1>2, <1>6, <2>6
<1>9. \A k \in 0..n : g[k] \in Inv[k]
  <2> HIDE DEF Inv, n
  <2> QED
    BY <1>2, <1>7, <1>8, StepByStep
<1>10. g[n] \in Cuts /\ Good(g[n], n)
  <2> HIDE DEF Inv, Good
  <2> QED
    BY <1>2, <1>6, <1>9
<1> QED
  BY <1>1, <1>4, <1>10

-----------------------------------------------------------------------------
(* The invariant.                                                          *)

Labels == {"called", "spawn", "read", "readErr", "wait", "flush", "returned"}
Statuses == {"none", "running", "exited", "reaped"}
Results == [success : BOOLEAN, exit : Nat, stdout : Texts, stderr : Texts]

TypeOK ==
    /\ call \in Calls /\ pc \in Labels
    /\ TextRules(rules) /\ runtime \in Runtimes(rules) /\ fired \in Seq(DOMAIN rules)
    /\ buffer \in PlainLines /\ seen \in Seq(PlainLines) /\ transcript \in Texts
    /\ child \in [at : Nat \ {0}, status : Statuses, code : Nat]
    /\ out \in Texts /\ err \in Texts /\ written \in Texts
    /\ result \in Results

(* The command may be run.                                                 *)
Accepted == Permitted /\ (call.api = "rules" => parse_exec_rules(call.table))

(* What the host knows of the child at each point of a call.               *)
ChildInv ==
    /\ pc \in {"called", "spawn"} => child.status = "none"
    /\ pc \in {"read", "readErr", "wait"} => child.status \in {"running", "exited"}
    /\ pc \in {"flush", "returned"} => child.status \in {"none", "reaped"} \/ "wait" \in failed
    /\ pc \notin {"called", "returned"} \/ child.status # "none" => Accepted
    /\ pc \in {"called", "flush", "returned"} => suspended = FALSE

(* What was written is what the caller has and what is still in the pipe;  *)
(* the pipe is empty once its end was seen.                                *)
OutputInv ==
    /\ written = result.stdout \o out
    /\ pc \in {"called", "spawn"} => out = << >> /\ result = NoResult
    /\ pc \in {"readErr", "wait"} =>
          result.stderr # << >> \/ (out = << >> /\ child.status = "exited")
    /\ result.success =>
          /\ pc \in {"flush", "returned"} /\ child.status = "reaped" /\ child.code = 0
          /\ result.stderr # << >> \/ out = << >>

(* The lines and the buffer are what was read.                             *)
LinesInv ==
    /\ pc = "called" => rules = << >>
    /\ pc \in {"called", "spawn"} => seen = << >> /\ buffer = << >>
    /\ mode \notin {"line", "pty"} \/ (mode = "pty" /\ pc # "read") => buffer = << >>
    /\ pc = "flush" => mode = "line"
    /\ mode = "line" /\ pc # "returned" => result.stdout = Joined(seen) \o buffer
    /\ mode = "line" /\ pc = "returned" =>
          /\ buffer = << >>
          /\ \/ result.stdout = Joined(seen)
             \/ /\ seen # << >> /\ Last(seen) # << >>
                /\ result.stdout = Joined(Front(seen)) \o Last(seen)

ExecInv == TypeOK /\ ChildInv /\ OutputInv /\ LinesInv

LEMMA EmptyText == << >> \in Texts /\ << >> \in PlainLines /\ << >> \in Seq(PlainLines) /\ Message \in Texts
<1>1. "message" \in Symbols
  BY DEF Symbols
<1> DEFINE m == "message"
<1> HIDE DEF m
<1>2. <<m>> \in Texts
  BY <1>1 DEF Texts, m
<1> QED
  BY <1>2 DEF Texts, PlainLines, Message, m

LEMMA Frame ==
    ASSUME UNCHANGED <<call, rules>>
    PROVE  mode' = mode /\ Accepted' = Accepted
<1>1. mode' = mode
  BY DEF mode
<1>2. Accepted' = Accepted
  BY DEF Accepted, Permitted, shouldEnforceExecutionPolicy
<1> QED
  BY <1>1, <1>2

LEMMA JoinedNothing == Joined(<< >>) = << >> /\ Joined(<< >>) \o << >> = << >>
<1> DEFINE s == [k \in DOMAIN << >> |-> Append(<< >>[k], LF)]
<1>1. s = << >>
  OBVIOUS
<1>2. << >> \in Seq(Seq(Symbols)) /\ Len(<< >>) = 0 /\ 0 \in 0..0
  OBVIOUS
<1>3. PICK g \in [0..0 -> Seq(Symbols)] : g[0] = << >> /\ Flatten(<< >>) = g[0]
  BY <1>2, FlattenSteps, ZenonT(60)
<1>4. Joined(<< >>) = Flatten(s)
  BY DEF Joined
<1> QED
  BY <1>1, <1>3, <1>4

LEMMA NoRulesType == TextRules(<< >>) /\ make_exec_rule_runtime_state(<< >>, "default") \in Runtimes(<< >>)
<1> DEFINE none == << >>
           start == make_exec_rule_runtime_state(none, "default")
<1>1. Len(none) = 0 /\ DOMAIN none = 1..0 /\ DOMAIN none = {}
  OBVIOUS
<1>2. "default" \in Symbols
  BY DEF Symbols
<1> HIDE DEF none
<1>3. TextRules(none)
  BY <1>1 DEF TextRules, ActionsIn
<1>4. start \in Runtimes(none)
  BY <1>1, <1>2 DEF make_exec_rule_runtime_state, Runtimes
<1> QED
  BY <1>3, <1>4 DEF none

LEMMA NoResultType == NoResult \in Results
  BY EmptyText DEF NoResult, Results

LEMMA ModeWithoutRules == ASSUME rules = << >> PROVE mode \in {"plain", "capture"}
  BY DEF mode, determine_exec_rule_runner_mode

LEMMA ExecInit == Init => ExecInv
<1> SUFFICES ASSUME Init PROVE ExecInv
  OBVIOUS
<1>1. << >> \in Seq(DOMAIN rules)
  OBVIOUS
<1>2. TypeOK
  BY <1>1, NoRulesType, NoResultType, EmptyText DEF Init, TypeOK, Labels, Statuses
<1>3. ChildInv
  BY DEF Init, ChildInv
<1>4. OutputInv
  BY DEF Init, OutputInv, NoResult
<1>5. LinesInv
  BY ModeWithoutRules DEF Init, LinesInv
<1> QED
  BY <1>2, <1>3, <1>4, <1>5 DEF ExecInv

(* A rules table that parses becomes rules of text.                        *)
LEMMA ParsedRules ==
    ASSUME NEW table, TextTable(table)
    PROVE  /\ TextRules(Rules(table))
           /\ make_exec_rule_runtime_state(Rules(table), table.initial) \in Runtimes(Rules(table))
<1> DEFINE rs == Rules(table)
<1>1. /\ Len(table.rules) \in Nat /\ DOMAIN table.rules = 1..Len(table.rules)
      /\ \A i \in DOMAIN table.rules : table.rules[i] \in ToSet(table.rules)
  BY DEF TextTable, ToSet
<1>2. DOMAIN rs = DOMAIN table.rules /\ \A i \in DOMAIN rs : rs[i] = Rule(table.rules[i])
  BY DEF Rules
<1>3. DOMAIN rs = 1..Len(rs) /\ Len(rs) \in Nat
  <2> DEFINE n == Len(table.rules)
  <2>1. rs = [i \in 1..n |-> Rule(table.rules[i])] /\ n \in Nat
    BY <1>1 DEF Rules
  <2> DEFINE S == {Rule(table.rules[i]) : i \in 1..n}
  <2>2. \A i \in 1..n : rs[i] \in S
    BY <2>1
  <2>3. rs = [i \in 1..n |-> rs[i]]
    BY <2>1
  <2> HIDE DEF n, rs, S
  <2>4. rs \in Seq(S)
    BY <2>1, <2>2, <2>3
  <2> QED
    BY <2>4
<1> HIDE DEF rs
<1>4. ASSUME NEW i \in DOMAIN rs
      PROVE  /\ rs[i].regex \in Texts
             /\ rs[i].actions \in Seq(ToSet(rs[i].actions))
             /\ rs[i].repeat \in BOOLEAN /\ rs[i].stop \in BOOLEAN
             /\ \A a \in ToSet(rs[i].actions) : a.type \in {"send", "state"} => a.value \in Symbols
  <2> DEFINE r == table.rules[i]
  <2>1. r \in ToSet(table.rules)
    BY <1>1, <1>2
  <2>2. /\ r.regex \in Seq(STRING) /\ r.actions \in Seq(ToSet(r.actions))
        /\ Given(r, "repeat", TRUE) \in BOOLEAN /\ Given(r, "stop", FALSE) \in BOOLEAN
        /\ \A a \in ToSet(r.actions) : a.type \in {"send", "state"} => a.value \in STRING
    BY <2>1 DEF TextTable
  <2>3. /\ rs[i].regex = r.regex /\ rs[i].actions = r.actions
        /\ rs[i].repeat = Given(r, "repeat", TRUE) /\ rs[i].stop = Given(r, "stop", FALSE)
    <3>1. rs[i] = Rule(r)
      BY <1>2
    <3> HIDE DEF r
    <3>2. /\ Rule(r).regex = r.regex /\ Rule(r).actions = r.actions
          /\ Rule(r).repeat = Given(r, "repeat", TRUE) /\ Rule(r).stop = Given(r, "stop", FALSE)
      BY Zenon DEF Rule
    <3> QED
      BY <3>1, <3>2
  <2> HIDE DEF r
  <2>4. r.regex \in Texts
    BY <2>2 DEF Texts, Symbols
  <2> QED
    BY <2>2, <2>3, <2>4 DEF Symbols
<1>5. \A i \in DOMAIN rs : ToSet(rs[i].actions) \subseteq ActionsIn(rs)
  BY DEF ActionsIn
<1>6. ASSUME NEW i \in DOMAIN rs PROVE rs[i].actions \in Seq(ActionsIn(rs))
  <2> DEFINE A == ActionsIn(rs)
             B == ToSet(rs[i].actions)
             actions == rs[i].actions
  <2>1. B \subseteq A /\ actions \in Seq(B)
    BY <1>4, <1>5
  <2> HIDE DEF A, B, actions
  <2>2. actions \in Seq(A)
    BY <2>1
  <2> QED
    BY <2>2 DEF A, actions
<1>7. \A a \in ActionsIn(rs) : a.type \in {"send", "state"} => a.value \in Symbols
  BY <1>4 DEF ActionsIn
<1>8. TextRules(rs)
  BY <1>3, <1>4, <1>6, <1>7 DEF TextRules
<1>9. make_exec_rule_runtime_state(rs, table.initial) \in Runtimes(rs)
  <2>1. table.initial \in Symbols
    BY DEF TextTable, Symbols
  <2> QED
    BY <2>1 DEF make_exec_rule_runtime_state, Runtimes
<1> QED
  BY <1>8, <1>9 DEF rs

(* Before the process runs.                                                *)
LEMMA RefuseInv ==
    ASSUME ExecInv, denyExecution \/ RejectRules
    PROVE  ExecInv'
<1>1. /\ pc = "called" /\ pc' = "returned"
      /\ \E code \in {1, 126} : result' = [success |-> FALSE, exit |-> code, stdout |-> << >>, stderr |-> Message]
      /\ UNCHANGED <<call, rules, runtime, buffer, transcript, suspended, seen, fired, child, out, err, written, failed>>
  BY DEF denyExecution, RejectRules, NoResult, host
<1>2. mode' = mode /\ Accepted' = Accepted
  BY <1>1, Frame
<1>3. result' \in Results
  BY <1>1, EmptyText DEF Results
<1>4. TypeOK'
  BY <1>1, <1>3 DEF ExecInv, TypeOK, Labels
<1>5. ChildInv'
  BY <1>1, <1>2 DEF ExecInv, ChildInv
<1>6. OutputInv'
  BY <1>1 DEF ExecInv, OutputInv, NoResult
<1>7. LinesInv'
  BY <1>1, <1>2, ModeWithoutRules DEF ExecInv, LinesInv
<1> QED
  BY <1>4, <1>5, <1>6, <1>7 DEF ExecInv

LEMMA PrepareInv ==
    ASSUME ExecInv, Prepare
    PROVE  ExecInv'
<1>1. /\ pc = "called" /\ pc' = "spawn" /\ Accepted
      /\ UNCHANGED <<call, buffer, transcript, child, out, err, result, seen, fired, written, failed>>
  BY DEF Prepare, Accepted
<1>2. Accepted'
  BY <1>1 DEF Accepted, Permitted, shouldEnforceExecutionPolicy
<1>3. TextRules(rules') /\ runtime' \in Runtimes(rules')
  <2>1. CASE call.api = "rules"
    <3>1. TextTable(call.table)
      BY <1>1, <2>1, CallsAssumption DEF Accepted, ExecInv, TypeOK
    <3>2. rules' = Rules(call.table) /\ runtime' = make_exec_rule_runtime_state(rules', call.table.initial)
      BY <2>1 DEF Prepare
    <3> QED
      BY <3>1, <3>2, ParsedRules
  <2>2. CASE call.api # "rules"
    BY <2>2, NoRulesType DEF Prepare
  <2> QED
    BY <2>1, <2>2
<1>4. seen = << >> /\ buffer = << >> /\ result.stdout = << >> /\ child.status = "none"
  BY <1>1 DEF ExecInv, LinesInv, OutputInv, ChildInv, NoResult
<1>5. fired' = << >>
  <2>1. DOMAIN rules = {} /\ fired \in Seq(DOMAIN rules)
    BY <1>1 DEF ExecInv, LinesInv, TypeOK
  <2>2. fired \in Seq({})
    BY <2>1
  <2>3. fired = << >>
    BY <2>2
  <2> QED
    BY <1>1, <2>3
<1>6. TypeOK'
  <2>1. << >> \in Seq(DOMAIN rules')
    OBVIOUS
  <2> QED
    BY <1>1, <1>3, <1>5, <2>1 DEF ExecInv, TypeOK, Labels
<1>7. ChildInv'
  BY <1>1, <1>2, <1>4 DEF ChildInv
<1>8. OutputInv'
  BY <1>1 DEF ExecInv, OutputInv
<1>9. LinesInv'
  BY <1>1, <1>4, JoinedNothing DEF LinesInv
<1> QED
  BY <1>6, <1>7, <1>8, <1>9 DEF ExecInv

LEMMA SpawnInv ==
    ASSUME ExecInv, Spawn \/ SpawnFails
    PROVE  ExecInv'
<1>1. CASE Spawn
  <2>1. /\ pc = "spawn" /\ pc' = "read" /\ child' = [child EXCEPT !.status = "running"]
        /\ UNCHANGED <<call, rules, runtime, buffer, transcript, suspended, seen, fired, out, err, result, written, failed>>
    BY <1>1 DEF Spawn, host
  <2>2. mode' = mode /\ Accepted' = Accepted
    BY <2>1, Frame
  <2>3. /\ child' \in [at : Nat \ {0}, status : Statuses, code : Nat]
        /\ child'.status = "running"
    BY <2>1 DEF ExecInv, TypeOK, Statuses
  <2>4. TypeOK'
    BY <2>1, <2>3 DEF ExecInv, TypeOK, Labels
  <2>5. ChildInv'
    BY <2>1, <2>2, <2>3 DEF ExecInv, ChildInv
  <2>6. OutputInv'
    BY <2>1, <2>3 DEF ExecInv, OutputInv, NoResult
  <2>7. LinesInv'
    BY <2>1, <2>2 DEF ExecInv, LinesInv
  <2> QED
    BY <2>4, <2>5, <2>6, <2>7 DEF ExecInv
<1>2. CASE SpawnFails
  <2>1. /\ pc = "spawn" /\ pc' = "returned" /\ suspended' = FALSE
        /\ result' = [success |-> FALSE, exit |-> 1, stdout |-> << >>, stderr |-> Message]
        /\ failed' = failed \cup {"spawn"}
        /\ UNCHANGED <<call, rules, runtime, buffer, transcript, seen, fired, child, out, err, written>>
    BY <1>2 DEF SpawnFails, NoResult
  <2>2. mode' = mode /\ Accepted' = Accepted
    BY <2>1, Frame
  <2>3. result' \in Results
    BY <2>1, EmptyText DEF Results
  <2>4. TypeOK'
    BY <2>1, <2>3 DEF ExecInv, TypeOK, Labels
  <2>5. ChildInv'
    BY <2>1, <2>2 DEF ExecInv, ChildInv
  <2>6. OutputInv'
    BY <2>1 DEF ExecInv, OutputInv, NoResult
  <2>7. LinesInv'
    BY <2>1, <2>2, JoinedNothing DEF ExecInv, LinesInv
  <2> QED
    BY <2>4, <2>5, <2>6, <2>7 DEF ExecInv
<1> QED
  BY <1>1, <1>2

(* The child.                                                              *)
LEMMA StepType ==
    ASSUME TypeOK, NEW step, Running(step)
    PROVE  Step \in ProgramSteps /\ Step.step = step
<1>1. call.program \in Seq(ProgramSteps)
  BY CallsAssumption DEF TypeOK
<1>2. child.at \in Nat \ {0} /\ child.at <= Len(call.program)
  BY DEF TypeOK, Running
<1> DEFINE program == call.program
           at == child.at
<1>3. program[at] \in ProgramSteps
  <2> HIDE DEF program, at
  <2> QED
    BY <1>1, <1>2 DEF program, at
<1> QED
  BY <1>3 DEF Running, Step

Children == [at : Nat \ {0}, status : Statuses, code : Nat]

LEMMA ChildChange ==
    ASSUME NEW c \in Children, NEW new, NEW code \in Nat, NEW status \in Statuses,
           new = [c EXCEPT !.status = status, !.code = code]
    PROVE  new \in Children /\ new.status = status /\ new.code = code
<1>1. new = [at |-> c.at, status |-> status, code |-> code]
  BY DEF Children
<1>2. c.at \in Nat \ {0}
  BY DEF Children
<1> QED
  BY <1>1, <1>2 DEF Children

(* A step of the child that writes nothing.                                *)
LEMMA ChildQuietInv ==
    ASSUME ExecInv, child' \in [at : Nat \ {0}, status : Statuses, code : Nat],
           child.status = "running", child'.status \in {"running", "exited"},
           UNCHANGED <<call, rules, runtime, buffer, transcript, suspended, seen, fired, pc, out, err, result, written, failed>>
    PROVE  ExecInv'
<1>1. mode' = mode /\ Accepted' = Accepted
  BY Frame
<1>2. TypeOK'
  BY DEF ExecInv, TypeOK
<1>3. ChildInv'
  BY <1>1 DEF ExecInv, ChildInv
<1>4. OutputInv'
  BY DEF ExecInv, OutputInv
<1>5. LinesInv'
  BY <1>1 DEF ExecInv, LinesInv
<1> QED
  BY <1>2, <1>3, <1>4, <1>5 DEF ExecInv

LEMMA ChildEndsInv ==
    ASSUME ExecInv, ChildReads \/ ChildExits \/ ChildKilled
    PROVE  ExecInv'
<1>1. child \in [at : Nat \ {0}, status : Statuses, code : Nat] /\ TypeOK
  BY DEF ExecInv, TypeOK
<1>2. /\ child.status = "running"
      /\ UNCHANGED <<call, rules, runtime, buffer, transcript, suspended, seen, fired, pc, out, err, result, written, failed>>
  BY DEF ChildReads, ChildExits, ChildKilled, Running, host
<1>3. CASE ChildReads
  <2>1. child' = [child EXCEPT !.at = child.at + 1]
    BY <1>3 DEF ChildReads
  <2>2. child' \in [at : Nat \ {0}, status : Statuses, code : Nat] /\ child'.status = "running"
    BY <1>1, <1>2, <2>1
  <2> QED
    BY <1>2, <2>2, ChildQuietInv
<1>4. CASE ChildExits
  <2>1. Step.code \in 0..255
    <3>1. Step \in ProgramSteps /\ Step.step = "exit"
      BY <1>1, <1>4, StepType DEF ChildExits
    <3> DEFINE s == Step
    <3> HIDE DEF s
    <3>2. s \in ProgramSteps /\ s.step = "exit"
      BY <3>1 DEF s
    <3>3. s.code \in 0..255
      BY <3>2 DEF ProgramSteps
    <3> QED
      BY <3>3 DEF s
  <2>2. child' = [child EXCEPT !.status = "exited", !.code = Step.code]
    BY <1>4 DEF ChildExits
  <2>3. child' \in [at : Nat \ {0}, status : Statuses, code : Nat] /\ child'.status = "exited"
    <3>1. Step.code \in Nat
      BY <2>1
    <3> QED
      BY <1>1, <2>2, <3>1, ChildChange DEF Statuses, Children
  <2> QED
    BY <1>2, <2>3, ChildQuietInv
<1>5. CASE ChildKilled
  <2>1. child' = [child EXCEPT !.status = "exited", !.code = 256]
    BY <1>5 DEF ChildKilled, Killed
  <2>2. child' \in [at : Nat \ {0}, status : Statuses, code : Nat] /\ child'.status = "exited"
    <3>1. 256 \in Nat /\ "exited" \in Statuses /\ child \in Children
      BY <1>1 DEF Statuses, Children
    <3>2. child' = [at |-> child.at, status |-> "exited", code |-> 256] /\ child.at \in Nat \ {0}
      BY <2>1, <3>1 DEF Children
    <3> QED
      BY <3>1, <3>2 DEF Children
  <2> QED
    BY <1>2, <2>2, ChildQuietInv
<1> QED
  BY <1>3, <1>4, <1>5

LEMMA ChildWritesInv ==
    ASSUME ExecInv, ChildWrites
    PROVE  ExecInv'
<1>1. /\ child \in [at : Nat \ {0}, status : Statuses, code : Nat] /\ TypeOK
      /\ out \in Texts /\ err \in Texts /\ written \in Texts /\ result.stdout \in Texts
  BY DEF ExecInv, TypeOK, Results
<1>2. /\ child.status = "running" /\ child' = [child EXCEPT !.at = child.at + 1]
      /\ UNCHANGED <<call, rules, runtime, buffer, transcript, suspended, seen, fired, pc, result, failed>>
  BY DEF ChildWrites, Running, host
<1>3. child' \in [at : Nat \ {0}, status : Statuses, code : Nat] /\ child'.status = "running"
  BY <1>1, <1>2
<1> DEFINE text == IF mode = "pty" THEN OnTheTerminal(Step.text) ELSE Step.text
<1>4. text \in Texts
  <2>1. Step \in ProgramSteps /\ Step.step = "write"
    BY <1>1, StepType DEF ChildWrites
  <2> DEFINE s == Step
  <2>2. s \in ProgramSteps /\ s.step = "write"
    BY <2>1
  <2> HIDE DEF s
  <2>3. s.text \in Seq(STRING)
    BY <2>2 DEF ProgramSteps
  <2>4. s.text \in Texts
    BY <2>3 DEF Texts, Symbols
  <2> QED
    BY <2>4, OnTheTerminalType DEF s
<1>5. \/ err' = err \o text /\ UNCHANGED <<out, written>>
      \/ out' = out \o text /\ written' = written \o text /\ UNCHANGED err
  BY DEF ChildWrites
<1> HIDE DEF text
<1>6. err' \in Texts /\ out' \in Texts /\ written' \in Texts /\ written' = result.stdout \o out'
  <2>1. written = result.stdout \o out
    BY DEF ExecInv, OutputInv
  <2>2. /\ err \o text \in Texts /\ out \o text \in Texts /\ written \o text \in Texts
        /\ written \o text = result.stdout \o (out \o text)
    <3> DEFINE s == result.stdout
    <3> HIDE DEF s
    <3>1. written = s \o out /\ s \in Texts
      BY <1>1, <2>1 DEF s
    <3>2. out \o text \in Texts /\ written \o text \in Texts /\ written \o text = s \o (out \o text)
      <4>1. /\ (s \o out) \o text \in Texts /\ (s \o out) \o text = s \o (out \o text)
            /\ out \o text \in Texts
        <5>1. s \in Texts /\ out \in Texts /\ text \in Texts
          BY <1>1, <1>4, <3>1
        <5> QED
          BY <5>1 DEF Texts
      <4> QED
        BY <3>1, <4>1, Zenon
    <3>3. err \o text \in Texts
      BY <1>1, <1>4 DEF Texts
    <3> QED
      BY <3>2, <3>3, Zenon DEF s
  <2>3. CASE err' = err \o text /\ UNCHANGED <<out, written>>
    BY <1>1, <2>1, <2>2, <2>3
  <2>4. CASE out' = out \o text /\ written' = written \o text /\ UNCHANGED err
    BY <1>1, <2>2, <2>4
  <2> QED
    BY <1>5, <2>3, <2>4
<1>7. mode' = mode /\ Accepted' = Accepted
  BY <1>2, Frame
<1>8. TypeOK'
  BY <1>2, <1>3, <1>6 DEF ExecInv, TypeOK
<1>9. ChildInv'
  BY <1>2, <1>3, <1>7 DEF ExecInv, ChildInv
<1>10. OutputInv'
  BY <1>2, <1>3, <1>6 DEF ExecInv, OutputInv, ChildInv
<1>11. LinesInv'
  BY <1>2, <1>7 DEF ExecInv, LinesInv
<1> QED
  BY <1>8, <1>9, <1>10, <1>11 DEF ExecInv

(* What dispatch_evaluation_result leaves.                                 *)
Dispatched(rest) ==
    /\ runtime' \in Runtimes(rules) /\ fired' \in Seq(DOMAIN rules)
    /\ \E echo \in Texts : /\ out' = rest \o echo /\ written' = written \o echo
                           /\ child.status # "running" => echo = << >>

LEMMA DispatchType ==
    ASSUME TypeOK, NEW e \in Findings(rules), NEW rest \in Texts, Dispatch(e, rest)
    PROVE  Dispatched(rest)
<1> DEFINE sent == Sent(ActionsOf(rules, e.fired), mode = "pty")
           echo == IF child.status # "running" THEN << >> ELSE Echo(sent)
           D == DOMAIN rules
<1>1. /\ runtime' = e.runtime /\ fired' = fired \o e.fired
      /\ out' = rest \o echo /\ written' = written \o echo
  <2>1. \A acc \in {e} : acc = e
    OBVIOUS
  <2> QED
    BY <2>1, Zenon DEF Dispatch, Echo
<1>2. e.runtime \in Runtimes(rules) /\ e.fired \in Seq(D) /\ fired \in Seq(D)
  BY DEF Findings, TypeOK
<1>3. sent \in Texts
  BY <1>2, SentType DEF TypeOK
<1> HIDE DEF sent
<1>4. Echo(sent) \in Texts
  BY <1>3, EchoType
<1>5. echo \in Texts /\ (child.status # "running" => echo = << >>)
  BY <1>4, EmptyText
<1>6. fired' \in Seq(D)
  <2> DEFINE more == e.fired
  <2>1. more \in Seq(D) /\ fired' = fired \o more
    BY <1>1, <1>2
  <2> HIDE DEF D, more
  <2> QED
    BY <1>2, <2>1
<1> HIDE DEF echo
<1>7. \E t \in Texts : /\ out' = rest \o t /\ written' = written \o t
                       /\ child.status # "running" => t = << >>
  BY <1>1, <1>5
<1> QED
  BY <1>1, <1>2, <1>6, <1>7 DEF Dispatched

(* What was written is in the result or in the pipe after a dispatch, too. *)
LEMMA DispatchOutput ==
    ASSUME NEW rest \in Texts, NEW had \in Texts, written = had \o rest, Dispatched(rest)
    PROVE  /\ out' \in Texts /\ written' \in Texts /\ written' = had \o out'
           /\ child.status # "running" => out' = rest
<1>1. PICK echo \in Texts : /\ out' = rest \o echo /\ written' = written \o echo
                            /\ child.status # "running" => echo = << >>
  BY DEF Dispatched
<1>2. /\ rest \o echo \in Texts /\ (had \o rest) \o echo \in Texts
      /\ (had \o rest) \o echo = had \o (rest \o echo) /\ rest \o << >> = rest
  BY DEF Texts
<1> QED
  BY <1>1, <1>2

(* The last line and the screen at the end of the output.                  *)
LEMMA LinesAreTexts == PlainLines \subseteq Texts /\ Seq(PlainLines) \subseteq Seq(Texts)
<1>1. ASSUME NEW line \in PlainLines PROVE line \in Texts
  BY DEF PlainLines, Texts
<1>2. ASSUME NEW lines \in Seq(PlainLines) PROVE lines \in Seq(Texts)
  <2> DEFINE P == PlainLines
             T == Texts
  <2>1. lines \in Seq(P) /\ \A line \in P : line \in T
    BY <1>1
  <2> HIDE DEF P, T
  <2>2. lines \in Seq(T)
    BY <2>1
  <2> QED
    BY <2>2 DEF T
<1> QED
  BY <1>1, <1>2

LEMMA RemainderType ==
    ASSUME TypeOK
    PROVE  Remainder \in Seq(PlainLines) /\ seen \o Remainder \in Seq(PlainLines)
<1> DEFINE P == PlainLines
<1>1. seen \in Seq(P) /\ buffer \in P
  BY DEF TypeOK
<1> HIDE DEF P
<1>2. << >> \in Seq(P) /\ <<buffer>> \in Seq(P)
  BY <1>1
<1>3. Remainder \in Seq(P)
  BY <1>2 DEF Remainder
<1> HIDE DEF Remainder
<1>4. seen \o Remainder \in Seq(P)
  BY <1>1, <1>3
<1> QED
  BY <1>3, <1>4 DEF P

LEMMA FinalEvaluation ==
    ASSUME TypeOK
    PROVE  /\ EvaluateLines(runtime, Remainder) \in Findings(rules)
           /\ EvaluateScreen(EvaluateLines(runtime, Remainder), << >>) \in Findings(rules)
<1>1. Remainder \in Seq(Texts)
  BY RemainderType, LinesAreTexts
<1> DEFINE lines == EvaluateLines(runtime, Remainder)
<1>2. lines \in Findings(rules)
  BY <1>1, EvaluateLinesType DEF TypeOK
<1>3. Screen(<< >>) \in Texts
  BY DEF TypeOK, Texts, Screen
<1> HIDE DEF lines
<1>4. EvaluateScreen(lines, << >>) \in Findings(rules)
  BY <1>2, <1>3, EvaluateType DEF TypeOK, EvaluateScreen
<1> QED
  BY <1>2, <1>4 DEF lines

(* The end of the reading of the output.                                   *)
Ended ==
    /\ runtime' \in Runtimes(rules) /\ fired' \in Seq(DOMAIN rules)
    /\ buffer' \in PlainLines /\ seen' \in Seq(PlainLines)
    /\ mode = "pty" => buffer' = << >>
    /\ mode # "pty" => UNCHANGED <<seen, buffer>>
    /\ out' \in Texts /\ written' \in Texts /\ written' = result.stdout \o out'
    /\ child.status # "running" => out' = out

LEMMA EndedType ==
    ASSUME ExecInv,
           IF mode = "pty"
           THEN /\ seen' = seen \o Remainder
                /\ buffer' = << >>
                /\ Dispatch(EvaluateScreen(EvaluateLines(runtime, Remainder), << >>), out)
           ELSE UNCHANGED <<seen, buffer, runtime, fired, shown, typed, out, written>>
    PROVE  Ended
<1>1. TypeOK /\ written = result.stdout \o out /\ result.stdout \in Texts /\ out \in Texts
  BY DEF ExecInv, OutputInv, TypeOK, Results
<1>2. CASE mode = "pty"
  <2>1. Dispatched(out)
    BY <1>1, <1>2, FinalEvaluation, DispatchType
  <2>2. /\ out' \in Texts /\ written' \in Texts /\ written' = result.stdout \o out'
        /\ child.status # "running" => out' = out
    BY <1>1, <2>1, DispatchOutput
  <2>3. runtime' \in Runtimes(rules) /\ fired' \in Seq(DOMAIN rules)
    BY <2>1 DEF Dispatched
  <2>4. buffer' \in PlainLines /\ seen' \in Seq(PlainLines) /\ buffer' = << >>
    BY <1>1, <1>2, RemainderType, EmptyText
  <2> QED
    BY <1>2, <2>2, <2>3, <2>4 DEF Ended
<1>3. CASE mode # "pty"
  <2>1. UNCHANGED <<seen, buffer, runtime, fired, out, written>>
    BY <1>3
  <2>2. /\ runtime \in Runtimes(rules) /\ fired \in Seq(DOMAIN rules)
        /\ buffer \in PlainLines /\ seen \in Seq(PlainLines) /\ written \in Texts
    BY <1>1 DEF TypeOK
  <2> QED
    BY <1>1, <1>3, <2>1, <2>2 DEF Ended
<1> QED
  BY <1>2, <1>3

LEMMA EndedInv ==
    ASSUME ExecInv, Ended, pc \in {"read", "readErr"}, pc' \in {"readErr", "wait"},
           UNCHANGED <<call, rules, transcript, suspended, child, err>>,
           \/ UNCHANGED <<result, failed>> /\ out = << >> /\ child.status = "exited"
           \/ /\ result' = [result EXCEPT !.stderr = Message]
              /\ failed' = failed \cup {"read"}
    PROVE  ExecInv'
<1>1. mode' = mode /\ Accepted' = Accepted
  BY Frame
<1>2. Message # << >>
  BY DEF Message
<1>3. /\ result' \in Results /\ result'.stdout = result.stdout /\ result'.success = result.success
      /\ result'.stderr # << >> \/ (out' = << >> /\ child'.status = "exited")
  <2>1. CASE UNCHANGED <<result, failed>> /\ out = << >> /\ child.status = "exited"
    BY <2>1 DEF ExecInv, TypeOK, Ended
  <2>2. CASE result' = [result EXCEPT !.stderr = Message]
    BY <1>2, <2>2, EmptyText DEF ExecInv, TypeOK, Results
  <2> QED
    BY <2>1, <2>2
<1>4. TypeOK'
  BY <1>3 DEF ExecInv, TypeOK, Ended, Labels
<1>5. ChildInv'
  BY <1>1 DEF ExecInv, ChildInv
<1>6. OutputInv'
  BY <1>3 DEF ExecInv, OutputInv, Ended
<1>7. LinesInv'
  BY <1>1, <1>3 DEF ExecInv, LinesInv, Ended
<1> QED
  BY <1>4, <1>5, <1>6, <1>7 DEF ExecInv

LEMMA ReadEndsInv ==
    ASSUME ExecInv, ReadEnds \/ ReadFails
    PROVE  ExecInv'
<1>1. Ended
  BY EndedType DEF ReadEnds, ReadFails
<1>2. /\ pc \in {"read", "readErr"} /\ pc' \in {"readErr", "wait"}
      /\ UNCHANGED <<call, rules, transcript, suspended, child, err>>
  BY DEF ReadEnds, ReadFails
<1>3. \/ UNCHANGED <<result, failed>> /\ out = << >> /\ child.status = "exited"
      \/ /\ result' = [result EXCEPT !.stderr = Message]
         /\ failed' = failed \cup {"read"}
  BY DEF ReadEnds, ReadFails, AtEnd, ExecInv, ChildInv
<1> QED
  BY <1>1, <1>2, <1>3, EndedInv

LEMMA ReadErrorsInv ==
    ASSUME ExecInv, ReadErrors
    PROVE  ExecInv'
<1>1. /\ pc = "readErr" /\ UNCHANGED <<call, rules, runtime, buffer, transcript, suspended, seen, fired, child, out, written, failed>>
  BY DEF ReadErrors, host
<1>2. mode' = mode /\ Accepted' = Accepted
  BY <1>1, Frame
<1>3. result \in Results /\ err \in Texts
  BY DEF ExecInv, TypeOK
<1>4. /\ pc' \in {"readErr", "wait"} /\ err' \in Texts /\ result' \in Results
      /\ result'.stdout = result.stdout /\ result'.success = result.success
      /\ result'.stderr = << >> => result.stderr = << >>
  <2>1. CASE \E n \in 1..Len(err) : /\ result' = [result EXCEPT !.stderr = result.stderr \o SubSeq(err, 1, n)]
                                    /\ err' = SubSeq(err, n + 1, Len(err))
                                    /\ UNCHANGED pc
    <3>1. PICK n \in 1..Len(err) : /\ result' = [result EXCEPT !.stderr = result.stderr \o SubSeq(err, 1, n)]
                                   /\ err' = SubSeq(err, n + 1, Len(err)) /\ UNCHANGED pc
      BY <2>1
    <3> DEFINE had == result.stderr
               more == had \o SubSeq(err, 1, n)
    <3>2. had \in Texts
      BY <1>3 DEF Results
    <3>3. SubSeq(err, 1, n) \in Texts /\ Len(SubSeq(err, 1, n)) = n /\ SubSeq(err, n + 1, Len(err)) \in Texts
      BY <1>3 DEF Texts
    <3>4. result' = [result EXCEPT !.stderr = more]
      BY <3>1
    <3> HIDE DEF had
    <3>5. more \in Texts /\ more # << >>
      BY <3>2, <3>3 DEF Texts
    <3> HIDE DEF more
    <3>6. result' \in Results /\ result'.stderr = more /\ result'.stdout = result.stdout /\ result'.success = result.success
      BY <1>3, <3>4, <3>5 DEF Results
    <3> QED
      BY <1>1, <3>1, <3>3, <3>5, <3>6
  <2>2. CASE pc' = "wait" /\ UNCHANGED <<result, err>>
    BY <1>3, <2>2
  <2> QED
    BY <2>1, <2>2 DEF ReadErrors
<1>5. TypeOK'
  BY <1>1, <1>4 DEF ExecInv, TypeOK, Labels
<1>6. ChildInv'
  BY <1>1, <1>2, <1>4 DEF ExecInv, ChildInv
<1>7. OutputInv'
  BY <1>1, <1>4 DEF ExecInv, OutputInv
<1>8. LinesInv'
  BY <1>1, <1>2, <1>4 DEF ExecInv, LinesInv
<1> QED
  BY <1>5, <1>6, <1>7, <1>8 DEF ExecInv

(* After the child.                                                        *)
LEMMA WaitInv ==
    ASSUME ExecInv, Wait
    PROVE  ExecInv'
<1>1. /\ pc = "wait" /\ child.status = "exited" /\ pc' = AfterWait /\ suspended' = FALSE
      /\ UNCHANGED <<call, rules, runtime, buffer, transcript, seen, fired, out, err, written, failed>>
  BY DEF Wait
<1>2. mode' = mode /\ Accepted' = Accepted
  BY <1>1, Frame
<1>3. pc' = IF mode = "line" THEN "flush" ELSE "returned"
  BY <1>1 DEF AfterWait
<1>4. result \in Results /\ child \in Children
  BY DEF ExecInv, TypeOK, Children
<1>5. child' \in Children /\ child'.status = "reaped" /\ child'.code = child.code
  <2>1. child' = [child EXCEPT !.status = "reaped"]
    BY DEF Wait
  <2> QED
    BY <1>4, <2>1 DEF Children, Statuses
<1> DEFINE zero == child.code = 0
           text == IF mode = "capture" THEN (IF child.code = Killed THEN result.stderr \o Message ELSE result.stderr)
                   ELSE IF child.code # 0 /\ result.stderr = << >> THEN result.stdout ELSE result.stderr
<1>6. result' = [result EXCEPT !.exit = child.code, !.success = zero, !.stderr = text]
  BY DEF Wait
<1>7. text \in Texts
  <2>1. result.stderr \in Texts /\ result.stdout \in Texts /\ Message \in Texts
    BY <1>4, EmptyText DEF Results
  <2>2. result.stderr \o Message \in Texts
    <3> DEFINE a == result.stderr
               b == Message
    <3> HIDE DEF a, b
    <3>1. a \in Texts /\ b \in Texts
      BY <2>1 DEF a, b
    <3>2. a \o b \in Texts
      BY <3>1 DEF Texts
    <3> QED
      BY <3>2 DEF a, b
  <2> QED
    BY <2>1, <2>2
<1>8. child.code = 0 => text = result.stderr
  BY DEF Killed
<1>9. zero \in BOOLEAN /\ child.code \in Nat
  BY <1>4 DEF Children
<1> HIDE DEF text, zero
<1>10. result' = [success |-> zero, exit |-> child.code, stdout |-> result.stdout, stderr |-> text]
  BY <1>4, <1>6 DEF Results
<1>11. result'.stdout = result.stdout /\ result'.stderr = text /\ result' \in Results
  BY <1>4, <1>7, <1>9, <1>10 DEF Results
<1>12. result'.success => child.code = 0
  <2>1. result'.success = zero
    BY <1>10, Zenon
  <2> QED
    BY <2>1 DEF zero
<1>13. TypeOK'
  BY <1>1, <1>3, <1>5, <1>11 DEF ExecInv, TypeOK, Labels, Children
<1>14. ChildInv'
  BY <1>1, <1>2, <1>3, <1>5 DEF ExecInv, ChildInv
<1>15. OutputInv'
  <2>1. written' = result'.stdout \o out'
    BY <1>1, <1>11 DEF ExecInv, OutputInv
  <2>2. result'.success => result'.stderr # << >> \/ out' = << >>
    BY <1>1, <1>8, <1>11, <1>12 DEF ExecInv, OutputInv
  <2> QED
    BY <1>3, <1>5, <1>12, <2>1, <2>2 DEF OutputInv
<1>16. LinesInv'
  BY <1>1, <1>2, <1>3, <1>11 DEF ExecInv, LinesInv
<1> QED
  BY <1>13, <1>14, <1>15, <1>16 DEF ExecInv

LEMMA WaitFailsInv ==
    ASSUME ExecInv, WaitFails
    PROVE  ExecInv'
<1>1. /\ pc = "wait" /\ pc' = AfterWait /\ suspended' = FALSE /\ failed' = failed \cup {"wait"}
      /\ UNCHANGED <<call, rules, runtime, buffer, transcript, seen, fired, child, out, err, written>>
  BY DEF WaitFails
<1>2. mode' = mode /\ Accepted' = Accepted
  BY <1>1, Frame
<1>3. pc' = IF mode = "line" THEN "flush" ELSE "returned"
  BY <1>1 DEF AfterWait
<1>4. result' = [success |-> FALSE, exit |-> 1, stdout |-> result.stdout, stderr |-> Message]
  BY DEF WaitFails, ExecInv, TypeOK, Results
<1>5. result' \in Results
  BY <1>4, EmptyText DEF ExecInv, TypeOK, Results
<1>6. TypeOK'
  BY <1>1, <1>3, <1>5 DEF ExecInv, TypeOK, Labels
<1>7. ChildInv'
  BY <1>1, <1>2, <1>3 DEF ExecInv, ChildInv
<1>8. OutputInv'
  BY <1>1, <1>3, <1>4 DEF ExecInv, OutputInv
<1>9. LinesInv'
  BY <1>1, <1>2, <1>3, <1>4 DEF ExecInv, LinesInv
<1> QED
  BY <1>6, <1>7, <1>8, <1>9 DEF ExecInv

LEMMA FlushInv ==
    ASSUME ExecInv, Flush
    PROVE  ExecInv'
<1>1. /\ pc = "flush" /\ pc' = "returned" /\ seen' = seen \o Remainder /\ buffer' = << >>
      /\ UNCHANGED <<call, rules, transcript, suspended, child, err, result, failed>>
  BY DEF Flush
<1>2. mode' = mode /\ Accepted' = Accepted
  BY <1>1, Frame
<1>3. TypeOK /\ written = result.stdout \o out /\ result.stdout \in Texts /\ out \in Texts
  BY DEF ExecInv, OutputInv, TypeOK, Results
<1>4. Dispatched(out)
  BY <1>3, FinalEvaluation, DispatchType DEF Flush
<1>5. /\ out' \in Texts /\ written' \in Texts /\ written' = result.stdout \o out'
      /\ child.status # "running" => out' = out
  BY <1>3, <1>4, DispatchOutput
<1>6. runtime' \in Runtimes(rules) /\ fired' \in Seq(DOMAIN rules)
  BY <1>4 DEF Dispatched
<1>7. buffer' \in PlainLines /\ seen' \in Seq(PlainLines)
  BY <1>1, <1>3, RemainderType, EmptyText
<1>8. TypeOK'
  BY <1>1, <1>5, <1>6, <1>7 DEF ExecInv, TypeOK, Labels
<1>9. ChildInv'
  BY <1>1, <1>2 DEF ExecInv, ChildInv
<1>10. OutputInv'
  BY <1>1, <1>5 DEF ExecInv, OutputInv
<1>11. LinesInv'
  <2>1. mode = "line" /\ result.stdout = Joined(seen) \o buffer /\ Joined(seen) \in Texts
    BY <1>1, <1>3, JoinedType DEF ExecInv, LinesInv, TypeOK
  <2>2. CASE buffer = << >>
    <3> DEFINE all == Joined(seen)
    <3>1. all \o << >> = all
      <4>1. all \in Texts
        BY <2>1
      <4> HIDE DEF all
      <4> QED
        BY <4>1 DEF Texts
    <3>2. seen' = seen
      BY <1>1, <1>3, <2>2 DEF Remainder, TypeOK
    <3> QED
      BY <1>1, <1>2, <2>1, <2>2, <3>1, <3>2 DEF LinesInv
  <2>3. CASE buffer # << >>
    <3> DEFINE P == PlainLines
    <3>1. seen \in Seq(P) /\ buffer \in P /\ seen' = seen \o <<buffer>>
      BY <1>1, <1>3, <2>3 DEF Remainder, TypeOK
    <3>2. seen' # << >> /\ Last(seen') = buffer /\ Front(seen') = seen
      <4> HIDE DEF P
      <4>1. /\ seen' \in Seq(P) /\ Len(seen') = Len(seen) + 1 /\ Len(seen) \in Nat
            /\ seen'[Len(seen) + 1] = buffer /\ SubSeq(seen', 1, Len(seen)) = seen
        BY <3>1
      <4> QED
        BY <4>1 DEF Last, Front
    <3> QED
      BY <1>1, <1>2, <2>1, <2>3, <3>2 DEF LinesInv
  <2> QED
    BY <2>2, <2>3
<1> QED
  BY <1>8, <1>9, <1>10, <1>11 DEF ExecInv

LEMMA Halves ==
    ASSUME NEW s \in Texts, NEW n \in 1..Len(s)
    PROVE  /\ SubSeq(s, 1, n) \in Texts /\ SubSeq(s, n + 1, Len(s)) \in Texts
           /\ SubSeq(s, 1, n) # << >>
           /\ s = SubSeq(s, 1, n) \o SubSeq(s, n + 1, Len(s))
  BY DEF Texts

(* One read of the output, with the part of it that is read named.         *)
ReadStep(chunk, rest, text, cut, lines) ==
    /\ result' = [result EXCEPT !.stdout = result.stdout \o chunk]
    /\ IF mode \in {"line", "pty"} /\ text # << >>
       THEN /\ seen' = seen \o cut.lines
            /\ buffer' = cut.buffer
            /\ transcript' = IF mode = "pty" THEN transcript \o text ELSE transcript
            /\ Dispatch(IF mode = "pty" THEN EvaluateScreen(lines, text) ELSE lines, rest)
       ELSE /\ out' = rest
            /\ UNCHANGED <<seen, buffer, transcript, runtime, fired, shown, typed, written>>

LEMMA ReadIsAStep ==
    ASSUME ExecInv, Read
    PROVE  \E chunk \in Texts, rest \in Texts, text \in Texts :
               /\ chunk # << >> /\ out = chunk \o rest
               /\ mode # "pty" => text = chunk
               /\ mode = "pty" => text = normalize_exec_rule_pty_chunk(chunk)
               /\ ReadStep(chunk, rest, text, LineAccumulator(buffer, text),
                           EvaluateLines(runtime, LineAccumulator(buffer, text).lines))
<1>1. out \in Texts
  BY DEF ExecInv, TypeOK
<1>2. PICK n \in 1..Len(out) :
         \E text  \in {IF mode = "pty" THEN normalize_exec_rule_pty_chunk(SubSeq(out, 1, n)) ELSE SubSeq(out, 1, n)} :
         \E cut   \in {LineAccumulator(buffer, text)} :
         \E lines \in {EvaluateLines(runtime, cut.lines)} :
             ReadStep(SubSeq(out, 1, n), SubSeq(out, n + 1, Len(out)), text, cut, lines)
  BY Zenon DEF Read, ReadStep
<1> DEFINE chunk == SubSeq(out, 1, n)
           rest == SubSeq(out, n + 1, Len(out))
           text == IF mode = "pty" THEN normalize_exec_rule_pty_chunk(chunk) ELSE chunk
<1>3. ReadStep(chunk, rest, text, LineAccumulator(buffer, text), EvaluateLines(runtime, LineAccumulator(buffer, text).lines))
  <2>1. \E t \in {text} : \E cut \in {LineAccumulator(buffer, t)} :
           \E lines \in {EvaluateLines(runtime, cut.lines)} : ReadStep(chunk, rest, t, cut, lines)
    BY <1>2
  <2> HIDE DEF text, chunk, rest
  <2> QED
    BY <2>1, Zenon
<1>4. chunk \in Texts /\ rest \in Texts /\ chunk # << >> /\ out = chunk \o rest
  BY <1>1, Halves
<1>5. /\ text \in Texts /\ (mode # "pty" => text = chunk)
      /\ mode = "pty" => text = normalize_exec_rule_pty_chunk(chunk)
  <2> HIDE DEF chunk
  <2>1. normalize_exec_rule_pty_chunk(chunk) \in Texts
    BY <1>4, NormalizeType
  <2> QED
    BY <1>4, <2>1
<1> HIDE DEF chunk, rest, text
<1> QED
  BY <1>3, <1>4, <1>5, Zenon

LEMMA ReadInv ==
    ASSUME ExecInv, Read
    PROVE  ExecInv'
<1>1. /\ pc = "read" /\ UNCHANGED <<call, pc, rules, suspended, child, err, failed>>
  BY DEF Read
<1>2. mode' = mode /\ Accepted' = Accepted
  BY <1>1, Frame
<1>3. PICK chunk \in Texts, rest \in Texts, text \in Texts :
               /\ chunk # << >> /\ out = chunk \o rest
               /\ mode # "pty" => text = chunk
               /\ ReadStep(chunk, rest, text, LineAccumulator(buffer, text),
                           EvaluateLines(runtime, LineAccumulator(buffer, text).lines))
  BY ReadIsAStep
<1> DEFINE cut == LineAccumulator(buffer, text)
           lines == EvaluateLines(runtime, cut.lines)
           had == result.stdout
           have == had \o chunk
<1>4. /\ TypeOK /\ written = had \o out /\ had \in Texts /\ result \in Results
      /\ seen \in Seq(PlainLines) /\ buffer \in PlainLines /\ transcript \in Texts
  BY DEF ExecInv, OutputInv, TypeOK, Results
<1>5. have \in Texts /\ written = have \o rest
  <2> HIDE DEF had
  <2>1. had \in Texts
    BY <1>4
  <2>2. had \o chunk \in Texts /\ had \o (chunk \o rest) = (had \o chunk) \o rest
    BY <2>1, SMTT(30) DEF Texts
  <2> QED
    BY <1>3, <1>4, <2>2
<1>6. ReadStep(chunk, rest, text, cut, lines)
  BY <1>3
<1>7. cut \in Cuts /\ Joined(seen \o cut.lines) \o cut.buffer = (Joined(seen) \o buffer) \o text
  BY <1>4, LinesJoin
<1> HIDE DEF cut, had
<1>8. cut.lines \in Seq(PlainLines) /\ cut.buffer \in PlainLines
  BY <1>7 DEF Cuts
<1>9. lines \in Findings(rules)
  <2>1. cut.lines \in Seq(Texts)
    BY <1>8, LinesAreTexts
  <2> QED
    BY <1>4, <2>1, EvaluateLinesType DEF TypeOK
<1> HIDE DEF lines, have
<1>10. result' \in Results /\ result'.stdout = have /\ result'.success = result.success /\ result'.stderr = result.stderr
  <2>1. result' = [result EXCEPT !.stdout = have]
    BY <1>6 DEF ReadStep, have, had
  <2> QED
    BY <1>4, <1>5, <2>1 DEF Results
<1>11. /\ runtime' \in Runtimes(rules) /\ fired' \in Seq(DOMAIN rules)
       /\ buffer' \in PlainLines /\ seen' \in Seq(PlainLines) /\ transcript' \in Texts
       /\ out' \in Texts /\ written' \in Texts /\ written' = have \o out'
       /\ mode \notin {"line", "pty"} => buffer' = buffer
       /\ mode = "line" => Joined(seen') \o buffer' = (Joined(seen) \o buffer) \o chunk
  <2>1. CASE mode \in {"line", "pty"} /\ text # << >>
    <3>1. /\ seen' = seen \o cut.lines /\ buffer' = cut.buffer
          /\ transcript' = IF mode = "pty" THEN transcript \o text ELSE transcript
          /\ Dispatch(IF mode = "pty" THEN EvaluateScreen(lines, text) ELSE lines, rest)
      BY <1>6, <2>1 DEF ReadStep
    <3>2. seen' \in Seq(PlainLines) /\ buffer' \in PlainLines
      <4> DEFINE P == PlainLines
                 more == cut.lines
      <4>1. seen \in Seq(P) /\ more \in Seq(P) /\ seen' = seen \o more
        BY <1>4, <1>8, <3>1
      <4> HIDE DEF P, more
      <4>2. seen' \in Seq(P)
        BY <4>1
      <4> QED
        BY <1>8, <3>1, <4>2 DEF P
    <3>3. transcript \o text \in Texts /\ transcript' \in Texts
      <4>1. transcript \o text \in Texts
        BY <1>4 DEF Texts
      <4> QED
        BY <1>4, <3>1, <4>1
    <3>4. EvaluateScreen(lines, text) \in Findings(rules)
      BY <1>4, <1>9, <3>3, EvaluateType DEF TypeOK, EvaluateScreen, Screen
    <3>5. Dispatched(rest)
      <4> DEFINE e == IF mode = "pty" THEN EvaluateScreen(lines, text) ELSE lines
      <4>1. e \in Findings(rules) /\ Dispatch(e, rest)
        BY <1>9, <3>1, <3>4
      <4> HIDE DEF e
      <4> QED
        BY <1>4, <4>1, DispatchType
    <3>6. out' \in Texts /\ written' \in Texts /\ written' = have \o out'
      BY <1>5, <3>5, DispatchOutput
    <3>7. mode = "line" => Joined(seen') \o buffer' = (Joined(seen) \o buffer) \o chunk
      BY <1>3, <1>7, <3>1
    <3> QED
      BY <2>1, <3>2, <3>3, <3>5, <3>6, <3>7 DEF Dispatched
  <2>2. CASE ~(mode \in {"line", "pty"} /\ text # << >>)
    <3>1. out' = rest /\ UNCHANGED <<seen, buffer, transcript, runtime, fired, written>>
      BY <1>6, <2>2 DEF ReadStep
    <3>2. mode # "line"
      BY <1>3, <2>2
    <3>3. runtime \in Runtimes(rules) /\ fired \in Seq(DOMAIN rules) /\ written \in Texts
      BY <1>4 DEF TypeOK
    <3> QED
      BY <1>4, <1>5, <3>1, <3>2, <3>3
  <2> QED
    BY <2>1, <2>2
<1>12. TypeOK'
  BY <1>1, <1>4, <1>10, <1>11 DEF TypeOK
<1>13. ChildInv'
  BY <1>1, <1>2 DEF ExecInv, ChildInv
<1>14. OutputInv'
  BY <1>1, <1>10, <1>11 DEF ExecInv, OutputInv
<1>15. LinesInv'
  <2>1. mode = "line" => have = Joined(seen') \o buffer'
    BY <1>1, <1>11 DEF ExecInv, LinesInv, have, had
  <2> QED
    BY <1>1, <1>2, <1>10, <1>11, <2>1 DEF ExecInv, LinesInv
<1> QED
  BY <1>12, <1>13, <1>14, <1>15 DEF ExecInv

LEMMA StutterInv ==
    ASSUME ExecInv, UNCHANGED vars
    PROVE  ExecInv'
<1>1. /\ UNCHANGED <<call, pc, rules, runtime, buffer, transcript, child, out, err, result>>
      /\ UNCHANGED <<suspended, seen, fired, written, failed>>
  BY DEF vars, host
<1>2. mode' = mode /\ Accepted' = Accepted
  BY <1>1, Frame
<1>3. TypeOK'
  BY <1>1 DEF ExecInv, TypeOK
<1>4. ChildInv'
  BY <1>1, <1>2 DEF ExecInv, ChildInv
<1>5. OutputInv'
  BY <1>1 DEF ExecInv, OutputInv
<1>6. LinesInv'
  BY <1>1, <1>2 DEF ExecInv, LinesInv
<1> QED
  BY <1>3, <1>4, <1>5, <1>6 DEF ExecInv

LEMMA ExecStep == ExecInv /\ [Next]_vars => ExecInv'
<1> SUFFICES ASSUME ExecInv, [Next]_vars PROVE ExecInv'
  OBVIOUS
<1>1. CASE Host
  BY <1>1, RefuseInv, PrepareInv, SpawnInv, ReadInv, ReadEndsInv, ReadErrorsInv, WaitInv, FlushInv DEF Host
<1>2. CASE Child
  BY <1>2, ChildWritesInv, ChildEndsInv DEF Child
<1>3. CASE Fault
  BY <1>3, SpawnInv, ReadEndsInv, WaitFailsInv DEF Fault
<1>4. CASE UNCHANGED vars
  BY <1>4, StutterInv
<1> QED
  BY <1>1, <1>2, <1>3, <1>4 DEF Next

-----------------------------------------------------------------------------
(* What follows for the caller.                                            *)

(* In every state of a call the invariant holds.                           *)
THEOREM ExecInvariant == Spec => []ExecInv
  BY ExecInit, ExecStep, PTL DEF Spec

(* A call that has returned has resumed the display and left no child      *)
(* unless waitpid failed; a success without an error text means exit code  *)
(* 0 and the whole output: for any program, rules and chunks.              *)
THEOREM CallIsComplete == Spec => []CallComplete
<1>1. ASSUME ExecInv PROVE CallComplete
  <2> SUFFICES ASSUME pc = "returned"
               PROVE  /\ ~suspended
                      /\ child.status \in {"none", "reaped"} \/ "wait" \in failed
                      /\ ~Permitted \/ (call.api = "rules" /\ ~parse_exec_rules(call.table)) =>
                            child.status = "none" /\ ~result.success
                      /\ result.success => child.code = 0 /\ child.status = "reaped"
                      /\ result.success /\ result.stderr = << >> => result.stdout = written
    BY Zenon DEF CallComplete
  <2>1. suspended = FALSE /\ (child.status \in {"none", "reaped"} \/ "wait" \in failed)
    BY <1>1 DEF ExecInv, ChildInv
  <2>2. result.success => child.code = 0 /\ child.status = "reaped"
    BY <1>1 DEF ExecInv, OutputInv
  <2>3. child.status # "none" => Accepted
    BY <1>1 DEF ExecInv, ChildInv
  <2>4. ~Permitted \/ (call.api = "rules" /\ ~parse_exec_rules(call.table)) =>
            child.status = "none" /\ ~result.success
    BY <2>2, <2>3 DEF Accepted
  <2>5. ASSUME result.success, result.stderr = << >> PROVE result.stdout = written
    <3> DEFINE s == result.stdout
    <3>1. written = s \o out /\ out = << >> /\ s \in Texts
      BY <1>1, <2>5 DEF ExecInv, OutputInv, TypeOK, Results
    <3> HIDE DEF s
    <3>2. s \o << >> = s
      BY <3>1 DEF Texts
    <3> QED
      BY <3>1, <3>2 DEF s
  <2> QED
    BY <2>1, <2>2, <2>4, <2>5
<1> QED
  BY <1>1, ExecInvariant, PTL

(* Lines joined to a text end with a newline.                              *)
LEMMA JoinedEnds ==
    ASSUME NEW lines \in Seq(PlainLines)
    PROVE  Joined(lines) = << >> \/ Last(Joined(lines)) = LF
<1> DEFINE P == PlainLines
<1>1. CASE lines = << >>
  BY <1>1, JoinedNothing
<1>2. CASE lines # << >>
  <2> DEFINE front == SubSeq(lines, 1, Len(lines) - 1)
             last == lines[Len(lines)]
             before == Joined(front)
             line == Append(last, LF)
             all == Joined(lines)
  <2>1. front \in Seq(P) /\ last \in P /\ lines = Append(front, last)
    <3> HIDE DEF P
    <3>1. lines \in Seq(P)
      BY DEF P
    <3> QED
      BY <1>2, <3>1
  <2> HIDE DEF front, last
  <2>2. all = before \o line /\ before \in Texts
    BY <2>1, JoinedAppend, JoinedType
  <2>3. line \in Texts /\ Len(line) > 0 /\ line[Len(line)] = LF
    <3>1. last \in Seq(Symbols \ {LF}) /\ LF \in Symbols
      BY <2>1 DEF PlainLines, Symbols
    <3> QED
      BY <3>1 DEF Texts
  <2> HIDE DEF before, line, all
  <2>4. Len(all) = Len(before) + Len(line) /\ all[Len(all)] = LF
    BY <2>2, <2>3 DEF Texts
  <2>5. Last(all) = LF
    BY <2>4 DEF Last
  <2> QED
    BY <2>5 DEF all
<1> QED
  BY <1>1, <1>2

LEMMA LastOfLine ==
    ASSUME NEW text \in Texts, NEW line \in PlainLines, line # << >>
    PROVE  text \o line # << >> /\ Last(text \o line) # LF
<1>1. line \in Seq(Symbols \ {LF}) /\ text \in Seq(Symbols)
  BY DEF PlainLines, Texts
<1>2. /\ text \o line \in Seq(Symbols) /\ Len(text \o line) = Len(text) + Len(line)
      /\ Len(line) > 0 /\ (text \o line)[Len(text) + Len(line)] = line[Len(line)]
      /\ line[Len(line)] # LF
  BY <1>1
<1> QED
  BY <1>2 DEF Last

(* However the output of any program is cut into chunks, the line rules    *)
(* are tried on its lines, each once, and at the end on the last one.      *)
THEOREM LinesAreExact == Spec => []LinesExact
<1>1. ASSUME ExecInv PROVE LinesExact
  <2>1. /\ seen \in Seq(PlainLines) /\ buffer \in PlainLines /\ LinesInv
        /\ result.stdout \in Texts
    BY <1>1 DEF ExecInv, TypeOK, Results
  <2>2. ASSUME NEW k \in DOMAIN seen PROVE LF \notin ToSet(seen[k])
    <3> DEFINE P == PlainLines
               line == seen[k]
    <3>1. line \in P
      <4> HIDE DEF P
      <4>1. seen \in Seq(P)
        BY <2>1 DEF P
      <4> QED
        BY <4>1
    <3> HIDE DEF line
    <3>2. line \in Seq(Symbols \ {LF})
      BY <3>1 DEF PlainLines
    <3>3. LF \notin ToSet(line)
      BY <3>2 DEF ToSet
    <3> QED
      BY <3>3 DEF line
  <2>3. pc = "returned" => buffer = << >>
    BY <2>1 DEF LinesInv
  <2>4. ASSUME mode = "line", pc # "called"
        PROVE  result.stdout = IF pc = "returned" /\ result.stdout # << >> /\ Last(result.stdout) # LF
                               THEN Joined(Front(seen)) \o Last(seen)
                               ELSE Joined(seen) \o buffer
    <3>1. CASE pc # "returned"
      BY <2>1, <2>4, <3>1 DEF LinesInv
    <3>2. CASE pc = "returned" /\ result.stdout = Joined(seen)
      <4> DEFINE all == Joined(seen)
      <4>1. all \in Texts /\ (all = << >> \/ Last(all) = LF) /\ buffer = << >>
        BY <2>1, <2>3, <3>2, JoinedType, JoinedEnds
      <4> HIDE DEF all
      <4>2. all \o << >> = all
        BY <4>1 DEF Texts
      <4>3. result.stdout = all
        BY <3>2 DEF all
      <4> QED
        BY <4>1, <4>2, <4>3 DEF all
    <3>3. CASE /\ pc = "returned" /\ seen # << >> /\ Last(seen) # << >>
               /\ result.stdout = Joined(Front(seen)) \o Last(seen)
      <4> DEFINE P == PlainLines
                 front == Front(seen)
                 last == Last(seen)
                 before == Joined(front)
      <4>1. front \in Seq(P) /\ last \in P
        <5> HIDE DEF P
        <5>1. seen \in Seq(P)
          BY <2>1 DEF P
        <5>2. Len(seen) \in Nat /\ Len(seen) > 0
          BY <3>3, <5>1
        <5> QED
          BY <5>1, <5>2 DEF Front, Last
      <4>2. last # << >> /\ result.stdout = before \o last
        BY <3>3
      <4> HIDE DEF front, last
      <4>3. before \in Texts
        BY <4>1, JoinedType
      <4> HIDE DEF before
      <4>4. before \o last # << >> /\ Last(before \o last) # LF
        BY <4>1, <4>2, <4>3, LastOfLine
      <4> QED
        BY <3>3, <4>2, <4>4 DEF before, front, last
    <3> QED
      BY <2>1, <2>4, <3>1, <3>2, <3>3 DEF LinesInv
  <2> QED
    BY <2>2, <2>3, <2>4, Zenon DEF LinesExact
<1> QED
  BY <1>1, ExecInvariant, PTL

-----------------------------------------------------------------------------
(* No prompt is answered twice.                                            *)

(* A rule that did not fire in an evaluation that began with rt.           *)
Untouched(rt, e, j) ==
    e.runtime.cursor[j] = rt.cursor[j] /\ \A a \in DOMAIN e.fired : e.fired[a] # j

(* A rule that fired once, on a place behind its cursor, which is now at   *)
(* the end of that place.                                                  *)
Answered(word, rt, text, e, j) ==
    /\ \E p \in Nat : /\ rt.cursor[j] <= p /\ p + Len(word) = e.runtime.cursor[j]
                      /\ p + Len(word) <= Len(text)
                      /\ SubSeq(text, p + 1, p + Len(word)) = word
    /\ \A a, b \in DOMAIN e.fired : e.fired[a] = j /\ e.fired[b] = j => a = b

(* A match in the rest of a text is one in the text.                       *)
LEMMA MatchBehind ==
    ASSUME NEW text \in Texts, NEW c \in Nat, c <= Len(text), NEW rule, rule.regex \in Texts,
           NEW e \in regex_search(rule, SubSeq(text, c + 1, Len(text)))
    PROVE  \E p \in Nat : /\ c <= p /\ p + Len(rule.regex) = c + e
                          /\ p + Len(rule.regex) <= Len(text)
                          /\ SubSeq(text, p + 1, p + Len(rule.regex)) = rule.regex
<1> DEFINE word == rule.regex
           n == Len(word)
           rest == SubSeq(text, c + 1, Len(text))
<1>1. PICK k \in 0..Len(rest) : e = k + n /\ k + n <= Len(rest) /\ SubSeq(rest, k + 1, k + n) = word
  BY DEF regex_search
<1>2. n \in Nat /\ word \in Texts
  BY DEF Texts
<1> HIDE DEF word, n
<1>3. rest \in Texts /\ Len(rest) = Len(text) - c /\ \A i \in 1..Len(rest) : rest[i] = text[c + i]
  BY DEF Texts
<1> HIDE DEF rest
<1>4. SubSeq(rest, k + 1, k + n) = SubSeq(text, (c + k) + 1, (c + k) + n)
  <2>1. /\ Len(rest) \in Nat /\ k \in Nat /\ k + n <= Len(rest) /\ Len(text) \in Nat
        /\ (c + k) + n <= Len(text)
    BY <1>1, <1>2, <1>3 DEF Texts
  <2>2. SubSeq(rest, k + 1, k + n) = [i \in 1..n |-> rest[k + i]]
    BY <1>2, <1>3, <2>1 DEF Texts
  <2>3. SubSeq(text, (c + k) + 1, (c + k) + n) = [i \in 1..n |-> text[(c + k) + i]]
    BY <1>2, <2>1 DEF Texts
  <2>4. \A i \in 1..n : rest[k + i] = text[(c + k) + i]
    <3> SUFFICES ASSUME NEW i \in 1..n PROVE rest[k + i] = text[(c + k) + i]
      OBVIOUS
    <3>1. k + i \in 1..Len(rest) /\ c + (k + i) = (c + k) + i
      BY <1>2, <2>1
    <3> QED
      BY <1>3, <3>1
  <2> QED
    BY <2>2, <2>3, <2>4
<1>5. c + k \in Nat /\ c <= c + k /\ (c + k) + n = c + e /\ (c + k) + n <= Len(text)
  BY <1>1, <1>2, <1>3 DEF Texts
<1>6. SubSeq(text, (c + k) + 1, (c + k) + n) = word
  BY <1>1, <1>4
<1> QED
  BY <1>5, <1>6 DEF word, n

(* What trying rule i does to another rule j.                              *)
Undisturbed(acc, new, i, j) ==
    /\ new.runtime.cursor[j] = acc.runtime.cursor[j]
    /\ new.fired = acc.fired \/ (i # j /\ new.fired = Append(acc.fired, i))

LEMMA TryOther ==
    ASSUME NEW rs, TextRules(rs), NEW source, NEW text, NEW acc \in Evaluations(rs),
           NEW i \in DOMAIN rs, NEW j \in DOMAIN rs, rs[j].source = "screen",
           i # j \/ source # "screen"
    PROVE  Undisturbed(acc, TryRule(source, rs, text, acc, i), i, j)
<1> DEFINE new == TryRule(source, rs, text, acc, i)
           e == CHOOSE e \in regex_search(rs[i], TriedOn(source, acc.runtime, i, text)) : TRUE
           to == StateAfter(rs[i].actions, acc.runtime.current)
           disabled == [acc.runtime.disabled EXCEPT ![i] = ~rs[i].repeat]
           moved == CursorAfter(source, acc.runtime.cursor[i], Len(text), e)
           cursor == [acc.runtime.cursor EXCEPT ![i] = moved]
           stop == rs[i].stop
<1>1. \/ new = acc
      \/ /\ rs[i].source = source
         /\ new = [runtime |-> [current |-> to, disabled |-> disabled, cursor |-> cursor],
                   fired |-> Append(acc.fired, i), stopped |-> stop]
  BY DEF TryRule
<1> HIDE DEF new, e, to, disabled, moved, stop
<1>2. CASE new = acc
  BY <1>2 DEF new, Undisturbed
<1>3. CASE /\ rs[i].source = source
           /\ new = [runtime |-> [current |-> to, disabled |-> disabled, cursor |-> cursor],
                     fired |-> Append(acc.fired, i), stopped |-> stop]
  <2>1. i # j
    BY <1>3
  <2>2. acc.runtime.cursor \in [DOMAIN rs -> Nat]
    BY DEF Evaluations, Runtimes
  <2>3. cursor[j] = acc.runtime.cursor[j]
    BY <2>1, <2>2
  <2> HIDE DEF cursor
  <2>4. new.runtime.cursor = cursor /\ new.fired = Append(acc.fired, i)
    BY <1>3
  <2> QED
    BY <2>1, <2>3, <2>4 DEF new, Undisturbed
<1> QED
  BY <1>1, <1>2, <1>3

LEMMA TryThis ==
    ASSUME NEW rs, TextRules(rs), NEW text \in Texts, NEW acc \in Evaluations(rs),
           NEW j \in DOMAIN rs, acc.runtime.cursor[j] <= Len(text)
    PROVE  \/ TryRule("screen", rs, text, acc, j) = acc
           \/ /\ TryRule("screen", rs, text, acc, j).fired = Append(acc.fired, j)
              /\ \E p \in Nat : /\ acc.runtime.cursor[j] <= p
                                /\ p + Len(rs[j].regex) = TryRule("screen", rs, text, acc, j).runtime.cursor[j]
                                /\ p + Len(rs[j].regex) <= Len(text)
                                /\ SubSeq(text, p + 1, p + Len(rs[j].regex)) = rs[j].regex
<1> DEFINE new == TryRule("screen", rs, text, acc, j)
           c == acc.runtime.cursor[j]
           ends == regex_search(rs[j], TriedOn("screen", acc.runtime, j, text))
           e == CHOOSE e \in ends : TRUE
           to == StateAfter(rs[j].actions, acc.runtime.current)
           disabled == [acc.runtime.disabled EXCEPT ![j] = ~rs[j].repeat]
           moved == CursorAfter("screen", c, Len(text), e)
           cursor == [acc.runtime.cursor EXCEPT ![j] = moved]
           stop == rs[j].stop
<1>1. \/ new = acc
      \/ /\ ends # {}
         /\ new = [runtime |-> [current |-> to, disabled |-> disabled, cursor |-> cursor],
                   fired |-> Append(acc.fired, j), stopped |-> stop]
  BY DEF TryRule
<1>2. acc.runtime.cursor \in [DOMAIN rs -> Nat] /\ c \in Nat /\ Len(text) \in Nat /\ c <= Len(text)
  BY DEF Evaluations, Runtimes, Texts
<1>3. Min({c, Len(text)}) = c
  <2> HIDE DEF c
  <2>1. Min({c, Len(text)}) \in Nat /\ Min({c, Len(text)}) <= c
        /\ (Min({c, Len(text)}) = c \/ Min({c, Len(text)}) = Len(text))
    BY <1>2, MinOfTwo
  <2> QED
    BY <1>2, <2>1
<1>4. ends = regex_search(rs[j], SubSeq(text, c + 1, Len(text)))
  BY <1>3 DEF TriedOn
<1>5. moved = c + e
  BY <1>3 DEF CursorAfter
<1>6. ASSUME ends # {}
      PROVE  \E p \in Nat : /\ c <= p /\ p + Len(rs[j].regex) = c + e
                            /\ p + Len(rs[j].regex) <= Len(text)
                            /\ SubSeq(text, p + 1, p + Len(rs[j].regex)) = rs[j].regex
  <2>1. e \in ends
    BY <1>6
  <2> HIDE DEF e, c, ends
  <2>2. e \in regex_search(rs[j], SubSeq(text, c + 1, Len(text)))
    BY <1>4, <2>1
  <2>3. rs[j].regex \in Texts
    BY DEF TextRules
  <2> DEFINE rule == rs[j]
  <2> HIDE DEF rule
  <2>4. e \in regex_search(rule, SubSeq(text, c + 1, Len(text))) /\ rule.regex \in Texts
    BY <2>2, <2>3 DEF rule
  <2>5. \E p \in Nat : /\ c <= p /\ p + Len(rule.regex) = c + e
                       /\ p + Len(rule.regex) <= Len(text)
                       /\ SubSeq(text, p + 1, p + Len(rule.regex)) = rule.regex
    BY <1>2, <2>4, MatchBehind, ZenonT(60)
  <2> QED
    BY <2>5 DEF rule
<1>7. cursor[j] = moved
  BY <1>2
<1> HIDE DEF new, ends, e, to, disabled, moved, stop, cursor, c
<1>8. CASE /\ ends # {}
           /\ new = [runtime |-> [current |-> to, disabled |-> disabled, cursor |-> cursor],
                     fired |-> Append(acc.fired, j), stopped |-> stop]
  <2>1. new.fired = Append(acc.fired, j) /\ new.runtime.cursor = cursor
    BY <1>8
  <2>2. new.runtime.cursor[j] = c + e
    BY <1>5, <1>7, <2>1
  <2> QED
    BY <1>6, <1>8, <2>1, <2>2 DEF new, c
<1> QED
  BY <1>1, <1>8 DEF new

LEMMA OthersKeep ==
    ASSUME NEW D, NEW word, NEW rt, NEW text, NEW acc, NEW new, NEW i \in D, NEW j \in D,
           acc.fired \in Seq(D), Undisturbed(acc, new, i, j)
    PROVE  /\ Untouched(rt, acc, j) => Untouched(rt, new, j)
           /\ Answered(word, rt, text, acc, j) => Answered(word, rt, text, new, j)
<1> DEFINE s == acc.fired
           t == new.fired
<1>1. s \in Seq(D) /\ (t = s \/ (i # j /\ t = Append(s, i)))
  BY DEF Undisturbed
<1> HIDE DEF s, t
<1>2. \A a \in DOMAIN t : t[a] = j => a \in DOMAIN s /\ s[a] = j
  BY <1>1
<1> QED
  BY <1>2 DEF Untouched, Answered, Undisturbed, s, t

LEMMA EvaluationAnswers ==
    ASSUME NEW rs, TextRules(rs), NEW source, NEW text \in Texts, NEW rt \in Runtimes(rs),
           NEW j \in DOMAIN rs, rs[j].source = "screen"
    PROVE  LET e == evaluate_rules_for_source(source, rs, rt, text)
           IN  /\ source # "screen" => Untouched(rt, e, j)
               /\ rt.cursor[j] <= Len(text) => Untouched(rt, e, j) \/ Answered(rs[j].regex, rt, text, e, j)
<1> DEFINE n == Len(rs)
           X == Evaluations(rs)
           word == rs[j].regex
<1>1. PICK g \in [0..n -> X] :
               /\ g[0] = [runtime |-> rt, fired |-> << >>, stopped |-> FALSE]
               /\ \A k \in 1..n : g[k] = TryRule(source, rs, text, g[k - 1], k)
               /\ evaluate_rules_for_source(source, rs, rt, text) = g[n]
  BY EvaluationSteps
<1>2. n \in Nat /\ DOMAIN rs = 1..n /\ j \in 1..n /\ n \in 0..n /\ j <= n
  BY DEF TextRules
<1>3. Untouched(rt, g[0], j)
  BY <1>1 DEF Untouched
<1>4. ASSUME NEW k \in 1..n
      PROVE  /\ g[k - 1] \in X /\ g[k - 1].fired \in Seq(DOMAIN rs) /\ k \in DOMAIN rs
             /\ g[k] = TryRule(source, rs, text, g[k - 1], k)
  <2>1. g[k] = TryRule(source, rs, text, g[k - 1], k) /\ k \in DOMAIN rs
    BY <1>1, <1>2
  <2>2. k - 1 \in 0..n
    BY <1>2
  <2>3. g[k - 1] \in X
    <3> HIDE DEF X, n
    <3> QED
      BY <1>1, <2>2
  <2> DEFINE x == g[k - 1]
  <2> HIDE DEF x
  <2>4. x \in Evaluations(rs)
    BY <2>3 DEF x
  <2>5. x.fired \in Seq(DOMAIN rs)
    BY <2>4 DEF Evaluations
  <2> QED
    BY <2>1, <2>3, <2>5 DEF x
<1>5. ASSUME NEW k \in 1..n, k # j \/ source # "screen"
      PROVE  /\ Untouched(rt, g[k - 1], j) => Untouched(rt, g[k], j)
             /\ Answered(word, rt, text, g[k - 1], j) => Answered(word, rt, text, g[k], j)
  <2> DEFINE acc == g[k - 1]
             new == g[k]
             D == DOMAIN rs
  <2>1. acc \in X /\ acc.fired \in Seq(D) /\ k \in D /\ new = TryRule(source, rs, text, acc, k)
    BY <1>4
  <2> HIDE DEF acc, new, word
  <2>2. Undisturbed(acc, new, k, j)
    <3>1. Undisturbed(acc, TryRule(source, rs, text, acc, k), k, j)
      <4> HIDE DEF n
      <4> QED
        BY <1>5, <2>1, TryOther
    <3> QED
      BY <2>1, <3>1
  <2> HIDE DEF D
  <2>3. /\ Untouched(rt, acc, j) => Untouched(rt, new, j)
        /\ Answered(word, rt, text, acc, j) => Answered(word, rt, text, new, j)
    <3>1. j \in D
      BY DEF D
    <3> QED
      BY <2>1, <2>2, <3>1, OthersKeep
  <2> QED
    BY <2>3 DEF acc, new
<1>6. ASSUME source # "screen" PROVE Untouched(rt, g[n], j)
  <2> DEFINE Y == {x \in X : Untouched(rt, x, j)}
  <2>1. g[0] \in Y
    <3>1. 0 \in 0..n
      BY <1>2
    <3> HIDE DEF X, n
    <3>2. g[0] \in X
      BY <1>1, <3>1
    <3> QED
      BY <1>3, <3>2
  <2>2. \A k \in 1..n : g[k - 1] \in Y => g[k] \in Y
    BY <1>1, <1>5, <1>6
  <2>3. \A k \in 0..n : g[k] \in Y
    <3> HIDE DEF Y, n
    <3> QED
      BY <1>2, <2>1, <2>2, StaysInside
  <2> QED
    BY <1>2, <2>3
<1>7. ASSUME source = "screen", rt.cursor[j] <= Len(text)
      PROVE  Untouched(rt, g[n], j) \/ Answered(word, rt, text, g[n], j)
  <2> DEFINE Good(x, k) == Untouched(rt, x, j) \/ (j <= k /\ Answered(word, rt, text, x, j))
             Inv == [k \in 0..n |-> {x \in X : Good(x, k)}]
  <2>1. \A k \in 0..n : \A x : x \in Inv[k] <=> x \in X /\ Good(x, k)
    OBVIOUS
  <2>2. 0 \in 0..n /\ \A k \in 1..n : k \in 0..n /\ k - 1 \in 0..n /\ g[k] \in X
    BY <1>1, <1>2
  <2>3. g[0] \in Inv[0]
    BY <1>1, <1>3, <2>1, <2>2
  <2>4. ASSUME NEW k \in 1..n, g[k - 1] \in Inv[k - 1] PROVE g[k] \in Inv[k]
    <3>1. Good(g[k - 1], k - 1) /\ k \in 0..n /\ k - 1 \in 0..n /\ g[k] \in X
      BY <2>1, <2>2, <2>4
    <3>2. CASE k # j
      <4>1. j <= k - 1 => j <= k
        BY <1>2
      <4> QED
        BY <1>5, <2>1, <3>1, <3>2, <4>1
    <3>3. CASE k = j
      <4> DEFINE acc == g[k - 1]
                 new == g[k]
      <4>1. Untouched(rt, acc, j)
        BY <1>2, <3>1, <3>3
      <4>2. acc \in X /\ acc.fired \in Seq(DOMAIN rs) /\ new = TryRule("screen", rs, text, acc, j)
        BY <1>4, <1>7, <3>3
      <4> HIDE DEF acc, new
      <4>3. acc.runtime.cursor[j] = rt.cursor[j] /\ \A a \in DOMAIN acc.fired : acc.fired[a] # j
        BY <4>1 DEF Untouched
      <4>4. \/ new = acc
            \/ /\ new.fired = Append(acc.fired, j)
               /\ \E p \in Nat : /\ rt.cursor[j] <= p /\ p + Len(word) = new.runtime.cursor[j]
                                 /\ p + Len(word) <= Len(text)
                                 /\ SubSeq(text, p + 1, p + Len(word)) = word
        <5>1. acc.runtime.cursor[j] <= Len(text)
          BY <1>7, <4>3
        <5> DEFINE r == TryRule("screen", rs, text, acc, j)
        <5>2. \/ r = acc
              \/ /\ r.fired = Append(acc.fired, j)
                 /\ \E p \in Nat : /\ acc.runtime.cursor[j] <= p /\ p + Len(word) = r.runtime.cursor[j]
                                   /\ p + Len(word) <= Len(text)
                                   /\ SubSeq(text, p + 1, p + Len(word)) = word
          BY <4>2, <5>1, TryThis, ZenonT(60)
        <5> HIDE DEF word
        <5> QED
          BY <4>2, <4>3, <5>2
      <4>5. new.fired = Append(acc.fired, j) =>
               \A a, b \in DOMAIN new.fired : new.fired[a] = j /\ new.fired[b] = j => a = b
        <5> DEFINE s == acc.fired
                   t == new.fired
                   D == DOMAIN rs
        <5>1. s \in Seq(D) /\ \A a \in DOMAIN s : s[a] # j
          BY <4>2, <4>3
        <5> HIDE DEF s, t, D
        <5>2. t = Append(s, j) => \A a, b \in DOMAIN t : t[a] = j /\ t[b] = j => a = b
          BY <5>1
        <5> QED
          BY <5>2 DEF s, t
      <4> HIDE DEF word
      <4>6. Untouched(rt, new, j) \/ Answered(word, rt, text, new, j)
        BY <4>1, <4>4, <4>5 DEF Answered
      <4>7. j <= k
        BY <1>2, <3>3
      <4> QED
        BY <2>1, <3>1, <4>6, <4>7 DEF new
    <3> QED
      BY <3>2, <3>3
  <2> HIDE DEF Inv
  <2>5. \A k \in 0..n : g[k] \in Inv[k]
    <3> HIDE DEF n
    <3> QED
      BY <1>2, <2>3, <2>4, StepByStep
  <2> QED
    BY <1>2, <2>1, <2>5
<1> HIDE DEF n
<1>8. source # "screen" \/ source = "screen"
  OBVIOUS
<1> QED
  BY <1>1, <1>6, <1>7, <1>8 DEF word

(* One evaluation after others that left rule j alone.                     *)
LEMMA EvaluateAnswers ==
    ASSUME TextRules(rules), NEW source, NEW text \in Texts, NEW acc \in Findings(rules), NEW rt,
           NEW j \in DOMAIN rules, rules[j].source = "screen", Untouched(rt, acc, j)
    PROVE  /\ source # "screen" => Untouched(rt, Evaluate(source, acc, text), j)
           /\ rt.cursor[j] <= Len(text) =>
                 \/ Untouched(rt, Evaluate(source, acc, text), j)
                 \/ Answered(rules[j].regex, rt, text, Evaluate(source, acc, text), j)
<1> DEFINE e == evaluate_rules_for_source(source, rules, acc.runtime, text)
           new == Evaluate(source, acc, text)
           word == rules[j].regex
           D == DOMAIN rules
           s == acc.fired
           t == e.fired
<1>1. acc.runtime \in Runtimes(rules) /\ s \in Seq(D)
  BY DEF Findings
<1>2. e \in Evaluations(rules)
  BY <1>1, EvaluationType
<1>3. new = [runtime |-> e.runtime, fired |-> s \o t]
  BY DEF Evaluate
<1>4. /\ source # "screen" => Untouched(acc.runtime, e, j)
      /\ acc.runtime.cursor[j] <= Len(text) =>
            Untouched(acc.runtime, e, j) \/ Answered(word, acc.runtime, text, e, j)
  BY <1>1, EvaluationAnswers
<1> HIDE DEF e, new, word
<1>5. t \in Seq(D)
  BY <1>2 DEF Evaluations
<1>6. new.runtime = e.runtime /\ new.fired = s \o t
  BY <1>3
<1>7. acc.runtime.cursor[j] = rt.cursor[j] /\ \A a \in DOMAIN s : s[a] # j
  BY DEF Untouched
<1>8. \A a \in DOMAIN (s \o t) : (s \o t)[a] = j => a - Len(s) \in DOMAIN t /\ t[a - Len(s)] = j /\ a \in Nat /\ Len(s) \in Nat
  <2> HIDE DEF s, t, D
  <2> QED
    BY <1>1, <1>5, <1>7
<1>9. Untouched(acc.runtime, e, j) => Untouched(rt, new, j)
  <2> SUFFICES ASSUME Untouched(acc.runtime, e, j) PROVE Untouched(rt, new, j)
    OBVIOUS
  <2>1. e.runtime.cursor[j] = rt.cursor[j] /\ \A a \in DOMAIN t : t[a] # j
    BY <1>7 DEF Untouched
  <2> HIDE DEF s, t
  <2>2. \A a \in DOMAIN (s \o t) : (s \o t)[a] # j
    BY <1>8, <2>1
  <2> QED
    BY <1>6, <2>1, <2>2 DEF Untouched
<1>10. Answered(word, acc.runtime, text, e, j) => Answered(word, rt, text, new, j)
  <2> SUFFICES ASSUME Answered(word, acc.runtime, text, e, j) PROVE Answered(word, rt, text, new, j)
    OBVIOUS
  <2>1. \E p \in Nat : /\ rt.cursor[j] <= p /\ p + Len(word) = new.runtime.cursor[j]
                       /\ p + Len(word) <= Len(text)
                       /\ SubSeq(text, p + 1, p + Len(word)) = word
    BY <1>6, <1>7 DEF Answered
  <2>2. \A a, b \in DOMAIN t : t[a] = j /\ t[b] = j => a = b
    BY DEF Answered
  <2> HIDE DEF s, t
  <2>3. ASSUME NEW a \in DOMAIN (s \o t), NEW b \in DOMAIN (s \o t), (s \o t)[a] = j, (s \o t)[b] = j
        PROVE  a = b
    <3>1. /\ a - Len(s) \in DOMAIN t /\ t[a - Len(s)] = j /\ a \in Nat /\ Len(s) \in Nat
          /\ b - Len(s) \in DOMAIN t /\ t[b - Len(s)] = j /\ b \in Nat
      BY <1>8, <2>3
    <3>2. a - Len(s) = b - Len(s)
      BY <2>2, <3>1
    <3> QED
      BY <3>1, <3>2
  <2> QED
    BY <1>6, <2>1, <2>3 DEF Answered
<1> QED
  BY <1>4, <1>7, <1>9, <1>10 DEF new, word

(* Lines leave the screen rules alone.                                     *)
LEMMA LinesLeaveScreen ==
    ASSUME TextRules(rules), NEW rt \in Runtimes(rules), NEW lines \in Seq(Texts),
           NEW j \in DOMAIN rules, rules[j].source = "screen"
    PROVE  Untouched(rt, EvaluateLines(rt, lines), j)
<1> DEFINE n == Len(lines)
           Y == {x \in Findings(rules) : Untouched(rt, x, j)}
<1>1. PICK g \in [0..n -> Findings(rules)] :
               /\ g[0] = [runtime |-> rt, fired |-> << >>]
               /\ \A k \in 1..n : g[k] = Evaluate("line", g[k - 1], lines[k])
               /\ EvaluateLines(rt, lines) = g[n]
  BY EvaluateLinesSteps
<1>2. n \in Nat /\ 0 \in 0..n /\ n \in 0..n /\ \A k \in 1..n : k \in 0..n /\ lines[k] \in Texts
  OBVIOUS
<1>3. Untouched(rt, g[0], j)
  BY <1>1 DEF Untouched
<1>4. ASSUME NEW k \in 1..n, g[k - 1] \in Y PROVE g[k] \in Y
  <2> DEFINE acc == g[k - 1]
             text == lines[k]
  <2>1. acc \in Findings(rules) /\ Untouched(rt, acc, j) /\ text \in Texts
    BY <1>2, <1>4
  <2>2. g[k] = Evaluate("line", acc, text) /\ g[k] \in Findings(rules)
    BY <1>1, <1>2
  <2> HIDE DEF acc, text
  <2>3. Untouched(rt, Evaluate("line", acc, text), j)
    BY <2>1, EvaluateAnswers
  <2> QED
    BY <2>2, <2>3
<1>5. g[0] \in Y
  <2> HIDE DEF n
  <2>1. g[0] \in Findings(rules)
    BY <1>1, <1>2
  <2> QED
    BY <1>3, <2>1
<1> HIDE DEF n, Y
<1>6. \A k \in 0..n : g[k] \in Y
  BY <1>2, <1>4, <1>5, StaysInside
<1> QED
  BY <1>1, <1>2, <1>6 DEF Y

LEMMA ScreenAnswers ==
    ASSUME TypeOK, NEW lines \in Seq(Texts), NEW chunk \in Texts,
           NEW j \in DOMAIN rules, rules[j].source = "screen", runtime.cursor[j] <= Len(transcript)
    PROVE  LET e == EvaluateScreen(EvaluateLines(runtime, lines), chunk)
           IN  \/ Untouched(runtime, e, j)
               \/ Answered(rules[j].regex, runtime, transcript \o chunk, e, j)
<1> DEFINE acc == EvaluateLines(runtime, lines)
           text == transcript \o chunk
<1>1. TextRules(rules) /\ runtime \in Runtimes(rules) /\ transcript \in Texts
  BY DEF TypeOK
<1>2. acc \in Findings(rules) /\ Untouched(runtime, acc, j)
  BY <1>1, EvaluateLinesType, LinesLeaveScreen
<1>3. text \in Texts /\ Len(transcript) <= Len(text) /\ Len(text) \in Nat /\ Len(transcript) \in Nat
  BY <1>1 DEF Texts
<1>4. runtime.cursor[j] <= Len(text)
  <2>1. runtime.cursor[j] \in Nat
    BY <1>1 DEF Runtimes
  <2> HIDE DEF text
  <2> QED
    BY <1>3, <2>1
<1>5. EvaluateScreen(acc, chunk) = Evaluate("screen", acc, text)
  BY DEF EvaluateScreen, Screen
<1> HIDE DEF acc, text
<1>6. \/ Untouched(runtime, Evaluate("screen", acc, text), j)
      \/ Answered(rules[j].regex, runtime, text, Evaluate("screen", acc, text), j)
  BY <1>1, <1>2, <1>3, <1>4, EvaluateAnswers
<1> QED
  BY <1>5, <1>6 DEF acc, text

(* How often a rule has fired, and the places before a cursor that it      *)
(* looks for.                                                              *)
Count(s, j) == Cardinality({a \in DOMAIN s : s[a] = j})

Found(word, text, cursor) ==
    {k \in 0..Len(text) : k + Len(word) <= cursor /\ SubSeq(text, k + 1, k + Len(word)) = word}

LEMMA CountMore ==
    ASSUME NEW D, NEW s \in Seq(D), NEW t \in Seq(D), NEW j
    PROVE  /\ Count(s, j) \in Nat
           /\ (\A a \in DOMAIN t : t[a] # j) => Count(s \o t, j) = Count(s, j)
           /\ (\A a, b \in DOMAIN t : t[a] = j /\ t[b] = j => a = b) =>
                 Count(s \o t, j) \in Nat /\ Count(s \o t, j) <= Count(s, j) + 1
<1> DEFINE A == {a \in DOMAIN s : s[a] = j}
           B == {a \in DOMAIN (s \o t) : (s \o t)[a] = j}
<1>1. /\ Len(s) \in Nat /\ Len(t) \in Nat /\ DOMAIN s = 1..Len(s) /\ DOMAIN t = 1..Len(t)
      /\ DOMAIN (s \o t) = 1..(Len(s) + Len(t))
      /\ \A a \in 1..Len(s) : (s \o t)[a] = s[a]
      /\ \A a \in 1..(Len(s) + Len(t)) : a \notin 1..Len(s) =>
            a - Len(s) \in 1..Len(t) /\ (s \o t)[a] = t[a - Len(s)]
  OBVIOUS
<1>2. IsFiniteSet(A) /\ Cardinality(A) \in Nat
  <2>1. IsFiniteSet(1..Len(s))
    BY <1>1, FS_Interval
  <2>2. A \subseteq 1..Len(s)
    BY <1>1
  <2>3. IsFiniteSet(A)
    BY <2>1, <2>2, FS_Subset
  <2> QED
    BY <2>3, FS_CardinalityType
<1>3. A \subseteq B
  BY <1>1
<1>4. \A a \in B : a \in A \/ (a - Len(s) \in DOMAIN t /\ t[a - Len(s)] = j /\ a \in Nat)
  BY <1>1
<1>5. (\A a \in DOMAIN t : t[a] # j) => B = A
  BY <1>3, <1>4
<1>6. ASSUME \A a, b \in DOMAIN t : t[a] = j /\ t[b] = j => a = b
      PROVE  Cardinality(B) \in Nat /\ Cardinality(B) <= Cardinality(A) + 1
  <2>1. CASE B = A
    <3> DEFINE m == Cardinality(A)
    <3> HIDE DEF m, A
    <3>1. m \in Nat /\ Cardinality(B) = m
      BY <1>2, <2>1 DEF m
    <3>2. m <= m + 1
      BY <3>1
    <3> QED
      BY <3>1, <3>2 DEF m
  <2>2. CASE B # A
    <3>1. PICK x \in B : x \notin A
      BY <1>3, <2>2
    <3>2. ASSUME NEW y \in B, y \notin A PROVE y = x
      <4>1. /\ x - Len(s) \in DOMAIN t /\ t[x - Len(s)] = j /\ x \in Nat
            /\ y - Len(s) \in DOMAIN t /\ t[y - Len(s)] = j /\ y \in Nat
        BY <1>4, <3>1, <3>2
      <4>2. x - Len(s) = y - Len(s)
        BY <1>6, <4>1
      <4> QED
        BY <1>1, <4>1, <4>2
    <3>3. B = A \cup {x}
      BY <1>3, <3>1, <3>2
    <3> HIDE DEF A, B
    <3>4. Cardinality(A \cup {x}) = Cardinality(A) + 1
      BY <1>2, <3>1, FS_AddElement
    <3> QED
      BY <1>2, <3>3, <3>4
  <2> QED
    BY <2>1, <2>2
<1> HIDE DEF A, B
<1>7. Count(s, j) = Cardinality(A) /\ Count(s \o t, j) = Cardinality(B)
  BY DEF Count, A, B
<1> QED
  BY <1>2, <1>5, <1>6, <1>7

LEMMA FoundFinite ==
    ASSUME NEW word, NEW text \in Texts, NEW c
    PROVE  IsFiniteSet(Found(word, text, c)) /\ Cardinality(Found(word, text, c)) \in Nat
<1>1. IsFiniteSet(0..Len(text))
  BY FS_Interval DEF Texts
<1>2. Found(word, text, c) \subseteq 0..Len(text)
  BY DEF Found
<1>3. IsFiniteSet(Found(word, text, c))
  BY <1>1, <1>2, FS_Subset
<1> QED
  BY <1>3, FS_CardinalityType

(* What was found stays found when the text grows.                         *)
LEMMA FoundStays ==
    ASSUME NEW word \in Texts, NEW text \in Texts, NEW more \in Texts, NEW c \in Nat, NEW d \in Nat,
           c <= Len(text), c <= d
    PROVE  Found(word, text, c) \subseteq Found(word, text \o more, d)
<1> DEFINE n == Len(word)
<1>1. /\ n \in Nat /\ Len(text) \in Nat /\ Len(more) \in Nat /\ text \o more \in Texts
      /\ Len(text \o more) = Len(text) + Len(more)
      /\ \A i \in 1..Len(text) : (text \o more)[i] = text[i]
  BY DEF Texts
<1> SUFFICES ASSUME NEW k \in Found(word, text, c) PROVE k \in Found(word, text \o more, d)
  OBVIOUS
<1>2. k \in 0..Len(text) /\ k + n <= c /\ SubSeq(text, k + 1, k + n) = word
  BY DEF Found
<1> DEFINE all == text \o more
<1> HIDE DEF n, all
<1>3. all \in Texts /\ Len(all) = Len(text) + Len(more) /\ \A i \in 1..Len(text) : all[i] = text[i]
  BY <1>1 DEF all
<1>4. SubSeq(all, k + 1, k + n) = SubSeq(text, k + 1, k + n)
  <2>1. SubSeq(text, k + 1, k + n) = [i \in 1..n |-> text[k + i]]
    BY <1>1, <1>2 DEF Texts
  <2>2. SubSeq(all, k + 1, k + n) = [i \in 1..n |-> all[k + i]]
    BY <1>1, <1>2, <1>3 DEF Texts
  <2>3. \A i \in 1..n : k + i \in 1..Len(text)
    BY <1>1, <1>2
  <2> QED
    BY <1>3, <2>1, <2>2, <2>3
<1>5. k \in 0..Len(all) /\ k + n <= d
  BY <1>1, <1>2, <1>3
<1> QED
  BY <1>2, <1>4, <1>5 DEF Found, n, all

(* A rule has fired no more often than what it looks for was shown before  *)
(* its cursor; one that looks for nothing, no more often than the screen   *)
(* was tried: once a chunk, and once more when the reading has ended.      *)
AnswerBound(word, text, cursor, count, ended) ==
    /\ cursor <= Len(text)
    /\ word # << >> => count <= Cardinality(Found(word, text, cursor))
    /\ word = << >> => count <= Len(text) + (IF ended THEN 1 ELSE 0)

Ending == pc \notin {"called", "spawn", "read"}

AnswersInv ==
    /\ pc = "readErr" => mode = "capture"
    /\ \A i \in DOMAIN rules : rules[i].source = "screen" =>
          AnswerBound(rules[i].regex, transcript, runtime.cursor[i], Count(fired, i), Ending)

LEMMA BoundUntouched ==
    ASSUME NEW word \in Texts, NEW text \in Texts, NEW more \in Texts, NEW c \in Nat, NEW count \in Nat,
           NEW ended, NEW later, ended => later, AnswerBound(word, text, c, count, ended)
    PROVE  AnswerBound(word, text \o more, c, count, later)
<1> DEFINE all == text \o more
           old == Found(word, text, c)
           new == Found(word, all, c)
<1>1. all \in Texts /\ Len(text) \in Nat /\ Len(all) \in Nat /\ Len(text) <= Len(all)
  BY DEF Texts
<1>2. c <= Len(text) /\ (word # << >> => count <= Cardinality(old))
      /\ (word = << >> => count <= Len(text) + (IF ended THEN 1 ELSE 0))
  BY DEF AnswerBound
<1>3. old \subseteq new
  BY <1>2, FoundStays
<1>4. IsFiniteSet(new) /\ Cardinality(new) \in Nat /\ Cardinality(old) \in Nat
  BY <1>1, FoundFinite
<1> HIDE DEF all, old, new
<1>5. Cardinality(old) <= Cardinality(new)
  BY <1>3, <1>4, FS_Subset
<1>6. count <= Cardinality(old) => count <= Cardinality(new)
  BY <1>4, <1>5
<1>7. count <= Len(text) + (IF ended THEN 1 ELSE 0) => count <= Len(all) + (IF later THEN 1 ELSE 0)
  BY <1>1
<1>8. c <= Len(all)
  BY <1>1, <1>2
<1> QED
  BY <1>2, <1>6, <1>7, <1>8 DEF AnswerBound, all, new

LEMMA BoundAnswered ==
    ASSUME NEW word \in Texts, NEW text \in Texts, NEW more \in Texts, NEW c \in Nat, NEW d \in Nat,
           NEW before \in Nat, NEW count \in Nat, count <= before + 1,
           NEW ended, NEW later, more # << >> \/ (~ended /\ later), ended => later,
           NEW p \in Nat, c <= p, p + Len(word) = d, d <= Len(text \o more),
           SubSeq(text \o more, p + 1, p + Len(word)) = word,
           AnswerBound(word, text, c, before, ended)
    PROVE  AnswerBound(word, text \o more, d, count, later)
<1> DEFINE all == text \o more
           old == Found(word, text, c)
           new == Found(word, all, d)
           n == Len(word)
<1>1. /\ all \in Texts /\ Len(text) \in Nat /\ Len(all) \in Nat /\ Len(text) <= Len(all)
      /\ more # << >> => Len(text) + 1 <= Len(all)
      /\ n \in Nat /\ (word # << >> => n > 0)
  BY DEF Texts
<1>2. c <= Len(text) /\ (word # << >> => before <= Cardinality(old))
      /\ (word = << >> => before <= Len(text) + (IF ended THEN 1 ELSE 0))
  BY DEF AnswerBound
<1>3. p + n = d /\ c <= p /\ d <= Len(all) /\ SubSeq(all, p + 1, p + n) = word /\ c <= d
  BY <1>1
<1>4. old \subseteq new
  BY <1>2, <1>3, FoundStays
<1>5. IsFiniteSet(old) /\ Cardinality(old) \in Nat /\ IsFiniteSet(new) /\ Cardinality(new) \in Nat
  BY <1>1, FoundFinite
<1>6. p \in new
  <2>1. p \in 0..Len(all)
    BY <1>1, <1>3
  <2> QED
    BY <1>3, <2>1 DEF Found
<1>7. word # << >> => p \notin old
  BY <1>1, <1>3 DEF Found
<1> HIDE DEF all, old, new, n
<1>8. word # << >> => count <= Cardinality(new)
  <2> SUFFICES ASSUME word # << >> PROVE count <= Cardinality(new)
    OBVIOUS
  <2>1. old \cup {p} \subseteq new /\ p \notin old
    BY <1>4, <1>6, <1>7
  <2>2. Cardinality(old \cup {p}) = Cardinality(old) + 1
    BY <1>5, <2>1, FS_AddElement
  <2>3. Cardinality(old \cup {p}) <= Cardinality(new)
    BY <1>5, <2>1, FS_Subset
  <2> QED
    BY <1>2, <1>5, <2>2, <2>3
<1>9. word = << >> => count <= Len(all) + (IF later THEN 1 ELSE 0)
  BY <1>1, <1>2
<1> QED
  BY <1>3, <1>8, <1>9 DEF AnswerBound, all, new


LEMMA AnswersAfter ==
    ASSUME TypeOK, AnswersInv, NEW e \in Findings(rules), NEW more \in Texts,
           runtime' = e.runtime, fired' = fired \o e.fired, transcript' = transcript \o more,
           rules' = rules, Ending => Ending',
           \A j \in DOMAIN rules : rules[j].source = "screen" =>
              \/ Untouched(runtime, e, j)
              \/ /\ Answered(rules[j].regex, runtime, transcript \o more, e, j)
                 /\ more # << >> \/ (~Ending /\ Ending')
    PROVE  \A i \in DOMAIN rules' : rules'[i].source = "screen" =>
              AnswerBound(rules'[i].regex, transcript', runtime'.cursor[i], Count(fired', i), Ending')
<1> SUFFICES ASSUME NEW j \in DOMAIN rules, rules[j].source = "screen"
             PROVE  AnswerBound(rules[j].regex, transcript', runtime'.cursor[j], Count(fired', j), Ending')
  OBVIOUS
<1> DEFINE word == rules[j].regex
           c == runtime.cursor[j]
           d == e.runtime.cursor[j]
           D == DOMAIN rules
           s == fired
           t == e.fired
           all == transcript \o more
<1>1. /\ word \in Texts /\ transcript \in Texts /\ c \in Nat /\ d \in Nat
      /\ s \in Seq(D) /\ t \in Seq(D)
  <2>1. word \in Texts /\ transcript \in Texts /\ c \in Nat /\ s \in Seq(D)
    BY DEF TypeOK, TextRules, Runtimes
  <2>2. t \in Seq(D) /\ d \in Nat
    BY DEF Findings, Runtimes
  <2> QED
    BY <2>1, <2>2
<1>2. AnswerBound(word, transcript, c, Count(s, j), Ending)
  BY DEF AnswersInv
<1>3. /\ Count(s, j) \in Nat
      /\ (\A a \in DOMAIN t : t[a] # j) => Count(s \o t, j) = Count(s, j)
      /\ (\A a, b \in DOMAIN t : t[a] = j /\ t[b] = j => a = b) =>
            Count(s \o t, j) \in Nat /\ Count(s \o t, j) <= Count(s, j) + 1
  <2> HIDE DEF D, s, t
  <2> QED
    BY <1>1, CountMore
<1>4. CASE Untouched(runtime, e, j)
  <2>1. d = c /\ \A a \in DOMAIN t : t[a] # j
    BY <1>4 DEF Untouched
  <2>2. Count(s \o t, j) = Count(s, j)
    BY <1>3, <2>1
  <2> DEFINE m == Count(s, j)
             was == Ending
             is == Ending'
  <2>3. m \in Nat /\ AnswerBound(word, transcript, c, m, was) /\ (was => is)
    BY <1>2, <1>3
  <2> HIDE DEF m, was, is, c, word
  <2>4. AnswerBound(word, transcript \o more, c, m, is)
    BY <1>1, <2>3, BoundUntouched
  <2> QED
    BY <2>1, <2>2, <2>4 DEF m, is, word
<1>5. CASE /\ Answered(word, runtime, transcript \o more, e, j)
           /\ more # << >> \/ (~Ending /\ Ending')
  <2>1. PICK p \in Nat : /\ c <= p /\ p + Len(word) = d /\ p + Len(word) <= Len(all)
                         /\ SubSeq(all, p + 1, p + Len(word)) = word
    BY <1>5 DEF Answered
  <2>2. \A a, b \in DOMAIN t : t[a] = j /\ t[b] = j => a = b
    BY <1>5 DEF Answered
  <2>3. Count(s \o t, j) \in Nat /\ Count(s \o t, j) <= Count(s, j) + 1
    BY <1>3, <2>2
  <2> DEFINE m == Count(s, j)
             k == Count(s \o t, j)
             was == Ending
             is == Ending'
  <2>4. /\ m \in Nat /\ k \in Nat /\ k <= m + 1 /\ AnswerBound(word, transcript, c, m, was) /\ (was => is)
        /\ more # << >> \/ (~was /\ is)
    BY <1>2, <1>3, <1>5, <2>3
  <2>5. d <= Len(all)
    BY <2>1
  <2> HIDE DEF m, k, was, is, c, d, word
  <2>6. AnswerBound(word, transcript \o more, d, k, is)
    BY <1>1, <2>1, <2>4, <2>5, BoundAnswered
  <2> QED
    BY <2>6 DEF k, is, word, d
<1> QED
  BY <1>4, <1>5

LEMMA AnswersInit == Init => AnswersInv
  BY DEF Init, AnswersInv

(* A step that tries no rules.                                             *)
LEMMA QuietAnswers ==
    ASSUME TypeOK, AnswersInv, UNCHANGED <<call, rules, runtime, fired, transcript>>, Ending => Ending',
           pc' = "readErr" => pc = "readErr" \/ mode = "capture"
    PROVE  AnswersInv'
<1> DEFINE e == [runtime |-> runtime, fired |-> << >>]
           none == << >>
<1>1. e.runtime = runtime /\ e.fired = none
  OBVIOUS
<1>2. /\ transcript \in Texts /\ runtime \in Runtimes(rules) /\ fired \in Seq(DOMAIN rules)
      /\ none \in Seq(DOMAIN rules) /\ none \in Texts /\ DOMAIN none = {}
  BY EmptyText DEF TypeOK
<1>3. e \in Findings(rules)
  BY <1>2 DEF Findings
<1>4. transcript \o none = transcript
  BY <1>2 DEF Texts
<1>5. fired \o none = fired
  BY <1>2
<1> HIDE DEF e, none
<1>6. \A j \in DOMAIN rules : Untouched(runtime, e, j)
  BY <1>1, <1>2 DEF Untouched
<1>7. runtime' = e.runtime /\ fired' = fired \o e.fired /\ transcript' = transcript \o none /\ rules' = rules
  BY <1>1, <1>4, <1>5
<1>8. \A i \in DOMAIN rules' : rules'[i].source = "screen" =>
         AnswerBound(rules'[i].regex, transcript', runtime'.cursor[i], Count(fired', i), Ending')
  BY <1>2, <1>3, <1>6, <1>7, AnswersAfter
<1>9. mode' = mode
  BY Frame
<1> QED
  BY <1>8, <1>9 DEF AnswersInv

LEMMA PrepareAnswers ==
    ASSUME ExecInv, ExecInv', AnswersInv, Prepare
    PROVE  AnswersInv'
<1>1. pc = "called" /\ pc' = "spawn" /\ UNCHANGED <<fired, transcript>> /\ fired \in Seq(DOMAIN rules) /\ rules = << >>
  BY DEF Prepare, ExecInv, TypeOK, LinesInv
<1>2. fired = << >>
  <2>1. fired \in Seq({})
    BY <1>1
  <2> QED
    BY <2>1
<1>3. ASSUME NEW i \in DOMAIN rules' PROVE runtime'.cursor[i] = 0
  <2> DEFINE initial == IF call.api = "rules" THEN call.table.initial ELSE "default"
  <2>1. runtime' = make_exec_rule_runtime_state(rules', initial)
    BY DEF Prepare
  <2> HIDE DEF initial
  <2> QED
    BY <2>1 DEF make_exec_rule_runtime_state
<1>4. ASSUME NEW i PROVE Count(<< >>, i) = 0
  <2>1. {a \in DOMAIN << >> : << >>[a] = i} = {}
    OBVIOUS
  <2> QED
    BY <2>1, FS_EmptySet DEF Count
<1>5. transcript \in Texts /\ Len(transcript) \in Nat
  BY DEF ExecInv, TypeOK, Texts
<1>6. ASSUME NEW i \in DOMAIN rules'
      PROVE  AnswerBound(rules'[i].regex, transcript', runtime'.cursor[i], Count(fired', i), Ending')
  <2> DEFINE word == rules'[i].regex
  <2>1. Cardinality(Found(word, transcript, 0)) \in Nat
    BY <1>5, FoundFinite
  <2> HIDE DEF word
  <2>2. AnswerBound(word, transcript, 0, 0, Ending')
    BY <1>5, <2>1 DEF AnswerBound
  <2> QED
    BY <1>1, <1>2, <1>3, <1>4, <2>2 DEF word
<1> QED
  BY <1>1, <1>6 DEF AnswersInv

LEMMA Dispatches ==
    ASSUME NEW e, NEW rest, Dispatch(e, rest)
    PROVE  runtime' = e.runtime /\ fired' = fired \o e.fired
<1>1. \A acc \in {e} : acc = e
  OBVIOUS
<1> QED
  BY <1>1, Zenon DEF Dispatch

(* The evaluation at the end of the reading.                               *)
LEMMA EndAnswers ==
    ASSUME ExecInv, AnswersInv, pc \in {"read", "readErr"}, pc' \in {"readErr", "wait"},
           pc' = "readErr" => mode = "capture",
           UNCHANGED <<call, rules, transcript>>,
           IF mode = "pty"
           THEN /\ seen' = seen \o Remainder
                /\ buffer' = << >>
                /\ Dispatch(EvaluateScreen(EvaluateLines(runtime, Remainder), << >>), out)
           ELSE UNCHANGED <<seen, buffer, runtime, fired, shown, typed, out, written>>
    PROVE  AnswersInv'
<1>1. TypeOK /\ Ending'
  BY DEF ExecInv, Ending
<1>2. CASE mode # "pty"
  BY <1>1, <1>2, QuietAnswers
<1>3. CASE mode = "pty"
  <2>1. ~Ending
    BY <1>3 DEF AnswersInv, Ending
  <2> DEFINE e == EvaluateScreen(EvaluateLines(runtime, Remainder), << >>)
             none == << >>
  <2>2. e \in Findings(rules)
    BY <1>1, FinalEvaluation
  <2>3. runtime' = e.runtime /\ fired' = fired \o e.fired
    BY <1>3, Dispatches
  <2>4. transcript \in Texts /\ none \in Texts /\ Remainder \in Seq(Texts)
    BY <1>1, RemainderType, LinesAreTexts, EmptyText DEF TypeOK
  <2>5. transcript' = transcript \o none
    BY <2>4 DEF Texts
  <2>6. ASSUME NEW j \in DOMAIN rules, rules[j].source = "screen"
        PROVE  Untouched(runtime, e, j) \/ Answered(rules[j].regex, runtime, transcript \o none, e, j)
    <3>1. runtime.cursor[j] <= Len(transcript)
      BY <2>6 DEF AnswersInv, AnswerBound
    <3> HIDE DEF none
    <3>2. e = EvaluateScreen(EvaluateLines(runtime, Remainder), none)
      BY DEF none
    <3> HIDE DEF e
    <3> QED
      BY <1>1, <2>4, <2>6, <3>1, <3>2, ScreenAnswers
  <2> HIDE DEF e, none
  <2>7. \A i \in DOMAIN rules' : rules'[i].source = "screen" =>
           AnswerBound(rules'[i].regex, transcript', runtime'.cursor[i], Count(fired', i), Ending')
    BY <1>1, <2>1, <2>2, <2>3, <2>4, <2>5, <2>6, AnswersAfter
  <2>8. pc' # "readErr"
    BY <1>3
  <2> QED
    BY <2>7, <2>8 DEF AnswersInv
<1> QED
  BY <1>2, <1>3

(* An evaluation of lines alone.                                           *)
LEMMA LineAnswers ==
    ASSUME TypeOK, AnswersInv, NEW lines \in Seq(Texts), NEW rest,
           Dispatch(EvaluateLines(runtime, lines), rest),
           UNCHANGED <<call, rules, transcript>>, Ending => Ending', pc' # "readErr"
    PROVE  AnswersInv'
<1> DEFINE e == EvaluateLines(runtime, lines)
           none == << >>
<1>1. e \in Findings(rules)
  BY EvaluateLinesType DEF TypeOK
<1>2. runtime' = e.runtime /\ fired' = fired \o e.fired
  BY Dispatches
<1>3. none \in Texts /\ transcript' = transcript \o none
  BY EmptyText DEF TypeOK, Texts
<1>4. \A j \in DOMAIN rules : rules[j].source = "screen" => Untouched(runtime, e, j)
  BY LinesLeaveScreen DEF TypeOK
<1> HIDE DEF e, none
<1>5. \A i \in DOMAIN rules' : rules'[i].source = "screen" =>
         AnswerBound(rules'[i].regex, transcript', runtime'.cursor[i], Count(fired', i), Ending')
  BY <1>1, <1>2, <1>3, <1>4, AnswersAfter
<1> QED
  BY <1>5 DEF AnswersInv

LEMMA FlushAnswers ==
    ASSUME ExecInv, AnswersInv, Flush
    PROVE  AnswersInv'
<1>1. /\ pc = "flush" /\ pc' = "returned" /\ TypeOK /\ UNCHANGED <<call, rules, transcript>>
      /\ Dispatch(EvaluateLines(runtime, Remainder), out)
  BY DEF Flush, ExecInv
<1>2. Remainder \in Seq(Texts)
  BY <1>1, RemainderType, LinesAreTexts
<1>3. Ending => Ending'
  BY <1>1 DEF Ending
<1> QED
  BY <1>1, <1>2, <1>3, LineAnswers

LEMMA ReadAnswers ==
    ASSUME ExecInv, AnswersInv, Read
    PROVE  AnswersInv'
<1>1. /\ TypeOK /\ pc = "read" /\ UNCHANGED <<call, pc, rules>>
  BY DEF Read, ExecInv
<1>2. PICK chunk \in Texts, rest \in Texts, text \in Texts :
               /\ mode # "pty" => text = chunk
               /\ ReadStep(chunk, rest, text, LineAccumulator(buffer, text),
                           EvaluateLines(runtime, LineAccumulator(buffer, text).lines))
  BY ReadIsAStep
<1> DEFINE cut == LineAccumulator(buffer, text)
           lines == cut.lines
           acc == EvaluateLines(runtime, lines)
<1>3. seen \in Seq(PlainLines) /\ buffer \in PlainLines /\ transcript \in Texts
  BY <1>1 DEF TypeOK
<1>4. lines \in Seq(Texts)
  <2>1. cut \in Cuts
    BY <1>3, LinesJoin
  <2> HIDE DEF cut
  <2>2. cut.lines \in Seq(PlainLines)
    BY <2>1 DEF Cuts
  <2> QED
    BY <2>2, LinesAreTexts
<1>5. ReadStep(chunk, rest, text, cut, acc)
  BY <1>2
<1>6. Ending => Ending'
  BY <1>1 DEF Ending
<1> HIDE DEF cut, lines, acc
<1>7. CASE ~(mode \in {"line", "pty"} /\ text # << >>)
  <2>1. UNCHANGED <<runtime, fired, transcript>>
    BY <1>5, <1>7 DEF ReadStep
  <2> QED
    BY <1>1, <1>6, <2>1, QuietAnswers
<1>8. CASE mode = "line" /\ text # << >>
  <2>1. UNCHANGED transcript /\ Dispatch(acc, rest)
    BY <1>5, <1>8 DEF ReadStep
  <2>2. Dispatch(EvaluateLines(runtime, lines), rest)
    BY <2>1 DEF acc
  <2> QED
    BY <1>1, <1>4, <1>6, <2>1, <2>2, LineAnswers
<1>9. CASE mode = "pty" /\ text # << >>
  <2> DEFINE e == EvaluateScreen(acc, text)
  <2>1. transcript' = transcript \o text /\ Dispatch(e, rest)
    BY <1>5, <1>9 DEF ReadStep
  <2>2. runtime' = e.runtime /\ fired' = fired \o e.fired
    BY <2>1, Dispatches
  <2>3. e \in Findings(rules)
    <3>1. acc \in Findings(rules)
      BY <1>1, <1>4, EvaluateLinesType DEF TypeOK, acc
    <3>2. transcript \o text \in Texts
      BY <1>3 DEF Texts
    <3> QED
      BY <1>1, <3>1, <3>2, EvaluateType DEF TypeOK, EvaluateScreen, Screen
  <2>4. ASSUME NEW j \in DOMAIN rules, rules[j].source = "screen"
        PROVE  Untouched(runtime, e, j) \/ Answered(rules[j].regex, runtime, transcript \o text, e, j)
    <3>1. runtime.cursor[j] <= Len(transcript)
      BY <2>4 DEF AnswersInv, AnswerBound
    <3>2. e = EvaluateScreen(EvaluateLines(runtime, lines), text)
      BY DEF acc
    <3> HIDE DEF e
    <3> QED
      BY <1>1, <1>4, <2>4, <3>1, <3>2, ScreenAnswers
  <2> HIDE DEF e
  <2>5. \A i \in DOMAIN rules' : rules'[i].source = "screen" =>
           AnswerBound(rules'[i].regex, transcript', runtime'.cursor[i], Count(fired', i), Ending')
    BY <1>1, <1>6, <1>9, <2>1, <2>2, <2>3, <2>4, AnswersAfter
  <2> QED
    BY <1>1, <2>5 DEF AnswersInv
<1> QED
  BY <1>7, <1>8, <1>9

LEMMA AnswersStep == ExecInv /\ ExecInv' /\ AnswersInv /\ [Next]_vars => AnswersInv'
<1> SUFFICES ASSUME ExecInv, ExecInv', AnswersInv, [Next]_vars PROVE AnswersInv'
  OBVIOUS
<1>1. TypeOK
  BY DEF ExecInv
<1>2. CASE denyExecution \/ RejectRules \/ Spawn \/ SpawnFails \/ ReadErrors \/ Wait \/ WaitFails
  <2>1. UNCHANGED <<call, rules, runtime, fired, transcript>>
    BY <1>2 DEF denyExecution, RejectRules, Spawn, SpawnFails, ReadErrors, Wait, WaitFails, host
  <2>2. (Ending => Ending') /\ (pc' = "readErr" => pc = "readErr")
    BY <1>2 DEF denyExecution, RejectRules, Spawn, SpawnFails, ReadErrors, Wait, WaitFails, AfterWait, Ending
  <2> QED
    BY <1>1, <2>1, <2>2, QuietAnswers
<1>3. CASE Child \/ UNCHANGED vars
  <2>1. UNCHANGED <<call, rules, runtime, fired, transcript, pc>>
    BY <1>3 DEF Child, ChildWrites, ChildReads, ChildExits, ChildKilled, host, vars
  <2>2. Ending => Ending'
    BY <2>1 DEF Ending
  <2> QED
    BY <1>1, <2>1, <2>2, QuietAnswers
<1>4. CASE Prepare
  BY <1>4, PrepareAnswers
<1>5. CASE Read
  BY <1>5, ReadAnswers
<1>6. CASE ReadEnds \/ ReadFails
  BY <1>6, EndAnswers DEF ReadEnds, ReadFails
<1>7. CASE Flush
  BY <1>7, FlushAnswers
<1> QED
  BY <1>2, <1>3, <1>4, <1>5, <1>6, <1>7 DEF Next, Host, Fault

(* A rule that looks at the screen has fired no more often than what it    *)
(* looks for was shown, however the prompts were cut into chunks.          *)
THEOREM NotAnsweredTwice == Spec => []NeverAnsweredTwice
<1>1. ExecInv /\ AnswersInv => NeverAnsweredTwice
  <2> SUFFICES ASSUME ExecInv, AnswersInv, NEW j \in DOMAIN rules, rules[j].source = "screen"
               PROVE  Cardinality({k \in DOMAIN fired : fired[k] = j})
                         <= Occurrences(rules[j].regex, transcript)
    BY DEF NeverAnsweredTwice
  <2> DEFINE word == rules[j].regex
             c == runtime.cursor[j]
             m == Count(fired, j)
             all == {k \in 0..Len(transcript) : /\ k + Len(word) <= Len(transcript)
                                                /\ SubSeq(transcript, k + 1, k + Len(word)) = word}
             D == DOMAIN rules
  <2>1. word \in Texts /\ transcript \in Texts /\ c \in Nat /\ Len(transcript) \in Nat /\ Len(word) \in Nat
    BY DEF ExecInv, TypeOK, TextRules, Runtimes, Texts
  <2>2. AnswerBound(word, transcript, c, m, Ending)
    BY DEF AnswersInv
  <2>3. m \in Nat
    <3>1. fired \in Seq(D)
      BY DEF ExecInv, TypeOK
    <3> HIDE DEF D
    <3> QED
      BY <3>1, CountMore
  <2>4. Occurrences(word, transcript) = Cardinality(all) /\ m = Cardinality({k \in DOMAIN fired : fired[k] = j})
    BY DEF Occurrences, Count
  <2>5. IsFiniteSet(all) /\ Cardinality(all) \in Nat
    <3>1. IsFiniteSet(0..Len(transcript)) /\ all \subseteq 0..Len(transcript)
      BY <2>1, FS_Interval
    <3>2. IsFiniteSet(all)
      BY <3>1, FS_Subset
    <3> QED
      BY <3>2, FS_CardinalityType
  <2> HIDE DEF word, c, m
  <2>6. CASE word # << >>
    <3> DEFINE found == Found(word, transcript, c)
    <3>1. found \subseteq all
      BY <2>1, <2>2 DEF Found, AnswerBound
    <3>2. m <= Cardinality(found) /\ Cardinality(found) \in Nat
      BY <2>1, <2>2, <2>6, FoundFinite DEF AnswerBound
    <3> HIDE DEF found, all
    <3>3. Cardinality(found) <= Cardinality(all)
      BY <2>5, <3>1, FS_Subset
    <3>4. m <= Cardinality(all)
      BY <2>3, <2>5, <3>2, <3>3
    <3> QED
      BY <2>4, <3>4 DEF word
  <2>7. CASE word = << >>
    <3>1. m <= Len(transcript) + 1
      BY <2>1, <2>2, <2>3, <2>7 DEF AnswerBound
    <3>2. all = 0..Len(transcript)
      <4>1. Len(word) = 0
        BY <2>7
      <4>2. \A k \in 0..Len(transcript) : SubSeq(transcript, k + 1, k + 0) = << >>
        BY <2>1 DEF Texts
      <4> QED
        BY <2>1, <2>7, <4>1, <4>2
    <3> HIDE DEF all
    <3>3. Cardinality(all) = Len(transcript) + 1
      BY <2>1, <3>2, FS_Interval
    <3>4. m <= Cardinality(all)
      BY <3>1, <3>3
    <3> QED
      BY <2>4, <3>4 DEF word
  <2> QED
    BY <2>6, <2>7
<1>2. Spec => []AnswersInv
  BY AnswersInit, AnswersStep, ExecInvariant, PTL DEF Spec
<1> QED
  BY <1>1, <1>2, ExecInvariant, PTL

-----------------------------------------------------------------------------
(* Lines on a terminal.                                                    *)

(* What holds of nothing, and of a prefix when it holds of the one before, *)
(* holds of all.                                                           *)
LEMMA EveryPrefix ==
    ASSUME NEW n \in Nat, NEW S \in SUBSET (0..n), 0 \in S,
           \A k \in 1..n : k - 1 \in S => k \in S
    PROVE  S = 0..n
<1> DEFINE T == {k \in 0..n : k \notin S}
<1> SUFFICES ASSUME T # {} PROVE FALSE
  OBVIOUS
<1>1. T \in SUBSET Nat
  OBVIOUS
<1>2. PICK k \in T : \A m \in T : k <= m
  BY <1>1, LeastNumber
<1>3. k \in 1..n /\ k - 1 \in 0..n /\ ~(k <= k - 1)
  BY <1>2
<1>4. k - 1 \in S
  BY <1>2, <1>3
<1> QED
  BY <1>2, <1>3, <1>4

(* Each element replaced by the sequence that M gives for it.              *)
Flat(s, M) == Flatten([k \in DOMAIN s |-> M[s[k]]])

LEMMA FlatPieces ==
    ASSUME NEW A, NEW B, NEW M \in [A -> Seq(B)], NEW s \in Seq(A)
    PROVE  [k \in DOMAIN s |-> M[s[k]]] \in Seq(Seq(B))
<1> DEFINE t == [k \in DOMAIN s |-> M[s[k]]]
           Q == Seq(B)
<1>1. DOMAIN s = 1..Len(s) /\ Len(s) \in Nat /\ \A k \in 1..Len(s) : s[k] \in A
  OBVIOUS
<1>2. M \in [A -> Q]
  OBVIOUS
<1> HIDE DEF Q
<1>3. \A k \in 1..Len(s) : t[k] \in Q
  BY <1>1, <1>2
<1>4. t = [k \in 1..Len(s) |-> t[k]]
  BY <1>1
<1> HIDE DEF t
<1>5. t \in Seq(Q)
  BY <1>1, <1>3, <1>4
<1> QED
  BY <1>5 DEF t, Q

LEMMA FlatType ==
    ASSUME NEW A, NEW B, NEW M \in [A -> Seq(B)], NEW s \in Seq(A)
    PROVE  Flat(s, M) \in Seq(B)
<1> DEFINE t == [k \in DOMAIN s |-> M[s[k]]]
<1>1. t \in Seq(Seq(B))
  BY FlatPieces
<1> HIDE DEF t
<1>2. Flatten(t) \in Seq(B)
  BY <1>1, FlattenType
<1> QED
  BY <1>2 DEF t, Flat

LEMMA FlatNothing ==
    ASSUME NEW M
    PROVE  Flat(<< >>, M) = << >>
<1> DEFINE s == [k \in DOMAIN << >> |-> M[<< >>[k]]]
<1>1. s = << >>
  OBVIOUS
<1>2. << >> \in Seq(Seq(Symbols)) /\ Len(<< >>) = 0 /\ 0 \in 0..0
  OBVIOUS
<1>3. PICK g \in [0..0 -> Seq(Symbols)] : g[0] = << >> /\ Flatten(<< >>) = g[0]
  BY <1>2, FlattenSteps, ZenonT(60)
<1>4. Flat(<< >>, M) = Flatten(s)
  BY DEF Flat
<1> QED
  BY <1>1, <1>3, <1>4

LEMMA FlatAppend ==
    ASSUME NEW A, NEW B, NEW M \in [A -> Seq(B)], NEW s \in Seq(A), NEW x \in A
    PROVE  Flat(Append(s, x), M) = Flat(s, M) \o M[x]
<1> DEFINE Q == Seq(B)
           n == Len(s)
           more == Append(s, x)
           t == [k \in DOMAIN s |-> M[s[k]]]
           u == [k \in DOMAIN more |-> M[more[k]]]
           y == M[x]
           v == Append(t, y)
<1>1. t \in Seq(Q) /\ y \in Q
  BY FlatPieces
<1>2. /\ n \in Nat /\ DOMAIN s = 1..n /\ DOMAIN more = 1..(n + 1)
      /\ more[n + 1] = x /\ \A k \in 1..n : more[k] = s[k]
  OBVIOUS
<1>3. DOMAIN t = 1..n /\ \A k \in 1..n : t[k] = M[s[k]]
  BY <1>2
<1>4. DOMAIN u = 1..(n + 1) /\ u[n + 1] = y /\ \A k \in 1..n : u[k] = M[s[k]]
  <2> HIDE DEF more
  <2> QED
    BY <1>2
<1>5. u = [k \in 1..(n + 1) |-> u[k]]
  BY <1>4
<1> HIDE DEF t, u, y, Q, n, more
<1>6. Len(t) = n
  BY <1>1, <1>2, <1>3
<1>7. v \in Seq(Q) /\ Len(v) = n + 1 /\ v[n + 1] = y /\ \A k \in 1..n : v[k] = t[k]
  BY <1>1, <1>6
<1> HIDE DEF v
<1>8. v = [k \in 1..(n + 1) |-> v[k]]
  BY <1>7
<1>9. \A k \in 1..(n + 1) : k = n + 1 \/ k \in 1..n
  BY <1>2
<1>10. \A k \in 1..(n + 1) : u[k] = v[k]
  BY <1>3, <1>4, <1>7, <1>9
<1>11. u = v
  BY <1>5, <1>8, <1>10
<1>12. Flatten(v) = Flatten(t) \o y
  BY <1>1, FlattenAppend DEF v, Q
<1> QED
  BY <1>11, <1>12 DEF Flat, t, u, y, more

LEMMA FlatConcat ==
    ASSUME NEW A, NEW B, NEW M \in [A -> Seq(B)], NEW s \in Seq(A), NEW t \in Seq(A)
    PROVE  Flat(s \o t, M) = Flat(s, M) \o Flat(t, M)
<1> DEFINE n == Len(t)
           part(k) == SubSeq(t, 1, k)
           Good(k) == Flat(s \o part(k), M) = Flat(s, M) \o Flat(part(k), M)
           S == {k \in 0..n : Good(k)}
<1>1. /\ n \in Nat /\ part(0) = << >> /\ part(n) = t
      /\ \A k \in 1..n : t[k] \in A /\ part(k) = Append(part(k - 1), t[k]) /\ k - 1 \in 0..n /\ k \in 0..n
      /\ \A k \in 0..n : part(k) \in Seq(A)
      /\ 0 \in 0..n /\ n \in 0..n
  BY PrefixLengths
<1> HIDE DEF part, n
<1>2. Flat(s, M) \in Seq(B)
  BY FlatType
<1>3. Good(0)
  <2>1. s \o << >> = s
    OBVIOUS
  <2>2. Flat(s, M) \o << >> = Flat(s, M)
    BY <1>2
  <2>3. Flat(<< >>, M) = << >>
    BY FlatNothing
  <2>4. Flat(s \o << >>, M) = Flat(s, M) \o Flat(<< >>, M)
    BY <2>1, <2>2, <2>3
  <2> QED
    BY <1>1, <2>4
<1>4. ASSUME NEW k \in 1..n, Good(k - 1) PROVE Good(k)
  <2> DEFINE p == part(k - 1)
             c == t[k]
             a == Flat(s, M)
             b == Flat(p, M)
             x == M[c]
             sp == s \o p
  <2>1. p \in Seq(A) /\ c \in A /\ part(k) = Append(p, c)
    BY <1>1
  <2>2. Flat(sp, M) = a \o b
    BY <1>4
  <2> HIDE DEF p, c
  <2>3. b \in Seq(B) /\ x \in Seq(B) /\ Flat(Append(p, c), M) = b \o x
    BY <2>1, FlatType, FlatAppend
  <2>4. s \o Append(p, c) = Append(sp, c) /\ sp \in Seq(A)
    BY <2>1
  <2> HIDE DEF sp
  <2>5. Flat(Append(sp, c), M) = Flat(sp, M) \o x
    BY <2>1, <2>4, FlatAppend
  <2>6. a \in Seq(B)
    BY <1>2
  <2> HIDE DEF a, b, x
  <2>7. (a \o b) \o x = a \o (b \o x)
    BY <2>3, <2>6
  <2>8. Flat(s \o part(k), M) = a \o Flat(part(k), M)
    BY <2>1, <2>2, <2>3, <2>4, <2>5, <2>7
  <2> QED
    BY <2>8 DEF a
<1> HIDE DEF Good
<1>5. S \in SUBSET (0..n) /\ 0 \in S /\ \A k \in 1..n : k - 1 \in S => k \in S
  BY <1>1, <1>3, <1>4
<1> HIDE DEF S
<1>6. S = 0..n
  BY <1>1, <1>5, EveryPrefix
<1>7. Good(n)
  BY <1>1, <1>6 DEF S
<1> QED
  BY <1>1, <1>7 DEF Good

(* What a terminal carries, of programs and answers without control        *)
(* symbols: each newline behind a carriage return, each carriage return    *)
(* behind text and before a newline.                                       *)
Terminal(w) ==
    \A i \in 1..Len(w) :
        /\ w[i] \notin {BS, BEL, ESC}
        /\ w[i] = LF => i > 1 /\ w[i - 1] = CR
        /\ w[i] = CR => i > 1 /\ i < Len(w) /\ w[i - 1] \notin {CR, LF} /\ w[i + 1] = LF

LEMMA TerminalConcat ==
    ASSUME NEW a \in Texts, NEW b \in Texts, Terminal(a), Terminal(b)
    PROVE  Terminal(a \o b)
<1> DEFINE w == a \o b
           m == Len(a)
           n == Len(b)
<1>1. /\ m \in Nat /\ n \in Nat /\ Len(w) = m + n
      /\ \A i \in 1..m : w[i] = a[i]
      /\ \A i \in 1..n : w[m + i] = b[i]
  BY DEF Texts
<1>2. /\ \A i \in 1..m : /\ a[i] \notin {BS, BEL, ESC}
                         /\ a[i] = LF => i > 1 /\ a[i - 1] = CR
                         /\ a[i] = CR => i > 1 /\ i < m /\ a[i - 1] \notin {CR, LF} /\ a[i + 1] = LF
      /\ \A i \in 1..n : /\ b[i] \notin {BS, BEL, ESC}
                         /\ b[i] = LF => i > 1 /\ b[i - 1] = CR
                         /\ b[i] = CR => i > 1 /\ i < n /\ b[i - 1] \notin {CR, LF} /\ b[i + 1] = LF
  BY DEF Terminal
<1> HIDE DEF w, m, n
<1>3. ASSUME NEW i \in 1..(m + n)
      PROVE  /\ w[i] \notin {BS, BEL, ESC}
             /\ w[i] = LF => i > 1 /\ w[i - 1] = CR
             /\ w[i] = CR => i > 1 /\ i < m + n /\ w[i - 1] \notin {CR, LF} /\ w[i + 1] = LF
  <2>1. CASE i \in 1..m
    <3>1. w[i] = a[i] /\ (i > 1 => w[i - 1] = a[i - 1]) /\ (i < m => w[i + 1] = a[i + 1])
      BY <1>1, <2>1
    <3> QED
      BY <1>1, <1>2, <2>1, <3>1
  <2>2. CASE i \notin 1..m
    <3> DEFINE j == i - m
    <3>1. j \in 1..n /\ i = m + j /\ (j > 1 => i - 1 = m + (j - 1)) /\ (j < n => i + 1 = m + (j + 1))
      BY <1>1, <2>2
    <3>2. w[i] = b[j] /\ (j > 1 => w[i - 1] = b[j - 1]) /\ (j < n => w[i + 1] = b[j + 1])
      <4> HIDE DEF j
      <4>1. (j > 1 => j - 1 \in 1..n) /\ (j < n => j + 1 \in 1..n)
        BY <1>1, <3>1
      <4> QED
        BY <1>1, <3>1, <4>1
    <3> HIDE DEF j
    <3> QED
      BY <1>1, <1>2, <3>1, <3>2
  <2> QED
    BY <2>1, <2>2
<1> QED
  BY <1>1, <1>3 DEF Terminal, w

LEMMA TerminalNothing == Terminal(<< >>)
  BY DEF Terminal

LEMMA TerminalSymbol ==
    ASSUME NEW c, c \notin {LF, CR, BS, BEL, ESC}
    PROVE  Terminal(<<c>>) /\ Terminal(<<c, CR, LF>>)
<1>1. Terminal(<<c>>)
  BY DEF Terminal
<1>2. Terminal(<<c, CR, LF>>)
  BY DEF Terminal, CR, LF, BS, BEL, ESC
<1> QED
  BY <1>1, <1>2

(* What a plain program writes becomes such a text.                        *)
PlainText(text) ==
    \A i \in 1..Len(text) : /\ text[i] \notin {CR, BS, BEL, ESC}
                            /\ text[i] = LF => i > 1 /\ text[i - 1] # LF

LEMMA TerminalEnding ==
    ASSUME NEW a \in Texts, Terminal(a), a # << >>, a[Len(a)] # LF
    PROVE  Terminal(a \o <<CR, LF>>)
<1> DEFINE m == Len(a)
           w == a \o <<CR, LF>>
<1>1. /\ m \in Nat \ {0} /\ Len(w) = m + 2
      /\ \A i \in 1..m : w[i] = a[i]
      /\ w[m + 1] = CR /\ w[m + 2] = LF
  BY DEF Texts
<1>2. \A i \in 1..m : /\ a[i] \notin {BS, BEL, ESC}
                      /\ a[i] = LF => i > 1 /\ a[i - 1] = CR
                      /\ a[i] = CR => i > 1 /\ i < m /\ a[i - 1] \notin {CR, LF} /\ a[i + 1] = LF
  BY DEF Terminal
<1>3. a[m] \notin {CR, LF}
  BY <1>1, <1>2
<1> HIDE DEF w, m
<1>4. ASSUME NEW i \in 1..(m + 2)
      PROVE  /\ w[i] \notin {BS, BEL, ESC}
             /\ w[i] = LF => i > 1 /\ w[i - 1] = CR
             /\ w[i] = CR => i > 1 /\ i < m + 2 /\ w[i - 1] \notin {CR, LF} /\ w[i + 1] = LF
  <2>1. CASE i \in 1..m
    <3>1. w[i] = a[i] /\ (i > 1 => w[i - 1] = a[i - 1]) /\ (i < m => w[i + 1] = a[i + 1])
      BY <1>1, <2>1
    <3> QED
      BY <1>1, <1>2, <2>1, <3>1
  <2>2. CASE i = m + 1
    <3>1. w[i] = CR /\ w[i - 1] = a[m] /\ w[i + 1] = LF /\ i > 1
      BY <1>1, <2>2
    <3> QED
      BY <1>1, <1>3, <2>2, <3>1 DEF CR, LF, BS, BEL, ESC
  <2>3. CASE i = m + 2
    <3>1. w[i] = LF /\ w[i - 1] = CR /\ i > 1
      BY <1>1, <2>3
    <3> QED
      BY <3>1 DEF CR, LF, BS, BEL, ESC
  <2> QED
    BY <1>1, <2>1, <2>2, <2>3
<1> QED
  BY <1>1, <1>4 DEF Terminal, w

LEMMA TerminalProgram ==
    ASSUME NEW text \in Texts, PlainText(text)
    PROVE  Terminal(OnTheTerminal(text))
<1> DEFINE n == Len(text)
           M == [c \in Symbols |-> IF c = LF THEN <<CR, LF>> ELSE <<c>>]
           part(k) == SubSeq(text, 1, k)
           shows(k) == Flat(part(k), M)
           Good(k) == /\ Terminal(shows(k))
                      /\ k > 0 => shows(k) # << >> /\ (shows(k)[Len(shows(k))] = LF => text[k] = LF)
           S == {k \in 0..n : Good(k)}
<1>1. /\ n \in Nat /\ part(0) = << >> /\ part(n) = text
      /\ \A k \in 1..n : /\ text[k] \in Symbols /\ part(k) = Append(part(k - 1), text[k])
                         /\ k - 1 \in 0..n /\ k \in 0..n
      /\ \A k \in 0..n : part(k) \in Seq(Symbols)
      /\ 0 \in 0..n /\ n \in 0..n
  BY PrefixLengths DEF Texts
<1>2. \A i \in 1..n : text[i] \notin {CR, BS, BEL, ESC} /\ (text[i] = LF => i > 1 /\ text[i - 1] # LF)
  BY DEF PlainText
<1>3. M \in [Symbols -> Seq(Symbols)] /\ \A c \in Symbols : M[c] = IF c = LF THEN <<CR, LF>> ELSE <<c>>
  <2>1. CR \in Symbols /\ LF \in Symbols
    BY DEF Symbols
  <2>2. <<CR, LF>> \in Seq(Symbols) /\ \A c \in Symbols : <<c>> \in Seq(Symbols)
    BY <2>1
  <2> QED
    BY <2>2
<1>4. OnTheTerminal(text) = Flat(text, M)
  <2>1. \A k \in DOMAIN text : M[text[k]] = IF text[k] = LF THEN <<CR, LF>> ELSE <<text[k]>>
    BY <1>1, <1>3 DEF Texts
  <2> HIDE DEF M
  <2>2. [k \in DOMAIN text |-> M[text[k]]] = [k \in DOMAIN text |-> IF text[k] = LF THEN <<CR, LF>> ELSE <<text[k]>>]
    BY <2>1
  <2> QED
    BY <2>2 DEF OnTheTerminal, Flat
<1> HIDE DEF M, part, n
<1>5. \A k \in 0..n : shows(k) \in Texts
  BY <1>1, <1>3, FlatType DEF Texts
<1>6. Good(0)
  BY <1>1, FlatNothing, TerminalNothing
<1>7. ASSUME NEW k \in 1..n, Good(k - 1) PROVE Good(k)
  <2> DEFINE c == text[k]
             a == shows(k - 1)
  <2>1. a \in Texts /\ c \in Symbols /\ Terminal(a) /\ shows(k) = a \o M[c]
    <3> DEFINE p == part(k - 1)
    <3>1. p \in Seq(Symbols) /\ c \in Symbols /\ part(k) = Append(p, c)
      BY <1>1
    <3>2. a \in Texts /\ Terminal(a) /\ a = Flat(p, M)
      BY <1>1, <1>5, <1>7
    <3> HIDE DEF p, c, a
    <3>3. Flat(Append(p, c), M) = Flat(p, M) \o M[c]
      BY <1>3, <3>1, FlatAppend
    <3> QED
      BY <3>1, <3>2, <3>3
  <2>2. c \notin {CR, BS, BEL, ESC} /\ (c = LF => k > 1 /\ text[k - 1] # LF)
    BY <1>2
  <2>3. c = LF => a # << >> /\ a[Len(a)] # LF
    BY <1>7, <2>2
  <2> HIDE DEF a, shows
  <2>4. CASE c = LF
    <3>1. shows(k) = a \o <<CR, LF>>
      BY <1>3, <2>1, <2>4
    <3>2. Terminal(shows(k))
      BY <2>1, <2>3, <2>4, <3>1, TerminalEnding
    <3>3. shows(k) # << >>
      BY <2>1, <3>1 DEF Texts
    <3> QED
      BY <2>4, <3>2, <3>3
  <2>5. CASE c # LF
    <3> HIDE DEF c
    <3>1. shows(k) = a \o <<c>>
      BY <1>3, <2>1, <2>5
    <3>2. Terminal(<<c>>) /\ <<c>> \in Texts
      <4>1. c \notin {LF, CR, BS, BEL, ESC}
        BY <2>2, <2>5
      <4>2. Terminal(<<c>>)
        BY <4>1, TerminalSymbol
      <4> QED
        BY <2>1, <4>2 DEF Texts
    <3>3. Terminal(a \o <<c>>)
      BY <2>1, <3>2, TerminalConcat
    <3>4. a \o <<c>> # << >> /\ (a \o <<c>>)[Len(a \o <<c>>)] = c
      BY <2>1 DEF Texts
    <3> QED
      BY <2>5, <3>1, <3>3, <3>4
  <2> QED
    BY <2>4, <2>5
<1> HIDE DEF Good
<1>8. S \in SUBSET (0..n) /\ 0 \in S /\ \A k \in 1..n : k - 1 \in S => k \in S
  BY <1>1, <1>6, <1>7
<1> HIDE DEF S
<1>9. S = 0..n
  BY <1>1, <1>8, EveryPrefix
<1>10. Good(n)
  BY <1>1, <1>9 DEF S
<1> QED
  BY <1>1, <1>4, <1>10 DEF Good

(* So does the echo of plain answers.                                      *)
LEMMA TerminalEcho ==
    ASSUME NEW sent \in Texts, \A i \in 1..Len(sent) : sent[i] \notin {LF, CR, BS, BEL, ESC}
    PROVE  Terminal(Echo(sent))
<1> DEFINE n == Len(sent)
           M == [c \in Symbols |-> <<c, CR, LF>>]
           part(k) == SubSeq(sent, 1, k)
           shows(k) == Flat(part(k), M)
           Good(k) == Terminal(shows(k))
           S == {k \in 0..n : Good(k)}
<1>1. /\ n \in Nat /\ part(0) = << >> /\ part(n) = sent
      /\ \A k \in 1..n : /\ sent[k] \in Symbols /\ part(k) = Append(part(k - 1), sent[k])
                         /\ k - 1 \in 0..n /\ k \in 0..n
      /\ \A k \in 0..n : part(k) \in Seq(Symbols)
      /\ 0 \in 0..n /\ n \in 0..n
  BY PrefixLengths DEF Texts
<1>3. M \in [Symbols -> Seq(Symbols)] /\ \A c \in Symbols : M[c] = <<c, CR, LF>>
  <2>1. CR \in Symbols /\ LF \in Symbols
    BY DEF Symbols
  <2>2. \A c \in Symbols : <<c, CR, LF>> \in Seq(Symbols)
    BY <2>1
  <2> QED
    BY <2>2
<1>4. Echo(sent) = Flat(sent, M)
  <2>1. \A k \in DOMAIN sent : M[sent[k]] = <<sent[k], CR, LF>>
    BY <1>1, <1>3 DEF Texts
  <2> HIDE DEF M
  <2>2. [k \in DOMAIN sent |-> M[sent[k]]] = [k \in DOMAIN sent |-> <<sent[k], CR, LF>>]
    BY <2>1
  <2> QED
    BY <2>2 DEF Echo, Flat
<1>5. \A k \in 1..n : sent[k] \notin {LF, CR, BS, BEL, ESC}
  OBVIOUS
<1> HIDE DEF M, part, n
<1>6. \A k \in 0..n : shows(k) \in Texts
  BY <1>1, <1>3, FlatType DEF Texts
<1>7. Good(0)
  BY <1>1, FlatNothing, TerminalNothing
<1>8. ASSUME NEW k \in 1..n, Good(k - 1) PROVE Good(k)
  <2> DEFINE c == sent[k]
             a == shows(k - 1)
             x == M[c]
  <2>1. a \in Texts /\ c \in Symbols /\ Terminal(a) /\ shows(k) = a \o x
    <3> DEFINE p == part(k - 1)
    <3>1. p \in Seq(Symbols) /\ c \in Symbols /\ part(k) = Append(p, c)
      BY <1>1
    <3>2. a \in Texts /\ Terminal(a) /\ a = Flat(p, M)
      BY <1>1, <1>6, <1>8
    <3> HIDE DEF p, c, a
    <3>3. Flat(Append(p, c), M) = Flat(p, M) \o M[c]
      BY <1>3, <3>1, FlatAppend
    <3> QED
      BY <3>1, <3>2, <3>3
  <2>2. x \in Texts /\ x = <<c, CR, LF>> /\ c \notin {LF, CR, BS, BEL, ESC}
    BY <1>3, <1>5, <2>1 DEF Texts
  <2>3. Terminal(x)
    <3> HIDE DEF c, x
    <3> QED
      BY <2>2, TerminalSymbol
  <2> HIDE DEF a, x
  <2> QED
    BY <2>1, <2>2, <2>3, TerminalConcat
<1> HIDE DEF Good
<1>9. S \in SUBSET (0..n) /\ 0 \in S /\ \A k \in 1..n : k - 1 \in S => k \in S
  BY <1>1, <1>7, <1>8
<1> HIDE DEF S
<1>10. S = 0..n
  BY <1>1, <1>9, EveryPrefix
<1>11. Good(n)
  BY <1>1, <1>10 DEF S
<1> QED
  BY <1>1, <1>4, <1>11 DEF Good

(* What the host makes of such a text: the carriage return ends the line,  *)
(* the newline behind it is dropped.                                       *)
ShownAs == [c \in Symbols |-> IF c = CR THEN <<LF>> ELSE IF c = LF THEN << >> ELSE <<c>>]

Visible(text) == Flat(text, ShownAs)

LEMMA ShownAsType ==
    /\ ShownAs \in [Symbols -> Seq(Symbols)]
    /\ \A c \in Symbols : ShownAs[c] = IF c = CR THEN <<LF>> ELSE IF c = LF THEN << >> ELSE <<c>>
<1>1. LF \in Symbols
  BY DEF Symbols
<1>2. <<LF>> \in Seq(Symbols) /\ << >> \in Seq(Symbols) /\ \A c \in Symbols : <<c>> \in Seq(Symbols)
  BY <1>1
<1> QED
  BY <1>2 DEF ShownAs

LEMMA VisibleAppend ==
    ASSUME NEW text \in Texts, NEW c \in Symbols
    PROVE  /\ Visible(text) \in Texts
           /\ c = CR => Visible(Append(text, c)) = Append(Visible(text), LF)
           /\ c = LF => Visible(Append(text, c)) = Visible(text)
           /\ c \notin {CR, LF} => Visible(Append(text, c)) = Append(Visible(text), c)
<1> DEFINE v == Visible(text)
           x == ShownAs[c]
<1>1. text \in Seq(Symbols)
  BY DEF Texts
<1>2. v \in Seq(Symbols)
  BY <1>1, ShownAsType, FlatType DEF Visible
<1>3. Visible(Append(text, c)) = v \o x
  BY <1>1, ShownAsType, FlatAppend DEF Visible
<1>4. x = IF c = CR THEN <<LF>> ELSE IF c = LF THEN << >> ELSE <<c>>
  BY ShownAsType
<1>5. CR # LF
  BY DEF CR, LF
<1> HIDE DEF v, x
<1>6. v \o <<LF>> = Append(v, LF) /\ v \o << >> = v /\ v \o <<c>> = Append(v, c)
  BY <1>2
<1> QED
  BY <1>2, <1>3, <1>4, <1>5, <1>6 DEF v, Texts

(* A chunk of such a text: it may begin with the newline of a carriage     *)
(* return that was read before.                                            *)
TerminalChunk(c) ==
    \A i \in 1..Len(c) : /\ c[i] \notin {BS, BEL, ESC}
                         /\ i > 1 /\ c[i] = LF => c[i - 1] = CR
                         /\ i > 1 /\ c[i] = CR => c[i - 1] \notin {CR, LF}

LEMMA NormalizePlain ==
    ASSUME NEW s \in Cleanings, s.at \in {"text", "cr"}, NEW c \in Symbols, c \notin {BS, BEL, ESC}
    PROVE  /\ c = LF /\ s.at = "cr" => NormalizeSymbol(s, c) = [at |-> "text", text |-> s.text]
           /\ c = CR => NormalizeSymbol(s, c) = [at |-> "cr", text |-> Append(s.text, LF)]
           /\ c # CR /\ ~(c = LF /\ s.at = "cr") =>
                 NormalizeSymbol(s, c) = [at |-> "text", text |-> Append(s.text, c)]
<1>1. s = [at |-> s.at, text |-> s.text]
  BY DEF Cleanings
<1>2. CR # LF
  BY DEF CR, LF
<1>3. s.at \notin {"esc", "csi", "osc", "oscEsc"}
  OBVIOUS
<1>4. CASE c = LF /\ s.at = "cr"
  <2>1. NormalizeSymbol(s, c) = [s EXCEPT !.at = "text"]
    BY <1>2, <1>3, <1>4 DEF NormalizeSymbol
  <2> QED
    BY <1>1, <1>2, <1>4, <2>1
<1>5. CASE c = CR
  <2>1. NormalizeSymbol(s, c) = [at |-> "cr", text |-> Append(s.text, LF)]
    BY <1>2, <1>3, <1>5 DEF NormalizeSymbol
  <2> QED
    BY <1>2, <1>5, <2>1
<1>6. CASE c # CR /\ ~(c = LF /\ s.at = "cr")
  <2>1. NormalizeSymbol(s, c) = [at |-> "text", text |-> Append(s.text, c)]
    BY <1>3, <1>6 DEF NormalizeSymbol
  <2> QED
    BY <1>6, <2>1
<1> QED
  BY <1>4, <1>5, <1>6

(* No empty line.                                                          *)
NoDouble(t) == \A i \in 1..Len(t) : i > 1 /\ t[i] = LF => t[i - 1] # LF

LEMMA AppendLast ==
    ASSUME NEW t \in Texts, NEW c \in Symbols
    PROVE  /\ Append(t, c) \in Texts /\ Append(t, c) # << >> /\ Append(t, c)[Len(Append(t, c))] = c
           /\ Append(t, c)[1] = IF t = << >> THEN c ELSE t[1]
           /\ NoDouble(t) /\ (t = << >> \/ c # LF \/ t[Len(t)] # LF) => NoDouble(Append(t, c))
<1> DEFINE u == Append(t, c)
           n == Len(t)
<1>1. /\ n \in Nat /\ u \in Texts /\ Len(u) = n + 1 /\ u[n + 1] = c
      /\ \A i \in 1..n : u[i] = t[i]
      /\ t = << >> <=> n = 0
  BY DEF Texts
<1> HIDE DEF u, n
<1>2. u # << >>
  BY <1>1
<1>3. u[1] = IF t = << >> THEN c ELSE t[1]
  BY <1>1
<1>4. ASSUME NoDouble(t), t = << >> \/ c # LF \/ t[n] # LF, NEW i \in 1..(n + 1), i > 1, u[i] = LF
      PROVE  u[i - 1] # LF
  <2>1. CASE i = n + 1
    BY <1>1, <1>4, <2>1
  <2>2. CASE i # n + 1
    <3>1. i \in 1..n /\ i - 1 \in 1..n
      BY <1>1, <1>4, <2>2
    <3>2. t[i] = LF => t[i - 1] # LF
      BY <1>4, <3>1 DEF NoDouble, n
    <3> QED
      BY <1>1, <1>4, <3>1, <3>2
  <2> QED
    BY <2>1, <2>2
<1>5. NoDouble(t) /\ (t = << >> \/ c # LF \/ t[n] # LF) => NoDouble(u)
  BY <1>1, <1>4 DEF NoDouble
<1> QED
  BY <1>1, <1>2, <1>3, <1>5 DEF u, n

(* A chunk becomes what is visible of it, after an empty line when it      *)
(* begins with a newline.                                                  *)
LeadIn(chunk) == IF chunk # << >> /\ chunk[1] = LF THEN <<LF>> ELSE << >>

LEMMA NormalizeTerminal ==
    ASSUME NEW chunk \in Texts, TerminalChunk(chunk), chunk # << >>
    PROVE  LET t == normalize_exec_rule_pty_chunk(chunk)
           IN  /\ t = LeadIn(chunk) \o Visible(chunk) /\ NoDouble(t) /\ t # << >>
               /\ t[1] = LF <=> chunk[1] \in {CR, LF}
               /\ t[Len(t)] = LF <=> chunk[Len(chunk)] \in {CR, LF}
<1> DEFINE n == Len(chunk)
           part(k) == SubSeq(chunk, 1, k)
<1>1. /\ n \in Nat \ {0} /\ part(0) = << >> /\ part(n) = chunk
      /\ \A k \in 1..n : /\ chunk[k] \in Symbols /\ part(k) = Append(part(k - 1), chunk[k])
                         /\ k - 1 \in 0..n /\ k \in 0..n
      /\ \A k \in 0..n : part(k) \in Texts
      /\ 0 \in 0..n /\ n \in 0..n
  BY PrefixLengths DEF Texts
<1>2. \A i \in 1..n : /\ chunk[i] \notin {BS, BEL, ESC}
                      /\ i > 1 /\ chunk[i] = LF => chunk[i - 1] = CR
                      /\ i > 1 /\ chunk[i] = CR => chunk[i - 1] \notin {CR, LF}
  BY DEF TerminalChunk
<1>3. PICK g \in [0..n -> Cleanings] : /\ g[0] = [at |-> "text", text |-> << >>]
                                       /\ \A k \in 1..n : g[k] = NormalizeSymbol(g[k - 1], chunk[k])
                                       /\ normalize_exec_rule_pty_chunk(chunk) = g[n].text
  BY NormalizeSteps
<1> DEFINE lead(k) == IF k > 0 /\ chunk[1] = LF THEN <<LF>> ELSE << >>
           Good(k) ==
               LET t == g[k].text
               IN  /\ g[k].at = IF k > 0 /\ chunk[k] = CR THEN "cr" ELSE "text"
                   /\ t = lead(k) \o Visible(part(k)) /\ NoDouble(t)
                   /\ k > 0 => /\ t # << >>
                               /\ t[1] = LF <=> chunk[1] \in {CR, LF}
                               /\ t[Len(t)] = LF <=> chunk[k] \in {CR, LF}
           S == {k \in 0..n : Good(k)}
<1>4. CR # LF /\ LF \in Symbols /\ CR \in Symbols
  BY DEF CR, LF, Symbols
<1> HIDE DEF part, n
<1>5. Good(0)
  <2>1. g[0].text = << >> /\ g[0].at = "text" /\ ~(0 > 0)
    BY <1>3
  <2>2. lead(0) = << >> /\ Visible(part(0)) = << >>
    BY <1>1, FlatNothing DEF Visible
  <2>3. NoDouble(<< >>) /\ << >> = << >> \o << >>
    BY DEF NoDouble
  <2> QED
    BY <2>1, <2>2, <2>3
<1>6. ASSUME NEW k \in 1..n, Good(k - 1) PROVE Good(k)
  <2> DEFINE c == chunk[k]
             s == g[k - 1]
             p == part(k - 1)
             t == s.text
             u == g[k].text
             v == Visible(p)
             l == lead(k - 1)
  <2>1. c \in Symbols /\ c \notin {BS, BEL, ESC} /\ p \in Texts /\ part(k) = Append(p, c) /\ s \in Cleanings /\ t \in Texts
    <3>1. s \in Cleanings
      BY <1>1, <1>3
    <3> QED
      BY <1>1, <1>2, <3>1 DEF Cleanings
  <2>2. /\ s.at = IF k - 1 > 0 /\ chunk[k - 1] = CR THEN "cr" ELSE "text"
        /\ t = l \o v /\ NoDouble(t)
        /\ k - 1 > 0 => /\ t # << >>
                        /\ t[1] = LF <=> chunk[1] \in {CR, LF}
                        /\ t[Len(t)] = LF <=> chunk[k - 1] \in {CR, LF}
    BY <1>6
  <2>3. /\ k > 1 /\ c = LF => chunk[k - 1] = CR
        /\ k > 1 /\ c = CR => chunk[k - 1] \notin {CR, LF}
    BY <1>2
  <2>4. /\ c = LF /\ s.at = "cr" => g[k] = [at |-> "text", text |-> t]
        /\ c = CR => g[k] = [at |-> "cr", text |-> Append(t, LF)]
        /\ c # CR /\ ~(c = LF /\ s.at = "cr") => g[k] = [at |-> "text", text |-> Append(t, c)]
    <3>1. g[k] = NormalizeSymbol(s, c) /\ s.at \in {"text", "cr"}
      BY <1>3, <2>2
    <3> HIDE DEF s, c
    <3> QED
      BY <2>1, <3>1, NormalizePlain
  <2>5. /\ v \in Texts
        /\ c = CR => Visible(part(k)) = Append(v, LF)
        /\ c = LF => Visible(part(k)) = v
        /\ c \notin {CR, LF} => Visible(part(k)) = Append(v, c)
    <3> HIDE DEF c, p
    <3> QED
      BY <2>1, VisibleAppend
  <2>6. k > 1 => lead(k) = l
    OBVIOUS
  <2>7. k = 1 => l = << >> /\ v = << >> /\ t = << >>
    <3>1. k = 1 => p = << >>
      BY <1>1
    <3>2. Visible(<< >>) = << >>
      BY FlatNothing DEF Visible
    <3> QED
      BY <1>3, <3>1, <3>2
  <2>8. l \in Texts
    BY <1>4 DEF Texts
  <2>9. Append(l \o v, LF) = l \o Append(v, LF) /\ Append(l \o v, c) = l \o Append(v, c)
    <3>1. l \in Seq(Symbols) /\ v \in Seq(Symbols) /\ c \in Symbols /\ LF \in Symbols
      BY <1>4, <2>1, <2>5, <2>8 DEF Texts
    <3> HIDE DEF l, v, c
    <3>2. Append(l \o v, LF) = l \o Append(v, LF)
      BY <3>1
    <3>3. Append(l \o v, c) = l \o Append(v, c)
      BY <3>1
    <3> QED
      BY <3>2, <3>3
  <2>10. k = 1 \/ k > 1
    BY <1>1
  <2>11. k = 1 => ~(k - 1 > 0) /\ s.at = "text"
    BY <2>2
  <2>12. k > 1 => k - 1 > 0 /\ k > 0
    OBVIOUS
  <2>13. CASE c = LF /\ k > 1
    <3>1. s.at = "cr" /\ g[k] = [at |-> "text", text |-> t] /\ u = t /\ g[k].at = "text"
      BY <2>2, <2>3, <2>4, <2>12, <2>13
    <3>2. u = lead(k) \o Visible(part(k))
      BY <2>2, <2>5, <2>6, <2>13, <3>1
    <3>3. u # << >> /\ (u[1] = LF <=> chunk[1] \in {CR, LF}) /\ u[Len(u)] = LF
      BY <2>2, <2>3, <2>12, <2>13, <3>1
    <3> HIDE DEF lead, u
    <3>4. NoDouble(u)
      BY <2>2, <3>1
    <3> QED
      BY <1>4, <2>13, <3>1, <3>2, <3>3, <3>4 DEF u
  <2>14. CASE c = CR
    <3>1. g[k].at = "cr" /\ u = Append(t, LF)
      BY <2>4, <2>14
    <3>2. lead(k) = l
      BY <1>4, <2>6, <2>7, <2>10, <2>14
    <3>3. u = lead(k) \o Visible(part(k))
      <4>1. u = Append(t, LF) /\ t = l \o v /\ Visible(part(k)) = Append(v, LF)
        BY <2>2, <2>5, <2>14, <3>1
      <4> HIDE DEF u, t, l, v
      <4> QED
        BY <2>9, <3>2, <4>1
    <3>4. t = << >> \/ t[Len(t)] # LF
      BY <2>2, <2>3, <2>7, <2>10, <2>12, <2>14
    <3>5. u # << >> /\ u[Len(u)] = LF /\ NoDouble(u) /\ u[1] = IF t = << >> THEN LF ELSE t[1]
      <4>1. t \in Texts /\ LF \in Symbols /\ u = Append(t, LF) /\ NoDouble(t)
        BY <1>4, <2>1, <2>2, <3>1
      <4> HIDE DEF t, u
      <4> QED
        BY ONLY <3>4, <4>1, AppendLast
    <3>6. u[1] = LF <=> chunk[1] \in {CR, LF}
      BY <2>2, <2>7, <2>10, <2>12, <2>14, <3>5
    <3> HIDE DEF lead, u
    <3> QED
      BY <2>14, <3>1, <3>3, <3>5, <3>6 DEF u
  <2>15. CASE c # CR /\ ~(c = LF /\ k > 1)
    <3>1. g[k].at = "text" /\ u = Append(t, c)
      BY <2>4, <2>10, <2>11, <2>15
    <3>2. u = lead(k) \o Visible(part(k))
      <4>1. CASE c # LF
        <5>1. lead(k) = l
          BY <2>6, <2>7, <2>10, <4>1
        <5> QED
          BY <2>2, <2>5, <2>9, <2>15, <3>1, <4>1, <5>1
      <4>2. CASE c = LF
        <5>1. k = 1 /\ lead(k) = <<LF>> /\ Visible(part(k)) = << >> /\ t = << >>
          BY <2>5, <2>7, <2>10, <2>15, <4>2
        <5>2. Append(<< >>, LF) = <<LF>> \o << >>
          OBVIOUS
        <5> QED
          BY <3>1, <4>2, <5>1, <5>2
      <4> QED
        BY <4>1, <4>2
    <3>3. t = << >> \/ c # LF
      BY <2>7, <2>10, <2>15
    <3>4. u # << >> /\ u[Len(u)] = c /\ NoDouble(u) /\ u[1] = IF t = << >> THEN c ELSE t[1]
      <4> HIDE DEF t, u, c
      <4> QED
        BY <2>1, <2>2, <3>1, <3>3, AppendLast
    <3>5. u[1] = LF <=> chunk[1] \in {CR, LF}
      BY <2>2, <2>7, <2>10, <2>12, <2>15, <3>4
    <3> HIDE DEF lead, u
    <3> QED
      BY <2>15, <3>1, <3>2, <3>4, <3>5 DEF u
  <2> QED
    BY <2>13, <2>14, <2>15
<1> HIDE DEF Good
<1>7. S \in SUBSET (0..n) /\ 0 \in S /\ \A k \in 1..n : k - 1 \in S => k \in S
  BY <1>1, <1>5, <1>6
<1> HIDE DEF S
<1>8. S = 0..n
  BY <1>1, <1>7, EveryPrefix
<1>9. Good(n)
  BY <1>1, <1>8 DEF S
<1>10. n > 0 /\ lead(n) = LeadIn(chunk)
  BY <1>1 DEF LeadIn
<1> QED
  BY <1>1, <1>3, <1>9, <1>10 DEF Good, n

(* The text of the lines that are not empty.                               *)
LineText == [line \in PlainLines |-> IF line = << >> THEN << >> ELSE Append(line, LF)]

LEMMA LineTextType ==
    /\ LineText \in [PlainLines -> Seq(Symbols)]
    /\ \A line \in PlainLines : LineText[line] = IF line = << >> THEN << >> ELSE Append(line, LF)
<1>1. ASSUME NEW line \in PlainLines
      PROVE  (IF line = << >> THEN << >> ELSE Append(line, LF)) \in Seq(Symbols)
  <2>1. line \in Seq(Symbols) /\ LF \in Symbols
    BY DEF PlainLines, Symbols
  <2>2. Append(line, LF) \in Seq(Symbols) /\ << >> \in Seq(Symbols)
    BY <2>1
  <2> QED
    BY <2>2
<1> QED
  BY <1>1 DEF LineText

LEMMA JoinedNonEmptyIs ==
    ASSUME NEW lines \in Seq(PlainLines)
    PROVE  JoinedNonEmpty(lines) = Flat(lines, LineText) /\ JoinedNonEmpty(lines) \in Texts
<1>1. \A k \in DOMAIN lines : LineText[lines[k]] = IF lines[k] = << >> THEN << >> ELSE Append(lines[k], LF)
  <2> DEFINE P == PlainLines
  <2>1. lines \in Seq(P)
    OBVIOUS
  <2> HIDE DEF P
  <2>2. \A k \in DOMAIN lines : lines[k] \in P
    BY <2>1
  <2> QED
    BY <2>2, LineTextType DEF P
<1>2. [k \in DOMAIN lines |-> LineText[lines[k]]]
        = [k \in DOMAIN lines |-> IF lines[k] = << >> THEN << >> ELSE Append(lines[k], LF)]
  BY <1>1
<1>3. JoinedNonEmpty(lines) = Flat(lines, LineText)
  BY <1>2 DEF JoinedNonEmpty, Flat
<1>4. Flat(lines, LineText) \in Seq(Symbols)
  BY LineTextType, FlatType
<1> QED
  BY <1>3, <1>4 DEF Texts

LEMMA JoinedNonEmptyMore ==
    ASSUME NEW lines \in Seq(PlainLines), NEW more \in Seq(PlainLines)
    PROVE  JoinedNonEmpty(lines \o more) = JoinedNonEmpty(lines) \o JoinedNonEmpty(more)
<1>1. lines \o more \in Seq(PlainLines)
  <2> DEFINE P == PlainLines
  <2>1. lines \in Seq(P) /\ more \in Seq(P)
    OBVIOUS
  <2> HIDE DEF P
  <2>2. lines \o more \in Seq(P)
    BY <2>1
  <2> QED
    BY <2>2 DEF P
<1>2. Flat(lines \o more, LineText) = Flat(lines, LineText) \o Flat(more, LineText)
  BY LineTextType, FlatConcat
<1> QED
  BY <1>1, <1>2, JoinedNonEmptyIs

LEMMA JoinedNonEmptyAppend ==
    ASSUME NEW lines \in Seq(PlainLines), NEW line \in PlainLines
    PROVE  /\ Append(lines, line) \in Seq(PlainLines)
           /\ line = << >> => JoinedNonEmpty(Append(lines, line)) = JoinedNonEmpty(lines)
           /\ line # << >> => JoinedNonEmpty(Append(lines, line)) = JoinedNonEmpty(lines) \o Append(line, LF)
<1> DEFINE j == JoinedNonEmpty(lines)
<1>1. Append(lines, line) \in Seq(PlainLines)
  <2> DEFINE P == PlainLines
  <2>1. lines \in Seq(P) /\ line \in P
    OBVIOUS
  <2> HIDE DEF P
  <2>2. Append(lines, line) \in Seq(P)
    BY <2>1
  <2> QED
    BY <2>2 DEF P
<1>2. j \in Texts /\ j = Flat(lines, LineText)
  BY JoinedNonEmptyIs
<1>3. Flat(Append(lines, line), LineText) = Flat(lines, LineText) \o LineText[line]
  BY LineTextType, FlatAppend
<1>4. JoinedNonEmpty(Append(lines, line)) = j \o LineText[line]
  BY <1>1, <1>2, <1>3, JoinedNonEmptyIs
<1>5. LineText[line] = IF line = << >> THEN << >> ELSE Append(line, LF)
  BY LineTextType
<1> HIDE DEF j
<1>6. j \o << >> = j
  BY <1>2 DEF Texts
<1> QED
  BY <1>1, <1>4, <1>5, <1>6 DEF j

(* One symbol: it is appended unless it ends an empty line.                *)
LEMMA AccumulateKeeps ==
    ASSUME NEW acc \in Cuts, NEW c \in Symbols
    PROVE  LET new == AccumulateSymbol(acc, c)
               all == JoinedNonEmpty(acc.lines) \o acc.buffer
           IN  /\ all \in Texts
               /\ c = LF /\ acc.buffer = << >> => JoinedNonEmpty(new.lines) \o new.buffer = all
               /\ c # LF \/ acc.buffer # << >> => JoinedNonEmpty(new.lines) \o new.buffer = Append(all, c)
               /\ new.buffer = << >> <=> c = LF
<1> DEFINE b == acc.buffer
           l == acc.lines
           j == JoinedNonEmpty(l)
           new == AccumulateSymbol(acc, c)
<1>1. b \in PlainLines /\ l \in Seq(PlainLines) /\ acc = [lines |-> l, buffer |-> b]
  BY DEF Cuts
<1>2. j \in Texts /\ b \in Texts
  BY <1>1, JoinedNonEmptyIs DEF PlainLines, Texts
<1>3. /\ c = LF => new = [lines |-> Append(l, b), buffer |-> << >>]
      /\ c # LF => new = [lines |-> l, buffer |-> Append(b, c)]
  BY <1>1 DEF AccumulateSymbol
<1>4. /\ b = << >> => JoinedNonEmpty(Append(l, b)) = j
      /\ b # << >> => JoinedNonEmpty(Append(l, b)) = j \o Append(b, LF)
  BY <1>1, JoinedNonEmptyAppend
<1> HIDE DEF new, b, l
<1>5. /\ c = LF => new.lines = Append(l, b) /\ new.buffer = << >>
      /\ c # LF => new.lines = l /\ new.buffer = Append(b, c)
  BY <1>3
<1> HIDE DEF j
<1>6. j \o b \in Texts /\ j \o << >> = j
  BY <1>2 DEF Texts
<1>7. (j \o Append(b, LF)) \o << >> = Append(j \o b, LF)
  <2>1. LF \in Symbols
    BY DEF Symbols
  <2> QED
    BY <1>2, <2>1 DEF Texts
<1>8. j \o Append(b, c) = Append(j \o b, c) /\ Append(b, c) # << >>
  BY <1>2 DEF Texts
<1>9. c = LF /\ b = << >> => JoinedNonEmpty(new.lines) \o new.buffer = j \o b
  BY <1>4, <1>5
<1>10. c = LF /\ b # << >> => JoinedNonEmpty(new.lines) \o new.buffer = Append(j \o b, c)
  BY <1>4, <1>5, <1>7
<1>11. c # LF => JoinedNonEmpty(new.lines) \o new.buffer = Append(j \o b, c)
  BY <1>5, <1>8 DEF j
<1>12. new.buffer = << >> <=> c = LF
  BY <1>5, <1>8
<1> QED
  BY <1>6, <1>9, <1>10, <1>11, <1>12 DEF new, j, b, l

(* A text without empty lines is kept, but for a newline at the start of   *)
(* it that finds nothing in the buffer.                                    *)
LEMMA LinesKept ==
    ASSUME NEW start \in PlainLines, NEW text \in Texts, NoDouble(text), text # << >>
    PROVE  LET cut == LineAccumulator(start, text)
               skipped == IF start = << >> /\ text[1] = LF THEN <<LF>> ELSE << >>
           IN  /\ skipped \o (JoinedNonEmpty(cut.lines) \o cut.buffer) = start \o text
               /\ cut.buffer = << >> <=> text[Len(text)] = LF
<1> DEFINE n == Len(text)
           part(k) == SubSeq(text, 1, k)
<1>1. PICK g \in [0..n -> Cuts] : /\ g[0] = [lines |-> << >>, buffer |-> start]
                                  /\ \A k \in 1..n : g[k] = AccumulateSymbol(g[k - 1], text[k])
                                  /\ LineAccumulator(start, text) = g[n]
  BY AccumulatorSteps
<1>2. /\ n \in Nat \ {0} /\ part(0) = << >> /\ part(n) = text
      /\ \A k \in 1..n : /\ text[k] \in Symbols /\ part(k) = Append(part(k - 1), text[k])
                         /\ k - 1 \in 0..n /\ k \in 0..n
      /\ \A k \in 0..n : part(k) \in Texts
      /\ 0 \in 0..n /\ n \in 0..n
  BY PrefixLengths DEF Texts
<1>3. \A k \in 1..n : k > 1 /\ text[k] = LF => text[k - 1] # LF
  BY DEF NoDouble
<1> DEFINE skip(k) == IF k > 0 /\ start = << >> /\ text[1] = LF THEN <<LF>> ELSE << >>
           all(k) == JoinedNonEmpty(g[k].lines) \o g[k].buffer
           Good(k) == /\ skip(k) \o all(k) = start \o part(k)
                      /\ g[k].buffer = << >> <=> (IF k = 0 THEN start = << >> ELSE text[k] = LF)
           S == {k \in 0..n : Good(k)}
<1>4. LF \in Symbols /\ start \in Texts
  BY DEF Symbols, PlainLines, Texts
<1> HIDE DEF part, n
<1>5. Good(0)
  <2>1. g[0].lines = << >> /\ g[0].buffer = start /\ ~(0 > 0)
    BY <1>1
  <2>2. JoinedNonEmpty(<< >>) = << >>
    <3>1. << >> \in Seq(PlainLines)
      OBVIOUS
    <3> QED
      BY <3>1, JoinedNonEmptyIs, FlatNothing
  <2>3. << >> \o (<< >> \o start) = start \o << >>
    BY <1>4 DEF Texts
  <2> QED
    BY <1>2, <2>1, <2>2, <2>3
<1>6. ASSUME NEW k \in 1..n, Good(k - 1) PROVE Good(k)
  <2> DEFINE c == text[k]
             acc == g[k - 1]
             old == all(k - 1)
             p == part(k - 1)
             s == skip(k - 1)
  <2>1. c \in Symbols /\ p \in Texts /\ part(k) = Append(p, c) /\ acc \in Cuts /\ g[k] = AccumulateSymbol(acc, c)
    BY <1>1, <1>2
  <2>2. s \o old = start \o p /\ (acc.buffer = << >> <=> (IF k - 1 = 0 THEN start = << >> ELSE text[k - 1] = LF))
    BY <1>6
  <2>3. /\ old \in Texts
        /\ c = LF /\ acc.buffer = << >> => all(k) = old
        /\ c # LF \/ acc.buffer # << >> => all(k) = Append(old, c)
        /\ g[k].buffer = << >> <=> c = LF
    <3>1. old = JoinedNonEmpty(acc.lines) \o acc.buffer
      OBVIOUS
    <3> HIDE DEF acc, c, old
    <3> QED
      BY <2>1, <3>1, AccumulateKeeps
  <2>4. s \in Texts
    BY <1>4 DEF Texts
  <2>5. k = 1 \/ k > 1
    BY <1>2
  <2>6. k # 0 /\ k > 0 /\ (k > 1 => k - 1 > 0 /\ k - 1 # 0) /\ (k = 1 => k - 1 = 0 /\ ~(k - 1 > 0))
    BY <1>2
  <2>7. start \o Append(p, c) = Append(start \o p, c)
    <3>1. start \in Seq(Symbols) /\ p \in Seq(Symbols) /\ c \in Symbols
      BY <1>4, <2>1 DEF Texts
    <3> HIDE DEF p, c
    <3> QED
      BY <3>1
  <2>8. CASE c = LF /\ acc.buffer = << >>
    <3>1. k = 1 /\ start = << >>
      BY <1>3, <2>2, <2>5, <2>6, <2>8
    <3>2. skip(k) = <<LF>> /\ s = << >> /\ p = << >>
      BY <1>2, <2>6, <2>8, <3>1
    <3>3. old = << >>
      <4>1. << >> \o old = << >> \o << >>
        BY <2>2, <3>1, <3>2
      <4> HIDE DEF old
      <4> QED
        BY <2>3, <4>1 DEF Texts
    <3>4. skip(k) \o all(k) = <<LF>> \o << >>
      BY <2>3, <2>8, <3>2, <3>3
    <3>5. start \o part(k) = << >> \o Append(<< >>, LF)
      BY <2>1, <2>8, <3>1, <3>2
    <3>6. <<LF>> \o << >> = << >> \o Append(<< >>, LF)
      OBVIOUS
    <3>7. skip(k) \o all(k) = start \o part(k)
      BY <3>4, <3>5, <3>6
    <3> QED
      BY <2>3, <2>6, <2>8, <3>7
  <2>9. CASE c # LF \/ acc.buffer # << >>
    <3>1. skip(k) = s
      BY <2>2, <2>5, <2>6, <2>9
    <3>2. s \o Append(old, c) = Append(s \o old, c)
      <4>1. s \in Seq(Symbols) /\ old \in Seq(Symbols) /\ c \in Symbols
        BY <2>1, <2>3, <2>4 DEF Texts
      <4> HIDE DEF s, old, c
      <4> QED
        BY <4>1
    <3>3. all(k) = Append(old, c)
      BY <2>3, <2>9
    <3> HIDE DEF all, old, s, skip, p
    <3>4. skip(k) \o all(k) = start \o part(k)
      BY <2>1, <2>2, <2>7, <3>1, <3>2, <3>3
    <3> QED
      BY <2>3, <2>6, <3>4
  <2> QED
    BY <2>8, <2>9
<1> HIDE DEF Good
<1>7. S \in SUBSET (0..n) /\ 0 \in S /\ \A k \in 1..n : k - 1 \in S => k \in S
  BY <1>2, <1>5, <1>6
<1> HIDE DEF S
<1>8. S = 0..n
  BY <1>2, <1>7, EveryPrefix
<1>9. Good(n)
  BY <1>2, <1>8 DEF S
<1>10. n > 0 /\ n # 0
  BY <1>2
<1> QED
  BY <1>1, <1>2, <1>9, <1>10 DEF Good, n

(* The invariant: what is written has the form of a terminal's text, and   *)
(* while it is read, the lines and the buffer are what is visible of it.   *)
LineEnded(text) == text = << >> \/ text[Len(text)] \in {CR, LF}

PlainCall == mode = "pty" /\ PlainProgram(call.program) /\ PlainAnswers

LinesVisible ==
    /\ JoinedNonEmpty(seen) \o buffer = Visible(result.stdout)
    /\ buffer = << >> <=> LineEnded(result.stdout)

TerminalInv == PlainCall => Terminal(written) /\ (pc = "read" => LinesVisible)

LEMMA PlainFrame ==
    ASSUME UNCHANGED <<call, rules>>
    PROVE  PlainCall' = PlainCall
<1>1. mode' = mode
  BY Frame
<1>2. PlainAnswers' = PlainAnswers
  BY DEF PlainAnswers
<1>3. PlainProgram(call.program)' = PlainProgram(call.program)
  BY DEF PlainProgram
<1> QED
  BY <1>1, <1>2, <1>3 DEF PlainCall

(* Before the child runs nothing is written.                               *)
LEMMA NothingWritten ==
    ASSUME ExecInv, pc \in {"called", "spawn"}
    PROVE  written = << >> /\ result.stdout = << >> /\ seen = << >> /\ buffer = << >>
<1>1. written = result.stdout \o out /\ out = << >> /\ result = NoResult
  BY DEF ExecInv, OutputInv
<1>2. result.stdout = << >>
  BY <1>1 DEF NoResult
<1> QED
  BY <1>1, <1>2 DEF ExecInv, LinesInv

LEMMA DispatchTerminal ==
    ASSUME TypeOK, PlainCall, Terminal(written), NEW e \in Findings(rules), NEW rest, Dispatch(e, rest)
    PROVE  Terminal(written')
<1> DEFINE actions == ActionsOf(rules, e.fired)
           sent == Sent(actions, mode = "pty")
           echo == IF child.status # "running" THEN << >> ELSE Echo(sent)
           V == {v \in Symbols : v \notin {LF, CR, BS, BEL, ESC}}
           A == ActionsIn(rules)
<1>1. written' = written \o echo
  <2>1. \A acc \in {e} : acc = e
    OBVIOUS
  <2> QED
    BY <2>1, Zenon DEF Dispatch, Echo
<1>2. actions \in Seq(A)
  BY ActionsOfType DEF TypeOK, Findings
<1>3. \A a \in A : a.type = "send" => a.value \in V
  BY DEF TypeOK, TextRules, PlainCall, PlainAnswers, ActionsIn
<1> HIDE DEF actions, A, V
<1>4. Values(actions, "send") \in Seq(V)
  BY <1>2, <1>3, ValuesAre
<1>5. sent = Values(actions, "send")
  BY DEF Sent, PlainCall
<1> HIDE DEF sent
<1>6. sent \in Texts /\ \A i \in 1..Len(sent) : sent[i] \notin {LF, CR, BS, BEL, ESC}
  <2>1. sent \in Seq(V)
    BY <1>4, <1>5
  <2>2. \A i \in 1..Len(sent) : sent[i] \in V
    BY <2>1
  <2>3. sent \in Seq(Symbols)
    BY <2>1 DEF V
  <2> QED
    BY <2>2, <2>3 DEF V, Texts
<1>7. Terminal(Echo(sent)) /\ Echo(sent) \in Texts
  BY <1>6, TerminalEcho, EchoType
<1>8. echo \in Texts /\ Terminal(echo)
  BY <1>7, TerminalNothing, EmptyText
<1> HIDE DEF echo
<1>9. written \in Texts
  BY DEF TypeOK
<1> QED
  BY <1>1, <1>8, <1>9, TerminalConcat

LEMMA WritesTerminal ==
    ASSUME TypeOK, PlainCall, Terminal(written), ChildWrites
    PROVE  Terminal(written')
<1> DEFINE s == Step
           text == OnTheTerminal(s.text)
           program == call.program
           at == child.at
<1>1. s \in ProgramSteps /\ s.step = "write"
  BY StepType DEF ChildWrites
<1>2. written' = written \/ written' = written \o text
  BY DEF ChildWrites, PlainCall
<1>3. at \in DOMAIN program /\ s = program[at]
  <2>1. program \in Seq(ProgramSteps)
    BY CallsAssumption DEF TypeOK
  <2>2. at \in Nat \ {0} /\ at <= Len(program)
    BY DEF TypeOK, ChildWrites, Running
  <2>3. s = program[at]
    BY DEF Step
  <2> HIDE DEF program, at
  <2> QED
    BY <2>1, <2>2, <2>3
<1>4. /\ ToSet(s.text) \intersect {CR, BS, BEL, ESC} = {}
      /\ \A i \in DOMAIN s.text : s.text[i] = LF => i > 1 /\ s.text[i - 1] # LF
  <2>1. PlainProgram(program)
    BY DEF PlainCall
  <2> HIDE DEF program, at, s
  <2> QED
    BY <1>1, <1>3, <2>1 DEF PlainProgram
<1> HIDE DEF s
<1>5. s.text \in Seq(STRING)
  BY <1>1 DEF ProgramSteps
<1> DEFINE t == s.text
<1>6. t \in Texts
  BY <1>5 DEF Texts, Symbols
<1>7. PlainText(t)
  <2>1. \A i \in 1..Len(t) : i \in DOMAIN t
    BY <1>5
  <2>2. \A i \in DOMAIN t : t[i] \in ToSet(t)
    BY DEF ToSet
  <2> QED
    BY <1>4, <2>1, <2>2 DEF PlainText
<1> HIDE DEF t
<1>8. Terminal(OnTheTerminal(t)) /\ OnTheTerminal(t) \in Texts
  BY <1>6, <1>7, TerminalProgram, OnTheTerminalType
<1>9. written \in Texts
  BY DEF TypeOK
<1> QED
  BY <1>2, <1>8, <1>9, TerminalConcat DEF t

(* What is read next, after what was read before.                          *)
LEMMA TerminalParts ==
    ASSUME NEW a \in Texts, NEW c \in Texts, NEW r \in Texts, Terminal((a \o c) \o r), c # << >>
    PROVE  /\ TerminalChunk(c)
           /\ c[1] = LF => LineEnded(a)
           /\ c[1] = CR => ~LineEnded(a)
<1> DEFINE w == (a \o c) \o r
           m == Len(a)
           n == Len(c)
<1>1. /\ m \in Nat /\ n \in Nat \ {0} /\ Len(w) \in Nat /\ m + n <= Len(w)
      /\ \A i \in 1..m : w[i] = a[i]
      /\ \A i \in 1..n : w[m + i] = c[i]
      /\ a = << >> <=> m = 0
  BY DEF Texts
<1>2. \A i \in 1..Len(w) :
        /\ w[i] \notin {BS, BEL, ESC}
        /\ w[i] = LF => i > 1 /\ w[i - 1] = CR
        /\ w[i] = CR => i > 1 /\ w[i - 1] \notin {CR, LF}
  BY DEF Terminal
<1> HIDE DEF w, m, n
<1>3. ASSUME NEW i \in 1..n
      PROVE  /\ c[i] \notin {BS, BEL, ESC}
             /\ i > 1 /\ c[i] = LF => c[i - 1] = CR
             /\ i > 1 /\ c[i] = CR => c[i - 1] \notin {CR, LF}
  <2>1. m + i \in 1..Len(w) /\ w[m + i] = c[i]
    BY <1>1
  <2>2. i > 1 => w[(m + i) - 1] = c[i - 1]
    <3>1. i > 1 => i - 1 \in 1..n /\ (m + i) - 1 = m + (i - 1)
      BY <1>1
    <3> QED
      BY <1>1, <3>1
  <2> QED
    BY <1>2, <2>1, <2>2
<1>4. TerminalChunk(c)
  BY <1>3 DEF TerminalChunk, n
<1>5. m + 1 \in 1..Len(w) /\ w[m + 1] = c[1] /\ (m + 1) - 1 = m
  BY <1>1
<1>6. /\ c[1] = LF => m > 0 /\ w[m] = CR
      /\ c[1] = CR => m > 0 /\ w[m] \notin {CR, LF}
  BY <1>1, <1>2, <1>5
<1>7. m > 0 => w[m] = a[m] /\ a # << >>
  BY <1>1
<1> QED
  BY <1>4, <1>6, <1>7 DEF LineEnded, m

LEMMA LastOfBoth ==
    ASSUME NEW a \in Texts, NEW c \in Texts, c # << >>
    PROVE  LineEnded(a \o c) <=> c[Len(c)] \in {CR, LF}
<1>1. a \o c # << >> /\ (a \o c)[Len(a \o c)] = c[Len(c)]
  BY DEF Texts
<1> QED
  BY <1>1 DEF LineEnded

(* One read: the lines and the buffer grow by what is visible of it.       *)
LEMMA ReadVisible ==
    ASSUME NEW lines \in Seq(PlainLines), NEW start \in PlainLines, NEW had \in Texts,
           NEW chunk \in Texts, NEW rest \in Texts, chunk # << >>,
           Terminal((had \o chunk) \o rest),
           JoinedNonEmpty(lines) \o start = Visible(had),
           start = << >> <=> LineEnded(had)
    PROVE  LET text == normalize_exec_rule_pty_chunk(chunk)
               cut == LineAccumulator(start, text)
           IN  /\ text # << >>
               /\ JoinedNonEmpty(lines \o cut.lines) \o cut.buffer = Visible(had \o chunk)
               /\ cut.buffer = << >> <=> LineEnded(had \o chunk)
<1> DEFINE text == normalize_exec_rule_pty_chunk(chunk)
           cut == LineAccumulator(start, text)
           j == JoinedNonEmpty(lines)
           x == JoinedNonEmpty(cut.lines)
           b == cut.buffer
           v == Visible(chunk)
           skipped == IF start = << >> /\ text[1] = LF THEN <<LF>> ELSE << >>
<1>1. /\ TerminalChunk(chunk)
      /\ chunk[1] = LF => LineEnded(had)
      /\ chunk[1] = CR => ~LineEnded(had)
  BY TerminalParts
<1>2. /\ text = LeadIn(chunk) \o v /\ NoDouble(text) /\ text # << >>
      /\ text[1] = LF <=> chunk[1] \in {CR, LF}
      /\ text[Len(text)] = LF <=> chunk[Len(chunk)] \in {CR, LF}
  BY <1>1, NormalizeTerminal
<1>3. text \in Texts
  BY NormalizeType
<1> HIDE DEF text
<1>4. cut \in Cuts
  BY <1>3, LinesJoin
<1>5. skipped \o (x \o b) = start \o text /\ (b = << >> <=> text[Len(text)] = LF)
  BY <1>2, <1>3, LinesKept
<1> HIDE DEF cut
<1>6. cut.lines \in Seq(PlainLines) /\ b \in PlainLines
  BY <1>4 DEF Cuts
<1>7. JoinedNonEmpty(lines \o cut.lines) = j \o x
  BY <1>6, JoinedNonEmptyMore
<1>8. j \in Seq(Symbols) /\ x \in Seq(Symbols) /\ b \in Seq(Symbols) /\ start \in Seq(Symbols) /\ v \in Seq(Symbols)
  <2>1. j \in Texts /\ x \in Texts
    BY <1>6, JoinedNonEmptyIs
  <2>2. b \in Texts /\ start \in Texts
    BY <1>6, LinesAreTexts
  <2>3. v \in Seq(Symbols)
    BY ShownAsType, FlatType DEF Visible, Texts
  <2> QED
    BY <2>1, <2>2, <2>3 DEF Texts
<1>9. Visible(had \o chunk) = Visible(had) \o v
  BY ShownAsType, FlatConcat DEF Visible, Texts
<1>10. CR # LF
  BY DEF CR, LF
<1> HIDE DEF j, x, b, v
<1>11. x \o b = start \o v
  <2>1. CASE chunk[1] = LF
    <3>1. LeadIn(chunk) = <<LF>> /\ start = << >> /\ skipped = <<LF>>
      BY <1>1, <1>2, <2>1 DEF LeadIn
    <3>2. <<LF>> \o (x \o b) = << >> \o (<<LF>> \o v)
      BY <1>2, <1>5, <3>1
    <3>3. << >> \o (<<LF>> \o v) = <<LF>> \o v /\ << >> \o v = v
      <4>1. LF \in Symbols
        BY DEF Symbols
      <4>2. <<LF>> \o v \in Seq(Symbols)
        BY <1>8, <4>1
      <4> QED
        BY <1>8, <4>2
    <3>4. <<LF>> \o (x \o b) = <<LF>> \o v
      BY <3>2, <3>3
    <3> DEFINE y == x \o b
    <3>5. y \in Seq(Symbols)
      BY <1>8
    <3> HIDE DEF y
    <3>6. ASSUME NEW z \in Seq(Symbols)
          PROVE  Len(<<LF>> \o z) = Len(z) + 1 /\ \A i \in 1..Len(z) : (<<LF>> \o z)[i + 1] = z[i]
      <4>1. LF \in Symbols
        BY DEF Symbols
      <4> QED
        BY <4>1
    <3>7. Len(y) = Len(v) /\ \A i \in 1..Len(y) : y[i] = v[i]
      <4>1. <<LF>> \o y = <<LF>> \o v
        BY <3>4 DEF y
      <4>2. /\ Len(<<LF>> \o y) = Len(y) + 1 /\ \A i \in 1..Len(y) : (<<LF>> \o y)[i + 1] = y[i]
            /\ Len(<<LF>> \o v) = Len(v) + 1 /\ \A i \in 1..Len(v) : (<<LF>> \o v)[i + 1] = v[i]
        BY <1>8, <3>5, <3>6
      <4>3. Len(y) \in Nat /\ Len(v) \in Nat
        BY <1>8, <3>5
      <4>4. Len(y) = Len(v)
        BY <4>1, <4>2, <4>3
      <4> QED
        BY <4>1, <4>2, <4>4
    <3>8. y = v
      <4>1. y = [i \in 1..Len(y) |-> y[i]] /\ v = [i \in 1..Len(v) |-> v[i]]
        BY <1>8, <3>5
      <4> QED
        BY <3>7, <4>1
    <3> QED
      BY <3>1, <3>3, <3>8 DEF y
  <2>2. CASE chunk[1] # LF
    <3>1. LeadIn(chunk) = << >> /\ skipped = << >>
      BY <1>1, <1>2, <2>2 DEF LeadIn
    <3>2. << >> \o v = v /\ << >> \o (x \o b) = x \o b
      <4>1. x \o b \in Seq(Symbols)
        BY <1>8
      <4> QED
        BY <1>8, <4>1
    <3>3. text = v /\ x \o b = start \o text
      BY <1>2, <1>5, <3>1, <3>2
    <3> QED
      BY <3>3
  <2> QED
    BY <2>1, <2>2
<1>12. (j \o x) \o b = Visible(had) \o v
  <2>1. (j \o x) \o b = j \o (x \o b) /\ j \o (start \o v) = (j \o start) \o v
    <3>1. j \in Seq(Symbols) /\ x \in Seq(Symbols) /\ b \in Seq(Symbols)
      BY <1>8
    <3>2. (j \o x) \o b = j \o (x \o b)
      BY ONLY <3>1
    <3>3. j \in Seq(Symbols) /\ start \in Seq(Symbols) /\ v \in Seq(Symbols)
      BY <1>8
    <3>4. (j \o start) \o v = j \o (start \o v)
      BY ONLY <3>3
    <3> QED
      BY ONLY <3>2, <3>4
  <2>2. j \o start = Visible(had)
    BY DEF j
  <2> QED
    BY <1>11, <2>1, <2>2
<1>13. b = << >> <=> LineEnded(had \o chunk)
  BY <1>2, <1>5, LastOfBoth
<1>14. JoinedNonEmpty(lines \o cut.lines) \o b = Visible(had \o chunk)
  BY <1>7, <1>9, <1>12
<1> QED
  BY <1>2, <1>13, <1>14 DEF text, cut, b

LEMMA ReadTerminal ==
    ASSUME ExecInv, TerminalInv, Read
    PROVE  TerminalInv'
<1>1. TypeOK /\ pc = "read" /\ UNCHANGED <<call, pc, rules>>
  BY DEF Read, ExecInv
<1>2. PlainCall' = PlainCall
  BY <1>1, PlainFrame
<1> SUFFICES ASSUME PlainCall PROVE Terminal(written') /\ LinesVisible'
  BY <1>2 DEF TerminalInv
<1>3. Terminal(written) /\ LinesVisible /\ mode = "pty"
  BY <1>1 DEF TerminalInv, PlainCall
<1>4. PICK chunk \in Texts, rest \in Texts, text \in Texts :
               /\ chunk # << >> /\ out = chunk \o rest
               /\ mode = "pty" => text = normalize_exec_rule_pty_chunk(chunk)
               /\ ReadStep(chunk, rest, text, LineAccumulator(buffer, text),
                           EvaluateLines(runtime, LineAccumulator(buffer, text).lines))
  BY ReadIsAStep
<1> DEFINE cut == LineAccumulator(buffer, text)
           lines == EvaluateLines(runtime, cut.lines)
           had == result.stdout
           e == EvaluateScreen(lines, text)
<1>5. /\ written = had \o out /\ had \in Texts /\ result \in Results
      /\ seen \in Seq(PlainLines) /\ buffer \in PlainLines /\ transcript \in Texts
  BY <1>1 DEF ExecInv, OutputInv, TypeOK, Results
<1>6. ReadStep(chunk, rest, text, cut, lines)
  BY <1>4
<1>7. cut \in Cuts
  BY <1>5, LinesJoin
<1>8. text = normalize_exec_rule_pty_chunk(chunk)
  BY <1>3, <1>4
<1>9. Terminal((had \o chunk) \o rest)
  <2> HIDE DEF had
  <2>1. had \in Texts
    BY <1>5
  <2>2. had \o (chunk \o rest) = (had \o chunk) \o rest
    BY <2>1, SMTT(30) DEF Texts
  <2> QED
    BY <1>3, <1>4, <1>5, <2>2
<1>10. /\ text # << >>
       /\ JoinedNonEmpty(seen \o cut.lines) \o cut.buffer = Visible(had \o chunk)
       /\ cut.buffer = << >> <=> LineEnded(had \o chunk)
  <2>1. JoinedNonEmpty(seen) \o buffer = Visible(had) /\ (buffer = << >> <=> LineEnded(had))
    BY <1>3 DEF LinesVisible
  <2> HIDE DEF had
  <2>2. had \in Texts /\ chunk \in Texts /\ rest \in Texts /\ chunk # << >>
    BY <1>4, <1>5
  <2> DEFINE t == normalize_exec_rule_pty_chunk(chunk)
             k == LineAccumulator(buffer, t)
  <2>3. /\ t # << >>
        /\ JoinedNonEmpty(seen \o k.lines) \o k.buffer = Visible(had \o chunk)
        /\ k.buffer = << >> <=> LineEnded(had \o chunk)
    BY <1>5, <1>9, <2>1, <2>2, ReadVisible
  <2>4. text = t /\ cut = k
    BY <1>8
  <2> HIDE DEF t, k, cut
  <2> QED
    BY <2>3, <2>4
<1> HIDE DEF cut, had
<1>11. cut.lines \in Seq(Texts)
  <2>1. cut.lines \in Seq(PlainLines)
    BY <1>7 DEF Cuts
  <2> QED
    BY <2>1, LinesAreTexts
<1>12. lines \in Findings(rules)
  BY <1>1, <1>11, EvaluateLinesType DEF TypeOK
<1> HIDE DEF lines
<1>13. /\ seen' = seen \o cut.lines /\ buffer' = cut.buffer /\ Dispatch(e, rest)
       /\ result' = [result EXCEPT !.stdout = had \o chunk]
  BY <1>3, <1>6, <1>10 DEF ReadStep, had
<1>14. e \in Findings(rules)
  <2>1. transcript \o text \in Texts
    BY <1>5 DEF Texts
  <2> QED
    BY <1>1, <1>12, <2>1, EvaluateType DEF TypeOK, EvaluateScreen, Screen
<1> HIDE DEF e
<1>15. Terminal(written')
  BY <1>1, <1>3, <1>13, <1>14, DispatchTerminal
<1>16. result'.stdout = had \o chunk
  BY <1>5, <1>13 DEF Results
<1>17. LinesVisible'
  BY <1>10, <1>13, <1>16 DEF LinesVisible, Visible, Flat, LineEnded
<1> QED
  BY <1>15, <1>17

LEMMA TerminalInit == Init => TerminalInv
<1> SUFFICES ASSUME Init PROVE TerminalInv
  OBVIOUS
<1>1. written = << >> /\ pc # "read"
  BY DEF Init
<1> QED
  BY <1>1, TerminalNothing DEF TerminalInv

LEMMA TerminalStep == ExecInv /\ ExecInv' /\ TerminalInv /\ [Next]_vars => TerminalInv'
<1> SUFFICES ASSUME ExecInv, ExecInv', TerminalInv, [Next]_vars PROVE TerminalInv'
  OBVIOUS
<1>1. TypeOK
  BY DEF ExecInv
<1>2. ASSUME UNCHANGED <<call, rules, written>>, pc' # "read" PROVE TerminalInv'
  <2>1. PlainCall' = PlainCall
    BY <1>2, PlainFrame
  <2> QED
    BY <1>2, <2>1 DEF TerminalInv
<1>3. ASSUME UNCHANGED <<call, rules, pc, seen, buffer, result>>, PlainCall => Terminal(written') PROVE TerminalInv'
  <2>1. PlainCall' = PlainCall
    BY <1>3, PlainFrame
  <2>2. LinesVisible' = LinesVisible
    BY <1>3 DEF LinesVisible
  <2> QED
    BY <1>3, <2>1, <2>2 DEF TerminalInv
<1>4. ASSUME UNCHANGED <<call, rules>>, pc' # "read", NEW e \in Findings(rules), NEW rest, Dispatch(e, rest)
      PROVE  TerminalInv'
  <2>1. PlainCall' = PlainCall
    BY <1>4, PlainFrame
  <2>2. PlainCall => Terminal(written')
    BY <1>1, <1>4, DispatchTerminal DEF TerminalInv
  <2> QED
    BY <1>4, <2>1, <2>2 DEF TerminalInv
<1>5. CASE denyExecution \/ RejectRules \/ SpawnFails \/ ReadErrors \/ Wait \/ WaitFails
  <2>1. UNCHANGED <<call, rules, written>> /\ pc' # "read"
    BY <1>5 DEF denyExecution, RejectRules, SpawnFails, ReadErrors, Wait, WaitFails, AfterWait, host
  <2> QED
    BY <1>2, <2>1
<1>6. CASE Prepare
  <2>1. pc' = "spawn"
    BY <1>6 DEF Prepare
  <2>2. written' = << >>
    <3>1. pc = "called" /\ UNCHANGED written
      BY <1>6 DEF Prepare
    <3> QED
      BY <3>1, NothingWritten
  <2> QED
    BY <2>1, <2>2, TerminalNothing DEF TerminalInv
<1>7. CASE Spawn
  <2>1. pc = "spawn" /\ UNCHANGED <<call, rules, written, result, seen, buffer>>
    BY <1>7 DEF Spawn, host
  <2>2. written = << >> /\ result.stdout = << >> /\ seen = << >> /\ buffer = << >>
    BY <2>1, NothingWritten
  <2>3. JoinedNonEmpty(<< >>) = << >> /\ Visible(<< >>) = << >> /\ LineEnded(<< >>) /\ << >> \o << >> = << >>
    <3>1. << >> \in Seq(PlainLines)
      OBVIOUS
    <3> QED
      <4>1. JoinedNonEmpty(<< >>) = Flat(<< >>, LineText)
        BY <3>1, JoinedNonEmptyIs
      <4>2. Flat(<< >>, LineText) = << >> /\ Flat(<< >>, ShownAs) = << >>
        BY FlatNothing
      <4>3. LineEnded(<< >>)
        BY DEF LineEnded
      <4>4. << >> \o << >> = << >>
        OBVIOUS
      <4> QED
        BY <4>1, <4>2, <4>3, <4>4 DEF Visible
  <2>4. LinesVisible
    BY <2>2, <2>3 DEF LinesVisible
  <2>5. LinesVisible'
    BY <2>1, <2>4 DEF LinesVisible
  <2>6. Terminal(written')
    BY <2>1, <2>2, TerminalNothing
  <2> QED
    BY <2>5, <2>6 DEF TerminalInv
<1>8. CASE ChildWrites
  <2>1. UNCHANGED <<call, rules, pc, seen, buffer, result>>
    BY <1>8 DEF ChildWrites, host
  <2>2. PlainCall => Terminal(written')
    BY <1>1, <1>8, WritesTerminal DEF TerminalInv
  <2> QED
    BY <1>3, <2>1, <2>2
<1>9. CASE ChildReads \/ ChildExits \/ ChildKilled \/ UNCHANGED vars
  <2>1. UNCHANGED <<call, rules, pc, seen, buffer, result, written>>
    BY <1>9 DEF ChildReads, ChildExits, ChildKilled, host, vars
  <2> QED
    BY <1>3, <2>1 DEF TerminalInv
<1>10. CASE Read
  BY <1>10, ReadTerminal
<1>11. CASE ReadEnds \/ ReadFails
  <2>1. UNCHANGED <<call, rules>> /\ pc' # "read"
    BY <1>11 DEF ReadEnds, ReadFails
  <2>2. CASE mode = "pty"
    <3> DEFINE e == EvaluateScreen(EvaluateLines(runtime, Remainder), << >>)
    <3>1. Dispatch(e, out)
      BY <1>11, <2>2 DEF ReadEnds, ReadFails
    <3>2. e \in Findings(rules)
      BY <1>1, FinalEvaluation
    <3> HIDE DEF e
    <3> QED
      BY <1>4, <2>1, <3>1, <3>2
  <2>3. CASE mode # "pty"
    <3>1. UNCHANGED written
      BY <1>11, <2>3 DEF ReadEnds, ReadFails
    <3> QED
      BY <1>2, <2>1, <3>1
  <2> QED
    BY <2>2, <2>3
<1>12. CASE Flush
  <2>1. UNCHANGED <<call, rules>> /\ pc' # "read" /\ Dispatch(EvaluateLines(runtime, Remainder), out)
    BY <1>12 DEF Flush
  <2>2. EvaluateLines(runtime, Remainder) \in Findings(rules)
    BY <1>1, FinalEvaluation
  <2> QED
    BY <1>4, <2>1, <2>2
<1> QED
  BY <1>5, <1>6, <1>7, <1>8, <1>9, <1>10, <1>11, <1>12 DEF Next, Host, Child, Fault

(* What is visible is what was printed without its carriage returns, and   *)
(* the newline that a last carriage return announces.                      *)
LEMMA VisibleIsPrinted ==
    ASSUME NEW had \in Texts, NEW rest \in Texts, Terminal(had \o rest)
    PROVE  /\ WithoutReturns(had) \in Texts
           /\ Visible(had) = IF had # << >> /\ had[Len(had)] = CR THEN Append(WithoutReturns(had), LF)
                             ELSE WithoutReturns(had)
<1> DEFINE n == Len(had)
           M == [c \in Symbols |-> IF c = CR THEN << >> ELSE <<c>>]
           part(k) == SubSeq(had, 1, k)
           kept(k) == Flat(part(k), M)
           due(k) == k > 0 /\ had[k] = CR
           Good(k) == Visible(part(k)) = IF due(k) THEN Append(kept(k), LF) ELSE kept(k)
           S == {k \in 0..n : Good(k)}
<1>1. /\ n \in Nat /\ part(0) = << >> /\ part(n) = had
      /\ \A k \in 1..n : /\ had[k] \in Symbols /\ part(k) = Append(part(k - 1), had[k])
                         /\ k - 1 \in 0..n /\ k \in 0..n
      /\ \A k \in 0..n : part(k) \in Seq(Symbols)
      /\ 0 \in 0..n /\ n \in 0..n
  BY PrefixLengths DEF Texts
<1>2. M \in [Symbols -> Seq(Symbols)] /\ \A c \in Symbols : M[c] = IF c = CR THEN << >> ELSE <<c>>
  <2>1. << >> \in Seq(Symbols) /\ \A c \in Symbols : <<c>> \in Seq(Symbols)
    OBVIOUS
  <2> QED
    BY <2>1
<1>3. WithoutReturns(had) = Flat(had, M)
  <2>1. \A k \in DOMAIN had : M[had[k]] = IF had[k] = CR THEN << >> ELSE <<had[k]>>
    BY <1>2 DEF Texts
  <2> HIDE DEF M
  <2>2. [k \in DOMAIN had |-> M[had[k]]] = [k \in DOMAIN had |-> IF had[k] = CR THEN << >> ELSE <<had[k]>>]
    BY <2>1
  <2> QED
    BY <2>2 DEF WithoutReturns, Flat
<1>4. \A k \in 1..n : /\ had[k] = LF => k > 1 /\ had[k - 1] = CR
                      /\ had[k] = CR => k > 1 /\ had[k - 1] \notin {CR, LF}
                      /\ k > 1 /\ had[k - 1] = CR => had[k] = LF
  <2> DEFINE w == had \o rest
  <2>1. Len(w) \in Nat /\ n <= Len(w) /\ \A i \in 1..n : w[i] = had[i]
    BY DEF Texts
  <2>2. \A i \in 1..Len(w) :
          /\ w[i] = LF => i > 1 /\ w[i - 1] = CR
          /\ w[i] = CR => i > 1 /\ i < Len(w) /\ w[i - 1] \notin {CR, LF} /\ w[i + 1] = LF
    BY DEF Terminal
  <2> HIDE DEF w, n
  <2>3. ASSUME NEW k \in 1..n, k > 1 PROVE k - 1 \in 1..n /\ k - 1 \in 1..Len(w) /\ w[k - 1] = had[k - 1]
    BY <1>1, <2>1, <2>3
  <2>4. ASSUME NEW k \in 1..n PROVE k \in 1..Len(w) /\ w[k] = had[k]
    BY <1>1, <2>1
  <2>5. ASSUME NEW k \in 1..n, k > 1, had[k - 1] = CR PROVE had[k] = LF
    <3>1. w[(k - 1) + 1] = LF
      BY <2>2, <2>3, <2>5
    <3> QED
      BY <1>1, <2>4, <3>1
  <2> QED
    BY <2>2, <2>3, <2>4, <2>5
<1>5. CR # LF
  BY DEF CR, LF
<1> HIDE DEF M, part, n
<1>6. \A k \in 0..n : kept(k) \in Seq(Symbols)
  BY <1>1, <1>2, FlatType
<1>7. Good(0)
  <2>1. ~due(0) /\ Visible(part(0)) = << >> /\ kept(0) = << >>
    BY <1>1, FlatNothing DEF Visible
  <2> QED
    BY <2>1
<1>8. ASSUME NEW k \in 1..n, Good(k - 1) PROVE Good(k)
  <2> DEFINE c == had[k]
             p == part(k - 1)
             f == kept(k - 1)
             v == Visible(p)
  <2>1. c \in Symbols /\ p \in Seq(Symbols) /\ part(k) = Append(p, c) /\ f \in Seq(Symbols)
    BY <1>1, <1>6
  <2>2. v = IF due(k - 1) THEN Append(f, LF) ELSE f
    BY <1>8
  <2>3. kept(k) = f \o M[c]
    <3>1. f = Flat(p, M)
      OBVIOUS
    <3> HIDE DEF p, c, f
    <3>2. Flat(Append(p, c), M) = Flat(p, M) \o M[c]
      BY <1>2, <2>1, FlatAppend
    <3> QED
      BY <2>1, <3>1, <3>2
  <2>4. /\ c = CR => Visible(part(k)) = Append(v, LF)
        /\ c = LF => Visible(part(k)) = v
        /\ c \notin {CR, LF} => Visible(part(k)) = Append(v, c)
    <3> HIDE DEF c, p
    <3> QED
      BY <2>1, VisibleAppend DEF Texts
  <2>5. /\ c = LF => due(k - 1)
        /\ c # LF => ~due(k - 1)
    <3>1. /\ c = LF => k > 1 /\ had[k - 1] = CR
          /\ c = CR => k > 1 /\ had[k - 1] \notin {CR, LF}
          /\ k > 1 /\ had[k - 1] = CR => c = LF
      BY <1>4
    <3>2. k > 1 <=> k - 1 > 0
      BY <1>1
    <3> QED
      BY <3>1, <3>2
  <2>6. due(k) <=> c = CR
    <3>1. k > 0
      BY <1>1
    <3> QED
      BY <3>1
  <2>7. f \o << >> = f /\ f \o <<c>> = Append(f, c)
    <3> HIDE DEF f, c
    <3> QED
      BY <2>1
  <2>8. M[c] = IF c = CR THEN << >> ELSE <<c>>
    BY <1>2, <2>1
  <2> HIDE DEF f, v, c, kept, due
  <2> QED
    BY <1>5, <2>2, <2>3, <2>4, <2>5, <2>6, <2>7, <2>8
<1> HIDE DEF Good
<1>9. S \in SUBSET (0..n) /\ 0 \in S /\ \A k \in 1..n : k - 1 \in S => k \in S
  BY <1>1, <1>7, <1>8
<1> HIDE DEF S
<1>10. S = 0..n
  BY <1>1, <1>9, EveryPrefix
<1>11. Good(n)
  BY <1>1, <1>10 DEF S
<1>12. n > 0 <=> had # << >>
  BY DEF n, Texts
<1>13. kept(n) \in Texts /\ kept(n) = WithoutReturns(had)
  BY <1>1, <1>3, <1>6 DEF Texts
<1> QED
  BY <1>1, <1>11, <1>12, <1>13 DEF Good, n

(* On a terminal the rules are tried on the lines that were printed and    *)
(* echoed, apart from empty ones, for every plain program, all rules with  *)
(* plain answers and every way to cut the output into chunks.              *)
THEOREM TerminalLinesAreExact == Spec => []TerminalLinesExact
<1>1. ExecInv /\ TerminalInv => TerminalLinesExact
  <2> SUFFICES ASSUME ExecInv, TerminalInv, PlainCall, pc = "read"
               PROVE  JoinedNonEmpty(seen) \o buffer =
                          IF result.stdout # << >> /\ Last(result.stdout) = CR
                          THEN Append(WithoutReturns(result.stdout), LF)
                          ELSE WithoutReturns(result.stdout)
    BY DEF TerminalLinesExact, PlainCall
  <2> DEFINE had == result.stdout
  <2>1. had \in Texts /\ out \in Texts /\ written = had \o out
    BY DEF ExecInv, TypeOK, Results, OutputInv
  <2>2. Terminal(written) /\ JoinedNonEmpty(seen) \o buffer = Visible(had)
    BY DEF TerminalInv, LinesVisible
  <2> HIDE DEF had
  <2>3. Terminal(had \o out)
    BY <2>1, <2>2
  <2>4. Visible(had) = IF had # << >> /\ had[Len(had)] = CR THEN Append(WithoutReturns(had), LF)
                       ELSE WithoutReturns(had)
    BY <2>1, <2>3, VisibleIsPrinted
  <2> QED
    BY <2>2, <2>4 DEF had, Last
<1>2. Spec => []TerminalInv
  BY TerminalInit, TerminalStep, ExecInvariant, PTL DEF Spec
<1> QED
  BY <1>1, <1>2, ExecInvariant, PTL
=============================================================================
