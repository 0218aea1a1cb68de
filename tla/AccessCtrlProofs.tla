-------------------------- MODULE AccessCtrlProofs --------------------------
(***************************************************************************)
(* Proofs about AccessPolicy and AttributeLists.                           *)
(***************************************************************************)
EXTENDS AttributeLists, Foundations

\* The attribute items there can be.
AttrItems == [1 .. AttributeItemSize -> Byte]

----------------------------------------------------------------------------
(* The expressions *)

\* The definition of PoliciesOf by recursion defines a function.
LEMMA PoliciesOfDef ==
  \A d \in Nat : PoliciesOf[d] = Expressions(IF d = 0 THEN {} ELSE PoliciesOf[d - 1])
<1> DEFINE Good(g, n) == g = [d \in 0 .. n |-> Expressions(IF d = 0 THEN {} ELSE g[d - 1])]
           T == {n \in Nat : \E g : Good(g, n)}
<1>1. 0 \in T
  <2> DEFINE g == [d \in 0 .. 0 |-> Expressions({})]
  <2>1. Good(g, 0)
    OBVIOUS
  <2> QED BY <2>1
<1>2. ASSUME NEW n \in Nat, n \in T PROVE n + 1 \in T
  <2>1. PICK g : Good(g, n)
    BY <1>2
  <2> DEFINE h == [d \in 0 .. n + 1 |-> IF d <= n THEN g[d] ELSE Expressions(g[n])]
  <2>2. \A d \in 0 .. n : h[d] = g[d]
    OBVIOUS
  <2>3. h[n + 1] = Expressions(h[n])
    BY <2>2
  <2>4. ASSUME NEW d \in 0 .. n + 1
        PROVE  h[d] = Expressions(IF d = 0 THEN {} ELSE h[d - 1])
    <3>1. CASE d = n + 1
      BY <2>3, <3>1
    <3>2. CASE d # n + 1
      <4>1. d \in 0 .. n /\ (d # 0 => d - 1 \in 0 .. n)
        BY <3>2
      <4>2. g[d] = Expressions(IF d = 0 THEN {} ELSE g[d - 1])
        BY <2>1, <4>1
      <4> QED BY <2>2, <4>1, <4>2
    <3> QED BY <3>1, <3>2
  <2>5. h = [d \in 0 .. n + 1 |-> h[d]]
    OBVIOUS
  <2> HIDE DEF h
  <2>6. Good(h, n + 1)
    BY <2>4, <2>5
  <2> QED BY <2>6
<1>3. \A n \in Nat : \E g : Good(g, n)
  <2>1. \A n \in Nat : n \in T
    <3> HIDE DEF T
    <3> QED BY <1>1, <1>2, Induction
  <2> QED BY <2>1
<1> DEFINE G == [n \in Nat |-> CHOOSE g : Good(g, n)]
<1>4. ASSUME NEW n \in Nat, NEW d \in 0 .. n
      PROVE  G[n][d] = Expressions(IF d = 0 THEN {} ELSE G[n][d - 1])
  <2>1. Good(G[n], n)
    BY <1>3
  <2> HIDE DEF G
  <2> QED BY <2>1
<1> HIDE DEF G
\* They agree.
<1> DEFINE U == {d \in Nat : \A n \in Nat : d <= n => G[n][d] = G[d][d]}
<1>5. ASSUME NEW d \in Nat, d > 0 => d - 1 \in U PROVE d \in U
  <2> SUFFICES ASSUME NEW n \in Nat, d <= n PROVE G[n][d] = G[d][d]
    OBVIOUS
  <2>1. G[n][d] = Expressions(IF d = 0 THEN {} ELSE G[n][d - 1])
    BY <1>4
  <2>2. G[d][d] = Expressions(IF d = 0 THEN {} ELSE G[d][d - 1])
    BY <1>4
  <2>3. d > 0 => G[n][d - 1] = G[d][d - 1]
    BY <1>5
  <2> QED BY <2>1, <2>2, <2>3
<1>6. \A d \in Nat : d \in U
  <2>1. 0 \in U
    BY <1>5
  <2>2. \A n \in Nat : n \in U => n + 1 \in U
    BY <1>5
  <2> HIDE DEF U
  <2> QED BY <2>1, <2>2, Induction
<1> DEFINE Right(f) == f = [d \in Nat |-> Expressions(IF d = 0 THEN {} ELSE f[d - 1])]
           f == [d \in Nat |-> G[d][d]]
<1>7. ASSUME NEW d \in Nat PROVE f[d] = Expressions(IF d = 0 THEN {} ELSE f[d - 1])
  <2>1. G[d][d] = Expressions(IF d = 0 THEN {} ELSE G[d][d - 1])
    BY <1>4
  <2>2. d > 0 => G[d][d - 1] = G[d - 1][d - 1]
    BY <1>6
  <2> QED BY <2>1, <2>2
<1>8. f = [d \in Nat |-> f[d]]
  OBVIOUS
<1> HIDE DEF f
<1>9. Right(f)
  BY <1>7, <1>8
<1>10. PoliciesOf = CHOOSE g : Right(g)
  BY DEF PoliciesOf
<1>11. Right(PoliciesOf)
  BY <1>9, <1>10
<1> QED BY <1>11

\* The operands of an expression are a level less deep.
LEMMA PoliciesShape ==
  ASSUME NEW d \in Nat, NEW p \in PoliciesOf[d]
  PROVE  \/ p = AbPolicyAny
         \/ \E item \in AttrItems : p = AbPolicyAttribute(item)
         \/ d > 0 /\ \E flag \in {AndFlag, OrFlag} : \E left, right \in PoliciesOf[d - 1] :
              p = AbPolicyBinaryOp(flag, left, right)
         \/ d > 0 /\ \E var \in PoliciesOf[d - 1] : p = AbPolicyNot(var)
<1>1. p \in Expressions(IF d = 0 THEN {} ELSE PoliciesOf[d - 1])
  BY PoliciesOfDef
<1> QED BY <1>1 DEF Expressions, AbPolicyAny, AbPolicyAttribute, AbPolicyBinaryOp, AbPolicyNot, AttrItems

\* What can be made of expressions of some depth is of the next depth.
LEMMA PoliciesMade ==
  \A d \in Nat :
    /\ AbPolicyAny \in PoliciesOf[d]
    /\ \A item \in AttrItems : AbPolicyAttribute(item) \in PoliciesOf[d]
    /\ \A flag \in {AndFlag, OrFlag}, left \in PoliciesOf[d], right \in PoliciesOf[d] :
         AbPolicyBinaryOp(flag, left, right) \in PoliciesOf[d + 1]
    /\ \A var \in PoliciesOf[d] : AbPolicyNot(var) \in PoliciesOf[d + 1]
<1> TAKE d \in Nat
<1>1. /\ AbPolicyAny \in PoliciesOf[d]
      /\ \A item \in AttrItems : AbPolicyAttribute(item) \in PoliciesOf[d]
  BY PoliciesOfDef DEF Expressions, AbPolicyAny, AbPolicyAttribute, AttrItems
<1>2. PoliciesOf[d + 1] = Expressions(PoliciesOf[d])
  BY PoliciesOfDef
<1> QED BY <1>1, <1>2 DEF Expressions, AbPolicyBinaryOp, AbPolicyNot

\* Whatever is of some depth at most is so of the next.
LEMMA PoliciesGrow ==
  \A d \in Nat : \A e \in 0 .. d : PoliciesOf[e] \subseteq PoliciesOf[d]
<1> DEFINE T == {d \in Nat : PoliciesOf[d] \subseteq PoliciesOf[d + 1]}
<1>1. ASSUME NEW d \in Nat, d > 0 => d - 1 \in T PROVE d \in T
  <2> SUFFICES ASSUME NEW p \in PoliciesOf[d] PROVE p \in PoliciesOf[d + 1]
    OBVIOUS
  <2>1. d > 0 => PoliciesOf[d - 1] \subseteq PoliciesOf[d]
    BY <1>1
  <2>2. CASE p = AbPolicyAny \/ \E item \in AttrItems : p = AbPolicyAttribute(item)
    BY <2>2, PoliciesMade
  <2>3. CASE d > 0 /\ \E flag \in {AndFlag, OrFlag} : \E left, right \in PoliciesOf[d - 1] :
                  p = AbPolicyBinaryOp(flag, left, right)
    BY <2>1, <2>3, PoliciesMade
  <2>4. CASE d > 0 /\ \E var \in PoliciesOf[d - 1] : p = AbPolicyNot(var)
    BY <2>1, <2>4, PoliciesMade
  <2> QED BY <2>2, <2>3, <2>4, PoliciesShape
<1>2. \A d \in Nat : d \in T
  <2>1. 0 \in T
    BY <1>1
  <2>2. \A n \in Nat : n \in T => n + 1 \in T
    BY <1>1
  <2> HIDE DEF T
  <2> QED BY <2>1, <2>2, Induction
<1> DEFINE U == {d \in Nat : \A e \in 0 .. d : PoliciesOf[e] \subseteq PoliciesOf[d]}
<1>3. 0 \in U
  OBVIOUS
<1>4. ASSUME NEW d \in Nat, d \in U PROVE d + 1 \in U
  <2> SUFFICES ASSUME NEW e \in 0 .. d + 1 PROVE PoliciesOf[e] \subseteq PoliciesOf[d + 1]
    OBVIOUS
  <2>1. PoliciesOf[d] \subseteq PoliciesOf[d + 1]
    BY <1>2
  <2> QED BY <1>4, <2>1
<1>5. \A d \in Nat : d \in U
  <2> HIDE DEF U
  <2> QED BY <1>3, <1>4, Induction
<1> QED BY <1>5

\* An expression is of one of the classes, its operands are expressions.
LEMMA PolicyShape ==
  ASSUME NEW p \in Policies
  PROVE  \/ p = AbPolicyAny
         \/ \E item \in AttrItems : p = AbPolicyAttribute(item)
         \/ \E flag \in {AndFlag, OrFlag} : \E left, right \in Policies :
              p = AbPolicyBinaryOp(flag, left, right)
         \/ \E var \in Policies : p = AbPolicyNot(var)
<1>1. MaxDepth \in 0 .. MaxDepth /\ MaxDepth - 1 \in 0 .. MaxDepth
  BY DepthAssumption
<1>2. PoliciesOf[MaxDepth - 1] \subseteq Policies
  BY <1>1, PoliciesGrow DEF Policies
<1> QED BY <1>1, <1>2, PoliciesShape DEF Policies

\* Induction over expressions: a set has them all if it has what can be made of its own.
LEMMA PolicyInduction ==
  ASSUME NEW T,
         AbPolicyAny \in T,
         \A item \in AttrItems : AbPolicyAttribute(item) \in T,
         \A flag \in {AndFlag, OrFlag}, left \in Policies \cap T, right \in Policies \cap T :
           AbPolicyBinaryOp(flag, left, right) \in Policies => AbPolicyBinaryOp(flag, left, right) \in T,
         \A var \in Policies \cap T : AbPolicyNot(var) \in Policies => AbPolicyNot(var) \in T
  PROVE  \A p \in Policies : p \in T
<1> DEFINE U == {d \in Nat : d <= MaxDepth => PoliciesOf[d] \subseteq T}
<1>1. ASSUME NEW d \in Nat, d > 0 => d - 1 \in U PROVE d \in U
  <2> SUFFICES ASSUME d <= MaxDepth, NEW p \in PoliciesOf[d] PROVE p \in T
    OBVIOUS
  <2>1. d \in 0 .. MaxDepth /\ MaxDepth \in 0 .. MaxDepth /\ (d > 0 => d - 1 \in 0 .. MaxDepth)
    BY DepthAssumption
  <2>2. d > 0 => PoliciesOf[d - 1] \subseteq T \cap Policies
    BY <1>1, <2>1, PoliciesGrow DEF Policies
  <2>3. p \in Policies
    BY <2>1, PoliciesGrow DEF Policies
  <2>4. CASE d > 0 /\ \E flag \in {AndFlag, OrFlag} : \E left, right \in PoliciesOf[d - 1] :
                  p = AbPolicyBinaryOp(flag, left, right)
    BY <2>2, <2>3, <2>4
  <2>5. CASE d > 0 /\ \E var \in PoliciesOf[d - 1] : p = AbPolicyNot(var)
    BY <2>2, <2>3, <2>5
  <2> QED BY <2>1, <2>4, <2>5, PoliciesShape
<1>2. \A d \in Nat : d \in U
  <2>1. 0 \in U
    BY <1>1
  <2>2. \A n \in Nat : n \in U => n + 1 \in U
    BY <1>1
  <2> HIDE DEF U
  <2> QED BY <2>1, <2>2, Induction
<1> QED BY <1>2, DepthAssumption DEF Policies

\* A function of expressions can be defined by what it makes of its values at the operands.
Made(any, attr, binary, not, f, p) ==
  ByClass(p.flag, any, attr[p.attr], binary[<<p.flag, f[p.left], f[p.right]>>], not[f[p.var]])

\* The methods of AbPolicyAny, AbPolicyAttribute and AbPolicyNot are called for their flags.
LEMMA OfClass ==
  ASSUME NEW any, NEW attr, NEW binary, NEW not
  PROVE  /\ ByClass(AnyFlag, any, attr, binary, not) = any
         /\ ByClass(AttributeFlag, any, attr, binary, not) = attr
         /\ ByClass(NotFlag, any, attr, binary, not) = not
BY DEF ByClass, AnyFlag, AttributeFlag, AndFlag, OrFlag, NotFlag

\* Those of the operators & and | for theirs.
LEMMA OfBinary ==
  ASSUME NEW any, NEW attr, NEW binary, NEW not, NEW flag, flag \in {AndFlag, OrFlag}
  PROVE  ByClass(flag, any, attr, binary, not) = binary
BY DEF ByClass, AnyFlag, AttributeFlag, AndFlag, OrFlag, NotFlag

\* What a function makes of the expression that permits everything.
LEMMA MadeOfAny ==
  ASSUME NEW any, NEW attr, NEW binary, NEW not, NEW f
  PROVE  Made(any, attr, binary, not, f, AbPolicyAny) = any
BY OfClass DEF Made, AbPolicyAny

\* What it makes of an attribute.
LEMMA MadeOfAttribute ==
  ASSUME NEW any, NEW attr, NEW binary, NEW not, NEW f, NEW item
  PROVE  Made(any, attr, binary, not, f, AbPolicyAttribute(item)) = attr[item]
BY OfClass DEF Made, AbPolicyAttribute

\* What it makes of two operands, given its values there.
LEMMA MadeOfBinary ==
  ASSUME NEW any, NEW attr, NEW binary, NEW not, NEW f, NEW flag, NEW left, NEW right,
         flag \in {AndFlag, OrFlag}
  PROVE  Made(any, attr, binary, not, f, AbPolicyBinaryOp(flag, left, right))
           = binary[<<flag, f[left], f[right]>>]
BY OfBinary DEF Made, AbPolicyBinaryOp

\* What it makes of a negation, given its value at the operand.
LEMMA MadeOfNot ==
  ASSUME NEW any, NEW attr, NEW binary, NEW not, NEW f, NEW var
  PROVE  Made(any, attr, binary, not, f, AbPolicyNot(var)) = not[f[var]]
BY OfClass DEF Made, AbPolicyNot

\* What it makes of them are values again.
Methods(V, any, attr, binary, not) ==
  /\ any \in V /\ attr \in [AttrItems -> V]
  /\ binary \in [{AndFlag, OrFlag} \X V \X V -> V] /\ not \in [V -> V]

\* f is what the methods define.
IsDefinedBy(f, V, any, attr, binary, not) ==
  f \in [Policies -> V] /\ \A p \in Policies : f[p] = Made(any, attr, binary, not, f, p)

\* Methods for the classes of expressions define a function of all expressions.
LEMMA PolicyRecursion ==
  ASSUME NEW V, NEW any, NEW attr, NEW binary, NEW not, Methods(V, any, attr, binary, not)
  PROVE  \E f : IsDefinedBy(f, V, any, attr, binary, not)
<1> USE DEF Methods
<1> DEFINE stage == [n \in Nat |-> IF n <= MaxDepth THEN PoliciesOf[n] ELSE {}]
           step == [t \in [Policies -> V] \X Policies |-> Made(any, attr, binary, not, t[1], t[2])]
<1>1. \A f \in [Policies -> V], p \in Policies : step[<<f, p>>] = Made(any, attr, binary, not, f, p)
  OBVIOUS
<1>2. stage \in [Nat -> SUBSET Policies]
  BY PoliciesGrow, DepthAssumption DEF Policies
<1>3. Policies = UNION {stage[n] : n \in Nat}
  <2>1. MaxDepth \in Nat /\ stage[MaxDepth] = Policies
    BY DepthAssumption DEF Policies
  <2> HIDE DEF stage
  <2>2. \A n \in Nat : stage[n] \subseteq Policies
    BY <1>2
  <2> QED BY <2>1, <2>2
<1>4. ASSUME NEW f \in [Policies -> V], NEW p \in Policies
      PROVE  Made(any, attr, binary, not, f, p) \in V
  <2>1. CASE p = AbPolicyAny
    BY <2>1, MadeOfAny
  <2>2. ASSUME NEW item \in AttrItems, p = AbPolicyAttribute(item)
        PROVE  Made(any, attr, binary, not, f, p) \in V
    <3>1. Made(any, attr, binary, not, f, p) = attr[item]
      BY <2>2, MadeOfAttribute
    <3> QED BY <3>1
  <2>3. ASSUME NEW flag \in {AndFlag, OrFlag}, NEW left \in Policies, NEW right \in Policies,
               p = AbPolicyBinaryOp(flag, left, right)
        PROVE  Made(any, attr, binary, not, f, p) \in V
    <3>1. Made(any, attr, binary, not, f, AbPolicyBinaryOp(flag, left, right))
            = binary[<<flag, f[left], f[right]>>]
      BY MadeOfBinary
    <3> QED BY <2>3, <3>1
  <2>4. ASSUME NEW var \in Policies, p = AbPolicyNot(var)
        PROVE  Made(any, attr, binary, not, f, p) \in V
    <3>1. Made(any, attr, binary, not, f, p) = not[f[var]]
      BY <2>4, MadeOfNot
    <3> QED BY <3>1
  <2> QED BY <2>1, <2>2, <2>3, <2>4, PolicyShape
<1>5. ASSUME NEW n \in Nat, NEW p \in stage[n], NEW f \in [Policies -> V], NEW g \in [Policies -> V],
             \A m \in 0 .. n - 1 : \A q \in stage[m] : f[q] = g[q]
      PROVE  step[<<f, p>>] = step[<<g, p>>]
  <2>0. n \in 0 .. MaxDepth /\ p \in PoliciesOf[n]
    BY DepthAssumption
  <2>1. p \in Policies
    BY <1>2
  <2>2. n > 0 => \A q \in PoliciesOf[n - 1] : f[q] = g[q]
    <3>1. n > 0 => n - 1 \in 0 .. n - 1 /\ stage[n - 1] = PoliciesOf[n - 1]
      BY <2>0, DepthAssumption
    <3> QED BY <1>5, <3>1
  <2>3. Made(any, attr, binary, not, f, p) = Made(any, attr, binary, not, g, p)
    <3>1. CASE p = AbPolicyAny
      BY <3>1, MadeOfAny
    <3>2. ASSUME NEW item \in AttrItems, p = AbPolicyAttribute(item)
          PROVE  Made(any, attr, binary, not, f, p) = Made(any, attr, binary, not, g, p)
      BY <3>2, MadeOfAttribute
    <3>3. ASSUME n > 0, NEW flag \in {AndFlag, OrFlag},
                 NEW left \in PoliciesOf[n - 1], NEW right \in PoliciesOf[n - 1],
                 p = AbPolicyBinaryOp(flag, left, right)
          PROVE  Made(any, attr, binary, not, f, p) = Made(any, attr, binary, not, g, p)
      <4>1. f[left] = g[left] /\ f[right] = g[right]
        BY <2>2, <3>3
      <4>2. /\ Made(any, attr, binary, not, f, AbPolicyBinaryOp(flag, left, right))
                 = binary[<<flag, f[left], f[right]>>]
            /\ Made(any, attr, binary, not, g, AbPolicyBinaryOp(flag, left, right))
                 = binary[<<flag, g[left], g[right]>>]
        BY MadeOfBinary
      <4> QED BY <3>3, <4>1, <4>2
    <3>4. ASSUME n > 0, NEW var \in PoliciesOf[n - 1], p = AbPolicyNot(var)
          PROVE  Made(any, attr, binary, not, f, p) = Made(any, attr, binary, not, g, p)
      BY <2>2, <3>4, MadeOfNot
    <3> QED BY <2>0, <3>1, <3>2, <3>3, <3>4, PoliciesShape
  <2> HIDE DEF step
  <2> QED BY <1>1, <2>1, <2>3
<1> HIDE DEF stage, step
<1>6. LooksBack(Policies, V, stage, step)
  BY <1>5 DEF LooksBack
<1>7. \A f \in [Policies -> V], p \in Policies : step[<<f, p>>] \in V
  BY <1>1, <1>4
<1>8. IsRecursion(Policies, V, stage, step)
  BY <1>2, <1>3, <1>6, <1>7 DEF IsRecursion
<1>9. \E f \in [Policies -> V] : \A p \in Policies : f[p] = step[<<f, p>>]
  BY <1>8, Recursion
<1> QED BY <1>1, <1>9 DEF IsDefinedBy

\* GetSerializedSize of every class.
LEMMA SerializedSizeDef ==
  /\ \A p \in Policies : SerializedSize[p] \in Nat
  /\ SerializedSize[AbPolicyAny] = 1
  /\ \A item \in AttrItems : SerializedSize[AbPolicyAttribute(item)] = 1 + AttributeItemSize
  /\ \A flag \in {AndFlag, OrFlag}, left \in Policies, right \in Policies :
       AbPolicyBinaryOp(flag, left, right) \in Policies =>
         SerializedSize[AbPolicyBinaryOp(flag, left, right)] = 1 + SerializedSize[left] + SerializedSize[right]
  /\ \A var \in Policies :
       AbPolicyNot(var) \in Policies => SerializedSize[AbPolicyNot(var)] = 1 + SerializedSize[var]
<1> DEFINE Vals == Nat
           OfAny == 1
           OfAttribute(item) == 1 + AttributeItemSize
           OfBoth(flag, left, right) == 1 + left + right
           OfOne(flag, var) == 1 + var
           attr == [item \in AttrItems |-> OfAttribute(item)]
           binary == [t \in {AndFlag, OrFlag} \X Vals \X Vals |-> OfBoth(t[1], t[2], t[3])]
           not == [v \in Vals |-> OfOne(NotFlag, v)]
           Body(g, p) == ByClass(p.flag, OfAny, OfAttribute(p.attr),
                                 OfBoth(p.flag, g[p.left], g[p.right]), OfOne(p.flag, g[p.var]))
           Right(g) == g = [p \in Policies |-> Body(g, p)]
           F == CHOOSE g : Right(g)
<1>1. OfAny \in Vals /\ \A item \in AttrItems : OfAttribute(item) \in Vals
  BY SizeAssumption DEF AttributeItemSize
<1>2. \A flag \in {AndFlag, OrFlag}, l \in Vals, r \in Vals : OfBoth(flag, l, r) \in Vals
  OBVIOUS
<1>3. \A v \in Vals : OfOne(NotFlag, v) \in Vals
  OBVIOUS
<1>4. SerializedSize = F
  BY DEF SerializedSize, SizeOfBinaryOp, SizeOfUnaryOp
<1> HIDE DEF Vals, OfAny, OfAttribute, OfBoth, OfOne
<1>5. Methods(Vals, OfAny, attr, binary, not)
  BY <1>1, <1>2, <1>3 DEF Methods
<1>6. PICK f : IsDefinedBy(f, Vals, OfAny, attr, binary, not)
  <2> HIDE DEF attr, binary, not
  <2> QED BY <1>5, PolicyRecursion
<1>7. /\ \A g : Body(g, AbPolicyAny) = OfAny
      /\ \A g : \A item \in AttrItems : Body(g, AbPolicyAttribute(item)) = OfAttribute(item)
  BY OfClass DEF AbPolicyAny, AbPolicyAttribute
<1>8. ASSUME NEW g, NEW flag \in {AndFlag, OrFlag}, NEW left, NEW right
      PROVE  Body(g, AbPolicyBinaryOp(flag, left, right)) = OfBoth(flag, g[left], g[right])
  BY OfBinary DEF AbPolicyBinaryOp
<1>9. ASSUME NEW g, NEW var PROVE Body(g, AbPolicyNot(var)) = OfOne(NotFlag, g[var])
  BY OfClass DEF AbPolicyNot
<1> HIDE DEF Body
<1>10. ASSUME NEW p \in Policies PROVE f[p] = Body(f, p)
  <2>0. f[p] = Made(OfAny, attr, binary, not, f, p) /\ \A q \in Policies : f[q] \in Vals
    BY <1>6 DEF IsDefinedBy
  <2>1. CASE p = AbPolicyAny
    BY <2>0, <2>1, <1>7, MadeOfAny
  <2>2. ASSUME NEW item \in AttrItems, p = AbPolicyAttribute(item) PROVE f[p] = Body(f, p)
    <3>1. attr[item] = OfAttribute(item)
      OBVIOUS
    <3> HIDE DEF attr, binary, not
    <3>2. f[p] = attr[item]
      BY <2>0, <2>2, MadeOfAttribute
    <3> QED BY <3>1, <3>2, <2>2, <1>7
  <2>3. ASSUME NEW flag \in {AndFlag, OrFlag}, NEW left \in Policies, NEW right \in Policies,
               p = AbPolicyBinaryOp(flag, left, right)
        PROVE  f[p] = Body(f, p)
    <3>1. binary[<<flag, f[left], f[right]>>] = OfBoth(flag, f[left], f[right])
      BY <2>0
    <3> HIDE DEF attr, binary, not
    <3>2. Made(OfAny, attr, binary, not, f, AbPolicyBinaryOp(flag, left, right))
            = binary[<<flag, f[left], f[right]>>]
      BY MadeOfBinary
    <3> QED BY <2>0, <2>3, <3>1, <3>2, <1>8
  <2>4. ASSUME NEW var \in Policies, p = AbPolicyNot(var) PROVE f[p] = Body(f, p)
    <3>1. not[f[var]] = OfOne(NotFlag, f[var])
      BY <2>0
    <3> HIDE DEF attr, binary, not
    <3>2. f[p] = not[f[var]]
      BY <2>0, <2>4, MadeOfNot
    <3> QED BY <3>1, <3>2, <2>4, <1>9
  <2> HIDE DEF attr, binary, not
  <2> QED BY <2>1, <2>2, <2>3, <2>4, PolicyShape
<1>11. Right(f)
  BY <1>6, <1>10 DEF IsDefinedBy
<1>12. Right(F)
  BY <1>11
<1> HIDE DEF F, attr, binary, not
<1>13. \A p \in Policies : F[p] = Body(F, p)
  BY <1>12
<1>14. AbPolicyAny \in Policies /\ \A item \in AttrItems : AbPolicyAttribute(item) \in Policies
  BY PoliciesMade, DepthAssumption DEF Policies
<1>15. \A flag \in {AndFlag, OrFlag}, left \in Policies, right \in Policies :
         AbPolicyBinaryOp(flag, left, right) \in Policies =>
           F[AbPolicyBinaryOp(flag, left, right)] = OfBoth(flag, F[left], F[right])
  BY <1>8, <1>13
<1>16. \A var \in Policies : AbPolicyNot(var) \in Policies => F[AbPolicyNot(var)] = OfOne(NotFlag, F[var])
  BY <1>9, <1>13
<1> DEFINE T == {p \in Policies : F[p] \in Vals}
<1>17. \A p \in Policies : p \in T
  <2>1. AbPolicyAny \in T /\ \A item \in AttrItems : AbPolicyAttribute(item) \in T
    BY <1>1, <1>7, <1>13, <1>14
  <2>2. ASSUME NEW flag \in {AndFlag, OrFlag}, NEW left \in Policies \cap T, NEW right \in Policies \cap T,
               AbPolicyBinaryOp(flag, left, right) \in Policies
        PROVE  AbPolicyBinaryOp(flag, left, right) \in T
    BY <2>2, <1>2, <1>15
  <2>3. ASSUME NEW var \in Policies \cap T, AbPolicyNot(var) \in Policies PROVE AbPolicyNot(var) \in T
    BY <2>3, <1>3, <1>16
  <2> HIDE DEF T
  <2> QED BY <2>1, <2>2, <2>3, PolicyInduction
<1>18. /\ \A p \in Policies : F[p] \in Vals
       /\ F[AbPolicyAny] = OfAny
       /\ \A item \in AttrItems : F[AbPolicyAttribute(item)] = OfAttribute(item)
  BY <1>7, <1>13, <1>14, <1>17
<1> QED BY <1>4, <1>15, <1>16, <1>18 DEF Vals, OfAny, OfAttribute, OfBoth, OfOne

\* Serialize of every class.
LEMMA SerializeDef ==
  /\ \A p \in Policies : Serialize[p] \in Seq(Byte)
  /\ Serialize[AbPolicyAny] = <<AnyFlag>>
  /\ \A item \in AttrItems : Serialize[AbPolicyAttribute(item)] = <<AttributeFlag>> \o item
  /\ \A flag \in {AndFlag, OrFlag}, left \in Policies, right \in Policies :
       AbPolicyBinaryOp(flag, left, right) \in Policies =>
         Serialize[AbPolicyBinaryOp(flag, left, right)] = <<flag>> \o Serialize[left] \o Serialize[right]
  /\ \A var \in Policies :
       AbPolicyNot(var) \in Policies => Serialize[AbPolicyNot(var)] = <<NotFlag>> \o Serialize[var]
<1> DEFINE Vals == Seq(Byte)
           OfAny == <<AnyFlag>>
           OfAttribute(item) == <<AttributeFlag>> \o item
           OfBoth(flag, left, right) == <<flag>> \o left \o right
           OfOne(flag, var) == <<flag>> \o var
           attr == [item \in AttrItems |-> OfAttribute(item)]
           binary == [t \in {AndFlag, OrFlag} \X Vals \X Vals |-> OfBoth(t[1], t[2], t[3])]
           not == [v \in Vals |-> OfOne(NotFlag, v)]
           Body(g, p) == ByClass(p.flag, OfAny, OfAttribute(p.attr),
                                 OfBoth(p.flag, g[p.left], g[p.right]), OfOne(p.flag, g[p.var]))
           Right(g) == g = [p \in Policies |-> Body(g, p)]
           F == CHOOSE g : Right(g)
<1>1. OfAny \in Vals /\ \A item \in AttrItems : OfAttribute(item) \in Vals
  BY SizeAssumption DEF AttrItems, AttributeItemSize, Byte, AnyFlag, AttributeFlag
<1>2. \A flag \in {AndFlag, OrFlag}, l \in Vals, r \in Vals : OfBoth(flag, l, r) \in Vals
  BY DEF Byte, AndFlag, OrFlag
<1>3. \A v \in Vals : OfOne(NotFlag, v) \in Vals
  BY DEF Byte, NotFlag
<1>4. Serialize = F
  BY DEF Serialize, SerializeBinaryOp, SerializeUnaryOp
<1> HIDE DEF Vals, OfAny, OfAttribute, OfBoth, OfOne
<1>5. Methods(Vals, OfAny, attr, binary, not)
  BY <1>1, <1>2, <1>3 DEF Methods
<1>6. PICK f : IsDefinedBy(f, Vals, OfAny, attr, binary, not)
  <2> HIDE DEF attr, binary, not
  <2> QED BY <1>5, PolicyRecursion
<1>7. /\ \A g : Body(g, AbPolicyAny) = OfAny
      /\ \A g : \A item \in AttrItems : Body(g, AbPolicyAttribute(item)) = OfAttribute(item)
  BY OfClass DEF AbPolicyAny, AbPolicyAttribute
<1>8. ASSUME NEW g, NEW flag \in {AndFlag, OrFlag}, NEW left, NEW right
      PROVE  Body(g, AbPolicyBinaryOp(flag, left, right)) = OfBoth(flag, g[left], g[right])
  BY OfBinary DEF AbPolicyBinaryOp
<1>9. ASSUME NEW g, NEW var PROVE Body(g, AbPolicyNot(var)) = OfOne(NotFlag, g[var])
  BY OfClass DEF AbPolicyNot
<1> HIDE DEF Body
<1>10. ASSUME NEW p \in Policies PROVE f[p] = Body(f, p)
  <2>0. f[p] = Made(OfAny, attr, binary, not, f, p) /\ \A q \in Policies : f[q] \in Vals
    BY <1>6 DEF IsDefinedBy
  <2>1. CASE p = AbPolicyAny
    BY <2>0, <2>1, <1>7, MadeOfAny
  <2>2. ASSUME NEW item \in AttrItems, p = AbPolicyAttribute(item) PROVE f[p] = Body(f, p)
    <3>1. attr[item] = OfAttribute(item)
      OBVIOUS
    <3> HIDE DEF attr, binary, not
    <3>2. f[p] = attr[item]
      BY <2>0, <2>2, MadeOfAttribute
    <3> QED BY <3>1, <3>2, <2>2, <1>7
  <2>3. ASSUME NEW flag \in {AndFlag, OrFlag}, NEW left \in Policies, NEW right \in Policies,
               p = AbPolicyBinaryOp(flag, left, right)
        PROVE  f[p] = Body(f, p)
    <3>1. binary[<<flag, f[left], f[right]>>] = OfBoth(flag, f[left], f[right])
      BY <2>0
    <3> HIDE DEF attr, binary, not
    <3>2. Made(OfAny, attr, binary, not, f, AbPolicyBinaryOp(flag, left, right))
            = binary[<<flag, f[left], f[right]>>]
      BY MadeOfBinary
    <3> QED BY <2>0, <2>3, <3>1, <3>2, <1>8
  <2>4. ASSUME NEW var \in Policies, p = AbPolicyNot(var) PROVE f[p] = Body(f, p)
    <3>1. not[f[var]] = OfOne(NotFlag, f[var])
      BY <2>0
    <3> HIDE DEF attr, binary, not
    <3>2. f[p] = not[f[var]]
      BY <2>0, <2>4, MadeOfNot
    <3> QED BY <3>1, <3>2, <2>4, <1>9
  <2> HIDE DEF attr, binary, not
  <2> QED BY <2>1, <2>2, <2>3, <2>4, PolicyShape
<1>11. Right(f)
  BY <1>6, <1>10 DEF IsDefinedBy
<1>12. Right(F)
  BY <1>11
<1> HIDE DEF F, attr, binary, not
<1>13. \A p \in Policies : F[p] = Body(F, p)
  BY <1>12
<1>14. AbPolicyAny \in Policies /\ \A item \in AttrItems : AbPolicyAttribute(item) \in Policies
  BY PoliciesMade, DepthAssumption DEF Policies
<1>15. \A flag \in {AndFlag, OrFlag}, left \in Policies, right \in Policies :
         AbPolicyBinaryOp(flag, left, right) \in Policies =>
           F[AbPolicyBinaryOp(flag, left, right)] = OfBoth(flag, F[left], F[right])
  BY <1>8, <1>13
<1>16. \A var \in Policies : AbPolicyNot(var) \in Policies => F[AbPolicyNot(var)] = OfOne(NotFlag, F[var])
  BY <1>9, <1>13
<1> DEFINE T == {p \in Policies : F[p] \in Vals}
<1>17. \A p \in Policies : p \in T
  <2>1. AbPolicyAny \in T /\ \A item \in AttrItems : AbPolicyAttribute(item) \in T
    BY <1>1, <1>7, <1>13, <1>14
  <2>2. ASSUME NEW flag \in {AndFlag, OrFlag}, NEW left \in Policies \cap T, NEW right \in Policies \cap T,
               AbPolicyBinaryOp(flag, left, right) \in Policies
        PROVE  AbPolicyBinaryOp(flag, left, right) \in T
    BY <2>2, <1>2, <1>15
  <2>3. ASSUME NEW var \in Policies \cap T, AbPolicyNot(var) \in Policies PROVE AbPolicyNot(var) \in T
    BY <2>3, <1>3, <1>16
  <2> HIDE DEF T
  <2> QED BY <2>1, <2>2, <2>3, PolicyInduction
<1>18. /\ \A p \in Policies : F[p] \in Vals
       /\ F[AbPolicyAny] = OfAny
       /\ \A item \in AttrItems : F[AbPolicyAttribute(item)] = OfAttribute(item)
  BY <1>7, <1>13, <1>14, <1>17
<1> QED BY <1>4, <1>15, <1>16, <1>18 DEF Vals, OfAny, OfAttribute, OfBoth, OfOne

\* GetRelatedAttributes of every class.
LEMMA RelatedAttributesDef ==
  /\ \A p \in Policies : RelatedAttributes[p] \in SUBSET AttrItems
  /\ RelatedAttributes[AbPolicyAny] = {}
  /\ \A item \in AttrItems : RelatedAttributes[AbPolicyAttribute(item)] = {item}
  /\ \A flag \in {AndFlag, OrFlag}, left \in Policies, right \in Policies :
       AbPolicyBinaryOp(flag, left, right) \in Policies =>
         RelatedAttributes[AbPolicyBinaryOp(flag, left, right)] = RelatedAttributes[left] \cup RelatedAttributes[right]
  /\ \A var \in Policies :
       AbPolicyNot(var) \in Policies => RelatedAttributes[AbPolicyNot(var)] = RelatedAttributes[var]
<1> DEFINE Vals == SUBSET AttrItems
           OfAny == {}
           OfAttribute(item) == {item}
           OfBoth(flag, left, right) == left \cup right
           OfOne(flag, var) == var
           attr == [item \in AttrItems |-> OfAttribute(item)]
           binary == [t \in {AndFlag, OrFlag} \X Vals \X Vals |-> OfBoth(t[1], t[2], t[3])]
           not == [v \in Vals |-> OfOne(NotFlag, v)]
           Body(g, p) == ByClass(p.flag, OfAny, OfAttribute(p.attr),
                                 OfBoth(p.flag, g[p.left], g[p.right]), OfOne(p.flag, g[p.var]))
           Right(g) == g = [p \in Policies |-> Body(g, p)]
           F == CHOOSE g : Right(g)
<1>1. OfAny \in Vals /\ \A item \in AttrItems : OfAttribute(item) \in Vals
  OBVIOUS
<1>2. \A flag \in {AndFlag, OrFlag}, l \in Vals, r \in Vals : OfBoth(flag, l, r) \in Vals
  OBVIOUS
<1>3. \A v \in Vals : OfOne(NotFlag, v) \in Vals
  OBVIOUS
<1>4. RelatedAttributes = F
  BY DEF RelatedAttributes, RelatedToBinaryOp
<1> HIDE DEF Vals, OfAny, OfAttribute, OfBoth, OfOne
<1>5. Methods(Vals, OfAny, attr, binary, not)
  BY <1>1, <1>2, <1>3 DEF Methods
<1>6. PICK f : IsDefinedBy(f, Vals, OfAny, attr, binary, not)
  <2> HIDE DEF attr, binary, not
  <2> QED BY <1>5, PolicyRecursion
<1>7. /\ \A g : Body(g, AbPolicyAny) = OfAny
      /\ \A g : \A item \in AttrItems : Body(g, AbPolicyAttribute(item)) = OfAttribute(item)
  BY OfClass DEF AbPolicyAny, AbPolicyAttribute
<1>8. ASSUME NEW g, NEW flag \in {AndFlag, OrFlag}, NEW left, NEW right
      PROVE  Body(g, AbPolicyBinaryOp(flag, left, right)) = OfBoth(flag, g[left], g[right])
  BY OfBinary DEF AbPolicyBinaryOp
<1>9. ASSUME NEW g, NEW var PROVE Body(g, AbPolicyNot(var)) = OfOne(NotFlag, g[var])
  BY OfClass DEF AbPolicyNot
<1> HIDE DEF Body
<1>10. ASSUME NEW p \in Policies PROVE f[p] = Body(f, p)
  <2>0. f[p] = Made(OfAny, attr, binary, not, f, p) /\ \A q \in Policies : f[q] \in Vals
    BY <1>6 DEF IsDefinedBy
  <2>1. CASE p = AbPolicyAny
    BY <2>0, <2>1, <1>7, MadeOfAny
  <2>2. ASSUME NEW item \in AttrItems, p = AbPolicyAttribute(item) PROVE f[p] = Body(f, p)
    <3>1. attr[item] = OfAttribute(item)
      OBVIOUS
    <3> HIDE DEF attr, binary, not
    <3>2. f[p] = attr[item]
      BY <2>0, <2>2, MadeOfAttribute
    <3> QED BY <3>1, <3>2, <2>2, <1>7
  <2>3. ASSUME NEW flag \in {AndFlag, OrFlag}, NEW left \in Policies, NEW right \in Policies,
               p = AbPolicyBinaryOp(flag, left, right)
        PROVE  f[p] = Body(f, p)
    <3>1. binary[<<flag, f[left], f[right]>>] = OfBoth(flag, f[left], f[right])
      BY <2>0
    <3> HIDE DEF attr, binary, not
    <3>2. Made(OfAny, attr, binary, not, f, AbPolicyBinaryOp(flag, left, right))
            = binary[<<flag, f[left], f[right]>>]
      BY MadeOfBinary
    <3> QED BY <2>0, <2>3, <3>1, <3>2, <1>8
  <2>4. ASSUME NEW var \in Policies, p = AbPolicyNot(var) PROVE f[p] = Body(f, p)
    <3>1. not[f[var]] = OfOne(NotFlag, f[var])
      BY <2>0
    <3> HIDE DEF attr, binary, not
    <3>2. f[p] = not[f[var]]
      BY <2>0, <2>4, MadeOfNot
    <3> QED BY <3>1, <3>2, <2>4, <1>9
  <2> HIDE DEF attr, binary, not
  <2> QED BY <2>1, <2>2, <2>3, <2>4, PolicyShape
<1>11. Right(f)
  BY <1>6, <1>10 DEF IsDefinedBy
<1>12. Right(F)
  BY <1>11
<1> HIDE DEF F, attr, binary, not
<1>13. \A p \in Policies : F[p] = Body(F, p)
  BY <1>12
<1>14. AbPolicyAny \in Policies /\ \A item \in AttrItems : AbPolicyAttribute(item) \in Policies
  BY PoliciesMade, DepthAssumption DEF Policies
<1>15. \A flag \in {AndFlag, OrFlag}, left \in Policies, right \in Policies :
         AbPolicyBinaryOp(flag, left, right) \in Policies =>
           F[AbPolicyBinaryOp(flag, left, right)] = OfBoth(flag, F[left], F[right])
  BY <1>8, <1>13
<1>16. \A var \in Policies : AbPolicyNot(var) \in Policies => F[AbPolicyNot(var)] = OfOne(NotFlag, F[var])
  BY <1>9, <1>13
<1> DEFINE T == {p \in Policies : F[p] \in Vals}
<1>17. \A p \in Policies : p \in T
  <2>1. AbPolicyAny \in T /\ \A item \in AttrItems : AbPolicyAttribute(item) \in T
    BY <1>1, <1>7, <1>13, <1>14
  <2>2. ASSUME NEW flag \in {AndFlag, OrFlag}, NEW left \in Policies \cap T, NEW right \in Policies \cap T,
               AbPolicyBinaryOp(flag, left, right) \in Policies
        PROVE  AbPolicyBinaryOp(flag, left, right) \in T
    BY <2>2, <1>2, <1>15
  <2>3. ASSUME NEW var \in Policies \cap T, AbPolicyNot(var) \in Policies PROVE AbPolicyNot(var) \in T
    BY <2>3, <1>3, <1>16
  <2> HIDE DEF T
  <2> QED BY <2>1, <2>2, <2>3, PolicyInduction
<1>18. /\ \A p \in Policies : F[p] \in Vals
       /\ F[AbPolicyAny] = OfAny
       /\ \A item \in AttrItems : F[AbPolicyAttribute(item)] = OfAttribute(item)
  BY <1>7, <1>13, <1>14, <1>17
<1> QED BY <1>4, <1>15, <1>16, <1>18 DEF Vals, OfAny, OfAttribute, OfBoth, OfOne

\* Examine of every class.
LEMMA ExamineDef ==
  ASSUME NEW attrs
  PROVE  /\ \A p \in Policies : Examine(p, attrs) \in BOOLEAN
         /\ Examine(AbPolicyAny, attrs) = TRUE
         /\ \A item \in AttrItems : Examine(AbPolicyAttribute(item), attrs) = (item \in attrs)
         /\ \A flag \in {AndFlag, OrFlag}, left \in Policies, right \in Policies :
              AbPolicyBinaryOp(flag, left, right) \in Policies =>
                Examine(AbPolicyBinaryOp(flag, left, right), attrs) =
                (IF flag = AndFlag THEN Examine(left, attrs) /\ Examine(right, attrs)
                 ELSE Examine(left, attrs) \/ Examine(right, attrs))
         /\ \A var \in Policies :
              AbPolicyNot(var) \in Policies => Examine(AbPolicyNot(var), attrs) = (~Examine(var, attrs))
<1> DEFINE Vals == BOOLEAN
           OfAny == TRUE
           OfAttribute(item) == (item \in attrs)
           OfBoth(flag, left, right) == (IF flag = AndFlag THEN left /\ right ELSE left \/ right)
           OfOne(flag, var) == (~var)
           attr == [item \in AttrItems |-> OfAttribute(item)]
           binary == [t \in {AndFlag, OrFlag} \X Vals \X Vals |-> OfBoth(t[1], t[2], t[3])]
           not == [v \in Vals |-> OfOne(NotFlag, v)]
           Body(g, p) == ByClass(p.flag, OfAny, OfAttribute(p.attr),
                                 OfBoth(p.flag, g[p.left], g[p.right]), OfOne(p.flag, g[p.var]))
           Right(g) == g = [p \in Policies |-> Body(g, p)]
           F == CHOOSE g : Right(g)
<1>1. OfAny \in Vals /\ \A item \in AttrItems : OfAttribute(item) \in Vals
  OBVIOUS
<1>2. \A flag \in {AndFlag, OrFlag}, l \in Vals, r \in Vals : OfBoth(flag, l, r) \in Vals
  OBVIOUS
<1>3. \A v \in Vals : OfOne(NotFlag, v) \in Vals
  OBVIOUS
<1>4. \A p : Examine(p, attrs) = F[p]
  BY DEF Examine, ExamineAnd, ExamineOr
<1> HIDE DEF Vals, OfAny, OfAttribute, OfBoth, OfOne
<1>5. Methods(Vals, OfAny, attr, binary, not)
  BY <1>1, <1>2, <1>3 DEF Methods
<1>6. PICK f : IsDefinedBy(f, Vals, OfAny, attr, binary, not)
  <2> HIDE DEF attr, binary, not
  <2> QED BY <1>5, PolicyRecursion
<1>7. /\ \A g : Body(g, AbPolicyAny) = OfAny
      /\ \A g : \A item \in AttrItems : Body(g, AbPolicyAttribute(item)) = OfAttribute(item)
  BY OfClass DEF AbPolicyAny, AbPolicyAttribute
<1>8. ASSUME NEW g, NEW flag \in {AndFlag, OrFlag}, NEW left, NEW right
      PROVE  Body(g, AbPolicyBinaryOp(flag, left, right)) = OfBoth(flag, g[left], g[right])
  BY OfBinary DEF AbPolicyBinaryOp
<1>9. ASSUME NEW g, NEW var PROVE Body(g, AbPolicyNot(var)) = OfOne(NotFlag, g[var])
  BY OfClass DEF AbPolicyNot
<1> HIDE DEF Body
<1>10. ASSUME NEW p \in Policies PROVE f[p] = Body(f, p)
  <2>0. f[p] = Made(OfAny, attr, binary, not, f, p) /\ \A q \in Policies : f[q] \in Vals
    BY <1>6 DEF IsDefinedBy
  <2>1. CASE p = AbPolicyAny
    BY <2>0, <2>1, <1>7, MadeOfAny
  <2>2. ASSUME NEW item \in AttrItems, p = AbPolicyAttribute(item) PROVE f[p] = Body(f, p)
    <3>1. attr[item] = OfAttribute(item)
      OBVIOUS
    <3> HIDE DEF attr, binary, not
    <3>2. f[p] = attr[item]
      BY <2>0, <2>2, MadeOfAttribute
    <3> QED BY <3>1, <3>2, <2>2, <1>7
  <2>3. ASSUME NEW flag \in {AndFlag, OrFlag}, NEW left \in Policies, NEW right \in Policies,
               p = AbPolicyBinaryOp(flag, left, right)
        PROVE  f[p] = Body(f, p)
    <3>1. binary[<<flag, f[left], f[right]>>] = OfBoth(flag, f[left], f[right])
      BY <2>0
    <3> HIDE DEF attr, binary, not
    <3>2. Made(OfAny, attr, binary, not, f, AbPolicyBinaryOp(flag, left, right))
            = binary[<<flag, f[left], f[right]>>]
      BY MadeOfBinary
    <3> QED BY <2>0, <2>3, <3>1, <3>2, <1>8
  <2>4. ASSUME NEW var \in Policies, p = AbPolicyNot(var) PROVE f[p] = Body(f, p)
    <3>1. not[f[var]] = OfOne(NotFlag, f[var])
      BY <2>0
    <3> HIDE DEF attr, binary, not
    <3>2. f[p] = not[f[var]]
      BY <2>0, <2>4, MadeOfNot
    <3> QED BY <3>1, <3>2, <2>4, <1>9
  <2> HIDE DEF attr, binary, not
  <2> QED BY <2>1, <2>2, <2>3, <2>4, PolicyShape
<1>11. Right(f)
  BY <1>6, <1>10 DEF IsDefinedBy
<1>12. Right(F)
  BY <1>11
<1> HIDE DEF F, attr, binary, not
<1>13. \A p \in Policies : F[p] = Body(F, p)
  BY <1>12
<1>14. AbPolicyAny \in Policies /\ \A item \in AttrItems : AbPolicyAttribute(item) \in Policies
  BY PoliciesMade, DepthAssumption DEF Policies
<1>15. \A flag \in {AndFlag, OrFlag}, left \in Policies, right \in Policies :
         AbPolicyBinaryOp(flag, left, right) \in Policies =>
           F[AbPolicyBinaryOp(flag, left, right)] = OfBoth(flag, F[left], F[right])
  BY <1>8, <1>13
<1>16. \A var \in Policies : AbPolicyNot(var) \in Policies => F[AbPolicyNot(var)] = OfOne(NotFlag, F[var])
  BY <1>9, <1>13
<1> DEFINE T == {p \in Policies : F[p] \in Vals}
<1>17. \A p \in Policies : p \in T
  <2>1. AbPolicyAny \in T /\ \A item \in AttrItems : AbPolicyAttribute(item) \in T
    BY <1>1, <1>7, <1>13, <1>14
  <2>2. ASSUME NEW flag \in {AndFlag, OrFlag}, NEW left \in Policies \cap T, NEW right \in Policies \cap T,
               AbPolicyBinaryOp(flag, left, right) \in Policies
        PROVE  AbPolicyBinaryOp(flag, left, right) \in T
    BY <2>2, <1>2, <1>15
  <2>3. ASSUME NEW var \in Policies \cap T, AbPolicyNot(var) \in Policies PROVE AbPolicyNot(var) \in T
    BY <2>3, <1>3, <1>16
  <2> HIDE DEF T
  <2> QED BY <2>1, <2>2, <2>3, PolicyInduction
<1>18. /\ \A p \in Policies : F[p] \in Vals
       /\ F[AbPolicyAny] = OfAny
       /\ \A item \in AttrItems : F[AbPolicyAttribute(item)] = OfAttribute(item)
  BY <1>7, <1>13, <1>14, <1>17
<1> QED BY <1>4, <1>15, <1>16, <1>18 DEF Vals, OfAny, OfAttribute, OfBoth, OfOne

----------------------------------------------------------------------------
(* Items and lists of them *)

\* ItemBase::operator< is a strict order of the items of one length.
LEMMA LessIsOrder ==
  ASSUME NEW w, NEW a, NEW b, NEW c, w \in Nat,
         a \in [1 .. w -> Byte], b \in [1 .. w -> Byte], c \in [1 .. w -> Byte]
  PROVE  /\ ~Less(a, a)
         /\ Less(a, b) /\ Less(b, c) => Less(a, c)
         /\ a = b \/ Less(a, b) \/ Less(b, a)
<1>0. \A k \in 1 .. w : a[k] \in Int /\ b[k] \in Int /\ c[k] \in Int
  <2>1. Byte \subseteq Int
    BY DEF Byte
  <2> QED BY <2>1
<1>1. ~Less(a, a)
  BY <1>0 DEF Less
<1>2. ASSUME Less(a, b), Less(b, c) PROVE Less(a, c)
  <2>1. PICK m \in 1 .. w : a[m] < b[m] /\ \A k \in 1 .. m - 1 : a[k] = b[k]
    BY <1>2 DEF Less
  <2>2. PICK n \in 1 .. w : b[n] < c[n] /\ \A k \in 1 .. n - 1 : b[k] = c[k]
    BY <1>2 DEF Less
  <2>4. \E k \in 1 .. w : a[k] < c[k] /\ \A l \in 1 .. k - 1 : a[l] = c[l]
    <3>1. CASE m < n
      <4>1. a[m] < c[m] /\ \A l \in 1 .. m - 1 : a[l] = c[l]
        BY <2>1, <2>2, <1>0, <3>1
      <4> QED BY <4>1
    <3>2. CASE ~(m < n)
      <4>1. a[n] < c[n] /\ \A l \in 1 .. n - 1 : a[l] = c[l]
        BY SMTT(30), <2>1, <2>2, <1>0, <3>2
      <4> QED BY <4>1
    <3> QED BY <3>1, <3>2
  <2> QED BY <2>4 DEF Less
<1>3. ASSUME a # b PROVE Less(a, b) \/ Less(b, a)
  <2> DEFINE T == {k \in 1 .. w : a[k] # b[k]}
  <2>1. T # {} /\ T \subseteq Nat
    BY <1>3
  <2>2. PICK k \in T : \A l \in T : k <= l
    <3> HIDE DEF T
    <3> QED BY <2>1, LeastNatural
  <2>3. k \in 1 .. w /\ a[k] # b[k] /\ \A l \in 1 .. k - 1 : a[l] = b[l]
    BY <2>2
  <2>4. a[k] \in Int /\ b[k] \in Int
    BY <2>3, <1>0
  <2>5. a[k] < b[k] \/ b[k] < a[k]
    BY <2>3, <2>4
  <2> QED BY <2>3, <2>5 DEF Less
<1> QED BY <1>1, <1>2, <1>3

\* The items of length w in some bytes.
Parts(bytes, w, number) == {SubSeq(bytes, w * (n - 1) + 1, w * n) : n \in 1 .. number}

\* A list is written item by item, each of them once.
LEMMA SerializeListDef ==
  ASSUME NEW w, NEW list, w \in Nat \ {0}, list \subseteq [1 .. w -> Byte], IsFiniteSet(list)
  PROVE  /\ SerializeList(list) \in Seq(Byte)
         /\ Cardinality(list) \in Nat /\ Len(SerializeList(list)) = w * Cardinality(list)
         /\ Parts(SerializeList(list), w, Cardinality(list)) = list
<1> DEFINE before == {pair \in list \X list : Less(pair[1], pair[2])}
           s == SortedBy(list, before)
           bytes == FlattenSeq(s)
<1>1. StrictOrder(list, before)
  <2>1. \A x, y \in list : <<x, y>> \in before <=> Less(x, y)
    OBVIOUS
  <2> HIDE DEF before
  <2>2. \A x, y, z \in list : /\ ~Less(x, x)
                              /\ Less(x, y) /\ Less(y, z) => Less(x, z)
                              /\ x = y \/ Less(x, y) \/ Less(y, x)
    BY LessIsOrder
  <2> QED BY <2>1, <2>2 DEF StrictOrder
<1> HIDE DEF before
<1>2. /\ s \in Seq(list) /\ Len(s) = Cardinality(list)
      /\ \A x \in list : \E k \in 1 .. Cardinality(list) : s[k] = x
  BY <1>1, SortedByOrder
<1>3. Cardinality(list) \in Nat
  BY FS_CardinalityType
<1> HIDE DEF s
<1>4. s \in Seq([1 .. w -> Byte]) /\ \A k \in 1 .. Cardinality(list) : s[k] \in list
  BY <1>2
<1>5. /\ bytes \in Seq(Byte) /\ Len(bytes) = w * Cardinality(list)
      /\ \A i \in 1 .. Cardinality(list) : SubSeq(bytes, w * (i - 1) + 1, w * i) = s[i]
  <2>1. /\ FlattenSeq(s) \in Seq(Byte) /\ Len(FlattenSeq(s)) = w * Len(s)
        /\ \A i \in 1 .. Len(s) : SubSeq(FlattenSeq(s), w * (i - 1) + 1, w * i) = s[i]
    BY <1>4, FlattenItems
  <2> QED BY <1>2, <2>1
<1>6. SerializeList(list) = bytes
  BY DEF SerializeList, s, before
<1> HIDE DEF bytes
<1>7. Parts(bytes, w, Cardinality(list)) = list
  <2> DEFINE part(n) == SubSeq(bytes, w * (n - 1) + 1, w * n)
  <2>1. \A n \in 1 .. Cardinality(list) : part(n) = s[n]
    BY <1>5
  <2> HIDE DEF part
  <2>2. {part(n) : n \in 1 .. Cardinality(list)} = list
    BY <1>2, <1>4, <2>1
  <2> QED BY <2>2 DEF part, Parts
<1> QED BY <1>3, <1>5, <1>6, <1>7

\* A list of enclaves is read as it was written.
LEMMA EntityListSurvives ==
  ASSUME NEW list, list \subseteq Hash, IsFiniteSet(list)
  PROVE  ParseEntityList(SerializeList(list)) = Parsed(list, <<>>)
<1> DEFINE bytes == SerializeList(list)
           N == Cardinality(list)
<1>1. /\ N \in Nat /\ Len(bytes) = HashSize * N
      /\ Parts(bytes, HashSize, N) = list
  <2>1. HashSize \in Nat \ {0} /\ list \subseteq [1 .. HashSize -> Byte]
    BY SizeAssumption DEF Hash
  <2> QED BY <2>1, SerializeListDef
<1>2. Len(bytes) % HashSize = 0 /\ Len(bytes) \div HashSize = N
  <2> HIDE DEF bytes, N
  <2>1. Len(bytes) = N * HashSize + 0 /\ Len(bytes) \in Nat
    BY <1>1, SizeAssumption
  <2> QED BY <1>1, <2>1, Division, SizeAssumption
<1> HIDE DEF bytes, N
<1>3. ParseEntityList(bytes) = Parsed(list, <<>>)
  BY <1>1, <1>2 DEF ParseEntityList, Parts
<1> QED BY <1>3 DEF bytes

----------------------------------------------------------------------------
(* Lengths *)

\* How many values a number of bytes have: 256 times as many with each byte.
LEMMA ValuesDef ==
  /\ Values \in [Nat -> Nat \ {0}] /\ Values[0] = 1
  /\ \A k \in Nat : Values[k + 1] = 256 * Values[k]
<1> DEFINE stage == [n \in Nat |-> {n}]
           step == [t \in [Nat -> Nat \ {0}] \X Nat |-> IF t[2] = 0 THEN 1 ELSE 256 * t[1][t[2] - 1]]
           Right(g) == g = [k \in Nat |-> IF k = 0 THEN 1 ELSE 256 * g[k - 1]]
<1>1. \A f \in [Nat -> Nat \ {0}], k \in Nat :
        step[<<f, k>>] = IF k = 0 THEN 1 ELSE 256 * f[k - 1]
  OBVIOUS
<1> HIDE DEF step
<1>2. ASSUME NEW f \in [Nat -> Nat \ {0}], NEW k \in Nat PROVE step[<<f, k>>] \in Nat \ {0}
  <2>1. CASE k = 0
    BY <1>1, <2>1
  <2>2. CASE k # 0
    <3>1. f[k - 1] \in Nat \ {0}
      BY <2>2
    <3>2. step[<<f, k>>] = 256 * f[k - 1]
      BY <1>1, <2>2
    <3> QED BY <3>1, <3>2
  <2> QED BY <2>1, <2>2
<1>3. LooksBack(Nat, Nat \ {0}, stage, step)
  <2> SUFFICES ASSUME NEW n \in Nat, NEW f \in [Nat -> Nat \ {0}], NEW g \in [Nat -> Nat \ {0}],
                      \A m \in 0 .. n - 1 : f[m] = g[m]
               PROVE  step[<<f, n>>] = step[<<g, n>>]
    BY DEF LooksBack
  <2>1. n # 0 => f[n - 1] = g[n - 1]
    OBVIOUS
  <2> QED BY <1>1, <2>1
<1>4. IsRecursion(Nat, Nat \ {0}, stage, step)
  <2>1. stage \in [Nat -> SUBSET Nat] /\ Nat = UNION {stage[n] : n \in Nat}
    OBVIOUS
  <2>2. Nat \ {0} # {}
    OBVIOUS
  <2> HIDE DEF stage
  <2> QED BY <1>2, <1>3, <2>1, <2>2 DEF IsRecursion
<1>5. PICK f \in [Nat -> Nat \ {0}] : \A k \in Nat : f[k] = step[<<f, k>>]
  <2> HIDE DEF stage
  <2> QED BY <1>4, Recursion
<1>6. Right(f)
  <2>1. \A k \in Nat : f[k] = IF k = 0 THEN 1 ELSE 256 * f[k - 1]
    <3> SUFFICES ASSUME NEW k \in Nat PROVE f[k] = IF k = 0 THEN 1 ELSE 256 * f[k - 1]
      OBVIOUS
    <3>1. f[k] = step[<<f, k>>]
      BY Zenon, <1>5
    <3>2. step[<<f, k>>] = IF k = 0 THEN 1 ELSE 256 * f[k - 1]
      BY <1>1
    <3> QED BY ONLY <3>1, <3>2
  <2> QED BY <2>1
<1>7. Values = CHOOSE g : Right(g)
  BY DEF Values
<1>8. Right(Values)
  BY <1>6, <1>7
<1>9. \A k \in Nat : Values[k] = IF k = 0 THEN 1 ELSE 256 * Values[k - 1]
  BY <1>8
<1> DEFINE T == {k \in Nat : Values[k] \in Nat \ {0}}
<1>10. 0 \in T
  BY <1>9
<1>11. ASSUME NEW k \in Nat, k \in T PROVE k + 1 \in T
  BY <1>9, <1>11
<1>12. \A k \in Nat : k \in T
  <2> HIDE DEF T
  <2> QED BY <1>10, <1>11, Induction
<1> QED BY <1>8, <1>9, <1>12

\* Dividing by a byte more is dividing once more.
LEMMA DivideOnce ==
  ASSUME NEW n, NEW v, n \in Nat, v \in Nat \ {0}
  PROVE  n \div (256 * v) = (n \div v) \div 256
<1> DEFINE q == n \div v
           r == n % v
           t == q \div 256
           d == q % 256
<1>1. q \in Nat /\ r \in Nat /\ r < v /\ n = q * v + r
  OBVIOUS
<1>2. t \in Nat /\ d \in 0 .. 255 /\ q = t * 256 + d
  BY <1>1
<1> HIDE DEF q, r, t, d
<1>3. n = t * (256 * v) + (d * v + r)
  <2>1. n = (t * 256 + d) * v + r
    BY <1>1, <1>2
  <2>2. (t * 256 + d) * v = t * (256 * v) + d * v
    BY <1>2
  <2>3. t * (256 * v) \in Nat /\ d * v \in Nat
    BY <1>2
  <2> QED BY <1>1, <2>1, <2>2, <2>3
<1>4. d * v + r < 256 * v /\ d * v + r \in Nat
  <2>1. v * d <= v * 255
    BY <1>2, Product
  <2>2. d * v \in Nat /\ d * v = v * d
    BY <1>2
  <2> QED BY <1>1, <2>1, <2>2
<1>5. 256 * v \in Nat \ {0}
  OBVIOUS
<1>6. n \div (256 * v) = t
  <2> DEFINE b == 256 * v
             rest == d * v + r
  <2>1. n = t * b + rest /\ rest < b /\ rest \in Nat /\ b \in Nat \ {0}
    BY <1>3, <1>4, <1>5
  <2> HIDE DEF b, rest
  <2>2. n \div b = t
    BY <1>2, <2>1, Division
  <2> QED BY <2>2 DEF b
<1> QED BY <1>6 DEF q, t

\* A length that fits is read as it was written.
LEMMA SizeSurvives ==
  ASSUME NEW n, n \in Nat, n < Values[SizeWidth]
  PROVE  WriteSize(n) \in [1 .. SizeWidth -> Byte] /\ ReadSize(WriteSize(n)) = n
<1> DEFINE w == SizeWidth
           q == [k \in 0 .. w |-> n \div Values[k]]
           bytes == WriteSize(n)
<1>0. w \in Nat \ {0} /\ \A k \in 0 .. w : k \in Nat /\ Values[k] \in Nat \ {0}
  BY SizeAssumption, ValuesDef
<1>1. q \in [0 .. w -> Nat] /\ q[0] = n /\ q[w] = 0
  <2>1. \A k \in 0 .. w : n \div Values[k] \in Nat
    BY <1>0
  <2>2. Values[0] = 1 /\ n \div 1 = n
    BY ValuesDef
  <2>3. n \div Values[w] = 0
    <3>1. Values[w] \in Nat \ {0}
      BY <1>0
    <3> QED BY <3>1
  <2> QED BY <1>0, <2>1, <2>2, <2>3
<1>2. ASSUME NEW k \in 1 .. w
      PROVE  /\ k - 1 \in 0 .. w /\ Values[k] = 256 * Values[k - 1]
             /\ bytes[k] = q[k - 1] % 256 /\ q[k] = q[k - 1] \div 256
  <2>1. k - 1 \in 0 .. w /\ k \in 0 .. w /\ k - 1 \in Nat /\ (k - 1) + 1 = k
    BY <1>0
  <2>2. Values[k] = 256 * Values[k - 1]
    BY <2>1, ValuesDef
  <2>3. bytes[k] = (n \div Values[k - 1]) % 256
    BY DEF WriteSize
  <2>4. q[k] = n \div Values[k] /\ q[k - 1] = n \div Values[k - 1]
    BY <2>1
  <2>5. n \div (256 * Values[k - 1]) = (n \div Values[k - 1]) \div 256
    BY <1>0, <2>1, DivideOnce
  <2> QED BY <2>1, <2>2, <2>3, <2>4, <2>5
<1>3. bytes \in [1 .. w -> Byte]
  <2>1. \A k \in 1 .. w : bytes[k] \in Byte
    <3> HIDE DEF q, bytes, w
    <3>1. \A k \in 1 .. w : q[k - 1] \in Nat /\ bytes[k] = q[k - 1] % 256
      BY <1>1, <1>2
    <3>2. \A x \in Nat : x % 256 \in Byte
      BY DEF Byte
    <3> QED BY <3>1, <3>2
  <2>2. bytes = [k \in 1 .. w |-> bytes[k]]
    BY DEF WriteSize
  <2> HIDE DEF bytes
  <2> QED BY <2>1, <2>2
<1> HIDE DEF q, bytes, w
<1> DEFINE Right(g) == g = [k \in 0 .. w |-> IF k = 0 THEN 0 ELSE g[k - 1] + bytes[k] * Values[k - 1]]
           F == CHOOSE g : Right(g)
<1>4. ReadSize(bytes) = F[w]
  BY DEF ReadSize, w
<1>5. \E g : Right(g)
  <2> DEFINE step == [t \in Nat \X (1 .. w) |-> t[1] + bytes[t[2]] * Values[t[2] - 1]]
  <2>1. ASSUME NEW v \in Nat, NEW k \in 1 .. w
        PROVE  step[<<v, k>>] = v + bytes[k] * Values[k - 1] /\ step[<<v, k>>] \in Nat
    <3>1. bytes[k] \in Nat /\ Values[k - 1] \in Nat
      <4>1. bytes[k] \in Byte
        BY <1>3
      <4> QED BY <1>0, <1>2, <4>1 DEF Byte
    <3>2. bytes[k] * Values[k - 1] \in Nat
      BY <3>1
    <3> QED BY <3>2
  <2> HIDE DEF step
  <2>2. IsIteration(Nat, w, 0, step)
    BY <1>0, <2>1 DEF IsIteration
  <2>3. PICK g \in [0 .. w -> Nat] : g[0] = 0 /\ \A k \in 1 .. w : g[k] = step[<<g[k - 1], k>>]
    BY <2>2, Iteration
  <2>4. ASSUME NEW k \in 0 .. w PROVE g[k] = IF k = 0 THEN 0 ELSE g[k - 1] + bytes[k] * Values[k - 1]
    <3>1. CASE k = 0
      BY <2>3, <3>1
    <3>2. CASE k # 0
      <4>1. k \in 1 .. w /\ k - 1 \in 0 .. w
        BY <3>2, <1>0
      <4>2. g[k - 1] \in Nat
        BY <4>1
      <4> QED BY <2>1, <2>3, <3>2, <4>1, <4>2
    <3> QED BY <3>1, <3>2
  <2>5. Right(g)
    BY <2>4
  <2> QED BY <2>5
<1>6. Right(F)
  BY <1>5
<1> HIDE DEF F
<1>7. \A k \in 0 .. w : F[k] = IF k = 0 THEN 0 ELSE F[k - 1] + bytes[k] * Values[k - 1]
  BY <1>6
<1> DEFINE T == {k \in Nat : k <= w => F[k] \in Nat /\ n = F[k] + q[k] * Values[k]}
<1>8. 0 \in T
  <2>1. F[0] = 0 /\ q[0] = n /\ Values[0] = 1
    <3>1. 0 \in 0 .. w
      BY <1>0
    <3>2. F[0] = 0
      BY <1>7, <3>1
    <3> QED BY <1>1, <3>2, ValuesDef
  <2> QED BY <2>1
<1>9. ASSUME NEW j \in Nat, j \in T PROVE j + 1 \in T
  <2> SUFFICES ASSUME j + 1 <= w PROVE F[j + 1] \in Nat /\ n = F[j + 1] + q[j + 1] * Values[j + 1]
    OBVIOUS
  <2>1. j + 1 \in 1 .. w /\ (j + 1) - 1 = j /\ j \in 0 .. w /\ j + 1 \in 0 .. w /\ j + 1 # 0
    BY <1>0
  <2>2. F[j] \in Nat /\ n = F[j] + q[j] * Values[j]
    BY <1>9, <2>1
  <2> DEFINE v == Values[j]
             x == q[j]
             y == q[j + 1]
             d == bytes[j + 1]
  <2>3. F[j + 1] = F[j] + d * v
    BY <1>7, <2>1
  <2>4. Values[j + 1] = 256 * v /\ d = x % 256 /\ y = x \div 256
    BY <1>2, <2>1
  <2>5. v \in Nat /\ x \in Nat
    BY <1>0, <1>1, <2>1
  <2> HIDE DEF v, x, y, d
  <2>6. x = y * 256 + d /\ y \in Nat /\ d \in Nat
    BY <2>4, <2>5
  <2>7. x * v = (y * 256 + d) * v
    BY <2>6
  <2>8. (y * 256 + d) * v = y * (256 * v) + d * v /\ y * (256 * v) \in Nat /\ d * v \in Nat
    BY <2>5, <2>6
  <2>9. n = F[j] + x * v
    BY <2>2 DEF x, v
  <2>10. F[j + 1] \in Nat /\ n = F[j + 1] + y * (256 * v)
    BY <2>2, <2>3, <2>7, <2>8, <2>9
  <2> QED BY <2>4, <2>10 DEF y
<1>10. \A k \in Nat : k \in T
  <2> HIDE DEF T
  <2> QED BY <1>8, <1>9, Induction
<1>11. F[w] \in Nat /\ n = F[w] + 0 * Values[w]
  <2>1. w \in T /\ w <= w
    BY <1>0, <1>10
  <2> QED BY <1>1, <2>1
<1>12. n = F[w]
  BY <1>0, <1>11
<1> QED BY <1>3, <1>4, <1>12 DEF bytes, w

----------------------------------------------------------------------------
(* Parsing *)

\* What is in front is taken, and the rest is left.
LEMMA TakeFirst ==
  ASSUME NEW a, NEW b, NEW n, a \in Seq(Byte), b \in Seq(Byte), n = Len(a)
  PROVE  Take(a \o b, n) = Parsed(a, b)
<1>1. a \o b \in Seq(Byte) /\ ~(Len(a \o b) < n)
  OBVIOUS
<1>2. SubSeq(a \o b, 1, n) = a /\ SubSeq(a \o b, n + 1, Len(a \o b)) = b
  BY ConcatParts
<1> QED BY <1>1, <1>2 DEF Take

\* Parsing goes on with what was parsed.
LEMMA Continues ==
  ASSUME NEW value, NEW rest
  PROVE  /\ Parsed(value, rest).ok /\ Parsed(value, rest).value = value
         /\ Parsed(value, rest).rest = rest
BY DEF Parsed

\* An enclave policy is written as long as it should be, and read as it was written.
LEMMA EntityPolicySurvives ==
  ASSUME NEW p, NEW rest, p \in EntityPolicies, rest \in Seq(Byte)
  PROVE  /\ SerializeEntityPolicy(p) \in Seq(Byte)
         /\ SizeOfEntityPolicy(p) \in Nat /\ Len(SerializeEntityPolicy(p)) = SizeOfEntityPolicy(p)
         /\ ParseEntityPolicy(SerializeEntityPolicy(p) \o rest) = Parsed(p, rest)
<1>0. <<0>> \in Seq(Byte) /\ <<1>> \in Seq(Byte) /\ Len(<<0>>) = 1 /\ Len(<<1>>) = 1
  BY DEF Byte
<1>1. CASE p = [allowAll |-> TRUE]
  <2>1. SerializeEntityPolicy(p) = <<1>> /\ SizeOfEntityPolicy(p) = 1
    BY <1>1 DEF SerializeEntityPolicy, SizeOfEntityPolicy
  <2>2. Take(<<1>> \o rest, 1) = Parsed(<<1>>, rest)
    BY <1>0, TakeFirst
  <2>3. ParseEntityPolicy(<<1>> \o rest) = Parsed(AllowAllEntities, rest)
    BY <2>2, Continues DEF ParseEntityPolicy, Then
  <2> DEFINE one == <<1>>
  <2>4. one \in Seq(Byte) /\ Len(one) = 1
    BY <1>0
  <2>5. SerializeEntityPolicy(p) = one /\ ParseEntityPolicy(one \o rest) = Parsed(p, rest)
    BY <1>1, <2>1, <2>3 DEF AllowAllEntities
  <2> HIDE DEF one
  <2> QED BY <2>1, <2>4, <2>5
<1>2. CASE p \in [allowAll : {FALSE},
                  list : {list \in SUBSET Hash : IsFiniteSet(list) /\ HashSize * Cardinality(list) < Values[SizeWidth]}]
  <2> DEFINE list == p.list
             size == HashSize * Cardinality(list)
             digits == WriteSize(size)
             items == SerializeList(list)
  <2>1. list \subseteq Hash /\ IsFiniteSet(list) /\ size < Values[SizeWidth] /\ p = AllowList(list)
    BY <1>2 DEF AllowList
  <2>2. HashSize \in Nat \ {0} /\ list \subseteq [1 .. HashSize -> Byte]
    BY <2>1, SizeAssumption DEF Hash
  <2> HIDE DEF list
  <2>3. items \in Seq(Byte) /\ size \in Nat /\ Len(items) = size
    <3>1. /\ SerializeList(list) \in Seq(Byte) /\ Cardinality(list) \in Nat
          /\ Len(SerializeList(list)) = HashSize * Cardinality(list)
      BY <2>1, <2>2, SerializeListDef
    <3> QED BY <2>2, <3>1
  <2>4. ParseEntityList(items) = Parsed(list, <<>>)
    BY <2>1, EntityListSurvives
  <2>5. SerializeEntityPolicy(p) = <<0>> \o digits \o items /\ SizeOfEntityPolicy(p) = 1 + SizeWidth + size
    BY <2>1 DEF SerializeEntityPolicy, SizeOfEntityPolicy, AllowList
  <2> HIDE DEF size, items
  <2>6. digits \in Seq(Byte) /\ Len(digits) = SizeWidth /\ ReadSize(digits) = size
    <3>1. digits \in [1 .. SizeWidth -> Byte] /\ ReadSize(digits) = size
      BY <2>1, <2>3, SizeSurvives
    <3> HIDE DEF digits
    <3> QED BY <3>1, SizeAssumption
  <2> HIDE DEF digits
  <2>7. /\ <<0>> \o digits \o items \in Seq(Byte)
        /\ Len(<<0>> \o digits \o items) = 1 + SizeWidth + size
    BY SMTT(30), <1>0, <2>3, <2>6
  <2>8. (<<0>> \o digits \o items) \o rest = <<0>> \o (digits \o (items \o rest))
    BY SMTT(30), <1>0, <2>3, <2>6, ConcatAssociative, ConcatProperties
  <2>9. Take(<<0>> \o (digits \o (items \o rest)), 1) = Parsed(<<0>>, digits \o (items \o rest))
    BY <1>0, <2>3, <2>6, TakeFirst, ConcatProperties
  <2>10. ParseSize(digits \o (items \o rest)) = Parsed(size, items \o rest)
    <3>1. Take(digits \o (items \o rest), SizeWidth) = Parsed(digits, items \o rest)
      BY <2>3, <2>6, TakeFirst, ConcatProperties
    <3> QED BY <2>6, <3>1, Continues DEF ParseSize, Then
  <2>11. ItemsOfLength(items \o rest, size) = Parsed(items, rest)
    <3>1. Take(items \o rest, size) = Parsed(items, rest)
      BY <2>3, TakeFirst
    <3>2. size <= Len(items \o rest)
      BY <2>3, ConcatProperties
    <3> QED BY <3>1, <3>2 DEF ItemsOfLength
  <2>12. ParseEntityPolicy(<<0>> \o (digits \o (items \o rest))) = Parsed(AllowList(list), rest)
    BY <2>4, <2>9, <2>10, <2>11, Continues DEF ParseEntityPolicy, Then
  <2> DEFINE bytes == <<0>> \o digits \o items
  <2>13. ParseEntityPolicy(bytes \o rest) = Parsed(p, rest)
    BY <2>1, <2>8, <2>12
  <2>14. SerializeEntityPolicy(p) = bytes /\ bytes \in Seq(Byte) /\ Len(bytes) = SizeOfEntityPolicy(p)
    BY <2>5, <2>7
  <2>15. SizeOfEntityPolicy(p) \in Nat
    BY <2>3, <2>5, SizeAssumption
  <2> HIDE DEF bytes
  <2> QED BY <2>13, <2>14, <2>15
<1> QED BY <1>1, <1>2 DEF EntityPolicies

\* Bytes, whatever is put together first.
LEMMA RegroupBytes ==
  ASSUME NEW a, NEW b, NEW c, a \in Seq(Byte), b \in Seq(Byte), c \in Seq(Byte)
  PROVE  (a \o b) \o c = a \o (b \o c)
  BY SMTT(30), Regroup

\* The beginning of two parts ends in the first or in the second one.
LEMMA CutTwo ==
  ASSUME NEW a, NEW b, NEW m, a \in Seq(Byte), b \in Seq(Byte), m \in 0 .. Len(a) + Len(b) - 1
  PROVE  \/ m \in 0 .. Len(a) - 1 /\ SubSeq(a \o b, 1, m) = SubSeq(a, 1, m)
         \/ /\ m - Len(a) \in 0 .. Len(b) - 1
            /\ SubSeq(a \o b, 1, m) = a \o SubSeq(b, 1, m - Len(a))
            /\ SubSeq(b, 1, m - Len(a)) \in Seq(Byte) /\ Len(SubSeq(b, 1, m - Len(a))) = m - Len(a)
<1>0. Len(a) \in Nat /\ Len(b) \in Nat
  OBVIOUS
<1>1. CASE m < Len(a)
  BY <1>0, <1>1, ConcatParts
<1>2. CASE ~(m < Len(a))
  <2> DEFINE j == m - Len(a)
  <2>1. j \in 0 .. Len(b) - 1 /\ j \in 0 .. Len(b) /\ m = Len(a) + j
    BY <1>0, <1>2
  <2> HIDE DEF j
  <2>2. SubSeq(a \o b, 1, Len(a) + j) = a \o SubSeq(b, 1, j)
    BY SMTT(30), <2>1, ConcatPrefix
  <2>3. SubSeq(b, 1, j) \in Seq(Byte) /\ Len(SubSeq(b, 1, j)) = j
    BY <1>0, <2>1
  <2> QED BY <2>1, <2>2, <2>3 DEF j
<1> QED BY <1>1, <1>2

\* An enclave policy that ends too early is an error, or its list is read beyond the end.
LEMMA EntityPolicyCut ==
  ASSUME NEW p, NEW m, p \in EntityPolicies, m \in 0 .. SizeOfEntityPolicy(p) - 1
  PROVE  ParseEntityPolicy(SubSeq(SerializeEntityPolicy(p), 1, m)) =
           IF CutInItems(p, m) THEN Overrun ELSE ParseError
<1>0. ~ParseError.ok /\ ~Overrun.ok /\ HashSize \in Nat \ {0} /\ SizeWidth \in Nat \ {0}
  BY SizeAssumption DEF ParseError, Overrun
<1>1. <<0>> \in Seq(Byte) /\ Len(<<0>>) = 1
  BY DEF Byte
<1>2. ParseEntityPolicy(<<>>) = ParseError
  <2>1. Take(<<>>, 1) = ParseError
    BY EmptySeq DEF Take
  <2> QED BY <1>0, <2>1 DEF ParseEntityPolicy, Then
<1>3. CASE p = [allowAll |-> TRUE]
  <2>1. m = 0
    BY <1>3 DEF SizeOfEntityPolicy
  <2>2. SubSeq(SerializeEntityPolicy(p), 1, m) = <<>>
    BY <2>1, SubSeqEmpty
  <2> QED BY <1>2, <1>3, <2>2 DEF CutInItems
<1>4. CASE p \in [allowAll : {FALSE},
                  list : {list \in SUBSET Hash : IsFiniteSet(list) /\ HashSize * Cardinality(list) < Values[SizeWidth]}]
  <2> DEFINE list == p.list
             size == HashSize * Cardinality(list)
             digits == WriteSize(size)
             items == SerializeList(list)
             flag == <<0>>
  <2>1. list \subseteq Hash /\ IsFiniteSet(list) /\ size < Values[SizeWidth] /\ ~p.allowAll
    BY <1>4
  <2>2. list \subseteq [1 .. HashSize -> Byte]
    BY <2>1 DEF Hash
  <2>3. SerializeEntityPolicy(p) = flag \o digits \o items /\ SizeOfEntityPolicy(p) = 1 + SizeWidth + size
    BY <2>1 DEF SerializeEntityPolicy, SizeOfEntityPolicy
  <2> HIDE DEF list
  <2>4. items \in Seq(Byte) /\ size \in Nat /\ Len(items) = size
    <3>1. /\ SerializeList(list) \in Seq(Byte) /\ Cardinality(list) \in Nat
          /\ Len(SerializeList(list)) = HashSize * Cardinality(list)
      BY <1>0, <2>1, <2>2, SerializeListDef
    <3> QED BY <1>0, <3>1
  <2>5. ParseEntityList(items) = Parsed(list, <<>>)
    BY <2>1, EntityListSurvives
  <2> HIDE DEF items, size
  <2>6. digits \in Seq(Byte) /\ Len(digits) = SizeWidth /\ ReadSize(digits) = size
    <3>1. digits \in [1 .. SizeWidth -> Byte] /\ ReadSize(digits) = size
      BY <2>1, <2>4, SizeSurvives
    <3> HIDE DEF digits
    <3> QED BY <1>0, <3>1
  <2>7. size % HashSize = 0
    <3>1. CASE size % HashSize # 0
      <4>1. ParseEntityList(items) = ParseError
        BY <2>4, <3>1 DEF ParseEntityList
      <4> QED BY <1>0, <2>5, <4>1, Continues
    <3> QED BY <3>1
  <2> DEFINE body == digits \o items
  <2>8. body \in Seq(Byte) /\ Len(body) = SizeWidth + size
    <3> HIDE DEF digits
    <3> QED BY <2>4, <2>6, ConcatProperties
  <2> HIDE DEF digits
  <2>9. SerializeEntityPolicy(p) = flag \o body
    <3>1. flag \in Seq(Byte)
      BY <1>1
    <3> HIDE DEF flag
    <3>2. (flag \o digits) \o items = flag \o (digits \o items)
      BY SMTT(30), <2>4, <2>6, <3>1, RegroupBytes
    <3> QED BY <2>3, <3>2
  <2> HIDE DEF body, flag
  <2>10. flag \in Seq(Byte) /\ Len(flag) = 1
    BY <1>1 DEF flag
  <2>11. CASE m = 0
    <3>1. SubSeq(SerializeEntityPolicy(p), 1, m) = <<>>
      BY <2>11, SubSeqEmpty
    <3>2. ~CutInItems(p, m)
      BY <1>0, <2>11 DEF CutInItems
    <3> QED BY <1>2, <3>1, <3>2
  <2>12. CASE m # 0
    <3> DEFINE k == m - Len(flag)
               rest == SubSeq(body, 1, k)
    <3>1. m \in 0 .. Len(flag) + Len(body) - 1 /\ ~(m \in 0 .. Len(flag) - 1)
      BY <1>0, <2>3, <2>4, <2>8, <2>10, <2>12
    <3>2. /\ k \in 0 .. SizeWidth + size - 1 /\ SubSeq(flag \o body, 1, m) = flag \o rest
          /\ rest \in Seq(Byte) /\ k = m - 1
      <4>1. k \in 0 .. Len(body) - 1 /\ SubSeq(flag \o body, 1, m) = flag \o rest /\ rest \in Seq(Byte)
        BY <2>8, <2>10, <3>1, CutTwo
      <4>2. k = m - 1
        BY <2>10
      <4> HIDE DEF k, rest
      <4> QED BY <1>0, <2>4, <2>8, <4>1, <4>2
    <3> HIDE DEF k
    <3>3. Take(flag \o rest, 1) = Parsed(flag, rest)
      BY <2>10, <3>2, TakeFirst
    <3>4. k \in 0 .. Len(digits) + Len(items) - 1
      BY <2>4, <2>6, <3>2
    <3>5. CASE k \in 0 .. Len(digits) - 1 /\ rest = SubSeq(digits, 1, k)
      <4>1. Len(rest) < SizeWidth
        BY <1>0, <2>6, <3>5
      <4> HIDE DEF rest
      <4>2. ParseSize(rest) = ParseError
        BY <1>0, <4>1 DEF ParseSize, Take, Then
      <4>3. ParseEntityPolicy(flag \o rest) = ParseError
        BY <1>0, <3>3, <4>2, Continues DEF ParseEntityPolicy, Then, flag
      <4>4. ~CutInItems(p, m)
        BY <1>0, <2>3, <2>4, <2>6, <3>2, <3>5 DEF CutInItems
      <4> QED BY <2>9, <3>2, <4>3, <4>4
    <3>6. CASE /\ k - Len(digits) \in 0 .. Len(items) - 1
               /\ rest = digits \o SubSeq(items, 1, k - Len(digits))
               /\ SubSeq(items, 1, k - Len(digits)) \in Seq(Byte)
               /\ Len(SubSeq(items, 1, k - Len(digits))) = k - Len(digits)
      <4> DEFINE some == SubSeq(items, 1, k - Len(digits))
      <4>0. rest = digits \o some /\ some \in Seq(Byte) /\ Len(some) = k - Len(digits)
        BY <3>6
      <4> HIDE DEF some, rest
      <4>1. Len(some) \in Nat /\ Len(some) < size
        BY <2>4, <2>6, <3>6, <4>0
      <4>2. ParseSize(rest) = Parsed(size, some)
        <5>1. Take(rest, SizeWidth) = Parsed(digits, some)
          BY <2>6, <4>0, TakeFirst
        <5> QED BY <2>6, <5>1, Continues DEF ParseSize, Then
      <4>3. ItemsOfLength(some, size) = Overrun
        BY <2>4, <2>7, <4>1 DEF ItemsOfLength
      <4>4. ParseEntityPolicy(flag \o rest) = Overrun
        BY <1>0, <3>3, <4>2, <4>3, Continues DEF ParseEntityPolicy, Then, flag
      <4>5. CutInItems(p, m)
        BY <1>0, <2>1, <2>3, <2>4, <2>6, <3>2, <3>6 DEF CutInItems
      <4> QED BY <2>9, <3>2, <4>4, <4>5
    <3>7. \/ k \in 0 .. Len(digits) - 1 /\ rest = SubSeq(digits, 1, k)
          \/ /\ k - Len(digits) \in 0 .. Len(items) - 1
             /\ rest = digits \o SubSeq(items, 1, k - Len(digits))
             /\ SubSeq(items, 1, k - Len(digits)) \in Seq(Byte)
             /\ Len(SubSeq(items, 1, k - Len(digits))) = k - Len(digits)
      BY <2>4, <2>6, <3>4, CutTwo DEF body
    <3> QED BY <3>5, <3>6, <3>7
  <2> QED BY <2>11, <2>12
<1> QED BY <1>3, <1>4 DEF EntityPolicies

\* What can be parsed: expressions of any depth.
AllPolicies == UNION {PoliciesOf[d] : d \in Nat}
\* What Parse returns: an error, or an expression and what is left.
Results == {ParseError} \cup [ok : {TRUE}, value : AllPolicies, rest : Seq(Byte)]

\* What the constructors make of expressions of any depth is one.
LEMMA AllPoliciesMade ==
  /\ AbPolicyAny \in AllPolicies
  /\ \A item \in AttrItems : AbPolicyAttribute(item) \in AllPolicies
  /\ \A flag \in {AndFlag, OrFlag}, left \in AllPolicies, right \in AllPolicies :
       AbPolicyBinaryOp(flag, left, right) \in AllPolicies
  /\ \A var \in AllPolicies : AbPolicyNot(var) \in AllPolicies
<1>1. /\ AbPolicyAny \in AllPolicies
      /\ \A item \in AttrItems : AbPolicyAttribute(item) \in AllPolicies
  BY PoliciesMade DEF AllPolicies
<1>2. ASSUME NEW flag \in {AndFlag, OrFlag}, NEW left \in AllPolicies, NEW right \in AllPolicies
      PROVE  AbPolicyBinaryOp(flag, left, right) \in AllPolicies
  <2>1. PICK m \in Nat : left \in PoliciesOf[m]
    BY DEF AllPolicies
  <2>2. PICK n \in Nat : right \in PoliciesOf[n]
    BY DEF AllPolicies
  <2> DEFINE d == IF m < n THEN n ELSE m
  <2>3. d \in Nat /\ m \in 0 .. d /\ n \in 0 .. d
    OBVIOUS
  <2> HIDE DEF d
  <2>4. left \in PoliciesOf[d] /\ right \in PoliciesOf[d]
    BY <2>1, <2>2, <2>3, PoliciesGrow
  <2>5. AbPolicyBinaryOp(flag, left, right) \in PoliciesOf[d + 1]
    BY <2>3, <2>4, PoliciesMade
  <2> QED BY <2>3, <2>5 DEF AllPolicies
<1>3. ASSUME NEW var \in AllPolicies PROVE AbPolicyNot(var) \in AllPolicies
  <2>1. PICK d \in Nat : var \in PoliciesOf[d]
    BY DEF AllPolicies
  <2>2. AbPolicyNot(var) \in PoliciesOf[d + 1]
    BY <2>1, PoliciesMade
  <2> QED BY <2>2 DEF AllPolicies
<1> QED BY <1>1, <1>2, <1>3

\* A result is an error or a policy and what is left.
LEMMA ResultsShape ==
  /\ ParseError \in Results /\ ~ParseError.ok
  /\ \A value \in AllPolicies, rest \in Seq(Byte) : Parsed(value, rest) \in Results
  /\ \A result \in Results :
       /\ result.ok \in BOOLEAN
       /\ result.ok => /\ result.value \in AllPolicies /\ result.rest \in Seq(Byte)
                       /\ result = Parsed(result.value, result.rest)
       /\ ~result.ok => result = ParseError
<1>1. ParseError \in Results /\ ~ParseError.ok
  BY DEF Results, ParseError
<1>2. \A value \in AllPolicies, rest \in Seq(Byte) : Parsed(value, rest) \in Results
  BY DEF Results, Parsed
<1>3. ASSUME NEW result \in Results
      PROVE  /\ result.ok \in BOOLEAN
             /\ result.ok => /\ result.value \in AllPolicies /\ result.rest \in Seq(Byte)
                             /\ result = Parsed(result.value, result.rest)
             /\ ~result.ok => result = ParseError
  <2>1. CASE result = ParseError
    BY <2>1, <1>1 DEF ParseError
  <2>2. CASE result \in [ok : {TRUE}, value : AllPolicies, rest : Seq(Byte)]
    BY <2>2 DEF Parsed
  <2> QED BY <2>1, <2>2 DEF Results
<1> QED BY <1>1, <1>2, <1>3

\* The classes that have no operands leave less than they were given.
LEMMA ParseLeaf ==
  ASSUME NEW bytes, bytes \in Seq(Byte), bytes # <<>>
  PROVE  /\ ParseAny(bytes) \in Results /\ Len(ParseAny(bytes).rest) < Len(bytes)
         /\ ParseAttribute(bytes) \in Results
         /\ ParseAttribute(bytes).ok => Len(ParseAttribute(bytes).rest) < Len(bytes)
<1>0. Tail(bytes) \in Seq(Byte) /\ Len(Tail(bytes)) = Len(bytes) - 1 /\ Len(bytes) \in Nat
  OBVIOUS
<1>1. ParseAny(bytes) \in Results /\ Len(ParseAny(bytes).rest) < Len(bytes)
  <2>1. ParseAny(bytes).rest = Tail(bytes)
    BY DEF ParseAny, Parsed
  <2>2. ParseAny(bytes) \in Results
    BY <1>0, ResultsShape, AllPoliciesMade DEF ParseAny
  <2> QED BY <1>0, <2>1, <2>2
<1> DEFINE n == AttributeItemSize
           t == Tail(bytes)
           item == SubSeq(t, 1, n)
           rest == SubSeq(t, n + 1, Len(t))
<1>2. CASE Len(t) < n
  <2>1. ParseAttribute(bytes) = ParseError
    BY <1>2 DEF ParseAttribute, ParseAttributeItem, Take, Then, ParseError
  <2> QED BY <1>1, <2>1, ResultsShape
<1>3. CASE ~(Len(t) < n)
  <2>0. n \in Nat \ {0}
    BY SizeAssumption DEF AttributeItemSize
  <2>1. ParseAttribute(bytes) = Parsed(AbPolicyAttribute(item), rest)
    BY <1>3, Continues DEF ParseAttribute, ParseAttributeItem, Take, Then
  <2> HIDE DEF n, t
  <2>2. t \in Seq(Byte) /\ Len(t) = Len(bytes) - 1 /\ Len(t) \in Nat /\ n <= Len(t)
    BY <1>0, <1>3, <2>0 DEF t
  <2>3. rest \in Seq(Byte) /\ Len(rest) = Len(t) - n
    <3>1. \A i \in n + 1 .. Len(t) : t[i] \in Byte
      BY <2>0, <2>2
    <3> QED BY <2>0, <2>2, <3>1, SubSeqProperties
  <2>4. item \in [1 .. n -> Byte]
    <3>1. \A i \in 1 .. n : t[i] \in Byte
      BY <2>0, <2>2
    <3>2. item \in Seq(Byte) /\ Len(item) = n
      BY <2>0, <2>2, <3>1, SubSeqProperties
    <3> HIDE DEF item
    <3> QED BY <3>2
  <2>5. AbPolicyAttribute(item) \in AllPolicies
    BY <2>4, AllPoliciesMade DEF AttrItems, n
  <2> HIDE DEF item, rest
  <2>6. Parsed(AbPolicyAttribute(item), rest) \in Results
    BY <2>3, <2>5, ResultsShape
  <2>7. Len(rest) < Len(bytes)
    BY <1>0, <2>0, <2>2, <2>3
  <2> QED BY <1>1, <2>1, <2>6, <2>7, Continues
<1> QED BY <1>2, <1>3

\* What Parse makes of the results f has for shorter bytes.
ParseOne(f, bytes) ==
  Then(f[Tail(bytes)], LAMBDA var, rest : Parsed(AbPolicyNot(var), rest))

\* And for the two operands of & and |.
ParseBoth(f, bytes) ==
  Then(f[Tail(bytes)], LAMBDA left, rest1 :
  Then(f[rest1], LAMBDA right, rest2 :
    Parsed(AbPolicyBinaryOp(bytes[1], left, right), rest2)))

\* AccessCtrl::Parse, with f for the calls of itself.
ParseBody(f, bytes) ==
  IF bytes = <<>> \/ bytes[1] \notin Flags THEN ParseError ELSE
  ByClass(bytes[1], ParseAny(bytes), ParseAttribute(bytes), ParseBoth(f, bytes), ParseOne(f, bytes))

\* The same, when the first operand left no more than there was.
LeavesLess(result, bytes) == result.ok => Len(result.rest) < Len(bytes)

\* Then it asks for no result but those of shorter bytes.
ParseStep(f, bytes) ==
  IF bytes # <<>> /\ bytes[1] \in {AndFlag, OrFlag} /\ ~LeavesLess(f[Tail(bytes)], bytes)
    THEN ParseError ELSE ParseBody(f, bytes)

\* The first byte tells which constructor parses, or that none does.
LEMMA ParseBodyShape ==
  ASSUME NEW f, NEW bytes, bytes \in Seq(Byte)
  PROVE  \/ ParseBody(f, bytes) = ParseError /\ (bytes = <<>> \/ bytes[1] \notin Flags)
         \/ bytes # <<>> /\ bytes[1] = AnyFlag /\ ParseBody(f, bytes) = ParseAny(bytes)
         \/ bytes # <<>> /\ bytes[1] = AttributeFlag /\ ParseBody(f, bytes) = ParseAttribute(bytes)
         \/ bytes # <<>> /\ bytes[1] \in {AndFlag, OrFlag} /\ ParseBody(f, bytes) = ParseBoth(f, bytes)
         \/ bytes # <<>> /\ bytes[1] = NotFlag /\ ParseBody(f, bytes) = ParseOne(f, bytes)
<1>1. CASE bytes = <<>> \/ bytes[1] \notin Flags
  BY <1>1 DEF ParseBody
<1>2. CASE bytes # <<>> /\ bytes[1] \in Flags
  BY <1>2, OfClass, OfBinary DEF ParseBody, Flags
<1> QED BY <1>1, <1>2

\* A negation is parsed if its operand is.
LEMMA ParseOneIs ==
  ASSUME NEW f, NEW bytes
  PROVE  ParseOne(f, bytes) =
           IF f[Tail(bytes)].ok THEN Parsed(AbPolicyNot(f[Tail(bytes)].value), f[Tail(bytes)].rest)
                                ELSE f[Tail(bytes)]
BY DEF ParseOne, Then

\* An operator is parsed if both operands are, the second from what the first left.
LEMMA ParseBothIs ==
  ASSUME NEW f, NEW bytes
  PROVE  ParseBoth(f, bytes) =
           IF f[Tail(bytes)].ok /\ f[f[Tail(bytes)].rest].ok
             THEN Parsed(AbPolicyBinaryOp(bytes[1], f[Tail(bytes)].value, f[f[Tail(bytes)].rest].value),
                         f[f[Tail(bytes)].rest].rest)
             ELSE IF f[Tail(bytes)].ok THEN f[f[Tail(bytes)].rest] ELSE f[Tail(bytes)]
BY DEF ParseBoth, Then

\* What it returns is an error, or an expression and what is left.
LEMMA ParseStepTyped ==
  ASSUME NEW f, NEW bytes, f \in [Seq(Byte) -> Results], bytes \in Seq(Byte)
  PROVE  ParseStep(f, bytes) \in Results
<1>1. bytes # <<>> => Tail(bytes) \in Seq(Byte)
  OBVIOUS
<1>2. ASSUME bytes # <<>> PROVE ParseOne(f, bytes) \in Results
  <2>1. f[Tail(bytes)] \in Results
    BY <1>1, <1>2
  <2> QED BY <2>1, ParseOneIs, ResultsShape, AllPoliciesMade
<1>3. ASSUME bytes # <<>>, bytes[1] \in {AndFlag, OrFlag} PROVE ParseBoth(f, bytes) \in Results
  <2> DEFINE left == f[Tail(bytes)]
             right == f[left.rest]
  <2>1. left \in Results
    BY <1>1, <1>3
  <2>2. left.ok => right \in Results
    BY <2>1, ResultsShape
  <2>3. ParseBoth(f, bytes) =
           IF left.ok /\ right.ok
             THEN Parsed(AbPolicyBinaryOp(bytes[1], left.value, right.value), right.rest)
             ELSE IF left.ok THEN right ELSE left
    BY ParseBothIs
  <2> HIDE DEF left, right
  <2>4. CASE left.ok /\ right.ok
    <3>1. AbPolicyBinaryOp(bytes[1], left.value, right.value) \in AllPolicies /\ right.rest \in Seq(Byte)
      BY <1>3, <2>1, <2>2, <2>4, ResultsShape, AllPoliciesMade
    <3> QED BY <2>3, <2>4, <3>1, ResultsShape
  <2> QED BY <2>1, <2>2, <2>3, <2>4
<1>4. ParseBody(f, bytes) \in Results
  BY <1>2, <1>3, ParseBodyShape, ParseLeaf, ResultsShape
<1> QED BY <1>4, ResultsShape DEF ParseStep

\* A step looks at the results for shorter bytes only.
LEMMA ParseLooksBack ==
  ASSUME NEW f, NEW g, NEW bytes,
         f \in [Seq(Byte) -> Results], g \in [Seq(Byte) -> Results], bytes \in Seq(Byte),
         \A shorter \in Seq(Byte) : Len(shorter) < Len(bytes) => f[shorter] = g[shorter]
  PROVE  ParseStep(f, bytes) = ParseStep(g, bytes)
<1>0. CASE bytes = <<>>
  BY <1>0 DEF ParseStep, ParseBody
<1> SUFFICES ASSUME bytes # <<>> PROVE ParseStep(f, bytes) = ParseStep(g, bytes)
  BY <1>0
<1>1. Tail(bytes) \in Seq(Byte) /\ Len(Tail(bytes)) < Len(bytes)
  OBVIOUS
<1>2. f[Tail(bytes)] = g[Tail(bytes)] /\ f[Tail(bytes)] \in Results
  BY <1>1
<1>3. ParseOne(f, bytes) = ParseOne(g, bytes)
  BY <1>2, ParseOneIs
<1>4. ASSUME LeavesLess(f[Tail(bytes)], bytes) PROVE ParseBoth(f, bytes) = ParseBoth(g, bytes)
  <2> DEFINE left == f[Tail(bytes)]
             right == f[left.rest]
  <2>1. left.ok => right = g[left.rest]
    BY <1>2, <1>4, ResultsShape DEF LeavesLess
  <2>2. ParseBoth(f, bytes) =
           IF left.ok /\ right.ok
             THEN Parsed(AbPolicyBinaryOp(bytes[1], left.value, right.value), right.rest)
             ELSE IF left.ok THEN right ELSE left
    BY ParseBothIs
  <2>3. ParseBoth(g, bytes) =
           IF left.ok /\ g[left.rest].ok
             THEN Parsed(AbPolicyBinaryOp(bytes[1], left.value, g[left.rest].value), g[left.rest].rest)
             ELSE IF left.ok THEN g[left.rest] ELSE left
    <3>1. g[Tail(bytes)] = left
      BY <1>2
    <3>2. ParseBoth(g, bytes) =
           IF g[Tail(bytes)].ok /\ g[g[Tail(bytes)].rest].ok
             THEN Parsed(AbPolicyBinaryOp(bytes[1], g[Tail(bytes)].value, g[g[Tail(bytes)].rest].value),
                         g[g[Tail(bytes)].rest].rest)
             ELSE IF g[Tail(bytes)].ok THEN g[g[Tail(bytes)].rest] ELSE g[Tail(bytes)]
      BY ParseBothIs
    <3> HIDE DEF left
    <3> QED BY <3>1, <3>2
  <2> HIDE DEF left, right
  <2> QED BY <2>1, <2>2, <2>3
<1>5. bytes[1] \in {AndFlag, OrFlag} /\ LeavesLess(f[Tail(bytes)], bytes) =>
        ParseBody(f, bytes) = ParseBody(g, bytes)
  BY <1>4, OfBinary DEF ParseBody
<1>6. bytes[1] \notin {AndFlag, OrFlag} => ParseBody(f, bytes) = ParseBody(g, bytes)
  <2>1. CASE bytes[1] = NotFlag
    BY <1>3, <2>1, OfClass DEF ParseBody
  <2>2. CASE bytes[1] = AnyFlag
    BY <2>2, OfClass DEF ParseBody
  <2>3. CASE bytes[1] = AttributeFlag
    BY <2>3, OfClass DEF ParseBody
  <2>4. CASE bytes[1] \notin Flags
    BY <2>4 DEF ParseBody
  <2> QED BY <2>1, <2>2, <2>3, <2>4 DEF Flags
<1> QED BY <1>2, <1>5, <1>6 DEF ParseStep

\* Whatever does these steps leaves less than it was given.
LEMMA ParseShrinks ==
  ASSUME NEW f, f \in [Seq(Byte) -> Results], \A bytes \in Seq(Byte) : f[bytes] = ParseStep(f, bytes)
  PROVE  \A bytes \in Seq(Byte) : LeavesLess(f[bytes], bytes)
<1> DEFINE T == {n \in Nat : \A bytes \in Seq(Byte) : Len(bytes) = n => LeavesLess(f[bytes], bytes)}
<1>1. ASSUME NEW n \in Nat, \A m \in 0 .. n - 1 : m \in T PROVE n \in T
  <2> SUFFICES ASSUME NEW bytes \in Seq(Byte), Len(bytes) = n, f[bytes].ok
               PROVE  Len(f[bytes].rest) < Len(bytes)
    BY DEF LeavesLess
  <2>0. n \in Nat
    OBVIOUS
  <2>1. \A shorter \in Seq(Byte) : Len(shorter) < n => LeavesLess(f[shorter], shorter)
    <3> TAKE shorter \in Seq(Byte)
    <3>1. Len(shorter) < n => Len(shorter) \in 0 .. n - 1
      OBVIOUS
    <3> QED BY <1>1, <3>1
  <2>2. f[bytes] = ParseStep(f, bytes)
    OBVIOUS
  <2>3. /\ f[bytes] = ParseBody(f, bytes)
        /\ bytes # <<>> /\ bytes[1] \in {AndFlag, OrFlag} => LeavesLess(f[Tail(bytes)], bytes)
    BY <2>2, ResultsShape DEF ParseStep
  <2> HIDE DEF T
  <2>4. bytes # <<>> => Tail(bytes) \in Seq(Byte) /\ Len(Tail(bytes)) = n - 1 /\ f[Tail(bytes)] \in Results
    <3> SUFFICES ASSUME bytes # <<>>
                 PROVE  Tail(bytes) \in Seq(Byte) /\ Len(Tail(bytes)) = n - 1 /\ f[Tail(bytes)] \in Results
      OBVIOUS
    <3>1. Tail(bytes) \in Seq(Byte) /\ Len(Tail(bytes)) = n - 1
      OBVIOUS
    <3> QED BY <3>1
  <2>5. CASE bytes # <<>> /\ f[bytes] = ParseOne(f, bytes)
    <3>1. f[Tail(bytes)].ok /\ f[bytes].rest = f[Tail(bytes)].rest
      <4> DEFINE result == f[Tail(bytes)]
      <4>1. f[bytes] = IF result.ok THEN Parsed(AbPolicyNot(result.value), result.rest) ELSE result
        BY <2>5, ParseOneIs
      <4>2. result \in Results
        BY <2>4, <2>5
      <4> HIDE DEF result
      <4>3. result.ok
        BY <4>1, <4>2, ResultsShape
      <4>4. f[bytes].rest = result.rest
        BY <4>1, <4>3, Continues
      <4> QED BY <4>3, <4>4 DEF result
    <3>2. LeavesLess(f[Tail(bytes)], Tail(bytes))
      <4>1. Len(Tail(bytes)) < n
        BY <2>0, <2>4, <2>5
      <4> QED BY <2>1, <2>4, <2>5, <4>1
    <3>3. f[bytes].rest \in Seq(Byte)
      BY <2>4, <2>5, <3>1, ResultsShape
    <3> QED BY <2>4, <2>5, <3>1, <3>2, <3>3 DEF LeavesLess
  <2>6. CASE bytes # <<>> /\ bytes[1] \in {AndFlag, OrFlag} /\ f[bytes] = ParseBoth(f, bytes)
    <3> DEFINE left == f[Tail(bytes)]
               right == f[left.rest]
    <3>1. f[bytes] =
           IF left.ok /\ right.ok
             THEN Parsed(AbPolicyBinaryOp(bytes[1], left.value, right.value), right.rest)
             ELSE IF left.ok THEN right ELSE left
      BY <2>6, ParseBothIs
    <3>2. left \in Results /\ LeavesLess(left, bytes)
      BY <2>3, <2>4, <2>6
    <3> HIDE DEF left
    <3>3. left.ok /\ right.ok
      BY <3>1, ResultsShape
    <3>4. left.rest \in Seq(Byte) /\ Len(left.rest) < n
      BY <3>2, <3>3, ResultsShape DEF LeavesLess
    <3>5. LeavesLess(right, left.rest) /\ right \in Results
      BY <2>1, <3>4
    <3> HIDE DEF right
    <3>6. f[bytes].rest = right.rest /\ right.rest \in Seq(Byte)
      BY <3>1, <3>3, <3>5, ResultsShape, Continues
    <3> QED BY <3>3, <3>4, <3>5, <3>6 DEF LeavesLess
  <2>7. CASE bytes = <<>> \/ bytes[1] \notin Flags
    BY <2>3, <2>7, ResultsShape DEF ParseBody
  <2>8. CASE bytes # <<>> /\ (f[bytes] = ParseAny(bytes) \/ f[bytes] = ParseAttribute(bytes))
    BY <2>8, ParseLeaf
  <2> QED BY <2>3, <2>5, <2>6, <2>7, <2>8, ParseBodyShape
<1>2. \A n \in Nat : n \in T
  <2> HIDE DEF T
  <2> QED BY <1>1, StrongInduction
<1> QED BY <1>2

\* The definition of Parse by recursion defines a function.
LEMMA ParseDef == \A bytes \in Seq(Byte) : Parse[bytes] = ParseBody(Parse, bytes)
<1> DEFINE stage == [n \in Nat |-> {bytes \in Seq(Byte) : Len(bytes) = n}]
           step == [t \in [Seq(Byte) -> Results] \X Seq(Byte) |-> ParseStep(t[1], t[2])]
           Right(f) == f = [bytes \in Seq(Byte) |-> ParseBody(f, bytes)]
<1>1. \A f \in [Seq(Byte) -> Results], bytes \in Seq(Byte) :
        step[<<f, bytes>>] = ParseStep(f, bytes)
  OBVIOUS
<1>2. stage \in [Nat -> SUBSET Seq(Byte)] /\ Seq(Byte) = UNION {stage[n] : n \in Nat}
  <2>1. stage \in [Nat -> SUBSET Seq(Byte)]
    OBVIOUS
  <2>2. \A bytes \in Seq(Byte) : Len(bytes) \in Nat /\ bytes \in stage[Len(bytes)]
    OBVIOUS
  <2> HIDE DEF stage
  <2> QED BY <2>1, <2>2
<1>3. \A n \in Nat : \A bytes \in stage[n] : bytes \in Seq(Byte) /\ Len(bytes) = n
  OBVIOUS
<1>4. \A m \in Nat : \A bytes \in Seq(Byte) : Len(bytes) = m => bytes \in stage[m]
  OBVIOUS
<1> HIDE DEF stage, step
<1>5. LooksBack(Seq(Byte), Results, stage, step)
  <2> SUFFICES ASSUME NEW n \in Nat, NEW bytes \in stage[n],
                      NEW f \in [Seq(Byte) -> Results], NEW g \in [Seq(Byte) -> Results],
                      \A m \in 0 .. n - 1 : \A y \in stage[m] : f[y] = g[y]
               PROVE  step[<<f, bytes>>] = step[<<g, bytes>>]
    BY DEF LooksBack
  <2>1. bytes \in Seq(Byte) /\ Len(bytes) = n
    BY <1>3
  <2>2. ASSUME NEW shorter \in Seq(Byte), Len(shorter) < Len(bytes) PROVE f[shorter] = g[shorter]
    <3>1. Len(shorter) \in 0 .. n - 1 /\ Len(shorter) \in Nat
      BY <2>1, <2>2
    <3> QED BY <1>4, <3>1
  <2>3. ParseStep(f, bytes) = ParseStep(g, bytes)
    BY <2>1, <2>2, ParseLooksBack
  <2> QED BY <1>1, <2>1, <2>3
<1>6. IsRecursion(Seq(Byte), Results, stage, step)
  <2>1. Results # {}
    BY ResultsShape
  <2>2. \A f \in [Seq(Byte) -> Results], bytes \in Seq(Byte) : step[<<f, bytes>>] \in Results
    BY <1>1, ParseStepTyped
  <2> QED BY <1>2, <1>5, <2>1, <2>2 DEF IsRecursion
<1>7. PICK f \in [Seq(Byte) -> Results] : \A bytes \in Seq(Byte) : f[bytes] = step[<<f, bytes>>]
  BY <1>6, Recursion
<1>8. \A bytes \in Seq(Byte) : f[bytes] = ParseStep(f, bytes)
  BY <1>1, <1>7
<1>9. ASSUME NEW bytes \in Seq(Byte) PROVE f[bytes] = ParseBody(f, bytes)
  <2>1. \A b \in Seq(Byte) : LeavesLess(f[b], b)
    BY <1>8, ParseShrinks
  <2>2. bytes # <<>> => LeavesLess(f[Tail(bytes)], bytes)
    <3> SUFFICES ASSUME bytes # <<>>, f[Tail(bytes)].ok PROVE Len(f[Tail(bytes)].rest) < Len(bytes)
      BY DEF LeavesLess
    <3>1. Tail(bytes) \in Seq(Byte) /\ Len(Tail(bytes)) = Len(bytes) - 1 /\ Len(bytes) \in Nat
      OBVIOUS
    <3>2. f[Tail(bytes)].rest \in Seq(Byte)
      BY <3>1, ResultsShape
    <3>3. Len(f[Tail(bytes)].rest) < Len(Tail(bytes)) /\ Len(f[Tail(bytes)].rest) \in Nat
      <4>1. LeavesLess(f[Tail(bytes)], Tail(bytes))
        BY <2>1, <3>1
      <4> QED BY <3>2, <4>1 DEF LeavesLess
    <3> QED BY <3>1, <3>3
  <2> QED BY <1>8, <2>2 DEF ParseStep
<1>10. Right(f)
  BY <1>9
<1>11. Parse = CHOOSE g : Right(g)
  BY DEF Parse, ParseBody, ParseBoth, ParseOne
<1>12. Right(Parse)
  BY <1>10, <1>11
<1> QED BY <1>12

\* What Parse makes of bytes that begin with the flag of a class.
LEMMA ParseFlag ==
  ASSUME NEW t, t \in Seq(Byte)
  PROVE  /\ Parse[<<AnyFlag>> \o t] = Parsed(AbPolicyAny, t)
         /\ Parse[<<AttributeFlag>> \o t] =
              Then(Take(t, AttributeItemSize), LAMBDA item, rest : Parsed(AbPolicyAttribute(item), rest))
         /\ \A flag \in {AndFlag, OrFlag} :
              Parse[<<flag>> \o t] =
                IF Parse[t].ok /\ Parse[Parse[t].rest].ok
                  THEN Parsed(AbPolicyBinaryOp(flag, Parse[t].value, Parse[Parse[t].rest].value),
                              Parse[Parse[t].rest].rest)
                  ELSE IF Parse[t].ok THEN Parse[Parse[t].rest] ELSE Parse[t]
         /\ Parse[<<NotFlag>> \o t] =
              IF Parse[t].ok THEN Parsed(AbPolicyNot(Parse[t].value), Parse[t].rest) ELSE Parse[t]
<1>1. ASSUME NEW flag \in Flags
      PROVE  /\ <<flag>> \o t \in Seq(Byte) /\ <<flag>> \o t # <<>>
             /\ (<<flag>> \o t)[1] = flag /\ Tail(<<flag>> \o t) = t
  <2>1. <<flag>> \in Seq(Byte)
    BY DEF Flags, AnyFlag, AttributeFlag, AndFlag, OrFlag, NotFlag, Byte
  <2>2. <<flag>> \o t \in Seq(Byte) /\ <<flag>> \o t # <<>> /\ (<<flag>> \o t)[1] = flag
    BY <2>1
  <2>3. Tail(<<flag>> \o t) = t
    BY <2>1
  <2> QED BY <2>2, <2>3
<1>2. ASSUME NEW flag \in Flags PROVE Parse[<<flag>> \o t] = ParseBody(Parse, <<flag>> \o t)
  BY <1>1, ParseDef
<1>3. Parse[<<AnyFlag>> \o t] = Parsed(AbPolicyAny, t)
  <2> DEFINE bytes == <<AnyFlag>> \o t
  <2>1. AnyFlag \in Flags
    BY DEF Flags
  <2>2. Parse[bytes] = ParseBody(Parse, bytes) /\ bytes # <<>> /\ bytes[1] = AnyFlag /\ Tail(bytes) = t
    BY <1>1, <1>2, <2>1
  <2> HIDE DEF bytes
  <2>3. ParseBody(Parse, bytes) = ParseAny(bytes)
    BY <2>1, <2>2, OfClass DEF ParseBody
  <2>4. ParseAny(bytes) = Parsed(AbPolicyAny, t)
    BY <2>2 DEF ParseAny
  <2> QED BY <2>2, <2>3, <2>4 DEF bytes
<1>4. Parse[<<AttributeFlag>> \o t] =
        Then(Take(t, AttributeItemSize), LAMBDA item, rest : Parsed(AbPolicyAttribute(item), rest))
  <2> DEFINE bytes == <<AttributeFlag>> \o t
  <2>1. AttributeFlag \in Flags
    BY DEF Flags
  <2>2. Parse[bytes] = ParseBody(Parse, bytes) /\ bytes # <<>> /\ bytes[1] = AttributeFlag /\ Tail(bytes) = t
    BY <1>1, <1>2, <2>1
  <2> HIDE DEF bytes
  <2>3. ParseBody(Parse, bytes) = ParseAttribute(bytes)
    BY <2>1, <2>2, OfClass DEF ParseBody
  <2>4. ParseAttribute(bytes) =
          Then(Take(t, AttributeItemSize), LAMBDA item, rest : Parsed(AbPolicyAttribute(item), rest))
    BY <2>2 DEF ParseAttribute, ParseAttributeItem
  <2> QED BY <2>2, <2>3, <2>4 DEF bytes
<1>5. ASSUME NEW flag \in {AndFlag, OrFlag}
      PROVE  Parse[<<flag>> \o t] =
                IF Parse[t].ok /\ Parse[Parse[t].rest].ok
                  THEN Parsed(AbPolicyBinaryOp(flag, Parse[t].value, Parse[Parse[t].rest].value),
                              Parse[Parse[t].rest].rest)
                  ELSE IF Parse[t].ok THEN Parse[Parse[t].rest] ELSE Parse[t]
  <2> DEFINE bytes == <<flag>> \o t
  <2>1. flag \in Flags
    BY DEF Flags
  <2>2. Parse[bytes] = ParseBody(Parse, bytes) /\ bytes # <<>> /\ bytes[1] = flag /\ Tail(bytes) = t
    BY <1>1, <1>2, <2>1
  <2> HIDE DEF bytes
  <2>3. ParseBody(Parse, bytes) = ParseBoth(Parse, bytes)
    BY <2>1, <2>2, OfBinary DEF ParseBody
  <2>4. ParseBoth(Parse, bytes) =
           IF Parse[Tail(bytes)].ok /\ Parse[Parse[Tail(bytes)].rest].ok
             THEN Parsed(AbPolicyBinaryOp(bytes[1], Parse[Tail(bytes)].value, Parse[Parse[Tail(bytes)].rest].value),
                         Parse[Parse[Tail(bytes)].rest].rest)
             ELSE IF Parse[Tail(bytes)].ok THEN Parse[Parse[Tail(bytes)].rest] ELSE Parse[Tail(bytes)]
    BY ParseBothIs
  <2>5. Parse[bytes] =
           IF Parse[t].ok /\ Parse[Parse[t].rest].ok
             THEN Parsed(AbPolicyBinaryOp(flag, Parse[t].value, Parse[Parse[t].rest].value),
                         Parse[Parse[t].rest].rest)
             ELSE IF Parse[t].ok THEN Parse[Parse[t].rest] ELSE Parse[t]
    BY <2>2, <2>3, <2>4
  <2> QED BY <2>5 DEF bytes
<1>6. Parse[<<NotFlag>> \o t] =
        IF Parse[t].ok THEN Parsed(AbPolicyNot(Parse[t].value), Parse[t].rest) ELSE Parse[t]
  <2> DEFINE bytes == <<NotFlag>> \o t
  <2>1. NotFlag \in Flags
    BY DEF Flags
  <2>2. Parse[bytes] = ParseBody(Parse, bytes) /\ bytes # <<>> /\ bytes[1] = NotFlag /\ Tail(bytes) = t
    BY <1>1, <1>2, <2>1
  <2> HIDE DEF bytes
  <2>3. ParseBody(Parse, bytes) = ParseOne(Parse, bytes)
    BY <2>1, <2>2, OfClass DEF ParseBody
  <2>4. ParseOne(Parse, bytes) =
          IF Parse[Tail(bytes)].ok THEN Parsed(AbPolicyNot(Parse[Tail(bytes)].value), Parse[Tail(bytes)].rest)
                                   ELSE Parse[Tail(bytes)]
    BY ParseOneIs
  <2> QED BY <2>2, <2>3, <2>4 DEF bytes
<1> QED BY <1>3, <1>4, <1>5, <1>6

\* A flag is one byte.
LEMMA FlagBytes ==
  \A flag \in Flags : <<flag>> \in Seq(Byte) /\ Len(<<flag>>) = 1
BY DEF Flags, AnyFlag, AttributeFlag, AndFlag, OrFlag, NotFlag, Byte

\* An expression is read as it was written, and what follows is left.
LEMMA PolicyParses ==
  \A p \in Policies : \A rest \in Seq(Byte) : Parse[Serialize[p] \o rest] = Parsed(p, rest)
<1> DEFINE T == {p \in Policies : \A rest \in Seq(Byte) : Parse[Serialize[p] \o rest] = Parsed(p, rest)}
<1>0. AbPolicyAny \in Policies /\ \A item \in AttrItems : AbPolicyAttribute(item) \in Policies
  BY PoliciesMade, DepthAssumption DEF Policies
<1>1. AbPolicyAny \in T
  BY <1>0, SerializeDef, ParseFlag
<1>2. ASSUME NEW item \in AttrItems PROVE AbPolicyAttribute(item) \in T
  <2> SUFFICES ASSUME NEW rest \in Seq(Byte)
               PROVE  Parse[Serialize[AbPolicyAttribute(item)] \o rest] = Parsed(AbPolicyAttribute(item), rest)
    BY <1>0
  <2>1. item \in Seq(Byte) /\ Len(item) = AttributeItemSize
    BY SizeAssumption DEF AttrItems, AttributeItemSize
  <2>2. Serialize[AbPolicyAttribute(item)] = <<AttributeFlag>> \o item
    BY SerializeDef
  <2>3. <<AttributeFlag>> \in Seq(Byte)
    BY FlagBytes DEF Flags
  <2>4. (<<AttributeFlag>> \o item) \o rest = <<AttributeFlag>> \o (item \o rest)
    BY <2>1, <2>3, ConcatAssociative
  <2>5. Take(item \o rest, AttributeItemSize) = Parsed(item, rest)
    BY <2>1, TakeFirst
  <2>6. Parse[<<AttributeFlag>> \o (item \o rest)] =
          Then(Take(item \o rest, AttributeItemSize), LAMBDA i, r : Parsed(AbPolicyAttribute(i), r))
    BY <2>1, ParseFlag, ConcatProperties
  <2>7. Parse[<<AttributeFlag>> \o (item \o rest)] = Parsed(AbPolicyAttribute(item), rest)
    BY <2>5, <2>6, Continues DEF Then
  <2> QED BY <2>2, <2>4, <2>7
<1>3. ASSUME NEW flag \in {AndFlag, OrFlag}, NEW left \in Policies \cap T, NEW right \in Policies \cap T,
             AbPolicyBinaryOp(flag, left, right) \in Policies
      PROVE  AbPolicyBinaryOp(flag, left, right) \in T
  <2> DEFINE p == AbPolicyBinaryOp(flag, left, right)
             l == Serialize[left]
             r == Serialize[right]
  <2> SUFFICES ASSUME NEW rest \in Seq(Byte) PROVE Parse[Serialize[p] \o rest] = Parsed(p, rest)
    BY <1>3
  <2>1. l \in Seq(Byte) /\ r \in Seq(Byte) /\ <<flag>> \in Seq(Byte)
    BY SerializeDef, FlagBytes DEF Flags
  <2>2. Serialize[p] = <<flag>> \o l \o r
    BY <1>3, SerializeDef
  <2>3. (<<flag>> \o l \o r) \o rest = <<flag>> \o (l \o (r \o rest)) /\ l \o (r \o rest) \in Seq(Byte)
    <3> DEFINE f == <<flag>>
    <3>1. f \in Seq(Byte) /\ l \in Seq(Byte) /\ r \in Seq(Byte) /\ rest \in Seq(Byte)
      BY <2>1
    <3> HIDE DEF f, l, r
    <3>3. r \o rest \in Seq(Byte) /\ f \o l \in Seq(Byte)
      BY <3>1
    <3> DEFINE fl == f \o l
               rr == r \o rest
    <3>5. (fl \o r) \o rest = fl \o rr
      BY SMTT(30), <3>1, <3>3, Regroup
    <3>6. fl \o rr = f \o (l \o rr)
      <4>1. rr \in Seq(Byte)
        BY <3>3
      <4> HIDE DEF rr
      <4> QED BY SMTT(30), <3>1, <4>1, Regroup
    <3>2. ((f \o l) \o r) \o rest = f \o (l \o (r \o rest))
      BY <3>5, <3>6
    <3>4. l \o (r \o rest) \in Seq(Byte)
      BY <3>1, <3>3
    <3> QED BY <3>2, <3>4 DEF f
  <2>4. Parse[l \o (r \o rest)] = Parsed(left, r \o rest) /\ Parse[r \o rest] = Parsed(right, rest)
    BY <2>1, ConcatProperties
  <2> HIDE DEF T, l, r
  <2> DEFINE t == l \o (r \o rest)
             first == Parse[t]
             second == Parse[first.rest]
  <2>5. Parse[<<flag>> \o t] =
          IF first.ok /\ second.ok
            THEN Parsed(AbPolicyBinaryOp(flag, first.value, second.value), second.rest)
            ELSE IF first.ok THEN second ELSE first
    BY <2>3, ParseFlag
  <2>6. first.ok /\ first.value = left /\ first.rest = r \o rest
    <3>1. first = Parsed(left, r \o rest)
      BY <2>4
    <3> HIDE DEF first
    <3> QED BY ZenonT(30), <3>1, Continues
  <2>7. second = Parsed(right, rest)
    BY <2>4, <2>6
  <2> HIDE DEF first, second, t
  <2>8. second.ok /\ second.value = right /\ second.rest = rest
    BY <2>7, Continues
  <2>9. Parse[<<flag>> \o t] = Parsed(p, rest)
    BY <2>5, <2>6, <2>8
  <2> QED BY <2>2, <2>3, <2>9 DEF t
<1>4. ASSUME NEW var \in Policies \cap T, AbPolicyNot(var) \in Policies PROVE AbPolicyNot(var) \in T
  <2> DEFINE p == AbPolicyNot(var)
             v == Serialize[var]
  <2> SUFFICES ASSUME NEW rest \in Seq(Byte) PROVE Parse[Serialize[p] \o rest] = Parsed(p, rest)
    BY <1>4
  <2>1. v \in Seq(Byte) /\ <<NotFlag>> \in Seq(Byte) /\ Serialize[p] = <<NotFlag>> \o v
    BY <1>4, SerializeDef, FlagBytes DEF Flags
  <2>2. (<<NotFlag>> \o v) \o rest = <<NotFlag>> \o (v \o rest) /\ v \o rest \in Seq(Byte)
    <3> DEFINE f == <<NotFlag>>
    <3>1. f \in Seq(Byte) /\ v \in Seq(Byte)
      BY <2>1
    <3> HIDE DEF f, v
    <3>2. (f \o v) \o rest = f \o (v \o rest)
      BY SMTT(30), <3>1, RegroupBytes
    <3>3. v \o rest \in Seq(Byte)
      BY <3>1
    <3> QED BY <3>2, <3>3 DEF f
  <2>3. Parse[v \o rest] = Parsed(var, rest)
    OBVIOUS
  <2> HIDE DEF T, v
  <2>4. Parse[<<NotFlag>> \o (v \o rest)] = Parsed(p, rest)
    <3> DEFINE t == v \o rest
               first == Parse[t]
    <3>1. Parse[<<NotFlag>> \o t] = IF first.ok THEN Parsed(AbPolicyNot(first.value), first.rest) ELSE first
      BY <2>2, ParseFlag
    <3>2. first = Parsed(var, rest)
      BY <2>3
    <3> HIDE DEF t, first
    <3>3. Parse[<<NotFlag>> \o t] = Parsed(p, rest)
      BY <3>1, <3>2, Continues
    <3> QED BY <3>3 DEF t
  <2> QED BY <2>1, <2>2, <2>4
<1> HIDE DEF T
<1>5. \A p \in Policies : p \in T
  BY <1>1, <1>2, <1>3, <1>4, PolicyInduction
<1> QED BY <1>5 DEF T

\* A part of what was written is an error.
LEMMA PrefixFails ==
  \A p \in Policies : \A m \in 0 .. Len(Serialize[p]) - 1 : Parse[SubSeq(Serialize[p], 1, m)] = ParseError
<1> DEFINE T == {p \in Policies : \A m \in 0 .. Len(Serialize[p]) - 1 :
                                    Parse[SubSeq(Serialize[p], 1, m)] = ParseError}
<1>0. AbPolicyAny \in Policies /\ \A item \in AttrItems : AbPolicyAttribute(item) \in Policies
  BY PoliciesMade, DepthAssumption DEF Policies
<1>1. Parse[<<>>] = ParseError
  BY ParseDef, EmptySeq DEF ParseBody
<1>2. ASSUME NEW flag \in Flags, NEW t \in Seq(Byte), NEW m \in 0 .. Len(t),
             m = 0 \/ Parse[<<flag>> \o SubSeq(t, 1, m - 1)] = ParseError
      PROVE  Parse[SubSeq(<<flag>> \o t, 1, m)] = ParseError
  <2>1. CASE m = 0
    <3>1. SubSeq(<<flag>> \o t, 1, 0) = <<>>
      BY SubSeqEmpty
    <3> QED BY <1>1, <2>1, <3>1
  <2>2. CASE m # 0
    <3>0. <<flag>> \in Seq(Byte) /\ Len(<<flag>>) = 1
      BY FlagBytes
    <3>1. m - 1 \in 0 .. Len(t) /\ 1 + (m - 1) = m
      BY <2>2
    <3>2. SubSeq(<<flag>> \o t, 1, 1 + (m - 1)) = <<flag>> \o SubSeq(t, 1, m - 1)
      BY <3>0, <3>1, ConcatParts
    <3> QED BY <1>2, <2>2, <3>1, <3>2
  <2> QED BY <2>1, <2>2
<1>3. AbPolicyAny \in T
  <2>1. Serialize[AbPolicyAny] = <<AnyFlag>>
    BY SerializeDef
  <2>2. SubSeq(<<AnyFlag>>, 1, 0) = <<>>
    BY SubSeqEmpty
  <2>3. \A m \in 0 .. Len(<<AnyFlag>>) - 1 : m = 0
    BY FlagBytes DEF Flags
  <2> QED BY <1>0, <1>1, <2>1, <2>2, <2>3
<1>4. ASSUME NEW item \in AttrItems PROVE AbPolicyAttribute(item) \in T
  <2>1. item \in Seq(Byte) /\ Len(item) = AttributeItemSize /\ AttributeItemSize \in Nat
    BY SizeAssumption DEF AttrItems, AttributeItemSize
  <2>2. Serialize[AbPolicyAttribute(item)] = <<AttributeFlag>> \o item
    BY SerializeDef
  <2>3. <<AttributeFlag>> \in Seq(Byte) /\ Len(<<AttributeFlag>>) = 1 /\ AttributeFlag \in Flags
    BY FlagBytes DEF Flags
  <2>4. Len(<<AttributeFlag>> \o item) = 1 + Len(item)
    BY <2>1, <2>3
  <2>5. ASSUME NEW m \in 0 .. Len(item) PROVE Parse[SubSeq(<<AttributeFlag>> \o item, 1, m)] = ParseError
    <3>1. CASE m = 0
      BY <1>2, <2>1, <2>3, <3>1
    <3>2. CASE m # 0
      <4> DEFINE t == SubSeq(item, 1, m - 1)
      <4>1. t \in Seq(Byte) /\ Len(t) = m - 1
        BY <2>1, <3>2
      <4> HIDE DEF t
      <4>2. Take(t, AttributeItemSize) = ParseError
        BY <2>1, <4>1 DEF Take
      <4>3. Parse[<<AttributeFlag>> \o t] = Then(ParseError, LAMBDA i, r : Parsed(AbPolicyAttribute(i), r))
        BY <4>1, <4>2, ParseFlag
      <4>4. Parse[<<AttributeFlag>> \o t] = ParseError
        BY <4>3, ResultsShape DEF Then
      <4> QED BY <1>2, <2>1, <2>3, <4>4 DEF t
    <3> QED BY <3>1, <3>2
  <2>6. \A m \in 0 .. Len(<<AttributeFlag>> \o item) - 1 : m \in 0 .. Len(item)
    BY <2>1, <2>4
  <2> QED BY <1>0, <2>2, <2>5, <2>6
<1>5. ASSUME NEW flag \in {AndFlag, OrFlag}, NEW left \in Policies \cap T, NEW right \in Policies \cap T,
             AbPolicyBinaryOp(flag, left, right) \in Policies
      PROVE  AbPolicyBinaryOp(flag, left, right) \in T
  <2> DEFINE p == AbPolicyBinaryOp(flag, left, right)
             l == Serialize[left]
             r == Serialize[right]
  <2>1. l \in Seq(Byte) /\ r \in Seq(Byte) /\ <<flag>> \in Seq(Byte) /\ Len(<<flag>>) = 1 /\ flag \in Flags
    BY SerializeDef, FlagBytes DEF Flags
  <2>2. Serialize[p] = <<flag>> \o l \o r /\ <<flag>> \o l \o r = <<flag>> \o (l \o r)
    <3> DEFINE f == <<flag>>
    <3>1. f \in Seq(Byte) /\ l \in Seq(Byte) /\ r \in Seq(Byte) /\ Serialize[p] = f \o l \o r
      BY <1>5, <2>1, SerializeDef
    <3> HIDE DEF f, l, r
    <3>2. (f \o l) \o r = f \o (l \o r)
      BY SMTT(30), <3>1, RegroupBytes
    <3> QED BY <3>1, <3>2 DEF f
  <2>3. /\ \A m \in 0 .. Len(l) - 1 : Parse[SubSeq(l, 1, m)] = ParseError
        /\ \A m \in 0 .. Len(r) - 1 : Parse[SubSeq(r, 1, m)] = ParseError
        /\ \A rest \in Seq(Byte) : Parse[l \o rest] = Parsed(left, rest)
    BY PolicyParses
  <2> HIDE DEF T, l, r
  <2>4. /\ l \o r \in Seq(Byte) /\ Len(l \o r) = Len(l) + Len(r) /\ Len(l) \in Nat /\ Len(r) \in Nat
        /\ Len(<<flag>> \o (l \o r)) = 1 + Len(l) + Len(r)
    BY <2>1
  <2>5. ASSUME NEW k \in 0 .. Len(l) + Len(r) - 1
        PROVE  Parse[<<flag>> \o SubSeq(l \o r, 1, k)] = ParseError
    <3> DEFINE t == SubSeq(l \o r, 1, k)
               first == Parse[t]
               second == Parse[first.rest]
    <3>1. t \in Seq(Byte)
      BY <2>4
    <3>2. Parse[<<flag>> \o t] =
            IF first.ok /\ second.ok
              THEN Parsed(AbPolicyBinaryOp(flag, first.value, second.value), second.rest)
              ELSE IF first.ok THEN second ELSE first
      BY <3>1, ParseFlag
    <3>3. CASE k < Len(l)
      <4>1. t = SubSeq(l, 1, k)
        BY <2>1, <2>4, <3>3, ConcatParts
      <4> HIDE DEF t
      <4>2. first = ParseError
        BY <2>3, <2>4, <3>3, <4>1
      <4> HIDE DEF first, second
      <4> QED BY <3>2, <4>2, ResultsShape DEF t
    <3>4. CASE ~(k < Len(l))
      <4> DEFINE j == k - Len(l)
                 b == SubSeq(r, 1, j)
      <4>1. j \in 0 .. Len(r) - 1 /\ j \in 0 .. Len(r) /\ k = Len(l) + j
        BY <2>4, <3>4
      <4>2. SubSeq(l \o r, 1, Len(l) + j) = l \o b
        <5>1. l \in Seq(Byte) /\ r \in Seq(Byte) /\ j \in 0 .. Len(r)
          BY <2>1, <4>1
        <5> HIDE DEF j
        <5>2. SubSeq(l \o r, 1, Len(l) + j) = l \o SubSeq(r, 1, j)
          BY <5>1, ConcatPrefix
        <5> QED BY <5>2
      <4>3. t = l \o b
        BY <4>1, <4>2
      <4>4. b \in Seq(Byte)
        BY <2>1, <2>4, <4>1
      <4>5. Parse[b] = ParseError
        BY <2>3, <4>1
      <4> HIDE DEF t, b, j
      <4>6. first = Parsed(left, b)
        BY <2>3, <4>3, <4>4
      <4> HIDE DEF first
      <4>7. second = ParseError /\ first.ok
        BY <4>5, <4>6, Continues
      <4> HIDE DEF second
      <4> QED BY <3>2, <4>7, ResultsShape DEF t
    <3> QED BY <3>3, <3>4
  <2>6. ASSUME NEW m \in 0 .. Len(l \o r) PROVE Parse[SubSeq(<<flag>> \o (l \o r), 1, m)] = ParseError
    <3>1. m = 0 \/ m - 1 \in 0 .. Len(l) + Len(r) - 1
      BY <2>4
    <3>2. m = 0 \/ Parse[<<flag>> \o SubSeq(l \o r, 1, m - 1)] = ParseError
      BY <2>5, <3>1
    <3> QED BY <1>2, <2>1, <2>4, <3>2
  <2>7. \A m \in 0 .. Len(<<flag>> \o (l \o r)) - 1 : m \in 0 .. Len(l \o r)
    BY <2>4
  <2>8. \A m \in 0 .. Len(Serialize[p]) - 1 : Parse[SubSeq(Serialize[p], 1, m)] = ParseError
    BY <2>2, <2>6, <2>7
  <2> QED BY <1>5, <2>8 DEF T
<1>6. ASSUME NEW var \in Policies \cap T, AbPolicyNot(var) \in Policies PROVE AbPolicyNot(var) \in T
  <2> DEFINE p == AbPolicyNot(var)
             v == Serialize[var]
  <2>1. /\ v \in Seq(Byte) /\ <<NotFlag>> \in Seq(Byte) /\ Len(<<NotFlag>>) = 1 /\ NotFlag \in Flags
        /\ Serialize[p] = <<NotFlag>> \o v
    BY <1>6, SerializeDef, FlagBytes DEF Flags
  <2>2. \A m \in 0 .. Len(v) - 1 : Parse[SubSeq(v, 1, m)] = ParseError
    OBVIOUS
  <2> HIDE DEF T, v
  <2>3. Len(v) \in Nat /\ Len(<<NotFlag>> \o v) = 1 + Len(v)
    BY <2>1
  <2>4. ASSUME NEW m \in 0 .. Len(v) PROVE Parse[SubSeq(<<NotFlag>> \o v, 1, m)] = ParseError
    <3>1. CASE m = 0
      BY <1>2, <2>1, <3>1
    <3>2. CASE m # 0
      <4> DEFINE t == SubSeq(v, 1, m - 1)
      <4>1. t \in Seq(Byte) /\ Parse[t] = ParseError
        BY <2>1, <2>2, <2>3, <3>2
      <4> HIDE DEF t
      <4>2. Parse[<<NotFlag>> \o t] = ParseError
        BY <4>1, ParseFlag, ResultsShape
      <4> QED BY <1>2, <2>1, <4>2 DEF t
    <3> QED BY <3>1, <3>2
  <2>5. \A m \in 0 .. Len(<<NotFlag>> \o v) - 1 : m \in 0 .. Len(v)
    BY <2>3
  <2>6. \A m \in 0 .. Len(Serialize[p]) - 1 : Parse[SubSeq(Serialize[p], 1, m)] = ParseError
    BY <2>1, <2>4, <2>5
  <2> QED BY <1>6, <2>6 DEF T
<1> HIDE DEF T
<1>7. \A p \in Policies : p \in T
  BY <1>3, <1>4, <1>5, <1>6, PolicyInduction
<1> QED BY <1>7 DEF T

\* GetSerializedSize is the length of what Serialize writes.
LEMMA SizeIsLength ==
  \A p \in Policies : Len(Serialize[p]) = SerializedSize[p]
<1> DEFINE T == {p \in Policies : Len(Serialize[p]) = SerializedSize[p]}
<1>0. AbPolicyAny \in Policies /\ \A item \in AttrItems : AbPolicyAttribute(item) \in Policies
  BY PoliciesMade, DepthAssumption DEF Policies
<1>1. AbPolicyAny \in T
  BY <1>0, SerializeDef, SerializedSizeDef, FlagBytes DEF Flags
<1>2. ASSUME NEW item \in AttrItems PROVE AbPolicyAttribute(item) \in T
  <2>1. item \in Seq(Byte) /\ Len(item) = AttributeItemSize
    BY SizeAssumption DEF AttrItems, AttributeItemSize
  <2>2. <<AttributeFlag>> \in Seq(Byte) /\ Len(<<AttributeFlag>>) = 1
    BY FlagBytes DEF Flags
  <2>3. Len(<<AttributeFlag>> \o item) = 1 + AttributeItemSize
    BY <2>1, <2>2
  <2> QED BY <1>0, <2>3, SerializeDef, SerializedSizeDef
<1>3. ASSUME NEW flag \in {AndFlag, OrFlag}, NEW left \in Policies \cap T, NEW right \in Policies \cap T,
             AbPolicyBinaryOp(flag, left, right) \in Policies
      PROVE  AbPolicyBinaryOp(flag, left, right) \in T
  <2> DEFINE f == <<flag>>
             l == Serialize[left]
             r == Serialize[right]
  <2>1. f \in Seq(Byte) /\ Len(f) = 1
    BY FlagBytes DEF Flags
  <2>2. l \in Seq(Byte) /\ r \in Seq(Byte) /\ Len(l) = SerializedSize[left] /\ Len(r) = SerializedSize[right]
    BY SerializeDef
  <2>3. Serialize[AbPolicyBinaryOp(flag, left, right)] = f \o l \o r
    BY <1>3, SerializeDef
  <2>4. SerializedSize[AbPolicyBinaryOp(flag, left, right)] = 1 + SerializedSize[left] + SerializedSize[right]
    BY <1>3, SerializedSizeDef
  <2> HIDE DEF f, l, r, T
  <2> DEFINE fl == f \o l
  <2>6. fl \in Seq(Byte) /\ Len(fl) = Len(f) + Len(l)
    BY <2>1, <2>2, ConcatProperties
  <2> HIDE DEF fl
  <2>7. Len(fl \o r) = Len(fl) + Len(r)
    BY <2>2, <2>6, ConcatProperties
  <2>5. Len(f \o l \o r) = 1 + Len(l) + Len(r)
    BY <2>1, <2>6, <2>7 DEF fl
  <2> QED BY <1>3, <2>2, <2>3, <2>4, <2>5, SerializedSizeDef DEF T
<1>4. ASSUME NEW var \in Policies \cap T, AbPolicyNot(var) \in Policies PROVE AbPolicyNot(var) \in T
  <2> DEFINE f == <<NotFlag>>
             v == Serialize[var]
  <2>1. f \in Seq(Byte) /\ Len(f) = 1
    BY FlagBytes DEF Flags
  <2>2. v \in Seq(Byte) /\ Len(v) = SerializedSize[var]
    BY SerializeDef
  <2>3. Serialize[AbPolicyNot(var)] = f \o v /\ SerializedSize[AbPolicyNot(var)] = 1 + SerializedSize[var]
    BY <1>4, SerializeDef, SerializedSizeDef
  <2> HIDE DEF f, v, T
  <2>4. Len(f \o v) = 1 + Len(v)
    BY SMTT(30), <2>1, <2>2, ConcatProperties
  <2> QED BY <1>4, <2>2, <2>3, <2>4, SerializedSizeDef DEF T
<1> HIDE DEF T
<1>5. \A p \in Policies : p \in T
  BY <1>1, <1>2, <1>3, <1>4, PolicyInduction
<1> QED BY <1>5 DEF T

\* The outcome of an examination depends on the related attributes only.
LEMMA OnlyRelatedCount ==
  ASSUME NEW A, NEW B
  PROVE  \A p \in Policies :
           A \cap RelatedAttributes[p] = B \cap RelatedAttributes[p] => Examine(p, A) = Examine(p, B)
<1> DEFINE Same(p) == A \cap RelatedAttributes[p] = B \cap RelatedAttributes[p]
           T == {p \in Policies : Same(p) => Examine(p, A) = Examine(p, B)}
<1>0. AbPolicyAny \in Policies /\ \A item \in AttrItems : AbPolicyAttribute(item) \in Policies
  BY PoliciesMade, DepthAssumption DEF Policies
<1>1. AbPolicyAny \in T
  BY <1>0, ExamineDef
<1>2. ASSUME NEW item \in AttrItems PROVE AbPolicyAttribute(item) \in T
  <2>1. RelatedAttributes[AbPolicyAttribute(item)] = {item}
    BY RelatedAttributesDef
  <2>2. Examine(AbPolicyAttribute(item), A) = (item \in A)
    BY ExamineDef
  <2>3. Examine(AbPolicyAttribute(item), B) = (item \in B)
    BY ExamineDef
  <2> QED BY <1>0, <2>1, <2>2, <2>3
<1>3. ASSUME NEW flag \in {AndFlag, OrFlag}, NEW left \in Policies \cap T, NEW right \in Policies \cap T,
             AbPolicyBinaryOp(flag, left, right) \in Policies
      PROVE  AbPolicyBinaryOp(flag, left, right) \in T
  <2> DEFINE p == AbPolicyBinaryOp(flag, left, right)
  <2> SUFFICES ASSUME Same(p) PROVE Examine(p, A) = Examine(p, B)
    BY <1>3
  <2>1. RelatedAttributes[p] = RelatedAttributes[left] \cup RelatedAttributes[right]
    BY <1>3, RelatedAttributesDef
  <2>2. Same(left) /\ Same(right)
    BY <2>1
  <2>3. Examine(left, A) = Examine(left, B) /\ Examine(right, A) = Examine(right, B)
    BY <2>2
  <2>6. left \in Policies /\ right \in Policies /\ p \in Policies
    BY <1>3
  <2> HIDE DEF T
  <2>4. Examine(p, A) = (IF flag = AndFlag THEN Examine(left, A) /\ Examine(right, A)
                                           ELSE Examine(left, A) \/ Examine(right, A))
    BY <2>6, ExamineDef
  <2>5. Examine(p, B) = (IF flag = AndFlag THEN Examine(left, B) /\ Examine(right, B)
                                           ELSE Examine(left, B) \/ Examine(right, B))
    BY <2>6, ExamineDef
  <2> QED BY <2>3, <2>4, <2>5
<1>4. ASSUME NEW var \in Policies \cap T, AbPolicyNot(var) \in Policies PROVE AbPolicyNot(var) \in T
  <2>1. RelatedAttributes[AbPolicyNot(var)] = RelatedAttributes[var]
    BY <1>4, RelatedAttributesDef
  <2>2. Examine(AbPolicyNot(var), A) = (~Examine(var, A))
    BY <1>4, ExamineDef
  <2>3. Examine(AbPolicyNot(var), B) = (~Examine(var, B))
    BY <1>4, ExamineDef
  <2> QED BY <1>4, <2>1, <2>2, <2>3
<1> HIDE DEF T
<1>5. \A p \in Policies : p \in T
  BY <1>1, <1>2, <1>3, <1>4, PolicyInduction
<1> QED BY <1>5 DEF T

----------------------------------------------------------------------------
(* The controls *)

\* The three policies of a control, of either kind.
EntityControls == [r : EntityPolicies, w : EntityPolicies, x : EntityPolicies]
AttributeControls == [r : Policies, w : Policies, x : Policies]

\* An enclave policy is written as long as it should be, and read as it was written.
LEMMA EntityControlSurvives ==
  ASSUME NEW c, NEW rest, c \in EntityControls, rest \in Seq(Byte)
  PROVE  /\ SerializeEntityBasedControl(c) \in Seq(Byte)
         /\ Len(SerializeEntityBasedControl(c)) = SizeOfEntityBasedControl(c)
         /\ SizeOfEntityBasedControl(c) \in Nat
         /\ ParseEntityBasedControl(SerializeEntityBasedControl(c) \o rest) = Parsed(c, rest)
<1> DEFINE a == SerializeEntityPolicy(c.r)
           b == SerializeEntityPolicy(c.w)
           d == SerializeEntityPolicy(c.x)
           u == d \o rest
           t == b \o u
<1>0. c.r \in EntityPolicies /\ c.w \in EntityPolicies /\ c.x \in EntityPolicies /\ Control(c.r, c.w, c.x) = c
  BY DEF EntityControls, Control
<1>1. /\ a \in Seq(Byte) /\ b \in Seq(Byte) /\ d \in Seq(Byte)
      /\ SizeOfEntityPolicy(c.r) \in Nat /\ Len(a) = SizeOfEntityPolicy(c.r)
      /\ SizeOfEntityPolicy(c.w) \in Nat /\ Len(b) = SizeOfEntityPolicy(c.w)
      /\ SizeOfEntityPolicy(c.x) \in Nat /\ Len(d) = SizeOfEntityPolicy(c.x)
  BY <1>0, EntityPolicySurvives
<1>2. SerializeEntityBasedControl(c) = (a \o b) \o d
  BY DEF SerializeEntityBasedControl
<1>3. ParseEntityPolicy(d \o rest) = Parsed(c.x, rest)
  BY <1>0, EntityPolicySurvives
<1>4. u \in Seq(Byte) /\ ParseEntityPolicy(b \o u) = Parsed(c.w, u)
  <2>1. u \in Seq(Byte)
    BY <1>1
  <2> HIDE DEF u
  <2> QED BY <1>0, <2>1, EntityPolicySurvives
<1>5. t \in Seq(Byte) /\ ParseEntityPolicy(a \o t) = Parsed(c.r, t)
  <2>1. t \in Seq(Byte)
    BY <1>1, <1>4
  <2> HIDE DEF t
  <2> QED BY <1>0, <2>1, EntityPolicySurvives
<1> HIDE DEF a, b, d
<1> DEFINE ab == a \o b
<1>6. ab \in Seq(Byte) /\ Len(ab) = Len(a) + Len(b)
  BY <1>1, ConcatProperties
<1>16. ab \o u = a \o t
  <2>1. a \in Seq(Byte) /\ b \in Seq(Byte) /\ u \in Seq(Byte)
    BY <1>1, <1>4
  <2> HIDE DEF u
  <2>2. (a \o b) \o u = a \o (b \o u)
    BY SMTT(30), <2>1, RegroupBytes
  <2> QED BY <2>2
<1> HIDE DEF ab
<1>17. (ab \o d) \o rest = ab \o u
  <2>1. ab \in Seq(Byte) /\ d \in Seq(Byte) /\ rest \in Seq(Byte)
    BY <1>1, <1>6
  <2> HIDE DEF t
  <2> QED BY SMTT(30), <2>1, Regroup
<1>7. ab \o d \in Seq(Byte) /\ Len(ab \o d) = Len(ab) + Len(d)
  BY <1>1, <1>6, ConcatProperties
<1> HIDE DEF t, u
<1> DEFINE first == ParseEntityPolicy(a \o t)
           second == ParseEntityPolicy(first.rest)
           third == ParseEntityPolicy(second.rest)
<1>8. ParseEntityBasedControl(a \o t) =
        IF first.ok /\ second.ok /\ third.ok
          THEN Parsed(Control(first.value, second.value, third.value), third.rest)
          ELSE IF first.ok /\ second.ok THEN third ELSE IF first.ok THEN second ELSE first
  BY DEF ParseEntityBasedControl, ParseThree, Then
<1>9. first.ok /\ first.value = c.r /\ first.rest = t
  BY <1>5, Continues
<1>10. second = Parsed(c.w, u)
  BY <1>4, <1>9 DEF t
<1> HIDE DEF first
<1>11. second.ok /\ second.value = c.w /\ second.rest = u
  BY <1>10, Continues
<1>12. third = Parsed(c.x, rest)
  BY <1>3, <1>11 DEF u
<1> HIDE DEF second
<1>13. third.ok /\ third.value = c.x /\ third.rest = rest
  BY <1>12, Continues
<1> HIDE DEF third
<1>14. ParseEntityBasedControl(a \o t) = Parsed(c, rest)
  BY <1>0, <1>8, <1>9, <1>11, <1>13
<1>15. SizeOfEntityBasedControl(c) = Len(a) + Len(b) + Len(d)
  BY <1>1 DEF SizeOfEntityBasedControl
<1> QED BY <1>1, <1>2, <1>6, <1>7, <1>14, <1>15, <1>16, <1>17 DEF ab

\* What is cut in none of the three policies' items is not cut in a list.
LEMMA CutInOne ==
  ASSUME NEW p, NEW m, CutInItems(p, m)
  PROVE  m \in 0 .. SizeOfEntityPolicy(p) - 1
BY SizeAssumption DEF CutInItems

\* Where one of three enclave policies ends too early, parsing ends, and the ones before
\* it were read.
LEMMA EntityControlCut ==
  ASSUME NEW c, NEW m, c \in EntityControls, m \in 0 .. SizeOfEntityBasedControl(c) - 1
  PROVE  ParseEntityBasedControl(SubSeq(SerializeEntityBasedControl(c), 1, m)) =
           IF CutInLists(c, m) THEN Overrun ELSE ParseError
<1> DEFINE a == SerializeEntityPolicy(c.r)
           b == SerializeEntityPolicy(c.w)
           d == SerializeEntityPolicy(c.x)
           bd == b \o d
<1>0. /\ c.r \in EntityPolicies /\ c.w \in EntityPolicies /\ c.x \in EntityPolicies
      /\ ~ParseError.ok /\ ~Overrun.ok
  BY DEF EntityControls, ParseError, Overrun
<1>1. /\ a \in Seq(Byte) /\ b \in Seq(Byte) /\ d \in Seq(Byte)
      /\ SizeOfEntityPolicy(c.r) \in Nat /\ Len(a) = SizeOfEntityPolicy(c.r)
      /\ SizeOfEntityPolicy(c.w) \in Nat /\ Len(b) = SizeOfEntityPolicy(c.w)
      /\ SizeOfEntityPolicy(c.x) \in Nat /\ Len(d) = SizeOfEntityPolicy(c.x)
  BY <1>0, EntityPolicySurvives, EmptySeq
<1>2. SerializeEntityBasedControl(c) = (a \o b) \o d
  BY DEF SerializeEntityBasedControl
<1>3. /\ \A k \in 0 .. Len(a) - 1 : ParseEntityPolicy(SubSeq(a, 1, k)) = IF CutInItems(c.r, k) THEN Overrun ELSE ParseError
      /\ \A k \in 0 .. Len(b) - 1 : ParseEntityPolicy(SubSeq(b, 1, k)) = IF CutInItems(c.w, k) THEN Overrun ELSE ParseError
      /\ \A k \in 0 .. Len(d) - 1 : ParseEntityPolicy(SubSeq(d, 1, k)) = IF CutInItems(c.x, k) THEN Overrun ELSE ParseError
  BY <1>0, <1>1, EntityPolicyCut
<1>4. /\ \A t \in Seq(Byte) : ParseEntityPolicy(a \o t) = Parsed(c.r, t)
      /\ \A t \in Seq(Byte) : ParseEntityPolicy(b \o t) = Parsed(c.w, t)
  BY <1>0, EntityPolicySurvives
<1>5. \A bytes :
        LET first == ParseEntityPolicy(bytes)
            second == ParseEntityPolicy(first.rest)
            third == ParseEntityPolicy(second.rest)
        IN  /\ ~first.ok => ParseEntityBasedControl(bytes) = first
            /\ first.ok /\ ~second.ok => ParseEntityBasedControl(bytes) = second
            /\ first.ok /\ second.ok /\ ~third.ok => ParseEntityBasedControl(bytes) = third
  BY DEF ParseEntityBasedControl, ParseThree, Then
<1>6. CutInLists(c, m) <=> \/ CutInItems(c.r, m)
                          \/ CutInItems(c.w, m - Len(a))
                          \/ CutInItems(c.x, m - Len(a) - Len(b))
  BY <1>1 DEF CutInLists
<1>7. m \in 0 .. Len(a) + Len(b) + Len(d) - 1
  BY <1>1 DEF SizeOfEntityBasedControl
<1> HIDE DEF a, b, d
<1>8. /\ CutInItems(c.r, m) => m \in 0 .. Len(a) - 1
      /\ CutInItems(c.w, m - Len(a)) => m - Len(a) \in 0 .. Len(b) - 1
      /\ CutInItems(c.x, m - Len(a) - Len(b)) => m - Len(a) - Len(b) \in 0 .. Len(d) - 1
  BY <1>1, CutInOne
<1>9. bd \in Seq(Byte) /\ Len(bd) = Len(b) + Len(d) /\ (a \o b) \o d = a \o bd
  <2>1. bd \in Seq(Byte) /\ Len(bd) = Len(b) + Len(d)
    BY <1>1, ConcatProperties
  <2>2. (a \o b) \o d = a \o (b \o d)
    <3>1. a \in Seq(Byte) /\ b \in Seq(Byte) /\ d \in Seq(Byte)
      BY <1>1
    <3> QED BY SMTT(30), <3>1, RegroupBytes
  <2> QED BY <2>1, <2>2
<1> HIDE DEF bd
<1>10. m \in 0 .. Len(a) + Len(bd) - 1 /\ Len(a) \in Nat /\ Len(b) \in Nat /\ Len(d) \in Nat
  BY <1>1, <1>7, <1>9
<1>11. CASE m \in 0 .. Len(a) - 1 /\ SubSeq(a \o bd, 1, m) = SubSeq(a, 1, m)
  <2>1. CutInLists(c, m) <=> CutInItems(c.r, m)
    BY <1>6, <1>8, <1>10, <1>11
  <2> DEFINE first == ParseEntityPolicy(SubSeq(a, 1, m))
  <2>2. first = IF CutInItems(c.r, m) THEN Overrun ELSE ParseError
    BY <1>3, <1>11
  <2>3. ~first.ok
    BY <1>0, <2>2
  <2>4. ParseEntityBasedControl(SubSeq(a, 1, m)) = first
    BY <1>5, <2>3
  <2> QED BY <1>2, <1>9, <1>11, <2>1, <2>2, <2>4
<1>12. CASE /\ m - Len(a) \in 0 .. Len(bd) - 1
            /\ SubSeq(a \o bd, 1, m) = a \o SubSeq(bd, 1, m - Len(a))
            /\ SubSeq(bd, 1, m - Len(a)) \in Seq(Byte)
  <2> DEFINE k == m - Len(a)
             t == SubSeq(bd, 1, k)
  <2>1. k \in 0 .. Len(b) + Len(d) - 1 /\ t \in Seq(Byte)
    BY <1>9, <1>12
  <2>2. ParseEntityPolicy(a \o t) = Parsed(c.r, t)
    BY <1>4, <2>1
  <2>3. /\ SerializeEntityBasedControl(c) = a \o bd /\ SubSeq(a \o bd, 1, m) = a \o t
        /\ CutInLists(c, m) <=> CutInItems(c.w, k) \/ CutInItems(c.x, k - Len(b))
    <3>1. SerializeEntityBasedControl(c) = a \o bd /\ SubSeq(a \o bd, 1, m) = a \o t
      BY <1>2, <1>9, <1>12
    <3>2. ~CutInItems(c.r, m)
      BY <1>8, <1>10, <1>12
    <3> QED BY <1>6, <3>1, <3>2
  <2> HIDE DEF k
  <2>4. CASE k \in 0 .. Len(b) - 1 /\ t = SubSeq(b, 1, k)
    <3>1. ParseEntityPolicy(t) = IF CutInItems(c.w, k) THEN Overrun ELSE ParseError
      BY <1>3, <2>4
    <3> HIDE DEF t
    <3>2. ParseEntityBasedControl(a \o t) = ParseEntityPolicy(t)
      BY <1>0, <1>5, <2>2, <3>1, Continues
    <3>3. ~CutInItems(c.x, k - Len(b))
      BY <1>8, <1>10, <2>4 DEF k
    <3> QED BY <2>3, <3>1, <3>2, <3>3
  <2>5. CASE k - Len(b) \in 0 .. Len(d) - 1 /\ t = b \o SubSeq(d, 1, k - Len(b)) /\ SubSeq(d, 1, k - Len(b)) \in Seq(Byte)
    <3> DEFINE u == SubSeq(d, 1, k - Len(b))
    <3>1. ParseEntityPolicy(u) = IF CutInItems(c.x, k - Len(b)) THEN Overrun ELSE ParseError
      BY <1>3, <2>5
    <3>2. u \in Seq(Byte) /\ t = b \o u
      BY <2>5
    <3> HIDE DEF t, u
    <3>3. ParseEntityPolicy(t) = Parsed(c.w, u)
      BY <1>4, <3>2
    <3>4. ParseEntityBasedControl(a \o t) = ParseEntityPolicy(u)
      BY <1>0, <1>5, <2>2, <3>1, <3>3, Continues
    <3>5. ~CutInItems(c.w, k)
      BY <1>8, <1>10, <2>5 DEF k
    <3> QED BY <2>3, <3>1, <3>4, <3>5
  <2> QED BY <1>1, <2>1, <2>4, <2>5, CutTwo DEF bd
<1> QED BY <1>1, <1>9, <1>10, <1>11, <1>12, CutTwo

\* So is a client policy.
LEMMA AttributeControlSurvives ==
  ASSUME NEW c, NEW rest, c \in AttributeControls, rest \in Seq(Byte)
  PROVE  /\ SerializeAttributeBasedControl(c) \in Seq(Byte)
         /\ Len(SerializeAttributeBasedControl(c)) = SizeOfAttributeBasedControl(c)
         /\ SizeOfAttributeBasedControl(c) \in Nat
         /\ ParseAttributeBasedControl(SerializeAttributeBasedControl(c) \o rest) = Parsed(c, rest)
<1> DEFINE a == Serialize[c.r]
           b == Serialize[c.w]
           d == Serialize[c.x]
           u == d \o rest
           t == b \o u
<1>0. c.r \in Policies /\ c.w \in Policies /\ c.x \in Policies /\ Control(c.r, c.w, c.x) = c
  BY DEF AttributeControls, Control
<1>1. /\ a \in Seq(Byte) /\ b \in Seq(Byte) /\ d \in Seq(Byte)
      /\ SerializedSize[c.r] \in Nat /\ Len(a) = SerializedSize[c.r]
      /\ SerializedSize[c.w] \in Nat /\ Len(b) = SerializedSize[c.w]
      /\ SerializedSize[c.x] \in Nat /\ Len(d) = SerializedSize[c.x]
  BY <1>0, SerializeDef, SerializedSizeDef, SizeIsLength
<1>2. SerializeAttributeBasedControl(c) = (a \o b) \o d
  BY DEF SerializeAttributeBasedControl
<1>3. Parse[d \o rest] = Parsed(c.x, rest)
  BY <1>0, PolicyParses
<1>4. u \in Seq(Byte) /\ Parse[b \o u] = Parsed(c.w, u)
  <2>1. u \in Seq(Byte)
    BY <1>1
  <2> HIDE DEF u
  <2> QED BY <1>0, <2>1, PolicyParses
<1>5. t \in Seq(Byte) /\ Parse[a \o t] = Parsed(c.r, t)
  <2>1. t \in Seq(Byte)
    BY <1>1, <1>4
  <2> HIDE DEF t
  <2> QED BY <1>0, <2>1, PolicyParses
<1> HIDE DEF a, b, d
<1> DEFINE ab == a \o b
<1>6. ab \in Seq(Byte) /\ Len(ab) = Len(a) + Len(b)
  BY <1>1, ConcatProperties
<1>16. ab \o u = a \o t
  <2>1. a \in Seq(Byte) /\ b \in Seq(Byte) /\ u \in Seq(Byte)
    BY <1>1, <1>4
  <2> HIDE DEF u
  <2>2. (a \o b) \o u = a \o (b \o u)
    BY SMTT(30), <2>1, RegroupBytes
  <2> QED BY <2>2
<1> HIDE DEF ab
<1>17. (ab \o d) \o rest = ab \o u
  <2>1. ab \in Seq(Byte) /\ d \in Seq(Byte) /\ rest \in Seq(Byte)
    BY <1>1, <1>6
  <2> HIDE DEF t
  <2> QED BY SMTT(30), <2>1, Regroup
<1>7. ab \o d \in Seq(Byte) /\ Len(ab \o d) = Len(ab) + Len(d)
  BY <1>1, <1>6, ConcatProperties
<1> HIDE DEF t, u
<1> DEFINE first == Parse[a \o t]
           second == Parse[first.rest]
           third == Parse[second.rest]
<1>8. ParseAttributeBasedControl(a \o t) =
        IF first.ok /\ second.ok /\ third.ok
          THEN Parsed(Control(first.value, second.value, third.value), third.rest)
          ELSE IF first.ok /\ second.ok THEN third ELSE IF first.ok THEN second ELSE first
  BY DEF ParseAttributeBasedControl, ParseThree, Then
<1>9. first.ok /\ first.value = c.r /\ first.rest = t
  BY <1>5, Continues
<1>10. second = Parsed(c.w, u)
  BY <1>4, <1>9 DEF t
<1> HIDE DEF first
<1>11. second.ok /\ second.value = c.w /\ second.rest = u
  BY <1>10, Continues
<1>12. third = Parsed(c.x, rest)
  BY <1>3, <1>11 DEF u
<1> HIDE DEF second
<1>13. third.ok /\ third.value = c.x /\ third.rest = rest
  BY <1>12, Continues
<1> HIDE DEF third
<1>14. ParseAttributeBasedControl(a \o t) = Parsed(c, rest)
  BY <1>0, <1>8, <1>9, <1>11, <1>13
<1>15. SizeOfAttributeBasedControl(c) = Len(a) + Len(b) + Len(d)
  BY <1>1 DEF SizeOfAttributeBasedControl
<1> QED BY <1>1, <1>2, <1>6, <1>7, <1>14, <1>15, <1>16, <1>17 DEF ab

\* A client policy that ends too early is an error.
LEMMA AttributeControlCut ==
  ASSUME NEW c, NEW m, c \in AttributeControls, m \in 0 .. SizeOfAttributeBasedControl(c) - 1
  PROVE  ParseAttributeBasedControl(SubSeq(SerializeAttributeBasedControl(c), 1, m)) = ParseError
<1> DEFINE a == Serialize[c.r]
           b == Serialize[c.w]
           d == Serialize[c.x]
           bd == b \o d
<1>0. c.r \in Policies /\ c.w \in Policies /\ c.x \in Policies /\ ~ParseError.ok
  BY DEF AttributeControls, ParseError
<1>1. /\ a \in Seq(Byte) /\ b \in Seq(Byte) /\ d \in Seq(Byte)
      /\ Len(a) = SerializedSize[c.r] /\ Len(b) = SerializedSize[c.w] /\ Len(d) = SerializedSize[c.x]
  BY <1>0, SerializeDef, SerializedSizeDef, SizeIsLength
<1>2. SerializeAttributeBasedControl(c) = (a \o b) \o d
  BY DEF SerializeAttributeBasedControl
<1>3. /\ \A k \in 0 .. Len(a) - 1 : Parse[SubSeq(a, 1, k)] = ParseError
      /\ \A k \in 0 .. Len(b) - 1 : Parse[SubSeq(b, 1, k)] = ParseError
      /\ \A k \in 0 .. Len(d) - 1 : Parse[SubSeq(d, 1, k)] = ParseError
  BY <1>0, PrefixFails
<1>4. /\ \A t \in Seq(Byte) : Parse[a \o t] = Parsed(c.r, t)
      /\ \A t \in Seq(Byte) : Parse[b \o t] = Parsed(c.w, t)
  BY <1>0, PolicyParses
<1>5. \A bytes :
        LET first == Parse[bytes]
            second == Parse[first.rest]
            third == Parse[second.rest]
        IN  /\ ~first.ok => ParseAttributeBasedControl(bytes) = first
            /\ first.ok /\ ~second.ok => ParseAttributeBasedControl(bytes) = second
            /\ first.ok /\ second.ok /\ ~third.ok => ParseAttributeBasedControl(bytes) = third
  BY DEF ParseAttributeBasedControl, ParseThree, Then
<1>6. Len(a) \in Nat /\ Len(b) \in Nat /\ Len(d) \in Nat
  BY <1>1
<1>7. m \in 0 .. Len(a) + Len(b) + Len(d) - 1
  <2>1. SizeOfAttributeBasedControl(c) = Len(a) + Len(b) + Len(d)
    BY <1>1 DEF SizeOfAttributeBasedControl
  <2>2. m \in 0 .. SizeOfAttributeBasedControl(c) - 1
    OBVIOUS
  <2> HIDE DEF a, b, d
  <2> QED BY <2>1, <2>2
<1> HIDE DEF a, b, d
<1>8. bd \in Seq(Byte) /\ Len(bd) = Len(b) + Len(d) /\ (a \o b) \o d = a \o bd
  <2>1. bd \in Seq(Byte) /\ Len(bd) = Len(b) + Len(d)
    BY <1>1, ConcatProperties
  <2>2. (a \o b) \o d = a \o (b \o d)
    <3>1. a \in Seq(Byte) /\ b \in Seq(Byte) /\ d \in Seq(Byte)
      BY <1>1
    <3> QED BY SMTT(30), <3>1, RegroupBytes
  <2> QED BY <2>1, <2>2
<1> HIDE DEF bd
<1>9. m \in 0 .. Len(a) + Len(bd) - 1
  BY <1>6, <1>7, <1>8
<1>10. CASE m \in 0 .. Len(a) - 1 /\ SubSeq(a \o bd, 1, m) = SubSeq(a, 1, m)
  <2> DEFINE first == Parse[SubSeq(a, 1, m)]
  <2>1. first = ParseError
    BY <1>3, <1>10
  <2>2. ParseAttributeBasedControl(SubSeq(a, 1, m)) = first
    BY <1>0, <1>5, <2>1
  <2> QED BY <1>2, <1>8, <1>10, <2>1, <2>2
<1>11. CASE /\ m - Len(a) \in 0 .. Len(bd) - 1
            /\ SubSeq(a \o bd, 1, m) = a \o SubSeq(bd, 1, m - Len(a))
            /\ SubSeq(bd, 1, m - Len(a)) \in Seq(Byte)
  <2> DEFINE k == m - Len(a)
             t == SubSeq(bd, 1, k)
  <2>1. k \in 0 .. Len(b) + Len(d) - 1 /\ t \in Seq(Byte)
    BY <1>8, <1>11
  <2>2. Parse[a \o t] = Parsed(c.r, t) /\ SubSeq((a \o b) \o d, 1, m) = a \o t
    BY <1>4, <1>8, <1>11, <2>1
  <2> HIDE DEF k
  <2>3. CASE k \in 0 .. Len(b) - 1 /\ t = SubSeq(b, 1, k)
    <3>1. Parse[t] = ParseError
      BY <1>3, <2>3
    <3> HIDE DEF t
    <3>2. ParseAttributeBasedControl(a \o t) = Parse[t]
      BY <1>0, <1>5, <2>2, <3>1, Continues
    <3> QED BY <1>2, <2>2, <3>1, <3>2
  <2>4. CASE k - Len(b) \in 0 .. Len(d) - 1 /\ t = b \o SubSeq(d, 1, k - Len(b)) /\ SubSeq(d, 1, k - Len(b)) \in Seq(Byte)
    <3> DEFINE u == SubSeq(d, 1, k - Len(b))
    <3>1. Parse[u] = ParseError /\ u \in Seq(Byte) /\ t = b \o u
      BY <1>3, <2>4
    <3> HIDE DEF t, u
    <3>2. Parse[t] = Parsed(c.w, u)
      BY <1>4, <3>1
    <3>3. ParseAttributeBasedControl(a \o t) = Parse[u]
      BY <1>0, <1>5, <2>2, <3>1, <3>2, Continues
    <3> QED BY <1>2, <2>2, <3>1, <3>3
  <2> QED BY <1>1, <2>1, <2>3, <2>4, CutTwo DEF bd
<1> QED BY <1>1, <1>8, <1>9, <1>10, <1>11, CutTwo

----------------------------------------------------------------------------
(* Building a policy *)

\* An attribute's name is two hashes.
LEMMA AttributeItemTyped ==
  ASSUME NEW user, NEW attr, user \in Hash, attr \in Hash
  PROVE  AttributeItem(user, attr) \in AttrItems
<1>1. user \in Seq(Byte) /\ attr \in Seq(Byte) /\ Len(user) = HashSize /\ Len(attr) = HashSize
  BY SizeAssumption DEF Hash
<1>2. user \o attr \in Seq(Byte) /\ Len(user \o attr) = HashSize + HashSize
  BY SMTT(30), <1>1, ConcatProperties
<1>3. AttributeItemSize = HashSize + HashSize
  BY SizeAssumption DEF AttributeItemSize
<1> DEFINE item == user \o attr
<1> HIDE DEF item
<1>4. item \in Seq(Byte) /\ Len(item) = AttributeItemSize
  BY <1>2, <1>3 DEF item
<1>5. item \in [1 .. AttributeItemSize -> Byte]
  BY <1>4
<1> QED BY <1>5 DEF AttributeItem, AttrItems, item

\* The policy that denies everything is one.
LEMMA DenyAllTyped == DenyAll \in Policies /\ AbPolicyAny \in Policies
<1>1. AbPolicyAny \in PoliciesOf[0] /\ 0 \in Nat /\ MaxDepth \in Nat /\ MaxDepth >= 1
  BY PoliciesMade, DepthAssumption
<1>2. DenyAll \in PoliciesOf[0 + 1]
  BY <1>1, PoliciesMade DEF DenyAll
<1>3. PoliciesOf[1] \subseteq PoliciesOf[MaxDepth] /\ PoliciesOf[0] \subseteq PoliciesOf[MaxDepth]
  BY <1>1, PoliciesGrow
<1> QED BY <1>1, <1>2, <1>3 DEF Policies

\* The benchmark's client policy is made of expressions that are looked at.
LEMMA TestClientPolicyTyped ==
  ASSUME NEW user, user \in Hash
  PROVE  TestClientPolicy(user) \in Seq(Policies)
<1> DEFINE N == Len(TestLabels)
           labelled(n) == AbPolicyAttribute(AttributeItem(user, TestLabels[n]))
           Right(f) == f = [n \in 1 .. N |-> IF n = 1 THEN labelled(1)
                                             ELSE AbPolicyBinaryOp(AndFlag, f[n - 1], labelled(n))]
           F == CHOOSE f : Right(f)
<1>1. N \in Nat \ {0} /\ N <= MaxDepth + 1 /\ MaxDepth \in Nat /\ \A n \in 1 .. N : TestLabels[n] \in Hash
  BY DepthAssumption, HashAssumption, EmptySeq
<1>2. TestClientPolicy(user) = <<F[N], F[N], DenyAll>>
  BY DEF TestClientPolicy
<1>3. \A n \in 1 .. N : \A d \in Nat : labelled(n) \in PoliciesOf[d]
  BY <1>1, AttributeItemTyped, PoliciesMade
<1> HIDE DEF N, labelled
<1>4. \E f : Right(f)
  <2> DEFINE both(v, i) == IF i = 1 THEN labelled(1) ELSE AbPolicyBinaryOp(AndFlag, v, labelled(i))
             step == [t \in AllPolicies \X (1 .. N) |-> both(t[1], t[2])]
  <2>0. \A i \in 1 .. N : labelled(i) \in AllPolicies
    BY <1>3 DEF AllPolicies
  <2>1. \A v \in AllPolicies, i \in 1 .. N : both(v, i) \in AllPolicies
    BY <1>1, <2>0, AllPoliciesMade
  <2> HIDE DEF both
  <2>2. \A v \in AllPolicies, i \in 1 .. N : step[<<v, i>>] = both(v, i) /\ step[<<v, i>>] \in AllPolicies
    BY <2>1
  <2> HIDE DEF step
  <2>3. PICK g \in [0 .. N -> AllPolicies] :
          g[0] = AbPolicyAny /\ \A i \in 1 .. N : g[i] = step[<<g[i - 1], i>>]
    <3>1. IsIteration(AllPolicies, N, AbPolicyAny, step)
      BY <2>2, <1>1, AllPoliciesMade DEF IsIteration
    <3> QED BY <3>1, Iteration
  <2> DEFINE h == [i \in 1 .. N |-> g[i]]
  <2>4. ASSUME NEW i \in 1 .. N
        PROVE  h[i] = IF i = 1 THEN labelled(1) ELSE AbPolicyBinaryOp(AndFlag, h[i - 1], labelled(i))
    <3>1. g[i - 1] \in AllPolicies /\ g[i] = both(g[i - 1], i)
      <4>1. i - 1 \in 0 .. N
        BY <1>1
      <4>2. g[i - 1] \in AllPolicies /\ g[i] = step[<<g[i - 1], i>>]
        BY <2>3, <4>1
      <4> QED BY <2>2, <4>2
    <3>2. i # 1 => h[i - 1] = g[i - 1]
      BY <1>1
    <3> QED BY <3>1, <3>2 DEF both
  <2>5. h = [i \in 1 .. N |-> h[i]]
    OBVIOUS
  <2> HIDE DEF h
  <2>6. Right(h)
    BY <2>4, <2>5
  <2> QED BY <2>6
<1>5. Right(F)
  BY <1>4
<1> HIDE DEF F
<1>6. \A n \in 1 .. N : F[n] = IF n = 1 THEN labelled(1) ELSE AbPolicyBinaryOp(AndFlag, F[n - 1], labelled(n))
  BY <1>5
<1> DEFINE T == {n \in Nat : n \in 1 .. N => F[n] \in PoliciesOf[n - 1]}
<1>7. 0 \in T
  OBVIOUS
<1>8. ASSUME NEW n \in Nat, n \in T PROVE n + 1 \in T
  <2> SUFFICES ASSUME n + 1 \in 1 .. N PROVE F[n + 1] \in PoliciesOf[n]
    OBVIOUS
  <2>1. CASE n = 0
    BY <1>3, <1>6, <2>1
  <2>2. CASE n # 0
    <3>1. n \in 1 .. N /\ n + 1 # 1 /\ (n + 1) - 1 = n /\ n - 1 \in Nat /\ (n - 1) + 1 = n
      BY <1>1, <2>2
    <3>2. F[n] \in PoliciesOf[n - 1] /\ labelled(n + 1) \in PoliciesOf[n - 1]
      BY <1>3, <1>8, <3>1
    <3>3. F[n + 1] = AbPolicyBinaryOp(AndFlag, F[n], labelled(n + 1))
      BY <1>6, <3>1
    <3>4. AbPolicyBinaryOp(AndFlag, F[n], labelled(n + 1)) \in PoliciesOf[(n - 1) + 1]
      BY <3>1, <3>2, PoliciesMade
    <3> QED BY <3>1, <3>3, <3>4
  <2> QED BY <2>1, <2>2
<1>9. F[N] \in PoliciesOf[N - 1]
  <2> HIDE DEF T
  <2>1. \A n \in Nat : n \in T
    BY <1>7, <1>8, Induction
  <2> QED BY <1>1, <2>1 DEF T
<1>10. F[N] \in Policies
  <2>1. N - 1 \in 0 .. MaxDepth
    BY <1>1
  <2> QED BY <1>1, <1>9, <2>1, PoliciesGrow DEF Policies
<1> QED BY <1>2, <1>10, DenyAllTyped

\* The benchmark's enclave policy has lists whose lengths fit.
LEMMA TestEnclavePolicyTyped ==
  ASSUME NEW self, self \in Hash
  PROVE  TestEnclavePolicy(self) \in EntityControls
<1> DEFINE L == {self} \cup TestHashes
<1>1. L \subseteq Hash /\ IsFiniteSet(TestHashes)
  BY HashAssumption, ControlsAssumption
<1>2. IsFiniteSet(L) /\ Cardinality(L) \in Nat /\ Cardinality(L) <= Cardinality(TestHashes) + 1
  <2>1. L = TestHashes \cup {self}
    OBVIOUS
  <2> HIDE DEF L
  <2>2. IsFiniteSet(L) /\ (Cardinality(L) = Cardinality(TestHashes) \/ Cardinality(L) = Cardinality(TestHashes) + 1)
    BY <1>1, <2>1, FS_AddElement
  <2>3. Cardinality(L) \in Nat /\ Cardinality(TestHashes) \in Nat
    BY <1>1, <2>2, FS_CardinalityType
  <2> QED BY <2>2, <2>3
<1>3. Cardinality(TestHashes) \in Nat /\ HashSize \in Nat
  BY <1>1, FS_CardinalityType, SizeAssumption
<1>4. HashSize * Cardinality(L) <= HashSize * (Cardinality(TestHashes) + 1)
  BY <1>2, <1>3, Product
<1>5. HashSize * Cardinality(L) < Values[SizeWidth]
  <2> DEFINE x == HashSize * Cardinality(L)
             y == HashSize * (Cardinality(TestHashes) + 1)
             z == Values[SizeWidth]
  <2>1. x \in Int /\ y \in Int /\ z \in Int /\ x <= y /\ y < z
    BY <1>2, <1>3, <1>4, SizeAssumption, ControlsAssumption, ValuesDef
  <2> HIDE DEF x, y, z
  <2>2. x < z
    BY <2>1
  <2> QED BY <2>2 DEF x, z
<1>6. AllowList(L) \in EntityPolicies
  <2> DEFINE P == {list \in SUBSET Hash : IsFiniteSet(list) /\ HashSize * Cardinality(list) < Values[SizeWidth]}
  <2>1. L \in P
    BY <1>1, <1>2, <1>5
  <2>2. EntityPolicies = [allowAll : {TRUE}] \cup [allowAll : {FALSE}, list : P]
    BY DEF EntityPolicies
  <2> HIDE DEF P, L
  <2> QED BY <2>1, <2>2 DEF AllowList
<1>7. AllowAllEntities \in EntityPolicies
  BY DEF EntityPolicies, AllowAllEntities
<1> QED BY <1>6, <1>7 DEF TestEnclavePolicy, EntityControls, Control

\* What is being built: expressions, an owner and an enclave policy.
Built ==
  /\ stack \in Seq(Policies)
  /\ owner \in Hash
  /\ enclavePolicy \in EntityControls

\* Every policy a program builds, with its own expressions or the benchmark's, is
\* one of those the lemmas are about.
THEOREM PoliciesBuilt == Spec => []Built
<1>1. Init => Built
  <2> SUFFICES ASSUME Init PROVE Built
    OBVIOUS
  <2>1. owner \in Hash
    BY HashAssumption DEF Init
  <2>2. stack \in Seq(Policies)
    <3>1. stack = <<>> \/ \E user \in UserHashes : stack = TestClientPolicy(user)
      BY DEF Init
    <3>2. CASE stack = <<>>
      BY <3>2
    <3>3. ASSUME NEW user \in UserHashes, stack = TestClientPolicy(user) PROVE stack \in Seq(Policies)
      <4>1. TestClientPolicy(user) \in Seq(Policies)
        BY HashAssumption, TestClientPolicyTyped
      <4> QED BY <3>3, <4>1
    <3> QED BY <3>1, <3>2, <3>3
  <2>3. enclavePolicy \in EntityControls
    BY <2>1, ControlsAssumption, TestEnclavePolicyTyped DEF Init, EntityControls
  <2> QED BY <2>1, <2>2, <2>3 DEF Built
<1>2. Built /\ [Next]_vars => Built'
  <2> SUFFICES ASSUME Built, [Next]_vars PROVE Built'
    OBVIOUS
  <2> USE DEF Built
  <2>1. ASSUME NEW p \in Policies, PushPolicy(p) PROVE Built'
    BY <2>1 DEF PushPolicy
  <2>2. CASE PushAny
    BY <2>1, <2>2, DenyAllTyped DEF PushAny
  <2>3. CASE PushDenyAll
    BY <2>1, <2>3, DenyAllTyped DEF PushDenyAll
  <2>4. CASE PushAttribute
    <3>1. PICK user \in UserHashes, attr \in AttrHashes : PushPolicy(AbPolicyAttribute(AttributeItem(user, attr)))
      BY <2>4 DEF PushAttribute
    <3>2. AttributeItem(user, attr) \in AttrItems
      BY HashAssumption, AttributeItemTyped
    <3>3. AbPolicyAttribute(AttributeItem(user, attr)) \in Policies
      BY <3>2, PoliciesMade, DepthAssumption DEF Policies
    <3> QED BY <2>1, <3>1, <3>3
  <2>5. ASSUME NEW flag, Combine(flag) PROVE Built'
    <3> DEFINE n == Len(stack)
               both == AbPolicyBinaryOp(flag, stack[n - 1], stack[n])
    <3>1. /\ both \in Policies /\ stack' = Append(SubSeq(stack, 1, n - 2), both)
          /\ UNCHANGED <<owner, enclavePolicy>> /\ n \in Nat /\ n >= 2
      BY <2>5 DEF Combine
    <3> HIDE DEF both
    <3>2. SubSeq(stack, 1, n - 2) \in Seq(Policies)
      BY <3>1
    <3> HIDE DEF n
    <3> QED BY <3>1, <3>2
  <2>6. CASE Negate
    <3> DEFINE not == AbPolicyNot(Last(stack))
    <3>1. not \in Policies /\ stack' = Append(Front(stack), not) /\ UNCHANGED <<owner, enclavePolicy>>
      BY <2>6 DEF Negate
    <3>2. Front(stack) \in Seq(Policies)
      BY <2>6 DEF Negate, Front
    <3> HIDE DEF not
    <3> QED BY <3>1, <3>2
  <2>7. CASE Drop
    BY <2>7 DEF Drop, Front
  <2>8. CASE UNCHANGED vars
    BY <2>8 DEF vars
  <2> QED BY <2>2, <2>3, <2>4, <2>5, <2>6, <2>7, <2>8 DEF Next
<1> QED BY <1>1, <1>2, PTL DEF Spec

\* The policy that is sent is made of typed parts.
LEMMA PolicyTyped ==
  ASSUME Built, Complete
  PROVE  /\ Policy.owner \in Hash /\ Policy.enclavePolicy \in EntityControls
         /\ Policy.clientPolicy \in AttributeControls
         /\ Policy = FullPolicy(Policy.owner, Policy.enclavePolicy, Policy.clientPolicy)
<1> DEFINE n == Len(stack)
<1>1. n \in Nat /\ n >= 3
  BY DEF Built, Complete
<1>2. stack[n - 2] \in Policies /\ stack[n - 1] \in Policies /\ stack[n] \in Policies
  BY <1>1 DEF Built
<1>3. Policy = FullPolicy(owner, enclavePolicy, Control(stack[n - 2], stack[n - 1], stack[n]))
  BY DEF Policy
<1> HIDE DEF n
<1> QED BY <1>2, <1>3 DEF Built, FullPolicy, Control, AttributeControls

\* The bytes of a policy and their parts.
LEMMA FullPolicySurvives ==
  ASSUME NEW entity, NEW enclave, NEW client, NEW trailer,
         entity \in Hash, enclave \in EntityControls, client \in AttributeControls, trailer \in Seq(Byte)
  PROVE  /\ Len(SerializeFullPolicy(FullPolicy(entity, enclave, client)))
              = SizeOfFullPolicy(FullPolicy(entity, enclave, client))
         /\ ParseFullPolicy(SerializeFullPolicy(FullPolicy(entity, enclave, client)) \o trailer)
              = Parsed(FullPolicy(entity, enclave, client), trailer)
<1> DEFINE p == FullPolicy(entity, enclave, client)
           b == SerializeEntityBasedControl(enclave)
           d == SerializeAttributeBasedControl(client)
           u == d \o trailer
           t == b \o u
<1>1. entity \in Seq(Byte) /\ Len(entity) = HashSize /\ HashSize \in Nat
  BY SizeAssumption DEF Hash
<1>2. b \in Seq(Byte) /\ Len(b) = SizeOfEntityBasedControl(enclave)
  BY EntityControlSurvives, EmptySeq
<1>3. /\ d \in Seq(Byte) /\ Len(d) = SizeOfAttributeBasedControl(client)
      /\ ParseAttributeBasedControl(u) = Parsed(client, trailer)
  BY AttributeControlSurvives
<1>4. SerializeFullPolicy(p) = (entity \o b) \o d
  BY DEF SerializeFullPolicy, FullPolicy
<1>5. SizeOfFullPolicy(p) = HashSize + SizeOfEntityBasedControl(enclave) + SizeOfAttributeBasedControl(client)
  BY DEF SizeOfFullPolicy, FullPolicy
<1> HIDE DEF d
<1>6. u \in Seq(Byte)
  BY <1>3
<1> HIDE DEF u
<1>7. ParseEntityBasedControl(b \o u) = Parsed(enclave, u)
  BY <1>6, EntityControlSurvives
<1> HIDE DEF b
<1>8. t \in Seq(Byte)
  BY <1>2, <1>6
<1> DEFINE eb == entity \o b
<1>9. eb \in Seq(Byte) /\ Len(eb) = Len(entity) + Len(b)
  BY <1>1, <1>2, ConcatProperties
<1>10. eb \o u = entity \o t
  <2>1. entity \in Seq(Byte) /\ b \in Seq(Byte) /\ u \in Seq(Byte)
    BY <1>1, <1>2, <1>6
  <2>2. (entity \o b) \o u = entity \o (b \o u)
    BY SMTT(30), <2>1, RegroupBytes
  <2> QED BY <2>2
<1> HIDE DEF t
<1>11. Take(entity \o t, HashSize) = Parsed(entity, t)
  BY <1>1, <1>8, TakeFirst
<1> HIDE DEF eb
<1>12. Len(eb \o d) = Len(eb) + Len(d)
  BY <1>3, <1>9, ConcatProperties
<1>13. (eb \o d) \o trailer = eb \o u
  <2>1. eb \in Seq(Byte) /\ d \in Seq(Byte) /\ trailer \in Seq(Byte)
    BY <1>3, <1>9
  <2>2. (eb \o d) \o trailer = eb \o (d \o trailer)
    BY SMTT(30), <2>1, RegroupBytes
  <2> QED BY <2>2 DEF u
<1> DEFINE first == ParseEntityItem(entity \o t)
           second == ParseEntityBasedControl(first.rest)
           third == ParseAttributeBasedControl(second.rest)
<1>14. ParseFullPolicy(entity \o t) =
         IF first.ok /\ second.ok /\ third.ok
           THEN Parsed(FullPolicy(first.value, second.value, third.value), third.rest)
           ELSE IF first.ok /\ second.ok THEN third ELSE IF first.ok THEN second ELSE first
  BY DEF ParseFullPolicy, Then
<1>15. first.ok /\ first.value = entity /\ first.rest = t
  BY <1>11, Continues DEF ParseEntityItem
<1>16. second = Parsed(enclave, u)
  BY <1>7, <1>15 DEF t
<1> HIDE DEF first
<1>17. second.ok /\ second.value = enclave /\ second.rest = u
  BY <1>16, Continues
<1>18. third = Parsed(client, trailer)
  BY <1>3, <1>17
<1> HIDE DEF second
<1>19. third.ok /\ third.value = client /\ third.rest = trailer
  BY <1>18, Continues
<1> HIDE DEF third
<1>20. ParseFullPolicy(entity \o t) = Parsed(p, trailer)
  BY <1>14, <1>15, <1>17, <1>19
<1>21. Len(SerializeFullPolicy(p)) = SizeOfFullPolicy(p)
  BY <1>1, <1>2, <1>3, <1>4, <1>5, <1>9, <1>12 DEF eb
<1>22. SerializeFullPolicy(p) \o trailer = entity \o t
  BY <1>4, <1>10, <1>13 DEF eb
<1> QED BY <1>20, <1>21, <1>22

\* A policy that ends too early is an error, or one of its lists is read beyond the end.
LEMMA FullPolicyCut ==
  ASSUME NEW entity, NEW enclave, NEW client, NEW m,
         entity \in Hash, enclave \in EntityControls, client \in AttributeControls,
         m \in 0 .. Len(SerializeFullPolicy(FullPolicy(entity, enclave, client))) - 1
  PROVE  ParseFullPolicy(SubSeq(SerializeFullPolicy(FullPolicy(entity, enclave, client)), 1, m)) =
           IF CutInLists(enclave, m - HashSize) THEN Overrun ELSE ParseError
<1> DEFINE b == SerializeEntityBasedControl(enclave)
           d == SerializeAttributeBasedControl(client)
           bd == b \o d
           result == IF CutInLists(enclave, m - HashSize) THEN Overrun ELSE ParseError
<1>0. ~ParseError.ok /\ ~Overrun.ok
  BY DEF ParseError, Overrun
<1>1. /\ entity \in Seq(Byte) /\ Len(entity) = HashSize /\ HashSize \in Nat
      /\ b \in Seq(Byte) /\ Len(b) = SizeOfEntityBasedControl(enclave)
      /\ d \in Seq(Byte) /\ Len(d) = SizeOfAttributeBasedControl(client)
  <2>1. entity \in Seq(Byte) /\ Len(entity) = HashSize /\ HashSize \in Nat
    BY SizeAssumption DEF Hash
  <2>2. b \in Seq(Byte) /\ Len(b) = SizeOfEntityBasedControl(enclave)
    BY EntityControlSurvives, EmptySeq
  <2>3. d \in Seq(Byte) /\ Len(d) = SizeOfAttributeBasedControl(client)
    BY AttributeControlSurvives, EmptySeq
  <2> QED BY <2>1, <2>2, <2>3
<1>2. SerializeFullPolicy(FullPolicy(entity, enclave, client)) = (entity \o b) \o d
  BY DEF SerializeFullPolicy, FullPolicy
<1>3. /\ \A k \in 0 .. Len(b) - 1 : ParseEntityBasedControl(SubSeq(b, 1, k))
                                      = IF CutInLists(enclave, k) THEN Overrun ELSE ParseError
      /\ \A k \in 0 .. Len(d) - 1 : ParseAttributeBasedControl(SubSeq(d, 1, k)) = ParseError
      /\ \A t \in Seq(Byte) : ParseEntityBasedControl(b \o t) = Parsed(enclave, t)
      /\ \A t \in Seq(Byte) : ParseEntityItem(entity \o t) = Parsed(entity, t)
      /\ \A k \in 0 .. Len(entity) - 1 : ParseEntityItem(SubSeq(entity, 1, k)) = ParseError
  <2>1. \A t \in Seq(Byte) : ParseEntityItem(entity \o t) = Parsed(entity, t)
    BY <1>1, TakeFirst DEF ParseEntityItem
  <2>2. ASSUME NEW k \in 0 .. Len(entity) - 1 PROVE ParseEntityItem(SubSeq(entity, 1, k)) = ParseError
    <3>1. Len(SubSeq(entity, 1, k)) = k /\ k < HashSize
      BY <1>1
    <3> QED BY <3>1 DEF ParseEntityItem, Take
  <2> QED BY <1>1, <2>1, <2>2, EntityControlCut, AttributeControlCut, EntityControlSurvives
<1>4. \A bytes :
        LET first == ParseEntityItem(bytes)
            second == ParseEntityBasedControl(first.rest)
            third == ParseAttributeBasedControl(second.rest)
        IN  /\ ~first.ok => ParseFullPolicy(bytes) = first
            /\ first.ok /\ ~second.ok => ParseFullPolicy(bytes) = second
            /\ first.ok /\ second.ok /\ ~third.ok => ParseFullPolicy(bytes) = third
  BY DEF ParseFullPolicy, Then
<1>5. \A k \in Int : CutInLists(enclave, k) => k \in 0 .. Len(b) - 1
  <2> SUFFICES ASSUME NEW k \in Int, CutInLists(enclave, k) PROVE k \in 0 .. Len(b) - 1
    OBVIOUS
  <2>1. /\ SizeOfEntityPolicy(enclave.r) \in Nat /\ SizeOfEntityPolicy(enclave.w) \in Nat
        /\ SizeOfEntityPolicy(enclave.x) \in Nat
    BY EntityPolicySurvives, EmptySeq DEF EntityControls
  <2>2. Len(b) = SizeOfEntityPolicy(enclave.r) + SizeOfEntityPolicy(enclave.w) + SizeOfEntityPolicy(enclave.x)
    BY <1>1 DEF SizeOfEntityBasedControl
  <2>3. \/ k \in 0 .. SizeOfEntityPolicy(enclave.r) - 1
        \/ k - SizeOfEntityPolicy(enclave.r) \in 0 .. SizeOfEntityPolicy(enclave.w) - 1
        \/ k - SizeOfEntityPolicy(enclave.r) - SizeOfEntityPolicy(enclave.w)
              \in 0 .. SizeOfEntityPolicy(enclave.x) - 1
    BY CutInOne DEF CutInLists
  <2> DEFINE r == SizeOfEntityPolicy(enclave.r)
             w == SizeOfEntityPolicy(enclave.w)
             x == SizeOfEntityPolicy(enclave.x)
             size == Len(b)
  <2>4. r \in Nat /\ w \in Nat /\ x \in Nat /\ size = r + w + x
    BY <2>1, <2>2
  <2>5. k \in 0 .. r - 1 \/ k - r \in 0 .. w - 1 \/ k - r - w \in 0 .. x - 1
    BY <2>3
  <2> HIDE DEF b, r, w, x, size
  <2>6. k \in 0 .. size - 1
    BY <2>4, <2>5
  <2> QED BY <2>6 DEF size
<1> HIDE DEF b, d
<1>6. bd \in Seq(Byte) /\ Len(bd) = Len(b) + Len(d) /\ (entity \o b) \o d = entity \o bd
  <2>1. bd \in Seq(Byte) /\ Len(bd) = Len(b) + Len(d)
    BY <1>1, ConcatProperties
  <2>2. (entity \o b) \o d = entity \o (b \o d)
    <3>1. entity \in Seq(Byte) /\ b \in Seq(Byte) /\ d \in Seq(Byte)
      BY <1>1
    <3> QED BY SMTT(30), <3>1, RegroupBytes
  <2> QED BY <2>1, <2>2
<1> HIDE DEF bd
<1>7. /\ m \in 0 .. Len(entity) + Len(bd) - 1
      /\ Len(entity) \in Nat /\ Len(b) \in Nat /\ Len(d) \in Nat
  <2>1. Len(entity \o bd) = Len(entity) + Len(bd)
    BY <1>1, <1>6, ConcatProperties
  <2>2. m \in 0 .. Len(entity \o bd) - 1
    BY <1>2, <1>6
  <2> QED BY <1>1, <2>1, <2>2
<1> SUFFICES ParseFullPolicy(SubSeq(entity \o bd, 1, m)) = result
  BY <1>2, <1>6
<1>8. CASE m \in 0 .. Len(entity) - 1 /\ SubSeq(entity \o bd, 1, m) = SubSeq(entity, 1, m)
  <2>1. ~CutInLists(enclave, m - HashSize)
    BY <1>1, <1>5, <1>7, <1>8
  <2> QED BY <1>0, <1>3, <1>4, <1>8, <2>1
<1>9. CASE /\ m - Len(entity) \in 0 .. Len(bd) - 1
           /\ SubSeq(entity \o bd, 1, m) = entity \o SubSeq(bd, 1, m - Len(entity))
           /\ SubSeq(bd, 1, m - Len(entity)) \in Seq(Byte)
  <2> DEFINE k == m - Len(entity)
             t == SubSeq(bd, 1, k)
  <2>1. k \in 0 .. Len(b) + Len(d) - 1 /\ t \in Seq(Byte)
    BY <1>6, <1>9
  <2>2. ParseEntityItem(entity \o t) = Parsed(entity, t) /\ SubSeq(entity \o bd, 1, m) = entity \o t
    BY <1>3, <1>9, <2>1
  <2>3. k = m - HashSize
    BY <1>1
  <2> HIDE DEF k
  <2>4. CASE k \in 0 .. Len(b) - 1 /\ t = SubSeq(b, 1, k)
    <3>1. ParseEntityBasedControl(t) = result
      BY <1>3, <2>3, <2>4
    <3> HIDE DEF t
    <3>2. ~result.ok
      BY <1>0
    <3> HIDE DEF result
    <3>3. ParseFullPolicy(entity \o t) = result
      BY <1>4, <2>2, <3>1, <3>2, Continues
    <3> QED BY <2>2, <3>3
  <2>5. CASE k - Len(b) \in 0 .. Len(d) - 1 /\ t = b \o SubSeq(d, 1, k - Len(b)) /\ SubSeq(d, 1, k - Len(b)) \in Seq(Byte)
    <3> DEFINE u == SubSeq(d, 1, k - Len(b))
    <3>1. ParseAttributeBasedControl(u) = ParseError /\ u \in Seq(Byte) /\ t = b \o u
      BY <1>3, <2>5
    <3> HIDE DEF t, u
    <3>2. ParseEntityBasedControl(t) = Parsed(enclave, u)
      BY <1>3, <3>1
    <3>3. ParseFullPolicy(entity \o t) = ParseError
      BY <1>0, <1>4, <2>2, <3>1, <3>2, Continues
    <3>4. ~CutInLists(enclave, m - HashSize)
      BY <1>5, <1>7, <2>1, <2>3, <2>5
    <3> QED BY <2>2, <3>3, <3>4
  <2> QED BY <1>1, <2>1, <2>4, <2>5, CutTwo DEF bd
<1> QED BY <1>1, <1>6, <1>7, <1>8, <1>9, CutTwo

\* The buffer that is reserved for a policy is filled to its last byte, whatever the policy.
THEOREM SizesAreExact == Spec => []SizeIsExact
<1>1. Built => SizeIsExact
  <2> SUFFICES ASSUME Built, Complete PROVE SizeOfFullPolicy(Policy) = Len(SerializeFullPolicy(Policy))
    BY DEF SizeIsExact
  <2> QED BY PolicyTyped, FullPolicySurvives, EmptySeq
<1> QED BY <1>1, PoliciesBuilt, PTL

\* A policy is read as it was written, and parsing stops where it ends, whatever the
\* policy and whatever bytes its hashes are made of.
THEOREM PoliciesSurvive == Spec => []PolicySurvives
<1>1. Built => PolicySurvives
  <2> SUFFICES ASSUME Built, Complete,
                      NEW trailer \in {<<>>, <<AnyFlag>>, <<NotFlag, 0>>}
               PROVE  ParseFullPolicy(SerializeFullPolicy(Policy) \o trailer) = Parsed(Policy, trailer)
    BY DEF PolicySurvives
  <2>1. trailer \in Seq(Byte)
    <3>1. <<>> \in Seq(Byte) /\ AnyFlag \in Byte /\ NotFlag \in Byte /\ 0 \in Byte
      BY DEF AnyFlag, NotFlag, Byte
    <3>2. <<AnyFlag>> \in Seq(Byte) /\ <<NotFlag, 0>> \in Seq(Byte)
      BY <3>1
    <3> QED BY <3>1, <3>2
  <2> QED BY <2>1, PolicyTyped, FullPolicySurvives
<1> QED BY <1>1, PoliciesBuilt, PTL

\* No beginning of what was written for an expression or for a policy is taken for one,
\* whatever its parts; and it is read beyond its end exactly where a list's items are cut.
THEOREM CutShortIsRefused == Spec => []CutShortIsAnError
<1>1. Built => CutShortIsAnError
  <2> SUFFICES ASSUME Built
               PROVE  CutShortIsAnError
    OBVIOUS
  <2>1. ASSUME NEW n \in DOMAIN stack, NEW m \in 0 .. Len(Serialize[stack[n]]) - 1
        PROVE  Parse[SubSeq(Serialize[stack[n]], 1, m)] = ParseError
    <3>1. stack[n] \in Policies
      BY DEF Built
    <3> QED BY <3>1, PrefixFails
  <2>2. ASSUME Complete, NEW m \in 0 .. Len(SerializeFullPolicy(Policy)) - 1
        PROVE  ParseFullPolicy(SubSeq(SerializeFullPolicy(Policy), 1, m)) =
                 IF CutInLists(Policy.enclavePolicy, m - HashSize) THEN Overrun ELSE ParseError
    <3>1. PICK entity \in Hash, enclave \in EntityControls, client \in AttributeControls :
            Policy = FullPolicy(entity, enclave, client)
      BY <2>2, PolicyTyped
    <3>2. Policy.enclavePolicy = enclave
      BY <3>1 DEF FullPolicy
    <3> QED BY <2>2, <3>1, <3>2, FullPolicyCut
  <2> QED BY <2>1, <2>2 DEF CutShortIsAnError
<1> QED BY <1>1, PoliciesBuilt, PTL

\* The attributes that are not related to a policy or to a control need not be looked up,
\* whatever attributes there are.
THEOREM RelatedAreEnough == Spec => []RelatedSuffice
<1>1. \A A : \A p \in Policies : Examine(p, A) = Examine(p, A \cap RelatedAttributes[p])
  <2> SUFFICES ASSUME NEW A, NEW p \in Policies PROVE Examine(p, A) = Examine(p, A \cap RelatedAttributes[p])
    OBVIOUS
  <2> DEFINE B == A \cap RelatedAttributes[p]
  <2>1. A \cap RelatedAttributes[p] = B \cap RelatedAttributes[p]
    OBVIOUS
  <2> HIDE DEF B
  <2>2. Examine(p, A) = Examine(p, B)
    BY <2>1, OnlyRelatedCount
  <2> QED BY <2>2 DEF B
<1>2. Built => RelatedSuffice
  <2> SUFFICES ASSUME Built, NEW attrs \in SUBSET Attributes
               PROVE  /\ \A n \in DOMAIN stack :
                           Examine(stack[n], attrs) = Examine(stack[n], attrs \cap RelatedAttributes[stack[n]])
                      /\ Complete => \A kind \in {"r", "w", "x"} :
                           ExamineControl(Policy.clientPolicy, kind, attrs)
                             = ExamineControl(Policy.clientPolicy, kind,
                                              attrs \cap RelatedToControl(Policy.clientPolicy, kind))
    BY DEF RelatedSuffice
  <2>1. \A n \in DOMAIN stack : stack[n] \in Policies
    BY DEF Built
  <2>2. ASSUME Complete, NEW kind \in {"r", "w", "x"} PROVE Policy.clientPolicy[kind] \in Policies
    BY <2>2, PolicyTyped DEF AttributeControls
  <2> QED BY <1>1, <2>1, <2>2 DEF ExamineControl, RelatedToControl
<1> QED BY <1>2, PoliciesBuilt, PTL

----------------------------------------------------------------------------
(* Ordered sets *)

\* The items of a list have one length.  They are kept in their order.
Words(w) == [1 .. w -> Byte]
\* ItemBase::operator<, on items of a length.
LessOn(w) == {pair \in Words(w) \X Words(w) : Less(pair[1], pair[2])}
\* What a std::set of such items holds.
KeptLists(w) == {s \in Seq(Words(w)) : InOrder(s, LessOn(w))}

\* Any two items of a length can be compared.
LEMMA WordsOrdered ==
  ASSUME NEW w, w \in Nat
  PROVE  StrictOrder(Words(w), LessOn(w)) /\ \A x, y \in Words(w) : <<x, y>> \in LessOn(w) <=> Less(x, y)
<1>1. \A x, y \in Words(w) : <<x, y>> \in LessOn(w) <=> Less(x, y)
  BY DEF LessOn
<1>2. \A x, y, z \in Words(w) : /\ ~Less(x, x)
                                /\ Less(x, y) /\ Less(y, z) => Less(x, z)
                                /\ x = y \/ Less(x, y) \/ Less(y, x)
  BY LessIsOrder DEF Words
<1> QED BY <1>1, <1>2 DEF StrictOrder

\* A kept list has its items in order, and what has them in order is a kept list.
LEMMA KeptIs ==
  ASSUME NEW w, NEW s, w \in Nat, s \in Seq(Words(w))
  PROVE  s \in KeptLists(w) <=> \A i, j \in 1 .. Len(s) : i < j => Less(s[i], s[j])
<1>1. \A i \in 1 .. Len(s) : s[i] \in Words(w)
  OBVIOUS
<1> QED BY <1>1, WordsOrdered DEF KeptLists, InOrder

\* Kept lists with the same items are the same.
LEMMA KeptUnique ==
  ASSUME NEW w, NEW s, NEW t, w \in Nat, s \in KeptLists(w), t \in KeptLists(w), ToSet(s) = ToSet(t)
  PROVE  s = t
<1>1. /\ s \in Seq(Words(w)) /\ t \in Seq(Words(w)) /\ InOrder(s, LessOn(w)) /\ InOrder(t, LessOn(w))
      /\ Range(s) = Range(t)
  BY DEF KeptLists, ToSet, Range
<1>2. StrictOrder(Words(w), LessOn(w))
  BY WordsOrdered
<1> QED BY <1>1, <1>2, SortedUnique

\* Items up to the lower bound are less, those from it on are not.
LEMMA LowerBoundIs ==
  ASSUME NEW w, NEW list, NEW item, w \in Nat, list \in KeptLists(w), item \in Words(w)
  PROVE  /\ LowerBound(list, item) \in 1 .. Len(list) + 1
         /\ \A n \in 1 .. LowerBound(list, item) - 1 : Less(list[n], item)
         /\ \A n \in LowerBound(list, item) .. Len(list) : ~Less(list[n], item)
<1> DEFINE N == Len(list)
           k == LowerBound(list, item)
           T == {n \in 1 .. N + 1 : n <= N => ~Less(list[n], item)}
<1>1. N \in Nat /\ list \in Seq(Words(w)) /\ \A i \in 1 .. N : list[i] \in Words(w)
  BY DEF KeptLists
<1> HIDE DEF N
<1>2. N + 1 \in T /\ T \subseteq Nat
  BY <1>1
<1>3. PICK x \in T : \A y \in T : x <= y
  <2> HIDE DEF T
  <2> QED BY <1>2, LeastNatural
<1>4. \A n \in 1 .. x - 1 : Less(list[n], item)
  <2> TAKE n \in 1 .. x - 1
  <2>1. n \notin T /\ n \in 1 .. N + 1
    BY <1>1, <1>3
  <2> QED BY <2>1
<1>5. k \in 1 .. N + 1 /\ (\A n \in 1 .. k - 1 : Less(list[n], item)) /\ (k <= N => ~Less(list[k], item))
  <2>1. \E c \in 1 .. N + 1 : (\A n \in 1 .. c - 1 : Less(list[n], item)) /\ (c <= N => ~Less(list[c], item))
    BY <1>3, <1>4
  <2> QED BY <2>1 DEF LowerBound, N
<1> HIDE DEF k, T
<1>6. ASSUME NEW n \in k .. N, Less(list[n], item) PROVE FALSE
  <2>1. k \in 1 .. N /\ n \in 1 .. N
    BY <1>1, <1>5
  <2>2. n = k \/ Less(list[k], list[n])
    BY <1>1, <2>1, KeptIs DEF N
  <2>3. Less(list[k], item)
    BY <1>1, <1>6, <2>1, <2>2, LessIsOrder DEF Words
  <2> QED BY <1>5, <2>1, <2>3
<1> QED BY <1>5, <1>6 DEF k, N

\* Searching finds the items of a list and no others.
LEMMA FoundIs ==
  ASSUME NEW w, NEW list, NEW item, w \in Nat, list \in KeptLists(w), item \in Words(w)
  PROVE  Found(list, item) <=> item \in ToSet(list)
<1> DEFINE N == Len(list)
           k == LowerBound(list, item)
<1>1. N \in Nat /\ list \in Seq(Words(w)) /\ \A i \in 1 .. N : list[i] \in Words(w)
  BY DEF KeptLists
<1>2. k \in 1 .. N + 1 /\ (\A n \in 1 .. k - 1 : Less(list[n], item)) /\ (\A n \in k .. N : ~Less(list[n], item))
  BY LowerBoundIs
<1>3. Found(list, item) <=> k <= N /\ ~Less(item, list[k])
  BY DEF Found
<1>4. \A i, j \in 1 .. N : i < j => Less(list[i], list[j])
  BY <1>1, KeptIs
<1>5. item \in ToSet(list) <=> \E n \in 1 .. N : item = list[n]
  BY <1>1 DEF ToSet
<1> HIDE DEF N, k
<1>6. ASSUME k <= N, ~Less(item, list[k]) PROVE k \in 1 .. N /\ item = list[k]
  <2>1. k \in 1 .. N /\ k \in k .. N
    BY <1>1, <1>2, <1>6
  <2>2. list[k] \in Words(w) /\ ~Less(list[k], item)
    BY <1>1, <1>2, <2>1
  <2> QED BY <1>6, <2>1, <2>2, LessIsOrder DEF Words
<1>7. ASSUME NEW n \in 1 .. N, item = list[n] PROVE k <= N /\ ~Less(item, list[k])
  <2>1. ~Less(item, item)
    BY LessIsOrder DEF Words
  <2>2. n >= k
    BY <1>1, <1>2, <1>7, <2>1
  <2>3. k \in 1 .. N /\ k <= N
    BY <1>1, <1>2, <2>2
  <2>4. n = k
    <3>1. k < n => Less(list[k], list[n])
      BY <1>4, <2>3
    <3>2. ~Less(list[k], item)
      BY <1>1, <1>2, <2>3
    <3> QED BY <1>1, <1>7, <2>2, <2>3, <3>1, <3>2
  <2> QED BY <1>7, <2>1, <2>3, <2>4
<1> QED BY <1>3, <1>5, <1>6, <1>7

\* What is inserted goes to its place.
LEMMA InsertionIs ==
  ASSUME NEW w, NEW list, NEW item, w \in Nat, list \in KeptLists(w), item \in Words(w)
  PROVE  Insertion(list, item) \in KeptLists(w) /\ ToSet(Insertion(list, item)) = ToSet(list) \cup {item}
<1>0. CASE Found(list, item)
  BY <1>0, FoundIs DEF Insertion
<1>100. CASE ~Found(list, item)
  <2> DEFINE N == Len(list)
             k == LowerBound(list, item)
             s == InsertAt(list, k, item)
  <2>1. N \in Nat /\ list \in Seq(Words(w)) /\ \A i \in 1 .. N : list[i] \in Words(w)
    BY DEF KeptLists
  <2>2. k \in 1 .. N + 1 /\ (\A n \in 1 .. k - 1 : Less(list[n], item)) /\ (\A n \in k .. N : ~Less(list[n], item))
    BY LowerBoundIs
  <2>3. Insertion(list, item) = s
    BY <1>100 DEF Insertion
  <2>4. \A i, j \in 1 .. N : i < j => Less(list[i], list[j])
    BY <2>1, KeptIs
  <2>5. ToSet(list) = {list[n] : n \in 1 .. N} /\ \A n \in 1 .. N : item # list[n]
    BY <1>100, <2>1, FoundIs DEF ToSet
  <2> HIDE DEF N, k
  <2>6. /\ s \in Seq(Words(w)) /\ Len(s) = N + 1
        /\ \A i \in 1 .. N + 1 : s[i] = IF i < k THEN list[i] ELSE IF i = k THEN item ELSE list[i - 1]
    BY <2>1, <2>2, InsertAtIs DEF N
  <2> HIDE DEF s
  <2>7. \A n \in k .. N : Less(item, list[n])
    <3> TAKE n \in k .. N
    <3>1. n \in 1 .. N /\ ~Less(list[n], item) /\ item # list[n]
      BY <2>1, <2>2, <2>5
    <3> QED BY <2>1, <3>1, LessIsOrder DEF Words
  <2>8. ASSUME NEW i \in 1 .. N + 1, NEW j \in 1 .. N + 1, i < j PROVE Less(s[i], s[j])
    <3>1. CASE j < k
      <4>1. s[i] = list[i] /\ s[j] = list[j] /\ i \in 1 .. N /\ j \in 1 .. N
        BY <2>1, <2>2, <2>6, <2>8, <3>1
      <4> QED BY <2>4, <2>8, <4>1
    <3>2. CASE j = k
      <4>1. s[i] = list[i] /\ s[j] = item /\ i \in 1 .. k - 1
        BY <2>1, <2>2, <2>6, <2>8, <3>2
      <4> QED BY <2>2, <4>1
    <3>3. CASE j > k
      <4>1. s[j] = list[j - 1] /\ j - 1 \in k .. N /\ j - 1 \in 1 .. N
        BY <2>1, <2>2, <2>6, <2>8, <3>3
      <4>2. CASE i < k
        <5>1. s[i] = list[i] /\ i \in 1 .. N /\ i < j - 1
          BY <2>1, <2>2, <2>6, <2>8, <3>3, <4>2
        <5> QED BY <2>4, <4>1, <5>1
      <4>3. CASE i = k
        <5>1. s[i] = item
          BY <2>6, <4>3
        <5> QED BY <2>7, <4>1, <5>1
      <4>4. CASE i > k
        <5>1. s[i] = list[i - 1] /\ i - 1 \in 1 .. N /\ i - 1 < j - 1
          BY <2>1, <2>2, <2>6, <2>8, <4>4
        <5> QED BY <2>4, <4>1, <5>1
      <4> QED BY <2>1, <2>2, <4>2, <4>3, <4>4
    <3> QED BY <2>1, <2>2, <3>1, <3>2, <3>3
  <2>9. s \in KeptLists(w)
    BY <2>6, <2>8, KeptIs
  <2>10. ToSet(s) = {s[i] : i \in 1 .. N + 1}
    BY <2>6 DEF ToSet
  <2>11. ASSUME NEW x PROVE x \in {s[i] : i \in 1 .. N + 1} <=> x \in {list[n] : n \in 1 .. N} \cup {item}
    <3>1. ASSUME NEW i \in 1 .. N + 1, x = s[i] PROVE x \in {list[n] : n \in 1 .. N} \cup {item}
      <4>1. i < k => i \in 1 .. N
        BY <2>1, <2>2
      <4>2. i > k => i - 1 \in 1 .. N
        BY <2>1, <2>2
      <4> QED BY <2>1, <2>2, <2>6, <3>1, <4>1, <4>2
    <3>2. ASSUME NEW n \in 1 .. N, x = list[n] PROVE x \in {s[i] : i \in 1 .. N + 1}
      <4>1. CASE n < k
        BY <2>1, <2>2, <2>6, <3>2, <4>1
      <4>2. CASE ~(n < k)
        <5>1. n + 1 \in 1 .. N + 1 /\ n + 1 > k /\ (n + 1) - 1 = n
          BY <2>1, <2>2, <4>2
        <5>2. s[n + 1] = list[n]
          BY <2>2, <2>6, <5>1
        <5> QED BY <3>2, <5>1, <5>2
      <4> QED BY <4>1, <4>2
    <3>3. item = s[k]
      BY <2>2, <2>6
    <3> QED BY <2>2, <3>1, <3>2, <3>3
  <2> QED BY <2>3, <2>5, <2>9, <2>10, <2>11
<1> QED BY <1>0, <1>100

\* A set that is made of items has them all, in order.
LEMMA SetOfIs ==
  ASSUME NEW w, NEW items, w \in Nat, items \in Seq(Words(w))
  PROVE  SetOf(items) \in KeptLists(w) /\ ToSet(SetOf(items)) = ToSet(items)
<1> DEFINE N == Len(items)
           Right(f) == f = [n \in 0 .. N |-> IF n = 0 THEN <<>> ELSE Insertion(f[n - 1], items[n])]
           F == CHOOSE f : Right(f)
<1>1. N \in Nat /\ \A n \in 1 .. N : items[n] \in Words(w)
  OBVIOUS
<1>2. SetOf(items) = F[N]
  BY DEF SetOf
<1>3. ToSet(items) = {items[i] : i \in 1 .. N}
  BY DEF ToSet
<1>4. <<>> \in KeptLists(w) /\ ToSet(<<>>) = {}
  <2> DEFINE none == <<>>
  <2>1. none \in Seq(Words(w)) /\ \A i, j \in 1 .. Len(none) : i < j => Less(none[i], none[j])
    OBVIOUS
  <2>2. none \in KeptLists(w)
    <3> HIDE DEF none
    <3> QED BY <2>1, KeptIs
  <2>3. DOMAIN <<>> = {}
    OBVIOUS
  <2> QED BY <2>2, <2>3 DEF ToSet
<1> HIDE DEF N
<1>5. \E f : Right(f)
  <2> DEFINE add(v, i) == Insertion(v, items[i])
             step == [t \in KeptLists(w) \X (1 .. N) |-> add(t[1], t[2])]
  <2>1. \A v \in KeptLists(w), i \in 1 .. N : add(v, i) \in KeptLists(w)
    BY <1>1, InsertionIs
  <2> HIDE DEF add
  <2>2. \A v \in KeptLists(w), i \in 1 .. N : step[<<v, i>>] = add(v, i) /\ step[<<v, i>>] \in KeptLists(w)
    BY <2>1
  <2> HIDE DEF step
  <2>3. PICK g \in [0 .. N -> KeptLists(w)] :
          g[0] = <<>> /\ \A i \in 1 .. N : g[i] = step[<<g[i - 1], i>>]
    <3>1. IsIteration(KeptLists(w), N, <<>>, step)
      BY <2>2, <1>1, <1>4 DEF IsIteration
    <3> QED BY <3>1, Iteration
  <2>4. ASSUME NEW i \in 0 .. N PROVE g[i] = IF i = 0 THEN <<>> ELSE Insertion(g[i - 1], items[i])
    <3>1. CASE i = 0
      BY <2>3, <3>1
    <3>2. CASE i # 0
      <4>1. i \in 1 .. N /\ i - 1 \in 0 .. N
        BY <1>1, <3>2
      <4>2. g[i - 1] \in KeptLists(w) /\ g[i] = step[<<g[i - 1], i>>]
        BY <2>3, <4>1
      <4>3. g[i] = add(g[i - 1], i)
        BY <2>2, <4>1, <4>2
      <4> QED BY <3>2, <4>3 DEF add
    <3> QED BY <3>1, <3>2
  <2>5. g = [i \in 0 .. N |-> g[i]]
    BY <2>3
  <2>6. Right(g)
    BY <2>4, <2>5
  <2> QED BY <2>6
<1>6. Right(F)
  BY <1>5
<1> HIDE DEF F
<1>7. \A n \in 0 .. N : F[n] = IF n = 0 THEN <<>> ELSE Insertion(F[n - 1], items[n])
  BY <1>6
<1> DEFINE Good(n) == F[n] \in KeptLists(w) /\ ToSet(F[n]) = {items[i] : i \in 1 .. n}
           T == {n \in Nat : n <= N => Good(n)}
<1>8. 0 \in T
  <2>1. F[0] = <<>>
    BY <1>1, <1>7
  <2>2. {items[i] : i \in 1 .. 0} = {}
    OBVIOUS
  <2> QED BY <1>4, <2>1, <2>2
<1>9. ASSUME NEW n \in Nat, n \in T PROVE n + 1 \in T
  <2> SUFFICES ASSUME n + 1 <= N PROVE Good(n + 1)
    OBVIOUS
  <2>1. n + 1 \in 1 .. N /\ n + 1 \in 0 .. N /\ (n + 1) - 1 = n /\ n + 1 # 0 /\ n <= N
    BY <1>1
  <2>2. F[n + 1] = Insertion(F[n], items[n + 1])
    BY <1>7, <2>1
  <2>3. Good(n)
    BY <1>9, <2>1
  <2>4. items[n + 1] \in Words(w)
    BY <1>1, <2>1
  <2>5. Insertion(F[n], items[n + 1]) \in KeptLists(w)
        /\ ToSet(Insertion(F[n], items[n + 1])) = ToSet(F[n]) \cup {items[n + 1]}
    BY <2>3, <2>4, InsertionIs
  <2>6. {items[i] : i \in 1 .. n + 1} = {items[i] : i \in 1 .. n} \cup {items[n + 1]}
    <3>1. \A i : i \in 1 .. n + 1 <=> i \in 1 .. n \/ i = n + 1
      OBVIOUS
    <3> QED BY <3>1
  <2> QED BY <2>2, <2>3, <2>5, <2>6
<1>10. Good(N)
  <2> HIDE DEF T
  <2>1. \A n \in Nat : n \in T
    BY <1>8, <1>9, Induction
  <2>2. N \in Nat /\ N <= N
    BY <1>1
  <2> QED BY <2>1, <2>2 DEF T
<1> QED BY <1>2, <1>3, <1>10

\* The set of a kept list's items is that list.
LEMMA SetOfSame ==
  ASSUME NEW w, NEW list, NEW items, w \in Nat, list \in KeptLists(w), items \in Seq(Words(w)),
         ToSet(items) = ToSet(list)
  PROVE  SetOf(items) = list
  BY SetOfIs, KeptUnique

----------------------------------------------------------------------------
(* Walking through two lists at once *)

\* How many steps are left at most, from a place in both.
Left(a, b, at) == (Len(a) + 1 - at[1]) + (Len(b) + 1 - at[2])

\* What a step writes depends on what the steps that follow write.
IsWalk(a, b, V, step) ==
  /\ V # {} /\ \A f \in [Places(a, b) -> V], at \in Places(a, b) : step[<<f, at>>] \in V
  /\ \A f, g \in [Places(a, b) -> V], at \in Places(a, b) :
       (\A p \in Places(a, b) : Left(a, b, p) < Left(a, b, at) => f[p] = g[p])
         => step[<<f, at>>] = step[<<g, at>>]

\* Such steps define what is written from every place on.
LEMMA Walk ==
  ASSUME NEW a, NEW b, NEW A, NEW V, NEW step, a \in Seq(A), b \in Seq(A), IsWalk(a, b, V, step)
  PROVE  \E f \in [Places(a, b) -> V] : \A at \in Places(a, b) : f[at] = step[<<f, at>>]
<1> DEFINE D == Places(a, b)
           stage == [n \in Nat |-> {at \in D : Left(a, b, at) = n}]
<1>1. \A at \in D : Left(a, b, at) \in Nat
  <2>1. Len(a) \in Nat /\ Len(b) \in Nat
    OBVIOUS
  <2> QED BY <2>1 DEF Places, Left
<1> HIDE DEF D
<1>2. stage \in [Nat -> SUBSET D] /\ D = UNION {stage[n] : n \in Nat}
  BY <1>1
<1>3. \A n \in Nat, at \in D : at \in stage[n] <=> Left(a, b, at) = n
  OBVIOUS
<1>4. /\ V # {} /\ \A f \in [D -> V], at \in D : step[<<f, at>>] \in V
      /\ \A f, g \in [D -> V], at \in D :
           (\A p \in D : Left(a, b, p) < Left(a, b, at) => f[p] = g[p]) => step[<<f, at>>] = step[<<g, at>>]
  BY DEF IsWalk, D
<1> HIDE DEF stage
<1>5. LooksBack(D, V, stage, step)
  <2> SUFFICES ASSUME NEW n \in Nat, NEW at \in stage[n], NEW f \in [D -> V], NEW g \in [D -> V],
                      \A m \in 0 .. n - 1 : \A y \in stage[m] : f[y] = g[y]
               PROVE  step[<<f, at>>] = step[<<g, at>>]
    BY DEF LooksBack
  <2>1. at \in D /\ Left(a, b, at) = n
    BY <1>2, <1>3
  <2>2. ASSUME NEW p \in D, Left(a, b, p) < Left(a, b, at) PROVE f[p] = g[p]
    <3>1. Left(a, b, p) \in 0 .. n - 1 /\ p \in stage[Left(a, b, p)]
      BY <1>1, <1>3, <2>1, <2>2
    <3> QED BY <3>1
  <2> QED BY <1>4, <2>1, <2>2
<1>6. IsRecursion(D, V, stage, step)
  BY <1>2, <1>4, <1>5 DEF IsRecursion
<1>7. \E f \in [D -> V] : \A at \in D : f[at] = step[<<f, at>>]
  BY <1>6, Recursion
<1> QED BY <1>7 DEF D

\* The items of a list from a place on.
Onward(s, m) == {s[i] : i \in m .. Len(s)}

\* They are the rest of the list: the item at the place and those after it.
LEMMA OnwardIs ==
  ASSUME NEW A, NEW s, NEW m, s \in Seq(A), m \in 1 .. Len(s) + 1
  PROVE  /\ SubSeq(s, m, Len(s)) \in Seq(A) /\ ToSet(SubSeq(s, m, Len(s))) = Onward(s, m)
         /\ m <= Len(s) => s[m] \in A /\ Onward(s, m) = {s[m]} \cup Onward(s, m + 1)
         /\ m > Len(s) => Onward(s, m) = {}
         /\ Onward(s, 1) = ToSet(s)
<1> DEFINE N == Len(s)
           t == SubSeq(s, m, N)
<1>1. N \in Nat /\ m \in Int /\ m >= 1 /\ m <= N + 1 /\ DOMAIN s = 1 .. N
  OBVIOUS
<1>2. t \in Seq(A) /\ Len(t) = N - m + 1 /\ \A i \in 1 .. N - m + 1 : t[i] = s[m + i - 1]
  <2>1. \A i \in m .. N : s[i] \in A
    BY <1>1
  <2> QED BY <1>1, <2>1, SubSeqProperties
<1>3. Onward(s, 1) = ToSet(s)
  BY <1>1 DEF Onward, ToSet
<1>4. m > N => Onward(s, m) = {}
  BY <1>1 DEF Onward
<1>5. ASSUME m <= N PROVE s[m] \in A /\ Onward(s, m) = {s[m]} \cup Onward(s, m + 1)
  <2>1. \A i : i \in m .. N <=> i = m \/ i \in m + 1 .. N
    BY <1>1, <1>5
  <2>2. m \in 1 .. N
    BY <1>1, <1>5
  <2> QED BY <2>1, <2>2 DEF Onward
<1> HIDE DEF t
<1>6. ToSet(t) = Onward(s, m)
  <2>1. ToSet(t) = {t[i] : i \in 1 .. N - m + 1}
    BY <1>1, <1>2 DEF ToSet
  <2>2. ASSUME NEW i \in 1 .. N - m + 1 PROVE t[i] \in Onward(s, m)
    <3>1. m + i - 1 \in m .. N
      BY <1>1
    <3> QED BY <1>2, <3>1 DEF Onward
  <2>3. ASSUME NEW i \in m .. N PROVE s[i] \in {t[j] : j \in 1 .. N - m + 1}
    <3>1. i - m + 1 \in 1 .. N - m + 1 /\ m + (i - m + 1) - 1 = i
      BY <1>1
    <3>2. t[i - m + 1] = s[i]
      BY <1>2, <3>1
    <3> QED BY <3>1, <3>2
  <2> QED BY <2>1, <2>2, <2>3 DEF Onward, N
<1> QED BY <1>2, <1>3, <1>4, <1>5, <1>6 DEF t, N

\* One item before others.
LEMMA ItemBefore ==
  ASSUME NEW A, NEW x, NEW t, x \in A, t \in Seq(A)
  PROVE  <<x>> \o t \in Seq(A) /\ ToSet(<<x>> \o t) = {x} \cup ToSet(t)
<1> DEFINE b == <<x>>
           s == b \o t
<1>1. b \in Seq(A) /\ Len(b) = 1 /\ b[1] = x
  OBVIOUS
<1> HIDE DEF b
<1>2. /\ s \in Seq(A) /\ Len(s) = 1 + Len(t) /\ Len(t) \in Nat
      /\ \A i \in 1 .. 1 + Len(t) : s[i] = IF i <= 1 THEN b[i] ELSE t[i - 1]
  <2>1. /\ b \o t \in Seq(A) /\ Len(b \o t) = Len(b) + Len(t)
        /\ \A i \in 1 .. Len(b) + Len(t) : (b \o t)[i] = IF i <= Len(b) THEN b[i] ELSE t[i - Len(b)]
    BY <1>1, ConcatProperties
  <2>2. Len(t) \in Nat
    OBVIOUS
  <2> QED BY <1>1, <2>1, <2>2
<1>3. ToSet(s) = {s[i] : i \in 1 .. 1 + Len(t)} /\ ToSet(t) = {t[i] : i \in 1 .. Len(t)}
  <2> HIDE DEF s
  <2>1. DOMAIN s = 1 .. 1 + Len(t) /\ DOMAIN t = 1 .. Len(t)
    BY <1>2
  <2> QED BY <2>1 DEF ToSet
<1> HIDE DEF s
<1>4. ASSUME NEW i \in 1 .. 1 + Len(t) PROVE s[i] \in {x} \cup {t[j] : j \in 1 .. Len(t)}
  <2>1. i = 1 \/ i - 1 \in 1 .. Len(t)
    BY <1>2
  <2> QED BY <1>1, <1>2, <2>1
<1>5. ASSUME NEW j \in 1 .. Len(t) PROVE t[j] \in {s[i] : i \in 1 .. 1 + Len(t)}
  <2>1. j + 1 \in 1 .. 1 + Len(t) /\ ~(j + 1 <= 1) /\ (j + 1) - 1 = j
    BY <1>2
  <2>2. s[j + 1] = t[j]
    BY <1>2, <2>1
  <2> QED BY <2>1, <2>2
<1>6. x = s[1] /\ 1 \in 1 .. 1 + Len(t)
  BY <1>1, <1>2
<1>7. ToSet(s) = {x} \cup ToSet(t)
  BY <1>3, <1>4, <1>5, <1>6
<1> QED BY <1>2, <1>7 DEF s, b

\* What std::set_union writes from a place in each list on, given what it writes later.
UnionFrom(a, b, f, at) ==
  LET m == at[1]
      n == at[2] IN
  IF m > Len(a) THEN SubSeq(b, n, Len(b))
  ELSE IF n > Len(b) THEN SubSeq(a, m, Len(a))
  ELSE IF Less(a[m], b[n]) THEN <<a[m]>> \o f[<<m + 1, n>>]
  ELSE IF Less(b[n], a[m]) THEN <<b[n]>> \o f[<<m, n + 1>>]
  ELSE <<a[m]>> \o f[<<m + 1, n + 1>>]

\* And what std::set_difference writes.
DifferenceFrom(a, b, f, at) ==
  LET m == at[1]
      n == at[2] IN
  IF m > Len(a) \/ n > Len(b) THEN SubSeq(a, m, Len(a))
  ELSE IF Less(a[m], b[n]) THEN <<a[m]>> \o f[<<m + 1, n>>]
  ELSE IF Less(b[n], a[m]) THEN f[<<m, n + 1>>]
  ELSE f[<<m + 1, n + 1>>]

\* A place is one in each list, and the next ones come later.
LEMMA PlaceIs ==
  ASSUME NEW a, NEW b, NEW m, NEW n, m \in 1 .. Len(a) + 1, n \in 1 .. Len(b) + 1
  PROVE  <<m, n>> \in Places(a, b) /\ Left(a, b, <<m, n>>) = (Len(a) + 1 - m) + (Len(b) + 1 - n)
  BY DEF Places, Left

\* A place is made of one in each list.
LEMMA PlaceOf ==
  ASSUME NEW a, NEW b, NEW at, at \in Places(a, b)
  PROVE  \E m \in 1 .. Len(a) + 1, n \in 1 .. Len(b) + 1 : at = <<m, n>>
  BY DEF Places

\* What follows a place in the first list, in the second, or in both.
LEMMA PlacesAfter ==
  ASSUME NEW A, NEW a, NEW b, NEW m, NEW n, a \in Seq(A), b \in Seq(A),
         m \in 1 .. Len(a) + 1, n \in 1 .. Len(b) + 1
  PROVE  /\ m \in Int /\ n \in Int /\ Len(a) \in Nat /\ Len(b) \in Nat /\ Left(a, b, <<m, n>>) \in Nat
         /\ m <= Len(a) => /\ m \in 1 .. Len(a) /\ m + 1 \in 1 .. Len(a) + 1 /\ <<m + 1, n>> \in Places(a, b)
                           /\ Left(a, b, <<m + 1, n>>) < Left(a, b, <<m, n>>)
         /\ n <= Len(b) => /\ n \in 1 .. Len(b) /\ n + 1 \in 1 .. Len(b) + 1 /\ <<m, n + 1>> \in Places(a, b)
                           /\ Left(a, b, <<m, n + 1>>) < Left(a, b, <<m, n>>)
         /\ m <= Len(a) /\ n <= Len(b) =>
              /\ <<m + 1, n + 1>> \in Places(a, b)
              /\ Left(a, b, <<m + 1, n + 1>>) < Left(a, b, <<m, n>>)
<1>1. Len(a) \in Nat /\ Len(b) \in Nat
  OBVIOUS
<1>2. m \in Int /\ n \in Int /\ Left(a, b, <<m, n>>) = (Len(a) + 1 - m) + (Len(b) + 1 - n)
      /\ 1 <= m /\ m <= Len(a) + 1 /\ 1 <= n /\ n <= Len(b) + 1
  <2>1. m \in Int /\ n \in Int /\ 1 <= m /\ m <= Len(a) + 1 /\ 1 <= n /\ n <= Len(b) + 1
    BY <1>1
  <2>2. Left(a, b, <<m, n>>) = (Len(a) + 1 - m) + (Len(b) + 1 - n)
    BY ZenonT(30), PlaceIs
  <2> QED BY <2>1, <2>2
<1>3. ASSUME m <= Len(a)
      PROVE  /\ m \in 1 .. Len(a) /\ m + 1 \in 1 .. Len(a) + 1 /\ <<m + 1, n>> \in Places(a, b)
             /\ Left(a, b, <<m + 1, n>>) < Left(a, b, <<m, n>>)
  <2>1. m \in 1 .. Len(a) /\ m + 1 \in 1 .. Len(a) + 1
    BY <1>1, <1>2, <1>3
  <2>2. <<m + 1, n>> \in Places(a, b) /\ Left(a, b, <<m + 1, n>>) = (Len(a) + 1 - (m + 1)) + (Len(b) + 1 - n)
    BY ZenonT(30), <2>1, PlaceIs
  <2> QED BY <1>1, <1>2, <2>1, <2>2
<1>4. ASSUME n <= Len(b)
      PROVE  /\ n \in 1 .. Len(b) /\ n + 1 \in 1 .. Len(b) + 1 /\ <<m, n + 1>> \in Places(a, b)
             /\ Left(a, b, <<m, n + 1>>) < Left(a, b, <<m, n>>)
  <2>1. n \in 1 .. Len(b) /\ n + 1 \in 1 .. Len(b) + 1
    BY <1>1, <1>2, <1>4
  <2>2. <<m, n + 1>> \in Places(a, b) /\ Left(a, b, <<m, n + 1>>) = (Len(a) + 1 - m) + (Len(b) + 1 - (n + 1))
    BY ZenonT(30), <2>1, PlaceIs
  <2> QED BY <1>1, <1>2, <2>1, <2>2
<1>5. ASSUME m <= Len(a), n <= Len(b)
      PROVE  <<m + 1, n + 1>> \in Places(a, b) /\ Left(a, b, <<m + 1, n + 1>>) < Left(a, b, <<m, n>>)
  <2>1. n + 1 \in 1 .. Len(b) + 1 /\ m + 1 \in 1 .. Len(a) + 1
    BY <1>1, <1>2, <1>5
  <2>2. /\ <<m + 1, n + 1>> \in Places(a, b)
        /\ Left(a, b, <<m + 1, n + 1>>) = (Len(a) + 1 - (m + 1)) + (Len(b) + 1 - (n + 1))
    BY ZenonT(30), <2>1, PlaceIs
  <2> QED BY <1>1, <1>2, <2>1, <2>2
<1>6. Left(a, b, <<m, n>>) \in Nat
  BY <1>1, <1>2
<1> QED BY <1>1, <1>2, <1>3, <1>4, <1>5, <1>6

\* The union of two lists, before it is put in order, has the items of both.
LEMMA SetUnionIs ==
  ASSUME NEW w, NEW a, NEW b, w \in Nat, a \in KeptLists(w), b \in KeptLists(w)
  PROVE  SetUnion(a, b) \in Seq(Words(w)) /\ ToSet(SetUnion(a, b)) = ToSet(a) \cup ToSet(b)
<1> DEFINE W == Words(w)
           D == Places(a, b)
           V == Seq(W)
           M == 1 .. Len(a) + 1
           N == 1 .. Len(b) + 1
           Right(f) == f = [at \in D |-> UnionFrom(a, b, f, at)]
           F == CHOOSE f : Right(f)
<1>1. a \in Seq(W) /\ b \in Seq(W) /\ (\A i \in 1 .. Len(a) : a[i] \in W) /\ \A i \in 1 .. Len(b) : b[i] \in W
  BY DEF KeptLists
<1>2. SetUnion(a, b) = F[<<1, 1>>]
  BY DEF SetUnion, UnionFrom
<1> HIDE DEF W, D
<1>3. ASSUME NEW f, NEW m \in M, NEW n \in N
      PROVE  \/ m > Len(a) /\ UnionFrom(a, b, f, <<m, n>>) = SubSeq(b, n, Len(b))
             \/ /\ m <= Len(a) /\ n > Len(b)
                /\ UnionFrom(a, b, f, <<m, n>>) = SubSeq(a, m, Len(a))
             \/ /\ m <= Len(a) /\ n <= Len(b)
                /\ UnionFrom(a, b, f, <<m, n>>) = <<a[m]>> \o f[<<m + 1, n>>]
             \/ /\ m <= Len(a) /\ n <= Len(b)
                /\ UnionFrom(a, b, f, <<m, n>>) = <<b[n]>> \o f[<<m, n + 1>>]
             \/ /\ m <= Len(a) /\ n <= Len(b) /\ ~Less(a[m], b[n]) /\ ~Less(b[n], a[m])
                /\ UnionFrom(a, b, f, <<m, n>>) = <<a[m]>> \o f[<<m + 1, n + 1>>]
  <2>1. m \in Int /\ n \in Int /\ Len(a) \in Int /\ Len(b) \in Int
    BY <1>1
  <2>2. UnionFrom(a, b, f, <<m, n>>) =
          IF m > Len(a) THEN SubSeq(b, n, Len(b))
          ELSE IF n > Len(b) THEN SubSeq(a, m, Len(a))
          ELSE IF Less(a[m], b[n]) THEN <<a[m]>> \o f[<<m + 1, n>>]
          ELSE IF Less(b[n], a[m]) THEN <<b[n]>> \o f[<<m, n + 1>>]
          ELSE <<a[m]>> \o f[<<m + 1, n + 1>>]
    BY DEF UnionFrom
  <2> DEFINE u == UnionFrom(a, b, f, <<m, n>>)
             p == <<a[m]>> \o f[<<m + 1, n>>]
             q == <<b[n]>> \o f[<<m, n + 1>>]
             r == <<a[m]>> \o f[<<m + 1, n + 1>>]
             s == SubSeq(a, m, Len(a))
             t == SubSeq(b, n, Len(b))
  <2> HIDE DEF u, p, q, r, s, t
  <2>3. u = IF m > Len(a) THEN t ELSE IF n > Len(b) THEN s
            ELSE IF Less(a[m], b[n]) THEN p ELSE IF Less(b[n], a[m]) THEN q ELSE r
    BY <2>2 DEF u, p, q, r, s, t
  <2>4. \/ m > Len(a) /\ u = t
        \/ m <= Len(a) /\ n > Len(b) /\ u = s
        \/ m <= Len(a) /\ n <= Len(b) /\ u = p
        \/ m <= Len(a) /\ n <= Len(b) /\ u = q
        \/ m <= Len(a) /\ n <= Len(b) /\ ~Less(a[m], b[n]) /\ ~Less(b[n], a[m]) /\ u = r
    BY <2>1, <2>3
  <2> QED BY <2>4 DEF u, p, q, r, s, t
<1>4. \A m \in M, n \in N : <<m, n>> \in D
  BY PlaceIs DEF D
<1>5. ASSUME NEW f \in [D -> V], NEW m \in M, NEW n \in N PROVE UnionFrom(a, b, f, <<m, n>>) \in V
  <2>1. SubSeq(b, n, Len(b)) \in V /\ SubSeq(a, m, Len(a)) \in V
    BY <1>1, OnwardIs
  <2>2. ASSUME m <= Len(a) PROVE <<a[m]>> \o f[<<m + 1, n>>] \in V
    <3>1. a[m] \in W /\ <<m + 1, n>> \in D
      BY <1>1, <2>2, PlacesAfter DEF D
    <3>2. f[<<m + 1, n>>] \in V
      BY <3>1
    <3> QED BY <3>1, <3>2, ItemBefore
  <2>3. ASSUME n <= Len(b) PROVE <<b[n]>> \o f[<<m, n + 1>>] \in V
    <3>1. b[n] \in W /\ <<m, n + 1>> \in D
      BY <1>1, <2>3, PlacesAfter DEF D
    <3>2. f[<<m, n + 1>>] \in V
      BY <3>1
    <3> QED BY <3>1, <3>2, ItemBefore
  <2>4. ASSUME m <= Len(a), n <= Len(b) PROVE <<a[m]>> \o f[<<m + 1, n + 1>>] \in V
    <3>1. a[m] \in W /\ <<m + 1, n + 1>> \in D
      BY <1>1, <2>4, PlacesAfter DEF D
    <3>2. f[<<m + 1, n + 1>>] \in V
      BY <3>1
    <3> QED BY <3>1, <3>2, ItemBefore
  <2> HIDE DEF V
  <2> QED BY <1>3, <2>1, <2>2, <2>3, <2>4
<1>6. ASSUME NEW f, NEW g, NEW m \in M, NEW n \in N,
             \A p \in D : Left(a, b, p) < Left(a, b, <<m, n>>) => f[p] = g[p]
      PROVE  UnionFrom(a, b, f, <<m, n>>) = UnionFrom(a, b, g, <<m, n>>)
  <2>1. m <= Len(a) => f[<<m + 1, n>>] = g[<<m + 1, n>>]
    BY <1>1, <1>6, PlacesAfter DEF D
  <2>2. n <= Len(b) => f[<<m, n + 1>>] = g[<<m, n + 1>>]
    BY <1>1, <1>6, PlacesAfter DEF D
  <2>3. m <= Len(a) /\ n <= Len(b) => f[<<m + 1, n + 1>>] = g[<<m + 1, n + 1>>]
    BY <1>1, <1>6, PlacesAfter DEF D
  <2>4. m \in Int /\ n \in Int /\ Len(a) \in Int /\ Len(b) \in Int
    BY <1>1
  <2>5. m > Len(a) \/ m <= Len(a)
    BY <2>4
  <2>6. n > Len(b) \/ n <= Len(b)
    BY <2>4
  <2>7. CASE m > Len(a)
    BY <2>7 DEF UnionFrom
  <2>8. CASE m <= Len(a) /\ ~(m > Len(a)) /\ n > Len(b)
    BY <2>8 DEF UnionFrom
  <2>9. CASE m <= Len(a) /\ ~(m > Len(a)) /\ n <= Len(b) /\ ~(n > Len(b))
    BY <2>1, <2>2, <2>3, <2>9 DEF UnionFrom
  <2> QED BY <2>4, <2>5, <2>6, <2>7, <2>8, <2>9
<1>7. \E f : Right(f)
  <2> DEFINE step == [t \in [D -> V] \X D |-> UnionFrom(a, b, t[1], t[2])]
  <2>1. \A at \in D : \E m \in M, n \in N : at = <<m, n>>
    BY PlaceOf DEF D
  <2> HIDE DEF M, N
  <2>2. \A f \in [D -> V], at \in D : step[<<f, at>>] = UnionFrom(a, b, f, at)
    OBVIOUS
  <2> HIDE DEF step
  <2>3. \A f \in [D -> V], at \in D : step[<<f, at>>] \in V
    <3> TAKE f \in [D -> V], at \in D
    <3>1. PICK m \in M, n \in N : at = <<m, n>>
      BY <2>1
    <3>2. UnionFrom(a, b, f, <<m, n>>) \in V
      BY <1>5
    <3> QED BY <2>2, <3>1, <3>2
  <2>4. ASSUME NEW f \in [D -> V], NEW g \in [D -> V], NEW at \in D,
               \A p \in D : Left(a, b, p) < Left(a, b, at) => f[p] = g[p]
        PROVE  step[<<f, at>>] = step[<<g, at>>]
    <3>1. PICK m \in M, n \in N : at = <<m, n>>
      BY <2>1
    <3>2. UnionFrom(a, b, f, <<m, n>>) = UnionFrom(a, b, g, <<m, n>>)
      BY <1>6, <2>4, <3>1
    <3> QED BY <2>2, <3>1, <3>2
  <2>5. V # {}
    <3>1. <<>> \in V
      OBVIOUS
    <3> QED BY <3>1
  <2> HIDE DEF V
  <2>6. IsWalk(a, b, V, step)
    BY <2>3, <2>4, <2>5 DEF IsWalk, D
  <2>7. PICK f \in [D -> V] : \A at \in D : f[at] = step[<<f, at>>]
    BY <1>1, <2>6, Walk DEF D
  <2>8. \A at \in D : f[at] = UnionFrom(a, b, f, at)
    BY <2>2, <2>7
  <2>9. f = [at \in D |-> f[at]]
    BY <2>7
  <2>10. Right(f)
    BY <2>8, <2>9
  <2> QED BY <2>10
<1>8. Right(F)
  BY <1>7
<1> HIDE DEF F
<1>9. \A m \in M, n \in N : F[<<m, n>>] = UnionFrom(a, b, F, <<m, n>>)
  <2>1. \A at \in D : F[at] = UnionFrom(a, b, F, at)
    BY <1>8
  <2> QED BY <1>4, <2>1
<1> DEFINE Good(m, n) == /\ F[<<m, n>>] \in V
                         /\ ToSet(F[<<m, n>>]) = Onward(a, m) \cup Onward(b, n)
           T == {k \in Nat : \A m \in M, n \in N : Left(a, b, <<m, n>>) = k => Good(m, n)}
<1>10. ASSUME NEW k \in Nat, \A j \in 0 .. k - 1 : j \in T PROVE k \in T
  <2> SUFFICES ASSUME NEW m \in M, NEW n \in N, Left(a, b, <<m, n>>) = k PROVE Good(m, n)
    OBVIOUS
  <2>1. ASSUME NEW i \in M, NEW j \in N, Left(a, b, <<i, j>>) < Left(a, b, <<m, n>>) PROVE Good(i, j)
    <3>1. Left(a, b, <<i, j>>) \in 0 .. k - 1
      <4>1. Left(a, b, <<i, j>>) \in Nat
        BY <1>1, PlacesAfter
      <4> DEFINE q == Left(a, b, <<i, j>>)
      <4>2. q \in Nat /\ q < k
        BY <2>1, <4>1
      <4> HIDE DEF q
      <4>3. q \in 0 .. k - 1
        BY <4>2
      <4> QED BY <4>3 DEF q
    <3> QED BY <1>10, <3>1
  <2> HIDE DEF T
  <2>2. CASE m > Len(a) /\ UnionFrom(a, b, F, <<m, n>>) = SubSeq(b, n, Len(b))
    <3>1. SubSeq(b, n, Len(b)) \in V /\ ToSet(SubSeq(b, n, Len(b))) = Onward(b, n)
      BY ZenonT(30), <1>1, OnwardIs
    <3>2. Onward(a, m) = {}
      BY <1>1, <2>2, OnwardIs
    <3> QED BY <1>9, <2>2, <3>1, <3>2
  <2>3. CASE m <= Len(a) /\ n > Len(b) /\ UnionFrom(a, b, F, <<m, n>>) = SubSeq(a, m, Len(a))
    <3>1. SubSeq(a, m, Len(a)) \in V /\ ToSet(SubSeq(a, m, Len(a))) = Onward(a, m)
      BY <1>1, OnwardIs
    <3>2. Onward(b, n) = {}
      BY <1>1, <2>3, OnwardIs
    <3> QED BY <1>9, <2>3, <3>1, <3>2
  <2>4. CASE m <= Len(a) /\ n <= Len(b) /\ UnionFrom(a, b, F, <<m, n>>) = <<a[m]>> \o F[<<m + 1, n>>]
    <3>1. Good(m + 1, n)
      BY <1>1, <2>1, <2>4, PlacesAfter
    <3>2. a[m] \in W /\ Onward(a, m) = {a[m]} \cup Onward(a, m + 1)
      BY <1>1, <2>4, OnwardIs
    <3> DEFINE t == F[<<m + 1, n>>]
    <3> HIDE DEF t
    <3>3. t \in Seq(W) /\ ToSet(t) = Onward(a, m + 1) \cup Onward(b, n)
      BY <3>1 DEF t
    <3>4. <<a[m]>> \o t \in Seq(W) /\ ToSet(<<a[m]>> \o t) = {a[m]} \cup ToSet(t)
      BY <3>2, <3>3, ItemBefore
    <3>5. F[<<m, n>>] = <<a[m]>> \o t
      BY <1>9, <2>4 DEF t
    <3> QED BY <3>2, <3>3, <3>4, <3>5
  <2>5. CASE m <= Len(a) /\ n <= Len(b) /\ UnionFrom(a, b, F, <<m, n>>) = <<b[n]>> \o F[<<m, n + 1>>]
    <3>1. Good(m, n + 1)
      BY <1>1, <2>1, <2>5, PlacesAfter
    <3>2. b[n] \in W /\ Onward(b, n) = {b[n]} \cup Onward(b, n + 1)
      BY <1>1, <2>5, OnwardIs
    <3> DEFINE t == F[<<m, n + 1>>]
    <3> HIDE DEF t
    <3>3. t \in Seq(W) /\ ToSet(t) = Onward(a, m) \cup Onward(b, n + 1)
      BY <3>1 DEF t
    <3>4. <<b[n]>> \o t \in Seq(W) /\ ToSet(<<b[n]>> \o t) = {b[n]} \cup ToSet(t)
      BY <3>2, <3>3, ItemBefore
    <3>5. F[<<m, n>>] = <<b[n]>> \o t
      BY <1>9, <2>5 DEF t
    <3> QED BY <3>2, <3>3, <3>4, <3>5
  <2>6. CASE /\ m <= Len(a) /\ n <= Len(b) /\ ~Less(a[m], b[n]) /\ ~Less(b[n], a[m])
             /\ UnionFrom(a, b, F, <<m, n>>) = <<a[m]>> \o F[<<m + 1, n + 1>>]
    <3>1. Good(m + 1, n + 1)
      BY <1>1, <2>1, <2>6, PlacesAfter
    <3>2. a[m] \in W /\ Onward(a, m) = {a[m]} \cup Onward(a, m + 1)
      BY <1>1, <2>6, OnwardIs
    <3>3. b[n] \in W /\ Onward(b, n) = {b[n]} \cup Onward(b, n + 1)
      BY <1>1, <2>6, OnwardIs
    <3>4. a[m] = b[n]
      BY <2>6, <3>2, <3>3, LessIsOrder DEF Words, W
    <3> DEFINE t == F[<<m + 1, n + 1>>]
    <3> HIDE DEF t
    <3>5. t \in Seq(W) /\ ToSet(t) = Onward(a, m + 1) \cup Onward(b, n + 1)
      BY <3>1 DEF t
    <3>6. <<a[m]>> \o t \in Seq(W) /\ ToSet(<<a[m]>> \o t) = {a[m]} \cup ToSet(t)
      BY <3>2, <3>5, ItemBefore
    <3>7. F[<<m, n>>] = <<a[m]>> \o t
      BY <1>9, <2>6 DEF t
    <3> QED BY <3>2, <3>3, <3>4, <3>5, <3>6, <3>7
  <2> HIDE DEF Good
  <2> QED BY <1>3, <2>2, <2>3, <2>4, <2>5, <2>6
<1>11. Good(1, 1)
  <2>1. \A k \in Nat : k \in T
    <3> HIDE DEF T
    <3> QED BY <1>10, StrongInduction
  <2>2. 1 \in M /\ 1 \in N /\ Left(a, b, <<1, 1>>) \in Nat
    <3>1. 1 \in M /\ 1 \in N
      BY <1>1
    <3> QED BY <1>1, <3>1, PlacesAfter
  <2> QED BY <2>1, <2>2
<1>12. Onward(a, 1) = ToSet(a) /\ Onward(b, 1) = ToSet(b)
  <2>1. 1 \in M /\ 1 \in N
    BY <1>1
  <2> QED BY <1>1, <2>1, OnwardIs
<1> QED BY <1>2, <1>11, <1>12 DEF W

\* What is less than an item does not come after it, and an item comes once.
LEMMA NotOnward ==
  ASSUME NEW w, NEW list, NEW m, w \in Nat, list \in KeptLists(w), m \in 1 .. Len(list)
  PROVE  /\ \A x \in Words(w) : Less(x, list[m]) => x \notin Onward(list, m)
         /\ list[m] \notin Onward(list, m + 1)
<1>1. list \in Seq(Words(w)) /\ Len(list) \in Nat /\ \A i \in 1 .. Len(list) : list[i] \in Words(w)
  BY DEF KeptLists
<1>2. \A i, j \in 1 .. Len(list) : i < j => Less(list[i], list[j])
  BY <1>1, KeptIs
<1>3. ASSUME NEW x \in Words(w), Less(x, list[m]), NEW i \in m .. Len(list), x = list[i] PROVE FALSE
  <2>1. i \in 1 .. Len(list)
    BY <1>1
  <2>2. i = m \/ Less(list[m], list[i])
    BY <1>2, <2>1
  <2> QED BY <1>1, <1>3, <2>1, <2>2, LessIsOrder DEF Words
<1>4. ASSUME NEW i \in m + 1 .. Len(list), list[m] = list[i] PROVE FALSE
  <2>1. i \in 1 .. Len(list) /\ m < i
    BY <1>1
  <2>2. Less(list[m], list[i])
    BY <1>2, <2>1
  <2> QED BY <1>1, <1>4, <2>1, <2>2, LessIsOrder DEF Words
<1> QED BY <1>3, <1>4 DEF Onward

\* The difference of two lists has the items of the first that are not in the second.
LEMMA SetDifferenceIs ==
  ASSUME NEW w, NEW a, NEW b, w \in Nat, a \in KeptLists(w), b \in KeptLists(w)
  PROVE  SetDifference(a, b) \in Seq(Words(w)) /\ ToSet(SetDifference(a, b)) = ToSet(a) \ ToSet(b)
<1> DEFINE W == Words(w)
           D == Places(a, b)
           V == Seq(W)
           M == 1 .. Len(a) + 1
           N == 1 .. Len(b) + 1
           Right(f) == f = [at \in D |-> DifferenceFrom(a, b, f, at)]
           F == CHOOSE f : Right(f)
<1>1. a \in Seq(W) /\ b \in Seq(W) /\ (\A i \in 1 .. Len(a) : a[i] \in W) /\ \A i \in 1 .. Len(b) : b[i] \in W
  BY DEF KeptLists
<1>2. SetDifference(a, b) = F[<<1, 1>>]
  BY DEF SetDifference, DifferenceFrom
<1> HIDE DEF W, D
<1>3. ASSUME NEW f, NEW m \in M, NEW n \in N
      PROVE  \/ /\ m > Len(a) \/ n > Len(b)
                /\ DifferenceFrom(a, b, f, <<m, n>>) = SubSeq(a, m, Len(a))
             \/ /\ m <= Len(a) /\ n <= Len(b) /\ Less(a[m], b[n])
                /\ DifferenceFrom(a, b, f, <<m, n>>) = <<a[m]>> \o f[<<m + 1, n>>]
             \/ /\ m <= Len(a) /\ n <= Len(b) /\ Less(b[n], a[m])
                /\ DifferenceFrom(a, b, f, <<m, n>>) = f[<<m, n + 1>>]
             \/ /\ m <= Len(a) /\ n <= Len(b) /\ ~Less(a[m], b[n]) /\ ~Less(b[n], a[m])
                /\ DifferenceFrom(a, b, f, <<m, n>>) = f[<<m + 1, n + 1>>]
  <2>1. m \in Int /\ n \in Int /\ Len(a) \in Int /\ Len(b) \in Int
    BY <1>1
  <2>2. DifferenceFrom(a, b, f, <<m, n>>) =
          IF m > Len(a) \/ n > Len(b) THEN SubSeq(a, m, Len(a))
          ELSE IF Less(a[m], b[n]) THEN <<a[m]>> \o f[<<m + 1, n>>]
          ELSE IF Less(b[n], a[m]) THEN f[<<m, n + 1>>]
          ELSE f[<<m + 1, n + 1>>]
    BY DEF DifferenceFrom
  <2> DEFINE u == DifferenceFrom(a, b, f, <<m, n>>)
             p == <<a[m]>> \o f[<<m + 1, n>>]
             q == f[<<m, n + 1>>]
             r == f[<<m + 1, n + 1>>]
             s == SubSeq(a, m, Len(a))
  <2> HIDE DEF u, p, q, r, s
  <2>3. u = IF m > Len(a) \/ n > Len(b) THEN s
            ELSE IF Less(a[m], b[n]) THEN p ELSE IF Less(b[n], a[m]) THEN q ELSE r
    BY <2>2 DEF u, p, q, r, s
  <2>4. \/ (m > Len(a) \/ n > Len(b)) /\ u = s
        \/ m <= Len(a) /\ n <= Len(b) /\ Less(a[m], b[n]) /\ u = p
        \/ m <= Len(a) /\ n <= Len(b) /\ Less(b[n], a[m]) /\ u = q
        \/ m <= Len(a) /\ n <= Len(b) /\ ~Less(a[m], b[n]) /\ ~Less(b[n], a[m]) /\ u = r
    BY <2>1, <2>3
  <2> QED BY <2>4 DEF u, p, q, r, s
<1>4. \A m \in M, n \in N : <<m, n>> \in D
  BY PlaceIs DEF D
<1>5. ASSUME NEW f \in [D -> V], NEW m \in M, NEW n \in N PROVE DifferenceFrom(a, b, f, <<m, n>>) \in V
  <2>1. SubSeq(a, m, Len(a)) \in V
    BY <1>1, OnwardIs
  <2>2. ASSUME m <= Len(a) PROVE <<a[m]>> \o f[<<m + 1, n>>] \in V
    <3>1. a[m] \in W /\ <<m + 1, n>> \in D
      BY <1>1, <2>2, PlacesAfter DEF D
    <3>2. f[<<m + 1, n>>] \in V
      BY <3>1
    <3> QED BY <3>1, <3>2, ItemBefore
  <2>3. ASSUME n <= Len(b) PROVE f[<<m, n + 1>>] \in V
    <3>1. <<m, n + 1>> \in D
      BY <1>1, <2>3, PlacesAfter DEF D
    <3> QED BY <3>1
  <2>4. ASSUME m <= Len(a), n <= Len(b) PROVE f[<<m + 1, n + 1>>] \in V
    <3>1. <<m + 1, n + 1>> \in D
      BY <1>1, <2>4, PlacesAfter DEF D
    <3> QED BY <3>1
  <2> HIDE DEF V
  <2> QED BY <1>3, <2>1, <2>2, <2>3, <2>4
<1>6. ASSUME NEW f, NEW g, NEW m \in M, NEW n \in N,
             \A p \in D : Left(a, b, p) < Left(a, b, <<m, n>>) => f[p] = g[p]
      PROVE  DifferenceFrom(a, b, f, <<m, n>>) = DifferenceFrom(a, b, g, <<m, n>>)
  <2>1. m <= Len(a) => f[<<m + 1, n>>] = g[<<m + 1, n>>]
    BY <1>1, <1>6, PlacesAfter DEF D
  <2>2. n <= Len(b) => f[<<m, n + 1>>] = g[<<m, n + 1>>]
    BY <1>1, <1>6, PlacesAfter DEF D
  <2>3. m <= Len(a) /\ n <= Len(b) => f[<<m + 1, n + 1>>] = g[<<m + 1, n + 1>>]
    BY <1>1, <1>6, PlacesAfter DEF D
  <2>4. m \in Int /\ n \in Int /\ Len(a) \in Int /\ Len(b) \in Int
    BY <1>1
  <2>5. CASE m > Len(a) \/ n > Len(b)
    BY <2>5 DEF DifferenceFrom
  <2>6. CASE m <= Len(a) /\ n <= Len(b) /\ ~(m > Len(a)) /\ ~(n > Len(b))
    BY <2>1, <2>2, <2>3, <2>6 DEF DifferenceFrom
  <2> QED BY <2>4, <2>5, <2>6
<1>7. \E f : Right(f)
  <2> DEFINE step == [t \in [D -> V] \X D |-> DifferenceFrom(a, b, t[1], t[2])]
  <2>1. \A at \in D : \E m \in M, n \in N : at = <<m, n>>
    BY PlaceOf DEF D
  <2> HIDE DEF M, N
  <2>2. \A f \in [D -> V], at \in D : step[<<f, at>>] = DifferenceFrom(a, b, f, at)
    OBVIOUS
  <2> HIDE DEF step
  <2>3. \A f \in [D -> V], at \in D : step[<<f, at>>] \in V
    <3> TAKE f \in [D -> V], at \in D
    <3>1. PICK m \in M, n \in N : at = <<m, n>>
      BY <2>1
    <3>2. DifferenceFrom(a, b, f, <<m, n>>) \in V
      BY <1>5
    <3> QED BY <2>2, <3>1, <3>2
  <2>4. ASSUME NEW f \in [D -> V], NEW g \in [D -> V], NEW at \in D,
               \A p \in D : Left(a, b, p) < Left(a, b, at) => f[p] = g[p]
        PROVE  step[<<f, at>>] = step[<<g, at>>]
    <3>1. PICK m \in M, n \in N : at = <<m, n>>
      BY <2>1
    <3>2. DifferenceFrom(a, b, f, <<m, n>>) = DifferenceFrom(a, b, g, <<m, n>>)
      BY <1>6, <2>4, <3>1
    <3> QED BY <2>2, <3>1, <3>2
  <2>5. V # {}
    <3>1. <<>> \in V
      OBVIOUS
    <3> QED BY <3>1
  <2> HIDE DEF V
  <2>6. IsWalk(a, b, V, step)
    BY <2>3, <2>4, <2>5 DEF IsWalk, D
  <2>7. PICK f \in [D -> V] : \A at \in D : f[at] = step[<<f, at>>]
    BY <1>1, <2>6, Walk DEF D
  <2>8. \A at \in D : f[at] = DifferenceFrom(a, b, f, at)
    BY <2>2, <2>7
  <2>9. f = [at \in D |-> f[at]]
    BY <2>7
  <2>10. Right(f)
    BY <2>8, <2>9
  <2> QED BY <2>10
<1>8. Right(F)
  BY <1>7
<1> HIDE DEF F
<1>9. \A m \in M, n \in N : F[<<m, n>>] = DifferenceFrom(a, b, F, <<m, n>>)
  <2>1. \A at \in D : F[at] = DifferenceFrom(a, b, F, at)
    BY <1>8
  <2> QED BY <1>4, <2>1
<1> DEFINE Good(m, n) == /\ F[<<m, n>>] \in V
                         /\ ToSet(F[<<m, n>>]) = Onward(a, m) \ Onward(b, n)
           T == {k \in Nat : \A m \in M, n \in N : Left(a, b, <<m, n>>) = k => Good(m, n)}
<1>10. ASSUME NEW k \in Nat, \A j \in 0 .. k - 1 : j \in T PROVE k \in T
  <2> SUFFICES ASSUME NEW m \in M, NEW n \in N, Left(a, b, <<m, n>>) = k PROVE Good(m, n)
    OBVIOUS
  <2>1. ASSUME NEW i \in M, NEW j \in N, Left(a, b, <<i, j>>) < Left(a, b, <<m, n>>) PROVE Good(i, j)
    <3>1. Left(a, b, <<i, j>>) \in 0 .. k - 1
      <4>1. Left(a, b, <<i, j>>) \in Nat
        BY <1>1, PlacesAfter
      <4> DEFINE q == Left(a, b, <<i, j>>)
      <4>2. q \in Nat /\ q < k
        BY <2>1, <4>1
      <4> HIDE DEF q
      <4>3. q \in 0 .. k - 1
        BY <4>2
      <4> QED BY <4>3 DEF q
    <3> QED BY <1>10, <3>1
  <2> HIDE DEF T
  <2>2. CASE (m > Len(a) \/ n > Len(b)) /\ DifferenceFrom(a, b, F, <<m, n>>) = SubSeq(a, m, Len(a))
    <3>1. SubSeq(a, m, Len(a)) \in V /\ ToSet(SubSeq(a, m, Len(a))) = Onward(a, m)
      BY <1>1, OnwardIs
    <3>2. m > Len(a) => Onward(a, m) = {}
      BY <1>1, OnwardIs
    <3>3. n > Len(b) => Onward(b, n) = {}
      BY <1>1, OnwardIs
    <3> QED BY <1>9, <2>2, <3>1, <3>2, <3>3
  <2>3. CASE /\ m <= Len(a) /\ n <= Len(b) /\ Less(a[m], b[n])
             /\ DifferenceFrom(a, b, F, <<m, n>>) = <<a[m]>> \o F[<<m + 1, n>>]
    <3>1. Good(m + 1, n)
      BY <1>1, <2>1, <2>3, PlacesAfter
    <3>2. a[m] \in W /\ Onward(a, m) = {a[m]} \cup Onward(a, m + 1)
      BY <1>1, <2>3, OnwardIs
    <3>3. a[m] \notin Onward(b, n)
      <4>1. n \in 1 .. Len(b)
        BY <1>1, <2>3, PlacesAfter
      <4> QED BY <2>3, <3>2, <4>1, NotOnward DEF W
    <3> DEFINE t == F[<<m + 1, n>>]
    <3> HIDE DEF t
    <3>4. t \in Seq(W) /\ ToSet(t) = Onward(a, m + 1) \ Onward(b, n)
      BY <3>1 DEF t
    <3>5. <<a[m]>> \o t \in Seq(W) /\ ToSet(<<a[m]>> \o t) = {a[m]} \cup ToSet(t)
      BY <3>2, <3>4, ItemBefore
    <3>6. F[<<m, n>>] = <<a[m]>> \o t
      BY <1>9, <2>3 DEF t
    <3> QED BY <3>2, <3>3, <3>4, <3>5, <3>6
  <2>4. CASE /\ m <= Len(a) /\ n <= Len(b) /\ Less(b[n], a[m])
             /\ DifferenceFrom(a, b, F, <<m, n>>) = F[<<m, n + 1>>]
    <3>1. Good(m, n + 1)
      BY <1>1, <2>1, <2>4, PlacesAfter
    <3>2. b[n] \in W /\ Onward(b, n) = {b[n]} \cup Onward(b, n + 1)
      BY <1>1, <2>4, OnwardIs
    <3>3. b[n] \notin Onward(a, m)
      <4>1. m \in 1 .. Len(a)
        BY <1>1, <2>4, PlacesAfter
      <4> QED BY <2>4, <3>2, <4>1, NotOnward DEF W
    <3>4. F[<<m, n>>] = F[<<m, n + 1>>]
      BY <1>9, <2>4
    <3> QED BY <3>1, <3>2, <3>3, <3>4
  <2>5. CASE /\ m <= Len(a) /\ n <= Len(b) /\ ~Less(a[m], b[n]) /\ ~Less(b[n], a[m])
             /\ DifferenceFrom(a, b, F, <<m, n>>) = F[<<m + 1, n + 1>>]
    <3>1. Good(m + 1, n + 1)
      BY <1>1, <2>1, <2>5, PlacesAfter
    <3>2. a[m] \in W /\ Onward(a, m) = {a[m]} \cup Onward(a, m + 1)
      BY <1>1, <2>5, OnwardIs
    <3>3. b[n] \in W /\ Onward(b, n) = {b[n]} \cup Onward(b, n + 1)
      BY <1>1, <2>5, OnwardIs
    <3>4. a[m] = b[n]
      BY <2>5, <3>2, <3>3, LessIsOrder DEF Words, W
    <3>5. a[m] \notin Onward(a, m + 1)
      <4>1. m \in 1 .. Len(a)
        BY <1>1, <2>5, PlacesAfter
      <4> QED BY <4>1, NotOnward
    <3>6. F[<<m, n>>] = F[<<m + 1, n + 1>>]
      BY <1>9, <2>5
    <3> QED BY <3>1, <3>2, <3>3, <3>4, <3>5, <3>6
  <2> HIDE DEF Good
  <2> QED BY <1>3, <2>2, <2>3, <2>4, <2>5
<1>11. Good(1, 1)
  <2>1. \A k \in Nat : k \in T
    <3> HIDE DEF T
    <3> QED BY <1>10, StrongInduction
  <2>2. 1 \in M /\ 1 \in N /\ Left(a, b, <<1, 1>>) \in Nat
    <3>1. 1 \in M /\ 1 \in N
      BY <1>1
    <3> QED BY <1>1, <3>1, PlacesAfter
  <2> QED BY <2>1, <2>2
<1>12. Onward(a, 1) = ToSet(a) /\ Onward(b, 1) = ToSet(b)
  <2>1. 1 \in M /\ 1 \in N
    BY <1>1
  <2> QED BY <1>1, <2>1, OnwardIs
<1> QED BY <1>2, <1>11, <1>12 DEF W

----------------------------------------------------------------------------
(* The operations of the classes *)

\* Merge2New makes the union, Difference2New the difference, and both are in order.
LEMMA ClassesIs ==
  ASSUME NEW w, NEW a, NEW b, w \in Nat, a \in KeptLists(w), b \in KeptLists(w)
  PROVE  /\ Merge2New(a, b) \in KeptLists(w) /\ ToSet(Merge2New(a, b)) = ToSet(a) \cup ToSet(b)
         /\ Difference2New(a, b) \in KeptLists(w) /\ ToSet(Difference2New(a, b)) = ToSet(a) \ ToSet(b)
<1>1. SetUnion(a, b) \in Seq(Words(w)) /\ ToSet(SetUnion(a, b)) = ToSet(a) \cup ToSet(b)
  <2>1. SetUnion(a, b) \in Seq(Words(w))
    BY SetUnionIs
  <2>2. ToSet(SetUnion(a, b)) = ToSet(a) \cup ToSet(b)
    BY SetUnionIs
  <2> QED BY <2>1, <2>2
<1>2. SetDifference(a, b) \in Seq(Words(w)) /\ ToSet(SetDifference(a, b)) = ToSet(a) \ ToSet(b)
  BY ZenonT(30), SetDifferenceIs
<1>3. /\ SetOf(SetUnion(a, b)) \in KeptLists(w)
      /\ ToSet(SetOf(SetUnion(a, b))) = ToSet(SetUnion(a, b))
  BY <1>1, SetOfIs
<1>4. /\ SetOf(SetDifference(a, b)) \in KeptLists(w)
      /\ ToSet(SetOf(SetDifference(a, b))) = ToSet(SetDifference(a, b))
  BY <1>2, SetOfIs
<1> QED BY <1>1, <1>2, <1>3, <1>4 DEF Merge2New, Difference2New

\* The bytes of some items, in their order.
PartsAre(bytes, w, items) ==
  \A n \in 1 .. Len(items) : SubSeq(bytes, w * (n - 1) + 1, w * n) = items[n]

\* The items of two lists, one after the other, are where they should be in their bytes.
LEMMA TwoFlattened ==
  ASSUME NEW w, NEW a, NEW b, w \in Nat \ {0}, a \in Seq(Words(w)), b \in Seq(Words(w))
  PROVE  PartsAre(FlattenSeq(a) \o FlattenSeq(b), w, a \o b)
<1> SUFFICES ASSUME NEW n \in 1 .. Len(a) + Len(b)
             PROVE  SubSeq(FlattenSeq(a) \o FlattenSeq(b), w * (n - 1) + 1, w * n) = (a \o b)[n]
  BY ConcatProperties DEF PartsAre
<1> DEFINE x == FlattenSeq(a)
           y == FlattenSeq(b)
           i == w * (n - 1) + 1
           k == w * n
           xLen == w * Len(a)
           yLen == w * Len(b)
<1>1. /\ x \in Seq(Byte) /\ Len(x) = xLen
      /\ \A j \in 1 .. Len(a) : SubSeq(x, w * (j - 1) + 1, w * j) = a[j]
  BY FlattenItems DEF Words
<1>2. /\ y \in Seq(Byte) /\ Len(y) = yLen
      /\ \A j \in 1 .. Len(b) : SubSeq(y, w * (j - 1) + 1, w * j) = b[j]
  BY FlattenItems DEF Words
<1>3. Len(a) \in Nat /\ Len(b) \in Nat /\ n \in Nat /\ n >= 1 /\ n <= Len(a) + Len(b)
  OBVIOUS
<1>4. (a \o b)[n] = IF n <= Len(a) THEN a[n] ELSE b[n - Len(a)]
  BY ConcatProperties
<1> HIDE DEF x, y
<1>5. i = k - w + 1 /\ k \in Int /\ xLen \in Int /\ yLen \in Int /\ w <= k /\ w >= 1
  <2>1. w * 1 <= w * n /\ w * 1 = w
    BY <1>3, Product
  <2>2. w * (n - 1) = w * n - w
    BY <1>3
  <2> QED BY <1>3, <2>1, <2>2
<1>6. CASE n <= Len(a)
  <2>1. k <= xLen
    BY <1>3, <1>6, Product
  <2> HIDE DEF i, k, xLen, yLen
  <2>2. i \in 1 .. Len(x) /\ k \in 1 .. Len(x)
    BY <1>1, <1>5, <2>1
  <2>3. SubSeq(x \o y, i, k) = SubSeq(x, i, k)
    BY <1>1, <1>2, <2>2, SubSeqOfConcat1
  <2>4. SubSeq(x, i, k) = a[n]
    BY <1>1, <1>3, <1>6 DEF i, k
  <2> QED BY <1>4, <1>6, <2>3, <2>4 DEF x, y, i, k
<1>7. CASE ~(n <= Len(a))
  <2> DEFINE j == n - Len(a)
  <2>1. j \in 1 .. Len(b)
    BY <1>3, <1>7
  <2>2. k - xLen = w * j /\ i - xLen = w * (j - 1) + 1
    BY <1>3
  <2>3. w * 1 <= w * j /\ w * j <= yLen /\ w * 1 = w
    BY <1>3, <2>1, Product
  <2>4. k >= xLen + w /\ k <= xLen + yLen
    <3> DEFINE z == w * j
    <3>1. k - xLen = z /\ w <= z /\ z <= yLen /\ z \in Int
      BY <2>1, <2>2, <2>3
    <3> HIDE DEF z, k, xLen, yLen
    <3> QED BY <1>5, <3>1
  <2> HIDE DEF i, k, xLen, yLen
  <2>5. i \in Len(x) + 1 .. Len(x) + Len(y) /\ k \in Len(x) + 1 .. Len(x) + Len(y)
    BY <1>1, <1>2, <1>5, <2>4
  <2>6. SubSeq(x \o y, i, k) = SubSeq(y, i - Len(x), k - Len(x))
    BY ZenonT(30), <1>1, <1>2, <2>5, SubSeqOfConcat2
  <2>7. SubSeq(y, w * (j - 1) + 1, w * j) = b[j]
    BY <1>2, <2>1
  <2> QED BY <1>1, <1>4, <1>7, <2>2, <2>6, <2>7 DEF x, y, i, k
<1> QED BY <1>6, <1>7

\* They are read as the set of their items.
LEMMA TwoParsed ==
  ASSUME NEW w, NEW a, NEW b, w \in Nat \ {0}, a \in Seq(Words(w)), b \in Seq(Words(w))
  PROVE  ParseItems(FlattenSeq(a) \o FlattenSeq(b), w) = Parsed(SetOf(a \o b), <<>>)
<1> DEFINE bytes == FlattenSeq(a) \o FlattenSeq(b)
           k == Len(a) + Len(b)
           item(n) == SubSeq(bytes, w * (n - 1) + 1, w * n)
<1>1. FlattenSeq(a) \in Seq(Byte) /\ Len(FlattenSeq(a)) = w * Len(a)
  BY FlattenItems DEF Words
<1>2. FlattenSeq(b) \in Seq(Byte) /\ Len(FlattenSeq(b)) = w * Len(b)
  BY FlattenItems DEF Words
<1>3. Len(bytes) = w * Len(a) + w * Len(b)
  BY <1>1, <1>2, ConcatProperties
<1>4. Len(a) \in Nat /\ Len(b) \in Nat /\ k \in Nat /\ Len(bytes) = k * w + 0 /\ k * w \in Nat
  BY <1>3
<1>5. Len(bytes) % w = 0 /\ Len(bytes) \div w = k
  <2> DEFINE x == Len(bytes)
  <2>1. x = k * w + 0 /\ x \in Nat
    BY <1>4
  <2> HIDE DEF x, k
  <2>2. x \div w = k /\ x % w = 0
    BY SMTT(30), <1>4, <2>1, Division
  <2> QED BY <2>2 DEF x
<1>6. \A n \in 1 .. k : item(n) = (a \o b)[n]
  <2>1. PartsAre(FlattenSeq(a) \o FlattenSeq(b), w, a \o b)
    BY TwoFlattened
  <2>2. Len(a \o b) = k
    BY ConcatProperties
  <2> QED BY <2>1, <2>2 DEF PartsAre
<1>7. ParseItems(bytes, w) = Parsed(SetOf([n \in 1 .. k |-> item(n)]), <<>>)
  BY <1>5 DEF ParseItems
<1>8. a \o b = [n \in 1 .. k |-> (a \o b)[n]]
  <2> DEFINE s == a \o b
  <2>1. s \in Seq(Words(w)) /\ Len(s) = k
    BY ConcatProperties
  <2> HIDE DEF s, k
  <2>2. s = [n \in 1 .. k |-> s[n]]
    BY <2>1
  <2> QED BY <2>2 DEF s
<1> HIDE DEF item, k
<1>9. [n \in 1 .. k |-> item(n)] = a \o b
  BY <1>6, <1>8
<1> QED BY <1>7, <1>9

\* A buffer of items is read as the set of them.
LEMMA OneParsed ==
  ASSUME NEW w, NEW a, w \in Nat \ {0}, a \in Seq(Words(w))
  PROVE  ParseItems(FlattenSeq(a), w) = Parsed(SetOf(a), <<>>)
<1> DEFINE none == <<>>
<1>1. none \in Seq(Words(w)) /\ Len(none) = 0 /\ a \o none = a
  BY ConcatEmptySeq
<1>2. FlattenSeq(none) = <<>>
  <2>1. w * 0 = 0
    OBVIOUS
  <2>2. none \in Seq([1 .. w -> Byte])
    BY DEF Words
  <2>3. FlattenSeq(none) \in Seq(Byte) /\ Len(FlattenSeq(none)) = w * Len(none)
    <3> HIDE DEF none
    <3> QED BY <2>2, FlattenItems
  <2> HIDE DEF none
  <2> QED BY <1>1, <2>1, <2>3, EmptySeq
<1>3. FlattenSeq(a) \in Seq(Byte)
  BY FlattenItems DEF Words
<1>4. FlattenSeq(a) \o FlattenSeq(none) = FlattenSeq(a)
  BY <1>2, <1>3, ConcatEmptySeq
<1>5. ParseItems(FlattenSeq(a) \o FlattenSeq(none), w) = Parsed(SetOf(a \o none), <<>>)
  <2> HIDE DEF none
  <2> QED BY <1>1, TwoParsed
<1> QED BY <1>1, <1>4, <1>5

\* A byte more or less than some items is no number of items.
LEMMA OddBytes ==
  ASSUME NEW w, NEW k, w \in Nat \ {0, 1}, k \in Nat
  PROVE  (w * k + 1) % w # 0 /\ (k > 0 => (w * k - 1) % w # 0)
<1>1. (w * k + 1) % w = 1
  <2>1. w * k + 1 = k * w + 1 /\ w * k + 1 \in Nat
    OBVIOUS
  <2> DEFINE x == w * k + 1
  <2> HIDE DEF x
  <2>2. x = k * w + 1 /\ x \in Nat /\ w \in Nat \ {0} /\ 1 \in Nat /\ 1 < w
    BY <2>1 DEF x
  <2>3. x % w = 1
    BY <2>2, Division
  <2> QED BY <2>3 DEF x
<1>2. ASSUME k > 0 PROVE (w * k - 1) % w = w - 1
  <2> DEFINE x == w * k - 1
             q == k - 1
             r == w - 1
  <2>1. x = q * w + r /\ q \in Nat /\ r \in Nat /\ r < w /\ q * w \in Nat
    BY <1>2
  <2> HIDE DEF x, q, r
  <2>2. x \in Nat
    BY <2>1
  <2>3. x % w = r
    BY <2>1, <2>2, Division
  <2> QED BY <2>3 DEF x, r
<1> QED BY <1>1, <1>2

----------------------------------------------------------------------------
(* A program with some lists *)

\* The lists of a class have items of one length.
LEMMA ItemSizes ==
  ASSUME NEW l, l \in ListNames
  PROVE  /\ ItemSize(l) \in Nat \ {0, 1} /\ ItemsOf(l) \subseteq Words(ItemSize(l))
         /\ \A r \in ListNames : SameClass(l, r) => ItemSize(r) = ItemSize(l)
<1>1. AttributeItemSize \in Nat \ {0, 1} /\ HashSize \in Nat \ {0, 1}
  BY SizeAssumption DEF AttributeItemSize
<1>2. AttributeItems \subseteq Words(AttributeItemSize) /\ EntityItems \subseteq Words(HashSize)
  BY ListsAssumption DEF Words, Hash
<1>3. \A r \in ListNames : SameClass(l, r) => (r \in AttributeLists <=> l \in AttributeLists)
  BY ListsAssumption DEF ListNames, SameClass
<1> QED BY <1>1, <1>2, <1>3 DEF ItemSize, ItemsOf

\* Every list is in order.
ListsKept ==
  /\ lists = [l \in ListNames |-> lists[l]]
  /\ \A l \in ListNames : lists[l] \in KeptLists(ItemSize(l))

\* An operation changes one list.
LEMMA SetIs ==
  ListsKept =>
    \A l \in ListNames : \A list :
      Set(l, list) => /\ lists'[l] = list
                      /\ list \in KeptLists(ItemSize(l)) => ListsKept'
<1> SUFFICES ASSUME ListsKept, NEW l \in ListNames, NEW list, Set(l, list)
             PROVE  lists'[l] = list /\ (list \in KeptLists(ItemSize(l)) => ListsKept')
  OBVIOUS
<1>1. lists' = [lists EXCEPT ![l] = list]
  BY DEF Set
<1>2. lists' = [r \in ListNames |-> IF r = l THEN list ELSE lists[r]]
  BY <1>1 DEF ListsKept
<1> QED BY <1>2 DEF ListsKept

\* Every operation leaves the lists in order, also when a list meets itself or when
\* a buffer has items in any order and more than once.
THEOREM ListsAreKept == ListsSpec => []ListsKept
<1>1. ListsInit => ListsKept
  <2>1. ASSUME NEW l \in ListNames PROVE <<>> \in KeptLists(ItemSize(l))
    <3> DEFINE none == <<>>
               w == ItemSize(l)
    <3>1. none \in Seq(Words(w)) /\ \A i, j \in 1 .. Len(none) : i < j => Less(none[i], none[j])
      OBVIOUS
    <3>2. w \in Nat
      BY ItemSizes
    <3> HIDE DEF none, w
    <3>3. none \in KeptLists(w)
      BY <3>1, <3>2, KeptIs
    <3> QED BY <3>3 DEF none, w
  <2> QED BY <2>1 DEF ListsInit, ListsKept
<1>2. ListsKept /\ [ListsNext]_lists => ListsKept'
  <2> SUFFICES ASSUME ListsKept, [ListsNext]_lists PROVE ListsKept'
    OBVIOUS
  <2>0. \A l \in ListNames : ItemSize(l) \in Nat /\ lists[l] \in KeptLists(ItemSize(l))
    BY ItemSizes DEF ListsKept
  <2>1. ASSUME NEW l \in ListNames, NEW item \in ItemsOf(l), Insert(l, item) PROVE ListsKept'
    <3>1. item \in Words(ItemSize(l))
      BY ItemSizes
    <3>2. Insertion(lists[l], item) \in KeptLists(ItemSize(l))
      BY <2>0, <3>1, InsertionIs
    <3> QED BY <2>1, <3>2, SetIs DEF Insert
  <2>2. ASSUME NEW l \in ListNames, NEW r \in ListNames, SameClass(l, r), Merge(l, r) PROVE ListsKept'
    <3>1. lists[r] \in KeptLists(ItemSize(l))
      BY <2>0, <2>2, ItemSizes
    <3>2. Merge2New(lists[l], lists[r]) \in KeptLists(ItemSize(l))
      BY <2>0, <3>1, ClassesIs
    <3> QED BY <2>2, <3>2, SetIs DEF Merge
  <2>3. ASSUME NEW l \in ListNames, NEW bytes \in Buffers(l), ParseList(l, bytes) PROVE ListsKept'
    <3>1. PICK n \in 0 .. MaxParsed : \E b \in [1 .. n -> ItemsOf(l)] : bytes = FlattenSeq(b)
      BY <2>3 DEF Buffers
    <3>2. PICK b \in [1 .. n -> ItemsOf(l)] : bytes = FlattenSeq(b)
      BY <3>1
    <3>3. n \in Nat /\ ItemSize(l) \in Nat \ {0} /\ ItemsOf(l) \subseteq Words(ItemSize(l))
      BY ItemSizes, ListsAssumption
    <3>4. b \in Seq(Words(ItemSize(l)))
      BY <3>3
    <3>5. ParseItems(bytes, ItemSize(l)) = Parsed(SetOf(b), <<>>)
      BY <3>2, <3>3, <3>4, OneParsed
    <3>6. SetOf(b) \in KeptLists(ItemSize(l))
      BY <3>3, <3>4, SetOfIs
    <3>7. Set(l, SetOf(b))
      BY <2>3, <3>5, Continues DEF ParseList
    <3> QED BY <3>6, <3>7, SetIs
  <2>4. ASSUME NEW l \in AttributeLists, NEW r \in AttributeLists, NEW s \in AttributeLists
        PROVE  /\ ItemSize(r) = ItemSize(l) /\ ItemSize(s) = ItemSize(l)
               /\ l \in ListNames /\ r \in ListNames /\ s \in ListNames
    BY DEF ItemSize, ListNames
  <2>5. ASSUME NEW l \in AttributeLists, NEW r \in AttributeLists, Difference(l, r) PROVE ListsKept'
    <3>1. Difference2New(lists[l], lists[r]) \in KeptLists(ItemSize(l))
      BY <2>0, <2>4, ClassesIs
    <3> QED BY <2>4, <2>5, <3>1, SetIs DEF Difference
  <2>6. ASSUME NEW l \in AttributeLists, NEW r \in AttributeLists, Swap(l, r) PROVE ListsKept'
    <3>1. lists' = [k \in ListNames |-> IF k = r THEN lists[l] ELSE IF k = l THEN lists[r] ELSE lists[k]]
      BY <2>4, <2>6 DEF Swap, ListsKept
    <3> QED BY <2>0, <2>4, <3>1 DEF ListsKept
  <2>7. ASSUME NEW l \in AttributeLists, NEW r \in AttributeLists, MoveFrom(l, r) PROVE ListsKept'
    <3>1. lists' = [k \in ListNames |-> IF k = r THEN <<>> ELSE IF k = l THEN lists[r] ELSE lists[k]]
      BY <2>4, <2>7 DEF MoveFrom, ListsKept
    <3>2. <<>> \in KeptLists(ItemSize(r))
      <4> DEFINE none == <<>>
                 w == ItemSize(r)
      <4>1. none \in Seq(Words(w)) /\ \A i, j \in 1 .. Len(none) : i < j => Less(none[i], none[j])
        OBVIOUS
      <4>2. w \in Nat
        BY <2>0, <2>4
      <4> HIDE DEF none, w
      <4>3. none \in KeptLists(w)
        BY <4>1, <4>2, KeptIs
      <4> QED BY <4>3 DEF none, w
    <3> QED BY <2>0, <2>4, <3>1, <3>2 DEF ListsKept
  <2>8. ASSUME NEW l \in AttributeLists, NEW r \in AttributeLists, NEW s \in AttributeLists,
               Plus(l, r, s) \/ Minus(l, r, s)
        PROVE  ListsKept'
    <3>1. lists[r] \in KeptLists(ItemSize(l)) /\ lists[s] \in KeptLists(ItemSize(l)) /\ ItemSize(l) \in Nat
      BY <2>0, <2>4
    <3>2. /\ Merge2New(lists[r], lists[s]) \in KeptLists(ItemSize(l))
          /\ Difference2New(lists[r], lists[s]) \in KeptLists(ItemSize(l))
      BY <3>1, ClassesIs
    <3> QED BY <2>4, <2>8, <3>2, SetIs DEF Plus, Minus
  <2>9. CASE UNCHANGED lists
    BY <2>9 DEF ListsKept
  <2> QED BY <2>1, <2>2, <2>3, <2>5, <2>6, <2>7, <2>8, <2>9 DEF ListsNext
<1> QED BY <1>1, <1>2, PTL DEF ListsSpec

\* Searching a list is asking whether an item is in it, whatever happened to the list.
THEOREM ListsFind == ListsSpec => []SearchFinds
<1>1. ListsKept => SearchFinds
  <2> SUFFICES ASSUME ListsKept, NEW l \in ListNames
               PROVE  /\ \A m, n \in DOMAIN lists[l] : m < n => Less(lists[l][m], lists[l][n])
                      /\ \A item \in ItemsOf(l) : SearchList(lists[l], item) <=> item \in Contents(l)
    BY DEF SearchFinds
  <2> DEFINE w == ItemSize(l)
             list == lists[l]
  <2>1. w \in Nat /\ list \in KeptLists(w) /\ ItemsOf(l) \subseteq Words(w)
    BY ItemSizes DEF ListsKept
  <2>2. list \in Seq(Words(w))
    BY <2>1 DEF KeptLists
  <2> HIDE DEF w, list
  <2>3. \A m, n \in 1 .. Len(list) : m < n => Less(list[m], list[n])
    BY <2>1, <2>2, KeptIs
  <2>4. \A item \in ItemsOf(l) : Found(list, item) <=> item \in ToSet(list)
    BY <2>1, FoundIs
  <2> QED BY <2>2, <2>3, <2>4 DEF list, SearchList, Contents
<1> QED BY <1>1, ListsAreKept, PTL

\* A list is sent and read as it is, two of them are merged, and bytes that are no
\* list are refused.
THEOREM ListsParse == ListsSpec => []ListSurvives
<1>1. ListsKept => ListSurvives
  <2> SUFFICES ASSUME ListsKept, NEW l \in ListNames
               PROVE  /\ SizeOfList(l) = Len(BytesOfList(l))
                      /\ \A r \in ListNames : SameClass(l, r) =>
                           ParseItems(BytesOfList(l) \o BytesOfList(r), ItemSize(l))
                             = Parsed(Merge2New(lists[l], lists[r]), <<>>)
                      /\ ~ParseItems(BytesOfList(l) \o <<0>>, ItemSize(l)).ok
                      /\ lists[l] # <<>> => ~ParseItems(Tail(BytesOfList(l)), ItemSize(l)).ok
    BY DEF ListSurvives
  <2> DEFINE w == ItemSize(l)
             a == lists[l]
             k == Len(a)
             bytes == FlattenSeq(a)
  <2>1. w \in Nat \ {0, 1} /\ a \in KeptLists(w)
    BY ItemSizes DEF ListsKept
  <2>2. a \in Seq(Words(w)) /\ k \in Nat
    BY <2>1 DEF KeptLists
  <2> HIDE DEF w, a
  <2>3. bytes \in Seq(Byte) /\ Len(bytes) = w * k
    BY <2>1, <2>2, FlattenItems DEF Words
  <2>4. BytesOfList(l) = bytes /\ SizeOfList(l) = k * w
    BY DEF BytesOfList, SizeOfList, a, w
  <2>5. k * w = w * k /\ w * k \in Nat
    BY <2>1, <2>2
  <2>6. ASSUME NEW r \in ListNames, SameClass(l, r)
        PROVE  ParseItems(bytes \o FlattenSeq(lists[r]), w) = Parsed(Merge2New(a, lists[r]), <<>>)
    <3> DEFINE b == lists[r]
               both == a \o b
    <3>1. b \in KeptLists(w)
      BY <2>6, ItemSizes DEF ListsKept, w
    <3>2. b \in Seq(Words(w))
      BY <3>1 DEF KeptLists
    <3> HIDE DEF b
    <3>3. both \in Seq(Words(w)) /\ ToSet(both) = ToSet(a) \cup ToSet(b)
      BY <2>2, <3>2, ConcatSet
    <3>4. Merge2New(a, b) \in KeptLists(w) /\ ToSet(Merge2New(a, b)) = ToSet(a) \cup ToSet(b)
      BY <2>1, <3>1, ClassesIs
    <3>5. ParseItems(FlattenSeq(a) \o FlattenSeq(b), w) = Parsed(SetOf(both), <<>>)
      BY <2>1, <2>2, <3>2, TwoParsed
    <3> HIDE DEF both
    <3>6. SetOf(both) = Merge2New(a, b)
      BY <2>1, <3>3, <3>4, SetOfSame
    <3> QED BY <3>5, <3>6 DEF b
  <2> HIDE DEF bytes, k
  <2>7. ~ParseItems(bytes \o <<0>>, w).ok
    <3> DEFINE more == <<0>>
    <3>1. more \in Seq(Byte) /\ Len(more) = 1
      BY DEF Byte
    <3> HIDE DEF more
    <3>2. Len(bytes \o more) = w * k + 1
      <4> HIDE DEF more
      <4>1. Len(bytes \o more) = Len(bytes) + Len(more)
        BY <2>3, <3>1, ConcatProperties
      <4> QED BY <2>3, <3>1, <4>1
    <3>3. (w * k + 1) % w # 0
      BY <2>1, <2>2, OddBytes
    <3> QED BY <3>2, <3>3, ResultsShape DEF ParseItems, more
  <2>8. ASSUME a # <<>> PROVE ~ParseItems(Tail(bytes), w).ok
    <3>1. k > 0
      BY <2>2, <2>8, EmptySeq DEF k
    <3>2. (w * k - 1) % w # 0
      BY <2>1, <2>2, <3>1, OddBytes
    <3>3. w * k >= 1
      BY <2>1, <2>2, <3>1
    <3>4. Len(Tail(bytes)) = w * k - 1
      <4> DEFINE x == w * k
      <4>1. Len(bytes) = x /\ x >= 1 /\ x \in Nat
        BY <2>3, <2>5, <3>3
      <4> HIDE DEF x
      <4>2. Len(Tail(bytes)) = x - 1
        BY <2>3, <4>1
      <4> QED BY <4>2 DEF x
    <3> QED BY <3>2, <3>4, ResultsShape DEF ParseItems
  <2> QED BY <2>3, <2>4, <2>5, <2>6, <2>7, <2>8 DEF a, w, BytesOfList
<1> QED BY <1>1, ListsAreKept, PTL

\* The operations of the classes do to the contents what those on sets do.
THEOREM ListsWorkAsSets == ListsSpec => ListsAreSets
<1> DEFINE A == /\ \A l, r \in ListNames : SameClass(l, r) /\ Merge(l, r) =>
                     Contents(l)' = Contents(l) \cup Contents(r)
                /\ \A l, r, s \in AttributeLists :
                     /\ Difference(l, r) => Contents(l)' = Contents(l) \ Contents(r)
                     /\ Minus(l, r, s) => Contents(l)' = Contents(r) \ Contents(s)
                     /\ Plus(l, r, s) => Contents(l)' = Contents(r) \cup Contents(s)
<1>1. ListsKept => A
  <2> SUFFICES ASSUME ListsKept PROVE A
    OBVIOUS
  <2>0. \A l \in ListNames : ItemSize(l) \in Nat /\ lists[l] \in KeptLists(ItemSize(l))
    BY ItemSizes DEF ListsKept
  <2>1. ASSUME NEW l \in ListNames, NEW r \in ListNames, SameClass(l, r), Merge(l, r)
        PROVE  Contents(l)' = Contents(l) \cup Contents(r)
    <3>1. lists[r] \in KeptLists(ItemSize(l))
      BY <2>0, <2>1, ItemSizes
    <3>2. ToSet(Merge2New(lists[l], lists[r])) = ToSet(lists[l]) \cup ToSet(lists[r])
      BY <2>0, <3>1, ClassesIs
    <3>3. lists'[l] = Merge2New(lists[l], lists[r])
      BY <2>1, SetIs DEF Merge
    <3> QED BY <3>2, <3>3 DEF Contents
  <2>2. ASSUME NEW l \in AttributeLists, NEW r \in AttributeLists, NEW s \in AttributeLists
        PROVE  /\ Difference(l, r) => Contents(l)' = Contents(l) \ Contents(r)
               /\ Minus(l, r, s) => Contents(l)' = Contents(r) \ Contents(s)
               /\ Plus(l, r, s) => Contents(l)' = Contents(r) \cup Contents(s)
    <3> DEFINE w == ItemSize(l)
    <3>1. w \in Nat /\ lists[l] \in KeptLists(w) /\ lists[r] \in KeptLists(w) /\ lists[s] \in KeptLists(w)
          /\ l \in ListNames
      BY <2>0 DEF ItemSize, ListNames
    <3> HIDE DEF w
    <3>2. ToSet(Difference2New(lists[l], lists[r])) = ToSet(lists[l]) \ ToSet(lists[r])
      BY <3>1, ClassesIs
    <3>3. /\ ToSet(Difference2New(lists[r], lists[s])) = ToSet(lists[r]) \ ToSet(lists[s])
          /\ ToSet(Merge2New(lists[r], lists[s])) = ToSet(lists[r]) \cup ToSet(lists[s])
      BY <3>1, ClassesIs
    <3>4. Difference(l, r) => lists'[l] = Difference2New(lists[l], lists[r])
      BY <3>1, SetIs DEF Difference
    <3>5. Minus(l, r, s) => lists'[l] = Difference2New(lists[r], lists[s])
      BY <3>1, SetIs DEF Minus
    <3>6. Plus(l, r, s) => lists'[l] = Merge2New(lists[r], lists[s])
      BY <3>1, SetIs DEF Plus
    <3> QED BY <3>2, <3>3, <3>4, <3>5, <3>6 DEF Contents
  <2> HIDE DEF ListsKept
  <2> QED BY <2>1, <2>2
<1>2. ListsKept => [A]_lists
  BY <1>1
<1>3. [][A]_lists => ListsAreSets
  BY PTL DEF ListsAreSets
<1> QED BY <1>2, <1>3, ListsAreKept, PTL
=============================================================================
