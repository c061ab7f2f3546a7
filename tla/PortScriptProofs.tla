-------------------------- MODULE PortScriptProofs --------------------------
(***************************************************************************)
(* Theorems about PortScript for all nodes, ports, scripts and settings,   *)
(* with their proofs.                                                      *)
(***************************************************************************)
EXTENDS PortScript, SequenceTheorems, WellFoundedInduction, TLAPS

-----------------------------------------------------------------------------
(* Recursion over an interval. *)

LEMMA LeastNat ==
    ASSUME NEW T \in SUBSET Nat, T # {}
    PROVE  \E n \in T : \A m \in T : n <= m
<1> DEFINE less == {ss \in Nat \X Nat : ss[1] < ss[2]}
<1>1. IsWellFoundedOn(less, Nat)
  BY NatLessThanWellFounded DEF OpToRel
<1>2. PICK n \in T : \A m \in T : <<m, n>> \notin less
  <2> HIDE DEF less
  <2> QED
    BY <1>1, WFMin
<1>3. ASSUME NEW m \in T
      PROVE  n <= m
  <2>1. m \in Nat /\ n \in Nat /\ ~(m < n)
    BY <1>2
  <2> QED
    BY <2>1
<1> QED
  BY <1>3

LEMMA UpTo ==
    ASSUME NEW N \in Nat, NEW T, 0 \in T,
           \A i \in 0 .. N : i # N /\ i \in T => i + 1 \in T
    PROVE  0 .. N \subseteq T
<1> DEFINE bad == 0 .. N \ T
<1> SUFFICES ASSUME bad # {}
             PROVE  FALSE
  OBVIOUS
<1>1. PICK k \in bad : \A m \in bad : k <= m
  <2>1. bad \in SUBSET Nat
    OBVIOUS
  <2> HIDE DEF bad
  <2> QED
    BY <2>1, LeastNat
<1>2. k # 0 /\ k - 1 \in 0 .. N
  OBVIOUS
<1>3. k - 1 \in T
  BY <1>1, <1>2
<1> QED
  BY <1>2, <1>3

\* Where every step of a recursion stays in S, there is a function that obeys it.
Obeys(g, base, step, N) ==
    g[0] = base /\ \A i \in 1 .. N : g[i] = step[i][g[i - 1]]

LEMMA Recursion ==
    ASSUME NEW S, NEW base \in S, NEW N \in Nat, NEW step \in [1 .. N -> [S -> S]]
    PROVE  \E g \in [0 .. N -> S] : Obeys(g, base, step, N)
<1> USE DEF Obeys
<1> DEFINE good == {k \in 0 .. N : \E g \in [0 .. k -> S] : Obeys(g, base, step, k)}
<1>1. 0 \in good
  <2> DEFINE g == [i \in 0 .. 0 |-> base]
  <2>1. g \in [0 .. 0 -> S] /\ Obeys(g, base, step, 0)
    OBVIOUS
  <2> HIDE DEF g
  <2> QED
    BY <2>1
<1>2. ASSUME NEW k \in 0 .. N, k # N, k \in good
      PROVE  k + 1 \in good
  <2>1. PICK g \in [0 .. k -> S] : Obeys(g, base, step, k)
    BY <1>2
  <2> DEFINE h == [i \in 0 .. k + 1 |-> IF i = k + 1 THEN step[k + 1][g[k]] ELSE g[i]]
  <2>2. step[k + 1][g[k]] \in S
    BY <1>2, <2>1
  <2>3. h \in [0 .. k + 1 -> S]
    BY <2>1, <2>2
  <2>4. Obeys(h, base, step, k + 1)
    BY <2>1
  <2>5. k + 1 \in 0 .. N
    BY <1>2
  <2> HIDE DEF h
  <2> QED
    BY <2>3, <2>4, <2>5
<1>3. 0 .. N \subseteq good
  <2> HIDE DEF good
  <2> QED
    BY <1>1, <1>2, UpTo
<1> QED
  BY <1>3

-----------------------------------------------------------------------------
(* What FlattenSeq does. *)

\* The texts FlattenSeq goes through.
LEMMA FlattenSteps ==
    ASSUME NEW P, NEW args \in Seq(Seq(P))
    PROVE  \E g \in [0 .. Len(args) -> Seq(P)] :
             /\ g[0] = <<>>
             /\ \A i \in 1 .. Len(args) : g[i] = g[i - 1] \o args[i]
             /\ FlattenSeq(args) = g[Len(args)]
<1> DEFINE N == Len(args)
           S == Seq(P)
           step == [i \in 1 .. N |-> [x \in S |-> x \o args[i]]]
           flatten[i \in 1 .. N] == IF i = 1 THEN args[i] ELSE flatten[i - 1] \o args[i]
<1>1. N \in Nat /\ <<>> \in S /\ \A i \in 1 .. N : args[i] \in S
  OBVIOUS
<1>2. step \in [1 .. N -> [S -> S]]
  <2>1. \A i \in 1 .. N : \A x \in S : x \o args[i] \in S
    BY <1>1
  <2> HIDE DEF S, N
  <2> QED
    BY <2>1
<1>3. PICK g \in [0 .. N -> S] : Obeys(g, <<>>, step, N)
  <2> HIDE DEF step, S, N
  <2> QED
    BY <1>1, <1>2, Recursion
<1>4. /\ g[0] = <<>>
      /\ \A i \in 1 .. N : g[i] = g[i - 1] \o args[i]
  <2>1. \A i \in 1 .. N : step[i] = [x \in S |-> x \o args[i]]
    OBVIOUS
  <2>2. \A i \in 1 .. N : i - 1 \in 0 .. N
    BY <1>1
  <2> HIDE DEF step, S, N
  <2> QED
    BY <1>3, <2>1, <2>2 DEF Obeys
<1>5. CASE N = 0
  <2>1. args = <<>> /\ FlattenSeq(args) = args
    BY <1>5 DEF FlattenSeq
  <2> HIDE DEF step
  <2> QED
    BY <1>3, <1>4, <1>5, <2>1
<1>6. CASE N # 0
  <2> DEFINE h == [i \in 1 .. N |-> g[i]]
  <2>1. h = [i \in 1 .. N |-> IF i = 1 THEN args[i] ELSE h[i - 1] \o args[i]]
    <3>1. g[1] = args[1]
      <4>1. 1 \in 1 .. N /\ 1 - 1 = 0
        BY <1>1, <1>6
      <4>2. g[1] = <<>> \o args[1] /\ args[1] \in Seq(P)
        <5> HIDE DEF step, N
        <5> QED
          BY <1>1, <1>4, <4>1
      <4> QED
        BY <4>2, ConcatEmptySeq
    <3>2. ASSUME NEW i \in 1 .. N, i # 1
          PROVE  g[i] = h[i - 1] \o args[i]
      <4>1. i - 1 \in 1 .. N
        BY <1>1, <3>2
      <4>2. h[i - 1] = g[i - 1]
        BY <4>1
      <4> HIDE DEF h, step, S, N
      <4> QED
        BY <1>4, <4>2
    <3> HIDE DEF step, S, N
    <3> QED
      BY <3>1, <3>2
  <2>2. flatten = [i \in 1 .. N |-> IF i = 1 THEN args[i] ELSE flatten[i - 1] \o args[i]]
    <3> HIDE DEF h
    <3> QED
      BY <2>1
  <2>3. FlattenSeq(args) = flatten[N]
    BY <1>6 DEF FlattenSeq
  <2> DEFINE T == {i \in 0 .. N : i = 0 \/ flatten[i] = g[i]}
  <2>4. 0 \in T
    BY <1>1
  <2>5. ASSUME NEW i \in 0 .. N, i # N, i \in T
        PROVE  i + 1 \in T
    <3>1. i + 1 \in 1 .. N /\ (i + 1) - 1 = i /\ (i + 1 = 1 <=> i = 0)
      BY <1>1, <2>5
    <3>2. flatten[i + 1] = IF i = 0 THEN args[i + 1] ELSE flatten[i] \o args[i + 1]
      <4> HIDE DEF flatten, N
      <4> QED
        BY <2>2, <3>1
    <3>3. g[i + 1] = g[i] \o args[i + 1]
      <4> HIDE DEF step, N, S
      <4> QED
        BY <1>4, <3>1
    <3>4. i = 0 => g[i + 1] = args[i + 1]
      <4> HIDE DEF step
      <4> QED
        BY <1>1, <1>4, <3>1, <3>3, ConcatEmptySeq
    <3>5. i = 0 \/ flatten[i] = g[i]
      BY <2>5
    <3>6. flatten[i + 1] = g[i + 1]
      <4> HIDE DEF flatten, step, N, S
      <4> QED
        BY <3>2, <3>3, <3>4, <3>5
    <3> HIDE DEF flatten, step
    <3> QED
      BY <1>1, <3>1, <3>6
  <2>6. 0 .. N \subseteq T
    <3> HIDE DEF T
    <3> QED
      BY <1>1, <2>4, <2>5, UpTo
  <2>7. flatten[N] = g[N]
    <3>1. N \in 0 .. N
      BY <1>1
    <3> HIDE DEF flatten, step, S, N
    <3> QED
      BY <1>6, <2>6, <3>1
  <2> HIDE DEF flatten, step
  <2> QED
    BY <1>3, <1>4, <2>3, <2>7
<1> QED
  BY <1>5, <1>6

LEMMA FlattenStays ==
    ASSUME NEW P, NEW C \in SUBSET Seq(P), <<>> \in C, NEW args \in Seq(C),
           \A x \in C : \A y \in C : x \o y \in C
    PROVE  FlattenSeq(args) \in C
<1>1. args \in Seq(Seq(P)) /\ Len(args) \in Nat /\ \A i \in 1 .. Len(args) : args[i] \in C
  OBVIOUS
<1>2. PICK g \in [0 .. Len(args) -> Seq(P)] :
             /\ g[0] = <<>>
             /\ \A i \in 1 .. Len(args) : g[i] = g[i - 1] \o args[i]
             /\ FlattenSeq(args) = g[Len(args)]
  BY <1>1, FlattenSteps
<1> DEFINE T == {i \in 0 .. Len(args) : g[i] \in C}
<1>3. 0 \in T
  BY <1>1, <1>2
<1>4. ASSUME NEW i \in 0 .. Len(args), i # Len(args), i \in T
      PROVE  i + 1 \in T
  <2>1. i + 1 \in 1 .. Len(args) /\ (i + 1) - 1 = i
    BY <1>1, <1>4
  <2>2. g[i + 1] = g[i] \o args[i + 1]
    BY <1>2, <2>1
  <2>3. g[i] \in C /\ args[i + 1] \in C
    BY <1>1, <1>4, <2>1
  <2>4. g[i + 1] \in C
    BY <2>2, <2>3
  <2> QED
    BY <1>1, <2>1, <2>4
<1>5. 0 .. Len(args) \subseteq T
  <2> HIDE DEF T
  <2> QED
    BY <1>1, <1>3, <1>4, UpTo
<1> QED
  BY <1>1, <1>2, <1>5

-----------------------------------------------------------------------------
(* What replace does. *)

\* The pieces that mean something to replace.
HasMarks(P) == Slot \in P /\ Dollar \in P

NoSlot(t) == \A i \in 1 .. Len(t) : t[i] # Slot
Bare(t) == \A i \in 1 .. Len(t) : t[i] # Slot /\ t[i] # Dollar

\* How three texts are bracketed makes no difference.
Bracketed(u, v, w) == u \o (v \o w) = (u \o v) \o w

LEMMA BracketedTexts ==
    ASSUME NEW P, NEW u \in Seq(P), NEW v \in Seq(P), NEW w \in Seq(P)
    PROVE  Bracketed(u, v, w)
BY ConcatAssociative DEF Bracketed

LEMMA BareIsNoSlot ==
    ASSUME NEW t, Bare(t)
    PROVE  NoSlot(t)
BY DEF Bare, NoSlot

LEMMA BareConcat ==
    ASSUME NEW P, NEW u \in Seq(P), NEW v \in Seq(P)
    PROVE  /\ Bare(u) /\ Bare(v) => Bare(u \o v)
           /\ NoSlot(u) /\ NoSlot(v) => NoSlot(u \o v)
<1> DEFINE t == u \o v
           lu == Len(u)
           lv == Len(v)
<1>1. /\ lu \in Nat /\ lv \in Nat /\ Len(t) = lu + lv
      /\ \A i \in 1 .. lu : t[i] = u[i]
      /\ \A i \in 1 .. lv : t[lu + i] = v[i]
  OBVIOUS
<1> HIDE DEF t, lu, lv
<1>2. ASSUME NEW i \in 1 .. Len(t)
      PROVE  (\E j \in 1 .. lu : t[i] = u[j]) \/ (\E j \in 1 .. lv : t[i] = v[j])
  <2>1. CASE i \in 1 .. lu
    BY <1>1, <2>1
  <2>2. CASE i \notin 1 .. lu
    <3>1. i - lu \in 1 .. lv /\ lu + (i - lu) = i
      BY <1>1, <2>2
    <3>2. t[i] = v[i - lu]
      BY <1>1, <3>1
    <3> QED
      BY <3>1, <3>2
  <2> QED
    BY <2>1, <2>2
<1>3. (Bare(u) /\ Bare(v) => Bare(t)) /\ (NoSlot(u) /\ NoSlot(v) => NoSlot(t))
  BY <1>2 DEF Bare, NoSlot, lu, lv
<1> QED
  BY <1>3 DEF t

LEMMA BareOne ==
    ASSUME NEW x
    PROVE  /\ x # Slot => NoSlot(<<x>>)
           /\ x # Slot /\ x # Dollar => Bare(<<x>>)
<1> HIDE DEF Slot, Dollar
<1> QED
  BY DEF Bare, NoSlot

\* Without a dollar nothing is expanded.
LEMMA ExpandBare ==
    ASSUME NEW t, NEW k, NEW arg, Bare(arg), Len(arg) \in Nat
    PROVE  Expand(t, k, arg) = arg
<1>1. \A i \in 1 .. Len(arg) - 1 : i \in 1 .. Len(arg)
  OBVIOUS
<1>2. Patterns(arg) = {}
  <2> HIDE DEF Dollar
  <2> QED
    BY <1>1 DEF Patterns, Bare
<1> QED
  BY <1>2 DEF Expand

\* The pieces an expansion is flattened from.
Parts(t, k, arg) ==
    [i \in 1 .. Len(arg) |->
        IF i - 1 \in Patterns(arg) THEN <<>>
        ELSE IF i \in Patterns(arg) THEN Replacement(t, k, arg[i + 1])
        ELSE <<arg[i]>>]

\* A pattern stands for a dollar, for a slot or for a part of the text around it.
LEMMA ReplacementIs ==
    ASSUME NEW t, NEW k, NEW arg, NEW i \in Patterns(arg)
    PROVE  /\ i \in 1 .. Len(arg) - 1
           /\ arg[i] = Dollar
           /\ Replacement(t, k, arg[i + 1]) \in
                {<<Dollar>>, <<Slot>>, SubSeq(t, k + 1, Len(t)), SubSeq(t, 1, k - 1)}
<1>1. i \in 1 .. Len(arg) - 1 /\ arg[i] = Dollar /\ arg[i + 1] \in Special
  BY DEF Patterns
<1> DEFINE x == arg[i + 1]
<1>2. /\ Piece("&") # Dollar /\ Piece("'") # Dollar /\ Piece("backquote") # Dollar
      /\ Piece("'") # Piece("&") /\ Piece("backquote") # Piece("&")
      /\ Piece("backquote") # Piece("'")
  BY DEF Piece, Dollar
<1> HIDE DEF x, Piece, Dollar, Slot
<1>3. x \in {Dollar, Piece("&"), Piece("'"), Piece("backquote")}
  BY <1>1 DEF Special, x
<1>4. /\ x = Dollar => Replacement(t, k, x) = <<Dollar>>
      /\ x = Piece("&") => Replacement(t, k, x) = <<Slot>>
      /\ x = Piece("'") => Replacement(t, k, x) = SubSeq(t, k + 1, Len(t))
      /\ x = Piece("backquote") => Replacement(t, k, x) = SubSeq(t, 1, k - 1)
  BY <1>2 DEF Replacement
<1>5. Replacement(t, k, x) \in
        {<<Dollar>>, <<Slot>>, SubSeq(t, k + 1, Len(t)), SubSeq(t, 1, k - 1)}
  BY <1>3, <1>4
<1> QED
  BY <1>1, <1>5 DEF x

LEMMA PartsType ==
    ASSUME NEW P, HasMarks(P), NEW t \in Seq(P), NEW arg \in Seq(P),
           NEW k \in 1 .. Len(t)
    PROVE  Parts(t, k, arg) \in Seq(Seq(P)) /\ Len(Parts(t, k, arg)) = Len(arg)
<1> DEFINE f == Parts(t, k, arg)
           n == Len(arg)
<1>1. n \in Nat /\ (\A i \in 1 .. n : arg[i] \in P) /\ Slot \in P /\ Dollar \in P
  BY DEF HasMarks
<1>2. /\ <<>> \in Seq(P) /\ SubSeq(t, k + 1, Len(t)) \in Seq(P)
      /\ SubSeq(t, 1, k - 1) \in Seq(P)
  OBVIOUS
<1>3. \A x \in P : <<x>> \in Seq(P)
  OBVIOUS
<1>4. \A i \in Patterns(arg) : Replacement(t, k, arg[i + 1]) \in Seq(P)
  <2> HIDE DEF Slot, Dollar, n
  <2> QED
    BY <1>1, <1>2, <1>3, ReplacementIs
<1>5. f = [i \in 1 .. n |->
            IF i - 1 \in Patterns(arg) THEN <<>>
            ELSE IF i \in Patterns(arg) THEN Replacement(t, k, arg[i + 1])
            ELSE <<arg[i]>>]
  BY DEF Parts
<1> HIDE DEF f, n, Slot, Dollar
<1>6. f \in [1 .. n -> Seq(P)]
  BY <1>1, <1>2, <1>3, <1>4, <1>5
<1>7. f \in Seq(Seq(P)) /\ Len(f) = n
  <2> DEFINE S == Seq(P)
  <2> HIDE DEF S
  <2>1. \A N \in Nat : \A g \in [1 .. N -> S] : g \in Seq(S) /\ Len(g) = N
    OBVIOUS
  <2> QED
    BY <1>1, <1>6, <2>1 DEF S
<1> QED
  BY <1>7 DEF f, n

LEMMA ExpandType ==
    ASSUME NEW P, HasMarks(P), NEW t \in Seq(P), NEW arg \in Seq(P),
           NEW k \in 1 .. Len(t)
    PROVE  Expand(t, k, arg) \in Seq(P)
<1> DEFINE C == Seq(P)
<1>1. Parts(t, k, arg) \in Seq(C)
  BY PartsType
<1>2. <<>> \in C /\ C \in SUBSET Seq(P) /\ \A x \in C : \A y \in C : x \o y \in C
  OBVIOUS
<1>3. FlattenSeq(Parts(t, k, arg)) \in C
  <2> HIDE DEF C
  <2> QED
    BY <1>1, <1>2, FlattenStays
<1>4. Expand(t, k, arg) = IF Patterns(arg) = {} THEN arg ELSE FlattenSeq(Parts(t, k, arg))
  BY DEF Expand, Parts
<1> QED
  BY <1>3, <1>4

\* The first slot of a text is the one that is filled.
LEMMA FillAt ==
    ASSUME NEW P, NEW t \in Seq(P), NEW arg, NEW k \in 1 .. Len(t), t[k] = Slot,
           \A i \in 1 .. k - 1 : t[i] # Slot
    PROVE  Fill(t, arg) = SubSeq(t, 1, k - 1) \o Expand(t, k, arg)
                          \o SubSeq(t, k + 1, Len(t))
<1> DEFINE I == {i \in 1 .. Len(t) : t[i] = Slot}
<1>1. k \in I /\ \A i \in I : k <= i
  OBVIOUS
<1>2. Min(I) = k
  <2>1. Min(I) \in I /\ \A i \in I : Min(I) <= i
    <3> HIDE DEF I
    <3> QED
      BY <1>1 DEF Min
  <2> QED
    BY <1>1, <2>1
<1>3. SelectInSeq(t, LAMBDA x : x = Slot) = IF I # {} THEN Min(I) ELSE 0
  BY DEF SelectInSeq
<1>4. SelectInSeq(t, LAMBDA x : x = Slot) = k
  <2> HIDE DEF I
  <2> QED
    BY <1>1, <1>2, <1>3
<1>5. k # 0
  OBVIOUS
<1> QED
  BY <1>4, <1>5 DEF Fill

LEMMA FillNone ==
    ASSUME NEW t, NEW arg, NoSlot(t)
    PROVE  Fill(t, arg) = t
<1>1. {i \in 1 .. Len(t) : t[i] = Slot} = {}
  BY DEF NoSlot
<1>2. SelectInSeq(t, LAMBDA x : x = Slot) = 0
  BY <1>1 DEF SelectInSeq
<1> QED
  BY <1>2 DEF Fill

\* A text has a first slot or none.
LEMMA FirstSlot ==
    ASSUME NEW P, NEW t \in Seq(P), ~NoSlot(t)
    PROVE  \E k \in 1 .. Len(t) : t[k] = Slot /\ \A i \in 1 .. k - 1 : t[i] # Slot
<1> DEFINE I == {i \in 1 .. Len(t) : t[i] = Slot}
<1>1. I \in SUBSET Nat /\ I # {}
  BY DEF NoSlot
<1>2. PICK k \in I : \A i \in I : k <= i
  <2> HIDE DEF I
  <2> QED
    BY <1>1, LeastNat
<1>3. \A i \in 1 .. k - 1 : t[i] # Slot
  BY <1>2
<1> QED
  BY <1>2, <1>3

LEMMA FillSplit ==
    ASSUME NEW P, NEW u \in Seq(P), NEW v \in Seq(P), NEW arg \in Seq(P), Slot \in P,
           NoSlot(u), Bare(arg)
    PROVE  Fill(u \o <<Slot>> \o v, arg) = u \o arg \o v
<1> DEFINE t == u \o <<Slot>> \o v
           k == Len(u) + 1
<1> HIDE DEF Slot
<1>1. t \in Seq(P) /\ Len(t) = k + Len(v)
  OBVIOUS
<1>2. /\ \A i \in 1 .. Len(u) : t[i] = u[i]
      /\ t[k] = Slot
      /\ \A i \in 1 .. Len(v) : t[k + i] = v[i]
  OBVIOUS
<1>3. SubSeq(t, 1, k - 1) = u
  <2> HIDE DEF t
  <2> QED
    BY <1>1, <1>2, SubSeqProperties, SeqEqual
<1>4. SubSeq(t, k + 1, Len(t)) = v
  <2> HIDE DEF t
  <2> QED
    BY <1>1, <1>2, SubSeqProperties, SeqEqual
<1>5. Fill(t, arg) = SubSeq(t, 1, k - 1) \o arg \o SubSeq(t, k + 1, Len(t))
  <2>1. /\ k \in 1 .. Len(t)
        /\ \A i \in 1 .. k - 1 : t[i] # Slot
    BY <1>1, <1>2 DEF NoSlot
  <2>2. Len(arg) \in Nat
    OBVIOUS
  <2> HIDE DEF t, k
  <2>3. Expand(t, k, arg) = arg
    BY <2>2, ExpandBare
  <2> QED
    BY <1>1, <1>2, <2>1, <2>3, FillAt
<1> QED
  BY <1>3, <1>4, <1>5

LEMMA FillType ==
    ASSUME NEW P, HasMarks(P), NEW t \in Seq(P), NEW arg \in Seq(P)
    PROVE  Fill(t, arg) \in Seq(P)
<1> HIDE DEF Slot, Dollar
<1>1. CASE NoSlot(t)
  BY <1>1, FillNone
<1>2. CASE ~NoSlot(t)
  <2>1. PICK k \in 1 .. Len(t) : t[k] = Slot /\ \A i \in 1 .. k - 1 : t[i] # Slot
    BY <1>2, FirstSlot
  <2>2. Fill(t, arg) = SubSeq(t, 1, k - 1) \o Expand(t, k, arg) \o SubSeq(t, k + 1, Len(t))
    BY <2>1, FillAt
  <2>3. Expand(t, k, arg) \in Seq(P)
    BY ExpandType
  <2> QED
    BY <2>2, <2>3
<1> QED
  BY <1>1, <1>2

-----------------------------------------------------------------------------
(* What a chain of replacements does. *)

\* The texts FillAll goes through, as a function.
Chain(g, t, args) ==
    /\ g[0] = t
    /\ \A i \in 1 .. Len(args) : g[i] = Fill(g[i - 1], args[i])
    /\ FillAll(t, args) = g[Len(args)]

LEMMA FillAllSteps ==
    ASSUME NEW P, HasMarks(P), NEW t \in Seq(P), NEW args \in Seq(Seq(P))
    PROVE  \E g \in [0 .. Len(args) -> Seq(P)] : Chain(g, t, args)
<1> DEFINE N == Len(args)
           S == Seq(P)
           step == [i \in 1 .. N |-> [x \in S |-> Fill(x, args[i])]]
           filled[i \in 0 .. N] == IF i = 0 THEN t ELSE Fill(filled[i - 1], args[i])
<1>1. N \in Nat /\ t \in S /\ \A i \in 1 .. N : args[i] \in S
  OBVIOUS
<1>2. step \in [1 .. N -> [S -> S]]
  <2>1. \A i \in 1 .. N : \A x \in S : Fill(x, args[i]) \in S
    BY <1>1, FillType
  <2> HIDE DEF S, N
  <2> QED
    BY <2>1
<1>3. PICK g \in [0 .. N -> S] : Obeys(g, t, step, N)
  <2> HIDE DEF step, S, N
  <2> QED
    BY <1>1, <1>2, Recursion
<1>4. /\ g[0] = t
      /\ \A i \in 1 .. N : g[i] = Fill(g[i - 1], args[i])
  <2>1. \A i \in 1 .. N : step[i] = [x \in S |-> Fill(x, args[i])]
    OBVIOUS
  <2>2. \A i \in 1 .. N : i - 1 \in 0 .. N
    BY <1>1
  <2> HIDE DEF step, S, N
  <2> QED
    BY <1>3, <2>1, <2>2 DEF Obeys
<1>5. g = [i \in 0 .. N |-> IF i = 0 THEN t ELSE Fill(g[i - 1], args[i])]
  <2>1. \A i \in 0 .. N : i = 0 \/ i \in 1 .. N
    BY <1>1
  <2> HIDE DEF step, S, N
  <2> QED
    BY <1>4, <2>1
<1>6. filled = [i \in 0 .. N |-> IF i = 0 THEN t ELSE Fill(filled[i - 1], args[i])]
  BY <1>5
<1>7. FillAll(t, args) = filled[N]
  BY DEF FillAll
<1>8. /\ filled[0] = t
      /\ \A i \in 1 .. N : filled[i] = Fill(filled[i - 1], args[i])
  <2>1. 0 \in 0 .. N /\ \A i \in 1 .. N : i \in 0 .. N /\ i # 0
    BY <1>1
  <2> HIDE DEF filled, N
  <2> QED
    BY <1>6, <2>1
<1>9. filled \in [0 .. N -> S]
  <2> DEFINE T == {i \in 0 .. N : filled[i] \in S}
  <2>1. 0 \in T
    BY <1>1, <1>8
  <2>2. ASSUME NEW i \in 0 .. N, i # N, i \in T
        PROVE  i + 1 \in T
    <3>1. i + 1 \in 1 .. N /\ (i + 1) - 1 = i
      BY <1>1, <2>2
    <3>2. filled[i + 1] = Fill(filled[i], args[i + 1])
      <4> HIDE DEF filled, N
      <4> QED
        BY <1>8, <3>1
    <3>3. filled[i] \in S
      BY <2>2
    <3>4. filled[i + 1] \in S
      <4> HIDE DEF filled, N
      <4> QED
        BY <1>1, <3>1, <3>2, <3>3, FillType
    <3> HIDE DEF filled
    <3> QED
      BY <1>1, <3>1, <3>4
  <2>3. 0 .. N \subseteq T
    <3> HIDE DEF T
    <3> QED
      BY <1>1, <2>1, <2>2, UpTo
  <2>4. DOMAIN filled = 0 .. N
    <3> HIDE DEF filled
    <3> QED
      BY <1>6
  <2> HIDE DEF filled, S, N
  <2> QED
    BY <1>6, <2>3, <2>4
<1>10. Chain(filled, t, args)
  <2> HIDE DEF filled
  <2> QED
    BY <1>7, <1>8 DEF Chain
<1> HIDE DEF filled, S, N
<1> QED
  BY <1>9, <1>10 DEF S, N

\* A set of texts that filling does not leave, FillAll does not leave.
LEMMA FillAllStays ==
    ASSUME NEW P, HasMarks(P), NEW C \in SUBSET Seq(P), NEW t \in C, NEW args \in Seq(C),
           \A x \in C : \A y \in C : Fill(x, y) \in C
    PROVE  FillAll(t, args) \in C
<1>1. args \in Seq(Seq(P)) /\ Len(args) \in Nat /\ \A i \in 1 .. Len(args) : args[i] \in C
  OBVIOUS
<1>2. PICK g \in [0 .. Len(args) -> Seq(P)] :
             /\ g[0] = t
             /\ \A i \in 1 .. Len(args) : g[i] = Fill(g[i - 1], args[i])
             /\ FillAll(t, args) = g[Len(args)]
  <2>1. \E g \in [0 .. Len(args) -> Seq(P)] : Chain(g, t, args)
    BY <1>1, FillAllSteps
  <2> QED
    BY <2>1 DEF Chain
<1> DEFINE T == {i \in 0 .. Len(args) : g[i] \in C}
<1>3. 0 \in T
  BY <1>1, <1>2
<1>4. ASSUME NEW i \in 0 .. Len(args), i # Len(args), i \in T
      PROVE  i + 1 \in T
  <2>1. i + 1 \in 1 .. Len(args) /\ (i + 1) - 1 = i
    BY <1>1, <1>4
  <2>2. g[i + 1] = Fill(g[i], args[i + 1])
    BY <1>2, <2>1
  <2> QED
    BY <1>1, <1>4, <2>1, <2>2
<1>5. 0 .. Len(args) \subseteq T
  <2> HIDE DEF T
  <2> QED
    BY <1>1, <1>3, <1>4, UpTo
<1> QED
  BY <1>1, <1>2, <1>5

\* As many slots as there are texts to fill in, after a text without any: the
\* texts follow each other in their order.
LEMMA SlotsFilled ==
    ASSUME NEW P, HasMarks(P), NEW pre \in Seq(P), NoSlot(pre),
           NEW args \in Seq(Seq(P)),
           \A i \in 1 .. Len(args) : Bare(args[i])
    PROVE  /\ FillAll(pre \o Slots(Len(args)), args) = pre \o FlattenSeq(args)
           /\ Bare(FlattenSeq(args))
           /\ FlattenSeq(args) \in Seq(P)
<1>0. Slot \in P
  BY DEF HasMarks
<1> USE <1>0
<1> DEFINE N == Len(args)
           t == pre \o Slots(N)
<1>1. N \in Nat /\ \A i \in 1 .. N : args[i] \in Seq(P)
  OBVIOUS
<1>2. \A m \in Nat : /\ Slots(m) \in Seq(P)
                      /\ Len(Slots(m)) = m
                      /\ \A i \in 1 .. m : Slots(m)[i] = Slot
  BY DEF Slots
<1>3. \A m \in Nat : m # 0 => Slots(m) = <<Slot>> \o Slots(m - 1)
  <2> SUFFICES ASSUME NEW m \in Nat, m # 0
               PROVE  Slots(m) = <<Slot>> \o Slots(m - 1)
    OBVIOUS
  <2> DEFINE u == Slots(m)
             v == Slots(m - 1)
  <2>1. /\ m - 1 \in Nat /\ u \in Seq(P) /\ v \in Seq(P)
        /\ Len(u) = m /\ Len(v) = m - 1
        /\ \A i \in 1 .. m : u[i] = Slot
        /\ \A i \in 1 .. m - 1 : v[i] = Slot
    BY <1>2
  <2> HIDE DEF u, v, Slot
  <2>2. /\ <<Slot>> \o v \in Seq(P) /\ Len(<<Slot>> \o v) = m
        /\ \A i \in 1 .. m : (<<Slot>> \o v)[i] = Slot
    BY <2>1
  <2>3. u = <<Slot>> \o v
    BY <2>1, <2>2, SeqEqual
  <2> QED
    BY <2>3 DEF u, v
<1>4. t \in Seq(P)
  BY <1>1, <1>2
<1>5. PICK g \in [0 .. N -> Seq(P)] :
             /\ g[0] = t
             /\ \A i \in 1 .. N : g[i] = Fill(g[i - 1], args[i])
             /\ FillAll(t, args) = g[N]
  <2> HIDE DEF t
  <2>1. \E g \in [0 .. Len(args) -> Seq(P)] : Chain(g, t, args)
    BY <1>4, FillAllSteps
  <2> QED
    BY <2>1 DEF Chain
<1>6. PICK f \in [0 .. N -> Seq(P)] :
             /\ f[0] = <<>>
             /\ \A i \in 1 .. N : f[i] = f[i - 1] \o args[i]
             /\ FlattenSeq(args) = f[N]
  BY FlattenSteps
<1> DEFINE T == {i \in 0 .. N : g[i] = pre \o f[i] \o Slots(N - i) /\ Bare(f[i])}
<1>7. 0 \in T
  <2>1. pre \o <<>> = pre /\ N - 0 = N
    BY <1>1, ConcatEmptySeq
  <2>2. Bare(<<>>)
    BY DEF Bare
  <2>3. 0 \in 0 .. N
    BY <1>1
  <2>4. g[0] = pre \o f[0] \o Slots(N - 0)
    BY <1>5, <1>6, <2>1
  <2> HIDE DEF t, N
  <2> QED
    BY <1>6, <2>2, <2>3, <2>4
<1>8. ASSUME NEW i \in 0 .. N, i # N, i \in T
      PROVE  i + 1 \in T
  <2>1. /\ i + 1 \in 1 .. N /\ i + 1 \in 0 .. N /\ (i + 1) - 1 = i
        /\ N - i \in Nat /\ N - i # 0 /\ (N - i) - 1 = N - (i + 1) /\ N - (i + 1) \in Nat
    BY <1>1, <1>8
  <2> DEFINE r == Slots(N - (i + 1))
             a == args[i + 1]
             u == pre \o f[i]
  <2>2. r \in Seq(P) /\ a \in Seq(P) /\ u \in Seq(P) /\ f[i] \in Seq(P) /\ Bare(a)
    <3>1. r \in Seq(P)
      <4> DEFINE m == N - (i + 1)
      <4>1. m \in Nat
        BY <2>1
      <4> HIDE DEF m
      <4> QED
        BY <1>2, <4>1 DEF m
    <3>2. a \in Seq(P) /\ Bare(a)
      BY <1>1, <2>1
    <3>3. f[i] \in Seq(P)
      BY <1>6
    <3>4. u \in Seq(P)
      BY <3>3
    <3> QED
      BY <3>1, <3>2, <3>3, <3>4
  <2>3. NoSlot(u)
    BY <1>8, <2>2, BareIsNoSlot, BareConcat
  <2>4. g[i] = u \o <<Slot>> \o r
    <3>1. g[i] = u \o Slots(N - i)
      BY <1>8
    <3>2. Slots(N - i) = <<Slot>> \o r
      BY <1>3, <2>1
    <3>3. <<Slot>> \in Seq(P)
      OBVIOUS
    <3>4. u \o (<<Slot>> \o r) = (u \o <<Slot>>) \o r
      <4> DEFINE one == <<Slot>>
      <4>0. one \in Seq(P)
        BY <3>3
      <4> HIDE DEF r, u, one
      <4>1. Bracketed(u, one, r)
        BY <2>2, <4>0, BracketedTexts
      <4> QED
        BY <4>1 DEF Bracketed, one
    <3> HIDE DEF r, u
    <3> QED
      BY <3>1, <3>2, <3>4
  <2>5. g[i + 1] = u \o a \o r
    <3>1. g[i + 1] = Fill(g[i], a)
      BY <1>5, <2>1
    <3>2. Fill(u \o <<Slot>> \o r, a) = u \o a \o r
      <4> HIDE DEF r, u, a, Slot
      <4> QED
        BY <2>2, <2>3, FillSplit
    <3> HIDE DEF r, u, a
    <3> QED
      BY <2>4, <3>1, <3>2
  <2>6. f[i + 1] = f[i] \o a
    BY <1>6, <2>1
  <2>7. u \o a = pre \o f[i + 1]
    <3>1. (pre \o f[i]) \o a = pre \o (f[i] \o a)
      <4> HIDE DEF a
      <4> QED
        BY <2>2, ConcatAssociative
    <3> QED
      BY <2>6, <3>1
  <2>8. Bare(f[i + 1])
    <3>1. Bare(f[i])
      BY <1>8
    <3> HIDE DEF a
    <3> QED
      BY <2>2, <2>6, <3>1, BareConcat
  <2>9. g[i + 1] = pre \o f[i + 1] \o Slots(N - (i + 1))
    BY <2>5, <2>7
  <2> HIDE DEF N
  <2> QED
    BY <2>1, <2>8, <2>9
<1>9. 0 .. N \subseteq T
  <2> HIDE DEF T, N
  <2> QED
    BY <1>1, <1>7, <1>8, UpTo
<1>10. g[N] = pre \o f[N] \o Slots(0) /\ Bare(f[N])
  <2>1. N \in 0 .. N /\ N - N = 0
    BY <1>1
  <2> HIDE DEF N
  <2> QED
    BY <1>9, <2>1
<1>11. Slots(0) = <<>>
  BY <1>2
<1>12. pre \o f[N] \in Seq(P) /\ f[N] \in Seq(P)
  BY <1>1, <1>6
<1>13. g[N] = pre \o f[N]
  <2> HIDE DEF N
  <2> QED
    BY <1>10, <1>11, <1>12, ConcatEmptySeq
<1> QED
  BY <1>5, <1>6, <1>10, <1>12, <1>13

-----------------------------------------------------------------------------
(* What the templates become. *)

LEMMA FillTwo ==
    ASSUME NEW P, HasMarks(P), NEW t \in Seq(P),
           NEW x \in Seq(P), NEW y \in Seq(P)
    PROVE  FillAll(t, <<x, y>>) = Fill(Fill(t, x), y)
<1> DEFINE args == <<x, y>>
<1>1. args \in Seq(Seq(P))
  OBVIOUS
<1>2. Len(args) = 2 /\ args[1] = x /\ args[2] = y
  OBVIOUS
<1> HIDE DEF args
<1>3. PICK g \in [0 .. Len(args) -> Seq(P)] :
             /\ g[0] = t
             /\ \A i \in 1 .. Len(args) : g[i] = Fill(g[i - 1], args[i])
             /\ FillAll(t, args) = g[Len(args)]
  <2>1. \E g \in [0 .. Len(args) -> Seq(P)] : Chain(g, t, args)
    BY <1>1, FillAllSteps
  <2> QED
    BY <2>1 DEF Chain
<1>4. FillAll(t, args) = Fill(Fill(t, x), y)
  <2>1. /\ 1 \in 1 .. Len(args) /\ 2 \in 1 .. Len(args)
        /\ 1 - 1 = 0 /\ 2 - 1 = 1
    BY <1>2
  <2>2. /\ g[1] = Fill(g[1 - 1], args[1])
        /\ g[2] = Fill(g[2 - 1], args[2])
    BY <1>3, <2>1
  <2>3. g[0] = t /\ FillAll(t, args) = g[2]
    BY <1>2, <1>3
  <2> QED
    BY <1>2, <2>1, <2>2, <2>3
<1> QED
  BY <1>4 DEF args

LEMMA FillThree ==
    ASSUME NEW P, HasMarks(P), NEW t \in Seq(P),
           NEW x \in Seq(P), NEW y \in Seq(P), NEW z \in Seq(P)
    PROVE  FillAll(t, <<x, y, z>>) = Fill(Fill(Fill(t, x), y), z)
<1> DEFINE args == <<x, y, z>>
<1>1. args \in Seq(Seq(P))
  OBVIOUS
<1>2. Len(args) = 3 /\ args[1] = x /\ args[2] = y /\ args[3] = z
  OBVIOUS
<1> HIDE DEF args
<1>3. PICK g \in [0 .. Len(args) -> Seq(P)] :
             /\ g[0] = t
             /\ \A i \in 1 .. Len(args) : g[i] = Fill(g[i - 1], args[i])
             /\ FillAll(t, args) = g[Len(args)]
  <2>1. \E g \in [0 .. Len(args) -> Seq(P)] : Chain(g, t, args)
    BY <1>1, FillAllSteps
  <2> QED
    BY <2>1 DEF Chain
<1>4. FillAll(t, args) = Fill(Fill(Fill(t, x), y), z)
  <2>1. /\ 1 \in 1 .. Len(args) /\ 2 \in 1 .. Len(args) /\ 3 \in 1 .. Len(args)
        /\ 1 - 1 = 0 /\ 2 - 1 = 1 /\ 3 - 1 = 2
    BY <1>2
  <2>2. /\ g[1] = Fill(g[1 - 1], args[1])
        /\ g[2] = Fill(g[2 - 1], args[2])
        /\ g[3] = Fill(g[3 - 1], args[3])
    BY <1>3, <2>1
  <2>3. g[0] = t /\ FillAll(t, args) = g[3]
    BY <1>2, <1>3
  <2> QED
    BY <1>2, <2>1, <2>2, <2>3
<1> QED
  BY <1>4 DEF args

LEMMA FourSteps ==
    ASSUME NEW P, HasMarks(P), NEW t \in Seq(P), NEW args \in Seq(Seq(P))
    PROVE  Len(args) = 4 =>
             FillAll(t, args) = Fill(Fill(Fill(Fill(t, args[1]), args[2]), args[3]), args[4])
<1>1. PICK g \in [0 .. Len(args) -> Seq(P)] :
             /\ g[0] = t
             /\ \A i \in 1 .. Len(args) : g[i] = Fill(g[i - 1], args[i])
             /\ FillAll(t, args) = g[Len(args)]
  <2>1. \E g \in [0 .. Len(args) -> Seq(P)] : Chain(g, t, args)
    BY FillAllSteps
  <2> QED
    BY <2>1 DEF Chain
<1> HAVE Len(args) = 4
<1>2. /\ 1 \in 1 .. Len(args) /\ 2 \in 1 .. Len(args)
      /\ 3 \in 1 .. Len(args) /\ 4 \in 1 .. Len(args)
      /\ 1 - 1 = 0 /\ 2 - 1 = 1 /\ 3 - 1 = 2 /\ 4 - 1 = 3
  OBVIOUS
<1>3. /\ g[1] = Fill(g[1 - 1], args[1])
      /\ g[2] = Fill(g[2 - 1], args[2])
      /\ g[3] = Fill(g[3 - 1], args[3])
      /\ g[4] = Fill(g[4 - 1], args[4])
  BY <1>1, <1>2
<1>4. g[0] = t /\ FillAll(t, args) = g[4]
  BY <1>1
<1> QED
  BY <1>2, <1>3, <1>4

LEMMA FillFour ==
    ASSUME NEW P, HasMarks(P), NEW t \in Seq(P), NEW w \in Seq(P), NEW x \in Seq(P),
           NEW y \in Seq(P), NEW z \in Seq(P)
    PROVE  FillAll(t, <<w, x, y, z>>) = Fill(Fill(Fill(Fill(t, w), x), y), z)
<1> DEFINE args == <<w, x, y, z>>
<1>1. args \in Seq(Seq(P))
  OBVIOUS
<1>2. Len(args) = 4
  OBVIOUS
<1>3. args[1] = w /\ args[2] = x /\ args[3] = y /\ args[4] = z
  OBVIOUS
<1> HIDE DEF args
<1>4. FillAll(t, args) = Fill(Fill(Fill(Fill(t, args[1]), args[2]), args[3]), args[4])
  BY <1>1, <1>2, FourSteps
<1>5. FillAll(t, args) = Fill(Fill(Fill(Fill(t, w), x), y), z)
  BY <1>3, <1>4
<1> QED
  BY <1>5 DEF args

\* What is left of a template: a stretch, the slot after it, and the rest.
Ahead(b, v) == <<b, Slot>> \o v

\* A text put between two others.
Around(u, arg, v) == u \o arg \o v

LEMMA FillHere ==
    ASSUME NEW P, HasMarks(P), NEW u \in Seq(P), NoSlot(u),
           NEW v \in Seq(P), NEW arg \in Seq(P), Bare(arg)
    PROVE  Fill(Around(u, <<Slot>>, v), arg) = Around(u, arg, v)
<1>0. Slot \in P
  BY DEF HasMarks
<1> USE <1>0
<1> HIDE DEF Slot
<1> QED
  BY FillSplit DEF Around

\* What filling the slot after the stretch b makes of a text.
FillsNext(u, b, v, arg) == Fill(u \o Ahead(b, v), arg) = Around(u \o <<b>>, arg, v)

LEMMA FillNext ==
    ASSUME NEW P, HasMarks(P), NEW u \in Seq(P), NoSlot(u),
           NEW b \in P, b # Slot, NEW v \in Seq(P), NEW arg \in Seq(P), Bare(arg)
    PROVE  FillsNext(u, b, v, arg)
<1>0. Slot \in P
  BY DEF HasMarks
<1> USE <1>0
<1> HIDE DEF Slot
<1> DEFINE w == u \o <<b>>
<1>1. w \in Seq(P) /\ NoSlot(w)
  BY DEF NoSlot
<1>2. u \o Ahead(b, v) = w \o <<Slot>> \o v
  BY DEF Ahead
<1>3. Fill(w \o <<Slot>> \o v, arg) = w \o arg \o v
  <2> HIDE DEF w
  <2> QED
    BY <1>1, FillSplit
<1> QED
  BY <1>2, <1>3 DEF Around, FillsNext

LEMMA FillFirst ==
    ASSUME NEW P, HasMarks(P), NEW b \in P, b # Slot, NEW v \in Seq(P),
           NEW arg \in Seq(P), Bare(arg)
    PROVE  FillsNext(<<>>, b, v, arg)
<1> DEFINE u == <<>>
<1>1. u \in Seq(P) /\ NoSlot(u)
  BY DEF NoSlot
<1> HIDE DEF u
<1>2. FillsNext(u, b, v, arg)
  BY <1>1, FillNext
<1> QED
  BY <1>2 DEF u

\* A text with a stretch and another text after it.
LEMMA NoSlotAfter ==
    ASSUME NEW P, NEW u \in Seq(P), NEW b \in P, b # Slot, NEW x \in Seq(P),
           NoSlot(u), Bare(x)
    PROVE  NoSlot(u \o <<b>> \o x) /\ NoSlot(<<b>> \o x)
<1> DEFINE one == <<b>>
<1>1. one \in Seq(P) /\ NoSlot(one) /\ NoSlot(x)
  BY BareOne, BareIsNoSlot
<1> HIDE DEF one
<1>2. u \o one \in Seq(P)
  BY <1>1
<1>3. NoSlot(u \o one)
  BY <1>1, BareConcat
<1>4. NoSlot((u \o one) \o x) /\ NoSlot(one \o x)
  BY <1>1, <1>2, <1>3, BareConcat
<1> QED
  BY <1>4 DEF one

\* Templates with two, three and four slots, and what becomes of them.
TwoTemplate(a, b, c) == <<a, Slot, b, Slot, c>>
TwoFilled(a, x, b, y, c) == <<a>> \o x \o <<b>> \o y \o <<c>>
ThreeTemplate(a, b, c, d) == <<a, Slot, b, Slot, c, Slot, d>>
ThreeFilled(a, x, b, y, c, z, d) ==
    <<a>> \o x \o <<b>> \o y \o <<c>> \o z \o <<d>>
FourTemplate(a, b, c, d) == <<a, Slot, b, Slot, Slot, c, Slot, d>>
FourFilled(a, w, b, x, y, c, z, d) ==
    <<a>> \o w \o <<b>> \o x \o y \o <<c>> \o z \o <<d>>

LEMMA TwoSlots ==
    ASSUME NEW P, HasMarks(P), NEW a \in P, NEW b \in P, NEW c \in P,
           a # Slot, b # Slot,
           NEW x \in Seq(P), NEW y \in Seq(P), Bare(x), Bare(y)
    PROVE  FillAll(TwoTemplate(a, b, c), <<x, y>>) = TwoFilled(a, x, b, y, c)
<1>0. Slot \in P
  BY DEF HasMarks
<1> USE <1>0
<1> HIDE DEF Slot
<1> DEFINE t == <<a, Slot, b, Slot, c>>
           v == <<b, Slot, c>>
           u == <<a>> \o x
<1>1. t \in Seq(P) /\ v \in Seq(P) /\ u \in Seq(P) /\ <<>> \in Seq(P) /\ <<c>> \in Seq(P)
  OBVIOUS
<1>2. t = <<>> \o Ahead(a, v) /\ v = Ahead(b, <<c>>) /\ <<>> \o <<a>> = <<a>>
  BY DEF Ahead
<1>3. NoSlot(<<>>) /\ NoSlot(u)
  <2>1. NoSlot(<<>>) /\ <<>> \in Seq(P)
    BY DEF NoSlot
  <2> QED
    BY <2>1, NoSlotAfter
<1> HIDE DEF t, v, u
<1>4. FillsNext(<<>>, a, v, x)
  BY <1>1, FillFirst
<1>5. FillsNext(u, b, <<c>>, y)
  BY <1>1, <1>3, FillNext
<1>6. Fill(t, x) = u \o v
  BY <1>2, <1>4 DEF u, Around, FillsNext
<1>7. Fill(u \o v, y) = u \o <<b>> \o y \o <<c>>
  BY <1>2, <1>5 DEF Around, FillsNext
<1>8. FillAll(t, <<x, y>>) = Fill(Fill(t, x), y)
  BY <1>1, FillTwo
<1> QED
  BY <1>6, <1>7, <1>8 DEF t, u, TwoTemplate, TwoFilled

ThreeFixed(P, a, b, c, d) ==
    /\ HasMarks(P)
    /\ a \in P /\ b \in P /\ c \in P /\ d \in P
    /\ a # Slot /\ b # Slot /\ c # Slot

LEMMA ThreeSlots ==
    ASSUME NEW P, NEW a, NEW b, NEW c, NEW d, ThreeFixed(P, a, b, c, d),
           NEW x \in Seq(P), NEW y \in Seq(P), NEW z \in Seq(P),
           Bare(x), Bare(y), Bare(z)
    PROVE  FillAll(ThreeTemplate(a, b, c, d), <<x, y, z>>)
             = ThreeFilled(a, x, b, y, c, z, d)
<1>0. /\ HasMarks(P) /\ Slot \in P
      /\ a \in P /\ b \in P /\ c \in P /\ d \in P
      /\ a # Slot /\ b # Slot /\ c # Slot
  BY DEF ThreeFixed, HasMarks
<1> USE <1>0
<1> HIDE DEF Slot
<1> DEFINE t == <<a, Slot, b, Slot, c, Slot, d>>
           v == <<b, Slot, c, Slot, d>>
           w == <<c, Slot, d>>
           u == <<a>> \o x
           r == u \o <<b>> \o y
<1>1. /\ t \in Seq(P) /\ v \in Seq(P) /\ w \in Seq(P) /\ u \in Seq(P) /\ r \in Seq(P)
      /\ <<>> \in Seq(P) /\ <<d>> \in Seq(P)
  OBVIOUS
<1>2. /\ t = <<>> \o Ahead(a, v) /\ <<>> \o <<a>> = <<a>>
      /\ v = Ahead(b, w) /\ w = Ahead(c, <<d>>)
  BY DEF Ahead
<1>3. NoSlot(<<>>) /\ NoSlot(u)
  <2>1. NoSlot(<<>>) /\ <<>> \in Seq(P)
    BY DEF NoSlot
  <2> QED
    BY <2>1, NoSlotAfter
<1>4. NoSlot(r)
  <2> HIDE DEF u
  <2> QED
    BY <1>1, <1>3, NoSlotAfter
<1> HIDE DEF t, u, v, w, r
<1>5. FillsNext(<<>>, a, v, x)
  BY <1>1, FillFirst
<1>6. FillsNext(u, b, w, y)
  BY <1>1, <1>3, FillNext
<1>7. FillsNext(r, c, <<d>>, z)
  BY <1>1, <1>4, FillNext
<1>8. Fill(t, x) = u \o v
  BY <1>2, <1>5 DEF u, Around, FillsNext
<1>9. Fill(u \o v, y) = r \o w
  BY <1>2, <1>6 DEF r, Around, FillsNext
<1>10. Fill(r \o w, z) = r \o <<c>> \o z \o <<d>>
  BY <1>2, <1>7 DEF Around, FillsNext
<1>11. FillAll(t, <<x, y, z>>) = Fill(Fill(Fill(t, x), y), z)
  BY <1>1, FillThree
<1> QED
  BY <1>8, <1>9, <1>10, <1>11 DEF t, u, r, ThreeTemplate, ThreeFilled

LEMMA FourSlots ==
    ASSUME NEW P, HasMarks(P), NEW a \in P, NEW b \in P, NEW c \in P, NEW d \in P,
           a # Slot, b # Slot, c # Slot,
           NEW w \in Seq(P), NEW x \in Seq(P), NEW y \in Seq(P), NEW z \in Seq(P),
           Bare(w), Bare(x), Bare(y), Bare(z)
    PROVE  FillAll(FourTemplate(a, b, c, d), <<w, x, y, z>>)
             = FourFilled(a, w, b, x, y, c, z, d)
<1>0. Slot \in P
  BY DEF HasMarks
<1> USE <1>0
<1> HIDE DEF Slot
<1> DEFINE t == <<a, Slot, b, Slot, Slot, c, Slot, d>>
           v1 == <<b, Slot, Slot, c, Slot, d>>
           v2 == <<Slot, c, Slot, d>>
           v3 == <<c, Slot, d>>
           u1 == <<a>> \o w
           u2 == u1 \o <<b>> \o x
           u3 == u2 \o y
<1>1. /\ t \in Seq(P) /\ v1 \in Seq(P) /\ v2 \in Seq(P) /\ v3 \in Seq(P)
      /\ u1 \in Seq(P) /\ u2 \in Seq(P) /\ u3 \in Seq(P)
      /\ <<>> \in Seq(P) /\ <<d>> \in Seq(P)
  OBVIOUS
<1>2. /\ t = <<>> \o Ahead(a, v1) /\ <<>> \o <<a>> = <<a>>
      /\ v1 = Ahead(b, v2) /\ v3 = Ahead(c, <<d>>)
  BY DEF Ahead
<1>3. u2 \o v2 = u2 \o <<Slot>> \o v3
  <2> HIDE DEF u2
  <2> QED
    BY <1>1
<1>4. NoSlot(<<>>) /\ NoSlot(u1)
  <2>1. NoSlot(<<>>) /\ <<>> \in Seq(P)
    BY DEF NoSlot
  <2> QED
    BY <2>1, NoSlotAfter
<1>5. NoSlot(u2)
  <2> HIDE DEF u1
  <2> QED
    BY <1>1, <1>4, NoSlotAfter
<1>6. NoSlot(u3)
  <2> HIDE DEF u2
  <2> QED
    BY <1>1, <1>5, BareIsNoSlot, BareConcat
<1> HIDE DEF t, v1, v2, v3, u1, u2, u3
<1>7. FillsNext(<<>>, a, v1, w)
  BY <1>1, FillFirst
<1>8. FillsNext(u1, b, v2, x)
  BY <1>1, <1>4, FillNext
<1>9. Fill(u2 \o <<Slot>> \o v3, y) = u2 \o y \o v3
  <2>1. Fill(Around(u2, <<Slot>>, v3), y) = Around(u2, y, v3)
    BY <1>1, <1>5, FillHere
  <2> QED
    BY <2>1 DEF Around, FillsNext
<1>10. FillsNext(u3, c, <<d>>, z)
  BY <1>1, <1>6, FillNext
<1>11. Fill(t, w) = u1 \o v1
  BY <1>2, <1>7 DEF u1, Around, FillsNext
<1>12. Fill(u1 \o v1, x) = u2 \o v2
  BY <1>2, <1>8 DEF u2, Around, FillsNext
<1>13. Fill(u2 \o v2, y) = u3 \o v3
  BY <1>3, <1>9 DEF u3
<1>14. Fill(u3 \o v3, z) = u3 \o <<c>> \o z \o <<d>>
  BY <1>2, <1>10 DEF Around, FillsNext
<1>15. FillAll(t, <<w, x, y, z>>) = Fill(Fill(Fill(Fill(t, w), x), y), z)
  BY <1>1, FillFour
<1> QED
  BY <1>11, <1>12, <1>13, <1>14, <1>15 DEF t, u1, u2, u3, FourTemplate, FourFilled

LEMMA OneAndOne ==
    ASSUME NEW P, NEW a \in P, NEW b \in P
    PROVE  <<a>> \o <<b>> = <<a, b>>
<1> DEFINE l == <<a>> \o <<b>>
           r == <<a, b>>
<1>1. l \in Seq(P) /\ Len(l) = 2 /\ r \in Seq(P) /\ Len(r) = 2
  OBVIOUS
<1>2. l[1] = a /\ l[2] = b /\ r[1] = a /\ r[2] = b
  OBVIOUS
<1> HIDE DEF l, r
<1>3. ASSUME NEW i \in 1 .. 2
      PROVE  l[i] = r[i]
  <2>1. i = 1 \/ i = 2
    OBVIOUS
  <2> QED
    BY <1>2, <2>1
<1>4. l = r
  BY <1>1, <1>3, SeqEqual
<1> QED
  BY <1>4 DEF l, r

LEMMA ThreePieces ==
    ASSUME NEW P, NEW a \in P, NEW b \in P, NEW c \in P
    PROVE  <<a>> \o <<b>> \o <<c>> = <<a, b, c>>
<1> DEFINE l == <<a>> \o <<b>> \o <<c>>
           r == <<a, b, c>>
<1>1. l \in Seq(P) /\ Len(l) = 3 /\ r \in Seq(P) /\ Len(r) = 3
  OBVIOUS
<1>2. /\ l[1] = a /\ l[2] = b /\ l[3] = c
      /\ r[1] = a /\ r[2] = b /\ r[3] = c
  OBVIOUS
<1> HIDE DEF l, r
<1>3. ASSUME NEW i \in 1 .. 3
      PROVE  l[i] = r[i]
  <2>1. i = 1 \/ i = 2 \/ i = 3
    OBVIOUS
  <2> QED
    BY <1>2, <2>1
<1>4. l = r
  BY <1>1, <1>3, SeqEqual
<1> QED
  BY <1>4 DEF l, r

LEMMA TwoAndOne ==
    ASSUME NEW P, NEW a \in P, NEW b \in P, NEW c \in P
    PROVE  <<a, b>> \o <<c>> = <<a, b, c>>
<1>1. <<a>> \o <<b>> = <<a, b>> /\ <<a>> \o <<b>> \o <<c>> = <<a, b, c>>
  BY OneAndOne, ThreePieces
<1> QED
  BY <1>1

LEMMA FivePieces ==
    ASSUME NEW P, NEW a \in P, NEW b \in P, NEW c \in P, NEW d \in P, NEW e \in P
    PROVE  TwoFilled(a, <<b>>, c, <<d>>, e) = <<a, b, c, d, e>>
<1> DEFINE l == <<a>> \o <<b>> \o <<c>> \o <<d>> \o <<e>>
           r == <<a, b, c, d, e>>
<1>1. l \in Seq(P) /\ Len(l) = 5 /\ r \in Seq(P) /\ Len(r) = 5
  OBVIOUS
<1>2. /\ l[1] = a /\ l[2] = b /\ l[3] = c /\ l[4] = d /\ l[5] = e
      /\ r[1] = a /\ r[2] = b /\ r[3] = c /\ r[4] = d /\ r[5] = e
  OBVIOUS
<1> HIDE DEF l, r
<1>3. ASSUME NEW i \in 1 .. 5
      PROVE  l[i] = r[i]
  <2>1. i = 1 \/ i = 2 \/ i = 3 \/ i = 4 \/ i = 5
    OBVIOUS
  <2> QED
    BY <1>2, <2>1
<1>4. l = r
  BY <1>1, <1>3, SeqEqual
<1> QED
  BY <1>4 DEF l, r, TwoFilled

-----------------------------------------------------------------------------
(* The class of a node. *)

LEMMA FunctionIsSeq ==
    ASSUME NEW S, NEW N \in Nat, NEW f \in [1 .. N -> S]
    PROVE  f \in Seq(S) /\ Len(f) = N
OBVIOUS

LEMMA PieceType ==
    ASSUME NEW k \in Nat, NEW name \in Stretches
    PROVE  Piece(name) \in [text : Stretches, esc : 0 .. k]
BY DEF Piece

LEMMA MarksType ==
    ASSUME NEW k \in Nat
    PROVE  HasMarks([text : Stretches, esc : 0 .. k])
<1>1. "%s" \in Stretches /\ "$" \in Stretches
  BY TemplateAssumption
<1> QED
  BY <1>1, PieceType DEF Slot, Dollar, HasMarks

\* The ids and stretches that mean nothing to replace.
Marks == {Slot.text, Dollar.text}

LEMMA PieceIsBare ==
    ASSUME NEW name, name \notin Marks
    PROVE  Piece(name) # Slot /\ Piece(name) # Dollar
BY DEF Piece, Slot, Dollar, Marks

LEMMA InertIsBare ==
    ASSUME NEW P, NEW t \in Seq(P), Inert(t)
    PROVE  Bare(t)
<1> HIDE DEF Slot, Dollar
<1> QED
  BY DEF Inert, Bare, Range

LaidOutNode(n, body, conditions, add) ==
    <<Piece("class FlowNode_"), Piece(n), Piece("call() {")>> \o body
    \o conditions \o <<Piece("} call")>> \o add \o <<Piece("} class")>>

LEMMA NodeLaidOut ==
    ASSUME NEW k \in Nat, NEW n \in Stretches, n \notin Marks,
           NEW body \in Texts(k), NEW conditions \in Texts(k), NEW add \in Texts(k),
           Bare(body), Bare(conditions), Bare(add)
    PROVE  NodeText(n, body, conditions, add) = LaidOutNode(n, body, conditions, add)
<1> DEFINE P == [text : Stretches, esc : 0 .. k]
           a == Piece("class FlowNode_")
           b == Piece("call() {")
           c == Piece("} call")
           d == Piece("} class")
           w == <<Piece(n)>>
<1>1. a \in P /\ b \in P /\ c \in P /\ d \in P /\ Piece(n) \in P /\ HasMarks(P)
  <2>1. {"class FlowNode_", "call() {", "} call", "} class"} \subseteq Stretches
    BY TemplateAssumption
  <2> QED
    BY <2>1, PieceType, MarksType
<1>2. a # Slot /\ b # Slot /\ c # Slot /\ Piece(n) # Slot /\ Piece(n) # Dollar
  BY PieceIsBare DEF Piece, Slot
<1>3. body \in Seq(P) /\ conditions \in Seq(P) /\ add \in Seq(P)
  BY DEF Texts
<1>4. NodeTemplate = FourTemplate(a, b, c, d)
  BY DEF NodeTemplate, FourTemplate
<1> HIDE DEF P, a, b, c, d
<1>5. w \in Seq(P) /\ Bare(w)
  BY <1>1, <1>2, BareOne
<1> HIDE DEF w
<1>6. FillAll(FourTemplate(a, b, c, d), <<w, body, conditions, add>>)
        = FourFilled(a, w, b, body, conditions, c, add, d)
  BY <1>1, <1>2, <1>3, <1>5, FourSlots
<1>7. <<a>> \o w \o <<b>> = <<a, Piece(n), b>>
  BY <1>1, ThreePieces DEF w
<1>8. NodeText(n, body, conditions, add)
        = FillAll(FourTemplate(a, b, c, d), <<w, body, conditions, add>>)
  BY <1>4 DEF NodeText, w
<1>9. NodeText(n, body, conditions, add)
        = <<a, Piece(n), b>> \o body \o conditions \o <<c>> \o add \o <<d>>
  BY <1>6, <1>7, <1>8 DEF FourFilled
<1> QED
  BY <1>9 DEF a, b, c, d, LaidOutNode

LEMMA MethodLaidOut ==
    ASSUME NEW k \in Nat, NEW p \in Stretches, p \notin Marks, NEW ports,
           ports[p].script \in Texts(k), Bare(ports[p].script)
    PROVE  /\ MethodOf(p, ports)
                = <<Piece("private"), Piece(p), Piece("(): boolean {")>>
                  \o ports[p].script \o <<Piece("} method")>>
           /\ MethodOf(p, ports) \in Texts(k)
           /\ Bare(MethodOf(p, ports))
<1> DEFINE P == [text : Stretches, esc : 0 .. k]
           a == Piece("private")
           b == Piece("(): boolean {")
           c == Piece("} method")
           x == <<Piece(p)>>
           y == ports[p].script
<1>1. a \in P /\ b \in P /\ c \in P /\ Piece(p) \in P /\ HasMarks(P)
  <2>1. {"private", "(): boolean {", "} method"} \subseteq Stretches
    BY TemplateAssumption
  <2> QED
    BY <2>1, PieceType, MarksType
<1>2. /\ a # Slot /\ b # Slot /\ c # Slot /\ Piece(p) # Slot
      /\ a # Dollar /\ b # Dollar /\ c # Dollar /\ Piece(p) # Dollar
  BY PieceIsBare DEF Piece, Slot, Dollar
<1>3. y \in Seq(P) /\ Bare(y)
  BY DEF Texts
<1>4. BoolTemplate = TwoTemplate(a, b, c)
  BY DEF BoolTemplate, TwoTemplate
<1>5. MethodOf(p, ports) = FillAll(TwoTemplate(a, b, c), <<x, y>>)
  BY <1>4 DEF MethodOf
<1> HIDE DEF P, a, b, c, y
<1>6. x \in Seq(P) /\ Bare(x)
  BY <1>1, <1>2, BareOne
<1> HIDE DEF x
<1>7. FillAll(TwoTemplate(a, b, c), <<x, y>>) = TwoFilled(a, x, b, y, c)
  BY <1>1, <1>2, <1>3, <1>6, TwoSlots
<1>8. <<a>> \o x \o <<b>> = <<a, Piece(p), b>>
  BY <1>1, ThreePieces DEF x
<1>9. MethodOf(p, ports) = <<a, Piece(p), b>> \o y \o <<c>>
  BY <1>5, <1>7, <1>8 DEF TwoFilled
<1>10. /\ <<a, Piece(p), b>> \o y \o <<c>> \in Seq(P)
       /\ Bare(<<a, Piece(p), b>> \o y \o <<c>>)
  <2> DEFINE front == <<a, Piece(p), b>>
             end == <<c>>
  <2>1. front \in Seq(P) /\ end \in Seq(P)
    BY <1>1
  <2>2. Bare(front) /\ Bare(end)
    BY <1>2 DEF Bare
  <2> HIDE DEF front, end
  <2>3. front \o y \in Seq(P) /\ Bare(front \o y)
    BY <1>3, <2>1, <2>2, BareConcat
  <2> DEFINE most == front \o y
  <2>4. most \in Seq(P) /\ Bare(most)
    BY <2>3
  <2> HIDE DEF most
  <2>5. most \o end \in Seq(P)
    BY <2>1, <2>4
  <2>6. Bare(most \o end)
    BY <2>1, <2>2, <2>4, BareConcat
  <2> QED
    BY <2>5, <2>6 DEF most, front, end
<1> QED
  BY <1>9, <1>10 DEF a, b, c, y, P, Texts

LEMMA BranchLaidOut ==
    ASSUME NEW k \in Nat, NEW p \in Stretches, p \notin Marks,
           Target[p] \in Stretches, Target[p] \notin Marks
    PROVE  /\ BranchOf(p)
                = <<Piece("if this."), Piece(p), Piece("setActivatedNodeId("),
                    Piece(Target[p]), Piece("return")>>
           /\ BranchOf(p) \in Texts(k)
           /\ Bare(BranchOf(p))
<1> DEFINE P == [text : Stretches, esc : 0 .. k]
           a == Piece("if this.")
           b == Piece("setActivatedNodeId(")
           c == Piece("return")
           x == <<Piece(p)>>
           y == <<Piece(Target[p])>>
<1>1. /\ a \in P /\ b \in P /\ c \in P /\ Piece(p) \in P /\ Piece(Target[p]) \in P
      /\ HasMarks(P)
  <2>1. {"if this.", "setActivatedNodeId(", "return"} \subseteq Stretches
    BY TemplateAssumption
  <2> QED
    BY <2>1, PieceType, MarksType
<1>2. /\ a # Slot /\ b # Slot /\ c # Slot
      /\ Piece(p) # Slot /\ Piece(Target[p]) # Slot
      /\ a # Dollar /\ b # Dollar /\ c # Dollar
      /\ Piece(p) # Dollar /\ Piece(Target[p]) # Dollar
  BY PieceIsBare DEF Piece, Slot, Dollar
<1>3. CallTemplate = TwoTemplate(a, b, c)
  BY DEF CallTemplate, TwoTemplate
<1>4. BranchOf(p) = FillAll(TwoTemplate(a, b, c), <<x, y>>)
  BY <1>3 DEF BranchOf
<1> HIDE DEF P, a, b, c
<1>5. x \in Seq(P) /\ Bare(x) /\ y \in Seq(P) /\ Bare(y)
  BY <1>1, <1>2, BareOne
<1> HIDE DEF x, y
<1>6. FillAll(TwoTemplate(a, b, c), <<x, y>>) = TwoFilled(a, x, b, y, c)
  BY <1>1, <1>2, <1>5, TwoSlots
<1>7. TwoFilled(a, x, b, y, c) = <<a, Piece(p), b, Piece(Target[p]), c>>
  BY <1>1, FivePieces DEF x, y
<1>8. /\ <<a, Piece(p), b, Piece(Target[p]), c>> \in Seq(P)
      /\ Bare(<<a, Piece(p), b, Piece(Target[p]), c>>)
  BY <1>1, <1>2 DEF Bare
<1> QED
  BY <1>4, <1>6, <1>7, <1>8 DEF a, b, c, P, Texts

\* The ports of a node, one by one.
LEMMA PortOfNode ==
    ASSUME NEW k \in Nat, NEW ports \in [Ports -> Props(k)], NEW n \in Nodes,
           NEW i \in 1 .. Len(PortsOf[n])
    PROVE  /\ PortsOf[n][i] \in Ports
           /\ PortsOf[n][i] \in Range(PortsOf[n])
           /\ PortsOf[n][i] \in Stretches
           /\ ports[PortsOf[n][i]].script \in Texts(k)
           /\ ports[PortsOf[n][i]].add \in Texts(k)
<1>1. PortsOf[n] \in Seq(Ports) /\ Ports \subseteq Stretches
  BY GraphAssumption
<1>2. PortsOf[n][i] \in Ports /\ PortsOf[n][i] \in Range(PortsOf[n])
  BY <1>1 DEF Range
<1> QED
  BY <1>1, <1>2 DEF Props

LEMMA RouteLaidOut ==
    ASSUME NEW k \in Nat, NEW ports \in [Ports -> Props(k)], NEW n \in Nodes,
           Task[n] = "ROUTE", IsMade(n, ports), Marks \cap (Nodes \cup Ports) = {},
           \A p \in Range(PortsOf[n]) : Inert(ports[p].script) /\ Inert(ports[p].add)
    PROVE  MultiText(n, ports) = LaidOutRoute(n, ports)
<1> DEFINE of == PortsOf[n]
           N == Len(of)
           P == [text : Stretches, esc : 0 .. k]
           branches == [i \in 1 .. N |-> BranchOf(of[i])]
           methods == [i \in 1 .. N |-> MethodOf(of[i], ports)]
           additions == [i \in 1 .. N |-> ports[of[i]].add]
           laidBranches == [i \in 1 .. N |->
                <<Piece("if this."), Piece(of[i]), Piece("setActivatedNodeId("),
                  Piece(Target[of[i]]), Piece("return")>>]
           laidMethods == [i \in 1 .. N |->
                <<Piece("private"), Piece(of[i]), Piece("(): boolean {")>>
                \o ports[of[i]].script \o <<Piece("} method")>>]
<1>1. N \in Nat
  BY GraphAssumption
<1>2. HasMarks(P) /\ Slot \in P
  BY MarksType DEF HasMarks
<1>3. ASSUME NEW i \in 1 .. N
      PROVE  /\ BranchOf(of[i]) = laidBranches[i]
             /\ BranchOf(of[i]) \in Texts(k) /\ Bare(BranchOf(of[i]))
             /\ MethodOf(of[i], ports) = laidMethods[i]
             /\ MethodOf(of[i], ports) \in Texts(k) /\ Bare(MethodOf(of[i], ports))
             /\ ports[of[i]].add \in Texts(k) /\ Bare(ports[of[i]].add)
  <2> DEFINE p == of[i]
  <2>1. /\ p \in Ports /\ p \in Range(PortsOf[n]) /\ p \in Stretches
        /\ ports[p].script \in Texts(k) /\ ports[p].add \in Texts(k)
    BY PortOfNode
  <2>2. Bare(ports[p].script) /\ Bare(ports[p].add)
    BY <2>1, InertIsBare DEF Texts
  <2>3. p \notin Marks
    BY <2>1
  <2>4. Target[p] \in Stretches /\ Target[p] \notin Marks
    BY <2>1, GraphAssumption DEF IsMade
  <2>5. /\ laidBranches[i] = <<Piece("if this."), Piece(p), Piece("setActivatedNodeId("),
                               Piece(Target[p]), Piece("return")>>
        /\ laidMethods[i] = <<Piece("private"), Piece(p), Piece("(): boolean {")>>
                            \o ports[p].script \o <<Piece("} method")>>
    OBVIOUS
  <2> HIDE DEF p, laidBranches, laidMethods
  <2>6. /\ BranchOf(p) = laidBranches[i]
        /\ BranchOf(p) \in Texts(k) /\ Bare(BranchOf(p))
    BY <2>1, <2>3, <2>4, <2>5, BranchLaidOut
  <2>7. /\ MethodOf(p, ports) = laidMethods[i]
        /\ MethodOf(p, ports) \in Texts(k) /\ Bare(MethodOf(p, ports))
    BY <2>1, <2>2, <2>3, <2>5, MethodLaidOut
  <2> QED
    BY <2>1, <2>2, <2>6, <2>7 DEF p
<1>4. /\ branches = laidBranches
      /\ branches \in Seq(Seq(P)) /\ Len(branches) = N
      /\ \A i \in 1 .. N : Bare(branches[i])
  <2>1. branches = laidBranches
    BY <1>3
  <2>2. \A i \in 1 .. N : branches[i] \in Seq(P) /\ Bare(branches[i])
    BY <1>3 DEF Texts
  <2>3. branches \in [1 .. N -> Seq(P)]
    BY <2>2
  <2> HIDE DEF branches, P, N
  <2> QED
    BY <1>1, <2>1, <2>2, <2>3, FunctionIsSeq
<1>5. /\ methods = laidMethods
      /\ methods \in Seq(Seq(P)) /\ Len(methods) = N
      /\ \A i \in 1 .. N : Bare(methods[i])
  <2>1. methods = laidMethods
    BY <1>3
  <2>2. \A i \in 1 .. N : methods[i] \in Seq(P) /\ Bare(methods[i])
    BY <1>3 DEF Texts
  <2>3. methods \in [1 .. N -> Seq(P)]
    BY <2>2
  <2> HIDE DEF methods, P, N
  <2> QED
    BY <1>1, <2>1, <2>2, <2>3, FunctionIsSeq
<1>6. /\ additions \in Seq(Seq(P)) /\ Len(additions) = N
      /\ \A i \in 1 .. N : Bare(additions[i])
  <2>1. \A i \in 1 .. N : additions[i] \in Seq(P) /\ Bare(additions[i])
    BY <1>3 DEF Texts
  <2>2. additions \in [1 .. N -> Seq(P)]
    BY <2>1
  <2> HIDE DEF additions, P, N
  <2> QED
    BY <1>1, <2>1, <2>2, FunctionIsSeq
<1> DEFINE body == FillAll(<<DefaultBody>> \o Slots(N), branches)
           conditions == FillAll(Slots(N), methods)
           add == FillAll(Slots(N), additions)
<1>7. MultiText(n, ports) = NodeText(n, body, conditions, add)
  BY DEF MultiText
<1>8. DefaultBody \in P /\ DefaultBody # Slot /\ DefaultBody # Dollar
  <2>1. "outputRequestBody = inputRequestBody" \in Stretches
    BY TemplateAssumption
  <2> QED
    BY <2>1, PieceType DEF DefaultBody, Piece, Slot, Dollar
<1>9. LaidOutRoute(n, ports)
        = <<Piece("class FlowNode_"), Piece(n), Piece("call() {"), DefaultBody>>
          \o FlattenSeq(laidBranches) \o FlattenSeq(laidMethods) \o <<Piece("} call")>>
          \o FlattenSeq(additions) \o <<Piece("} class")>>
  BY DEF LaidOutRoute
<1> HIDE DEF branches, methods, additions, laidBranches, laidMethods, P, N
<1>10. /\ body = <<DefaultBody>> \o FlattenSeq(branches)
       /\ FlattenSeq(branches) \in Seq(P) /\ Bare(FlattenSeq(branches))
  <2>1. <<DefaultBody>> \in Seq(P) /\ NoSlot(<<DefaultBody>>)
    BY <1>8, BareOne, BareIsNoSlot
  <2> QED
    BY <1>2, <1>4, <2>1, SlotsFilled
<1>11. ASSUME NEW args \in Seq(Seq(P)), Len(args) = N, \A i \in 1 .. N : Bare(args[i])
       PROVE  /\ FillAll(Slots(N), args) = FlattenSeq(args)
              /\ FlattenSeq(args) \in Seq(P) /\ Bare(FlattenSeq(args))
  <2>1. <<>> \in Seq(P) /\ NoSlot(<<>>)
    BY DEF NoSlot
  <2>2. /\ FillAll(<<>> \o Slots(N), args) = <<>> \o FlattenSeq(args)
        /\ FlattenSeq(args) \in Seq(P) /\ Bare(FlattenSeq(args))
    BY <1>2, <1>11, <2>1, SlotsFilled
  <2>3. Slots(N) \in Seq(P)
    BY <1>1, <1>2 DEF Slots
  <2> QED
    BY <2>2, <2>3, ConcatEmptySeq
<1>12. /\ conditions = FlattenSeq(methods)
       /\ FlattenSeq(methods) \in Seq(P) /\ Bare(FlattenSeq(methods))
  BY <1>5, <1>11
<1>13. /\ add = FlattenSeq(additions)
       /\ FlattenSeq(additions) \in Seq(P) /\ Bare(FlattenSeq(additions))
  BY <1>6, <1>11
<1> DEFINE fb == FlattenSeq(branches)
           fm == FlattenSeq(methods)
           fa == FlattenSeq(additions)
           front == <<Piece("class FlowNode_"), Piece(n), Piece("call() {")>>
<1>14. n \in Stretches /\ n \notin Marks
  BY GraphAssumption
<1>15. /\ body \in Seq(P) /\ Bare(body)
       /\ conditions \in Seq(P) /\ Bare(conditions)
       /\ add \in Seq(P) /\ Bare(add)
  <2> HIDE DEF body, conditions, add, fb, fm, fa
  <2>1. /\ <<DefaultBody>> \o fb \in Seq(P)
        /\ Bare(<<DefaultBody>> \o fb)
    <3>1. <<DefaultBody>> \in Seq(P) /\ Bare(<<DefaultBody>>)
      BY <1>8, BareOne
    <3>2. fb \in Seq(P) /\ Bare(fb)
      BY <1>10 DEF fb
    <3> DEFINE w == <<DefaultBody>>
    <3> HIDE DEF w
    <3>3. w \in Seq(P) /\ Bare(w)
      BY <3>1 DEF w
    <3>4. w \o fb \in Seq(P)
      BY <3>2, <3>3
    <3>5. Bare(w \o fb)
      BY <3>2, <3>3, BareConcat
    <3> QED
      BY <3>4, <3>5 DEF w
  <2> QED
    BY <1>10, <1>12, <1>13, <2>1 DEF fb
<1>16. NodeText(n, body, conditions, add)
         = front \o body \o conditions \o <<Piece("} call")>> \o add \o <<Piece("} class")>>
  <2> HIDE DEF body, conditions, add
  <2>1. body \in Texts(k) /\ conditions \in Texts(k) /\ add \in Texts(k)
    BY <1>15 DEF Texts, P
  <2>2. NodeText(n, body, conditions, add) = LaidOutNode(n, body, conditions, add)
    BY <1>14, <1>15, <2>1, NodeLaidOut
  <2> QED
    BY <2>2 DEF LaidOutNode
<1>17. front \o (<<DefaultBody>> \o fb)
         = <<Piece("class FlowNode_"), Piece(n), Piece("call() {"), DefaultBody>> \o fb
  <2> DEFINE x == Piece("class FlowNode_")
             y == Piece(n)
             z == Piece("call() {")
  <2>1. x \in P /\ y \in P /\ z \in P
    <3>1. {"class FlowNode_", "call() {"} \subseteq Stretches
      BY TemplateAssumption
    <3> QED
      BY <1>14, <3>1, PieceType DEF P
  <2>2. fb \in Seq(P) /\ DefaultBody \in P
    BY <1>8, <1>10
  <2> HIDE DEF x, y, z, fb
  <2>3. <<x, y, z>> \o (<<DefaultBody>> \o fb) = <<x, y, z, DefaultBody>> \o fb
    BY <2>1, <2>2
  <2> QED
    BY <2>3 DEF x, y, z
<1> QED
  <2> HIDE DEF body, conditions, add, front
  <2>1. MultiText(n, ports)
          = front \o (<<DefaultBody>> \o FlattenSeq(branches)) \o FlattenSeq(methods)
            \o <<Piece("} call")>> \o FlattenSeq(additions) \o <<Piece("} class")>>
    BY <1>7, <1>10, <1>12, <1>13, <1>16
  <2> QED
    BY <1>4, <1>5, <1>9, <1>17, <2>1

LEMMA TaskLaidOut ==
    ASSUME NEW k \in Nat, NEW ports \in [Ports -> Props(k)], NEW n \in Nodes,
           Task[n] # "ROUTE", IsMade(n, ports), Marks \cap (Nodes \cup Ports) = {},
           \A p \in Range(PortsOf[n]) : Inert(ports[p].script) /\ Inert(ports[p].add)
    PROVE  SingleText(n, ports) = LaidOutTask(n, ports)
<1> DEFINE P == [text : Stretches, esc : 0 .. k]
           script == ports[PortsOf[n][1]].script
           add == ports[PortsOf[n][1]].add
           super == Piece("super.call()")
           body == Fill(SingleTemplate, script)
<1>1. 1 \in 1 .. Len(PortsOf[n])
  BY GraphAssumption DEF IsMade
<1>2. script \in Texts(k) /\ add \in Texts(k) /\ Bare(script) /\ Bare(add)
  BY <1>1, PortOfNode, InertIsBare DEF Texts
<1>3. super \in P /\ super # Slot /\ super # Dollar /\ Slot \in P /\ HasMarks(P)
  <2>1. "super.call()" \in Stretches
    BY TemplateAssumption
  <2> QED
    BY <2>1, PieceType, MarksType DEF Piece, Slot, Dollar, HasMarks
<1>4. body = <<super>> \o script
  <2>1. SingleTemplate = <<super, Slot>>
    BY DEF SingleTemplate
  <2> HIDE DEF super, Slot, script, P
  <2>2. <<super, Slot>> = <<super>> \o <<Slot>> \o <<>>
    BY <1>3
  <2>3. <<super>> \in Seq(P) /\ NoSlot(<<super>>) /\ <<>> \in Seq(P)
    BY <1>3, BareOne, BareIsNoSlot
  <2>4. Fill(<<super>> \o <<Slot>> \o <<>>, script) = <<super>> \o script \o <<>>
    <3>0. script \in Seq(P) /\ Bare(script)
      BY <1>2 DEF Texts, P
    <3>1. Fill(Around(<<super>>, <<Slot>>, <<>>), script) = Around(<<super>>, script, <<>>)
      BY <1>3, <2>3, <3>0, FillHere
    <3> QED
      BY <3>1 DEF Around
  <2>5. <<super>> \o script \o <<>> = <<super>> \o script
    BY <1>2, <1>3 DEF Texts, P
  <2> QED
    BY <2>1, <2>2, <2>4, <2>5
<1>5. body \in Texts(k) /\ Bare(body)
  <2> HIDE DEF super, script
  <2> DEFINE w == <<super>>
  <2>0. script \in Seq(P) /\ w \in Seq(P)
    BY <1>2, <1>3 DEF Texts
  <2>1. super \in P /\ super # Slot /\ super # Dollar /\ Bare(script)
    BY <1>2, <1>3
  <2> HIDE DEF P
  <2>3. Bare(w)
    BY <2>1, BareOne
  <2> HIDE DEF w
  <2>4. w \o script \in Seq(P)
    BY <2>0
  <2>5. Bare(w \o script)
    BY <2>0, <2>1, <2>3, BareConcat
  <2>2. <<super>> \o script \in Seq(P) /\ Bare(<<super>> \o script)
    BY <2>4, <2>5 DEF w
  <2> HIDE DEF body
  <2> QED
    BY <1>4, <2>2 DEF Texts, P
<1>6. n \in Stretches /\ n \notin Marks
  BY GraphAssumption
<1>7. <<>> \in Texts(k) /\ Bare(<<>>)
  BY DEF Bare, Texts
<1>8. SingleText(n, ports) = NodeText(n, body, <<>>, add)
  BY DEF SingleText
<1> DEFINE front == <<Piece("class FlowNode_"), Piece(n), Piece("call() {")>>
           call == <<Piece("} call")>>
           class == <<Piece("} class")>>
<1>9. NodeText(n, body, <<>>, add) = front \o body \o <<>> \o call \o add \o class
  <2> HIDE DEF body, add
  <2>1. NodeText(n, body, <<>>, add) = LaidOutNode(n, body, <<>>, add)
    BY <1>2, <1>5, <1>6, <1>7, NodeLaidOut
  <2> QED
    BY <2>1 DEF LaidOutNode
<1>10. /\ Piece("class FlowNode_") \in P /\ Piece(n) \in P /\ Piece("call() {") \in P
  <2>1. {"class FlowNode_", "call() {"} \subseteq Stretches
    BY TemplateAssumption
  <2> QED
    BY <1>6, <2>1, PieceType
<1>11. front \o body \o <<>>
         = <<Piece("class FlowNode_"), Piece(n), Piece("call() {"), super>> \o script
  <2> DEFINE x == Piece("class FlowNode_")
             y == Piece(n)
             z == Piece("call() {")
  <2>1. x \in P /\ y \in P /\ z \in P
    BY <1>10
  <2>2. script \in Seq(P) /\ super \in P
    BY <1>2, <1>3 DEF Texts
  <2> HIDE DEF x, y, z, super, script, P
  <2>3. <<x, y, z>> \o (<<super>> \o script) \o <<>> = <<x, y, z, super>> \o script
    BY <2>1, <2>2
  <2> HIDE DEF body
  <2> QED
    BY <1>4, <2>3 DEF x, y, z
<1>12. LaidOutTask(n, ports)
         = <<Piece("class FlowNode_"), Piece(n), Piece("call() {"), super>> \o script
           \o call \o add \o class
  BY DEF LaidOutTask
<1> QED
  <2> HIDE DEF body, front, script, add, call, class
  <2> QED
    BY <1>8, <1>9, <1>11, <1>12

\* Where no text and no id has a slot or a dollar, a class is laid out.
LEMMA ClassLaidOut ==
    ASSUME NEW k \in Nat, NEW ports \in [Ports -> Props(k)], NEW n \in Nodes,
           IsMade(n, ports), Marks \cap (Nodes \cup Ports) = {},
           \A p \in Range(PortsOf[n]) : Inert(ports[p].script) /\ Inert(ports[p].add)
    PROVE  ScriptOf(n, ports) = IF Task[n] = "ROUTE" THEN LaidOutRoute(n, ports)
                                ELSE LaidOutTask(n, ports)
BY RouteLaidOut, TaskLaidOut DEF ScriptOf

-----------------------------------------------------------------------------
(* Texts in which every generated comparison of an inert type is whole. *)

\* The comparisons of the conditions of a type that modify accepts.
Codes(type) ==
    {Comparison(r[1]) : r \in {s \in Routes : /\ Len(s) = 1
                                              /\ s[1].type = type
                                              /\ s[1].value \in ValuesOf(type)}}

\* A comparison of an inert type that begins at i is all there.
WholeAt(t, i) ==
    \A type \in InertTypes :
        t[i].text = Opening[type] => \E c \in Codes(type) : HasAt(t, i, c)

Intact(t) == \A i \in 1 .. Len(t) : WholeAt(t, i)

Checked(k) == {t \in Texts(k) : Intact(t)}

\* No stretch of the text is a slot or a dollar, escaped or not.
Unmarked(t) == \A i \in 1 .. Len(t) : t[i].text \notin Marks

LEMMA UnmarkedConcat ==
    ASSUME NEW P, NEW u \in Seq(P), NEW v \in Seq(P), Unmarked(u), Unmarked(v)
    PROVE  Unmarked(u \o v)
<1> DEFINE t == u \o v
           lu == Len(u)
           lv == Len(v)
<1>1. /\ lu \in Nat /\ lv \in Nat /\ Len(t) = lu + lv
      /\ \A i \in 1 .. lu : t[i] = u[i]
      /\ \A i \in 1 .. lv : t[lu + i] = v[i]
  OBVIOUS
<1> HIDE DEF t
<1> SUFFICES ASSUME NEW i \in 1 .. Len(t)
             PROVE  t[i].text \notin Marks
  BY DEF Unmarked, t
<1>2. CASE i \in 1 .. lu
  BY <1>1, <1>2 DEF Unmarked
<1>3. CASE i \notin 1 .. lu
  <2>1. i - lu \in 1 .. lv /\ lu + (i - lu) = i
    BY <1>1, <1>3
  <2>2. t[i] = v[i - lu]
    BY <1>1, <2>1
  <2> QED
    BY <2>1, <2>2 DEF Unmarked
<1> QED
  BY <1>2, <1>3

LEMMA InertIsUnmarked ==
    ASSUME NEW t \in Texts(0), Inert(t)
    PROVE  Unmarked(t)
<1> SUFFICES ASSUME NEW i \in 1 .. Len(t)
             PROVE  t[i].text \notin Marks
  BY DEF Unmarked
<1> DEFINE P == [text : Stretches, esc : 0 .. 0]
<1>1. t \in Seq(P)
  BY DEF Texts
<1>2. t[i] \in P
  <2> HIDE DEF P
  <2> QED
    BY <1>1
<1>3. t[i] # Slot /\ t[i] # Dollar
  <2> HIDE DEF P
  <2> QED
    BY <1>1, InertIsBare DEF Bare
<1>4. t[i] = [text |-> t[i].text, esc |-> 0]
  BY <1>2
<1> QED
  BY <1>3, <1>4 DEF Marks, Slot, Dollar, Piece

LEMMA OpeningRange ==
    Range(Opening) = {"const leftValue = parseFloat(", "const leftValue = parseInt(",
                      "const leftValue = String(", "const leftValue = new Date("}
BY DEF Range, Opening, DataTypes

\* What a comparison is made of, apart from its key and its value.
LEMMA ComparisonStretches ==
    ASSUME NEW meta \in Meta
    PROVE  {Opening[meta.type], SourceExpression[meta.source], Operator[meta.op],
            "'", "]", "const rightValue =", "return leftValue", "rightValue"}
              \subseteq Stretches \ Marks
<1>1. {"'", "]", "const rightValue =", "return leftValue", "rightValue"}
        \subseteq Stretches
  BY TemplateAssumption
<1>2. /\ meta.type \in DOMAIN Opening
      /\ meta.source \in DOMAIN SourceExpression /\ meta.op \in DOMAIN Operator
  BY DEF Meta, Opening
<1>3. /\ Opening[meta.type] \in Range(Opening)
      /\ SourceExpression[meta.source] \in Range(SourceExpression)
      /\ Operator[meta.op] \in Range(Operator)
  BY <1>2 DEF Range
<1>4. /\ Range(SourceExpression) = {"this.getRequestHeader()", "this.getRequestParam()"}
      /\ Range(Operator) = {"==", "!=", ">", ">=", "<", "<="}
  BY DEF Range, SourceExpression, Operator
<1>5. \A x \in Range(Opening) \cup Range(SourceExpression) \cup Range(Operator) :
        x \in Stretches /\ x # "%s" /\ x # "$"
  BY <1>4, OpeningRange, TemplateAssumption
<1>6. Marks = {"%s", "$"}
  BY DEF Marks, Slot, Dollar, Piece
<1> QED
  BY <1>1, <1>3, <1>5, <1>6

LEMMA UnmarkedTwo ==
    ASSUME NEW P, NEW p \in P, NEW q \in P, p.text \notin Marks, q.text \notin Marks
    PROVE  <<p, q>> \in Seq(P) /\ Unmarked(<<p, q>>)
<1> HIDE DEF Marks
<1> QED
  BY DEF Unmarked

LEMMA UnmarkedThree ==
    ASSUME NEW P, NEW p \in P, NEW q \in P, NEW w \in P,
           p.text \notin Marks, q.text \notin Marks, w.text \notin Marks
    PROVE  <<p, q, w>> \in Seq(P) /\ Unmarked(<<p, q, w>>)
<1> HIDE DEF Marks
<1> QED
  BY DEF Unmarked

LEMMA ComparisonType ==
    ASSUME NEW meta \in Meta, Unmarked(meta.key), Unmarked(meta.value)
    PROVE  Comparison(meta) \in Texts(0) /\ Unmarked(Comparison(meta))
<1> DEFINE P == [text : Stretches, esc : 0 .. 0]
           a == <<Piece(Opening[meta.type]), Piece(SourceExpression[meta.source])>>
           b == <<Piece("'"), Piece("]"), Piece("const rightValue =")>>
           c == <<Piece("return leftValue"), Piece(Operator[meta.op]), Piece("rightValue")>>
           x == meta.key
           y == meta.value
<1>1. \A name \in Stretches \ Marks : Piece(name) \in P /\ Piece(name).text \notin Marks
  BY DEF Piece
<1>2. /\ Piece(Opening[meta.type]) \in P /\ Piece(Opening[meta.type]).text \notin Marks
      /\ Piece(SourceExpression[meta.source]) \in P
      /\ Piece(SourceExpression[meta.source]).text \notin Marks
      /\ Piece("'") \in P /\ Piece("'").text \notin Marks
      /\ Piece("]") \in P /\ Piece("]").text \notin Marks
      /\ Piece("const rightValue =") \in P /\ Piece("const rightValue =").text \notin Marks
      /\ Piece("return leftValue") \in P /\ Piece("return leftValue").text \notin Marks
      /\ Piece(Operator[meta.op]) \in P /\ Piece(Operator[meta.op]).text \notin Marks
      /\ Piece("rightValue") \in P /\ Piece("rightValue").text \notin Marks
  BY <1>1, ComparisonStretches
<1>3. x \in Seq(P) /\ y \in Seq(P)
  BY DEF Meta, Texts
<1>4. a \in Seq(P) /\ Unmarked(a)
  <2> DEFINE p == Piece(Opening[meta.type])
             q == Piece(SourceExpression[meta.source])
  <2>1. p \in P /\ q \in P /\ p.text \notin Marks /\ q.text \notin Marks
    BY <1>2
  <2> HIDE DEF p, q, P, Marks
  <2> QED
    BY <2>1, UnmarkedTwo DEF p, q
<1>5. b \in Seq(P) /\ Unmarked(b)
  <2> DEFINE p == Piece("'")
             q == Piece("]")
             w == Piece("const rightValue =")
  <2>1. /\ p \in P /\ q \in P /\ w \in P
        /\ p.text \notin Marks /\ q.text \notin Marks /\ w.text \notin Marks
    BY <1>2
  <2> HIDE DEF p, q, w, P, Marks
  <2> QED
    BY <2>1, UnmarkedThree DEF p, q, w
<1>6. c \in Seq(P) /\ Unmarked(c)
  <2> DEFINE p == Piece("return leftValue")
             q == Piece(Operator[meta.op])
             w == Piece("rightValue")
  <2>1. /\ p \in P /\ q \in P /\ w \in P
        /\ p.text \notin Marks /\ q.text \notin Marks /\ w.text \notin Marks
    BY <1>2
  <2> HIDE DEF p, q, w, P, Marks
  <2> QED
    BY <2>1, UnmarkedThree DEF p, q, w
<1> HIDE DEF P
<1>7. Comparison(meta) = a \o x \o b \o y \o c
  BY DEF Comparison
<1> HIDE DEF a, b, c
<1>8. Unmarked(x) /\ Unmarked(y)
  OBVIOUS
<1> HIDE DEF x, y
<1>9. a \o x \in Seq(P) /\ Unmarked(a \o x)
  BY <1>3, <1>4, <1>8, UnmarkedConcat
<1> DEFINE s == a \o x
<1> HIDE DEF s
<1>10. s \in Seq(P) /\ Unmarked(s)
  BY <1>9 DEF s
<1>11. s \o b \in Seq(P) /\ Unmarked(s \o b)
  BY <1>5, <1>10, UnmarkedConcat
<1> DEFINE t == s \o b
<1> HIDE DEF t
<1>12. t \in Seq(P) /\ Unmarked(t)
  BY <1>11 DEF t
<1>13. t \o y \in Seq(P) /\ Unmarked(t \o y)
  BY <1>3, <1>8, <1>12, UnmarkedConcat
<1> DEFINE u == t \o y
<1> HIDE DEF u
<1>14. u \in Seq(P) /\ Unmarked(u)
  BY <1>13 DEF u
<1>15. u \o c \in Seq(P) /\ Unmarked(u \o c)
  BY <1>6, <1>14, UnmarkedConcat
<1>16. Comparison(meta) = u \o c
  BY <1>7 DEF s, t, u
<1> QED
  BY <1>15, <1>16 DEF Texts, P

\* A condition, as the form has it.
LEMMA RouteIs ==
    ASSUME NEW r \in Routes, Len(r) = 1
    PROVE  r[1] \in Meta /\ 1 \in DOMAIN r
<1>1. r \in Seq(Meta)
  BY InputAssumption
<1> QED
  BY <1>1

LEMMA CodesUnmarked ==
    ASSUME NEW type \in InertTypes, NEW c \in Codes(type)
    PROVE  Len(c) \in Nat /\ Unmarked(c)
<1>1. PICK r \in Routes : /\ Len(r) = 1 /\ r[1].type = type
                          /\ c = Comparison(r[1])
  BY DEF Codes
<1>2. r[1] \in Meta
  BY <1>1, RouteIs
<1>3. Inert(r[1].key) /\ Inert(r[1].value)
  BY <1>1 DEF InertTypes
<1>4. r[1].key \in Texts(0) /\ r[1].value \in Texts(0)
  BY <1>2 DEF Meta
<1>5. Comparison(r[1]) \in Texts(0) /\ Unmarked(Comparison(r[1]))
  BY <1>2, <1>3, <1>4, InertIsUnmarked, ComparisonType
<1> QED
  BY <1>1, <1>5 DEF Texts

LEMMA CheckedType ==
    ASSUME NEW k \in Nat
    PROVE  /\ Checked(k) \in SUBSET Seq([text : Stretches, esc : 0 .. k])
           /\ <<>> \in Checked(k)
BY DEF Checked, Texts, Intact

LEMMA CheckedGrows ==
    ASSUME NEW k \in Nat, NEW m \in Nat, k <= m
    PROVE  Checked(k) \subseteq Checked(m)
<1>1. Texts(k) \subseteq Texts(m)
  <2> DEFINE P == [text : Stretches, esc : 0 .. k]
             Q == [text : Stretches, esc : 0 .. m]
  <2>1. P \subseteq Q
    OBVIOUS
  <2> HIDE DEF P, Q
  <2>2. Seq(P) \subseteq Seq(Q)
    BY <2>1
  <2> QED
    BY <2>2 DEF P, Q, Texts
<1> QED
  BY <1>1 DEF Checked

\* A comparison that is in one text is in another that agrees with it there.
LEMMA HasAtMoves ==
    ASSUME NEW t, NEW v, NEW i \in Int, NEW h \in Int, NEW c, HasAt(t, h, c),
           Len(c) \in Nat, i + Len(c) - 1 <= Len(v),
           \A j \in 1 .. Len(c) : v[i + j - 1].text = t[h + j - 1].text
    PROVE  HasAt(v, i, c)
BY DEF HasAt

LEMMA IntactConcat ==
    ASSUME NEW P, NEW u \in Seq(P), NEW v \in Seq(P), Intact(u), Intact(v)
    PROVE  Intact(u \o v)
<1> DEFINE t == u \o v
           lu == Len(u)
           lv == Len(v)
<1>1. /\ lu \in Nat /\ lv \in Nat /\ Len(t) = lu + lv
      /\ \A i \in 1 .. lu : t[i] = u[i]
      /\ \A i \in 1 .. lv : t[lu + i] = v[i]
  OBVIOUS
<1> HIDE DEF t
<1> SUFFICES ASSUME NEW i \in 1 .. Len(t), NEW type \in InertTypes,
                    t[i].text = Opening[type]
             PROVE  \E c \in Codes(type) : HasAt(t, i, c)
  BY DEF Intact, WholeAt, t
<1>2. CASE i \in 1 .. lu
  <2>1. t[i] = u[i]
    BY <1>1, <1>2
  <2>2. PICK c \in Codes(type) : HasAt(u, i, c)
    BY <1>2, <2>1 DEF Intact, WholeAt
  <2>3. Len(c) \in Nat /\ i + Len(c) - 1 <= lu
    BY <2>2, CodesUnmarked DEF HasAt
  <2>4. i + Len(c) - 1 <= Len(t)
    BY <1>1, <2>3
  <2>5. \A j \in 1 .. Len(c) : i + j - 1 \in 1 .. lu
    BY <1>1, <1>2, <2>3
  <2>6. \A j \in 1 .. Len(c) : t[i + j - 1].text = u[i + j - 1].text
    BY <1>1, <2>5
  <2>7. HasAt(t, i, c)
    BY <2>2, <2>3, <2>4, <2>6, HasAtMoves
  <2> QED
    BY <2>7
<1>3. CASE i \notin 1 .. lu
  <2> DEFINE h == i - lu
  <2>1. h \in 1 .. lv /\ i = lu + h
    BY <1>1, <1>3
  <2>2. t[i] = v[h]
    BY <1>1, <2>1
  <2> HIDE DEF h
  <2>3. PICK c \in Codes(type) : HasAt(v, h, c)
    BY <2>1, <2>2 DEF Intact, WholeAt
  <2>4. Len(c) \in Nat /\ h + Len(c) - 1 <= lv
    BY <2>3, CodesUnmarked DEF HasAt
  <2>5. i + Len(c) - 1 <= Len(t)
    BY <1>1, <2>1, <2>4
  <2>6. \A j \in 1 .. Len(c) : h + j - 1 \in 1 .. lv /\ i + j - 1 = lu + (h + j - 1)
    BY <1>1, <2>1, <2>4
  <2>7. \A j \in 1 .. Len(c) : t[i + j - 1].text = v[h + j - 1].text
    BY <1>1, <2>6
  <2>8. HasAt(t, i, c)
    BY <2>1, <2>3, <2>4, <2>5, <2>7, HasAtMoves
  <2> QED
    BY <2>8
<1> QED
  BY <1>2, <1>3

LEMMA CheckedConcat ==
    ASSUME NEW k \in Nat, NEW u \in Checked(k), NEW v \in Checked(k)
    PROVE  u \o v \in Checked(k)
<1> DEFINE P == [text : Stretches, esc : 0 .. k]
<1>1. u \in Seq(P) /\ v \in Seq(P)
  BY DEF Checked, Texts
<1> HIDE DEF P
<1>2. u \o v \in Seq(P)
  BY <1>1
<1>3. Intact(u \o v)
  BY <1>1, IntactConcat DEF Checked
<1> QED
  BY <1>2, <1>3 DEF Checked, Texts, P

\* What stands before a slot or a dollar: no comparison reaches over one.
LEMMA IntactBefore ==
    ASSUME NEW P, NEW t \in Seq(P), Intact(t), NEW k \in 1 .. Len(t), t[k].text \in Marks
    PROVE  Intact(SubSeq(t, 1, k - 1))
<1> DEFINE u == SubSeq(t, 1, k - 1)
           n == Len(t)
<1>1. n \in Nat /\ k \in Int /\ k <= n
  OBVIOUS
<1>2. /\ Len(u) = k - 1
      /\ \A i \in 1 .. k - 1 : u[i] = t[i]
  OBVIOUS
<1> HIDE DEF u
<1> SUFFICES ASSUME NEW i \in 1 .. k - 1, NEW type \in InertTypes,
                    u[i].text = Opening[type]
             PROVE  \E c \in Codes(type) : HasAt(u, i, c)
  BY <1>2 DEF Intact, WholeAt, u
<1>3. i \in 1 .. n /\ u[i] = t[i]
  BY <1>1, <1>2
<1>4. PICK c \in Codes(type) : HasAt(t, i, c)
  BY <1>3 DEF Intact, WholeAt
<1>5. /\ Len(c) \in Nat /\ i + Len(c) - 1 <= n
      /\ \A j \in 1 .. Len(c) : t[i + j - 1].text = c[j].text
      /\ \A j \in 1 .. Len(c) : c[j].text \notin Marks
  BY <1>4, CodesUnmarked DEF HasAt, Unmarked
<1>6. i + Len(c) - 1 <= k - 1
  <2> SUFFICES ASSUME i + Len(c) - 1 > k - 1
               PROVE  FALSE
    BY <1>1, <1>5
  <2> DEFINE j == k - i + 1
  <2>1. j \in 1 .. Len(c) /\ i + j - 1 = k
    BY <1>1, <1>5
  <2> HIDE DEF j
  <2>2. t[i + j - 1].text \notin Marks
    BY <1>5, <2>1
  <2> QED
    BY <2>1, <2>2
<1>7. \A j \in 1 .. Len(c) : i + j - 1 \in 1 .. k - 1
  BY <1>1, <1>5, <1>6
<1>8. \A j \in 1 .. Len(c) : u[i + j - 1].text = t[i + j - 1].text
  BY <1>2, <1>7
<1>9. HasAt(u, i, c)
  BY <1>2, <1>4, <1>5, <1>6, <1>8, HasAtMoves
<1> QED
  BY <1>9

\* The end of a text, wherever it begins.
LEMMA IntactAfter ==
    ASSUME NEW P, NEW t \in Seq(P), Intact(t), NEW k \in 0 .. Len(t)
    PROVE  Intact(SubSeq(t, k + 1, Len(t)))
<1> DEFINE v == SubSeq(t, k + 1, Len(t))
           n == Len(t)
<1>1. n \in Nat /\ k \in Int /\ 0 <= k /\ k <= n
  OBVIOUS
<1>2. /\ Len(v) = n - k
      /\ \A i \in 1 .. n - k : v[i] = t[k + i]
  OBVIOUS
<1> HIDE DEF v
<1> SUFFICES ASSUME NEW i \in 1 .. n - k, NEW type \in InertTypes,
                    v[i].text = Opening[type]
             PROVE  \E c \in Codes(type) : HasAt(v, i, c)
  BY <1>2 DEF Intact, WholeAt, v
<1> DEFINE h == k + i
<1>3. h \in 1 .. n /\ v[i] = t[h] /\ h \in Int
  BY <1>1, <1>2
<1>4. PICK c \in Codes(type) : HasAt(t, h, c)
  <2> HIDE DEF h
  <2> QED
    BY <1>3 DEF Intact, WholeAt
<1>5. Len(c) \in Nat /\ h + Len(c) - 1 <= n
  BY <1>4, CodesUnmarked DEF HasAt
<1>6. i + Len(c) - 1 <= n - k
  BY <1>1, <1>5
<1>7. \A j \in 1 .. Len(c) : i + j - 1 \in 1 .. n - k /\ h + j - 1 = k + (i + j - 1)
  BY <1>1, <1>5, <1>6
<1> HIDE DEF h
<1>8. \A j \in 1 .. Len(c) : v[i + j - 1].text = t[h + j - 1].text
  BY <1>2, <1>7
<1>9. HasAt(v, i, c)
  <2>1. i \in Int /\ i + Len(c) - 1 <= Len(v)
    BY <1>1, <1>2, <1>6
  <2> QED
    BY <1>3, <1>4, <1>5, <1>8, <2>1, HasAtMoves
<1> QED
  BY <1>9

\* A text of one piece that does not begin a comparison.
LEMMA MarkIntact ==
    ASSUME NEW x, x.text \in Marks
    PROVE  Intact(<<x>>)
<1>1. \A type \in InertTypes : Opening[type] \notin Marks
  <2>1. Marks = {"%s", "$"}
    BY DEF Marks, Slot, Dollar, Piece
  <2>2. \A type \in InertTypes : Opening[type] \in Range(Opening)
    BY DEF InertTypes, Range, Opening
  <2> QED
    BY <2>1, <2>2, OpeningRange
<1>2. \A i \in 1 .. Len(<<x>>) : <<x>>[i] = x
  OBVIOUS
<1> QED
  BY <1>1, <1>2 DEF Intact, WholeAt

LEMMA MarksAre == Slot.text \in Marks /\ Dollar.text \in Marks
BY DEF Marks

LEMMA ReplacementIntact ==
    ASSUME NEW P, NEW t \in Seq(P), NEW k \in 1 .. Len(t), t[k] = Slot, Intact(t),
           NEW arg, NEW i \in Patterns(arg)
    PROVE  Intact(Replacement(t, k, arg[i + 1]))
<1>1. Intact(<<Slot>>) /\ Intact(<<Dollar>>)
  BY MarkIntact, MarksAre
<1>2. Intact(SubSeq(t, 1, k - 1))
  BY MarksAre, IntactBefore
<1>3. Intact(SubSeq(t, k + 1, Len(t)))
  <2>1. k \in 0 .. Len(t)
    OBVIOUS
  <2> QED
    BY <2>1, IntactAfter
<1>4. Replacement(t, k, arg[i + 1]) \in
        {<<Dollar>>, <<Slot>>, SubSeq(t, k + 1, Len(t)), SubSeq(t, 1, k - 1)}
  BY ReplacementIs
<1> HIDE DEF Slot, Dollar
<1> QED
  BY <1>1, <1>2, <1>3, <1>4

LEMMA IntactBeforeMark ==
    ASSUME NEW P, NEW u \in Seq(P), NEW x \in P, x.text \in Marks, NEW v \in Seq(P),
           Intact(u \o (<<x>> \o v))
    PROVE  Intact(u)
<1> DEFINE t == u \o (<<x>> \o v)
           k == Len(u) + 1
<1>1. /\ t \in Seq(P) /\ k \in 1 .. Len(t) /\ t[k] = x
      /\ \A i \in 1 .. Len(u) : t[i] = u[i]
  OBVIOUS
<1>2. SubSeq(t, 1, k - 1) = u
  <2>1. k - 1 = Len(u) /\ Len(u) \in Nat
    OBVIOUS
  <2> HIDE DEF t, k
  <2>2. /\ SubSeq(t, 1, k - 1) \in Seq(P) /\ Len(SubSeq(t, 1, k - 1)) = Len(u)
        /\ \A i \in 1 .. Len(u) : SubSeq(t, 1, k - 1)[i] = t[i]
    BY <1>1, <2>1
  <2> QED
    BY <1>1, <2>2, SeqEqual
<1>3. Intact(SubSeq(t, 1, k - 1))
  <2>1. Intact(t)
    OBVIOUS
  <2> HIDE DEF t, k
  <2> QED
    BY <1>1, <2>1, IntactBefore
<1> QED
  BY <1>2, <1>3

\* What a text becomes when its patterns are replaced: each of them begins with
\* a dollar, which no comparison reaches over.
LEMMA ExpandIntact ==
    ASSUME NEW P, HasMarks(P), NEW t \in Seq(P), NEW arg \in Seq(P),
           NEW k \in 1 .. Len(t), t[k] = Slot, Intact(t), Intact(arg)
    PROVE  Intact(Expand(t, k, arg))
<1> DEFINE f == Parts(t, k, arg)
           n == Len(arg)
           pat == Patterns(arg)
           rest(i) == SubSeq(arg, i + 1, n)
<1>1. f \in Seq(Seq(P)) /\ Len(f) = n /\ n \in Nat
  BY PartsType
<1>2. \A i \in 1 .. n :
        /\ i - 1 \in pat => f[i] = <<>>
        /\ i - 1 \notin pat /\ i \in pat => f[i] = Replacement(t, k, arg[i + 1])
        /\ i - 1 \notin pat /\ i \notin pat => f[i] = <<arg[i]>>
  BY DEF Parts
<1>3. \A i \in pat : /\ i \in 1 .. n - 1 /\ arg[i].text \in Marks
                     /\ Intact(Replacement(t, k, arg[i + 1]))
  <2> HIDE DEF Slot, Dollar
  <2> QED
    BY ReplacementIs, ReplacementIntact, MarksAre
<1>4. \A i \in 0 .. n : rest(i) \in Seq(P) /\ Intact(rest(i))
  <2> SUFFICES ASSUME NEW i \in 0 .. n
               PROVE  rest(i) \in Seq(P) /\ Intact(rest(i))
    OBVIOUS
  <2>1. rest(i) \in Seq(P)
    OBVIOUS
  <2> QED
    BY <2>1, IntactAfter
<1>5. \A i \in 0 .. n : i # n => /\ arg[i + 1] \in P
                                 /\ rest(i) = <<arg[i + 1]>> \o rest(i + 1)
  <2> SUFFICES ASSUME NEW i \in 0 .. n, i # n
               PROVE  /\ arg[i + 1] \in P
                      /\ rest(i) = <<arg[i + 1]>> \o rest(i + 1)
    OBVIOUS
  <2> DEFINE l == rest(i)
             m == rest(i + 1)
             x == arg[i + 1]
  <2>1. /\ l \in Seq(P) /\ Len(l) = n - i
        /\ \A j \in 1 .. n - i : l[j] = arg[i + j]
    BY <1>1
  <2>2. /\ m \in Seq(P) /\ Len(m) = n - (i + 1)
        /\ \A j \in 1 .. n - (i + 1) : m[j] = arg[(i + 1) + j]
    BY <1>1
  <2>3. x \in P
    BY <1>1
  <2> HIDE DEF l, m, n, x
  <2>4. /\ <<x>> \o m \in Seq(P) /\ Len(<<x>> \o m) = n - i /\ (<<x>> \o m)[1] = x
        /\ \A j \in 2 .. n - i : (<<x>> \o m)[j] = m[j - 1]
    BY <1>1, <2>2, <2>3
  <2>5. ASSUME NEW j \in 1 .. n - i
        PROVE  l[j] = (<<x>> \o m)[j]
    <3>1. CASE j = 1
      BY <2>1, <2>4, <3>1 DEF x
    <3>2. CASE j # 1
      <4>1. j - 1 \in 1 .. n - (i + 1) /\ (i + 1) + (j - 1) = i + j /\ j \in 2 .. n - i
        BY <1>1, <3>2
      <4> QED
        BY <2>1, <2>2, <2>4, <4>1
    <3> QED
      BY <3>1, <3>2
  <2>6. l = <<x>> \o m
    BY <2>1, <2>4, <2>5, SeqEqual
  <2> QED
    BY <2>3, <2>6 DEF l, m, x
<1>6. rest(0) = arg /\ rest(n) = <<>>
  BY <1>1
<1>7. Expand(t, k, arg) = IF pat = {} THEN arg ELSE FlattenSeq(f)
  BY DEF Expand, Parts
<1> HIDE DEF f, n, pat, rest
<1>8. PICK g \in [0 .. n -> Seq(P)] :
             /\ g[0] = <<>>
             /\ \A i \in 1 .. n : g[i] = g[i - 1] \o f[i]
             /\ FlattenSeq(f) = g[n]
  BY <1>1, FlattenSteps
<1> DEFINE T == {i \in 0 .. n : /\ i \in pat => Intact(g[i])
                                /\ i \notin pat => Intact(g[i] \o rest(i))}
<1>9. 0 \in T
  <2>1. 0 \in 0 .. n /\ 0 \notin pat
    BY <1>1, <1>3
  <2>2. g[0] \o rest(0) = arg
    BY <1>6, <1>8
  <2> QED
    BY <2>1, <2>2
<1>10. ASSUME NEW i \in 0 .. n, i # n, i \in T
       PROVE  i + 1 \in T
  <2>1. i + 1 \in 1 .. n /\ i + 1 \in 0 .. n /\ (i + 1) - 1 = i
    BY <1>1, <1>10
  <2>2. g[i + 1] = g[i] \o f[i + 1] /\ g[i] \in Seq(P) /\ g[i + 1] \in Seq(P)
    BY <1>8, <2>1
  <2>3. rest(i + 1) \in Seq(P) /\ Intact(rest(i + 1))
    BY <1>4, <2>1
  <2>4. ASSUME Intact(g[i + 1])
        PROVE  i + 1 \in T
    <3>1. Intact(g[i + 1] \o rest(i + 1))
      BY <2>2, <2>3, <2>4, IntactConcat
    <3> QED
      BY <2>1, <2>4, <3>1
  <2>5. CASE i \in pat
    <3>1. f[i + 1] = <<>>
      BY <1>2, <2>1, <2>5
    <3>2. g[i + 1] = g[i]
      BY <2>2, <3>1, ConcatEmptySeq
    <3>3. Intact(g[i])
      BY <1>10, <2>5
    <3> QED
      BY <2>4, <3>2, <3>3
  <2>6. CASE i \notin pat
    <3> DEFINE x == arg[i + 1]
    <3>1. Intact(g[i] \o rest(i))
      BY <1>10, <2>6
    <3>2. x \in P /\ rest(i) = <<x>> \o rest(i + 1)
      BY <1>5, <1>10
    <3>3. CASE i + 1 \in pat
      <4>1. /\ f[i + 1] = Replacement(t, k, arg[(i + 1) + 1])
            /\ Intact(Replacement(t, k, arg[(i + 1) + 1])) /\ x.text \in Marks
        BY <1>2, <1>3, <2>1, <2>6, <3>3
      <4>2. Intact(f[i + 1]) /\ f[i + 1] \in Seq(P)
        BY <1>1, <2>1, <4>1
      <4>3. Intact(g[i] \o (<<x>> \o rest(i + 1)))
        BY <3>1, <3>2
      <4> HIDE DEF x
      <4>4. Intact(g[i])
        BY <2>2, <2>3, <3>2, <4>1, <4>3, IntactBeforeMark
      <4>5. Intact(g[i] \o f[i + 1])
        BY <2>2, <4>2, <4>4, IntactConcat
      <4> QED
        BY <2>2, <2>4, <4>5
    <3>4. CASE i + 1 \notin pat
      <4>1. f[i + 1] = <<x>>
        BY <1>2, <2>1, <2>6, <3>4
      <4> DEFINE one == <<x>>
      <4>2. one \in Seq(P)
        BY <3>2
      <4> HIDE DEF one
      <4>3. Bracketed(g[i], one, rest(i + 1))
        BY <2>2, <2>3, <4>2, BracketedTexts
      <4>4. g[i] \o rest(i) = g[i + 1] \o rest(i + 1)
        BY <2>2, <3>2, <4>1, <4>3 DEF Bracketed, one
      <4>5. Intact(g[i + 1] \o rest(i + 1))
        BY <3>1, <4>4
      <4> QED
        BY <2>1, <3>4, <4>5
    <3> QED
      BY <3>3, <3>4
  <2> QED
    BY <2>5, <2>6
<1>11. 0 .. n \subseteq T
  <2> HIDE DEF T
  <2> QED
    BY <1>1, <1>9, <1>10, UpTo
<1>12. Intact(g[n])
  <2>1. n \in T /\ n \notin pat
    BY <1>1, <1>3, <1>11
  <2>2. Intact(g[n] \o rest(n)) /\ g[n] \in Seq(P)
    BY <1>1, <1>8, <2>1
  <2> QED
    BY <1>6, <2>2, ConcatEmptySeq
<1> QED
  BY <1>7, <1>8, <1>12

\* Filling does not tear a comparison apart: there is neither a slot nor a
\* dollar in one.
LEMMA CheckedFill ==
    ASSUME NEW k \in Nat, NEW t \in Checked(k), NEW arg \in Checked(k)
    PROVE  Fill(t, arg) \in Checked(k)
<1> DEFINE P == [text : Stretches, esc : 0 .. k]
<1>1. t \in Seq(P) /\ arg \in Seq(P) /\ HasMarks(P)
  BY MarksType DEF Checked, Texts
<1>2. Intact(t) /\ Intact(arg)
  BY DEF Checked
<1> HIDE DEF P
<1>3. Fill(t, arg) \in Seq(P)
  BY <1>1, FillType
<1>4. Intact(Fill(t, arg))
  <2>1. CASE NoSlot(t)
    BY <1>2, <2>1, FillNone
  <2>2. CASE ~NoSlot(t)
    <3>1. PICK i \in 1 .. Len(t) : t[i] = Slot /\ \A j \in 1 .. i - 1 : t[j] # Slot
      BY <1>1, <2>2, FirstSlot
    <3> DEFINE u == SubSeq(t, 1, i - 1)
               v == SubSeq(t, i + 1, Len(t))
               x == Expand(t, i, arg)
    <3>2. Fill(t, arg) = u \o x \o v
      BY <1>1, <3>1, FillAt
    <3>3. Intact(u)
      BY <1>1, <1>2, <3>1, MarksAre, IntactBefore
    <3>4. Intact(v)
      <4>1. i \in 0 .. Len(t)
        BY <1>1
      <4> QED
        BY <1>1, <1>2, <4>1, IntactAfter
    <3>5. Intact(x) /\ x \in Seq(P)
      BY <1>1, <1>2, <3>1, ExpandIntact, ExpandType
    <3>6. u \in Seq(P) /\ v \in Seq(P)
      BY <1>1
    <3> HIDE DEF u, v, x
    <3>7. Intact(u \o x) /\ u \o x \in Seq(P)
      BY <3>3, <3>5, <3>6, IntactConcat
    <3>8. Intact((u \o x) \o v)
      BY <3>4, <3>6, <3>7, IntactConcat
    <3> QED
      BY <3>2, <3>8
  <2> QED
    BY <2>1, <2>2
<1> QED
  BY <1>3, <1>4 DEF Checked, Texts, P

LEMMA CheckedFillAll ==
    ASSUME NEW k \in Nat, NEW t \in Checked(k), NEW args \in Seq(Checked(k))
    PROVE  FillAll(t, args) \in Checked(k)
<1> DEFINE P == [text : Stretches, esc : 0 .. k]
           C == Checked(k)
<1>1. \A x \in C : \A y \in C : Fill(x, y) \in C
  BY CheckedFill
<1>2. HasMarks(P) /\ C \in SUBSET Seq(P)
  BY MarksType, CheckedType
<1>3. t \in C /\ args \in Seq(C)
  OBVIOUS
<1> HIDE DEF P, C
<1>4. FillAll(t, args) \in C
  BY <1>1, <1>2, <1>3, FillAllStays
<1> QED
  BY <1>4 DEF C

LEMMA CheckedEscape ==
    ASSUME NEW k \in Nat, NEW t \in Checked(k)
    PROVE  Escape(t) \in Checked(k + 1)
<1> DEFINE P == [text : Stretches, esc : 0 .. k]
           Q == [text : Stretches, esc : 0 .. k + 1]
           s == Escape(t)
<1>1. t \in Seq(P) /\ DOMAIN t = 1 .. Len(t) /\ Len(t) \in Nat
  BY DEF Checked, Texts
<1>2. ASSUME NEW x \in P
      PROVE  x \in Q /\ [x EXCEPT !.esc = @ + 1] \in Q
             /\ [x EXCEPT !.esc = @ + 1].text = x.text
  OBVIOUS
<1>3. \A i \in 1 .. Len(t) : t[i] \in P
  <2> HIDE DEF P
  <2> QED
    BY <1>1
<1>4. ASSUME NEW i \in 1 .. Len(t)
      PROVE  s[i] \in Q /\ s[i].text = t[i].text
  <2>1. s[i] = IF t[i].text \in Unescaped THEN t[i] ELSE [t[i] EXCEPT !.esc = @ + 1]
    BY <1>1 DEF Escape
  <2>2. t[i] \in P
    BY <1>3
  <2> HIDE DEF P, Q, s
  <2> QED
    BY <1>2, <2>1, <2>2
<1>5. DOMAIN s = 1 .. Len(t) /\ s = [i \in 1 .. Len(t) |-> s[i]]
  BY <1>1 DEF Escape
<1> HIDE DEF P, Q, s
<1>6. s \in [1 .. Len(t) -> Q]
  BY <1>4, <1>5
<1>7. s \in Seq(Q) /\ Len(s) = Len(t)
  BY <1>1, <1>6, FunctionIsSeq
<1>8. ASSUME Intact(t)
      PROVE  Intact(s)
  <2> SUFFICES ASSUME NEW i \in 1 .. Len(t), NEW type \in InertTypes,
                      s[i].text = Opening[type]
               PROVE  \E c \in Codes(type) : HasAt(s, i, c)
    BY <1>7 DEF Intact, WholeAt
  <2>1. t[i].text = Opening[type]
    BY <1>4
  <2>2. PICK c \in Codes(type) : HasAt(t, i, c)
    BY <1>8, <2>1 DEF Intact, WholeAt
  <2>3. Len(c) \in Nat /\ i + Len(c) - 1 <= Len(t)
    BY <2>2, CodesUnmarked DEF HasAt
  <2>4. \A j \in 1 .. Len(c) : i + j - 1 \in 1 .. Len(t)
    BY <1>1, <2>3
  <2>5. \A j \in 1 .. Len(c) : s[i + j - 1].text = t[i + j - 1].text
    BY <1>4, <2>4
  <2>6. HasAt(s, i, c)
    <3>1. i \in Int /\ Len(s) = Len(t) /\ i + Len(c) - 1 <= Len(s)
      BY <1>7, <2>3
    <3> HIDE DEF s
    <3> QED
      BY <2>2, <2>3, <2>5, <3>1, HasAtMoves
  <2> QED
    BY <2>6
<1> QED
  BY <1>7, <1>8 DEF Checked, Texts, Q, s

-----------------------------------------------------------------------------
(* What the program generates is checked. *)

\* Pieces that do not begin a comparison.
Plain == Stretches \ Range(Opening)
PlainPieces(k) == [text : Plain, esc : 0 .. k]

LEMMA TemplatesArePlain ==
    /\ {"%s", "$", "&", "'", "backquote", "{", "}", "]",
        "const rightValue =", "return leftValue", "rightValue",
        "requestParams[", "] ||", ")", "url = url.replace(", ",",
        "changeUrlWhenPathVariable", "return url", "GET", "POST", "url",
        "timeout", "private", "(): boolean {", "} method", "if this.",
        "setActivatedNodeId(", "return", "super.call()",
        "outputRequestBody = inputRequestBody", "class FlowNode_",
        "call() {", "} call", "} class"} \subseteq Plain
    /\ Range(SourceExpression) \cup Range(Operator) \subseteq Plain
<1> DEFINE fixed ==
       {"%s", "$", "&", "'", "backquote", "{", "}", "]",
        "const rightValue =", "return leftValue", "rightValue",
        "requestParams[", "] ||", ")", "url = url.replace(", ",",
        "changeUrlWhenPathVariable", "return url", "GET", "POST", "url",
        "timeout", "private", "(): boolean {", "} method", "if this.",
        "setActivatedNodeId(", "return", "super.call()",
        "outputRequestBody = inputRequestBody", "class FlowNode_",
        "call() {", "} call", "} class"}
<1>1. fixed \subseteq Stretches
  BY TemplateAssumption
<1>2. \A x \in fixed : x \notin Range(Opening)
  BY OpeningRange
<1>3. fixed \subseteq Plain
  <2> HIDE DEF fixed
  <2> QED
    BY <1>1, <1>2 DEF Plain
<1>4. /\ Range(SourceExpression) = {"this.getRequestHeader()", "this.getRequestParam()"}
      /\ Range(Operator) = {"==", "!=", ">", ">=", "<", "<="}
  BY DEF Range, SourceExpression, Operator
<1>5. \A x \in Range(SourceExpression) \cup Range(Operator) : x \notin Range(Opening)
  BY <1>4, OpeningRange
<1>6. Range(SourceExpression) \cup Range(Operator) \subseteq Plain
  BY <1>5, TemplateAssumption DEF Plain
<1> QED
  BY <1>3, <1>6

LEMMA SeqOfOne ==
    ASSUME NEW S, NEW a \in S
    PROVE  <<a>> \in Seq(S)
OBVIOUS

LEMMA SeqOfTwo ==
    ASSUME NEW S, NEW a \in S, NEW b \in S
    PROVE  <<a, b>> \in Seq(S)
OBVIOUS

LEMMA SeqOfThree ==
    ASSUME NEW S, NEW a \in S, NEW b \in S, NEW c \in S
    PROVE  <<a, b, c>> \in Seq(S)
OBVIOUS

LEMMA SeqOfFive ==
    ASSUME NEW S, NEW a \in S, NEW b \in S, NEW c \in S, NEW d \in S, NEW e \in S
    PROVE  <<a, b, c, d, e>> \in Seq(S)
OBVIOUS

LEMMA SeqOfSix ==
    ASSUME NEW S, NEW a \in S, NEW b \in S, NEW c \in S, NEW d \in S, NEW e \in S,
           NEW f \in S
    PROVE  <<a, b, c, d, e, f>> \in Seq(S)
OBVIOUS

LEMMA SeqOfEight ==
    ASSUME NEW S, NEW a \in S, NEW b \in S, NEW c \in S, NEW d \in S, NEW e \in S,
           NEW f \in S, NEW g \in S, NEW h \in S
    PROVE  <<a, b, c, d, e, f, g, h>> \in Seq(S)
OBVIOUS

LEMMA PlainPiece ==
    ASSUME NEW k \in Nat, NEW name \in Plain
    PROVE  Piece(name) \in PlainPieces(k)
BY DEF Piece, PlainPieces

LEMMA PlainSlot ==
    ASSUME NEW k \in Nat
    PROVE  Slot \in PlainPieces(k)
<1>1. "%s" \in Plain
  BY TemplatesArePlain
<1> QED
  BY <1>1, PlainPiece DEF Slot

LEMMA PlainIsChecked ==
    ASSUME NEW k \in Nat
    PROVE  Seq(PlainPieces(k)) \subseteq Checked(k)
<1> DEFINE P == [text : Stretches, esc : 0 .. k]
<1> SUFFICES ASSUME NEW t \in Seq(PlainPieces(k))
             PROVE  t \in Checked(k)
  OBVIOUS
<1>1. PlainPieces(k) \subseteq P
  BY DEF PlainPieces, Plain
<1>2. t \in Seq(P)
  <2> HIDE DEF P
  <2> QED
    BY <1>1
<1>3. \A i \in 1 .. Len(t) : t[i].text \notin Range(Opening)
  <2>1. \A i \in 1 .. Len(t) : t[i] \in PlainPieces(k)
    OBVIOUS
  <2> QED
    BY <2>1 DEF PlainPieces, Plain
<1>4. \A type \in InertTypes : Opening[type] \in Range(Opening)
  BY DEF InertTypes, Range, Opening
<1>5. Intact(t)
  BY <1>3, <1>4 DEF Intact, WholeAt
<1> QED
  BY <1>2, <1>5 DEF Checked, Texts

\* What comes from outside is plain.
LEMMA ApartIsPlain ==
    ASSUME NEW k \in Nat, NEW t \in Texts(0),
           \A type \in DataTypes : \A i \in DOMAIN t : t[i].text # Opening[type]
    PROVE  t \in Seq(PlainPieces(k))
<1> DEFINE P == [text : Stretches, esc : 0 .. 0]
           Q == PlainPieces(k)
<1>1. t \in Seq(P) /\ DOMAIN t = 1 .. Len(t) /\ Len(t) \in Nat
  BY DEF Texts
<1>2. \A i \in 1 .. Len(t) : t[i] \in P
  <2> HIDE DEF P
  <2> QED
    BY <1>1
<1>3. \A i \in 1 .. Len(t) : t[i].text \notin Range(Opening)
  <2>1. DOMAIN Opening = DataTypes
    BY DEF Opening
  <2> QED
    BY <1>1, <2>1 DEF Range
<1>4. \A x \in P : x.text \notin Range(Opening) => x \in Q
  BY DEF PlainPieces, Plain
<1>5. \A i \in 1 .. Len(t) : t[i] \in Q
  <2> HIDE DEF P, Q
  <2> QED
    BY <1>2, <1>3, <1>4
<1>6. t = [i \in 1 .. Len(t) |-> t[i]]
  BY <1>1
<1> HIDE DEF P, Q
<1>7. t \in [1 .. Len(t) -> Q]
  BY <1>5, <1>6
<1> QED
  BY <1>1, <1>7, FunctionIsSeq DEF Q

LEMMA PlainMarks ==
    ASSUME NEW k \in Nat
    PROVE  HasMarks(PlainPieces(k))
<1>1. "$" \in Plain
  BY TemplatesArePlain
<1> QED
  BY <1>1, PlainPiece, PlainSlot DEF HasMarks, Dollar

LEMMA PlainFillAll ==
    ASSUME NEW k \in Nat, NEW t \in Seq(PlainPieces(k)),
           NEW args \in Seq(Seq(PlainPieces(k)))
    PROVE  FillAll(t, args) \in Seq(PlainPieces(k))
<1> DEFINE P == PlainPieces(k)
           C == Seq(P)
<1>0. HasMarks(P)
  BY PlainMarks
<1>1. \A x \in C : \A y \in C : Fill(x, y) \in C
  BY <1>0, FillType
<1>2. C \in SUBSET Seq(P)
  OBVIOUS
<1> HIDE DEF C, P
<1>3. t \in C /\ args \in Seq(C)
  BY DEF C, P
<1>4. FillAll(t, args) \in C
  BY <1>0, <1>1, <1>2, <1>3, FillAllStays
<1> QED
  BY <1>4 DEF C, P

LEMMA PathStatementPlain ==
    ASSUME NEW k \in Nat, NEW param,
           param.name \in Seq(PlainPieces(k)), param.default \in Seq(PlainPieces(k))
    PROVE  PathStatement(param) \in Seq(PlainPieces(k))
<1> DEFINE P == PlainPieces(k)
           C == Seq(P)
           name == param.name
           default == param.default
           braced == <<Piece("{")>> \o name \o <<Piece("}")>>
<1>1. {"requestParams[", "'", "] ||", ")", "url = url.replace(", ",", "{", "}"} \subseteq Plain
  BY TemplatesArePlain
<1>2. /\ Piece("requestParams[") \in P /\ Piece("'") \in P /\ Piece("] ||") \in P
      /\ Piece(")") \in P /\ Piece("url = url.replace(") \in P /\ Piece(",") \in P
      /\ Piece("{") \in P /\ Piece("}") \in P /\ Slot \in P
  BY <1>1, PlainPiece, PlainSlot
<1>3. name \in Seq(P) /\ default \in Seq(P)
  OBVIOUS
<1> HIDE DEF P, name, default
<1>4. PathValTemplate \in Seq(P) /\ PathReplaceTemplate \in Seq(P)
  BY <1>2, SeqOfFive, SeqOfSix DEF PathValTemplate, PathReplaceTemplate
<1>5. braced \in Seq(P)
  <2> DEFINE open == <<Piece("{")>>
             close == <<Piece("}")>>
  <2>1. open \in Seq(P) /\ close \in Seq(P)
    BY <1>2, SeqOfOne
  <2> HIDE DEF open, close
  <2>2. open \o name \o close \in Seq(P)
    BY <1>3, <2>1
  <2> QED
    BY <2>2 DEF open, close
<1> HIDE DEF braced
<1>6. <<name, default>> \in Seq(C)
  <2> HIDE DEF C
  <2> QED
    BY <1>3, SeqOfTwo DEF C
<1>7. PathVal(param) \in Seq(P)
  BY <1>4, <1>6, PlainFillAll DEF PathVal, P, C, name, default
<1>8. <<braced, PathVal(param)>> \in Seq(C)
  <2> HIDE DEF C
  <2> QED
    BY <1>5, <1>7, SeqOfTwo DEF C
<1> QED
  BY <1>4, <1>8, PlainFillAll DEF PathStatement, P, C, braced, name

LEMMA PathMethodPlain ==
    ASSUME NEW k \in Nat, NEW http \in Https
    PROVE  PathMethod(http) \in Seq(PlainPieces(k))
<1> DEFINE P == PlainPieces(k)
           C == Seq(P)
           params == http.params
           args == [i \in DOMAIN params |-> PathStatement(params[i])]
<1>1. params \in Seq(Param) /\ DOMAIN params = 1 .. Len(params) /\ Len(params) \in Nat
  <2>1. params \in Seq(Param)
    BY InputAssumption DEF Http
  <2> QED
    BY <2>1
<1>2. ASSUME NEW i \in 1 .. Len(params)
      PROVE  params[i].name \in C /\ params[i].default \in C
  <2>1. params[i] \in Param
    <3> HIDE DEF params
    <3> QED
      BY <1>1
  <2>2. params[i].name \in Texts(0) /\ params[i].default \in Texts(0)
    BY <2>1 DEF Param
  <2>3. \A type \in DataTypes :
            /\ \A j \in DOMAIN params[i].name : params[i].name[j].text # Opening[type]
            /\ \A j \in DOMAIN params[i].default :
                    params[i].default[j].text # Opening[type]
    BY <1>1, NameAssumption
  <2> HIDE DEF params
  <2> QED
    BY <2>2, <2>3, ApartIsPlain
<1>3. \A i \in 1 .. Len(params) : args[i] \in C
  BY <1>1, <1>2, PathStatementPlain
<1>4. args \in Seq(C)
  <2>1. args \in [1 .. Len(params) -> C]
    BY <1>1, <1>3
  <2> HIDE DEF args, C
  <2> QED
    BY <1>1, <2>1, FunctionIsSeq
<1>5. FlattenSeq(args) \in C
  <2>1. \A x \in C : \A y \in C : x \o y \in C
    OBVIOUS
  <2>2. <<>> \in C /\ C \in SUBSET Seq(P)
    OBVIOUS
  <2> HIDE DEF args, C, P
  <2> QED
    BY <1>4, <2>1, <2>2, FlattenStays
<1>6. PathMethodTemplate \in C
  <2>1. {"changeUrlWhenPathVariable", "return url"} \subseteq Plain
    BY TemplatesArePlain
  <2>2. /\ Piece("changeUrlWhenPathVariable") \in P /\ Piece("return url") \in P
        /\ Slot \in P
    BY <2>1, PlainPiece, PlainSlot
  <2> HIDE DEF P
  <2> QED
    BY <2>2, SeqOfThree DEF PathMethodTemplate
<1>7. PathMethod(http) = Fill(PathMethodTemplate, FlattenSeq(args))
  BY DEF PathMethod
<1> HIDE DEF args
<1> QED
  BY <1>5, <1>6, <1>7, PlainMarks, FillType

LEMMA HttpCodePlain ==
    ASSUME NEW k \in Nat, NEW http \in Https, HttpFits(http)
    PROVE  HttpCode(http) \in Seq(PlainPieces(k))
<1> DEFINE P == PlainPieces(k)
<1>1. {"GET", "POST", "url", "timeout"} \subseteq Plain
  BY TemplatesArePlain
<1>2. http.method \in Plain
  BY <1>1 DEF HttpFits
<1>3. Piece(http.method) \in P /\ Piece("url") \in P /\ Piece("timeout") \in P
  BY <1>1, <1>2, PlainPiece
<1> HIDE DEF P
<1>4. HttpTemplate(http.method) \in Seq(P)
  BY <1>3 DEF HttpTemplate
<1>5. <<<<Piece("url")>>, <<Piece("timeout")>>>> \in Seq(Seq(P))
  BY <1>3
<1> QED
  BY <1>4, <1>5, PlainFillAll DEF HttpCode, P

\* The pieces of a comparison, put together in another way.
EightOf(P, a, w, q, r, b, c, z, d) ==
    a \in P /\ w \in P /\ q \in P /\ r \in P /\ b \in P /\ c \in P /\ z \in P /\ d \in P

Regrouped(a, w, q, r, b, c, z, d, x, y) ==
    ThreeFilled(a, <<w>> \o x \o <<q, r>>, b, y, c, <<z>>, d)
        = <<a, w>> \o x \o <<q, r, b>> \o y \o <<c, z, d>>

LEMMA ComparisonRegrouped ==
    ASSUME NEW P, NEW a, NEW w, NEW q, NEW r, NEW b, NEW c, NEW z, NEW d,
           EightOf(P, a, w, q, r, b, c, z, d), NEW x \in Seq(P), NEW y \in Seq(P)
    PROVE  Regrouped(a, w, q, r, b, c, z, d, x, y)
<1> DEFINE one == <<a>>
           two == <<w>>
           pair == <<q, r>>
           last == <<b>>
           both == two \o x
           begun == <<a, w>> \o x
           upto == <<a, w>> \o x \o <<q, r, b>> \o y
<1> USE DEF EightOf
<1>1. one \in Seq(P) /\ two \in Seq(P) /\ pair \in Seq(P) /\ last \in Seq(P)
  OBVIOUS
<1>2. one \o two = <<a, w>> /\ pair \o last = <<q, r, b>> /\ <<a, w>> \in Seq(P)
  <2>1. <<a, w>> \in Seq(P)
    OBVIOUS
  <2>2. one \o two = <<a, w>>
    BY OneAndOne
  <2>3. pair \o last = <<q, r, b>>
    BY ONLY q \in P, r \in P, b \in P, TwoAndOne DEF pair, last
  <2> QED
    BY <2>1, <2>2, <2>3
<1>3. both \in Seq(P) /\ begun \in Seq(P)
  <2> HIDE DEF two
  <2>1. two \o x \in Seq(P)
    BY <1>1
  <2>2. <<a, w>> \o x \in Seq(P)
    BY <1>2
  <2> QED
    BY <2>1, <2>2
<1>4. begun = one \o both
  <2>1. Bracketed(one, two, x)
    BY <1>1, BracketedTexts
  <2> QED
    BY <1>2, <2>1 DEF Bracketed
<1> HIDE DEF one, two, pair, last
<1>5. one \o (both \o pair) \o last = begun \o <<q, r, b>>
  <2> HIDE DEF both, begun
  <2>1. Bracketed(one, both, pair)
    BY <1>1, <1>3, BracketedTexts
  <2>2. Bracketed(begun, pair, last)
    BY <1>1, <1>3, BracketedTexts
  <2> QED
    BY <1>2, <1>4, <2>1, <2>2 DEF Bracketed
<1>6. upto \in Seq(P)
  <2> HIDE DEF begun
  <2>1. begun \o <<q, r, b>> \in Seq(P)
    BY <1>3
  <2>2. (begun \o <<q, r, b>>) \o y \in Seq(P)
    BY <2>1
  <2> QED
    BY <2>2 DEF begun
<1>7. ThreeFilled(a, two \o x \o pair, b, y, c, <<z>>, d)
        = upto \o <<c>> \o <<z>> \o <<d>>
  BY <1>5 DEF ThreeFilled, one, last
<1> HIDE DEF upto
<1>8. upto \o <<c>> \o <<z>> \o <<d>> = upto \o <<c, z, d>>
  <2>1. Bracketed(upto, <<c>>, <<z>>) /\ Bracketed(upto, <<c, z>>, <<d>>)
    <3>1. <<c>> \in Seq(P) /\ <<z>> \in Seq(P) /\ <<c, z>> \in Seq(P) /\ <<d>> \in Seq(P)
      OBVIOUS
    <3> QED
      BY <1>6, <3>1, BracketedTexts
  <2>2. <<c>> \o <<z>> = <<c, z>> /\ <<c, z>> \o <<d>> = <<c, z, d>>
    BY ONLY c \in P, z \in P, d \in P, OneAndOne, TwoAndOne
  <2> QED
    BY <2>1, <2>2 DEF Bracketed
<1> QED
  BY <1>7, <1>8 DEF upto, two, pair, Regrouped

\* The first piece of five parts, apart from the rest.
FirstApart(P, a, w, x, m, y, e) ==
    /\ <<w>> \o x \o m \o y \o e \in Seq(P)
    /\ <<a, w>> \o x \o m \o y \o e = <<a>> \o (<<w>> \o x \o m \o y \o e)

LEMMA FirstOfFive ==
    ASSUME NEW P, NEW a \in P, NEW w \in P, NEW x \in Seq(P), NEW m \in Seq(P),
           NEW y \in Seq(P), NEW e \in Seq(P)
    PROVE  FirstApart(P, a, w, x, m, y, e)
<1> DEFINE one == <<a>>
           two == <<w>>
           u == two \o x
           v == u \o m
           s == v \o y
<1>1. one \in Seq(P) /\ two \in Seq(P) /\ one \o two = <<a, w>>
  BY OneAndOne
<1>2. u \in Seq(P) /\ Bracketed(one, two, x)
  <2> HIDE DEF one, two
  <2> QED
    BY <1>1, BracketedTexts
<1> HIDE DEF one, u
<1>3. v \in Seq(P) /\ Bracketed(one, u, m)
  BY <1>1, <1>2, BracketedTexts
<1> HIDE DEF v
<1>4. s \in Seq(P) /\ Bracketed(one, v, y)
  BY <1>1, <1>3, BracketedTexts
<1> HIDE DEF s
<1>5. s \o e \in Seq(P) /\ Bracketed(one, s, e)
  BY <1>1, <1>4, BracketedTexts
<1>6. <<a, w>> \o x = one \o u
  BY <1>1, <1>2 DEF Bracketed, u
<1>7. one \o u \o m = one \o v
  BY <1>3 DEF Bracketed, v
<1>8. one \o v \o y = one \o s
  BY <1>4 DEF Bracketed, s
<1>9. one \o s \o e = one \o (s \o e)
  BY <1>5 DEF Bracketed
<1>10. s \o e = two \o x \o m \o y \o e
  BY DEF s, v, u
<1> QED
  BY <1>5, <1>6, <1>7, <1>8, <1>9, <1>10 DEF one, FirstApart

LEMMA ConditionPlain ==
    ASSUME NEW k \in Nat, NEW route \in Routes, Len(route) = 1
    PROVE  /\ route[1] \in Meta
           /\ route[1].key \in Seq(PlainPieces(k))
           /\ route[1].value \in Seq(PlainPieces(k))
           /\ Piece(SourceExpression[route[1].source]) \in PlainPieces(k)
           /\ Piece(Operator[route[1].op]) \in PlainPieces(k)
<1> DEFINE meta == route[1]
<1>1. meta \in Meta /\ 1 \in DOMAIN route
  BY RouteIs
<1>2. /\ meta.source \in DOMAIN SourceExpression /\ meta.op \in DOMAIN Operator
      /\ meta.key \in Texts(0) /\ meta.value \in Texts(0)
  BY <1>1 DEF Meta
<1>3. SourceExpression[meta.source] \in Plain /\ Operator[meta.op] \in Plain
  BY <1>2, TemplatesArePlain DEF Range
<1>4. \A type \in DataTypes :
        /\ \A j \in DOMAIN meta.key : meta.key[j].text # Opening[type]
        /\ \A j \in DOMAIN meta.value : meta.value[j].text # Opening[type]
  BY <1>1, NameAssumption
<1> HIDE DEF meta
<1>5. meta.key \in Seq(PlainPieces(k)) /\ meta.value \in Seq(PlainPieces(k))
  BY <1>2, <1>4, ApartIsPlain
<1> QED
  BY <1>1, <1>3, <1>5, PlainPiece DEF meta

\* The stretches of a comparison that are always the same.
LEMMA FixedPlain ==
    ASSUME NEW k \in Nat
    PROVE  /\ Piece("'") \in PlainPieces(k) /\ Piece("]") \in PlainPieces(k)
           /\ Piece("const rightValue =") \in PlainPieces(k)
           /\ Piece("return leftValue") \in PlainPieces(k)
           /\ Piece("rightValue") \in PlainPieces(k)
<1>1. {"'", "]", "const rightValue =", "return leftValue", "rightValue"} \subseteq Plain
  BY TemplatesArePlain
<1> QED
  BY <1>1, PlainPiece

\* Different types have different beginnings, none of them plain.
LEMMA OpeningsDiffer ==
    /\ \A s \in DataTypes : Opening[s] \in Stretches /\ Opening[s] \in Range(Opening)
    /\ \A s \in DataTypes : \A type \in DataTypes : Opening[s] = Opening[type] => s = type
<1>1. DOMAIN Opening = DataTypes
  BY DEF Opening
<1>2. \A s \in DataTypes : Opening[s] \in Range(Opening)
  BY <1>1 DEF Range
<1>3. \A s \in DataTypes : Opening[s] \in Stretches
  BY <1>2, TemplateAssumption
<1>4. \A s \in DataTypes : \A type \in DataTypes : Opening[s] = Opening[type] => s = type
  BY DEF Opening, DataTypes
<1> QED
  BY <1>2, <1>3, <1>4

\* Where key and value are inert, the code is the comparison.
LEMMA RouteCodeIsComparison ==
    ASSUME NEW route \in Routes, Len(route) = 1,
           Inert(route[1].key), Inert(route[1].value)
    PROVE  RouteCode(route) = Comparison(route[1])
<1> DEFINE P == [text : Stretches, esc : 0 .. 0]
           meta == route[1]
           a == Piece(Opening[meta.type])
           b == Piece("const rightValue =")
           c == Piece("return leftValue")
           d == Piece("rightValue")
           w == Piece(SourceExpression[meta.source])
           z == Piece(Operator[meta.op])
           q == Piece("'")
           r == Piece("]")
           x == meta.key
           y == meta.value
<1>1. meta \in Meta
  BY RouteIs
<1>2. /\ a \in P /\ b \in P /\ c \in P /\ d \in P /\ w \in P /\ z \in P
      /\ q \in P /\ r \in P
  <2>1. \A name \in Stretches \ Marks : Piece(name) \in P
    BY DEF Piece
  <2> HIDE DEF P, Piece
  <2> QED
    BY <1>1, <2>1, ComparisonStretches
<1>3. /\ a # Slot /\ b # Slot /\ c # Slot /\ d # Slot /\ w # Slot /\ z # Slot
      /\ q # Slot /\ r # Slot
      /\ w # Dollar /\ z # Dollar /\ q # Dollar /\ r # Dollar
  BY <1>1, ComparisonStretches, PieceIsBare
<1>4. x \in Seq(P) /\ y \in Seq(P) /\ HasMarks(P)
  BY <1>1, MarksType DEF Meta, Texts
<1> DEFINE left == <<w>> \o x \o <<q, r>>
           op == <<z>>
<1>5. RouteCode(route) = FillAll(ThreeTemplate(a, b, c, d), <<left, y, op>>)
  BY DEF RouteCode, Compare, CompareTemplate, ThreeTemplate, LeftValue
<1>6. Comparison(meta) = <<a, w>> \o x \o <<q, r, b>> \o y \o <<c, z, d>>
  BY DEF Comparison
<1>7. Bare(x) /\ Bare(y)
  <2>1. Inert(x) /\ Inert(y)
    OBVIOUS
  <2> HIDE DEF x, y, P
  <2> QED
    BY <1>4, <2>1, InertIsBare
<1> HIDE DEF P, a, b, c, d, w, z, q, r, x, y
<1>8. left \in Seq(P) /\ Bare(left)
  <2> DEFINE one == <<w>>
             two == <<q, r>>
  <2>1. one \in Seq(P) /\ Bare(one)
    BY <1>2, <1>3, BareOne
  <2>2. two \in Seq(P) /\ Bare(two)
    BY <1>2, <1>3 DEF Bare
  <2> HIDE DEF one, two
  <2>3. one \o x \in Seq(P) /\ Bare(one \o x)
    BY <1>4, <1>7, <2>1, BareConcat
  <2> DEFINE most == one \o x
  <2> HIDE DEF most
  <2>4. most \in Seq(P) /\ Bare(most)
    BY <2>3 DEF most
  <2>5. most \o two \in Seq(P)
    BY <2>2, <2>4
  <2>6. Bare(most \o two)
    BY <2>2, <2>4, BareConcat
  <2> QED
    BY <2>5, <2>6 DEF most, one, two
<1>9. op \in Seq(P) /\ Bare(op)
  BY <1>2, <1>3, BareOne
<1>10. ThreeFilled(a, left, b, y, c, op, d)
         = <<a, w>> \o x \o <<q, r, b>> \o y \o <<c, z, d>>
  <2>1. EightOf(P, a, w, q, r, b, c, z, d)
    BY <1>2 DEF EightOf
  <2>2. Regrouped(a, w, q, r, b, c, z, d, x, y)
    BY <1>4, <2>1, ComparisonRegrouped
  <2> QED
    BY <2>2 DEF Regrouped
<1> HIDE DEF left, op
<1>11. FillAll(ThreeTemplate(a, b, c, d), <<left, y, op>>)
         = ThreeFilled(a, left, b, y, c, op, d)
  <2>1. ThreeFixed(P, a, b, c, d)
    BY <1>2, <1>3, <1>4 DEF ThreeFixed
  <2> QED
    BY <1>4, <1>7, <1>8, <1>9, <2>1, ThreeSlots
<1> QED
  BY <1>5, <1>6, <1>10, <1>11 DEF meta

\* A comparison begins at its beginning and nowhere else.
LEMMA ComparisonIntact ==
    ASSUME NEW route \in Routes, Len(route) = 1,
           route[1].value \in ValuesOf(route[1].type), route[1].type \in InertTypes
    PROVE  Intact(Comparison(route[1]))
<1> DEFINE P == PlainPieces(0)
           meta == route[1]
           a == Piece(Opening[meta.type])
           rest == <<Piece(SourceExpression[meta.source])>> \o meta.key
                   \o <<Piece("'"), Piece("]"), Piece("const rightValue =")>> \o meta.value
                   \o <<Piece("return leftValue"), Piece(Operator[meta.op]),
                        Piece("rightValue")>>
           t == Comparison(meta)
<1>1. /\ meta \in Meta /\ meta.key \in Seq(P) /\ meta.value \in Seq(P)
      /\ Piece(SourceExpression[meta.source]) \in P /\ Piece(Operator[meta.op]) \in P
      /\ Piece("'") \in P /\ Piece("]") \in P /\ Piece("const rightValue =") \in P
      /\ Piece("return leftValue") \in P /\ Piece("rightValue") \in P
  BY ConditionPlain, FixedPlain
<1> DEFINE Q == P \cup {a}
           w == Piece(SourceExpression[meta.source])
           x == meta.key
           m == <<Piece("'"), Piece("]"), Piece("const rightValue =")>>
           y == meta.value
           e == <<Piece("return leftValue"), Piece(Operator[meta.op]), Piece("rightValue")>>
<1>2. rest \in Seq(P)
  <2>1. m \in Seq(P) /\ e \in Seq(P)
    BY <1>1, SeqOfThree
  <2>2. w \in P /\ x \in Seq(P) /\ y \in Seq(P)
    BY <1>1
  <2>3. rest = <<w>> \o x \o m \o y \o e
    OBVIOUS
  <2> HIDE DEF P, w, x, m, y, e, rest
  <2>4. FirstApart(P, w, w, x, m, y, e)
    BY <2>1, <2>2, FirstOfFive
  <2> QED
    BY <2>3, <2>4 DEF FirstApart
<1>3. /\ Len(t) = 1 + Len(rest) /\ Len(rest) \in Nat /\ t[1] = a
      /\ \A i \in 1 .. Len(rest) : t[i + 1] = rest[i]
  <2>1. t = <<a, w>> \o x \o m \o y \o e
    BY DEF Comparison
  <2>2. rest = <<w>> \o x \o m \o y \o e
    OBVIOUS
  <2>3. a \in Q /\ w \in Q
    BY <1>1
  <2>4. P \subseteq Q
    OBVIOUS
  <2>5. m \in Seq(Q) /\ e \in Seq(Q)
    <3>1. m \in Seq(P) /\ e \in Seq(P)
      BY <1>1, SeqOfThree
    <3> HIDE DEF P, Q, m, e
    <3> QED
      BY <2>4, <3>1
  <2>6. x \in Seq(Q) /\ y \in Seq(Q)
    <3>1. x \in Seq(P) /\ y \in Seq(P)
      BY <1>1
    <3> HIDE DEF P, Q, x, y
    <3> QED
      BY <2>4, <3>1
  <2> HIDE DEF P, Q, a, w, x, m, y, e, t, rest
  <2>7. t = <<a>> \o rest
    <3>1. FirstApart(Q, a, w, x, m, y, e)
      BY <2>3, <2>5, <2>6, FirstOfFive
    <3> QED
      BY <2>1, <2>2, <3>1 DEF FirstApart
  <2>8. rest \in Seq(Q)
    BY <1>2, <2>4
  <2>9. <<a>> \in Seq(Q) /\ Len(<<a>>) = 1 /\ <<a>>[1] = a
    BY <2>3
  <2> QED
    BY <2>7, <2>8, <2>9
<1>4. a.text = Opening[meta.type] /\ meta.type \in DataTypes
  BY DEF Piece, InertTypes
<1>5. t \in Codes(meta.type)
  BY DEF Codes
<1>6. HasAt(t, 1, t)
  <2> HIDE DEF t, rest
  <2> QED
    BY <1>3 DEF HasAt
<1>7. \A i \in 1 .. Len(rest) : rest[i].text \notin Range(Opening)
  <2>1. \A i \in 1 .. Len(rest) : rest[i] \in P
    <3> HIDE DEF rest, P
    <3> QED
      BY <1>2
  <2> QED
    BY <2>1 DEF PlainPieces, Plain
<1> HIDE DEF t, rest, a, meta
<1>8. ASSUME NEW i \in 1 .. Len(t), NEW type \in InertTypes, t[i].text = Opening[type]
      PROVE  \E c \in Codes(type) : HasAt(t, i, c)
  <2>1. type \in DataTypes
    BY DEF InertTypes
  <2>2. CASE i = 1
    <3>1. Opening[type] = Opening[meta.type]
      BY <1>3, <1>4, <1>8, <2>2
    <3>2. type = meta.type
      BY <1>4, <2>1, <3>1, OpeningsDiffer
    <3> QED
      BY <1>5, <1>6, <2>2, <3>2
  <2>3. CASE i # 1
    <3>1. i - 1 \in 1 .. Len(rest) /\ (i - 1) + 1 = i
      BY <1>3, <2>3
    <3>2. t[i] = rest[i - 1]
      BY <1>3, <3>1
    <3>3. t[i].text \notin Range(Opening)
      BY <1>7, <3>1, <3>2
    <3> QED
      BY <1>8, <2>1, <3>3, OpeningsDiffer
  <2> QED
    BY <2>2, <2>3
<1>9. Intact(t)
  BY <1>8 DEF Intact, WholeAt
<1> QED
  BY <1>9 DEF t, meta

\* Whatever a key and a value do to the template, no other beginning comes in.
LEMMA RouteCodePieces ==
    ASSUME NEW k \in Nat, NEW route \in Routes, Len(route) = 1
    PROVE  RouteCode(route)
             \in Seq([text : Plain \cup {Opening[route[1].type]}, esc : 0 .. k])
<1> DEFINE meta == route[1]
           P == [text : Plain \cup {Opening[meta.type]}, esc : 0 .. k]
           C == Seq(P)
           a == Piece(Opening[meta.type])
           b == Piece("const rightValue =")
           c == Piece("return leftValue")
           d == Piece("rightValue")
           w == Piece(SourceExpression[meta.source])
           z == Piece(Operator[meta.op])
           q == Piece("'")
           r == Piece("]")
           x == meta.key
           y == meta.value
           left == <<w>> \o x \o <<q, r>>
           op == <<z>>
           args == <<left, y, op>>
<1>1. PlainPieces(k) \subseteq P
  BY DEF PlainPieces
<1>2. a \in P
  BY DEF Piece
<1>3. /\ b \in P /\ c \in P /\ d \in P /\ w \in P /\ z \in P /\ q \in P /\ r \in P
  <2> HIDE DEF P
  <2> QED
    BY <1>1, ConditionPlain, FixedPlain
<1>4. x \in Seq(P) /\ y \in Seq(P)
  <2>1. x \in Seq(PlainPieces(k)) /\ y \in Seq(PlainPieces(k))
    BY ConditionPlain
  <2> HIDE DEF P, x, y
  <2> QED
    BY <1>1, <2>1
<1>5. HasMarks(P) /\ Slot \in P
  <2>1. HasMarks(PlainPieces(k))
    BY PlainMarks
  <2> HIDE DEF P, Slot, Dollar
  <2> QED
    BY <1>1, <2>1 DEF HasMarks
<1>6. RouteCode(route) = FillAll(ThreeTemplate(a, b, c, d), args)
  BY DEF RouteCode, Compare, CompareTemplate, ThreeTemplate, LeftValue
<1> HIDE DEF P, a, b, c, d, w, z, q, r, x, y
<1>7. ThreeTemplate(a, b, c, d) \in Seq(P)
  BY <1>2, <1>3, <1>5 DEF ThreeTemplate
<1>8. left \in Seq(P) /\ op \in Seq(P)
  BY <1>3, <1>4
<1> HIDE DEF left, op
<1>9. args \in Seq(C)
  <2> HIDE DEF C
  <2>1. left \in C /\ y \in C /\ op \in C
    BY <1>4, <1>8 DEF C
  <2> QED
    BY <2>1, SeqOfThree
<1>10. \A u \in C : \A v \in C : Fill(u, v) \in C
  BY <1>5, FillType
<1>11. C \in SUBSET Seq(P) /\ ThreeTemplate(a, b, c, d) \in C
  BY <1>7
<1> HIDE DEF C, args
<1>12. FillAll(ThreeTemplate(a, b, c, d), args) \in C
  BY <1>5, <1>9, <1>10, <1>11, FillAllStays
<1> QED
  BY <1>6, <1>12 DEF C, P, meta

\* The comparison of a condition that modify accepts.
LEMMA RouteCodeChecked ==
    ASSUME NEW k \in Nat, NEW route \in Routes, RouteFits(route)
    PROVE  RouteCode(route) \in Checked(k)
<1> DEFINE meta == route[1]
           own == Opening[meta.type]
           P == [text : Plain \cup {own}, esc : 0 .. k]
           Q == [text : Stretches, esc : 0 .. k]
           t == RouteCode(route)
<1>1. Len(route) = 1 /\ meta \in Meta /\ meta.type \in DataTypes
  <2>1. Len(route) = 1
    BY DEF RouteFits
  <2> QED
    BY <2>1, RouteIs DEF Meta
<1>2. t \in Seq(P)
  BY <1>1, RouteCodePieces
<1>3. t \in Texts(k)
  <2>1. P \subseteq Q
    BY <1>1, OpeningsDiffer DEF Plain
  <2> HIDE DEF P, Q, t
  <2>2. t \in Seq(Q)
    BY <1>2, <2>1
  <2> QED
    BY <2>2 DEF Texts, Q
<1>4. CASE meta.type \in InertTypes
  <2>1. Inert(meta.key) /\ Inert(meta.value)
    BY <1>1, <1>4 DEF InertTypes
  <2>2. meta.value \in ValuesOf(meta.type)
    <3>1. Accepts(meta.type, meta.value)
      BY DEF RouteFits
    <3>2. meta.value \in Texts(0)
      BY <1>1 DEF Meta
    <3> HIDE DEF meta
    <3> QED
      BY <1>1, <3>1, <3>2 DEF Accepts, ValuesOf
  <2>3. t = Comparison(meta)
    BY <1>1, <2>1, RouteCodeIsComparison
  <2>4. Intact(Comparison(meta))
    BY <1>1, <1>4, <2>2, ComparisonIntact
  <2> HIDE DEF t
  <2> QED
    BY <1>3, <2>3, <2>4 DEF Checked, t
<1>5. CASE meta.type \notin InertTypes
  <2>1. \A i \in 1 .. Len(t) : t[i] \in P
    <3> HIDE DEF t, P
    <3> QED
      BY <1>2
  <2>2. ASSUME NEW i \in 1 .. Len(t), NEW type \in InertTypes
        PROVE  t[i].text # Opening[type]
    <3>1. type \in DataTypes /\ type # meta.type
      BY <1>5 DEF InertTypes
    <3>2. Opening[type] # own /\ Opening[type] \in Range(Opening)
      BY <1>1, <3>1, OpeningsDiffer
    <3>3. t[i].text \in Plain \cup {own}
      BY <2>1
    <3> HIDE DEF t, own
    <3> QED
      BY <3>2, <3>3 DEF Plain
  <2>3. Intact(t)
    <3> HIDE DEF t
    <3> QED
      BY <2>2 DEF Intact, WholeAt
  <2> QED
    BY <1>3, <2>3 DEF Checked
<1> QED
  BY <1>4, <1>5

-----------------------------------------------------------------------------
(* What modify stores. *)

\* Properties whose texts are checked.
CheckedProps(k) == [script : Checked(k), add : Checked(k),
                    route : Routes \cup {None}, http : Https \cup {None}]

LEMMA OwnerOf ==
    ASSUME NEW p \in Ports
    PROVE  Owner(p) \in Nodes /\ Task[Owner(p)] \in TaskTypes
<1>1. Owner(p) \in Nodes
  BY GraphAssumption DEF Owner
<1> QED
  BY <1>1, GraphAssumption

LEMMA CodeChecked ==
    ASSUME NEW k \in Nat, NEW p \in Ports, NEW prop \in CheckedProps(k), Fits(p, prop)
    PROVE  CodeOf(p, prop) \in Checked(k)
<1> DEFINE task == Task[Owner(p)]
<1>1. CASE prop.script # <<>>
  <2>1. CodeOf(p, prop) = prop.script
    BY <1>1 DEF CodeOf
  <2> QED
    BY <2>1 DEF CheckedProps
<1>2. CASE prop.script = <<>> /\ task \in {"COMPOSITE_NORMAL", "COMPOSITE_END"}
  <2>1. CodeOf(p, prop) = <<>>
    BY <1>2 DEF CodeOf
  <2> QED
    BY <2>1, CheckedType
<1>3. CASE prop.script = <<>> /\ task \in {"ROUTE", "DATA_MAPPING"} /\ RouteFits(prop.route)
  <2>1. CodeOf(p, prop) = RouteCode(prop.route)
    BY <1>3 DEF CodeOf
  <2>2. prop.route \in Routes
    BY <1>3 DEF CheckedProps, RouteFits
  <2> QED
    BY <1>3, <2>1, <2>2, RouteCodeChecked
<1>4. CASE prop.script = <<>> /\ task = "HTTP" /\ HttpFits(prop.http)
  <2>1. CodeOf(p, prop) = HttpCode(prop.http)
    BY <1>4 DEF CodeOf
  <2>2. prop.http \in Https
    BY <1>4 DEF CheckedProps, HttpFits
  <2> QED
    BY <1>4, <2>1, <2>2, HttpCodePlain, PlainIsChecked
<1> QED
  BY <1>1, <1>2, <1>3, <1>4 DEF Fits

LEMMA AddChecked ==
    ASSUME NEW k \in Nat, NEW p \in Ports, NEW prop \in CheckedProps(k), Fits(p, prop)
    PROVE  AddOf(p, prop) \in Checked(k)
<1>1. CASE prop.script = <<>> /\ Task[Owner(p)] = "HTTP"
  <2>1. prop.http \in Https
    BY <1>1 DEF Fits, HttpFits, CheckedProps
  <2>2. AddOf(p, prop) = PathMethod(prop.http)
    BY <1>1 DEF AddOf
  <2> QED
    BY <2>1, <2>2, PathMethodPlain, PlainIsChecked
<1>2. CASE ~(prop.script = <<>> /\ Task[Owner(p)] = "HTTP")
  BY <1>2 DEF AddOf, CheckedProps
<1> QED
  BY <1>1, <1>2

-----------------------------------------------------------------------------
(* What a compilation makes of it. *)

LEMMA IdIsPlain ==
    ASSUME NEW id \in Nodes \cup Ports
    PROVE  id \in Plain
<1>1. id \in Stretches
  BY GraphAssumption
<1>2. \A type \in DataTypes : Opening[type] # id
  BY NameAssumption
<1>3. DOMAIN Opening = DataTypes
  BY DEF Opening
<1> QED
  BY <1>1, <1>2, <1>3 DEF Plain, Range

LEMMA IdChecked ==
    ASSUME NEW k \in Nat, NEW id \in Nodes \cup Ports
    PROVE  <<Piece(id)>> \in Checked(k)
<1>1. Piece(id) \in PlainPieces(k)
  BY IdIsPlain, PlainPiece
<1> QED
  BY <1>1, SeqOfOne, PlainIsChecked

\* The templates of a node.
LEMMA NodeTemplatesChecked ==
    ASSUME NEW k \in Nat
    PROVE  /\ BoolTemplate \in Checked(k)
           /\ CallTemplate \in Checked(k)
           /\ SingleTemplate \in Checked(k)
           /\ NodeTemplate \in Checked(k)
<1> DEFINE P == PlainPieces(k)
<1>1. {"private", "(): boolean {", "} method", "if this.", "setActivatedNodeId(",
       "return", "super.call()", "class FlowNode_", "call() {", "} call",
       "} class"} \subseteq Plain
  BY TemplatesArePlain
<1>2. /\ Piece("private") \in P /\ Piece("(): boolean {") \in P
      /\ Piece("} method") \in P /\ Piece("if this.") \in P
      /\ Piece("setActivatedNodeId(") \in P /\ Piece("return") \in P
      /\ Piece("super.call()") \in P /\ Piece("class FlowNode_") \in P
      /\ Piece("call() {") \in P /\ Piece("} call") \in P
      /\ Piece("} class") \in P /\ Slot \in P
  BY <1>1, PlainPiece, PlainSlot
<1> HIDE DEF P
<1>3. BoolTemplate \in Seq(P) /\ CallTemplate \in Seq(P)
  BY <1>2, SeqOfFive DEF BoolTemplate, CallTemplate
<1>4. SingleTemplate \in Seq(P)
  BY <1>2, SeqOfTwo DEF SingleTemplate
<1>5. NodeTemplate \in Seq(P)
  BY <1>2, SeqOfEight DEF NodeTemplate
<1> QED
  BY <1>3, <1>4, <1>5, PlainIsChecked DEF P

LEMMA NodeTextChecked ==
    ASSUME NEW k \in Nat, NEW n \in Nodes, NEW body \in Checked(k),
           NEW conditions \in Checked(k), NEW add \in Checked(k)
    PROVE  NodeText(n, body, conditions, add) \in Checked(k)
<1>1. <<Piece(n)>> \in Checked(k)
  BY IdChecked
<1>2. <<<<Piece(n)>>, body, conditions, add>> \in Seq(Checked(k))
  <2> DEFINE id == <<Piece(n)>>
  <2> HIDE DEF id
  <2>1. id \in Checked(k)
    BY <1>1 DEF id
  <2>2. <<id, body, conditions, add>> \in Seq(Checked(k))
    BY <2>1
  <2> QED
    BY <2>2 DEF id
<1>3. NodeTemplate \in Checked(k)
  BY NodeTemplatesChecked
<1> QED
  BY <1>2, <1>3, CheckedFillAll DEF NodeText

LEMMA CheckedPort ==
    ASSUME NEW k \in Nat, NEW ports \in [Ports -> CheckedProps(k)], NEW n \in Nodes,
           NEW i \in 1 .. Len(PortsOf[n])
    PROVE  /\ PortsOf[n][i] \in Ports
           /\ PortsOf[n][i] \in Range(PortsOf[n])
           /\ ports[PortsOf[n][i]].script \in Checked(k)
           /\ ports[PortsOf[n][i]].add \in Checked(k)
<1>1. PortsOf[n] \in Seq(Ports)
  BY GraphAssumption
<1>2. PortsOf[n][i] \in Ports /\ PortsOf[n][i] \in Range(PortsOf[n])
  BY <1>1 DEF Range
<1> QED
  BY <1>2 DEF CheckedProps

LEMMA SingleChecked ==
    ASSUME NEW k \in Nat, NEW ports \in [Ports -> CheckedProps(k)], NEW n \in Nodes,
           PortsOf[n] # <<>>
    PROVE  SingleText(n, ports) \in Checked(k)
<1> DEFINE p == PortsOf[n][1]
<1>1. PortsOf[n] \in Seq(Ports)
  BY GraphAssumption
<1>2. 1 \in 1 .. Len(PortsOf[n])
  BY <1>1
<1>3. ports[p].script \in Checked(k) /\ ports[p].add \in Checked(k)
  BY <1>2, CheckedPort
<1>4. SingleText(n, ports)
        = NodeText(n, Fill(SingleTemplate, ports[p].script), <<>>, ports[p].add)
  BY DEF SingleText
<1> HIDE DEF p
<1>5. Fill(SingleTemplate, ports[p].script) \in Checked(k)
  BY <1>3, NodeTemplatesChecked, CheckedFill
<1>6. <<>> \in Checked(k)
  BY CheckedType
<1> QED
  BY <1>3, <1>4, <1>5, <1>6, NodeTextChecked

LEMMA MethodChecked ==
    ASSUME NEW k \in Nat, NEW ports, NEW p \in Ports, ports[p].script \in Checked(k)
    PROVE  MethodOf(p, ports) \in Checked(k)
<1>1. <<Piece(p)>> \in Checked(k) /\ BoolTemplate \in Checked(k)
  BY IdChecked, NodeTemplatesChecked
<1>2. <<<<Piece(p)>>, ports[p].script>> \in Seq(Checked(k))
  BY <1>1, SeqOfTwo
<1> QED
  BY <1>1, <1>2, CheckedFillAll DEF MethodOf

LEMMA BranchChecked ==
    ASSUME NEW k \in Nat, NEW p \in Ports, p \in DOMAIN Target
    PROVE  BranchOf(p) \in Checked(k)
<1>1. Target[p] \in Nodes
  BY GraphAssumption
<1>2. <<Piece(p)>> \in Checked(k) /\ <<Piece(Target[p])>> \in Checked(k)
  BY <1>1, IdChecked
<1>3. CallTemplate \in Checked(k)
  BY NodeTemplatesChecked
<1>4. <<<<Piece(p)>>, <<Piece(Target[p])>>>> \in Seq(Checked(k))
  BY <1>2, SeqOfTwo
<1> QED
  BY <1>3, <1>4, CheckedFillAll DEF BranchOf

LEMMA MultiChecked ==
    ASSUME NEW k \in Nat, NEW ports \in [Ports -> CheckedProps(k)], NEW n \in Nodes,
           Range(PortsOf[n]) \subseteq DOMAIN Target
    PROVE  MultiText(n, ports) \in Checked(k)
<1> DEFINE C == Checked(k)
           P == PlainPieces(k)
           of == PortsOf[n]
           size == Len(of)
           branches == [i \in 1 .. size |-> BranchOf(of[i])]
           methods == [i \in 1 .. size |-> MethodOf(of[i], ports)]
           additions == [i \in 1 .. size |-> ports[of[i]].add]
           body == FillAll(<<DefaultBody>> \o Slots(size), branches)
           conditions == FillAll(Slots(size), methods)
           add == FillAll(Slots(size), additions)
<1>1. size \in Nat
  <2>1. of \in Seq(Ports)
    BY GraphAssumption
  <2> QED
    BY <2>1
<1>2. \A i \in 1 .. size : /\ BranchOf(of[i]) \in C
                           /\ MethodOf(of[i], ports) \in C
                           /\ ports[of[i]].add \in C
  <2> SUFFICES ASSUME NEW i \in 1 .. size
               PROVE  /\ BranchOf(of[i]) \in C
                      /\ MethodOf(of[i], ports) \in C
                      /\ ports[of[i]].add \in C
    OBVIOUS
  <2>1. /\ of[i] \in Ports /\ of[i] \in Range(of)
        /\ ports[of[i]].script \in C /\ ports[of[i]].add \in C
    BY CheckedPort
  <2> QED
    BY <2>1, BranchChecked, MethodChecked
<1>3. branches \in [1 .. size -> C] /\ methods \in [1 .. size -> C]
      /\ additions \in [1 .. size -> C]
  BY <1>2
<1>4. MultiText(n, ports) = NodeText(n, body, conditions, add)
  BY DEF MultiText
<1> HIDE DEF branches, methods, additions, C
<1>5. branches \in Seq(C) /\ methods \in Seq(C) /\ additions \in Seq(C)
  <2> HIDE DEF size
  <2> QED
    BY <1>1, <1>3, FunctionIsSeq
<1>6. Slot \in P /\ DefaultBody \in P
  <2>1. "outputRequestBody = inputRequestBody" \in Plain
    BY TemplatesArePlain
  <2> QED
    BY <2>1, PlainPiece, PlainSlot DEF DefaultBody
<1>7. Slots(size) \in Seq(P)
  <2> HIDE DEF P, size
  <2>1. Slots(size) \in [1 .. size -> P]
    BY <1>6 DEF Slots
  <2> QED
    BY <1>1, <2>1, FunctionIsSeq
<1>8. <<DefaultBody>> \o Slots(size) \in Seq(P)
  <2> HIDE DEF P, size
  <2> QED
    BY <1>6, <1>7
<1>9. Slots(size) \in C /\ <<DefaultBody>> \o Slots(size) \in C
  <2>1. Seq(P) \subseteq C
    BY PlainIsChecked DEF C
  <2> HIDE DEF P, size
  <2> QED
    BY <1>7, <1>8, <2>1
<1>10. \A t \in C : \A args \in Seq(C) : FillAll(t, args) \in C
  BY CheckedFillAll DEF C
<1>11. body \in C /\ conditions \in C /\ add \in C
  <2> HIDE DEF size
  <2> QED
    BY <1>5, <1>9, <1>10
<1> HIDE DEF body, conditions, add
<1> QED
  BY <1>4, <1>11, NodeTextChecked DEF C

\* The class of a node, if one is made of it.
LEMMA ScriptChecked ==
    ASSUME NEW k \in Nat, NEW ports \in [Ports -> CheckedProps(k)], NEW n \in Nodes,
           IsMade(n, ports)
    PROVE  ScriptOf(n, ports) \in Checked(k)
<1>1. CASE Task[n] = "ROUTE"
  <2>1. Range(PortsOf[n]) \subseteq DOMAIN Target
    BY <1>1 DEF IsMade
  <2> QED
    BY <1>1, <2>1, MultiChecked DEF ScriptOf
<1>2. CASE Task[n] # "ROUTE"
  <2>1. PortsOf[n] # <<>>
    BY DEF IsMade
  <2> QED
    BY <1>2, <2>1, SingleChecked DEF ScriptOf
<1> QED
  BY <1>1, <1>2

-----------------------------------------------------------------------------
(* The inductive invariant. *)

\* TypeOK, with texts that are checked wherever a text is kept: in the table, in
\* an open form and in a class.  RouteCodeIsChecked speaks of classes only, and
\* says nothing of what a later compilation will take or an escape will change.
Inv ==
    /\ saves \in 0 .. MaxSaves
    /\ stored \in [Ports -> CheckedProps(saves)]
    /\ form \in [Editors -> [port : Ports, prop : CheckedProps(saves)] \cup {None}]
    /\ source \in [DOMAIN source -> Checked(saves)]
    /\ DOMAIN source \in {{}, Nodes}

LEMMA PropsGrow ==
    ASSUME NEW k \in Nat
    PROVE  /\ CheckedProps(k) \subseteq CheckedProps(k + 1)
           /\ Checked(k) \subseteq Checked(k + 1)
<1>1. Checked(k) \subseteq Checked(k + 1)
  BY CheckedGrows
<1> QED
  BY <1>1 DEF CheckedProps

LEMMA InvInit == Init => Inv
<1> SUFFICES ASSUME Init
             PROVE  Inv
  OBVIOUS
<1>1. saves = 0 /\ saves \in 0 .. MaxSaves
  BY InputAssumption DEF Init
<1>2. Blank \in CheckedProps(saves)
  BY <1>1, CheckedType DEF Blank, CheckedProps
<1>3. source \in [DOMAIN source -> Checked(saves)] /\ DOMAIN source = {}
  BY DEF Init
<1> QED
  BY <1>1, <1>2, <1>3 DEF Init, Inv

LEMMA SavesType ==
    ASSUME Inv
    PROVE  saves \in Nat
BY InputAssumption DEF Inv

LEMMA OpenInv ==
    ASSUME Inv, NEW e \in Editors, NEW p \in Ports, Open(e, p)
    PROVE  Inv'
BY DEF Inv, Open

\* What some user writes has no comparison, and no escape.
LEMMA ScriptsChecked ==
    ASSUME NEW k \in Nat
    PROVE  Scripts \cup Additions \cup {<<>>} \subseteq Checked(k)
<1> SUFFICES ASSUME NEW t \in Scripts \cup Additions
             PROVE  t \in Checked(k)
  BY CheckedType
<1>1. t \in Texts(0)
  BY InputAssumption
<1>2. \A type \in DataTypes : \A i \in DOMAIN t : t[i].text # Opening[type]
  BY NameAssumption
<1> QED
  BY <1>1, <1>2, ApartIsPlain, PlainIsChecked

LEMMA FillInInv ==
    ASSUME Inv, NEW e \in Editors, FillIn(e)
    PROVE  Inv'
<1> DEFINE F == [port : Ports, prop : CheckedProps(saves)]
<1>1. form[e] \in F
  BY DEF Inv, FillIn
<1>2. form' \in [Editors -> F \cup {None}]
  <2>1. ASSUME NEW t \in Scripts \cup {<<>>}
        PROVE  [form[e] EXCEPT !.prop.script = t] \in F
    <3>1. t \in Checked(saves)
      BY SavesType, ScriptsChecked
    <3> QED
      BY <1>1, <3>1 DEF CheckedProps
  <2>0. ASSUME NEW t \in Additions \cup {<<>>}
        PROVE  [form[e] EXCEPT !.prop.add = t] \in F
    <3>1. t \in Checked(saves)
      BY SavesType, ScriptsChecked
    <3> QED
      BY <1>1, <3>1 DEF CheckedProps
  <2>2. ASSUME NEW r \in Routes
        PROVE  [form[e] EXCEPT !.prop.route = r] \in F
    BY <1>1 DEF CheckedProps
  <2>3. ASSUME NEW h \in Https
        PROVE  [form[e] EXCEPT !.prop.http = h] \in F
    BY <1>1 DEF CheckedProps
  <2>4. \E f \in F : form' = [form EXCEPT ![e] = f]
    BY <2>0, <2>1, <2>2, <2>3 DEF FillIn
  <2> QED
    BY <2>4 DEF Inv
<1> QED
  BY <1>2 DEF Inv, FillIn

LEMMA ModifyInv ==
    ASSUME Inv, NEW e \in Editors, Modify(e)
    PROVE  Inv'
<1> DEFINE p == form[e].port
           prop == form[e].prop
           next == [prop EXCEPT !.script = Escape(CodeOf(p, prop)),
                                !.add = AddOf(p, prop)]
<1>1. saves \in Nat /\ saves' = saves + 1 /\ saves' \in 0 .. MaxSaves
  BY SavesType, InputAssumption DEF Inv, Modify
<1>2. p \in Ports /\ prop \in CheckedProps(saves)
  BY DEF Inv, Modify
<1>3. Fits(p, prop) /\ stored' = [stored EXCEPT ![p] = next]
  BY DEF Modify
<1>4. next \in CheckedProps(saves + 1)
  <2> HIDE DEF p, prop
  <2>1. CodeOf(p, prop) \in Checked(saves) /\ AddOf(p, prop) \in Checked(saves)
    BY <1>1, <1>2, <1>3, CodeChecked, AddChecked
  <2>2. Escape(CodeOf(p, prop)) \in Checked(saves + 1)
    BY <1>1, <2>1, CheckedEscape
  <2>3. AddOf(p, prop) \in Checked(saves + 1)
    BY <1>1, <2>1, PropsGrow
  <2> QED
    BY <1>2, <2>2, <2>3 DEF CheckedProps
<1> HIDE DEF next, p, prop
<1>5. CheckedProps(saves) \subseteq CheckedProps(saves + 1)
      /\ Checked(saves) \subseteq Checked(saves + 1)
  BY <1>1, PropsGrow
<1>6. stored' \in [Ports -> CheckedProps(saves')]
  BY <1>1, <1>2, <1>3, <1>4, <1>5 DEF Inv
<1>7. form' \in [Editors -> [port : Ports, prop : CheckedProps(saves')] \cup {None}]
  <2>1. form' = [form EXCEPT ![e] = None]
    BY DEF Modify
  <2>2. [port : Ports, prop : CheckedProps(saves)]
          \subseteq [port : Ports, prop : CheckedProps(saves')]
    BY <1>1, <1>5
  <2> QED
    BY <2>1, <2>2 DEF Inv
<1>8. /\ source' \in [DOMAIN source' -> Checked(saves')]
      /\ DOMAIN source' \in {{}, Nodes}
  BY <1>1, <1>5 DEF Inv, Modify
<1> QED
  BY <1>1, <1>6, <1>7, <1>8 DEF Inv

LEMMA CloseInv ==
    ASSUME Inv, NEW e \in Editors, Close(e)
    PROVE  Inv'
BY DEF Inv, Close

LEMMA CompileInv ==
    ASSUME Inv, Compile
    PROVE  Inv'
<1>1. \A n \in Nodes : ScriptOf(n, stored) \in Checked(saves)
  BY SavesType, ScriptChecked DEF Inv, Compile
<1>2. source' = [n \in Nodes |-> ScriptOf(n, stored)]
  BY DEF Compile
<1>3. DOMAIN source' = Nodes /\ source' \in [Nodes -> Checked(saves)]
  BY <1>1, <1>2
<1> QED
  BY <1>3 DEF Inv, Compile

LEMMA InvUnchanged ==
    ASSUME Inv, UNCHANGED vars
    PROVE  Inv'
BY DEF Inv, vars

LEMMA InvNext ==
    ASSUME Inv, [Next]_vars
    PROVE  Inv'
<1>1. CASE UNCHANGED vars
  BY <1>1, InvUnchanged
<1>2. ASSUME NEW e \in Editors, NEW p \in Ports, Open(e, p)
      PROVE  Inv'
  BY <1>2, OpenInv
<1>3. ASSUME NEW e \in Editors, FillIn(e)
      PROVE  Inv'
  BY <1>3, FillInInv
<1>4. ASSUME NEW e \in Editors, Modify(e)
      PROVE  Inv'
  BY <1>4, ModifyInv
<1>5. ASSUME NEW e \in Editors, Refuse(e)
      PROVE  Inv'
  BY <1>5, InvUnchanged DEF Refuse
<1>6. ASSUME NEW e \in Editors, Close(e)
      PROVE  Inv'
  BY <1>6, CloseInv
<1>7. CASE Compile
  BY <1>7, CompileInv
<1>8. CASE CompileFails
  BY <1>8, InvUnchanged DEF CompileFails
<1> QED
  BY <1>1, <1>2, <1>3, <1>4, <1>5, <1>6, <1>7, <1>8 DEF Next

LEMMA Invariance == Spec => []Inv
BY InvInit, InvNext, PTL DEF Spec

-----------------------------------------------------------------------------
(* The theorems. *)

LEMMA PropsTyped ==
    ASSUME NEW k \in Nat
    PROVE  CheckedProps(k) \subseteq Props(k) /\ Checked(k) \subseteq Texts(k)
BY DEF CheckedProps, Props, Checked

LEMMA InvTypeOK == Inv => TypeOK
<1> SUFFICES ASSUME Inv
             PROVE  TypeOK
  OBVIOUS
<1>1. CheckedProps(saves) \subseteq Props(saves) /\ Checked(saves) \subseteq Texts(saves)
  BY SavesType, PropsTyped
<1>2. [port : Ports, prop : CheckedProps(saves)] \subseteq [port : Ports, prop : Props(saves)]
  BY <1>1
<1>3. stored \in [Ports -> Props(saves)]
  BY <1>1 DEF Inv
<1>4. form \in [Editors -> [port : Ports, prop : Props(saves)] \cup {None}]
  BY <1>2 DEF Inv
<1>5. source \in [DOMAIN source -> Texts(saves)]
  BY <1>1 DEF Inv
<1> QED
  BY <1>3, <1>4, <1>5 DEF Inv, TypeOK

\* However often ports are opened, filled in, saved and compiled, every port,
\* every form and every class holds texts, escaped no more often than there were
\* saves, and settings of the right kind: modify never leaves anything else.
THEOREM TypeCorrect == Spec => []TypeOK
BY Invariance, InvTypeOK, PTL

LEMMA InvRouteCode == Inv => RouteCodeIsChecked
<1> SUFFICES ASSUME Inv, NEW n \in DOMAIN source, NEW i \in DOMAIN source[n],
                    NEW type \in InertTypes, source[n][i].text = Opening[type]
             PROVE  \E r \in Routes : /\ Len(r) = 1
                                      /\ r[1].type = type
                                      /\ r[1].value \in ValuesOf(type)
                                      /\ HasAt(source[n], i, Comparison(r[1]))
  BY DEF RouteCodeIsChecked
<1>1. source[n] \in Checked(saves)
  BY DEF Inv
<1>2. Intact(source[n]) /\ DOMAIN source[n] = 1 .. Len(source[n])
  BY <1>1 DEF Checked, Texts
<1>3. PICK c \in Codes(type) : HasAt(source[n], i, c)
  BY <1>2 DEF Intact, WholeAt
<1> QED
  BY <1>3 DEF Codes

\* Whatever a port has gone through before it was compiled - saves, re-reads,
\* escapes, fillings and replacement patterns of the texts around it - a
\* comparison in the class of a node is that of one condition some user chose,
\* from its beginning to its end and with a value of its type, if its type is one
\* whose keys and values have neither slots nor dollars: for every graph, every
\* script and every other input.
THEOREM ComparisonsChecked == Spec => []RouteCodeIsChecked
BY Invariance, InvRouteCode, PTL

\* Neither an id nor what is stored for the ports of n has a slot or a dollar.
InertNode(n) ==
    /\ {Slot.text, Dollar.text} \cap (Nodes \cup Ports) = {}
    /\ \A p \in Range(PortsOf[n]) : Inert(stored[p].script) /\ Inert(stored[p].add)

LEMMA LaidOutStep ==
    ASSUME Inv, [Next]_vars, source' # source, NEW n \in DOMAIN source', InertNode(n)
    PROVE  source'[n] = IF Task[n] = "ROUTE" THEN LaidOutRoute(n, stored)
                        ELSE LaidOutTask(n, stored)
<1>1. Compile
  BY DEF Next, vars, Open, FillIn, Modify, Refuse, Close, CompileFails
<1>2. n \in Nodes /\ source'[n] = ScriptOf(n, stored) /\ IsMade(n, stored)
  BY <1>1 DEF Compile
<1>3. stored \in [Ports -> Props(saves)] /\ saves \in Nat
  BY InvTypeOK, SavesType DEF TypeOK
<1>4. /\ Marks \cap (Nodes \cup Ports) = {}
      /\ \A p \in Range(PortsOf[n]) : Inert(stored[p].script) /\ Inert(stored[p].add)
  BY DEF InertNode, Marks
<1> QED
  BY <1>2, <1>3, <1>4, ClassLaidOut

\* Filling the first slot over and over puts every text into its own place: when
\* neither an id nor what is stored for the ports of a node has a slot or a
\* dollar, a compilation lays out its class part by part, for any number of ports.
THEOREM ClassesLaidOut == Spec => SourceIsLaidOut
<1>1. Inv /\ [Next]_vars =>
        [\A n \in DOMAIN source' :
            /\ {Slot.text, Dollar.text} \cap (Nodes \cup Ports) = {}
            /\ \A p \in Range(PortsOf[n]) :
                    Inert(stored[p].script) /\ Inert(stored[p].add)
            => source'[n] = IF Task[n] = "ROUTE" THEN LaidOutRoute(n, stored)
                            ELSE LaidOutTask(n, stored)]_source
  BY LaidOutStep DEF InertNode
<1> QED
  BY <1>1, Invariance, PTL DEF Spec, SourceIsLaidOut

=============================================================================
