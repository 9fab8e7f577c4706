--------------------------- MODULE CommandCheck_proofs ---------------------------
(***************************************************************************)
(* A command line gets the verdict of the simple commands in it, for any   *)
(* words, any number of commands of any length, any policy whose patterns  *)
(* are words, and behind each of the dresses.                              *)
(*                                                                         *)
(* The folds of the model become scans by a step function, whose states    *)
(* add up over concatenation (After).  The two cutting scans carry each    *)
(* simple command whole (Whole), so they cut a line exactly between its    *)
(* commands, and not at all within backticks or brackets (IsLine).  So the *)
(* texts the policy is asked about are the commands and texts that show    *)
(* nothing else (Seen), and these get the verdict of the commands.         *)
(***************************************************************************)
EXTENDS CommandCheck, SequenceTheorems, NaturalsInduction, WellFoundedInduction, TLAPS

-----------------------------------------------------------------------------
(* Induction over the numbers and over sequences, for a set of them.       *)
LEMMA NatInduct ==
  ASSUME NEW S, 0 \in S, \A n \in Nat : n \in S => n + 1 \in S
  PROVE  Nat \subseteq S
<1> DEFINE U == Nat \ S
<1> SUFFICES ASSUME U # {} PROVE FALSE
  OBVIOUS
<1>1. U \subseteq Nat
  OBVIOUS
<1>2. IsWellFoundedOn(OpToRel(<, Nat), Nat)
  BY NatLessThanWellFounded
<1>3. PICK i \in U : \A j \in U : ~(<<j, i>> \in OpToRel(<, Nat))
  <2> HIDE DEF U
  <2>. QED  BY <1>1, <1>2, WFMin
<1>4. i # 0 /\ i - 1 \in U
  <2>1. i \in Nat /\ i # 0
    OBVIOUS
  <2>2. i - 1 \in Nat /\ (i - 1) + 1 = i
    BY <2>1
  <2>. QED  BY <2>1, <2>2
<1>5. ~(<<i - 1, i>> \in OpToRel(<, Nat))
  BY <1>3, <1>4
<1>6. i \in Nat /\ i - 1 \in Nat
  BY <1>4
<1>. QED  BY <1>5, <1>6 DEF OpToRel

(* A set with the empty sequence and each appended one has all of them.    *)
LEMMA SeqInduct ==
  ASSUME NEW T, NEW S, <<>> \in S,
         \A s \in Seq(T), e \in T : s \in S => Append(s, e) \in S
  PROVE  Seq(T) \subseteq S
<1> DEFINE N == {n \in Nat : \A s \in Seq(T) : Len(s) = n => s \in S}
<1>1. 0 \in N
  BY EmptySeq
<1>2. ASSUME NEW n \in N PROVE n + 1 \in N
  <2> SUFFICES ASSUME NEW s \in Seq(T), Len(s) = n + 1 PROVE s \in S
    OBVIOUS
  <2>1. s # <<>>
    BY EmptySeq
  <2>2. PICK u \in Seq(T), e \in T : s = Append(u, e)
    BY <2>1, SequenceEmptyOrAppend
  <2>3. Len(u) = n
    BY <2>2, AppendProperties, LenProperties
  <2>. QED  BY <2>2, <2>3
<1> HIDE DEF N
<1>3. Nat \subseteq N
  BY <1>1, <1>2, NatInduct
<1>. QED  BY <1>3, LenProperties DEF N

Assoc(x, y, z) == (x \o y) \o z = x \o (y \o z)

(* Concatenation is associative, in a form that lemmas can carry.          *)
LEMMA Associates ==
  ASSUME NEW T, NEW x \in Seq(T), NEW y \in Seq(T), NEW z \in Seq(T)
  PROVE  Assoc(x, y, z)
BY ConcatAssociative DEF Assoc

-----------------------------------------------------------------------------
(* Folds.  A step of a scan is a function F from a state and an element to *)
(* the next state; a trace of it passes through the elements of c.         *)
Trace(F, s0, c, f) ==
  /\ f[0] = s0
  /\ \A n \in 1..Len(c) : f[n] = F[<<f[n - 1], c[n]>>]

After(F, s0, c) == CHOOSE r : \E f : Trace(F, s0, c, f) /\ r = f[Len(c)]

IsStep(F, St, T) == \A s \in St, t \in T : F[<<s, t>>] \in St

\* What the fold of the library computes for the indices in x.
IterStep(F, s0, c, iter, x) ==
  IF x = {} THEN s0 ELSE F[<<iter[x \ {Max(x)}], c[Max(x)]>>]

(* The greatest of 1..n+1 is the greatest of what holds it.                *)
LEMMA MaxTo ==
  ASSUME NEW n \in Nat, NEW x \in SUBSET (1..n + 1), n + 1 \in x
  PROVE  Max(x) = n + 1
<1>1. \A y \in x : n + 1 >= y /\ y \in Int
  OBVIOUS
<1>2. \A m \in x : (\A y \in x : m >= y) => m = n + 1
  BY <1>1
<1>3. Max(x) \in x /\ \A y \in x : Max(x) >= y
  <2>1. \E m \in x : \A y \in x : m >= y
    BY <1>1
  <2>2. (CHOOSE m \in x : \A y \in x : m >= y) \in x
           /\ \A y \in x : (CHOOSE m \in x : \A z \in x : m >= z) >= y
    BY <2>1
  <2>. QED  BY <2>2 DEF Max
<1>. QED  BY <1>2, <1>3

(* What 1..n is without its greatest element.                              *)
LEMMA UpTo ==
  ASSUME NEW m \in Nat, NEW n \in 1..m
  PROVE  1..n \in SUBSET (1..m) /\ 1..n # {} /\ Max(1..n) = n /\ (1..n) \ {Max(1..n)} = 1..(n - 1)
<1>1. 1..n \in SUBSET (1..m) /\ n \in 1..n
  OBVIOUS
<1>2. Max(1..n) = n
  <2>1. n - 1 \in Nat /\ (n - 1) + 1 = n /\ 1..n \in SUBSET (1..(n - 1) + 1)
    OBVIOUS
  <2>. QED  BY <1>1, <2>1, MaxTo
<1>3. \A i : i \in (1..n) \ {n} <=> i \in 1..(n - 1)
  OBVIOUS
<1>. QED  BY <1>1, <1>2, <1>3

(* A bounded set of numbers that is not empty has its maximum.             *)
LEMMA MaxIn ==
  ASSUME NEW n \in Nat, NEW x \in SUBSET (1..n), x # {}
  PROVE  Max(x) \in x
<1> DEFINE S == {n_1 \in Nat : \A y \in SUBSET (1..n_1) : y # {} => Max(y) \in y}
<1>1. 0 \in S
  <2>1. \A y \in SUBSET (1..0) : y = {}
    OBVIOUS
  <2>. QED  BY <2>1
<1>2. ASSUME NEW k \in Nat, k \in S PROVE k + 1 \in S
  <2> SUFFICES ASSUME NEW y \in SUBSET (1..k + 1), y # {} PROVE Max(y) \in y
    OBVIOUS
  <2>1. CASE k + 1 \in y
    BY <2>1, MaxTo
  <2>2. CASE k + 1 \notin y
    <3>1. y \in SUBSET (1..k)
      BY <2>2
    <3>. QED  BY <1>2, <3>1
  <2>. QED  BY <2>1, <2>2
<1>3. Nat \subseteq S
  <2> HIDE DEF S
  <2>. QED  BY <1>1, <1>2, NatInduct
<1>. QED  BY <1>3

(* Two functions that agree everywhere are one.                            *)
LEMMA SameFunction ==
  ASSUME NEW S, NEW g, NEW h, g = [x \in S |-> g[x]], h = [x \in S |-> h[x]],
         \A x \in S : g[x] = h[x]
  PROVE  g = h
OBVIOUS

(* The equation of the library's fold has a solution, within the states.   *)
Solves(F, St, s0, c, n, iter) ==
  iter \in [SUBSET (1..n) -> St]
    /\ \A x \in SUBSET (1..n) : iter[x] = IterStep(F, s0, c, iter, x)

(* By induction on the bound of the indices.                               *)
LEMMA IterExists ==
  ASSUME NEW St, NEW T, NEW F, IsStep(F, St, T), NEW s0 \in St, NEW c \in Seq(T)
  PROVE  \E iter : Solves(F, St, s0, c, Len(c), iter)
<1> DEFINE S == {n \in Nat : n <= Len(c) => \E iter : Solves(F, St, s0, c, n, iter)}
<1>0. Len(c) \in Nat /\ \A i \in 1..Len(c) : c[i] \in T
  BY LenProperties, ElementOfSeq
<1>1. 0 \in S
  <2> DEFINE it == [x \in SUBSET (1..0) |-> s0]
  <2>1. \A x \in SUBSET (1..0) : x = {}
    OBVIOUS
  <2>2. Solves(F, St, s0, c, 0, it)
    BY <2>1 DEF Solves, IterStep
  <2>. QED  BY <2>2
<1>2. ASSUME NEW n \in Nat, n \in S PROVE n + 1 \in S
  <2> SUFFICES ASSUME n + 1 <= Len(c)
               PROVE  \E iter : Solves(F, St, s0, c, n + 1, iter)
    OBVIOUS
  <2>1. PICK f : Solves(F, St, s0, c, n, f)
    BY <1>0, <1>2
  <2> DEFINE g == [x \in SUBSET (1..n + 1) |->
                     IF n + 1 \in x THEN F[<<f[x \ {n + 1}], c[n + 1]>>] ELSE f[x]]
  <2>2. ASSUME NEW x \in SUBSET (1..n + 1), n + 1 \notin x
        PROVE  x \in SUBSET (1..n) /\ g[x] = f[x]
    BY <2>2
  <2>3. ASSUME NEW x \in SUBSET (1..n + 1), n + 1 \in x
        PROVE  /\ x \ {n + 1} \in SUBSET (1..n)
               /\ g[x] = F[<<f[x \ {n + 1}], c[n + 1]>>]
               /\ g[x \ {n + 1}] = f[x \ {n + 1}]
    BY <2>3
  <2>4. g = [x \in SUBSET (1..n + 1) |-> g[x]]
    OBVIOUS
  <2> HIDE DEF g
  <2>5. ASSUME NEW x \in SUBSET (1..n + 1)
        PROVE  g[x] \in St /\ g[x] = IterStep(F, s0, c, g, x)
    <3>1. CASE n + 1 \in x
      <4>1. Max(x) = n + 1
        BY <3>1, MaxTo
      <4>2. f[x \ {n + 1}] \in St
        BY <2>1, <2>3, <3>1 DEF Solves
      <4>3. F[<<f[x \ {n + 1}], c[n + 1]>>] \in St
        BY <1>0, <4>2 DEF IsStep
      <4>. QED  BY <2>3, <3>1, <4>1, <4>3 DEF IterStep
    <3>2. CASE n + 1 \notin x /\ x # {}
      <4>1. x \in SUBSET (1..n) /\ Max(x) \in x
        BY <2>2, <3>2, MaxIn
      <4>2. g[x \ {Max(x)}] = f[x \ {Max(x)}]
        BY <2>2, <3>2
      <4>3. f[x] \in St /\ f[x] = IterStep(F, s0, c, f, x)
        BY <2>1, <4>1 DEF Solves
      <4>. QED  BY <2>2, <3>2, <4>2, <4>3 DEF IterStep
    <3>3. CASE x = {}
      <4>1. f[x] \in St /\ f[x] = IterStep(F, s0, c, f, x)
        BY <2>1, <3>3 DEF Solves
      <4>. QED  BY <2>2, <3>3, <4>1 DEF IterStep
    <3>. QED  BY <3>1, <3>2, <3>3
  <2>6. Solves(F, St, s0, c, n + 1, g)
    BY <2>4, <2>5 DEF Solves
  <2>. QED  BY <2>6
<1>3. Nat \subseteq S
  <2> HIDE DEF S
  <2>. QED  BY <1>1, <1>2, NatInduct
<1>. QED  BY <1>0, <1>3

(* What a fold passes through is a trace.                                  *)
LEMMA FoldIsTrace ==
  ASSUME NEW St, NEW T, NEW F, IsStep(F, St, T), NEW s0 \in St, NEW c \in Seq(T),
         NEW g, g[{}] = s0,
         \A n \in 1..Len(c) : g[1..(n - 1)] \in St => g[1..n] = F[<<g[1..(n - 1)], c[n]>>]
  PROVE  \E f : Trace(F, s0, c, f) /\ f[Len(c)] = g[1..Len(c)]
<1> DEFINE f == [n \in 0..Len(c) |-> g[1..n]]
<1>0. Len(c) \in Nat /\ \A i \in 1..Len(c) : c[i] \in T
  BY LenProperties, ElementOfSeq
<1>1. g[1..0] = s0
  <2>1. 1..0 = {}
    OBVIOUS
  <2>. QED  BY <2>1
<1> DEFINE S == {n \in Nat : n <= Len(c) => g[1..n] \in St}
<1>2. 0 \in S
  BY <1>1
<1>3. ASSUME NEW n \in Nat, n \in S PROVE n + 1 \in S
  <2> SUFFICES ASSUME n + 1 <= Len(c) PROVE g[1..(n + 1)] \in St
    OBVIOUS
  <2>1. n + 1 \in 1..Len(c) /\ (n + 1) - 1 = n /\ g[1..n] \in St
    BY <1>0, <1>3
  <2>2. g[1..(n + 1)] = F[<<g[1..n], c[n + 1]>>]
    BY <2>1
  <2>. QED  BY <1>0, <2>1, <2>2 DEF IsStep
<1>4. Nat \subseteq S
  <2> HIDE DEF S
  <2>. QED  BY <1>2, <1>3, NatInduct
<1>5. ASSUME NEW n \in 1..Len(c) PROVE f[n] = F[<<f[n - 1], c[n]>>]
  <2>1. n - 1 \in Nat /\ n - 1 \in 0..Len(c) /\ n \in 0..Len(c)
    BY <1>0
  <2>2. n - 1 \in S /\ n - 1 <= Len(c)
    BY <1>0, <1>4, <2>1
  <2>3. g[1..(n - 1)] \in St
    BY <2>2
  <2>. QED  BY <2>1, <2>3
<1>6. f[0] = s0 /\ f[Len(c)] = g[1..Len(c)]
  BY <1>0, <1>1
<1> HIDE DEF f
<1>. QED  BY <1>5, <1>6 DEF Trace

(* A step function leaves a trace no choice.                               *)
LEMMA TraceIsUnique ==
  ASSUME NEW F, NEW s0, NEW T, NEW c \in Seq(T), NEW f, NEW g,
         Trace(F, s0, c, f), Trace(F, s0, c, g)
  PROVE  \A n \in 0..Len(c) : f[n] = g[n]
<1> DEFINE S == {n \in Nat : n <= Len(c) => f[n] = g[n]}
<1>0. Len(c) \in Nat
  BY LenProperties
<1>1. 0 \in S
  BY DEF Trace
<1>2. ASSUME NEW n \in Nat, n \in S PROVE n + 1 \in S
  <2> SUFFICES ASSUME n + 1 <= Len(c) PROVE f[n + 1] = g[n + 1]
    OBVIOUS
  <2>1. n + 1 \in 1..Len(c) /\ (n + 1) - 1 = n /\ f[n] = g[n]
    BY <1>0, <1>2
  <2>. QED  BY <2>1 DEF Trace
<1>3. Nat \subseteq S
  <2> HIDE DEF S
  <2>. QED  BY <1>1, <1>2, NatInduct
<1>. QED  BY <1>0, <1>3

(* The state after c is where any trace of c ends.                         *)
LEMMA AfterTrace ==
  ASSUME NEW F, NEW s0, NEW T, NEW c \in Seq(T), NEW f, Trace(F, s0, c, f)
  PROVE  After(F, s0, c) = f[Len(c)]
<1>0. Len(c) \in 0..Len(c)
  BY LenProperties
<1>1. \A r : (\E g : Trace(F, s0, c, g) /\ r = g[Len(c)]) => r = f[Len(c)]
  BY <1>0, TraceIsUnique
<1>2. \E r : \E g : Trace(F, s0, c, g) /\ r = g[Len(c)]
  OBVIOUS
<1>3. \E g : Trace(F, s0, c, g) /\ After(F, s0, c) = g[Len(c)]
  BY <1>2 DEF After
<1>. QED  BY <1>1, <1>3

(* A scan of c: what it does with nothing, and with one element more.      *)
LEMMA TraceExists ==
  ASSUME NEW St, NEW T, NEW F, IsStep(F, St, T), NEW s0 \in St, NEW c \in Seq(T)
  PROVE  \E f : Trace(F, s0, c, f) /\ \A n \in 0..Len(c) : f[n] \in St
<1>0. Len(c) \in Nat /\ \A i \in 1..Len(c) : c[i] \in T
  BY LenProperties, ElementOfSeq
<1>1. PICK g : Solves(F, St, s0, c, Len(c), g)
  BY IterExists
<1>2. \A x \in SUBSET (1..Len(c)) : g[x] \in St
  BY <1>1 DEF Solves
<1>3. g[{}] = s0
  BY <1>1 DEF Solves, IterStep
<1>4. ASSUME NEW n \in 1..Len(c) PROVE g[1..n] = F[<<g[1..(n - 1)], c[n]>>]
  <2>1. /\ 1..n \in SUBSET (1..Len(c)) /\ 1..n # {}
        /\ Max(1..n) = n /\ (1..n) \ {Max(1..n)} = 1..(n - 1)
    BY <1>0, UpTo
  <2>4. g[1..n] = IterStep(F, s0, c, g, 1..n)
    BY <1>1, <2>1 DEF Solves
  <2>. QED  BY <2>1, <2>4 DEF IterStep
<1>5. PICK f : Trace(F, s0, c, f)
  BY <1>3, <1>4, FoldIsTrace
<1> DEFINE S == {n \in Nat : n <= Len(c) => f[n] \in St}
<1>6. 0 \in S
  BY <1>5 DEF Trace
<1>7. ASSUME NEW n \in Nat, n \in S PROVE n + 1 \in S
  <2> SUFFICES ASSUME n + 1 <= Len(c) PROVE f[n + 1] \in St
    OBVIOUS
  <2>1. n + 1 \in 1..Len(c) /\ (n + 1) - 1 = n /\ f[n] \in St
    BY <1>0, <1>7
  <2>. QED  BY <1>0, <1>5, <2>1 DEF Trace, IsStep
<1>8. Nat \subseteq S
  <2> HIDE DEF S
  <2>. QED  BY <1>6, <1>7, NatInduct
<1>. QED  BY <1>0, <1>5, <1>8

(* Nothing scanned, nothing changed.                                       *)
LEMMA AfterNothing ==
  ASSUME NEW St, NEW T, NEW F, IsStep(F, St, T), NEW s0 \in St
  PROVE  After(F, s0, <<>>) = s0
<1> DEFINE none == <<>>
<1>1. none \in Seq(T) /\ Len(none) = 0
  BY EmptySeq
<1> HIDE DEF none
<1>2. PICK f : Trace(F, s0, none, f)
  BY <1>1, TraceExists
<1>3. After(F, s0, none) = f[Len(none)]
  BY <1>1, <1>2, AfterTrace
<1>4. f[0] = s0
  BY <1>2 DEF Trace
<1>. QED  BY <1>1, <1>3, <1>4 DEF none

(* A scan stays within its states.                                         *)
LEMMA AfterTyped ==
  ASSUME NEW St, NEW T, NEW F, IsStep(F, St, T), NEW s0 \in St, NEW c \in Seq(T)
  PROVE  After(F, s0, c) \in St
<1>1. PICK f : Trace(F, s0, c, f) /\ \A n \in 0..Len(c) : f[n] \in St
  BY TraceExists
<1>. QED  BY <1>1, AfterTrace, LenProperties

(* One element more is one step more.                                      *)
LEMMA AfterAppend ==
  ASSUME NEW St, NEW T, NEW F, IsStep(F, St, T), NEW s0 \in St, NEW c \in Seq(T), NEW t \in T
  PROVE  After(F, s0, Append(c, t)) = F[<<After(F, s0, c), t>>]
<1> DEFINE d == Append(c, t)
<1>1. /\ d \in Seq(T) /\ Len(d) = Len(c) + 1 /\ Len(c) \in Nat
      /\ \A i \in 1..Len(c) : d[i] = c[i]
      /\ d[Len(c) + 1] = t
  BY AppendProperties, LenProperties
<1> HIDE DEF d
<1>2. PICK f : Trace(F, s0, d, f)
  BY <1>1, TraceExists
<1>3. Trace(F, s0, c, f)
  BY <1>1, <1>2 DEF Trace
<1>4. f[Len(d)] = F[<<f[Len(c)], t>>]
  <2>1. Len(d) \in 1..Len(d) /\ Len(d) - 1 = Len(c) /\ d[Len(d)] = t
    BY <1>1
  <2>2. \A n \in 1..Len(d) : f[n] = F[<<f[n - 1], d[n]>>]
    BY <1>2 DEF Trace
  <2>. QED  BY <2>1, <2>2
<1>5. After(F, s0, d) = f[Len(d)]
  BY <1>1, <1>2, AfterTrace
<1>6. After(F, s0, c) = f[Len(c)]
  BY <1>3, AfterTrace
<1>. QED  BY <1>4, <1>5, <1>6 DEF d

(* Scanning c and d is scanning c and then d.                              *)
LEMMA AfterConcat ==
  ASSUME NEW St, NEW T, NEW F, IsStep(F, St, T), NEW s0 \in St,
         NEW c \in Seq(T), NEW d \in Seq(T)
  PROVE  After(F, s0, c \o d) = After(F, After(F, s0, c), d)
<1> DEFINE S == {y \in Seq(T) : After(F, s0, c \o y) = After(F, After(F, s0, c), y)}
<1>0. After(F, s0, c) \in St
  BY AfterTyped
<1>1. <<>> \in S
  BY <1>0, AfterNothing, ConcatEmptySeq, EmptySeq
<1>2. ASSUME NEW y \in Seq(T), NEW e \in T, y \in S PROVE Append(y, e) \in S
  <2>1. c \o y \in Seq(T) /\ <<e>> \in Seq(T) /\ Append(y, e) \in Seq(T)
    BY ConcatProperties, AppendProperties
  <2>2. c \o Append(y, e) = Append(c \o y, e)
    BY <2>1, AppendIsConcat, ConcatAssociative
  <2>3. After(F, s0, c \o Append(y, e)) = F[<<After(F, s0, c \o y), e>>]
    <3> DEFINE z == c \o y
    <3>1. z \in Seq(T)
      BY <2>1
    <3> HIDE DEF z
    <3>2. After(F, s0, Append(z, e)) = F[<<After(F, s0, z), e>>]
      BY <3>1, AfterAppend
    <3>. QED  BY <2>2, <3>2 DEF z
  <2>4. After(F, After(F, s0, c), Append(y, e)) = F[<<After(F, After(F, s0, c), y), e>>]
    BY <1>0, AfterAppend
  <2>. QED  BY <1>2, <2>1, <2>3, <2>4
<1>3. Seq(T) \subseteq S
  <2> HIDE DEF S
  <2>. QED  BY <1>1, <1>2, SeqInduct
<1>. QED  BY <1>3

-----------------------------------------------------------------------------
(* The scans of the interceptor as such folds.                             *)
Syntax == {"sh -c", "env sh -c", "dq", "sq", "bq", "esc", ";", "NL", "&&", "(", "$(", ")",
           "base64 -d|sh", ":(){ :|:& };:"}

ScanStates(T) ==
  [parts : SUBSET Seq(T), cur : Seq(T), quote : Quotes \cup {"none"}, depth : Int,
   back : {"none", "esc"}]

Separators(T) == [a \in ScanStates(T) \X T |-> ScanSeparators(a[1], a[2])]
OpScan(T)     == [a \in ScanStates(T) \X T |-> ScanOperators(a[1], a[2])]
Backticks(T)  == [a \in ScanStates(T) \X T |-> ScanBackticks(a[1], a[2])]

(* A state of a scan with one thing changed is one.                        *)
LEMMA StateChanges ==
  ASSUME NEW T, NEW s \in ScanStates(T)
  PROVE  /\ \A x \in Seq(T) : [s EXCEPT !.cur = x] \in ScanStates(T)
         /\ \A q \in Quotes \cup {"none"} : [s EXCEPT !.quote = q] \in ScanStates(T)
         /\ \A d \in Int : [s EXCEPT !.depth = d] \in ScanStates(T)
         /\ [s EXCEPT !.back = "esc"] \in ScanStates(T)
         /\ [s EXCEPT !.parts = Cut(s), !.cur = <<>>] \in ScanStates(T)
         /\ [s EXCEPT !.parts = @ \cup {s.cur}, !.quote = "none", !.cur = <<>>] \in ScanStates(T)
         /\ [s EXCEPT !.quote = "bq", !.cur = <<>>] \in ScanStates(T)
         /\ s.cur \in Seq(T) /\ s.depth \in Int /\ s.quote \in Quotes \cup {"none"}
<1>1. <<>> \in Seq(T) /\ Cut(s) \in SUBSET Seq(T) /\ s.parts \cup {s.cur} \in SUBSET Seq(T)
  BY EmptySeq DEF ScanStates, Cut
<1>2. s.cur \in Seq(T) /\ s.depth \in Int /\ s.quote \in Quotes \cup {"none"}
  BY DEF ScanStates
<1>3. \A x \in Seq(T) : [s EXCEPT !.cur = x] \in ScanStates(T)
  BY DEF ScanStates
<1>4. \A q \in Quotes \cup {"none"} : [s EXCEPT !.quote = q] \in ScanStates(T)
  BY DEF ScanStates
<1>5. \A d \in Int : [s EXCEPT !.depth = d] \in ScanStates(T)
  BY DEF ScanStates
<1>6. [s EXCEPT !.back = "esc"] \in ScanStates(T)
  BY DEF ScanStates
<1>7. [s EXCEPT !.parts = Cut(s), !.cur = <<>>] \in ScanStates(T)
  BY <1>1 DEF ScanStates
<1>8. [s EXCEPT !.parts = @ \cup {s.cur}, !.quote = "none", !.cur = <<>>] \in ScanStates(T)
  BY <1>1 DEF ScanStates
<1>9. [s EXCEPT !.quote = "bq", !.cur = <<>>] \in ScanStates(T)
  BY <1>1 DEF ScanStates, Quotes
<1>. QED  BY <1>2, <1>3, <1>4, <1>5, <1>6, <1>7, <1>8, <1>9

(* ScanSeparators is a step of scan states.                                *)
LEMMA SeparatorsStep ==
  ASSUME NEW T, NEW s \in ScanStates(T), NEW t \in T
  PROVE  Separators(T)[<<s, t>>] = ScanSeparators(s, t) /\ ScanSeparators(s, t) \in ScanStates(T)
<1> DEFINE kept == [s EXCEPT !.cur = Append(@, t), !.back = "none"]
           cut  == [s EXCEPT !.parts = Cut(s), !.cur = <<>>]
<1>1. t \in Quotes => Toggle(s, t) \in Quotes \cup {"none"}
  BY DEF Toggle, ScanStates
<1>2. kept \in ScanStates(T)
  <2>1. s.cur \in Seq(T)
    BY DEF ScanStates
  <2>2. Append(s.cur, t) \in Seq(T)
    BY <2>1, AppendProperties
  <2>. QED  BY <2>2 DEF ScanStates
<1>3. cut \in ScanStates(T)
  BY StateChanges
<1>4. \/ ScanSeparators(s, t) \in {[kept EXCEPT !.back = "esc"], kept, cut}
      \/ t \in Quotes /\ ScanSeparators(s, t) = [kept EXCEPT !.quote = Toggle(s, t)]
      \/ ScanSeparators(s, t) \in {[kept EXCEPT !.depth = @ + 1], [kept EXCEPT !.depth = @ - 1]}
  BY DEF ScanSeparators
<1> HIDE DEF kept, cut
<1>5. kept.depth \in Int /\ kept.depth + 1 \in Int /\ kept.depth - 1 \in Int
  BY <1>2 DEF ScanStates
<1>6. /\ \A q \in Quotes \cup {"none"} : [kept EXCEPT !.quote = q] \in ScanStates(T)
      /\ [kept EXCEPT !.back = "esc"] \in ScanStates(T)
  BY <1>2, StateChanges
<1>7. \A d \in Int : [kept EXCEPT !.depth = d] \in ScanStates(T)
  BY <1>2, StateChanges
<1>8. ScanSeparators(s, t) \in ScanStates(T)
  BY <1>1, <1>2, <1>3, <1>4, <1>5, <1>6, <1>7
<1>. QED  BY <1>8 DEF Separators

(* ScanOperators is one.                                                   *)
LEMMA OperatorsStep ==
  ASSUME NEW T, NEW s \in ScanStates(T), NEW t \in T
  PROVE  OpScan(T)[<<s, t>>] = ScanOperators(s, t) /\ ScanOperators(s, t) \in ScanStates(T)
<1> DEFINE kept == [s EXCEPT !.cur = Append(@, t)]
           cut  == [s EXCEPT !.parts = Cut(s), !.cur = <<>>]
<1>1. t \in Quotes => Toggle(s, t) \in Quotes \cup {"none"}
  BY DEF Toggle, ScanStates
<1>2. kept \in ScanStates(T) /\ cut \in ScanStates(T)
  BY StateChanges, AppendProperties
<1>3. \/ ScanOperators(s, t) \in {kept, cut}
      \/ t \in Quotes /\ ScanOperators(s, t) = [kept EXCEPT !.quote = Toggle(s, t)]
  BY DEF ScanOperators
<1> HIDE DEF kept, cut
<1>4. \A q \in Quotes \cup {"none"} : [kept EXCEPT !.quote = q] \in ScanStates(T)
  BY <1>2, StateChanges
<1>5. ScanOperators(s, t) \in ScanStates(T)
  BY <1>1, <1>2, <1>3, <1>4
<1>. QED  BY <1>5 DEF OpScan

(* ScanBackticks is one.                                                   *)
LEMMA BackticksStep ==
  ASSUME NEW T, NEW s \in ScanStates(T), NEW t \in T
  PROVE  Backticks(T)[<<s, t>>] = ScanBackticks(s, t) /\ ScanBackticks(s, t) \in ScanStates(T)
<1>1. [s EXCEPT !.cur = Append(@, t)] \in ScanStates(T)
  BY StateChanges, AppendProperties
<1>2. ScanBackticks(s, t) \in ScanStates(T)
  BY <1>1, StateChanges DEF ScanBackticks
<1>. QED  BY <1>2 DEF Backticks

(* The fold over ScanSeparators is the scan by its step function.          *)
LEMMA SeparatorsFold ==
  ASSUME NEW T, NEW s0 \in ScanStates(T), NEW c \in Seq(T)
  PROVE  FoldLeft(ScanSeparators, s0, c) = After(Separators(T), s0, c)
<1> DEFINE St == ScanStates(T)
           F == Separators(T)
           Solution(g) == g = [x \in SUBSET DOMAIN c |->
                                 IF x = {} THEN s0
                                 ELSE ScanSeparators(g[x \ {Max(x)}], c[Max(x)])]
           g == CHOOSE g : Solution(g)
<1>0. Len(c) \in Nat /\ DOMAIN c = 1..Len(c) /\ \A i \in 1..Len(c) : c[i] \in T
  BY LenProperties, ElementOfSeq
<1>1. IsStep(F, St, T)
  BY SeparatorsStep DEF IsStep
<1>2. PICK h : Solves(F, St, s0, c, Len(c), h)
  BY <1>1, IterExists
<1>3. ASSUME NEW x \in SUBSET (1..Len(c)), x # {}
      PROVE  Max(x) \in 1..Len(c) /\ h[x \ {Max(x)}] \in St
  BY <1>0, <1>2, <1>3, MaxIn DEF Solves
<1>4. Solution(h)
  <2> DEFINE r == [x \in SUBSET (1..Len(c)) |->
                     IF x = {} THEN s0 ELSE ScanSeparators(h[x \ {Max(x)}], c[Max(x)])]
  <2>1. ASSUME NEW x \in SUBSET (1..Len(c))
        PROVE  h[x] = IF x = {} THEN s0 ELSE ScanSeparators(h[x \ {Max(x)}], c[Max(x)])
    <3>1. h[x] = IF x = {} THEN s0 ELSE F[<<h[x \ {Max(x)}], c[Max(x)]>>]
      BY <1>2 DEF Solves, IterStep
    <3>2. ASSUME x # {}
          PROVE  F[<<h[x \ {Max(x)}], c[Max(x)]>>] = 
                   ScanSeparators(h[x \ {Max(x)}], c[Max(x)])
      <4>1. h[x \ {Max(x)}] \in St /\ c[Max(x)] \in T
        BY <1>0, <1>3, <3>2
      <4>. QED  BY <4>1, SeparatorsStep
    <3> HIDE DEF F, St
    <3>. QED  BY <3>1, <3>2
  <2>2. h = [x \in SUBSET (1..Len(c)) |-> h[x]]
    BY <1>2 DEF Solves
  <2>3. r = [x \in SUBSET (1..Len(c)) |-> r[x]] /\ \A x \in SUBSET (1..Len(c)) : h[x] = r[x]
    BY <2>1
  <2>4. Solution(h) <=> h = r
    BY <1>0
  <2> HIDE DEF F, St, r
  <2>5. h = r
    BY <2>2, <2>3, SameFunction
  <2>. QED  BY <2>4, <2>5
<1>5. Solution(g)
  BY <1>4
<1>6. FoldLeft(ScanSeparators, s0, c) = g[1..Len(c)]
  BY <1>0 DEF FoldLeft, MapThenFoldSet
<1> HIDE DEF g
<1>7. g[{}] = s0
  BY <1>0, <1>5
<1>8. ASSUME NEW n \in 1..Len(c), g[1..(n - 1)] \in St
      PROVE  g[1..n] = F[<<g[1..(n - 1)], c[n]>>]
  <2>1. 1..n \in SUBSET DOMAIN c /\ 1..n # {} /\ (1..n) \ {Max(1..n)} = 1..(n - 1) /\ Max(1..n) = n
    BY <1>0, UpTo
  <2>2. g[1..n] = ScanSeparators(g[1..(n - 1)], c[n])
    BY <1>5, <2>1
  <2>. QED  BY <1>0, <1>8, <2>2, SeparatorsStep
<1>9. PICK f : Trace(F, s0, c, f) /\ f[Len(c)] = g[1..Len(c)]
  BY <1>1, <1>7, <1>8, FoldIsTrace
<1>. QED  BY <1>6, <1>9, AfterTrace

(* The same for ScanOperators.                                             *)
LEMMA OperatorsFold ==
  ASSUME NEW T, NEW s0 \in ScanStates(T), NEW c \in Seq(T)
  PROVE  FoldLeft(ScanOperators, s0, c) = After(OpScan(T), s0, c)
<1> DEFINE St == ScanStates(T)
           F == OpScan(T)
           Solution(g) == g = [x \in SUBSET DOMAIN c |->
                                 IF x = {} THEN s0
                                 ELSE ScanOperators(g[x \ {Max(x)}], c[Max(x)])]
           g == CHOOSE g : Solution(g)
<1>0. Len(c) \in Nat /\ DOMAIN c = 1..Len(c) /\ \A i \in 1..Len(c) : c[i] \in T
  BY LenProperties, ElementOfSeq
<1>1. IsStep(F, St, T)
  BY OperatorsStep DEF IsStep
<1>2. PICK h : Solves(F, St, s0, c, Len(c), h)
  BY <1>1, IterExists
<1>3. ASSUME NEW x \in SUBSET (1..Len(c)), x # {}
      PROVE  Max(x) \in 1..Len(c) /\ h[x \ {Max(x)}] \in St
  BY <1>0, <1>2, <1>3, MaxIn DEF Solves
<1>4. Solution(h)
  <2> DEFINE r == [x \in SUBSET (1..Len(c)) |->
                     IF x = {} THEN s0 ELSE ScanOperators(h[x \ {Max(x)}], c[Max(x)])]
  <2>1. ASSUME NEW x \in SUBSET (1..Len(c))
        PROVE  h[x] = IF x = {} THEN s0 ELSE ScanOperators(h[x \ {Max(x)}], c[Max(x)])
    <3>1. h[x] = IF x = {} THEN s0 ELSE F[<<h[x \ {Max(x)}], c[Max(x)]>>]
      BY <1>2 DEF Solves, IterStep
    <3>2. ASSUME x # {}
          PROVE  F[<<h[x \ {Max(x)}], c[Max(x)]>>] = 
                   ScanOperators(h[x \ {Max(x)}], c[Max(x)])
      <4>1. h[x \ {Max(x)}] \in St /\ c[Max(x)] \in T
        BY <1>0, <1>3, <3>2
      <4>. QED  BY <4>1, OperatorsStep
    <3> HIDE DEF F, St
    <3>. QED  BY <3>1, <3>2
  <2>2. h = [x \in SUBSET (1..Len(c)) |-> h[x]]
    BY <1>2 DEF Solves
  <2>3. r = [x \in SUBSET (1..Len(c)) |-> r[x]] /\ \A x \in SUBSET (1..Len(c)) : h[x] = r[x]
    BY <2>1
  <2>4. Solution(h) <=> h = r
    BY <1>0
  <2> HIDE DEF F, St, r
  <2>5. h = r
    BY <2>2, <2>3, SameFunction
  <2>. QED  BY <2>4, <2>5
<1>5. Solution(g)
  BY <1>4
<1>6. FoldLeft(ScanOperators, s0, c) = g[1..Len(c)]
  BY <1>0 DEF FoldLeft, MapThenFoldSet
<1> HIDE DEF g
<1>7. g[{}] = s0
  BY <1>0, <1>5
<1>8. ASSUME NEW n \in 1..Len(c), g[1..(n - 1)] \in St
      PROVE  g[1..n] = F[<<g[1..(n - 1)], c[n]>>]
  <2>1. 1..n \in SUBSET DOMAIN c /\ 1..n # {} /\ (1..n) \ {Max(1..n)} = 1..(n - 1) /\ Max(1..n) = n
    BY <1>0, UpTo
  <2>2. g[1..n] = ScanOperators(g[1..(n - 1)], c[n])
    BY <1>5, <2>1
  <2>. QED  BY <1>0, <1>8, <2>2, OperatorsStep
<1>9. PICK f : Trace(F, s0, c, f) /\ f[Len(c)] = g[1..Len(c)]
  BY <1>1, <1>7, <1>8, FoldIsTrace
<1>. QED  BY <1>6, <1>9, AfterTrace

(* The same for ScanBackticks.                                             *)
LEMMA BackticksFold ==
  ASSUME NEW T, NEW s0 \in ScanStates(T), NEW c \in Seq(T)
  PROVE  FoldLeft(ScanBackticks, s0, c) = After(Backticks(T), s0, c)
<1> DEFINE St == ScanStates(T)
           F == Backticks(T)
           Solution(g) == g = [x \in SUBSET DOMAIN c |->
                                 IF x = {} THEN s0
                                 ELSE ScanBackticks(g[x \ {Max(x)}], c[Max(x)])]
           g == CHOOSE g : Solution(g)
<1>0. Len(c) \in Nat /\ DOMAIN c = 1..Len(c) /\ \A i \in 1..Len(c) : c[i] \in T
  BY LenProperties, ElementOfSeq
<1>1. IsStep(F, St, T)
  BY BackticksStep DEF IsStep
<1>2. PICK h : Solves(F, St, s0, c, Len(c), h)
  BY <1>1, IterExists
<1>3. ASSUME NEW x \in SUBSET (1..Len(c)), x # {}
      PROVE  Max(x) \in 1..Len(c) /\ h[x \ {Max(x)}] \in St
  BY <1>0, <1>2, <1>3, MaxIn DEF Solves
<1>4. Solution(h)
  <2> DEFINE r == [x \in SUBSET (1..Len(c)) |->
                     IF x = {} THEN s0 ELSE ScanBackticks(h[x \ {Max(x)}], c[Max(x)])]
  <2>1. ASSUME NEW x \in SUBSET (1..Len(c))
        PROVE  h[x] = IF x = {} THEN s0 ELSE ScanBackticks(h[x \ {Max(x)}], c[Max(x)])
    <3>1. h[x] = IF x = {} THEN s0 ELSE F[<<h[x \ {Max(x)}], c[Max(x)]>>]
      BY <1>2 DEF Solves, IterStep
    <3>2. ASSUME x # {}
          PROVE  F[<<h[x \ {Max(x)}], c[Max(x)]>>] = 
                   ScanBackticks(h[x \ {Max(x)}], c[Max(x)])
      <4>1. h[x \ {Max(x)}] \in St /\ c[Max(x)] \in T
        BY <1>0, <1>3, <3>2
      <4>. QED  BY <4>1, BackticksStep
    <3> HIDE DEF F, St
    <3>. QED  BY <3>1, <3>2
  <2>2. h = [x \in SUBSET (1..Len(c)) |-> h[x]]
    BY <1>2 DEF Solves
  <2>3. r = [x \in SUBSET (1..Len(c)) |-> r[x]] /\ \A x \in SUBSET (1..Len(c)) : h[x] = r[x]
    BY <2>1
  <2>4. Solution(h) <=> h = r
    BY <1>0
  <2> HIDE DEF F, St, r
  <2>5. h = r
    BY <2>2, <2>3, SameFunction
  <2>. QED  BY <2>4, <2>5
<1>5. Solution(g)
  BY <1>4
<1>6. FoldLeft(ScanBackticks, s0, c) = g[1..Len(c)]
  BY <1>0 DEF FoldLeft, MapThenFoldSet
<1> HIDE DEF g
<1>7. g[{}] = s0
  BY <1>0, <1>5
<1>8. ASSUME NEW n \in 1..Len(c), g[1..(n - 1)] \in St
      PROVE  g[1..n] = F[<<g[1..(n - 1)], c[n]>>]
  <2>1. 1..n \in SUBSET DOMAIN c /\ 1..n # {} /\ (1..n) \ {Max(1..n)} = 1..(n - 1) /\ Max(1..n) = n
    BY <1>0, UpTo
  <2>2. g[1..n] = ScanBackticks(g[1..(n - 1)], c[n])
    BY <1>5, <2>1
  <2>. QED  BY <1>0, <1>8, <2>2, BackticksStep
<1>9. PICK f : Trace(F, s0, c, f) /\ f[Len(c)] = g[1..Len(c)]
  BY <1>1, <1>7, <1>8, FoldIsTrace
<1>. QED  BY <1>6, <1>9, AfterTrace

Wrappers(T)   == [a \in Seq(T) \X T |-> WrapperBody(a[1])]
Joins(T, sep) == [a \in Seq(T) \X Seq(T) |->
                    IF a[1] = <<>> THEN a[2] ELSE Append(a[1], sep) \o a[2]]

(* What is inside a wrapper is a text.                                     *)
LEMMA WrapperBodyTyped ==
  ASSUME NEW T, NEW c \in Seq(T)
  PROVE  WrapperBody(c) \in Seq(T)
<1> SUFFICES ASSUME c # <<>> PROVE WrapperBody(c) \in Seq(T)
  BY DEF WrapperBody
<1> DEFINE arg == Tail(c)
           n   == Len(arg)
<1>1. arg \in Seq(T)
  BY HeadTailProperties
<1> HIDE DEF arg
<1>2. n \in Nat /\ \A i \in 1..n : arg[i] \in T
  BY <1>1, LenProperties, ElementOfSeq
<1>3. n > 2 => SubSeq(arg, 2, n - 1) \in Seq(T)
  <2> SUFFICES ASSUME n > 2 PROVE SubSeq(arg, 2, n - 1) \in Seq(T)
    OBVIOUS
  <2>1. \A i \in 2..(n - 1) : arg[i] \in T
    BY <1>2
  <2>2. 2 \in Int /\ n - 1 \in Int
    BY <1>2
  <2>. QED  BY <2>1, <2>2, SubSeqProperties
<1>4. WrapperBody(c) \in {c, arg} \/ (n > 2 /\ WrapperBody(c) = SubSeq(arg, 2, n - 1))
  BY DEF WrapperBody, arg
<1>. QED  BY <1>1, <1>3, <1>4

(* One wrapper less is a step.                                             *)
LEMMA WrappersStep ==
  ASSUME NEW T, NEW s \in Seq(T), NEW t \in T
  PROVE  Wrappers(T)[<<s, t>>] = WrapperBody(s) /\ WrapperBody(s) \in Seq(T)
BY WrapperBodyTyped DEF Wrappers

(* One command more on a line is a step.                                   *)
LEMMA JoinsStep ==
  ASSUME NEW T, NEW sep \in T, NEW s \in Seq(T), NEW t \in Seq(T)
  PROVE  /\ Joins(T, sep)[<<s, t>>] = IF s = <<>> THEN t ELSE Append(s, sep) \o t
         /\ (IF s = <<>> THEN t ELSE Append(s, sep) \o t) \in Seq(T)
BY AppendProperties, ConcatProperties DEF Joins

(* unwrapShellCommand takes one wrapper less for each token.               *)
LEMMA WrappersFold ==
  ASSUME NEW T, NEW c \in Seq(T)
  PROVE  unwrapShellCommand(c) = After(Wrappers(T), c, c)
<1> DEFINE St == Seq(T)
           F == Wrappers(T)
           Solution(g) == g = [x \in SUBSET DOMAIN c |->
                                 IF x = {} THEN c
                                 ELSE WrapperBody(g[x \ {Max(x)}])]
           g == CHOOSE g : Solution(g)
<1>0. Len(c) \in Nat /\ DOMAIN c = 1..Len(c) /\ \A i \in 1..Len(c) : c[i] \in T
  BY LenProperties, ElementOfSeq
<1>1. IsStep(F, St, T)
  BY WrappersStep DEF IsStep
<1>2. PICK h : Solves(F, St, c, c, Len(c), h)
  BY <1>1, IterExists
<1>3. ASSUME NEW x \in SUBSET (1..Len(c)), x # {}
      PROVE  Max(x) \in 1..Len(c) /\ h[x \ {Max(x)}] \in St
  BY <1>0, <1>2, <1>3, MaxIn DEF Solves
<1>4. Solution(h)
  <2> DEFINE r == [x \in SUBSET (1..Len(c)) |->
                     IF x = {} THEN c ELSE WrapperBody(h[x \ {Max(x)}])]
  <2>1. ASSUME NEW x \in SUBSET (1..Len(c))
        PROVE  h[x] = IF x = {} THEN c ELSE WrapperBody(h[x \ {Max(x)}])
    <3>1. h[x] = IF x = {} THEN c ELSE F[<<h[x \ {Max(x)}], c[Max(x)]>>]
      BY <1>2 DEF Solves, IterStep
    <3>2. ASSUME x # {}
          PROVE  F[<<h[x \ {Max(x)}], c[Max(x)]>>] = 
                   WrapperBody(h[x \ {Max(x)}])
      <4>1. h[x \ {Max(x)}] \in St /\ c[Max(x)] \in T
        BY <1>0, <1>3, <3>2
      <4>. QED  BY <4>1, WrappersStep
    <3> HIDE DEF F, St
    <3>. QED  BY <3>1, <3>2
  <2>2. h = [x \in SUBSET (1..Len(c)) |-> h[x]]
    BY <1>2 DEF Solves
  <2>3. r = [x \in SUBSET (1..Len(c)) |-> r[x]] /\ \A x \in SUBSET (1..Len(c)) : h[x] = r[x]
    BY <2>1
  <2>4. Solution(h) <=> h = r
    BY <1>0
  <2> HIDE DEF F, St, r
  <2>5. h = r
    BY <2>2, <2>3, SameFunction
  <2>. QED  BY <2>4, <2>5
<1>5. Solution(g)
  BY <1>4
<1>6. unwrapShellCommand(c) = g[1..Len(c)]
  BY <1>0 DEF unwrapShellCommand, FoldLeft, MapThenFoldSet
<1> HIDE DEF g
<1>7. g[{}] = c
  BY <1>0, <1>5
<1>8. ASSUME NEW n \in 1..Len(c), g[1..(n - 1)] \in St
      PROVE  g[1..n] = F[<<g[1..(n - 1)], c[n]>>]
  <2>1. 1..n \in SUBSET DOMAIN c /\ 1..n # {} /\ (1..n) \ {Max(1..n)} = 1..(n - 1) /\ Max(1..n) = n
    BY <1>0, UpTo
  <2>2. g[1..n] = WrapperBody(g[1..(n - 1)])
    BY <1>5, <2>1
  <2>. QED  BY <1>0, <1>8, <2>2, WrappersStep
<1>9. PICK f : Trace(F, c, c, f) /\ f[Len(c)] = g[1..Len(c)]
  BY <1>1, <1>7, <1>8, FoldIsTrace
<1>. QED  BY <1>6, <1>9, AfterTrace

(* A line is joined command by command.                                    *)
LEMMA JoinsFold ==
  ASSUME NEW T, NEW sep \in T, NEW c \in Seq(Seq(T))
  PROVE  Line(c, sep) = After(Joins(T, sep), <<>>, c)
<1> DEFINE Join(l, k) == IF l = <<>> THEN k ELSE Append(l, sep) \o k
           St == Seq(T)
           F == Joins(T, sep)
           Solution(g) == g = [x \in SUBSET DOMAIN c |->
                                 IF x = {} THEN <<>>
                                 ELSE Join(g[x \ {Max(x)}], c[Max(x)])]
           g == CHOOSE g : Solution(g)
<1>0. Len(c) \in Nat /\ DOMAIN c = 1..Len(c) /\ \A i \in 1..Len(c) : c[i] \in Seq(T)
  BY LenProperties, ElementOfSeq
<1>a. \A l \in St, k \in St : F[<<l, k>>] = Join(l, k) /\ Join(l, k) \in St
  BY JoinsStep
<1>1. IsStep(F, St, St) /\ <<>> \in St
  BY <1>a, EmptySeq DEF IsStep
<1>2. PICK h : Solves(F, St, <<>>, c, Len(c), h)
  BY <1>1, IterExists
<1>3. ASSUME NEW x \in SUBSET (1..Len(c)), x # {}
      PROVE  Max(x) \in 1..Len(c) /\ h[x \ {Max(x)}] \in St
  BY <1>0, <1>2, <1>3, MaxIn DEF Solves
<1>4. Solution(h)
  <2> DEFINE r == [x \in SUBSET (1..Len(c)) |->
                     IF x = {} THEN <<>> ELSE Join(h[x \ {Max(x)}], c[Max(x)])]
  <2>1. ASSUME NEW x \in SUBSET (1..Len(c))
        PROVE  h[x] = IF x = {} THEN <<>> ELSE Join(h[x \ {Max(x)}], c[Max(x)])
    <3>1. h[x] = IF x = {} THEN <<>> ELSE F[<<h[x \ {Max(x)}], c[Max(x)]>>]
      BY <1>2 DEF Solves, IterStep
    <3>2. ASSUME x # {}
          PROVE  F[<<h[x \ {Max(x)}], c[Max(x)]>>] = 
                   Join(h[x \ {Max(x)}], c[Max(x)])
      <4>1. h[x \ {Max(x)}] \in St /\ c[Max(x)] \in St
        BY <1>0, <1>3, <3>2
      <4>. QED  BY <4>1, <1>a
    <3> HIDE DEF F, St
    <3>. QED  BY <3>1, <3>2
  <2>2. h = [x \in SUBSET (1..Len(c)) |-> h[x]]
    BY <1>2 DEF Solves
  <2>3. r = [x \in SUBSET (1..Len(c)) |-> r[x]] /\ \A x \in SUBSET (1..Len(c)) : h[x] = r[x]
    BY <2>1
  <2>4. Solution(h) <=> h = r
    BY <1>0
  <2> HIDE DEF F, St, r
  <2>5. h = r
    BY <2>2, <2>3, SameFunction
  <2>. QED  BY <2>4, <2>5
<1>5. Solution(g)
  BY <1>4
<1>6. Line(c, sep) = g[1..Len(c)]
  BY <1>0 DEF Line, FoldLeft, MapThenFoldSet
<1> DEFINE none == <<>>
<1>c. none \in St /\ c \in Seq(St) /\ \A i \in 1..Len(c) : c[i] \in St
  BY <1>0, <1>1
<1>d. Line(c, sep) = After(F, none, c) => Line(c, sep) = After(Joins(T, sep), <<>>, c)
  OBVIOUS
<1>7. g[{}] = none
  BY <1>0, <1>5
<1>e. IsStep(F, St, St)
  BY <1>1
<1> HIDE DEF g, Join, F, St, none
<1>8. ASSUME NEW n \in 1..Len(c), g[1..(n - 1)] \in St
      PROVE  g[1..n] = F[<<g[1..(n - 1)], c[n]>>]
  <2>1. 1..n \in SUBSET DOMAIN c /\ 1..n # {} /\ (1..n) \ {Max(1..n)} = 1..(n - 1) /\ Max(1..n) = n
    BY <1>0, UpTo
  <2>2. g[1..n] = Join(g[1..(n - 1)], c[n])
    BY <1>5, <2>1
  <2>. QED  BY <1>a, <1>c, <1>8, <2>2
<1>9. PICK f : Trace(F, none, c, f) /\ f[Len(c)] = g[1..Len(c)]
  BY <1>c, <1>e, <1>7, <1>8, FoldIsTrace
<1>. QED  BY <1>c, <1>d, <1>6, <1>9, AfterTrace

-----------------------------------------------------------------------------
(* A scan that keeps all of c: it begins in quote q at depth d, and ends   *)
(* in quote q2 at depth d2 with nothing cut off.                           *)
At(P, x, q, d) == [parts |-> P, cur |-> x, quote |-> q, depth |-> d, back |-> "none"]

Carries(F, T, c, q, d, q2, d2) ==
  \A P \in SUBSET Seq(T), x \in Seq(T) :
    After(F, At(P, x, q, d), c) = At(P, x \o c, q2, d2)

InQuotes == Quotes \cup {"none"}

\* One token is kept, with this change of quote and depth.
Keeps(F, T, t, q, d, q2, d2) ==
  \A P \in SUBSET Seq(T), x \in Seq(T) :
    F[<<At(P, x, q, d), t>>] = At(P, Append(x, t), q2, d2)

IsScan(F, T) == IsStep(F, ScanStates(T), T)

(* A plain place of a scan is one of its states.                           *)
LEMMA AtIsState ==
  ASSUME NEW T, NEW P \in SUBSET Seq(T), NEW x \in Seq(T), NEW q \in InQuotes, NEW d \in Int
  PROVE  At(P, x, q, d) \in ScanStates(T)
BY DEF At, ScanStates, InQuotes

(* A scan that carries two texts carries one behind the other.             *)
LEMMA CarryConcat ==
  ASSUME NEW T, NEW F, IsScan(F, T), NEW c \in Seq(T), NEW e \in Seq(T),
         NEW q \in InQuotes, NEW d \in Int, NEW q1 \in InQuotes, NEW d1 \in Int,
         NEW q2 \in InQuotes, NEW d2 \in Int,
         Carries(F, T, c, q, d, q1, d1), Carries(F, T, e, q1, d1, q2, d2)
  PROVE  Carries(F, T, c \o e, q, d, q2, d2)
<1> SUFFICES ASSUME NEW P \in SUBSET Seq(T), NEW x \in Seq(T)
             PROVE  After(F, At(P, x, q, d), c \o e) = At(P, x \o (c \o e), q2, d2)
  BY DEF Carries
<1>1. At(P, x, q, d) \in ScanStates(T)
  BY AtIsState
<1>2. After(F, At(P, x, q, d), c \o e) = After(F, After(F, At(P, x, q, d), c), e)
  BY <1>1, AfterConcat DEF IsScan
<1>3. After(F, At(P, x, q, d), c) = At(P, x \o c, q1, d1)
  BY DEF Carries
<1>4. x \o c \in Seq(T) /\ (x \o c) \o e = x \o (c \o e)
  BY ConcatProperties, ConcatAssociative
<1>5. After(F, At(P, x \o c, q1, d1), e) = At(P, (x \o c) \o e, q2, d2)
  BY <1>4 DEF Carries
<1>. QED  BY <1>2, <1>3, <1>4, <1>5

(* Each scan carries nothing.                                              *)
LEMMA CarryNothing ==
  ASSUME NEW T, NEW F, IsScan(F, T), NEW q \in InQuotes, NEW d \in Int
  PROVE  Carries(F, T, <<>>, q, d, q, d)
<1> SUFFICES ASSUME NEW P \in SUBSET Seq(T), NEW x \in Seq(T)
             PROVE  After(F, At(P, x, q, d), <<>>) = At(P, x \o <<>>, q, d)
  BY DEF Carries
<1>1. At(P, x, q, d) \in ScanStates(T)
  BY AtIsState
<1>. QED  BY <1>1, AfterNothing, ConcatEmptySeq DEF IsScan

(* A text and a token that is kept.                                        *)
LEMMA CarryAppend ==
  ASSUME NEW T, NEW F, IsScan(F, T), NEW c \in Seq(T), NEW t \in T,
         NEW q \in InQuotes, NEW d \in Int, NEW q1 \in InQuotes, NEW d1 \in Int,
         NEW q2 \in InQuotes, NEW d2 \in Int,
         Carries(F, T, c, q, d, q1, d1), Keeps(F, T, t, q1, d1, q2, d2)
  PROVE  Carries(F, T, Append(c, t), q, d, q2, d2)
<1> SUFFICES ASSUME NEW P \in SUBSET Seq(T), NEW x \in Seq(T)
             PROVE  After(F, At(P, x, q, d), Append(c, t)) = At(P, x \o Append(c, t), q2, d2)
  BY DEF Carries
<1>1. At(P, x, q, d) \in ScanStates(T)
  BY AtIsState
<1>2. After(F, At(P, x, q, d), Append(c, t)) = F[<<After(F, At(P, x, q, d), c), t>>]
  BY <1>1, AfterAppend DEF IsScan
<1>3. After(F, At(P, x, q, d), c) = At(P, x \o c, q1, d1)
  BY DEF Carries
<1>4. x \o c \in Seq(T) /\ Append(x \o c, t) = x \o Append(c, t)
  <2>1. x \o c \in Seq(T) /\ <<t>> \in Seq(T)
    BY ConcatProperties
  <2>2. Append(x \o c, t) = (x \o c) \o <<t>> /\ Append(c, t) = c \o <<t>>
    BY <2>1, AppendIsConcat
  <2>3. Assoc(x, c, <<t>>)
    BY <2>1, Associates
  <2>. QED  BY <2>1, <2>2, <2>3 DEF Assoc
<1>5. F[<<At(P, x \o c, q1, d1), t>>] = At(P, Append(x \o c, t), q2, d2)
  BY <1>4 DEF Keeps
<1>. QED  BY <1>2, <1>3, <1>4, <1>5

(* A token that is kept.                                                   *)
LEMMA CarryToken ==
  ASSUME NEW T, NEW F, IsScan(F, T), NEW t \in T,
         NEW q \in InQuotes, NEW d \in Int, NEW q2 \in InQuotes, NEW d2 \in Int,
         Keeps(F, T, t, q, d, q2, d2)
  PROVE  Carries(F, T, <<t>>, q, d, q2, d2)
<1> DEFINE none == <<>>
<1>1. none \in Seq(T) /\ Carries(F, T, none, q, d, q, d) /\ Append(none, t) = <<t>>
  BY CarryNothing, EmptySeq
<1> HIDE DEF none
<1>2. Carries(F, T, Append(none, t), q, d, q2, d2)
  BY <1>1, CarryAppend
<1>. QED  BY <1>1, <1>2

(* Texts of nothing but tokens that change nothing.                        *)
LEMMA CarryTokens ==
  ASSUME NEW T, NEW F, IsScan(F, T), NEW W, W \subseteq T, NEW q \in InQuotes, NEW d \in Int,
         \A t \in W : Keeps(F, T, t, q, d, q, d)
  PROVE  \A c \in Seq(W) : Carries(F, T, c, q, d, q, d)
<1> DEFINE S == {c \in Seq(W) : Carries(F, T, c, q, d, q, d)}
<1>1. <<>> \in S
  BY CarryNothing, EmptySeq
<1>2. ASSUME NEW c \in Seq(W), NEW t \in W, c \in S PROVE Append(c, t) \in S
  <2>1. c \in Seq(T) /\ t \in T /\ Append(c, t) \in Seq(W)
    BY SeqMonotonic, AppendProperties
  <2>2. Keeps(F, T, t, q, d, q, d) /\ Carries(F, T, c, q, d, q, d)
    BY <1>2
  <2>. QED  BY <2>1, <2>2, CarryAppend
<1>3. Seq(W) \subseteq S
  <2> HIDE DEF S
  <2>. QED  BY <1>1, <1>2, SeqInduct
<1>. QED  BY <1>3

(* What the scans of the interceptor keep.                                 *)
LEMMA SeparatorsKeep ==
  ASSUME NEW T, NEW t \in T, NEW q \in InQuotes, NEW d \in Int
  PROVE  /\ t \notin Syntax => Keeps(Separators(T), T, t, q, d, q, d)
         /\ t \in Separator /\ ~(q = "none" /\ d = 0) => Keeps(Separators(T), T, t, q, d, q, d)
         /\ t = "&&" => Keeps(Separators(T), T, t, q, d, q, d)
         /\ t \in Quotes /\ q = "none" => Keeps(Separators(T), T, t, q, d, t, d)
         /\ t \in Quotes /\ q = t => Keeps(Separators(T), T, t, q, d, "none", d)
         /\ t \in Quotes /\ q \notin {"none", t} => Keeps(Separators(T), T, t, q, d, q, d)
         /\ t = "$(" => Keeps(Separators(T), T, t, q, d, q, d + 1)
         /\ t = ")" => Keeps(Separators(T), T, t, q, d, q, d - 1)
<1> SUFFICES ASSUME NEW P \in SUBSET Seq(T), NEW x \in Seq(T)
             PROVE  LET s == At(P, x, q, d)
                        r == Separators(T)[<<s, t>>]
                    IN /\ t \notin Syntax => r = At(P, Append(x, t), q, d)
                       /\ t \in Separator /\ ~(q = "none" /\ d = 0) => r = At(P, Append(x, t), q, d)
                       /\ t = "&&" => r = At(P, Append(x, t), q, d)
                       /\ t \in Quotes /\ q = "none" => r = At(P, Append(x, t), t, d)
                       /\ t \in Quotes /\ q = t => r = At(P, Append(x, t), "none", d)
                       /\ t \in Quotes /\ q \notin {"none", t} => r = At(P, Append(x, t), q, d)
                       /\ t = "$(" => r = At(P, Append(x, t), q, d + 1)
                       /\ t = ")" => r = At(P, Append(x, t), q, d - 1)
  BY DEF Keeps
<1>1. At(P, x, q, d) \in ScanStates(T)
  BY AtIsState
<1>2. Separators(T)[<<At(P, x, q, d), t>>] = ScanSeparators(At(P, x, q, d), t)
  BY <1>1, SeparatorsStep
<1>. QED  BY <1>2 DEF ScanSeparators, At, Syntax, Separator, Quotes, Toggle

\* A token at which the scan cuts, outside of quotes and brackets.
Cuts(F, T, t) ==
  \A P \in SUBSET Seq(T), x \in Seq(T) :
    F[<<At(P, x, "none", 0), t>>] = At(IF x = <<>> THEN P ELSE P \cup {x}, <<>>, "none", 0)

(* The first scan cuts at ";" and at a newline.                            *)
LEMMA SeparatorsCut ==
  ASSUME NEW T, NEW t \in T, t \in Separator
  PROVE  Cuts(Separators(T), T, t)
<1> SUFFICES ASSUME NEW P \in SUBSET Seq(T), NEW x \in Seq(T)
             PROVE  Separators(T)[<<At(P, x, "none", 0), t>>]
                      = At(IF x = <<>> THEN P ELSE P \cup {x}, <<>>, "none", 0)
  BY DEF Cuts
<1>1. At(P, x, "none", 0) \in ScanStates(T)
  BY AtIsState DEF InQuotes
<1>2. Separators(T)[<<At(P, x, "none", 0), t>>] = ScanSeparators(At(P, x, "none", 0), t)
  BY <1>1, SeparatorsStep
<1>. QED  BY <1>2 DEF ScanSeparators, At, Cut, Separator, Quotes

(* The second scan cuts at "&&".                                           *)
LEMMA OperatorsCut ==
  ASSUME NEW T, "&&" \in T
  PROVE  Cuts(OpScan(T), T, "&&")
<1> SUFFICES ASSUME NEW P \in SUBSET Seq(T), NEW x \in Seq(T)
             PROVE  OpScan(T)[<<At(P, x, "none", 0), "&&">>]
                      = At(IF x = <<>> THEN P ELSE P \cup {x}, <<>>, "none", 0)
  BY DEF Cuts
<1>1. At(P, x, "none", 0) \in ScanStates(T)
  BY AtIsState DEF InQuotes
<1>2. OpScan(T)[<<At(P, x, "none", 0), "&&">>] = ScanOperators(At(P, x, "none", 0), "&&")
  BY <1>1, OperatorsStep
<1>. QED  BY <1>2 DEF ScanOperators, At, Cut, Quotes

(* What the second scan keeps.                                             *)
LEMMA OperatorScanKeeps ==
  ASSUME NEW T, NEW t \in T, NEW q \in InQuotes, NEW d \in Int
  PROVE  /\ t \notin Quotes \cup {"&&"} => Keeps(OpScan(T), T, t, q, d, q, d)
         /\ t = "&&" /\ q # "none" => Keeps(OpScan(T), T, t, q, d, q, d)
         /\ t \in Quotes /\ q = "none" => Keeps(OpScan(T), T, t, q, d, t, d)
         /\ t \in Quotes /\ q = t => Keeps(OpScan(T), T, t, q, d, "none", d)
         /\ t \in Quotes /\ q \notin {"none", t} => Keeps(OpScan(T), T, t, q, d, q, d)
<1> SUFFICES ASSUME NEW P \in SUBSET Seq(T), NEW x \in Seq(T)
             PROVE  LET s == At(P, x, q, d)
                        r == OpScan(T)[<<s, t>>]
                    IN /\ t \notin Quotes \cup {"&&"} => r = At(P, Append(x, t), q, d)
                       /\ t = "&&" /\ q # "none" => r = At(P, Append(x, t), q, d)
                       /\ t \in Quotes /\ q = "none" => r = At(P, Append(x, t), t, d)
                       /\ t \in Quotes /\ q = t => r = At(P, Append(x, t), "none", d)
                       /\ t \in Quotes /\ q \notin {"none", t} => r = At(P, Append(x, t), q, d)
  BY DEF Keeps
<1>1. At(P, x, q, d) \in ScanStates(T)
  BY AtIsState
<1>2. OpScan(T)[<<At(P, x, q, d), t>>] = ScanOperators(At(P, x, q, d), t)
  BY <1>1, OperatorsStep
<1>. QED  BY <1>2 DEF ScanOperators, At, Quotes, Toggle

(* What the scan for backticks keeps.                                      *)
LEMMA BackticksKeep ==
  ASSUME NEW T, NEW t \in T, t # "bq", NEW q \in InQuotes, NEW d \in Int
  PROVE  Keeps(Backticks(T), T, t, q, d, q, d)
<1> SUFFICES ASSUME NEW P \in SUBSET Seq(T), NEW x \in Seq(T)
             PROVE  Backticks(T)[<<At(P, x, q, d), t>>] = At(P, Append(x, t), q, d)
  BY DEF Keeps
<1>1. At(P, x, q, d) \in ScanStates(T)
  BY AtIsState
<1>2. Backticks(T)[<<At(P, x, q, d), t>>] = ScanBackticks(At(P, x, q, d), t)
  BY <1>1, BackticksStep
<1>. QED  BY <1>2 DEF ScanBackticks, At

(* The three of them are scans.                                            *)
LEMMA ScansAreScans ==
  ASSUME NEW T
  PROVE  IsScan(Separators(T), T) /\ IsScan(OpScan(T), T) /\ IsScan(Backticks(T), T)
BY SeparatorsStep, OperatorsStep, BackticksStep DEF IsScan, IsStep

(* One element is one step.                                                *)
LEMMA AfterOne ==
  ASSUME NEW St, NEW T, NEW F, IsStep(F, St, T), NEW s0 \in St, NEW t \in T
  PROVE  After(F, s0, <<t>>) = F[<<s0, t>>]
<1> DEFINE none == <<>>
<1>1. none \in Seq(T)
  BY EmptySeq
<1>2. Append(none, t) = <<t>>
  OBVIOUS
<1>3. After(F, s0, none) = s0
  BY AfterNothing
<1> HIDE DEF none
<1>4. After(F, s0, Append(none, t)) = F[<<After(F, s0, none), t>>]
  BY <1>1, AfterAppend
<1>. QED  BY <1>2, <1>3, <1>4

\* The same with a backslash behind it.
Escaped(P, x, q, d) == [parts |-> P, cur |-> x, quote |-> q, depth |-> d, back |-> "esc"]

EscapesWith(T, t, q, d) ==
  \A P \in SUBSET Seq(T), x \in Seq(T) :
    /\ Escaped(P, x, q, d) \in ScanStates(T)
    /\ t = "esc" => Separators(T)[<<At(P, x, q, d), t>>] = Escaped(P, Append(x, t), q, d)
    /\ t # "$(" => Separators(T)[<<Escaped(P, x, q, d), t>>] = At(P, Append(x, t), q, d)

(* A backslash, and what it hides.                                         *)
LEMMA SeparatorsEscape ==
  ASSUME NEW T, NEW t \in T, NEW q \in InQuotes, NEW d \in Int
  PROVE  EscapesWith(T, t, q, d)
<1> SUFFICES ASSUME NEW P \in SUBSET Seq(T), NEW x \in Seq(T)
             PROVE
         /\ Escaped(P, x, q, d) \in ScanStates(T)
         /\ t = "esc" => Separators(T)[<<At(P, x, q, d), t>>] = Escaped(P, Append(x, t), q, d)
         /\ t # "$(" => Separators(T)[<<Escaped(P, x, q, d), t>>] = At(P, Append(x, t), q, d)
  BY DEF EscapesWith
<1>1. At(P, x, q, d) \in ScanStates(T)
  BY AtIsState
<1>2. Escaped(P, x, q, d) \in ScanStates(T)
  BY DEF Escaped, ScanStates, InQuotes
<1>3. /\ Separators(T)[<<At(P, x, q, d), t>>] = ScanSeparators(At(P, x, q, d), t)
      /\ Separators(T)[<<Escaped(P, x, q, d), t>>] = ScanSeparators(Escaped(P, x, q, d), t)
  BY <1>1, <1>2, SeparatorsStep
<1>4. t = "esc" => ScanSeparators(At(P, x, q, d), t) = Escaped(P, Append(x, t), q, d)
  BY DEF ScanSeparators, At, Escaped, Quotes, Separator
<1>5. t # "$(" => ScanSeparators(Escaped(P, x, q, d), t) = At(P, Append(x, t), q, d)
  BY DEF ScanSeparators, At, Escaped
<1>. QED  BY <1>2, <1>3, <1>4, <1>5

(* A text of one token.                                                    *)
LEMMA OneIsSeq ==
  ASSUME NEW T, NEW t \in T
  PROVE  <<t>> \in Seq(T)
OBVIOUS

(* Two tokens are one behind the other.                                    *)
LEMMA PairIsConcat ==
  ASSUME NEW T, NEW s \in T, NEW t \in T
  PROVE  <<s>> \o <<t>> = <<s, t>>
<1> DEFINE one  == <<s>>
           two  == <<t>>
           both == <<s, t>>
<1>1. /\ one \in Seq(T) /\ Len(one) = 1 /\ one[1] = s
      /\ two \in Seq(T) /\ Len(two) = 1 /\ two[1] = t
      /\ both \in Seq(T) /\ Len(both) = 2 /\ both[1] = s /\ both[2] = t
  OBVIOUS
<1> HIDE DEF one, two, both
<1>2. one \o two \in Seq(T) /\ Len(one \o two) = 2 /\ (one \o two)[1] = s /\ (one \o two)[2] = t
  BY <1>1, ConcatProperties
<1>3. \A i \in 1..2 : i = 1 \/ i = 2
  OBVIOUS
<1>4. one \o two = both
  BY <1>1, <1>2, <1>3, SeqEqual
<1>. QED  BY <1>4 DEF one, two, both

(* A backslash hides the token behind it, all but "$(".                    *)
LEMMA EscapeIsKept ==
  ASSUME NEW T, "esc" \in T, NEW t \in T, t # "$(", NEW q \in InQuotes, NEW d \in Int
  PROVE  Carries(Separators(T), T, <<"esc", t>>, q, d, q, d)
<1> DEFINE F == Separators(T)
           one == <<"esc">>
           two == <<t>>
<1>a. one \in Seq(T) /\ two \in Seq(T)
  OBVIOUS
<1>b. one \o two = <<"esc", t>>
  BY PairIsConcat
<1> SUFFICES ASSUME NEW P \in SUBSET Seq(T), NEW x \in Seq(T)
             PROVE  After(F, At(P, x, q, d), one \o two) = At(P, x \o (one \o two), q, d)
  BY <1>b DEF Carries
<1> DEFINE s == At(P, x, q, d)
           u == Escaped(P, Append(x, "esc"), q, d)
<1>1. s \in ScanStates(T) /\ IsStep(F, ScanStates(T), T)
  BY AtIsState, ScansAreScans DEF IsScan
<1>2. Append(x, "esc") \in Seq(T)
  BY AppendProperties
<1>c. EscapesWith(T, "esc", q, d) /\ EscapesWith(T, t, q, d)
  BY SeparatorsEscape
<1>3. u \in ScanStates(T)
  BY <1>2, <1>c DEF EscapesWith
<1>4. F[<<s, "esc">>] = u
  BY <1>c DEF EscapesWith
<1>5. F[<<u, t>>] = At(P, Append(Append(x, "esc"), t), q, d)
  BY <1>2, <1>c DEF EscapesWith
<1>6. After(F, s, one) = u
  BY <1>1, <1>4, AfterOne
<1>7. After(F, u, two) = F[<<u, t>>]
  <2> HIDE DEF u, F
  <2>. QED  BY <1>1, <1>3, AfterOne
<1>8. Append(Append(x, "esc"), t) = x \o (one \o two)
  <2>1. Append(Append(x, "esc"), t) = (x \o one) \o two
    BY <1>2, AppendIsConcat
  <2>. QED  BY <1>a, <2>1, ConcatAssociative
<1> HIDE DEF s, F, one, two
<1>9. After(F, s, one \o two) = After(F, After(F, s, one), two)
  BY <1>a, <1>1, AfterConcat
<1> HIDE DEF u
<1>. QED  BY <1>5, <1>6, <1>7, <1>8, <1>9 DEF s

-----------------------------------------------------------------------------
(* Simple commands over a set of words: a word, and behind it any number   *)
(* of words, quoted texts, in which separators may stand, and backslashes  *)
(* with what they hide.                                                    *)
Tokens(W) == W \cup Syntax \cup {"echo"}
Inside    == Between \cup {"dq", "sq", "esc"}

Quoted(p, c) == <<p>> \o c \o <<p>>

Chunks(W) ==
  {<<w>> : w \in W}
    \cup {Quoted("dq", c) : c \in Seq(W \cup Between)}
    \cup {Quoted("sq", c) : c \in Seq(W \cup Between)}
    \cup {<<"esc", t>> : t \in W \cup {";", "NL"}}

HasCommands(W, S) ==
  /\ \A w \in W : <<w>> \in S
  /\ \A c \in S, k \in Chunks(W) : c \o k \in S

\* The smallest set that has them.
Commands(W) ==
  {c \in Seq(Tokens(W)) : \A S \in SUBSET Seq(Tokens(W)) : HasCommands(W, S) => c \in S}

(* The two cutting scans keep it whole, also within backticks and brackets.*)
Whole(W, c) ==
  \A q \in {"none", "bq"}, d \in Int :
    /\ Carries(Separators(Tokens(W)), Tokens(W), c, q, d, q, d)
    /\ Carries(OpScan(Tokens(W)), Tokens(W), c, q, d, q, d)

AreWords(W) == W \cap Syntax = {}

(* A word is kept whole.                                                   *)
LEMMA WordIsWhole ==
  ASSUME NEW W, AreWords(W), NEW w \in W
  PROVE  Whole(W, <<w>>)
<1> DEFINE T == Tokens(W)
<1> SUFFICES ASSUME NEW q \in {"none", "bq"}, NEW d \in Int
             PROVE  /\ Carries(Separators(T), T, <<w>>, q, d, q, d)
                    /\ Carries(OpScan(T), T, <<w>>, q, d, q, d)
  BY DEF Whole
<1>1. w \in T /\ w \notin Syntax /\ w \notin Quotes \cup {"&&"} /\ q \in InQuotes
  BY DEF Tokens, AreWords, Syntax, Quotes, InQuotes
<1>2. Keeps(Separators(T), T, w, q, d, q, d) /\ Keeps(OpScan(T), T, w, q, d, q, d)
  BY <1>1, SeparatorsKeep, OperatorScanKeeps
<1>. QED  BY <1>1, <1>2, CarryToken, ScansAreScans

(* So is a backslash with what follows it.                                 *)
LEMMA EscapeIsWhole ==
  ASSUME NEW W, AreWords(W), NEW t \in W \cup {";", "NL"}
  PROVE  Whole(W, <<"esc", t>>)
<1> DEFINE T == Tokens(W)
<1> SUFFICES ASSUME NEW q \in {"none", "bq"}, NEW d \in Int
             PROVE  /\ Carries(Separators(T), T, <<"esc", t>>, q, d, q, d)
                    /\ Carries(OpScan(T), T, <<"esc", t>>, q, d, q, d)
  BY DEF Whole
<1>1. t \in T /\ "esc" \in T /\ t # "$(" /\ t \notin Quotes \cup {"&&"} /\ q \in InQuotes
      /\ "esc" \notin Quotes \cup {"&&"}
  BY DEF Tokens, AreWords, Syntax, Quotes, InQuotes
<1>2. Carries(Separators(T), T, <<"esc", t>>, q, d, q, d)
  BY <1>1, EscapeIsKept
<1>3. Keeps(OpScan(T), T, "esc", q, d, q, d) /\ Keeps(OpScan(T), T, t, q, d, q, d)
  BY <1>1, OperatorScanKeeps
<1>4. Carries(OpScan(T), T, <<"esc">>, q, d, q, d) /\ Carries(OpScan(T), T, <<t>>, q, d, q, d)
  BY <1>1, <1>3, CarryToken, ScansAreScans
<1>5. Carries(OpScan(T), T, <<"esc">> \o <<t>>, q, d, q, d)
  <2>1. <<"esc">> \in Seq(T) /\ <<t>> \in Seq(T)
    BY <1>1, OneIsSeq
  <2>. QED  BY <1>1, <1>4, <2>1, CarryConcat, ScansAreScans
<1>6. <<"esc">> \o <<t>> = <<"esc", t>>
  BY <1>1, PairIsConcat
<1>. QED  BY <1>2, <1>5, <1>6

(* So is a text in quotes, whatever separators are in it.                  *)
LEMMA QuotedIsWhole ==
  ASSUME NEW W, AreWords(W), NEW p \in {"dq", "sq"}, NEW c \in Seq(W \cup Between)
  PROVE  Whole(W, Quoted(p, c))
<1> DEFINE T == Tokens(W)
<1> SUFFICES ASSUME NEW q \in {"none", "bq"}, NEW d \in Int
             PROVE  /\ Carries(Separators(T), T, Quoted(p, c), q, d, q, d)
                    /\ Carries(OpScan(T), T, Quoted(p, c), q, d, q, d)
  BY DEF Whole
<1> DEFINE r == IF q = "none" THEN p ELSE q
<1>1. p \in T /\ p \in Quotes /\ q \in InQuotes /\ r \in InQuotes /\ r # "none"
  BY DEF Tokens, Syntax, Quotes, InQuotes
<1>a. W \cup Between \subseteq T
  BY DEF Tokens, Syntax, Between
<1>2. W \cup Between \subseteq T /\ c \in Seq(T) /\ <<p>> \in Seq(T)
  BY <1>a, <1>1, SeqMonotonic, OneIsSeq
<1>3. ASSUME NEW t \in W \cup Between
      PROVE  Keeps(Separators(T), T, t, r, d, r, d) /\ Keeps(OpScan(T), T, t, r, d, r, d)
  <2>1. t \in T /\ (t \notin Syntax \/ t \in Separator \/ t = "&&")
    BY <1>2 DEF AreWords, Between, Separator
  <2>2. t \notin Quotes
    BY DEF AreWords, Between, Syntax, Quotes
  <2> HIDE DEF r
  <2>3. Keeps(Separators(T), T, t, r, d, r, d)
    BY <1>1, <2>1, SeparatorsKeep
  <2>4. Keeps(OpScan(T), T, t, r, d, r, d)
    BY <1>1, <2>1, <2>2, OperatorScanKeeps
  <2>. QED  BY <2>3, <2>4
<1>4. Keeps(Separators(T), T, p, q, d, r, d) /\ Keeps(OpScan(T), T, p, q, d, r, d)
  <2>1. CASE q = "none"
    BY <1>1, <2>1, SeparatorsKeep, OperatorScanKeeps
  <2>2. CASE q = "bq"
    <3>1. q \notin {"none", p} /\ r = q
      BY <2>2
    <3>. QED  BY <1>1, <3>1, SeparatorsKeep, OperatorScanKeeps
  <2>. QED  BY <2>1, <2>2
<1>5. Keeps(Separators(T), T, p, r, d, q, d) /\ Keeps(OpScan(T), T, p, r, d, q, d)
  <2>1. CASE q = "none"
    BY <1>1, <2>1, SeparatorsKeep, OperatorScanKeeps
  <2>2. CASE q = "bq"
    BY <1>4, <2>2
  <2>. QED  BY <2>1, <2>2
<1> HIDE DEF r
<1>6. ASSUME NEW F, IsScan(F, T), Keeps(F, T, p, q, d, r, d), Keeps(F, T, p, r, d, q, d),
             \A t \in W \cup Between : Keeps(F, T, t, r, d, r, d)
      PROVE  Carries(F, T, Quoted(p, c), q, d, q, d)
  <2>1. Carries(F, T, <<p>>, q, d, r, d) /\ Carries(F, T, <<p>>, r, d, q, d)
    BY <1>1, <1>6, CarryToken
  <2>2. Carries(F, T, c, r, d, r, d)
    BY <1>1, <1>2, <1>6, CarryTokens
  <2>3. Carries(F, T, <<p>> \o c, q, d, r, d) /\ <<p>> \o c \in Seq(T)
    BY <1>1, <1>2, <1>6, <2>1, <2>2, CarryConcat, ConcatProperties
  <2>4. Carries(F, T, (<<p>> \o c) \o <<p>>, q, d, q, d)
    BY <1>1, <1>2, <1>6, <2>1, <2>3, CarryConcat
  <2>. QED  BY <2>4 DEF Quoted
<1>. QED  BY <1>3, <1>4, <1>5, <1>6, ScansAreScans

(* Two texts that are kept whole, one behind the other.                    *)
LEMMA WholeConcat ==
  ASSUME NEW W, NEW c \in Seq(Tokens(W)), NEW k \in Seq(Tokens(W)), Whole(W, c), Whole(W, k)
  PROVE  Whole(W, c \o k)
<1> DEFINE T == Tokens(W)
<1> SUFFICES ASSUME NEW q \in {"none", "bq"}, NEW d \in Int
             PROVE  /\ Carries(Separators(T), T, c \o k, q, d, q, d)
                    /\ Carries(OpScan(T), T, c \o k, q, d, q, d)
  BY DEF Whole
<1>1. q \in InQuotes
  BY DEF InQuotes, Quotes
<1>2. /\ Carries(Separators(T), T, c, q, d, q, d) /\ Carries(Separators(T), T, k, q, d, q, d)
      /\ Carries(OpScan(T), T, c, q, d, q, d) /\ Carries(OpScan(T), T, k, q, d, q, d)
  BY DEF Whole
<1>. QED  BY <1>1, <1>2, CarryConcat, ScansAreScans

Fits(W, c) ==
  /\ c \in Seq(W \cup Inside) /\ c # <<>> /\ c[1] \in W
  /\ Whole(W, c)

(* The tokens of a command are tokens of a line.                           *)
LEMMA InsideIsTokens ==
  ASSUME NEW W
  PROVE  W \cup Inside \subseteq Tokens(W) /\ \A c \in Seq(W \cup Inside) : c \in Seq(Tokens(W))
<1>1. W \cup Inside \subseteq Tokens(W)
  BY DEF Tokens, Inside, Between, Syntax
<1>. QED  BY <1>1, SeqMonotonic

(* Each piece of a command is kept whole.                                  *)
LEMMA ChunkFits ==
  ASSUME NEW W, AreWords(W), NEW k \in Chunks(W)
  PROVE  k \in Seq(W \cup Inside) /\ Whole(W, k)
<1> DEFINE I == W \cup Inside
<1>0. \/ k \in {<<w>> : w \in W}
      \/ \E p \in {"dq", "sq"}, c \in Seq(W \cup Between) : k = Quoted(p, c)
      \/ \E t \in W \cup {";", "NL"} : k = <<"esc", t>>
  BY Zenon DEF Chunks
<1>1. CASE k \in {<<w>> : w \in W}
  BY <1>1, WordIsWhole, OneIsSeq
<1>2. CASE \E p \in {"dq", "sq"}, c \in Seq(W \cup Between) : k = Quoted(p, c)
  <2>1. PICK p \in {"dq", "sq"} : \E c \in Seq(W \cup Between) : k = Quoted(p, c)
    BY <1>2
  <2>2. PICK c \in Seq(W \cup Between) : k = Quoted(p, c)
    BY <2>1
  <2>3. p \in I /\ W \cup Between \subseteq I
    BY DEF Inside
  <2> HIDE DEF I
  <2>4. <<p>> \in Seq(I) /\ c \in Seq(I)
    BY <2>3, OneIsSeq, SeqMonotonic
  <2>5. Quoted(p, c) \in Seq(I)
    BY <2>4, ConcatProperties DEF Quoted
  <2>. QED  BY <2>2, <2>5, QuotedIsWhole DEF I
<1>3. CASE \E t \in W \cup {";", "NL"} : k = <<"esc", t>>
  <2>1. PICK t \in W \cup {";", "NL"} : k = <<"esc", t>>
    BY <1>3
  <2>2. "esc" \in I /\ t \in I
    BY DEF Inside, Between
  <2> HIDE DEF I
  <2>3. <<"esc", t>> \in Seq(I)
    <3>1. <<"esc">> \in Seq(I) /\ <<t>> \in Seq(I)
      BY <2>2, OneIsSeq
    <3>2. <<"esc">> \o <<t>> \in Seq(I)
      BY <3>1, ConcatProperties
    <3>. QED  BY <2>2, <3>2, PairIsConcat
  <2>. QED  BY <2>1, <2>3, EscapeIsWhole DEF I
<1>. QED  BY <1>0, <1>1, <1>2, <1>3

(* So is each command.                                                     *)
LEMMA CommandFits ==
  ASSUME NEW W, AreWords(W)
  PROVE  \A c \in Commands(W) : Fits(W, c)
<1> DEFINE T == Tokens(W)
           I == W \cup Inside
           S == {c \in Seq(T) : Fits(W, c)}
<1>1. ASSUME NEW w \in W PROVE <<w>> \in S
  <2>1. w \in I /\ <<w>> # <<>> /\ <<w>>[1] = w
    OBVIOUS
  <2>2. <<w>> \in Seq(I)
    BY <2>1, OneIsSeq
  <2>3. Whole(W, <<w>>)
    BY WordIsWhole
  <2>4. <<w>> \in Seq(T)
    BY <2>2, InsideIsTokens
  <2>. QED  BY <2>1, <2>2, <2>3, <2>4 DEF Fits
<1>2. ASSUME NEW c \in S, NEW k \in Chunks(W) PROVE c \o k \in S
  <2>1. c \in Seq(I) /\ c # <<>> /\ c[1] \in W /\ Whole(W, c)
    BY DEF Fits
  <2>2. k \in Seq(I) /\ Whole(W, k)
    BY ChunkFits
  <2>3. c \in Seq(T) /\ k \in Seq(T)
    BY <2>1, <2>2, InsideIsTokens
  <2>4. Whole(W, c \o k)
    BY <2>1, <2>2, <2>3, WholeConcat
  <2> HIDE DEF I, S
  <2>5. /\ c \o k \in Seq(I) /\ Len(c \o k) = Len(c) + Len(k) /\ Len(c) \in Nat /\ Len(k) \in Nat
        /\ Len(c) # 0
    BY <2>1, <2>2, ConcatProperties, LenProperties, EmptySeq
  <2>6. (c \o k)[1] = c[1]
    BY <2>1, <2>2, <2>5, ConcatProperties
  <2>7. c \o k # <<>>
    BY <2>5, EmptySeq
  <2>8. c \o k \in Seq(T)
    BY <2>3, ConcatProperties
  <2>. QED  BY <2>1, <2>4, <2>5, <2>6, <2>7, <2>8 DEF S, I, Fits
<1>3. S \in SUBSET Seq(T) /\ HasCommands(W, S)
  <2>1. S \in SUBSET Seq(T)
    OBVIOUS
  <2> HIDE DEF S
  <2>. QED  BY <2>1, <1>1, <1>2 DEF HasCommands
<1>4. \A c \in Commands(W) : c \in S
  <2> HIDE DEF S
  <2>. QED  BY <1>3 DEF Commands
<1>. QED  BY <1>4

-----------------------------------------------------------------------------
(* A line of simple commands.                                              *)
LEMMA JoinsIsStep ==
  ASSUME NEW T, NEW sep \in T
  PROVE  IsStep(Joins(T, sep), Seq(T), Seq(T))
<1> DEFINE Join(l, k) == IF l = <<>> THEN k ELSE Append(l, sep) \o k
<1>1. \A l \in Seq(T), k \in Seq(T) : Joins(T, sep)[<<l, k>>] = Join(l, k) /\ Join(l, k) \in Seq(T)
  BY JoinsStep
<1>. QED  BY <1>1 DEF IsStep

(* A line of no command is empty.                                          *)
LEMMA LineOfNone ==
  ASSUME NEW T, NEW sep \in T
  PROVE  Line(<<>>, sep) = <<>>
<1> DEFINE none == <<>>
<1>1. none \in Seq(Seq(T)) /\ none \in Seq(T)
  BY EmptySeq
<1>2. IsStep(Joins(T, sep), Seq(T), Seq(T))
  BY JoinsIsStep
<1>3. After(Joins(T, sep), none, <<>>) = none
  <2> HIDE DEF none
  <2>. QED  BY <1>1, <1>2, AfterNothing
<1>4. Line(none, sep) = After(Joins(T, sep), <<>>, none)
  <2> HIDE DEF none
  <2>. QED  BY <1>1, JoinsFold
<1>. QED  BY <1>3, <1>4

(* One command more on the line.                                           *)
LEMMA LineAppend ==
  ASSUME NEW T, NEW sep \in T, NEW cs \in Seq(Seq(T)), NEW c \in Seq(T)
  PROVE  /\ Line(cs, sep) \in Seq(T)
         /\ Line(Append(cs, c), sep)
              = IF Line(cs, sep) = <<>> THEN c ELSE Append(Line(cs, sep), sep) \o c
<1> DEFINE none == <<>>
           F == Joins(T, sep)
<1>1. none \in Seq(T)
  BY EmptySeq
<1>2. IsStep(F, Seq(T), Seq(T))
  BY JoinsIsStep
<1>3. Line(cs, sep) = After(F, none, cs)
  BY JoinsFold
<1>4. Append(cs, c) \in Seq(Seq(T))
  BY AppendProperties
<1>5. Line(Append(cs, c), sep) = After(F, none, Append(cs, c))
  BY <1>4, JoinsFold
<1> HIDE DEF none, F
<1>6. After(F, none, cs) \in Seq(T)
  BY <1>1, <1>2, AfterTyped
<1>7. After(F, none, Append(cs, c)) = F[<<After(F, none, cs), c>>]
  BY <1>1, <1>2, AfterAppend
<1>8. \A l \in Seq(T) : F[<<l, c>>] = IF l = <<>> THEN c ELSE Append(l, sep) \o c
  BY JoinsStep DEF F
<1>. QED  BY <1>3, <1>5, <1>6, <1>7, <1>8

(* The tokens of a text of one.                                            *)
LEMMA RangeOfOne ==
  ASSUME NEW T, NEW t \in T
  PROVE  Range(<<t>>) = {t}
<1>1. <<t>> \in Seq(T) /\ Len(<<t>>) = 1 /\ <<t>>[1] = t
  OBVIOUS
<1>2. Range(<<t>>) = {<<t>>[i] : i \in 1..1}
  BY <1>1, RangeEquality
<1>3. \A i \in 1..1 : i = 1
  OBVIOUS
<1>. QED  BY <1>1, <1>2, <1>3

(* The tokens of a text and one more.                                      *)
LEMMA RangeAppend ==
  ASSUME NEW T, NEW s \in Seq(T), NEW t \in T
  PROVE  Range(Append(s, t)) = Range(s) \cup {t}
<1>1. <<t>> \in Seq(T) /\ Append(s, t) = s \o <<t>>
  BY OneIsSeq, AppendIsConcat
<1>2. Range(s \o <<t>>) = Range(s) \cup Range(<<t>>)
  BY <1>1, RangeConcatenation
<1>. QED  BY <1>1, <1>2, RangeOfOne

(* The tokens of nothing.                                                  *)
LEMMA RangeOfNothing ==
  Range(<<>>) = {}
BY DEF Range

(* Induction over the lines of commands from K: X[C] are lines of those in *)
(* C, and has each line that it grows to.                                  *)
Grows(T, sep, K, X) ==
  /\ \A c \in K : c \in X[{c}]
  /\ \A C \in SUBSET K, l \in Seq(T) \ {<<>>}, c \in K :
       l \in X[C] => Append(l, sep) \o c \in X[C \cup {c}]

(* What holds for a command, and for a line with one command more, holds   *)
(* for each line.                                                          *)
LEMMA LineInduct ==
  ASSUME NEW T, NEW sep \in T, NEW K, K \subseteq Seq(T) \ {<<>>}, NEW X,
         Grows(T, sep, K, X)
  PROVE  \A cs \in Seq(K) \ {<<>>} :
           /\ Range(cs) \in SUBSET K /\ Line(cs, sep) \in Seq(T) \ {<<>>}
           /\ Line(cs, sep) \in X[Range(cs)]
<1> DEFINE Good(cs) == /\ Range(cs) \in SUBSET K /\ Line(cs, sep) \in Seq(T) \ {<<>>}
                       /\ Line(cs, sep) \in X[Range(cs)]
           S == {cs \in Seq(K) : cs = <<>> \/ Good(cs)}
<1>1. <<>> \in S
  BY EmptySeq
<1>2. ASSUME NEW cs \in Seq(K), NEW c \in K, cs \in S PROVE Append(cs, c) \in S
  <2>1. Append(cs, c) \in Seq(K) /\ Range(Append(cs, c)) = Range(cs) \cup {c}
    BY AppendProperties, RangeAppend
  <2>2. cs \in Seq(Seq(T)) /\ c \in Seq(T) /\ c # <<>>
    BY SeqMonotonic
  <2>3. Line(Append(cs, c), sep)
          = IF Line(cs, sep) = <<>> THEN c ELSE Append(Line(cs, sep), sep) \o c
    BY <2>2, LineAppend
  <2>4. CASE cs = <<>>
    <3>1. Line(cs, sep) = <<>>
      BY <2>4, LineOfNone
    <3>2. Range(cs) = {}
      BY <2>4, RangeOfNothing
    <3>3. Line(Append(cs, c), sep) = c /\ Range(Append(cs, c)) = {c}
      BY <2>1, <2>3, <3>1, <3>2
    <3>4. Good(Append(cs, c))
      BY <2>2, <3>3 DEF Grows
    <3> HIDE DEF Good
    <3>. QED  BY <2>1, <3>4
  <2>5. CASE Good(cs)
    <3> DEFINE l == Line(cs, sep)
    <3>1. l \in Seq(T) /\ l # <<>> /\ Range(cs) \in SUBSET K /\ l \in X[Range(cs)]
      BY <2>5
    <3>2. Line(Append(cs, c), sep) = Append(l, sep) \o c
      BY <2>3, <3>1
    <3> HIDE DEF l
    <3>3. Append(l, sep) \in Seq(T) /\ Append(l, sep) # <<>>
      BY <3>1, AppendProperties
    <3>4. Append(l, sep) \o c \in Seq(T) /\ Append(l, sep) \o c # <<>>
      BY <2>2, <3>3, ConcatProperties, ConcatEqualIffEmpty
    <3>5. Append(l, sep) \o c \in X[Range(cs) \cup {c}]
      BY <3>1 DEF Grows
    <3>6. Good(Append(cs, c))
      BY <2>1, <3>1, <3>2, <3>4, <3>5
    <3> HIDE DEF Good
    <3>. QED  BY <2>1, <3>6
  <2>. QED  BY <1>2, <2>4, <2>5
<1>3. Seq(K) \subseteq S
  <2> HIDE DEF S
  <2>. QED  BY <1>1, <1>2, SeqInduct
<1>. QED  BY <1>3

(* The commands there are: each word, and each command and a piece more.   *)
LEMMA CommandsAreThere ==
  ASSUME NEW W, AreWords(W)
  PROVE  HasCommands(W, Commands(W))
<1> DEFINE T == Tokens(W)
<1>1. ASSUME NEW w \in W PROVE <<w>> \in Commands(W)
  <2>1. <<w>> \in Seq(T)
    BY OneIsSeq DEF Tokens
  <2>. QED  BY <2>1 DEF Commands, HasCommands
<1>2. ASSUME NEW c \in Commands(W), NEW k \in Chunks(W) PROVE c \o k \in Commands(W)
  <2>1. c \in Seq(T) /\ k \in Seq(T)
    BY ChunkFits, InsideIsTokens DEF Commands
  <2>2. c \o k \in Seq(T)
    BY <2>1, ConcatProperties
  <2>3. ASSUME NEW S \in SUBSET Seq(T), HasCommands(W, S) PROVE c \o k \in S
    <3>1. c \in S
      BY <2>3 DEF Commands
    <3>. QED  BY <2>3, <3>1 DEF HasCommands
  <2>. QED  BY <2>2, <2>3 DEF Commands
<1>. QED  BY <1>1, <1>2 DEF HasCommands

(* Commands are texts with something in them.                              *)
LEMMA CommandsAreTyped ==
  ASSUME NEW W, AreWords(W)
  PROVE  /\ Commands(W) \subseteq Seq(Tokens(W)) \ {<<>>}
         /\ Between \subseteq Tokens(W) /\ W \subseteq Tokens(W) /\ Syntax \subseteq Tokens(W)
         /\ "echo" \in Tokens(W)
<1>1. \A c \in Commands(W) : c \in Seq(Tokens(W)) /\ c # <<>>
  BY CommandFits, InsideIsTokens DEF Fits
<1>. QED  BY <1>1 DEF Tokens, Between, Syntax

(* What a line looks like: it begins as one of its commands does, and its  *)
(* tokens are theirs and what stands between them.                         *)
LooksLike(W, l, C) ==
  /\ l \in Seq(W \cup Inside) /\ l # <<>> /\ l[1] \in W
  /\ \E c \in C : l[1] = c[1]
  /\ \A t \in Range(l) : t \in Between \/ \E c \in C : t \in Range(c)

(* One command more on a line that looks like its commands.                *)
LEMMA JoinedLooksLike ==
  ASSUME NEW W, NEW sep \in Between, NEW C, NEW l, LooksLike(W, l, C), NEW c, Fits(W, c)
  PROVE  LooksLike(W, Append(l, sep) \o c, C \cup {c})
<1> DEFINE I == W \cup Inside
           m == Append(l, sep)
<1>1. /\ l \in Seq(I) /\ l # <<>> /\ l[1] \in W /\ sep \in I
      /\ c \in Seq(I) /\ \E k \in C : l[1] = k[1]
  BY DEF LooksLike, Fits, Inside
<1>a. \A t \in Range(l) : t \in Between \/ \E k \in C : t \in Range(k)
  BY DEF LooksLike
<1> HIDE DEF I
<1>2. /\ m \in Seq(I) /\ Len(m) = Len(l) + 1 /\ Range(m) = Range(l) \cup {sep}
      /\ Len(l) \in Nat \ {0} /\ m[1] = l[1]
  BY <1>1, AppendProperties, RangeAppend, LenProperties, EmptySeq
<1> HIDE DEF m
<1>3. /\ m \o c \in Seq(I) /\ Len(m \o c) = Len(m) + Len(c) /\ Len(c) \in Nat
      /\ (m \o c)[1] = m[1]
  <2>1. /\ m \o c \in Seq(I) /\ Len(m \o c) = Len(m) + Len(c) /\ Len(c) \in Nat
        /\ \A i \in 1..Len(m) + Len(c) : (m \o c)[i] = IF i <= Len(m) THEN m[i] ELSE c[i - Len(m)]
    BY <1>1, <1>2, ConcatProperties, LenProperties
  <2>2. 1 \in 1..Len(m) + Len(c) /\ 1 <= Len(m)
    BY <1>2, <2>1
  <2>. QED  BY <2>1, <2>2
<1>4. Range(m \o c) = Range(l) \cup {sep} \cup Range(c)
  BY <1>1, <1>2, RangeConcatenation
<1>5. m \o c # <<>>
  BY <1>2, <1>3, EmptySeq
<1>6. \A t \in Range(m \o c) : t \in Between \/ \E k \in C \cup {c} : t \in Range(k)
  BY <1>a, <1>4
<1>. QED  BY <1>1, <1>2, <1>3, <1>5, <1>6 DEF LooksLike, m, I

(* Each line does.                                                         *)
LEMMA LinesLookLike ==
  ASSUME NEW W, AreWords(W), NEW sep \in Between, NEW cs \in Seq(Commands(W)) \ {<<>>}
  PROVE  LooksLike(W, Line(cs, sep), Range(cs))
<1> DEFINE T == Tokens(W)
           K == Commands(W)
           X == [C \in SUBSET K |-> {l \in Seq(T) : LooksLike(W, l, C)}]
<1>1. sep \in T /\ K \subseteq Seq(T) \ {<<>>}
  BY CommandsAreTyped
<1>2. ASSUME NEW c \in K PROVE c \in X[{c}]
  <2>1. c \in Seq(T) /\ LooksLike(W, c, {c})
    BY <1>1, CommandFits DEF Fits, LooksLike
  <2>. QED  BY <2>1
<1>3. ASSUME NEW C \in SUBSET K, NEW l \in Seq(T) \ {<<>>}, NEW c \in K, l \in X[C]
      PROVE  Append(l, sep) \o c \in X[C \cup {c}]
  <2>1. LooksLike(W, l, C) /\ Fits(W, c) /\ c \in Seq(T)
    BY <1>1, <1>3, CommandFits
  <2>2. LooksLike(W, Append(l, sep) \o c, C \cup {c})
    BY <2>1, JoinedLooksLike
  <2>3. Append(l, sep) \o c \in Seq(T)
    BY <1>1, <2>1, AppendProperties, ConcatProperties
  <2>. QED  BY <2>2, <2>3
<1> HIDE DEF K, T, X
<1>4. Range(cs) \in SUBSET K /\ Line(cs, sep) \in X[Range(cs)]
  <2>1. cs \in Seq(K) \ {<<>>}
    BY DEF K
  <2>2. Grows(T, sep, K, X)
    BY <1>2, <1>3 DEF Grows
  <2>. QED  BY <1>1, <2>1, <2>2, LineInduct
<1>. QED  BY <1>4 DEF X

(* A scan that keeps each command keeps the line, if it keeps what stands  *)
(* between them or nothing does; one that cuts there finds the commands.   *)
CarriesAll(F, T, K, q, d) == \A c \in K : Carries(F, T, c, q, d, q, d)

(* The line of commands that are kept is kept.                             *)
LEMMA LineIsKept ==
  ASSUME NEW T, NEW F, IsScan(F, T), NEW sep \in T, NEW K, K \subseteq Seq(T) \ {<<>>},
         NEW q \in InQuotes, NEW d \in Int, CarriesAll(F, T, K, q, d),
         Keeps(F, T, sep, q, d, q, d), NEW cs \in Seq(K) \ {<<>>}
  PROVE  Carries(F, T, Line(cs, sep), q, d, q, d)
<1> DEFINE X == [C \in SUBSET K |-> {l \in Seq(T) : Carries(F, T, l, q, d, q, d)}]
<1>1. \A c \in K : c \in X[{c}]
  BY DEF CarriesAll
<1>2. ASSUME NEW C \in SUBSET K, NEW l \in Seq(T) \ {<<>>}, NEW c \in K, l \in X[C]
      PROVE  Append(l, sep) \o c \in X[C \cup {c}]
  <2>1. /\ Append(l, sep) \in Seq(T) /\ c \in Seq(T) /\ Append(l, sep) \o c \in Seq(T)
        /\ Carries(F, T, l, q, d, q, d) /\ Carries(F, T, c, q, d, q, d)
    BY <1>2, AppendProperties, ConcatProperties DEF CarriesAll
  <2>2. Carries(F, T, Append(l, sep), q, d, q, d)
    BY <2>1, CarryAppend
  <2>3. Carries(F, T, Append(l, sep) \o c, q, d, q, d)
    BY <2>1, <2>2, CarryConcat
  <2>. QED  BY <2>1, <2>3
<1> HIDE DEF X
<1>3. Range(cs) \in SUBSET K /\ Line(cs, sep) \in X[Range(cs)]
  <2>1. Grows(T, sep, K, X)
    BY <1>1, <1>2 DEF Grows
  <2>. QED  BY <2>1, LineInduct
<1>. QED  BY <1>3 DEF X

(* A line is one command, or its separator shows.                          *)
LEMMA LineIsOneOrHasSep ==
  ASSUME NEW T, NEW sep \in T, NEW K, K \subseteq Seq(T) \ {<<>>}, NEW cs \in Seq(K) \ {<<>>}
  PROVE  sep \in Range(Line(cs, sep)) \/ Line(cs, sep) \in K
<1> DEFINE X == [C \in SUBSET K |-> {l \in Seq(T) : sep \in Range(l) \/ l \in K}]
<1>1. \A c \in K : c \in X[{c}]
  OBVIOUS
<1>2. ASSUME NEW C \in SUBSET K, NEW l \in Seq(T) \ {<<>>}, NEW c \in K, l \in X[C]
      PROVE  Append(l, sep) \o c \in X[C \cup {c}]
  <2>1. /\ Append(l, sep) \in Seq(T) /\ c \in Seq(T) /\ Append(l, sep) \o c \in Seq(T)
        /\ sep \in Range(Append(l, sep))
    BY <1>2, AppendProperties, ConcatProperties, RangeAppend
  <2>2. sep \in Range(Append(l, sep) \o c)
    <3> DEFINE m == Append(l, sep)
    <3>1. m \in Seq(T) /\ sep \in Range(m)
      BY <2>1
    <3> HIDE DEF m
    <3>2. sep \in Range(m \o c)
      BY <2>1, <3>1, RangeConcatenation
    <3>. QED  BY <3>2 DEF m
  <2>. QED  BY <2>1, <2>2
<1> HIDE DEF X
<1>3. Range(cs) \in SUBSET K /\ Line(cs, sep) \in X[Range(cs)]
  <2>1. Grows(T, sep, K, X)
    BY <1>1, <1>2 DEF Grows
  <2>. QED  BY <2>1, LineInduct
<1>. QED  BY <1>3 DEF X

CutsInto(F, T, l, C) ==
  \E P \in SUBSET Seq(T), x \in Seq(T) :
    /\ x # <<>> /\ P \cup {x} = C
    /\ After(F, At({}, <<>>, "none", 0), l) = At(P, x, "none", 0)

(* The line of commands that are kept is cut into them.                    *)
LEMMA LineIsCut ==
  ASSUME NEW T, NEW F, IsScan(F, T), NEW sep \in T, NEW K, K \subseteq Seq(T) \ {<<>>},
         CarriesAll(F, T, K, "none", 0), Cuts(F, T, sep), NEW cs \in Seq(K) \ {<<>>}
  PROVE  CutsInto(F, T, Line(cs, sep), Range(cs))
<1> DEFINE X == [C \in SUBSET K |-> {l \in Seq(T) : CutsInto(F, T, l, C)}]
           s0 == At({}, <<>>, "none", 0)
<1>0. <<>> \in Seq(T) /\ {} \in SUBSET Seq(T) /\ s0 \in ScanStates(T)
  <2>1. <<>> \in Seq(T) /\ {} \in SUBSET Seq(T) /\ "none" \in InQuotes /\ 0 \in Int
    BY EmptySeq DEF InQuotes
  <2>. QED  BY <2>1, AtIsState
<1>b. IsStep(F, ScanStates(T), T)
  BY DEF IsScan
<1>a. ASSUME NEW P \in SUBSET Seq(T), NEW c \in K
      PROVE  After(F, At(P, <<>>, "none", 0), c) = At(P, c, "none", 0)
  <2>1. c \in Seq(T) /\ <<>> \o c = c
    BY ConcatEmptySeq
  <2>2. Carries(F, T, c, "none", 0, "none", 0)
    BY DEF CarriesAll
  <2>3. After(F, At(P, <<>>, "none", 0), c) = At(P, <<>> \o c, "none", 0)
    BY <1>0, <2>2 DEF Carries
  <2>. QED  BY <2>1, <2>3
<1>1. ASSUME NEW c \in K PROVE c \in X[{c}]
  <2>1. After(F, s0, c) = At({}, c, "none", 0)
    BY <1>a
  <2>2. {} \in SUBSET Seq(T) /\ c \in Seq(T) /\ c # <<>> /\ {} \cup {c} = {c}
    OBVIOUS
  <2>3. CutsInto(F, T, c, {c})
    BY <2>1, <2>2 DEF CutsInto
  <2>. QED  BY <2>2, <2>3
<1>2. ASSUME NEW C \in SUBSET K, NEW l \in Seq(T) \ {<<>>}, NEW c \in K, l \in X[C]
      PROVE  Append(l, sep) \o c \in X[C \cup {c}]
  <2>1. /\ Append(l, sep) \in Seq(T) /\ c \in Seq(T) /\ c # <<>> /\ Append(l, sep) \o c \in Seq(T)
        /\ CutsInto(F, T, l, C)
    BY <1>2, AppendProperties, ConcatProperties
  <2>2. PICK P \in SUBSET Seq(T), x \in Seq(T) :
          x # <<>> /\ P \cup {x} = C /\ After(F, s0, l) = At(P, x, "none", 0)
    BY <2>1 DEF CutsInto
  <2>3. F[<<At(P, x, "none", 0), sep>>] = At(P \cup {x}, <<>>, "none", 0)
    BY <2>2 DEF Cuts
  <2> HIDE DEF s0
  <2>4. After(F, s0, Append(l, sep)) = F[<<After(F, s0, l), sep>>]
    BY <1>0, <1>b, AfterAppend
  <2>5. After(F, s0, Append(l, sep)) = At(C, <<>>, "none", 0)
    BY <2>2, <2>3, <2>4
  <2>6. After(F, s0, Append(l, sep) \o c) = After(F, After(F, s0, Append(l, sep)), c)
    <3> DEFINE m == Append(l, sep)
    <3>1. m \in Seq(T)
      BY <2>1
    <3> HIDE DEF m
    <3>2. After(F, s0, m \o c) = After(F, After(F, s0, m), c)
      BY <1>0, <1>b, <2>1, <3>1, AfterConcat
    <3>. QED  BY <3>2 DEF m
  <2>7. C \in SUBSET Seq(T)
    OBVIOUS
  <2>8. After(F, s0, Append(l, sep) \o c) = At(C, c, "none", 0)
    BY <1>a, <2>5, <2>6, <2>7
  <2>9. CutsInto(F, T, Append(l, sep) \o c, C \cup {c})
    BY <2>1, <2>7, <2>8 DEF CutsInto, s0
  <2>. QED  BY <2>1, <2>9
<1> HIDE DEF X
<1>3. Range(cs) \in SUBSET K /\ Line(cs, sep) \in X[Range(cs)]
  <2>1. Grows(T, sep, K, X)
    BY <1>1, <1>2 DEF Grows
  <2>. QED  BY <2>1, LineInduct
<1>. QED  BY <1>3 DEF X

(* What the two cutting scans make of a text that they keep and of one     *)
(* that they cut.                                                          *)
LEMMA OnePart ==
  ASSUME NEW T, NEW F, NEW x \in Seq(T), x # <<>>, Carries(F, T, x, "none", 0, "none", 0)
  PROVE  Cut(After(F, ScanStart, x)) = {x}
<1>1. <<>> \in Seq(T) /\ {} \in SUBSET Seq(T) /\ <<>> \o x = x
  BY EmptySeq, ConcatEmptySeq
<1>2. ScanStart = At({}, <<>>, "none", 0)
  BY DEF ScanStart, At
<1>3. After(F, At({}, <<>>, "none", 0), x) = At({}, <<>> \o x, "none", 0)
  BY <1>1 DEF Carries
<1>4. Cut(At({}, x, "none", 0)) = {x}
  BY DEF Cut, At
<1>. QED  BY <1>1, <1>2, <1>3, <1>4

(* Several parts.                                                          *)
LEMMA ManyParts ==
  ASSUME NEW T, NEW F, NEW l, NEW C, CutsInto(F, T, l, C)
  PROVE  Cut(After(F, ScanStart, l)) = C
<1>1. PICK P \in SUBSET Seq(T), x \in Seq(T) :
        /\ x # <<>> /\ P \cup {x} = C
        /\ After(F, At({}, <<>>, "none", 0), l) = At(P, x, "none", 0)
  BY DEF CutsInto
<1>2. ScanStart = At({}, <<>>, "none", 0)
  BY DEF ScanStart, At
<1>3. Cut(At(P, x, "none", 0)) = P \cup {x}
  BY <1>1 DEF Cut, At
<1>. QED  BY <1>1, <1>2, <1>3

(* The second split is where its scan ends.                                *)
LEMMA SplitIsAfter ==
  ASSUME NEW T, NEW x \in Seq(T)
  PROVE  /\ Cut(FoldLeft(ScanSeparators, ScanStart, x)) = Cut(After(Separators(T), ScanStart, x))
         /\ splitOnOperators(x) = Cut(After(OpScan(T), ScanStart, x))
<1>1. ScanStart \in ScanStates(T)
  BY EmptySeq DEF ScanStart, ScanStates
<1>2. FoldLeft(ScanSeparators, ScanStart, x) = After(Separators(T), ScanStart, x)
  BY <1>1, SeparatorsFold
<1>3. FoldLeft(ScanOperators, ScanStart, x) = After(OpScan(T), ScanStart, x)
  BY <1>1, OperatorsFold
<1>. QED  BY <1>2, <1>3 DEF splitOnOperators

(* A text that both scans keep is its only part.                           *)
LEMMA SplitKept ==
  ASSUME NEW T, NEW x \in Seq(T), x # <<>>,
         Carries(Separators(T), T, x, "none", 0, "none", 0),
         Carries(OpScan(T), T, x, "none", 0, "none", 0)
  PROVE  splitCommandSeparators(x) = {x}
<1>1. Cut(FoldLeft(ScanSeparators, ScanStart, x)) = {x}
  BY SplitIsAfter, OnePart
<1>2. splitOnOperators(x) = {x}
  BY SplitIsAfter, OnePart
<1>. QED  BY <1>1, <1>2 DEF splitCommandSeparators

-----------------------------------------------------------------------------
(* Both scans carry each command.                                          *)
LEMMA CommandsAreCarried ==
  ASSUME NEW W, AreWords(W), NEW q \in {"none", "bq"}, NEW d \in Int
  PROVE  /\ CarriesAll(Separators(Tokens(W)), Tokens(W), Commands(W), q, d)
         /\ CarriesAll(OpScan(Tokens(W)), Tokens(W), Commands(W), q, d)
BY CommandFits DEF Fits, Whole, CarriesAll

(* A line splits into its commands.                                        *)
LEMMA LineSplits ==
  ASSUME NEW W, AreWords(W), NEW sep \in Between, NEW cs \in Seq(Commands(W)) \ {<<>>}
  PROVE  splitCommandSeparators(Line(cs, sep)) = Range(cs)
<1> DEFINE T == Tokens(W)
           K == Commands(W)
           l == Line(cs, sep)
           C == Range(cs)
<1>1. /\ sep \in T /\ K \subseteq Seq(T) \ {<<>>} /\ cs \in Seq(K) \ {<<>>}
      /\ IsScan(Separators(T), T) /\ IsScan(OpScan(T), T)
      /\ "none" \in InQuotes /\ "none" \in {"none", "bq"} /\ 0 \in Int
  BY CommandsAreTyped, ScansAreScans DEF InQuotes
<1>2. /\ CarriesAll(Separators(T), T, K, "none", 0)
      /\ CarriesAll(OpScan(T), T, K, "none", 0)
  BY <1>1, CommandsAreCarried
<1>3. l \in Seq(T) \ {<<>>} /\ C \in SUBSET K
  BY <1>1, LinesLookLike, InsideIsTokens, RangeOfSeq DEF LooksLike
<1> HIDE DEF T, K, l, C
<1>4. CASE sep \in Separator
  <2>1. Cuts(Separators(T), T, sep)
    BY <1>1, <1>4, SeparatorsCut
  <2>2. CutsInto(Separators(T), T, l, C)
    BY <1>1, <1>2, <2>1, LineIsCut DEF l, C
  <2>3. Cut(FoldLeft(ScanSeparators, ScanStart, l)) = C
    BY <1>3, <2>2, SplitIsAfter, ManyParts
  <2>4. \A c \in C : splitOnOperators(c) = {c}
    BY <1>1, <1>2, <1>3, SplitIsAfter, OnePart DEF CarriesAll
  <2>. QED  BY <2>3, <2>4 DEF splitCommandSeparators, l, C
<1>5. CASE sep = "&&"
  <2>1. Keeps(Separators(T), T, sep, "none", 0, "none", 0) /\ Cuts(OpScan(T), T, sep)
    BY <1>1, <1>5, SeparatorsKeep, OperatorsCut
  <2>2. Carries(Separators(T), T, l, "none", 0, "none", 0)
    BY <1>1, <1>2, <2>1, LineIsKept DEF l
  <2>3. CutsInto(OpScan(T), T, l, C)
    BY <1>1, <1>2, <2>1, LineIsCut DEF l, C
  <2>4. Cut(FoldLeft(ScanSeparators, ScanStart, l)) = {l}
    BY <1>3, <2>2, SplitIsAfter, OnePart
  <2>5. splitOnOperators(l) = C
    BY <1>3, <2>3, SplitIsAfter, ManyParts
  <2>. QED  BY <2>4, <2>5 DEF splitCommandSeparators, l, C
<1>. QED  BY <1>4, <1>5 DEF Between, Separator

(* Within backticks or brackets it is kept, but that && and || cut also in *)
(* brackets.                                                               *)
KeptInside(W, l) ==
  /\ \A q \in {"none", "bq"}, d \in Nat : ~(q = "none" /\ d = 0) =>
       Carries(Separators(Tokens(W)), Tokens(W), l, q, d, q, d)
  /\ \A d \in Nat : Carries(OpScan(Tokens(W)), Tokens(W), l, "bq", d, "bq", d)
  /\ "&&" \notin Range(l) =>
       \A d \in Nat : Carries(OpScan(Tokens(W)), Tokens(W), l, "none", d, "none", d)

(* Each line is kept so.                                                   *)
LEMMA LinesAreKeptInside ==
  ASSUME NEW W, AreWords(W), NEW sep \in Between, NEW cs \in Seq(Commands(W)) \ {<<>>}
  PROVE  KeptInside(W, Line(cs, sep))
<1> DEFINE T == Tokens(W)
           K == Commands(W)
           l == Line(cs, sep)
<1>1. /\ sep \in T /\ K \subseteq Seq(T) \ {<<>>} /\ cs \in Seq(K) \ {<<>>}
      /\ IsScan(Separators(T), T) /\ IsScan(OpScan(T), T)
      /\ \A q \in {"none", "bq"} : q \in InQuotes
      /\ Nat \subseteq Int
  BY CommandsAreTyped, ScansAreScans DEF InQuotes, Quotes
<1>2. \A q \in {"none", "bq"}, d \in Nat : /\ CarriesAll(Separators(T), T, K, q, d)
                                           /\ CarriesAll(OpScan(T), T, K, q, d)
  BY <1>1, CommandsAreCarried
<1>3. sep \notin Quotes /\ (sep \in Separator \/ sep = "&&")
  BY DEF Between, Separator, Quotes
<1> HIDE DEF T, K
<1>4. ASSUME NEW q \in {"none", "bq"}, NEW d \in Nat, ~(q = "none" /\ d = 0)
      PROVE  Carries(Separators(T), T, l, q, d, q, d)
  <2>1. Keeps(Separators(T), T, sep, q, d, q, d)
    BY <1>1, <1>3, <1>4, SeparatorsKeep
  <2>. QED  BY <1>1, <1>2, <2>1, LineIsKept
<1>5. ASSUME NEW q \in {"none", "bq"}, NEW d \in Nat, q = "bq" \/ sep # "&&"
      PROVE  Carries(OpScan(T), T, l, q, d, q, d)
  <2>1. Keeps(OpScan(T), T, sep, q, d, q, d)
    BY <1>1, <1>3, <1>5, OperatorScanKeeps
  <2>. QED  BY <1>1, <1>2, <2>1, LineIsKept
<1>6. ASSUME sep = "&&", "&&" \notin Range(l), NEW d \in Nat
      PROVE  Carries(OpScan(T), T, l, "none", d, "none", d)
  <2>1. l \in K
    BY <1>1, <1>6, LineIsOneOrHasSep
  <2>. QED  BY <1>2, <2>1 DEF CarriesAll
<1>. QED  BY <1>4, <1>5, <1>6 DEF KeptInside, T

-----------------------------------------------------------------------------
(* Shell wrappers.                                                         *)
Pre(w, x) == <<w>> \o x

(* The head is what stands first.                                          *)
LEMMA HeadIsFirst ==
  ASSUME NEW T, NEW x \in Seq(T), x # <<>>
  PROVE  Head(x) = x[1]
<1>1. 1 \in 1..Len(x) /\ Len(x) \in 1..Len(x)
  BY EmptySeq
<1>2. Head(SubSeq(x, 1, Len(x))) = x[1]
  BY <1>1, HeadTailOfSubSeq
<1>3. SubSeq(x, 1, Len(x)) = x
  BY SubSeqFull
<1>. QED  BY <1>2, <1>3

PreFacts(T, w, x) ==
  /\ Pre(w, x) \in Seq(T) /\ Pre(w, x) # <<>> /\ Pre(w, x)[1] = w
  /\ Head(Pre(w, x)) = w /\ Tail(Pre(w, x)) = x
  /\ Range(Pre(w, x)) = {w} \cup Range(x)

(* A text behind w.                                                        *)
LEMMA Prefixed ==
  ASSUME NEW T, NEW w \in T, NEW x \in Seq(T)
  PROVE  PreFacts(T, w, x)
<1> DEFINE one == <<w>>
           y   == one \o x
<1>1. one \in Seq(T) /\ Len(one) = 1 /\ one[1] = w /\ Range(one) = {w}
  BY RangeOfOne
<1> HIDE DEF one
<1>2. /\ y \in Seq(T) /\ Len(y) = Len(one) + Len(x) /\ Len(x) \in Nat
      /\ \A i \in 1..Len(one) + Len(x) : y[i] = IF i <= Len(one) THEN one[i] ELSE x[i - Len(one)]
  BY <1>1, ConcatProperties, LenProperties
<1>a. Range(y) = {w} \cup Range(x)
  BY <1>1, RangeConcatenation
<1> HIDE DEF y
<1>3. y # <<>> /\ y[1] = w
  <2>1. 1 \in 1..Len(one) + Len(x) /\ Len(y) # 0
    BY <1>1, <1>2
  <2>. QED  BY <1>1, <1>2, <2>1, EmptySeq
<1>4. Head(y) = w
  BY <1>2, <1>3, HeadIsFirst
<1>5. Tail(y) = x
  <2> DEFINE u == Tail(y)
  <2>1. u \in Seq(T) /\ Len(u) = Len(y) - 1 /\ \A i \in 1..Len(u) : u[i] = y[i + 1]
    BY <1>2, <1>3, HeadTailProperties
  <2> HIDE DEF u
  <2>2. Len(u) = Len(x)
    BY <1>1, <1>2, <2>1
  <2>3. ASSUME NEW i \in 1..Len(x) PROVE u[i] = x[i]
    <3>1. i + 1 \in 1..Len(one) + Len(x) /\ ~(i + 1 <= Len(one)) /\ (i + 1) - Len(one) = i
      BY <1>1, <1>2
    <3>. QED  BY <1>2, <2>1, <2>2, <3>1
  <2>4. u = x
    BY <2>1, <2>2, <2>3, SeqEqual
  <2>. QED  BY <2>4 DEF u
<1>6. Pre(w, x) = y
  BY DEF Pre, y, one
<1>. QED  BY <1>2, <1>a, <1>3, <1>4, <1>5, <1>6 DEF PreFacts

QuotedFacts(T, p, l) ==
  /\ Quoted(p, l) \in Seq(T) /\ Quoted(p, l) # <<>> /\ Len(Quoted(p, l)) = Len(l) + 2
  /\ Quoted(p, l)[1] = p /\ Quoted(p, l)[Len(Quoted(p, l))] = p
  /\ SubSeq(Quoted(p, l), 2, Len(Quoted(p, l)) - 1) = l
  /\ Range(Quoted(p, l)) = {p} \cup Range(l)

(* A text in quotes.                                                       *)
LEMMA QuotedProperties ==
  ASSUME NEW T, NEW p \in T, NEW l \in Seq(T)
  PROVE  QuotedFacts(T, p, l)
<1> DEFINE one == <<p>>
           x == one \o l
           y == x \o one
           n == Len(y)
<1>1. one \in Seq(T) /\ Len(one) = 1 /\ one[1] = p /\ Range(one) = {p}
  BY RangeOfOne
<1> HIDE DEF one
<1>2. /\ x \in Seq(T) /\ Len(x) = Len(one) + Len(l) /\ Len(l) \in Nat
      /\ \A i \in 1..Len(one) + Len(l) : x[i] = IF i <= Len(one) THEN one[i] ELSE l[i - Len(one)]
  BY <1>1, ConcatProperties, LenProperties
<1>a. Range(x) = {p} \cup Range(l)
  BY <1>1, RangeConcatenation
<1> HIDE DEF x
<1>c. one \in Seq(T) /\ x \in Seq(T)
  BY <1>1, <1>2
<1>3. /\ y \in Seq(T) /\ Len(y) = Len(x) + Len(one)
      /\ \A i \in 1..Len(x) + Len(one) : y[i] = IF i <= Len(x) THEN x[i] ELSE one[i - Len(x)]
  BY <1>c, ConcatProperties
<1>b. Range(y) = {p} \cup Range(l)
  BY <1>1, <1>2, <1>a, RangeConcatenation
<1> HIDE DEF y
<1>4. n = Len(l) + 2 /\ n \in Nat /\ Len(x) = Len(l) + 1
  BY <1>1, <1>2, <1>3
<1>5. y[1] = p /\ y[n] = p /\ y # <<>>
  <2>1. 1 \in 1..Len(x) + Len(one) /\ 1 <= Len(x) /\ 1 \in 1..Len(one) + Len(l) /\ 1 <= Len(one)
    BY <1>1, <1>2
  <2>2. y[1] = p
    BY <1>1, <1>2, <1>3, <2>1
  <2>3. n \in 1..Len(x) + Len(one) /\ ~(n <= Len(x)) /\ n - Len(x) = 1
    BY <1>1, <1>2, <1>3, <1>4
  <2>4. y[n] = p
    BY <1>1, <1>3, <2>3
  <2>. QED  BY <1>4, <2>2, <2>4, EmptySeq
<1>6. SubSeq(y, 2, n - 1) = l
  <2> DEFINE u == SubSeq(y, 2, n - 1)
  <2>1. ASSUME NEW i \in 1..Len(l) PROVE y[i + 1] = l[i]
    <3>1. /\ i + 1 \in 1..Len(x) + Len(one) /\ i + 1 <= Len(x)
          /\ i + 1 \in 1..Len(one) + Len(l) /\ ~(i + 1 <= Len(one)) /\ (i + 1) - Len(one) = i
      BY <1>1, <1>2
    <3>. QED  BY <1>2, <1>3, <3>1
  <2>2. ASSUME NEW i \in 2..(n - 1) PROVE y[i] \in T
    <3>1. i \in 1..Len(y)
      BY <1>4
    <3>. QED  BY <1>3, <3>1, ElementOfSeq
  <2>3. 2 \in Int /\ n - 1 \in Int
    BY <1>4
  <2> HIDE DEF n
  <2>4. /\ u \in Seq(T)
        /\ Len(u) = IF 2 <= n - 1 THEN (n - 1) - 2 + 1 ELSE 0
        /\ \A i \in 1..(n - 1) - 2 + 1 : u[i] = y[2 + i - 1]
    BY <2>2, <2>3, SubSeqProperties
  <2> HIDE DEF u
  <2>5. Len(u) = Len(l)
    BY <1>2, <1>4, <2>4
  <2>6. ASSUME NEW i \in 1..Len(l) PROVE u[i] = l[i]
    <3>1. i \in 1..(n - 1) - 2 + 1 /\ 2 + i - 1 = i + 1
      BY <1>2, <1>4
    <3>2. u[i] = y[2 + i - 1]
      BY <2>4, <3>1
    <3>. QED  BY <2>1, <3>1, <3>2
  <2>7. u = l
    BY <2>4, <2>5, <2>6, SeqEqual
  <2>. QED  BY <2>7 DEF u
<1>7. Quoted(p, l) = y
  BY DEF Quoted, y, x, one
<1>. QED  BY <1>3, <1>b, <1>4, <1>5, <1>6, <1>7 DEF QuotedFacts, n

(* A text that does not begin with a shell is no wrapper.                  *)
LEMMA PlainIsNoWrapper ==
  ASSUME NEW T, NEW x \in Seq(T), x # <<>>, x[1] \notin {"sh -c", "env sh -c"}
  PROVE  WrapperBody(x) = x
<1>1. Head(x) = x[1]
  BY HeadIsFirst
<1>. QED  BY <1>1 DEF WrapperBody

(* Quotes with something in them are more than two tokens.                 *)
LEMMA MoreThanTwo ==
  \A k \in Nat \ {0} : k + 2 > 2
OBVIOUS

(* In a wrapper with a quoted argument is what is quoted.                  *)
LEMMA QuotedBody ==
  ASSUME NEW T, NEW w \in T, w \in {"sh -c", "env sh -c"}, NEW p \in T, p \in {"dq", "sq"},
         NEW l \in Seq(T), l # <<>>, "NL" \notin Range(l)
  PROVE  WrapperBody(Pre(w, Quoted(p, l))) = l
<1> DEFINE arg == Quoted(p, l)
           c   == Pre(w, arg)
           n   == Len(arg)
<1>0. QuotedFacts(T, p, l)
  BY QuotedProperties
<1>1. /\ arg \in Seq(T) /\ arg # <<>> /\ n = Len(l) + 2 /\ arg[1] = p /\ arg[n] = p
      /\ SubSeq(arg, 2, n - 1) = l /\ Range(arg) = {p} \cup Range(l)
  BY <1>0 DEF QuotedFacts
<1> HIDE DEF arg
<1>2. PreFacts(T, w, arg)
  BY <1>1, Prefixed
<1>3. c # <<>> /\ Head(c) = w /\ Tail(c) = arg /\ Range(c) = {w, p} \cup Range(l)
  BY <1>1, <1>2 DEF PreFacts
<1>4. "NL" \notin Range(c)
  BY <1>3
<1>5. Len(l) \in Nat /\ Len(l) # 0
  BY EmptySeq, LenProperties
<1>6. n > 2
  BY <1>1, <1>5, MoreThanTwo
<1> HIDE DEF c
<1>7. WrapperBody(c) = SubSeq(arg, 2, n - 1)
  BY <1>1, <1>3, <1>4, <1>6 DEF WrapperBody
<1>. QED  BY <1>1, <1>7 DEF c, arg

(* In one without quotes is what follows it.                               *)
LEMMA BareBody ==
  ASSUME NEW T, "sh -c" \in T, NEW l \in Seq(T), l # <<>>, l[1] \notin {"dq", "sq"},
         "NL" \notin Range(l)
  PROVE  WrapperBody(Pre("sh -c", l)) = l
<1> DEFINE c == Pre("sh -c", l)
<1>1. PreFacts(T, "sh -c", l)
  BY Prefixed
<1>2. c # <<>> /\ Head(c) = "sh -c" /\ Tail(c) = l /\ Range(c) = {"sh -c"} \cup Range(l)
  BY <1>1 DEF PreFacts
<1>3. "NL" \notin Range(c)
  BY <1>2
<1> HIDE DEF c
<1>4. WrapperBody(c) = l
  BY <1>2, <1>3 DEF WrapperBody
<1>. QED  BY <1>4 DEF c

(* Unwrapping steps as often as the text is long, and stops by itself.     *)
LEMMA UnwrapSettles ==
  ASSUME NEW T, NEW v \in Seq(T), NEW u \in Seq(T), WrapperBody(v) = u, WrapperBody(u) = u,
         NEW d \in Seq(T), d # <<>>
  PROVE  After(Wrappers(T), v, d) = u
<1> DEFINE F == Wrappers(T)
           none == <<>>
           S == {x \in Seq(T) : x = none \/ After(F, v, x) = u}
<1>1. IsStep(F, Seq(T), T)
  BY WrappersStep DEF IsStep
<1>2. /\ \A t \in T : F[<<v, t>>] = u /\ F[<<u, t>>] = u
      /\ none \in Seq(T) /\ \A t \in T : Append(none, t) = <<t>>
  BY WrappersStep, EmptySeq
<1> HIDE DEF F, none
<1>3. none \in S
  BY <1>2
<1>4. ASSUME NEW x \in Seq(T), NEW e \in T, x \in S PROVE Append(x, e) \in S
  <2>1. Append(x, e) \in Seq(T)
    BY AppendProperties
  <2>2. CASE x = none
    <3>1. After(F, v, <<e>>) = F[<<v, e>>]
      BY <1>1, AfterOne
    <3>. QED  BY <1>2, <2>1, <2>2, <3>1
  <2>3. CASE After(F, v, x) = u
    <3>1. After(F, v, Append(x, e)) = F[<<After(F, v, x), e>>]
      BY <1>1, AfterAppend
    <3>. QED  BY <1>2, <2>1, <2>3, <3>1
  <2>. QED  BY <1>4, <2>2, <2>3
<1>5. Seq(T) \subseteq S
  <2>1. <<>> \in S
    BY <1>3 DEF none
  <2> HIDE DEF S
  <2>. QED  BY <2>1, <1>4, SeqInduct
<1>. QED  BY <1>5 DEF none, F

(* A wrapper with no wrapper in it.                                        *)
LEMMA UnwrapsOnce ==
  ASSUME NEW T, NEW x \in Seq(T), x # <<>>, NEW u \in Seq(T),
         WrapperBody(x) = u, WrapperBody(u) = u
  PROVE  unwrapShellCommand(x) = u
BY WrappersFold, UnwrapSettles

(* A wrapper in a wrapper.                                                 *)
LEMMA UnwrapsTwice ==
  ASSUME NEW T, NEW w \in T, NEW d \in Seq(T), d # <<>>, NEW v \in Seq(T), NEW u \in Seq(T),
         WrapperBody(Pre(w, d)) = v, WrapperBody(v) = u, WrapperBody(u) = u
  PROVE  unwrapShellCommand(Pre(w, d)) = u
<1> DEFINE F == Wrappers(T)
           one == <<w>>
           x == Pre(w, d)
<1>1. IsStep(F, Seq(T), T)
  BY WrappersStep DEF IsStep
<1>2. PreFacts(T, w, d)
  BY Prefixed
<1>3. one \in Seq(T) /\ x \in Seq(T) /\ x = one \o d
  BY <1>2, OneIsSeq DEF PreFacts, Pre
<1>4. unwrapShellCommand(x) = After(F, x, x) /\ F[<<x, w>>] = v
  BY <1>3, WrappersFold, WrappersStep
<1>8. x \in Seq(T) /\ one \in Seq(T)
  BY <1>3
<1> HIDE DEF x, F
<1>5. After(F, x, one) = v
  BY <1>1, <1>8, <1>4, AfterOne
<1> HIDE DEF one
<1>6. After(F, x, one \o d) = After(F, After(F, x, one), d)
  BY <1>1, <1>8, AfterConcat
<1>7. After(F, v, d) = u
  BY UnwrapSettles DEF F
<1>. QED  BY <1>3, <1>4, <1>5, <1>6, <1>7 DEF x

-----------------------------------------------------------------------------
(* Substitutions: y between a and b.                                       *)
In(x, a, y, b, z) == x \o Pre(a, y \o Pre(b, z))

PreLen(T, w, x) ==
  /\ Pre(w, x) \in Seq(T) /\ Len(Pre(w, x)) = Len(x) + 1
  /\ Pre(w, x)[1] = w
  /\ \A i \in 1..Len(x) : Pre(w, x)[i + 1] = x[i]

(* The places of a text behind w.                                          *)
LEMMA PrefixedAt ==
  ASSUME NEW T, NEW w \in T, NEW x \in Seq(T)
  PROVE  PreLen(T, w, x)
<1> DEFINE y == Pre(w, x)
<1>1. PreFacts(T, w, x)
  BY Prefixed
<1>2. y \in Seq(T) /\ y # <<>> /\ y[1] = w /\ Tail(y) = x
  BY <1>1 DEF PreFacts
<1> HIDE DEF y
<1>3. Len(x) = Len(y) - 1 /\ \A i \in 1..Len(x) : x[i] = y[i + 1]
  BY <1>2, HeadTailProperties
<1>4. Len(y) \in Nat /\ Len(x) \in Nat
  BY <1>2, LenProperties
<1>5. Len(y) = Len(x) + 1
  BY <1>3, <1>4
<1>. QED  BY <1>2, <1>3, <1>5 DEF PreLen, y

JoinLen(T, x, y) ==
  /\ x \o y \in Seq(T) /\ Len(x \o y) = Len(x) + Len(y)
  /\ \A i \in 1..Len(x) : (x \o y)[i] = x[i]
  /\ \A i \in 1..Len(y) : (x \o y)[Len(x) + i] = y[i]

(* The places of a text behind another.                                    *)
LEMMA JoinedAt ==
  ASSUME NEW T, NEW x \in Seq(T), NEW y \in Seq(T)
  PROVE  JoinLen(T, x, y)
<1> DEFINE c == x \o y
<1>1. /\ c \in Seq(T) /\ Len(c) = Len(x) + Len(y)
      /\ \A i \in 1..Len(x) + Len(y) : c[i] = IF i <= Len(x) THEN x[i] ELSE y[i - Len(x)]
  BY ConcatProperties
<1>2. Len(x) \in Nat /\ Len(y) \in Nat
  BY LenProperties
<1> HIDE DEF c
<1>3. ASSUME NEW i \in 1..Len(x) PROVE c[i] = x[i]
  <2>1. i \in 1..Len(x) + Len(y) /\ i <= Len(x)
    BY <1>2
  <2>. QED  BY <1>1, <2>1
<1>4. ASSUME NEW i \in 1..Len(y) PROVE c[Len(x) + i] = y[i]
  <2>1. Len(x) + i \in 1..Len(x) + Len(y) /\ ~(Len(x) + i <= Len(x)) /\ (Len(x) + i) - Len(x) = i
    BY <1>2
  <2>. QED  BY <1>1, <2>1
<1>. QED  BY <1>1, <1>3, <1>4 DEF JoinLen, c

InFacts(T, x, a, y, b, z) ==
  LET c == In(x, a, y, b, z)
      I == Len(x) + 1
      J == I + Len(y) + 1
  IN  /\ c \in Seq(T) /\ Len(c) = J + Len(z)
      /\ c[I] = a /\ c[J] = b
      /\ \A i \in 1..Len(c) : i # I /\ i # J => c[i] \in Range(x) \cup Range(y) \cup Range(z)
      /\ SubSeq(c, I + 1, J - 1) = y

(* Where a, y and b stand.                                                 *)
LEMMA InProperties ==
  ASSUME NEW T, NEW x \in Seq(T), NEW a \in T, NEW y \in Seq(T), NEW b \in T, NEW z \in Seq(T)
  PROVE  InFacts(T, x, a, y, b, z)
<1> DEFINE v == Pre(b, z)
           w == y \o v
           u == Pre(a, w)
           c == x \o u
           I == Len(x) + 1
           J == I + Len(y) + 1
<1>1. PreLen(T, b, z)
  BY PrefixedAt
<1>2. /\ v \in Seq(T) /\ Len(v) = Len(z) + 1 /\ v[1] = b
      /\ \A i \in 1..Len(z) : v[i + 1] = z[i]
  BY <1>1 DEF PreLen
<1> HIDE DEF v
<1>3. JoinLen(T, y, v)
  BY <1>2, JoinedAt
<1>4. /\ w \in Seq(T) /\ Len(w) = Len(y) + Len(v)
      /\ \A i \in 1..Len(y) : w[i] = y[i]
      /\ \A i \in 1..Len(v) : w[Len(y) + i] = v[i]
  BY <1>3 DEF JoinLen
<1> HIDE DEF w
<1>5. PreLen(T, a, w)
  BY <1>4, PrefixedAt
<1>6. /\ u \in Seq(T) /\ Len(u) = Len(w) + 1 /\ u[1] = a
      /\ \A i \in 1..Len(w) : u[i + 1] = w[i]
  BY <1>5 DEF PreLen
<1> HIDE DEF u
<1>7. JoinLen(T, x, u)
  BY <1>6, JoinedAt
<1>8. /\ c \in Seq(T) /\ Len(c) = Len(x) + Len(u)
      /\ \A i \in 1..Len(x) : c[i] = x[i]
      /\ \A i \in 1..Len(u) : c[Len(x) + i] = u[i]
  BY <1>7 DEF JoinLen
<1> HIDE DEF c
<1>9. Len(x) \in Nat /\ Len(y) \in Nat /\ Len(z) \in Nat
  BY LenProperties
<1>10. Len(c) = J + Len(z)
  BY <1>2, <1>4, <1>6, <1>8, <1>9
<1>11. c[I] = a
  <2>1. 1 \in 1..Len(u)
    BY <1>2, <1>4, <1>6, <1>9
  <2>. QED  BY <1>6, <1>8, <2>1
<1>12. ASSUME NEW i \in 1..Len(y) PROVE c[I + i] = y[i]
  <2>1. i \in 1..Len(w) /\ i + 1 \in 1..Len(u) /\ Len(x) + (i + 1) = I + i
    BY <1>2, <1>4, <1>6, <1>9
  <2>2. c[Len(x) + (i + 1)] = u[i + 1]
    BY <1>8, <2>1
  <2>. QED  BY <1>4, <1>6, <2>1, <2>2
<1>13. ASSUME NEW i \in 1..Len(v) PROVE c[I + Len(y) + i] = v[i]
  <2>1. Len(y) + i \in 1..Len(w) /\ Len(y) + i + 1 \in 1..Len(u)
        /\ Len(x) + (Len(y) + i + 1) = I + Len(y) + i
    BY <1>2, <1>4, <1>6, <1>9
  <2>2. c[Len(x) + (Len(y) + i + 1)] = u[Len(y) + i + 1]
    BY <1>8, <2>1
  <2>3. u[Len(y) + i + 1] = w[Len(y) + i]
    BY <1>6, <2>1
  <2>. QED  BY <1>4, <2>1, <2>2, <2>3
<1>14. c[J] = b
  <2>1. 1 \in 1..Len(v)
    BY <1>2, <1>9
  <2>. QED  BY <1>2, <1>13, <2>1
<1>15. ASSUME NEW i \in 1..Len(z) PROVE c[J + i] = z[i]
  <2>1. i + 1 \in 1..Len(v) /\ I + Len(y) + (i + 1) = J + i
    BY <1>2, <1>9
  <2>2. c[I + Len(y) + (i + 1)] = v[i + 1]
    BY <1>13, <2>1
  <2>. QED  BY <1>2, <2>1, <2>2
<1>16. ASSUME NEW i \in 1..Len(c), i # I, i # J
       PROVE  c[i] \in Range(x) \cup Range(y) \cup Range(z)
  <2>0. /\ \A k \in 1..Len(x) : x[k] \in Range(x)
        /\ \A k \in 1..Len(y) : y[k] \in Range(y)
        /\ \A k \in 1..Len(z) : z[k] \in Range(z)
    BY RangeEquality
  <2>1. CASE i <= Len(x)
    <3>1. i \in 1..Len(x)
      BY <1>9, <2>1
    <3>. QED  BY <1>8, <2>0, <3>1
  <2>2. CASE i > I /\ i < J
    <3>1. i - I \in 1..Len(y) /\ I + (i - I) = i
      BY <1>9, <2>2
    <3>2. c[I + (i - I)] = y[i - I]
      BY <1>12, <3>1
    <3>. QED  BY <2>0, <3>1, <3>2
  <2>3. CASE i > J
    <3>1. i - J \in 1..Len(z) /\ J + (i - J) = i
      BY <1>9, <1>10, <2>3
    <3>2. c[J + (i - J)] = z[i - J]
      BY <1>15, <3>1
    <3>. QED  BY <2>0, <3>1, <3>2
  <2>4. i \in Int /\ Len(x) \in Int /\ Len(y) \in Int /\ i # I /\ i # J
    BY <1>9, <1>10, <1>16
  <2>5. i <= Len(x) \/ (i > I /\ i < J) \/ i > J
    BY <2>4
  <2>. QED  BY <2>1, <2>2, <2>3, <2>5
<1>17. SubSeq(c, I + 1, J - 1) = y
  <2> DEFINE s == SubSeq(c, I + 1, J - 1)
  <2>1. I + 1 \in Int /\ J - 1 \in Int
    BY <1>9
  <2>2. ASSUME NEW i \in (I + 1)..(J - 1) PROVE c[i] \in T
    <3>1. i \in 1..Len(c)
      BY <1>9, <1>10
    <3>. QED  BY <1>8, <3>1, ElementOfSeq
  <2> DEFINE m == I + 1
             n == J - 1
  <2>3. /\ m \in Int /\ n \in Int /\ (\A i \in m..n : c[i] \in T)
        /\ n - m + 1 = Len(y) /\ (m <= n => n - m + 1 = Len(y)) /\ (~(m <= n) => Len(y) = 0)
        /\ m - 1 = I
    BY <1>9, <2>1, <2>2
  <2> HIDE DEF m, n
  <2>4. /\ SubSeq(c, m, n) \in Seq(T)
        /\ Len(SubSeq(c, m, n)) = IF m <= n THEN n - m + 1 ELSE 0
        /\ \A i \in 1..n - m + 1 : SubSeq(c, m, n)[i] = c[m + i - 1]
    BY <2>3, SubSeqProperties
  <2>5. s = SubSeq(c, m, n)
    BY DEF m, n
  <2> HIDE DEF s
  <2>6. s \in Seq(T) /\ Len(s) = Len(y)
    BY <2>3, <2>4, <2>5
  <2>7. ASSUME NEW i \in 1..Len(y) PROVE s[i] = y[i]
    <3>1. m + i - 1 = I + i
      BY <1>9 DEF m
    <3>. QED  BY <1>12, <2>3, <2>4, <2>5, <3>1
  <2>8. s = y
    BY <2>6, <2>7, SeqEqual
  <2>. QED  BY <2>8 DEF s
<1>18. In(x, a, y, b, z) = c
  BY DEF In, c, u, w, v
<1>. QED  BY <1>8, <1>10, <1>11, <1>14, <1>16, <1>17, <1>18 DEF InFacts

(* Without a closing bracket there is no $(...).                           *)
LEMMA NoDollar ==
  ASSUME NEW T, NEW c \in Seq(T), ")" \notin Range(c)
  PROVE  DollarSubstitutions(c) = {}
<1>1. DOMAIN c = 1..Len(c) /\ Range(c) = {c[i] : i \in 1..Len(c)}
  BY LenProperties, RangeEquality
<1>2. {i \in DOMAIN c : c[i] = ")"} = {}
  BY <1>1
<1>. QED  BY <1>2 DEF DollarSubstitutions

(* With one pair of brackets there is what is in them.                     *)
LEMMA OneDollar ==
  ASSUME NEW T, "$(" \in T, ")" \in T, NEW x \in Seq(T), NEW y \in Seq(T), NEW z \in Seq(T),
         y # <<>>, Range(x) \cup Range(y) \cup Range(z) \subseteq T \ {"$(", ")"}
  PROVE  DollarSubstitutions(In(x, "$(", y, ")", z)) = {y}
<1> DEFINE c == In(x, "$(", y, ")", z)
           I == Len(x) + 1
           J == I + Len(y) + 1
<1>1. InFacts(T, x, "$(", y, ")", z)
  BY InProperties
<1>2. /\ c \in Seq(T) /\ Len(c) = J + Len(z) /\ c[I] = "$(" /\ c[J] = ")"
      /\ \A i \in 1..Len(c) : i # I /\ i # J => c[i] \notin {"$(", ")"}
      /\ SubSeq(c, I + 1, J - 1) = y
  BY <1>1 DEF InFacts
<1> HIDE DEF c
<1>3. Len(x) \in Nat /\ Len(y) \in Nat /\ Len(y) # 0 /\ Len(z) \in Nat /\ DOMAIN c = 1..Len(c)
  BY <1>2, LenProperties, EmptySeq
<1>4. I \in 1..Len(c) /\ J \in 1..Len(c) /\ I \in 1..(J - 1) /\ I < J - 1 /\ I # J
  BY <1>2, <1>3
<1> HIDE DEF I, J
<1> DEFINE Closing == {i \in DOMAIN c : c[i] = ")"}
           Before(j) == {i \in Closing : i < j}
           Opens(j) == {i \in 1..(j - 1) : c[i] = "$(" /\ \A k \in Before(j) : k < i}
           First(S) == CHOOSE i \in S : \A k \in S : i <= k
<1>5. Closing = {J}
  BY <1>2, <1>3, <1>4
<1>6. Before(J) = {}
  BY <1>4, <1>5
<1>7. Opens(J) = {I}
  <2>1. \A i \in 1..(J - 1) : c[i] = "$(" => i = I
    BY <1>2, <1>4
  <2>. QED  BY <1>2, <1>4, <1>6, <2>1
<1>8. First({I}) = I
  <2>1. I <= I
    BY <1>4
  <2>. QED  BY <2>1
<1>9. DollarSubstitutions(c) = {SubSeq(c, First(Opens(j)) + 1, j - 1) :
                                  j \in {k \in Closing : Opens(k) # {} /\ First(Opens(k)) < k - 1}}
  BY DEF DollarSubstitutions
<1> HIDE DEF Closing, Opens, First
<1>10. {k \in Closing : Opens(k) # {} /\ First(Opens(k)) < k - 1} = {J}
  BY <1>4, <1>5, <1>7, <1>8
<1>11. DollarSubstitutions(c) = {SubSeq(c, I + 1, J - 1)}
  BY <1>7, <1>8, <1>9, <1>10
<1>. QED  BY <1>2, <1>11 DEF c, I, J

(* A scan of a text behind t begins with t.                                *)
LEMMA AfterPre ==
  ASSUME NEW St, NEW T, NEW F, IsStep(F, St, T), NEW s0 \in St, NEW t \in T, NEW w \in Seq(T)
  PROVE  After(F, s0, Pre(t, w)) = After(F, F[<<s0, t>>], w)
<1> DEFINE one == <<t>>
<1>1. one \in Seq(T) /\ After(F, s0, one) = F[<<s0, t>>]
  BY AfterOne
<1>2. Pre(t, w) = one \o w
  BY DEF Pre
<1> HIDE DEF one
<1>3. After(F, s0, one \o w) = After(F, After(F, s0, one), w)
  BY <1>1, AfterConcat
<1>. QED  BY <1>1, <1>2, <1>3

(* The texts in backticks are what the scan for them ends with.            *)
LEMMA BacktickIsAfter ==
  ASSUME NEW T, NEW c \in Seq(T)
  PROVE  /\ ScanStart = At({}, <<>>, "none", 0)
         /\ BacktickSubstitutions(c) = After(Backticks(T), At({}, <<>>, "none", 0), c).parts
<1>1. ScanStart \in ScanStates(T)
  BY EmptySeq DEF ScanStart, ScanStates
<1>2. ScanStart = At({}, <<>>, "none", 0)
  BY DEF ScanStart, At
<1>3. FoldLeft(ScanBackticks, ScanStart, c) = After(Backticks(T), ScanStart, c)
  BY <1>1, BackticksFold
<1>. QED  BY <1>2, <1>3 DEF BacktickSubstitutions

(* That scan carries each text without a backtick.                         *)
LEMMA BackticksCarry ==
  ASSUME NEW T, NEW c \in Seq(T), "bq" \notin Range(c), NEW q \in InQuotes
  PROVE  Carries(Backticks(T), T, c, q, 0, q, 0)
<1> DEFINE U == T \ {"bq"}
<1>1. c \in Seq(U)
  <2>1. c \in Seq(Range(c)) /\ Range(c) \subseteq T
    BY SeqOfRange, RangeOfSeq
  <2>2. Range(c) \subseteq U
    BY <2>1
  <2>. QED  BY <2>1, <2>2, SeqMonotonic
<1>2. 0 \in Int /\ IsScan(Backticks(T), T) /\ U \subseteq T
  BY ScansAreScans
<1>3. \A t \in U : Keeps(Backticks(T), T, t, q, 0, q, 0)
  BY <1>2, BackticksKeep
<1> HIDE DEF U
<1>4. \A e \in Seq(U) : Carries(Backticks(T), T, e, q, 0, q, 0)
  BY <1>2, <1>3, CarryTokens
<1>. QED  BY <1>1, <1>4

(* Without a backtick there is none.                                       *)
LEMMA NoBacktick ==
  ASSUME NEW T, NEW c \in Seq(T), "bq" \notin Range(c)
  PROVE  BacktickSubstitutions(c) = {}
<1>1. Carries(Backticks(T), T, c, "none", 0, "none", 0)
  BY BackticksCarry DEF InQuotes
<1>2. {} \in SUBSET Seq(T) /\ <<>> \in Seq(T)
  BY EmptySeq
<1>3. After(Backticks(T), At({}, <<>>, "none", 0), c) = At({}, <<>> \o c, "none", 0)
  BY <1>1, <1>2 DEF Carries
<1>4. At({}, <<>> \o c, "none", 0).parts = {}
  BY DEF At
<1>. QED  BY <1>3, <1>4, BacktickIsAfter

Opens(T) ==
  \A x \in Seq(T) : Backticks(T)[<<At({}, x, "none", 0), "bq">>] = At({}, <<>>, "bq", 0)
Closes(T) ==
  \A y \in Seq(T) : y # <<>> =>
    Backticks(T)[<<At({}, y, "bq", 0), "bq">>] = At({y}, <<>>, "none", 0)

(* A first backtick opens, and a second one closes.                        *)
LEMMA BackticksPair ==
  ASSUME NEW T, "bq" \in T
  PROVE  Opens(T) /\ Closes(T)
<1>0. {} \in SUBSET Seq(T) /\ "none" \in InQuotes /\ "bq" \in InQuotes /\ 0 \in Int
  BY DEF InQuotes, Quotes
<1>1. ASSUME NEW x \in Seq(T)
      PROVE  Backticks(T)[<<At({}, x, "none", 0), "bq">>] = At({}, <<>>, "bq", 0)
  <2>1. At({}, x, "none", 0) \in ScanStates(T)
    BY <1>0, AtIsState
  <2>2. Backticks(T)[<<At({}, x, "none", 0), "bq">>] = ScanBackticks(At({}, x, "none", 0), "bq")
    BY <2>1, BackticksStep
  <2>. QED  BY <2>2 DEF ScanBackticks, At
<1>2. ASSUME NEW y \in Seq(T), y # <<>>
      PROVE  Backticks(T)[<<At({}, y, "bq", 0), "bq">>] = At({y}, <<>>, "none", 0)
  <2>1. At({}, y, "bq", 0) \in ScanStates(T)
    BY <1>0, AtIsState
  <2>2. Backticks(T)[<<At({}, y, "bq", 0), "bq">>] = ScanBackticks(At({}, y, "bq", 0), "bq")
    BY <2>1, BackticksStep
  <2>. QED  BY <1>2, <2>2 DEF ScanBackticks, At
<1>. QED  BY <1>1, <1>2 DEF Opens, Closes

(* With one pair of backticks there is what is in them.                    *)
LEMMA OneBacktick ==
  ASSUME NEW T, "bq" \in T, NEW x \in Seq(T), NEW y \in Seq(T), NEW z \in Seq(T),
         y # <<>>, "bq" \notin Range(x) \cup Range(y) \cup Range(z)
  PROVE  BacktickSubstitutions(In(x, "bq", y, "bq", z)) = {y}
<1> DEFINE F == Backticks(T)
           none == <<>>
           v == Pre("bq", z)
           w == y \o v
           u == Pre("bq", w)
           c == x \o u
           s0 == At({}, none, "none", 0)
           s1 == At({}, x, "none", 0)
           s2 == At({}, none, "bq", 0)
           s3 == At({}, y, "bq", 0)
           s4 == At({y}, none, "none", 0)
           s5 == At({y}, z, "none", 0)
<1>0. {} \in SUBSET Seq(T) /\ {y} \in SUBSET Seq(T) /\ "none" \in InQuotes /\ "bq" \in InQuotes
      /\ 0 \in Int /\ none \in Seq(T) /\ none \o x = x /\ none \o y = y /\ none \o z = z
  BY EmptySeq, ConcatEmptySeq DEF InQuotes, Quotes
<1>1. PreLen(T, "bq", z)
  BY PrefixedAt
<1>2. v \in Seq(T)
  BY <1>1 DEF PreLen
<1>3. w \in Seq(T)
  <2> HIDE DEF v
  <2>. QED  BY <1>2, ConcatProperties
<1>4. PreLen(T, "bq", w)
  <2> HIDE DEF w
  <2>. QED  BY <1>3, PrefixedAt
<1>5. u \in Seq(T)
  <2> HIDE DEF w
  <2>. QED  BY <1>4 DEF PreLen
<1>6. c \in Seq(T)
  <2> HIDE DEF u
  <2>. QED  BY <1>5, ConcatProperties
<1>7. /\ s0 \in ScanStates(T) /\ s1 \in ScanStates(T) /\ s2 \in ScanStates(T)
      /\ s3 \in ScanStates(T) /\ s4 \in ScanStates(T)
  <2> HIDE DEF none
  <2>. QED  BY <1>0, AtIsState
<1>8. After(F, s0, x) = s1 /\ After(F, s2, y) = s3 /\ After(F, s4, z) = s5
  <2>1. /\ Carries(F, T, x, "none", 0, "none", 0) /\ Carries(F, T, y, "bq", 0, "bq", 0)
        /\ Carries(F, T, z, "none", 0, "none", 0)
    BY <1>0, BackticksCarry
  <2> HIDE DEF none, F
  <2>2. /\ After(F, s0, x) = At({}, none \o x, "none", 0)
        /\ After(F, s2, y) = At({}, none \o y, "bq", 0)
        /\ After(F, s4, z) = At({y}, none \o z, "none", 0)
    BY <1>0, <2>1 DEF Carries
  <2>. QED  BY <1>0, <2>2
<1>9. F[<<s1, "bq">>] = s2 /\ F[<<s3, "bq">>] = s4
  BY BackticksPair DEF Opens, Closes
<1>10. IsStep(F, ScanStates(T), T)
  BY ScansAreScans DEF IsScan
<1>11. In(x, "bq", y, "bq", z) = c
  BY DEF In
<1>12. BacktickSubstitutions(c) = After(F, s0, c).parts
  <2> HIDE DEF c
  <2>. QED  BY <1>6, BacktickIsAfter
<1>13. s5.parts = {y}
  BY DEF At
<1> HIDE DEF F, none, s0, s1, s2, s3, s4, s5
<1>14. After(F, s0, c) = After(F, s1, u)
  <2> HIDE DEF u
  <2>. QED  BY <1>5, <1>7, <1>8, <1>10, AfterConcat
<1>15. After(F, s1, u) = After(F, s2, w)
  <2> HIDE DEF w
  <2>. QED  BY <1>3, <1>7, <1>9, <1>10, AfterPre
<1>16. After(F, s2, w) = After(F, s3, v)
  <2> HIDE DEF v
  <2>. QED  BY <1>2, <1>7, <1>8, <1>10, AfterConcat
<1>17. After(F, s3, v) = s5
  BY <1>7, <1>8, <1>9, <1>10, AfterPre
<1>. QED  BY <1>11, <1>12, <1>13, <1>14, <1>15, <1>16, <1>17

-----------------------------------------------------------------------------
(* The dresses of a line.                                                  *)
Around(a, l, b) == <<"echo", a>> \o l \o <<b>>

(* Two tokens are a text behind a token.                                   *)
LEMMA PairOfOnes ==
  ASSUME NEW T, NEW s \in T, NEW t \in T
  PROVE  <<s, t>> = Pre(s, <<t>>) /\ <<s, t>> \in Seq(T)
<1>1. <<s>> \o <<t>> = <<s, t>>
  BY PairIsConcat
<1>2. <<s>> \in Seq(T) /\ <<t>> \in Seq(T)
  BY OneIsSeq
<1>3. <<s>> \o <<t>> \in Seq(T)
  BY <1>2, ConcatProperties
<1>. QED  BY <1>1, <1>3 DEF Pre

(* Brackets to the right: (s t l) b is s (t (l b)).                        *)
IsRight(s, t, l, b) == (<<s, t>> \o l) \o b = Pre(s, Pre(t, l \o b))

(* It holds for all texts.                                                 *)
LEMMA PutRight ==
  ASSUME NEW T, NEW s \in T, NEW t \in T, NEW l \in Seq(T), NEW b \in Seq(T)
  PROVE  IsRight(s, t, l, b)
<1> DEFINE st == <<s, t>>
           os == <<s>>
           ot == <<t>>
<1>1. st = os \o ot
  BY PairIsConcat
<1>2. os \in Seq(T) /\ ot \in Seq(T)
  BY OneIsSeq
<1>3. Pre(s, Pre(t, l \o b)) = os \o (ot \o (l \o b))
  BY DEF Pre
<1> HIDE DEF st, os, ot
<1>4. l \o b \in Seq(T) /\ os \o ot \in Seq(T)
  BY <1>2, ConcatProperties
<1>5. ((os \o ot) \o l) \o b = (os \o ot) \o (l \o b)
  <2>1. Assoc(os \o ot, l, b)
    BY <1>4, Associates
  <2>. QED  BY <2>1 DEF Assoc
<1>6. (os \o ot) \o (l \o b) = os \o (ot \o (l \o b))
  <2>1. Assoc(os, ot, l \o b)
    BY <1>2, <1>4, Associates
  <2>. QED  BY <2>1 DEF Assoc
<1>. QED  BY <1>1, <1>3, <1>5, <1>6 DEF st, IsRight

(* A wrapped text is a quoted one behind a shell.                          *)
LEMMA WrappedIsQuoted ==
  ASSUME NEW T, NEW w \in T, NEW q \in T, NEW l \in Seq(T)
  PROVE  (<<w, q>> \o l) \o <<q>> = Pre(w, Quoted(q, l))
<1> DEFINE oq == <<q>>
<1>1. oq \in Seq(T)
  BY OneIsSeq
<1>2. (<<w, q>> \o l) \o oq = Pre(w, Pre(q, l \o oq))
  <2> HIDE DEF oq
  <2>1. IsRight(w, q, l, oq)
    BY <1>1, PutRight
  <2>. QED  BY <2>1 DEF IsRight
<1>3. Pre(q, l \o oq) = oq \o (l \o oq) /\ Quoted(q, l) = (oq \o l) \o oq
  BY DEF Pre, Quoted
<1> HIDE DEF oq
<1>4. (oq \o l) \o oq = oq \o (l \o oq)
  BY <1>1, ConcatAssociative
<1>5. Pre(q, l \o oq) = Quoted(q, l)
  BY <1>3, <1>4
<1>. QED  BY <1>2, <1>5 DEF oq

(* A dress is a text between two tokens.                                   *)
LEMMA AroundIsIn ==
  ASSUME NEW T, "echo" \in T, NEW a \in T, NEW l \in Seq(T), NEW b \in T
  PROVE  Around(a, l, b) = In(<<"echo">>, a, l, b, <<>>)
<1> DEFINE ob == <<b>>
<1>1. ob \in Seq(T) /\ Pre(b, <<>>) = ob
  BY OneIsSeq, ConcatEmptySeq DEF Pre
<1>2. (<<"echo", a>> \o l) \o ob = Pre("echo", Pre(a, l \o ob))
  <2> HIDE DEF ob
  <2>1. IsRight("echo", a, l, ob)
    BY <1>1, PutRight
  <2>. QED  BY <2>1 DEF IsRight
<1>3. Around(a, l, b) = (<<"echo", a>> \o l) \o ob
  BY DEF Around
<1>4. In(<<"echo">>, a, l, b, <<>>) = Pre("echo", Pre(a, l \o ob))
  BY <1>1 DEF In, Pre
<1>. QED  BY <1>2, <1>3, <1>4

AroundFacts(T, a, l, b) ==
  /\ Around(a, l, b) \in Seq(T) /\ Around(a, l, b) # <<>> /\ Around(a, l, b)[1] = "echo"
  /\ Range(Around(a, l, b)) = {"echo", a, b} \cup Range(l)

(* What a dressed text shows.                                              *)
LEMMA AroundProperties ==
  ASSUME NEW T, "echo" \in T, NEW a \in T, NEW l \in Seq(T), NEW b \in T
  PROVE  AroundFacts(T, a, l, b)
<1> DEFINE ob == <<b>>
           v == l \o ob
           w == Pre(a, v)
           c == Pre("echo", w)
<1>1. ob \in Seq(T) /\ Range(ob) = {b}
  BY OneIsSeq, RangeOfOne
<1>2. Around(a, l, b) = c
  <2>1. Around(a, l, b) = (<<"echo", a>> \o l) \o ob
    BY DEF Around
  <2> HIDE DEF ob
  <2>2. IsRight("echo", a, l, ob)
    BY <1>1, PutRight
  <2>. QED  BY <2>1, <2>2 DEF IsRight
<1> HIDE DEF ob
<1>3. v \in Seq(T) /\ Range(v) = Range(l) \cup {b}
  BY <1>1, ConcatProperties, RangeConcatenation
<1> HIDE DEF v
<1>4. PreFacts(T, a, v)
  BY <1>3, Prefixed
<1>5. w \in Seq(T) /\ Range(w) = {a, b} \cup Range(l)
  BY <1>3, <1>4 DEF PreFacts
<1> HIDE DEF w
<1>6. PreFacts(T, "echo", w)
  BY <1>5, Prefixed
<1>7. c \in Seq(T) /\ c # <<>> /\ c[1] = "echo" /\ Range(c) = {"echo", a, b} \cup Range(l)
  BY <1>5, <1>6 DEF PreFacts
<1>. QED  BY <1>2, <1>7 DEF AroundFacts

(* One in the other: the inner pair is found behind the outer opening.     *)
Outside(a) == Pre("echo", Pre(a, <<"echo">>))

(* It is, and what stands before it shows no more than "echo" and a.       *)
LEMMA NestedIsIn ==
  ASSUME NEW T, "echo" \in T, NEW a \in T, NEW b \in T, NEW a2 \in T, NEW b2 \in T,
         NEW l \in Seq(T)
  PROVE  /\ Around(a, Around(a2, l, b2), b) = In(Outside(a), a2, l, b2, <<b>>)
         /\ Outside(a) \in Seq(T) /\ Range(Outside(a)) = {"echo", a}
<1> DEFINE e  == <<"echo">>
           oa == <<a>>
           ob == <<b>>
           o2 == <<b2>>
           u  == Around(a2, l, b2)
<1>1. e \in Seq(T) /\ oa \in Seq(T) /\ ob \in Seq(T) /\ o2 \in Seq(T) /\ Range(e) = {"echo"}
  BY OneIsSeq, RangeOfOne
<1>2. AroundFacts(T, a2, l, b2)
  BY AroundProperties
<1>3. u \in Seq(T)
  BY <1>2 DEF AroundFacts
<1>4. u = e \o Pre(a2, l \o o2)
  <2>1. u = (<<"echo", a2>> \o l) \o o2
    BY DEF Around
  <2>2. u = Pre("echo", Pre(a2, l \o o2))
    <3> HIDE DEF o2, u
    <3>1. IsRight("echo", a2, l, o2)
      BY <1>1, PutRight
    <3>. QED  BY <2>1, <3>1 DEF IsRight
  <2>. QED  BY <2>2 DEF Pre
<1>5. Around(a, u, b) = e \o (oa \o (u \o ob))
  <2>1. Around(a, u, b) = (<<"echo", a>> \o u) \o ob
    BY DEF Around
  <2>2. Around(a, u, b) = Pre("echo", Pre(a, u \o ob))
    <3> HIDE DEF ob, u
    <3>1. u \in Seq(T) /\ ob \in Seq(T)
      BY <1>1, <1>3
    <3>2. IsRight("echo", a, u, ob)
      BY <3>1, PutRight
    <3>. QED  BY <2>1, <3>2 DEF IsRight
  <2>. QED  BY <2>2 DEF Pre
<1> DEFINE v == l \o o2
           p == Pre(a2, v)
           r == <<a2>>
<1>6. p = r \o v /\ r \in Seq(T)
  BY OneIsSeq DEF Pre
<1>7. Outside(a) = e \o (oa \o e)
  BY DEF Outside, Pre
<1>8. In(Outside(a), a2, l, b2, ob) = Outside(a) \o (r \o (l \o (o2 \o ob)))
  BY DEF In, Pre
<1>9. u = e \o p
  BY <1>4
<1> HIDE DEF e, oa, ob, o2, u, p, r
<1>10. v \in Seq(T)
  BY <1>1, ConcatProperties
<1>11. v \o ob = l \o (o2 \o ob) /\ o2 \o ob \in Seq(T) /\ l \o (o2 \o ob) \in Seq(T)
  <2>1. o2 \o ob \in Seq(T)
    BY <1>1, ConcatProperties
  <2>2. l \o (o2 \o ob) \in Seq(T)
    BY <2>1, ConcatProperties
  <2>3. Assoc(l, o2, ob)
    BY <1>1, Associates
  <2>. QED  BY <2>1, <2>2, <2>3 DEF Assoc, v
<1> HIDE DEF v
<1>12. p \in Seq(T) /\ p \o ob \in Seq(T) /\ oa \o e \in Seq(T)
  <2>1. p \in Seq(T)
    BY <1>6, <1>10, ConcatProperties
  <2>. QED  BY <1>1, <2>1, ConcatProperties
<1>13. /\ Assoc(r, v, ob) /\ Assoc(e, p, ob) /\ Assoc(oa, e, p \o ob) /\ Assoc(e, oa \o e, p \o ob)
  <2>1. Assoc(r, v, ob)
    BY <1>1, <1>6, <1>10, Associates
  <2>2. Assoc(e, p, ob)
    BY <1>1, <1>12, Associates
  <2>3. Assoc(oa, e, p \o ob)
    BY <1>1, <1>12, Associates
  <2>4. Assoc(e, oa \o e, p \o ob)
    BY <1>1, <1>12, Associates
  <2>. QED  BY <2>1, <2>2, <2>3, <2>4
<1>14. p \o ob = r \o (v \o ob)
  BY <1>6, <1>13 DEF Assoc
<1>15. (e \o p) \o ob = e \o (p \o ob)
  BY <1>13 DEF Assoc
<1>16. oa \o (e \o (p \o ob)) = (oa \o e) \o (p \o ob)
  BY <1>13 DEF Assoc
<1>17. e \o ((oa \o e) \o (p \o ob)) = (e \o (oa \o e)) \o (p \o ob)
  BY <1>13 DEF Assoc
<1>18. Around(a, u, b) = Outside(a) \o (p \o ob)
  BY <1>5, <1>7, <1>9, <1>15, <1>16, <1>17
<1>19. Around(a, u, b) = In(Outside(a), a2, l, b2, ob)
  BY <1>8, <1>11, <1>14, <1>18
<1>20. PreFacts(T, a, e)
  BY <1>1, Prefixed
<1>21. Pre(a, e) \in Seq(T) /\ Range(Pre(a, e)) = {a, "echo"}
  BY <1>1, <1>20 DEF PreFacts
<1>22. PreFacts(T, "echo", Pre(a, e))
  BY <1>21, Prefixed
<1>23. Outside(a) \in Seq(T) /\ Range(Outside(a)) = {"echo", a}
  BY <1>21, <1>22 DEF PreFacts, Outside, e
<1>. QED  BY <1>19, <1>23 DEF u, ob

(* A scan that carries the text carries the dressed one.                   *)
LEMMA AroundIsCarried ==
  ASSUME NEW T, NEW F, IsScan(F, T), "echo" \in T, NEW a \in T, NEW l \in Seq(T), NEW b \in T,
         NEW q \in InQuotes, NEW d \in Int, NEW q1 \in InQuotes, NEW d1 \in Int,
         Carries(F, T, l, q1, d1, q1, d1), Keeps(F, T, "echo", q, d, q, d),
         Keeps(F, T, a, q, d, q1, d1), Keeps(F, T, b, q1, d1, q, d)
  PROVE  Carries(F, T, Around(a, l, b), q, d, q, d)
<1> DEFINE oe == <<"echo">>
           oa == <<a>>
           ob == <<b>>
<1>1. oe \in Seq(T) /\ oa \in Seq(T) /\ ob \in Seq(T)
  BY OneIsSeq
<1>2. /\ Carries(F, T, oe, q, d, q, d) /\ Carries(F, T, oa, q, d, q1, d1)
      /\ Carries(F, T, ob, q1, d1, q, d)
  BY CarryToken
<1>3. Around(a, l, b) = ((oe \o oa) \o l) \o ob
  BY PairIsConcat DEF Around
<1> HIDE DEF oe, oa, ob
<1> DEFINE x == oe \o oa
           y == x \o l
<1>4. x \in Seq(T) /\ Carries(F, T, x, q, d, q1, d1)
  BY <1>1, <1>2, ConcatProperties, CarryConcat
<1>a. Around(a, l, b) = y \o ob
  BY <1>3
<1> HIDE DEF x
<1>5. y \in Seq(T) /\ Carries(F, T, y, q, d, q1, d1)
  BY <1>4, ConcatProperties, CarryConcat
<1> HIDE DEF y
<1>6. Carries(F, T, y \o ob, q, d, q, d)
  BY <1>1, <1>2, <1>5, CarryConcat
<1>. QED  BY <1>a, <1>6

SepStays(T, x, q, d) == Carries(Separators(T), T, x, q, d, q, d)
OpStays(T, x, q, d)  == Carries(OpScan(T), T, x, q, d, q, d)

(* Backticks are kept if what is in them is.                               *)
LEMMA BacktickStays ==
  ASSUME NEW T, "echo" \in T, "bq" \in T, NEW l \in Seq(T), NEW d \in Int
  PROVE  /\ SepStays(T, l, "bq", d) => SepStays(T, Backtick(l), "none", d)
         /\ OpStays(T, l, "bq", d) => OpStays(T, Backtick(l), "none", d)
<1>1. /\ "none" \in InQuotes /\ "bq" \in InQuotes /\ "echo" \notin Syntax
      /\ "bq" \in Quotes /\ "echo" \notin Quotes \cup {"&&"}
      /\ IsScan(Separators(T), T) /\ IsScan(OpScan(T), T)
  BY ScansAreScans DEF InQuotes, Quotes, Syntax
<1>2. /\ Keeps(Separators(T), T, "echo", "none", d, "none", d)
      /\ Keeps(Separators(T), T, "bq", "none", d, "bq", d)
      /\ Keeps(Separators(T), T, "bq", "bq", d, "none", d)
  BY <1>1, SeparatorsKeep
<1>3. /\ Keeps(OpScan(T), T, "echo", "none", d, "none", d)
      /\ Keeps(OpScan(T), T, "bq", "none", d, "bq", d)
      /\ Keeps(OpScan(T), T, "bq", "bq", d, "none", d)
  BY <1>1, OperatorScanKeeps
<1>4. Backtick(l) = Around("bq", l, "bq")
  BY DEF Backtick, Around
<1>5. SepStays(T, l, "bq", d) => SepStays(T, Around("bq", l, "bq"), "none", d)
  BY <1>1, <1>2, AroundIsCarried DEF SepStays
<1>6. OpStays(T, l, "bq", d) => OpStays(T, Around("bq", l, "bq"), "none", d)
  BY <1>1, <1>3, AroundIsCarried DEF OpStays
<1>. QED  BY <1>4, <1>5, <1>6

(* So is $(...).                                                           *)
LEMMA DollarStays ==
  ASSUME NEW T, "echo" \in T, "$(" \in T, ")" \in T, NEW l \in Seq(T),
         NEW q \in {"none", "bq"}, NEW d \in Int
  PROVE  /\ SepStays(T, l, q, d + 1) => SepStays(T, Dollar(l), q, d)
         /\ OpStays(T, l, q, d) => OpStays(T, Dollar(l), q, d)
<1>1. /\ q \in InQuotes /\ "echo" \notin Syntax
      /\ \A t \in {"echo", "$(", ")"} : t \notin Quotes \cup {"&&"}
      /\ IsScan(Separators(T), T) /\ IsScan(OpScan(T), T)
      /\ d + 1 \in Int /\ (d + 1) - 1 = d
  BY ScansAreScans DEF InQuotes, Quotes, Syntax
<1>2. /\ Keeps(Separators(T), T, "echo", q, d, q, d)
      /\ Keeps(Separators(T), T, "$(", q, d, q, d + 1)
      /\ Keeps(Separators(T), T, ")", q, d + 1, q, d)
  BY <1>1, SeparatorsKeep
<1>3. /\ Keeps(OpScan(T), T, "echo", q, d, q, d)
      /\ Keeps(OpScan(T), T, "$(", q, d, q, d)
      /\ Keeps(OpScan(T), T, ")", q, d, q, d)
  BY <1>1, OperatorScanKeeps
<1>4. Dollar(l) = Around("$(", l, ")")
  BY DEF Dollar, Around
<1>5. SepStays(T, l, q, d + 1) => SepStays(T, Around("$(", l, ")"), q, d)
  BY <1>1, <1>2, AroundIsCarried DEF SepStays
<1>6. OpStays(T, l, q, d) => OpStays(T, Around("$(", l, ")"), q, d)
  BY <1>1, <1>3, AroundIsCarried DEF OpStays
<1>. QED  BY <1>4, <1>5, <1>6

(* A text that begins with no wrapper and is kept whole is its only part.  *)
LEMMA KeptIsItsOnlyPart ==
  ASSUME NEW T, NEW x \in Seq(T), x # <<>>, x[1] \notin {"sh -c", "env sh -c"},
         SepStays(T, x, "none", 0), OpStays(T, x, "none", 0)
  PROVE  /\ unwrapShellCommand(x) = x /\ Parts(x) = {x}
         /\ Substitutions(x) = extractCommandSubstitution(x)
<1>1. unwrapShellCommand(x) = x
  BY PlainIsNoWrapper, UnwrapsOnce
<1>2. splitCommandSeparators(x) = {x}
  BY SplitKept DEF SepStays, OpStays
<1>3. Parts(x) = {x}
  BY <1>1, <1>2 DEF Parts
<1>. QED  BY <1>1, <1>3 DEF Substitutions

-----------------------------------------------------------------------------
(* A line of the commands in C.                                            *)
IsLine(W, l, C) ==
  /\ C \subseteq Commands(W) /\ LooksLike(W, l, C) /\ KeptInside(W, l)
  /\ splitCommandSeparators(l) = C

(* Each line of commands is one.                                           *)
LEMMA LinesAreLines ==
  ASSUME NEW W, AreWords(W), NEW sep \in Between, NEW cs \in Seq(Commands(W)) \ {<<>>}
  PROVE  IsLine(W, Line(cs, sep), Range(cs))
BY LinesLookLike, LinesAreKeptInside, LineSplits, RangeOfSeq DEF IsLine

(* A line is no wrapper, its parts are its commands, and nothing is        *)
(* substituted in it.                                                      *)
LEMMA LineIsPlain ==
  ASSUME NEW W, AreWords(W), NEW l, NEW C, IsLine(W, l, C)
  PROVE  /\ l \in Seq(Tokens(W)) /\ l # <<>>
         /\ l[1] \notin {"sh -c", "env sh -c", "dq", "sq"}
         /\ Range(l) \cap {"bq", "$(", ")", "base64 -d|sh", ":(){ :|:& };:"} = {}
         /\ unwrapShellCommand(l) = l /\ Parts(l) = C /\ Substitutions(l) = {}
<1> DEFINE T == Tokens(W)
           I == W \cup Inside
<1>1. /\ l \in Seq(I) /\ l # <<>> /\ l[1] \in W
      /\ C \subseteq Commands(W) /\ splitCommandSeparators(l) = C
  BY DEF IsLine, LooksLike
<1>2. l \in Seq(T)
  BY <1>1, InsideIsTokens
<1>3. I \cap {"bq", "$(", ")", "base64 -d|sh", ":(){ :|:& };:"} = {}
  BY DEF AreWords, Syntax, Inside, Between
<1>4. l[1] \notin {"sh -c", "env sh -c", "dq", "sq"}
  BY <1>1 DEF AreWords, Syntax
<1>5. unwrapShellCommand(l) = l
  <2> HIDE DEF T
  <2>. QED  BY <1>1, <1>2, <1>4, PlainIsNoWrapper, UnwrapsOnce
<1>6. Parts(l) = C
  BY <1>1, <1>5 DEF Parts
<1>7. ASSUME NEW c \in C PROVE extractCommandSubstitution(c) = {}
  <2>1. c \in Seq(I)
    BY <1>1, CommandFits DEF Fits
  <2>2. c \in Seq(T)
    BY <2>1, InsideIsTokens
  <2> HIDE DEF I
  <2>3. Range(c) \subseteq I
    BY <2>1, RangeOfSeq
  <2> HIDE DEF T
  <2>4. ")" \notin Range(c) /\ "bq" \notin Range(c)
    BY <1>3, <2>3
  <2>. QED  BY <2>2, <2>4, NoDollar, NoBacktick DEF extractCommandSubstitution
<1>8. Substitutions(l) = {}
  BY <1>6, <1>7 DEF Substitutions
<1> HIDE DEF I
<1>9. Range(l) \subseteq I
  BY <1>1, RangeOfSeq
<1>. QED  BY <1>1, <1>2, <1>3, <1>4, <1>5, <1>6, <1>8, <1>9

(* The dressed texts: each is its only part, with S as its substitutions.  *)
TextIs(T, x, S) ==
  /\ x \in Seq(T) /\ x # <<>> /\ x[1] = "echo"
  /\ unwrapShellCommand(x) = x /\ Parts(x) = {x} /\ Substitutions(x) = S

(* The tokens of the dresses.                                              *)
LEMMA TokensAreThere ==
  ASSUME NEW W
  PROVE  {"echo", "sh -c", "env sh -c", "dq", "sq", "bq", "$(", ")"} \subseteq Tokens(W)
BY DEF Tokens, Syntax

(* `l` has l in it.                                                        *)
LEMMA BacktickText ==
  ASSUME NEW W, AreWords(W), NEW l, NEW C, IsLine(W, l, C)
  PROVE  TextIs(Tokens(W), Backtick(l), {l})
<1> DEFINE T == Tokens(W)
           x == Backtick(l)
           none == <<>>
           e == <<"echo">>
<1>1. /\ l \in Seq(T) /\ l # <<>> /\ ")" \notin Range(l) /\ "bq" \notin Range(l)
      /\ KeptInside(W, l)
  BY LineIsPlain DEF IsLine
<1>2. "echo" \in T /\ "bq" \in T /\ ")" \in T
  BY TokensAreThere
<1>3. SepStays(T, l, "bq", 0) /\ OpStays(T, l, "bq", 0) /\ 0 \in Int
  BY <1>1 DEF KeptInside, SepStays, OpStays
<1>4. x = Around("bq", l, "bq")
  BY DEF Backtick, Around
<1>5. e \in Seq(T) /\ none \in Seq(T) /\ Range(e) = {"echo"} /\ Range(none) = {}
  BY <1>2, OneIsSeq, EmptySeq, RangeOfOne, RangeOfNothing
<1>6. x = In(e, "bq", l, "bq", none)
  <2> HIDE DEF T
  <2>. QED  BY <1>1, <1>2, <1>4, AroundIsIn
<1> HIDE DEF T, none, e
<1>7. SepStays(T, x, "none", 0) /\ OpStays(T, x, "none", 0)
  BY <1>1, <1>2, <1>3, BacktickStays
<1>8. AroundFacts(T, "bq", l, "bq")
  BY <1>1, <1>2, AroundProperties
<1>9. x \in Seq(T) /\ x # <<>> /\ x[1] = "echo" /\ Range(x) = {"echo", "bq"} \cup Range(l)
  BY <1>4, <1>8 DEF AroundFacts
<1>10. ")" \notin Range(x) /\ "bq" \notin Range(e) \cup Range(l) \cup Range(none)
  BY <1>1, <1>5, <1>9
<1>11. BacktickSubstitutions(In(e, "bq", l, "bq", none)) = {l}
  BY <1>1, <1>2, <1>5, <1>10, OneBacktick
<1>12. BacktickSubstitutions(x) = {l}
  BY <1>6, <1>11
<1> HIDE DEF x
<1>13. DollarSubstitutions(x) = {}
  BY <1>9, <1>10, NoDollar
<1>14. unwrapShellCommand(x) = x /\ Parts(x) = {x}
       /\ Substitutions(x) = extractCommandSubstitution(x)
  BY <1>7, <1>9, KeptIsItsOnlyPart
<1>15. extractCommandSubstitution(x) = {l}
  BY <1>12, <1>13 DEF extractCommandSubstitution
<1>. QED  BY <1>9, <1>14, <1>15 DEF TextIs, T, x

(* So has $(l).                                                            *)
LEMMA DollarText ==
  ASSUME NEW W, AreWords(W), NEW l, NEW C, IsLine(W, l, C), "&&" \notin Range(l)
  PROVE  TextIs(Tokens(W), Dollar(l), {l})
<1> DEFINE T == Tokens(W)
           x == Dollar(l)
           none == <<>>
           e == <<"echo">>
<1>1. /\ l \in Seq(T) /\ l # <<>> /\ ")" \notin Range(l) /\ "$(" \notin Range(l)
      /\ "bq" \notin Range(l) /\ KeptInside(W, l) /\ Range(l) \subseteq T
  BY LineIsPlain, RangeOfSeq DEF IsLine
<1>2. "echo" \in T /\ "$(" \in T /\ ")" \in T
  BY TokensAreThere
<1>3. SepStays(T, l, "none", 0 + 1) /\ OpStays(T, l, "none", 0) /\ 0 \in Int
  BY <1>1 DEF KeptInside, SepStays, OpStays
<1>4. x = Around("$(", l, ")")
  BY DEF Dollar, Around
<1>5. e \in Seq(T) /\ none \in Seq(T) /\ Range(e) = {"echo"} /\ Range(none) = {}
  BY <1>2, OneIsSeq, EmptySeq, RangeOfOne, RangeOfNothing
<1>6. x = In(e, "$(", l, ")", none)
  <2> HIDE DEF T
  <2>. QED  BY <1>1, <1>2, <1>4, AroundIsIn
<1> HIDE DEF T, none, e
<1>7. SepStays(T, x, "none", 0) /\ OpStays(T, x, "none", 0)
  BY <1>1, <1>2, <1>3, DollarStays
<1>8. AroundFacts(T, "$(", l, ")")
  BY <1>1, <1>2, AroundProperties
<1>9. x \in Seq(T) /\ x # <<>> /\ x[1] = "echo" /\ Range(x) = {"echo", "$(", ")"} \cup Range(l)
  BY <1>4, <1>8 DEF AroundFacts
<1>10. "bq" \notin Range(x) /\ Range(e) \cup Range(l) \cup Range(none) \subseteq T \ {"$(", ")"}
  BY <1>1, <1>2, <1>5, <1>9
<1>11. DollarSubstitutions(In(e, "$(", l, ")", none)) = {l}
  BY <1>1, <1>2, <1>5, <1>10, OneDollar
<1>12. DollarSubstitutions(x) = {l}
  BY <1>6, <1>11
<1> HIDE DEF x
<1>13. BacktickSubstitutions(x) = {}
  BY <1>9, <1>10, NoBacktick
<1>14. unwrapShellCommand(x) = x /\ Parts(x) = {x}
       /\ Substitutions(x) = extractCommandSubstitution(x)
  BY <1>7, <1>9, KeptIsItsOnlyPart
<1>15. extractCommandSubstitution(x) = {l}
  BY <1>12, <1>13 DEF extractCommandSubstitution
<1>. QED  BY <1>9, <1>14, <1>15 DEF TextIs, T, x

(* $(`l`) has both in it.                                                  *)
LEMMA DollarBacktickText ==
  ASSUME NEW W, AreWords(W), NEW l, NEW C, IsLine(W, l, C)
  PROVE  TextIs(Tokens(W), Dollar(Backtick(l)), {Backtick(l), l})
<1> DEFINE T == Tokens(W)
           y == Backtick(l)
           x == Dollar(y)
           none == <<>>
           e == <<"echo">>
           r == <<")">>
           o == Outside("$(")
<1>1. /\ l \in Seq(T) /\ l # <<>> /\ ")" \notin Range(l) /\ "$(" \notin Range(l)
      /\ "bq" \notin Range(l) /\ KeptInside(W, l) /\ Range(l) \subseteq T
  BY LineIsPlain, RangeOfSeq DEF IsLine
<1>2. "echo" \in T /\ "bq" \in T /\ "$(" \in T /\ ")" \in T
  BY TokensAreThere
<1>3. SepStays(T, l, "bq", 1) /\ OpStays(T, l, "bq", 0) /\ 0 \in Int /\ 1 \in Int /\ 0 + 1 = 1
  BY <1>1 DEF KeptInside, SepStays, OpStays
<1>4. x = Around("$(", y, ")") /\ y = Around("bq", l, "bq")
  BY DEF Dollar, Backtick, Around
<1>5. /\ e \in Seq(T) /\ none \in Seq(T) /\ Range(e) = {"echo"} /\ Range(none) = {}
      /\ r \in Seq(T) /\ Range(r) = {")"}
  BY <1>2, OneIsSeq, EmptySeq, RangeOfOne, RangeOfNothing
<1>6. AroundFacts(T, "bq", l, "bq")
  <2> HIDE DEF T
  <2>. QED  BY <1>1, <1>2, AroundProperties
<1>7. y \in Seq(T) /\ y # <<>> /\ Range(y) = {"echo", "bq"} \cup Range(l)
  BY <1>4, <1>6 DEF AroundFacts
<1>8. x = In(o, "bq", l, "bq", r) /\ o \in Seq(T) /\ Range(o) = {"echo", "$("}
  <2> HIDE DEF T, r
  <2>1. /\ Around("$(", Around("bq", l, "bq"), ")") = In(Outside("$("), "bq", l, "bq", <<")">>)
        /\ Outside("$(") \in Seq(T) /\ Range(Outside("$(")) = {"echo", "$("}
    BY <1>1, <1>2, NestedIsIn
  <2>. QED  BY <1>4, <2>1 DEF r
<1>9. x = In(e, "$(", y, ")", none)
  <2> HIDE DEF T, y
  <2>. QED  BY <1>2, <1>4, <1>7, AroundIsIn
<1>10. SepStays(T, y, "none", 1) /\ OpStays(T, y, "none", 0)
  <2> HIDE DEF T
  <2>. QED  BY <1>1, <1>2, <1>3, BacktickStays
<1> HIDE DEF T, none, e, r, o, y
<1>11. SepStays(T, x, "none", 0) /\ OpStays(T, x, "none", 0)
  BY <1>2, <1>3, <1>7, <1>10, DollarStays
<1>12. AroundFacts(T, "$(", y, ")")
  BY <1>2, <1>7, AroundProperties
<1>13. x \in Seq(T) /\ x # <<>> /\ x[1] = "echo"
  BY <1>4, <1>12 DEF AroundFacts
<1>14. "bq" \notin Range(o) \cup Range(l) \cup Range(r)
  BY <1>1, <1>5, <1>8
<1>15. Range(e) \cup Range(y) \cup Range(none) \subseteq T \ {"$(", ")"}
  BY <1>1, <1>2, <1>5, <1>7
<1>16. BacktickSubstitutions(In(o, "bq", l, "bq", r)) = {l}
  BY <1>1, <1>2, <1>5, <1>8, <1>14, OneBacktick
<1>17. DollarSubstitutions(In(e, "$(", y, ")", none)) = {y}
  <2>1. e \in Seq(T) /\ none \in Seq(T) /\ y \in Seq(T) /\ y # <<>> /\ "$(" \in T /\ ")" \in T
    BY <1>2, <1>5, <1>7
  <2>. QED  BY <1>15, <2>1, OneDollar
<1>18. DollarSubstitutions(x) = {y} /\ BacktickSubstitutions(x) = {l}
  BY <1>8, <1>9, <1>16, <1>17
<1> HIDE DEF x
<1>19. unwrapShellCommand(x) = x /\ Parts(x) = {x}
       /\ Substitutions(x) = extractCommandSubstitution(x)
  BY <1>11, <1>13, KeptIsItsOnlyPart
<1>20. extractCommandSubstitution(x) = {y, l}
  BY <1>18 DEF extractCommandSubstitution
<1>. QED  BY <1>13, <1>19, <1>20 DEF TextIs, T, x, y

(* So has `$(l)`.                                                          *)
LEMMA BacktickDollarText ==
  ASSUME NEW W, AreWords(W), NEW l, NEW C, IsLine(W, l, C)
  PROVE  TextIs(Tokens(W), Backtick(Dollar(l)), {Dollar(l), l})
<1> DEFINE T == Tokens(W)
           y == Dollar(l)
           x == Backtick(y)
           none == <<>>
           e == <<"echo">>
           r == <<"bq">>
           o == Outside("bq")
<1>1. /\ l \in Seq(T) /\ l # <<>> /\ ")" \notin Range(l) /\ "$(" \notin Range(l)
      /\ "bq" \notin Range(l) /\ KeptInside(W, l) /\ Range(l) \subseteq T
  BY LineIsPlain, RangeOfSeq DEF IsLine
<1>2. "echo" \in T /\ "bq" \in T /\ "$(" \in T /\ ")" \in T
  BY TokensAreThere
<1>3. SepStays(T, l, "bq", 0 + 1) /\ OpStays(T, l, "bq", 0) /\ 0 \in Int
  BY <1>1 DEF KeptInside, SepStays, OpStays
<1>4. x = Around("bq", y, "bq") /\ y = Around("$(", l, ")")
  BY DEF Dollar, Backtick, Around
<1>5. /\ e \in Seq(T) /\ none \in Seq(T) /\ Range(e) = {"echo"} /\ Range(none) = {}
      /\ r \in Seq(T) /\ Range(r) = {"bq"}
  BY <1>2, OneIsSeq, EmptySeq, RangeOfOne, RangeOfNothing
<1>6. AroundFacts(T, "$(", l, ")")
  <2> HIDE DEF T
  <2>. QED  BY <1>1, <1>2, AroundProperties
<1>7. y \in Seq(T) /\ y # <<>> /\ Range(y) = {"echo", "$(", ")"} \cup Range(l)
  BY <1>4, <1>6 DEF AroundFacts
<1>8. x = In(o, "$(", l, ")", r) /\ o \in Seq(T) /\ Range(o) = {"echo", "bq"}
  <2> HIDE DEF T, r
  <2>1. /\ Around("bq", Around("$(", l, ")"), "bq") = In(Outside("bq"), "$(", l, ")", <<"bq">>)
        /\ Outside("bq") \in Seq(T) /\ Range(Outside("bq")) = {"echo", "bq"}
    BY <1>1, <1>2, NestedIsIn
  <2>. QED  BY <1>4, <2>1 DEF r
<1>9. x = In(e, "bq", y, "bq", none)
  <2> HIDE DEF T, y
  <2>. QED  BY <1>2, <1>4, <1>7, AroundIsIn
<1>10. SepStays(T, y, "bq", 0) /\ OpStays(T, y, "bq", 0)
  <2> HIDE DEF T
  <2>. QED  BY <1>1, <1>2, <1>3, DollarStays
<1> HIDE DEF T, none, e, r, o, y
<1>11. SepStays(T, x, "none", 0) /\ OpStays(T, x, "none", 0)
  BY <1>2, <1>3, <1>7, <1>10, BacktickStays
<1>12. AroundFacts(T, "bq", y, "bq")
  BY <1>2, <1>7, AroundProperties
<1>13. x \in Seq(T) /\ x # <<>> /\ x[1] = "echo"
  BY <1>4, <1>12 DEF AroundFacts
<1>14. "bq" \notin Range(e) \cup Range(y) \cup Range(none)
  BY <1>1, <1>5, <1>7
<1>15. Range(o) \cup Range(l) \cup Range(r) \subseteq T \ {"$(", ")"}
  BY <1>1, <1>2, <1>5, <1>8
<1>16. BacktickSubstitutions(In(e, "bq", y, "bq", none)) = {y}
  BY <1>2, <1>5, <1>7, <1>14, OneBacktick
<1>17. DollarSubstitutions(In(o, "$(", l, ")", r)) = {l}
  <2>1. o \in Seq(T) /\ r \in Seq(T) /\ l \in Seq(T) /\ l # <<>> /\ "$(" \in T /\ ")" \in T
    BY <1>1, <1>2, <1>5, <1>8
  <2>. QED  BY <1>15, <2>1, OneDollar
<1>18. DollarSubstitutions(x) = {l} /\ BacktickSubstitutions(x) = {y}
  BY <1>8, <1>9, <1>16, <1>17
<1> HIDE DEF x
<1>19. unwrapShellCommand(x) = x /\ Parts(x) = {x}
       /\ Substitutions(x) = extractCommandSubstitution(x)
  BY <1>11, <1>13, KeptIsItsOnlyPart
<1>20. extractCommandSubstitution(x) = {y, l}
  BY <1>18 DEF extractCommandSubstitution
<1>. QED  BY <1>13, <1>19, <1>20 DEF TextIs, T, x, y

-----------------------------------------------------------------------------
(* The texts the policy is asked about.                                    *)
LEMMA TextsOfLine ==
  ASSUME NEW W, AreWords(W), NEW l, NEW C, IsLine(W, l, C)
  PROVE  ExtractAllCommands(l) = C
<1>1. unwrapShellCommand(l) = l /\ Parts(l) = C /\ Substitutions(l) = {}
  BY LineIsPlain
<1>. QED  BY <1>1 DEF ExtractAllCommands

LeadsTo(T, S, l) == l \in S /\ \A s \in S : s = l \/ TextIs(T, s, {l})

(* A dressed line: itself, what is substituted in it, and the commands.    *)
LEMMA TextsOfText ==
  ASSUME NEW W, AreWords(W), NEW l, NEW C, IsLine(W, l, C), NEW x, NEW S,
         TextIs(Tokens(W), x, S), LeadsTo(Tokens(W), S, l)
  PROVE  ExtractAllCommands(x) = {x} \cup S \cup C
<1>1. Parts(l) = C /\ Substitutions(l) = {}
  BY LineIsPlain
<1>2. unwrapShellCommand(x) = x /\ Parts(x) = {x} /\ Substitutions(x) = S
  BY DEF TextIs
<1>3. l \in S /\ \A s \in S : s = l \/ (Parts(s) = {s} /\ Substitutions(s) = {l})
  BY DEF TextIs, LeadsTo
<1> DEFINE inside == S \cup UNION {Substitutions(s) : s \in S}
<1>4. inside = S
  BY <1>1, <1>3
<1>5. UNION {Parts(s) : s \in {x} \cup S} = {x} \cup (S \ {l}) \cup C
  BY <1>1, <1>2, <1>3
<1>6. ExtractAllCommands(x) = inside \cup UNION {Parts(s) : s \in {x} \cup inside}
  BY <1>2 DEF ExtractAllCommands
<1> HIDE DEF inside
<1>. QED  BY <1>4, <1>5, <1>6

(* A wrapped text: what is in it, and perhaps itself.                      *)
LEMMA TextsOfWrapped ==
  ASSUME NEW x, NEW u, unwrapShellCommand(x) = u, unwrapShellCommand(u) = u
  PROVE  /\ ExtractAllCommands(u) \subseteq ExtractAllCommands(x)
         /\ ExtractAllCommands(x) \subseteq {x} \cup ExtractAllCommands(u)
<1>1. Parts(x) = Parts(u) /\ Substitutions(x) = Substitutions(u)
  <2>1. Parts(x) = Parts(u)
    BY DEF Parts
  <2>. QED  BY <2>1 DEF Substitutions
<1> DEFINE S      == Substitutions(u)
           inside == S \cup UNION {Substitutions(s) : s \in S}
           texts  == inside \cup UNION {Parts(s) : s \in {u} \cup inside}
<1>2. UNION {Parts(s) : s \in {x} \cup inside} = UNION {Parts(s) : s \in {u} \cup inside}
  <2> HIDE DEF inside
  <2>. QED  BY <1>1
<1>3. ExtractAllCommands(u) = texts
  BY DEF ExtractAllCommands
<1>4. ExtractAllCommands(x) = (IF u = x THEN {} ELSE {x}) \cup inside
                                \cup UNION {Parts(s) : s \in {x} \cup inside}
  BY <1>1 DEF ExtractAllCommands
<1>5. ExtractAllCommands(x) = (IF u = x THEN {} ELSE {x}) \cup texts
  <2> HIDE DEF inside
  <2>. QED  BY <1>2, <1>4
<1> HIDE DEF texts
<1>. QED  BY <1>3, <1>5

-----------------------------------------------------------------------------
(* A text that shows nothing but the commands in C, and what the shell     *)
(* wraps them in: it matches no pattern that none of them matches.         *)
Wrapping == {"echo", "sh -c", "env sh -c", "dq", "sq", "bq", "$(", ")", ";", "NL", "&&"}

Covered(C, x) ==
  /\ x # <<>>
  /\ x[1] \in Wrapping \/ \E c \in C : x[1] = c[1]
  /\ \A t \in Range(x) : t \in Wrapping \/ \E c \in C : t \in Range(c)

PatternsAreWords ==
  \A p \in BlockCommands \cup RequireApproval : p.word \notin Syntax \cup {"echo"}

(* A line shows its commands.                                              *)
LEMMA LineIsCovered ==
  ASSUME NEW W, NEW l, NEW C, IsLine(W, l, C)
  PROVE  Covered(C, l)
BY DEF IsLine, LooksLike, Covered, Between, Wrapping

(* A dressed text shows no more.                                           *)
LEMMA DressIsCovered ==
  ASSUME NEW C, NEW y, Covered(C, y), NEW x, x # <<>>, x[1] \in Wrapping,
         Range(x) \subseteq Wrapping \cup Range(y)
  PROVE  Covered(C, x)
BY DEF Covered

(* Each command shows itself.                                              *)
LEMMA CommandIsCovered ==
  ASSUME NEW W, AreWords(W), NEW C \in SUBSET Commands(W), NEW c \in C
  PROVE  c \in Seq(Tokens(W)) /\ Covered(C, c)
BY CommandsAreTyped DEF Covered

(* It matches no pattern that none of them matches.                        *)
LEMMA CoveredMatches ==
  ASSUME NEW W, AreWords(W), NEW C \in SUBSET Commands(W),
         NEW x \in Seq(Tokens(W)), Covered(C, x), NEW p, p.word \notin Wrapping, Matches(p, x)
  PROVE  \E c \in C : Matches(p, c)
<1>1. \A c \in C : c \in Seq(Tokens(W)) /\ c # <<>>
  BY CommandsAreTyped
<1>2. x # <<>> /\ Head(x) = x[1] /\ \A c \in C : Head(c) = c[1]
  BY <1>1, HeadIsFirst DEF Covered
<1>3. CASE p.first
  <2>1. x[1] = p.word
    BY <1>2, <1>3 DEF Matches
  <2>2. PICK c \in C : x[1] = c[1]
    BY <2>1 DEF Covered
  <2>. QED  BY <1>1, <1>2, <1>3, <2>1, <2>2 DEF Matches
<1>4. CASE ~p.first
  <2>1. p.word \in Range(x)
    BY <1>4 DEF Matches
  <2>2. PICK c \in C : p.word \in Range(c)
    BY <2>1 DEF Covered
  <2>. QED  BY <1>4, <2>2 DEF Matches
<1>. QED  BY <1>3, <1>4

(* A text is seen through: the policy is asked about each of the commands, *)
(* and about nothing that shows more than they do.                         *)
Seen(W, C, x) ==
  /\ x \in Seq(Tokens(W)) /\ Covered(C, x)
  /\ C \subseteq ExtractAllCommands(x)
  /\ \A y \in ExtractAllCommands(x) : y \in Seq(Tokens(W)) /\ Covered(C, y)

(* A text that is seen through gets the verdict of its commands.           *)
LEMMA SeenIsJudged ==
  ASSUME NEW W, AreWords(W), PatternsAreWords, NEW C \in SUBSET Commands(W), NEW x, Seen(W, C, x)
  PROVE  CheckCommand(x) = VerdictOnEach(C)
<1>1. /\ x \in Seq(Tokens(W)) /\ Covered(C, x) /\ x # <<>>
      /\ C \subseteq ExtractAllCommands(x)
      /\ \A y \in ExtractAllCommands(x) : y \in Seq(Tokens(W)) /\ Covered(C, y)
  BY DEF Seen, Covered
<1>2. \A c \in C : Range(c) \subseteq W \cup Inside
  BY CommandFits, RangeOfSeq DEF Fits
<1>3. {"base64 -d|sh", ":(){ :|:& };:"} \cap (Wrapping \cup W \cup Inside) = {}
  BY DEF Wrapping, AreWords, Syntax, Inside, Between
<1>4. ~IsBase64Encoded(x) /\ ~IsForkBomb(x)
  <2>1. Range(x) \subseteq Wrapping \cup W \cup Inside
    BY <1>1, <1>2 DEF Covered
  <2>. QED  BY <1>3, <2>1 DEF IsBase64Encoded, IsForkBomb
<1>5. \A p \in BlockCommands \cup RequireApproval : p.word \notin Wrapping
  BY DEF PatternsAreWords, Wrapping, Syntax
<1>6. ASSUME NEW y \in Seq(Tokens(W)), Covered(C, y)
      PROVE  /\ ShouldBlock(y) => \E c \in C : ShouldBlock(c)
             /\ RequiresApproval(y) => \E c \in C : RequiresApproval(c)
  <2>1. ASSUME NEW p \in BlockCommands \cup RequireApproval, Matches(p, y)
        PROVE  \E c \in C : Matches(p, c)
    BY <1>5, <1>6, <2>1, CoveredMatches
  <2>. QED  BY <2>1 DEF ShouldBlock, RequiresApproval
<1> DEFINE texts == ExtractAllCommands(x)
<1>7. /\ (\E p \in texts : ShouldBlock(p)) <=> \E c \in C : ShouldBlock(c)
      /\ (\E p \in texts : RequiresApproval(p)) <=> \E c \in C : RequiresApproval(c)
      /\ ShouldBlock(x) => \E c \in C : ShouldBlock(c)
  BY <1>1, <1>6
<1>8. CASE ShouldBlock(x)
  <2>1. CheckCommand(x) = ActionBlock
    BY <1>1, <1>4, <1>8 DEF CheckCommand
  <2>. QED  BY <1>7, <1>8, <2>1 DEF VerdictOnEach
<1>9. CASE ~ShouldBlock(x)
  <2>1. CheckCommand(x) = IF \E p \in texts : ShouldBlock(p) THEN ActionBlock
                          ELSE IF \E p \in texts : RequiresApproval(p) THEN ActionPending
                          ELSE ActionAllow
    BY <1>1, <1>4, <1>9 DEF CheckCommand
  <2> HIDE DEF texts
  <2>. QED  BY <1>7, <2>1 DEF VerdictOnEach
<1>. QED  BY <1>8, <1>9

(* A line is seen through.                                                 *)
LEMMA LineIsSeen ==
  ASSUME NEW W, AreWords(W), NEW l, NEW C, IsLine(W, l, C)
  PROVE  Seen(W, C, l)
<1>1. l \in Seq(Tokens(W)) /\ Covered(C, l) /\ C \in SUBSET Commands(W)
  BY LineIsPlain, LineIsCovered DEF IsLine
<1>2. ExtractAllCommands(l) = C
  BY TextsOfLine
<1>. QED  BY <1>1, <1>2, CommandIsCovered DEF Seen

(* So is a text with lines substituted in it.                              *)
LEMMA TextIsSeen ==
  ASSUME NEW W, AreWords(W), NEW l, NEW C, IsLine(W, l, C), NEW x, NEW S,
         TextIs(Tokens(W), x, S), l \in S, Covered(C, x),
         \A s \in S : s = l \/ (TextIs(Tokens(W), s, {l}) /\ Covered(C, s))
  PROVE  Seen(W, C, x)
<1>1. l \in Seq(Tokens(W)) /\ Covered(C, l) /\ C \in SUBSET Commands(W)
  BY LineIsPlain, LineIsCovered DEF IsLine
<1>2. ExtractAllCommands(x) = {x} \cup S \cup C
  <2>1. LeadsTo(Tokens(W), S, l)
    BY DEF LeadsTo
  <2>. QED  BY <2>1, TextsOfText
<1>3. x \in Seq(Tokens(W)) /\ \A s \in S : s \in Seq(Tokens(W)) /\ Covered(C, s)
  BY <1>1 DEF TextIs
<1>4. \A c \in C : c \in Seq(Tokens(W)) /\ Covered(C, c)
  BY <1>1, CommandIsCovered
<1>. QED  BY <1>2, <1>3, <1>4 DEF Seen

(* So is the wrapper of what is.                                           *)
LEMMA WrappedIsSeen ==
  ASSUME NEW W, NEW C, NEW u, Seen(W, C, u), NEW x \in Seq(Tokens(W)), Covered(C, x),
         unwrapShellCommand(x) = u, unwrapShellCommand(u) = u
  PROVE  Seen(W, C, x)
<1>1. /\ ExtractAllCommands(u) \subseteq ExtractAllCommands(x)
      /\ ExtractAllCommands(x) \subseteq {x} \cup ExtractAllCommands(u)
  BY TextsOfWrapped
<1>. QED  BY <1>1 DEF Seen

(* A dress between two tokens.                                             *)
LEMMA AroundIsCovered ==
  ASSUME NEW W, AreWords(W), NEW C, NEW y \in Seq(Tokens(W)), Covered(C, y),
         NEW a \in Tokens(W) \cap Wrapping, NEW b \in Tokens(W) \cap Wrapping
  PROVE  Covered(C, Around(a, y, b))
<1>1. AroundFacts(Tokens(W), a, y, b)
  BY TokensAreThere, AroundProperties
<1>2. /\ Around(a, y, b) # <<>> /\ Around(a, y, b)[1] = "echo"
      /\ Range(Around(a, y, b)) = {"echo", a, b} \cup Range(y)
  BY <1>1 DEF AroundFacts
<1>3. "echo" \in Wrapping
  BY DEF Wrapping
<1>. QED  BY <1>2, <1>3, DressIsCovered

(* Backticks, and $(...).                                                  *)
LEMMA DressesAreCovered ==
  ASSUME NEW W, AreWords(W), NEW C, NEW y \in Seq(Tokens(W)), Covered(C, y)
  PROVE  Covered(C, Backtick(y)) /\ Covered(C, Dollar(y))
<1>1. {"bq", "$(", ")"} \subseteq Tokens(W) \cap Wrapping
  BY TokensAreThere DEF Wrapping
<1>2. Backtick(y) = Around("bq", y, "bq") /\ Dollar(y) = Around("$(", y, ")")
  BY DEF Backtick, Dollar, Around
<1>3. Covered(C, Around("bq", y, "bq")) /\ Covered(C, Around("$(", y, ")"))
  BY <1>1, AroundIsCovered
<1>. QED  BY <1>2, <1>3

(* Lines in backticks, in $(...), and in one within the other.             *)
LEMMA SubstitutedIsSeen ==
  ASSUME NEW W, AreWords(W), NEW l, NEW C, IsLine(W, l, C)
  PROVE  /\ Seen(W, C, Backtick(l))
         /\ "&&" \notin Range(l) => /\ Seen(W, C, Dollar(l))
                                    /\ Seen(W, C, Dollar(Backtick(l)))
                                    /\ Seen(W, C, Backtick(Dollar(l)))
<1> DEFINE T == Tokens(W)
           bl == Backtick(l)
           dl == Dollar(l)
           db == Dollar(bl)
           bd == Backtick(dl)
<1>1. l \in Seq(T) /\ Covered(C, l)
  BY LineIsPlain, LineIsCovered
<1>2. TextIs(T, bl, {l}) /\ TextIs(T, db, {bl, l})
  BY BacktickText, DollarBacktickText
<1>3. TextIs(T, bd, {dl, l})
  BY BacktickDollarText
<1>4. "&&" \notin Range(l) => TextIs(T, dl, {l})
  BY DollarText
<1>5. Covered(C, bl) /\ Covered(C, dl)
  BY <1>1, DressesAreCovered
<1>6. bl \in Seq(T)
  BY <1>2 DEF TextIs
<1> HIDE DEF bl, dl
<1>7. Covered(C, db)
  BY <1>5, <1>6, DressesAreCovered
<1>8. "&&" \notin Range(l) => Covered(C, bd)
  <2>1. "&&" \notin Range(l) => dl \in Seq(T)
    BY <1>4 DEF TextIs
  <2>. QED  BY <1>5, <2>1, DressesAreCovered
<1> HIDE DEF db, bd
<1>9. l \in {l} /\ l \in {bl, l} /\ l \in {dl, l}
  OBVIOUS
<1>10. Seen(W, C, bl)
  BY <1>2, <1>5, <1>9, TextIsSeen DEF T
<1>11. Seen(W, C, db)
  BY <1>2, <1>5, <1>7, <1>9, TextIsSeen DEF T
<1>12. ASSUME "&&" \notin Range(l) PROVE Seen(W, C, dl) /\ Seen(W, C, bd)
  <2>1. TextIs(T, dl, {l}) /\ Covered(C, bd)
    BY <1>4, <1>8, <1>12
  <2>2. Seen(W, C, dl)
    BY <1>5, <1>9, <2>1, TextIsSeen DEF T
  <2>3. Seen(W, C, bd)
    BY <1>3, <1>5, <1>9, <2>1, TextIsSeen DEF T
  <2>. QED  BY <2>2, <2>3
<1>. QED  BY <1>10, <1>11, <1>12 DEF bl, dl, db, bd

(* Behind a shell.                                                         *)
LEMMA WrapperIsCovered ==
  ASSUME NEW W, NEW C, NEW u \in Seq(Tokens(W)), Covered(C, u),
         NEW w \in {"sh -c", "env sh -c"}
  PROVE  Pre(w, u) \in Seq(Tokens(W)) /\ Pre(w, u) # <<>> /\ Covered(C, Pre(w, u))
<1>1. w \in Tokens(W) /\ w \in Wrapping
  BY TokensAreThere DEF Wrapping
<1>2. PreFacts(Tokens(W), w, u)
  BY <1>1, Prefixed
<1>3. /\ Pre(w, u) \in Seq(Tokens(W)) /\ Pre(w, u) # <<>> /\ Pre(w, u)[1] = w
      /\ Range(Pre(w, u)) = {w} \cup Range(u)
  BY <1>2 DEF PreFacts
<1>. QED  BY <1>1, <1>3, DressIsCovered

(* In quotes.                                                              *)
LEMMA QuotesAreCovered ==
  ASSUME NEW W, NEW C, NEW u \in Seq(Tokens(W)), Covered(C, u), NEW p \in {"dq", "sq"}
  PROVE  Quoted(p, u) \in Seq(Tokens(W)) /\ Quoted(p, u) # <<>> /\ Covered(C, Quoted(p, u))
<1>1. p \in Tokens(W) /\ p \in Wrapping
  BY TokensAreThere DEF Wrapping
<1>2. QuotedFacts(Tokens(W), p, u)
  BY <1>1, QuotedProperties
<1>3. /\ Quoted(p, u) \in Seq(Tokens(W)) /\ Quoted(p, u) # <<>> /\ Quoted(p, u)[1] = p
      /\ Range(Quoted(p, u)) = {p} \cup Range(u)
  BY <1>2 DEF QuotedFacts
<1>. QED  BY <1>1, <1>3, DressIsCovered

(* A text that is no wrapper itself, behind one, two, or within quotes.    *)
Bare(u) == u # <<>> /\ "NL" \notin Range(u) /\ WrapperBody(u) = u /\ unwrapShellCommand(u) = u

(* A quoted argument of a shell.                                           *)
LEMMA QuotedIsSeen ==
  ASSUME NEW W, NEW C, NEW u, Seen(W, C, u), Bare(u),
         NEW w \in {"sh -c", "env sh -c"}, NEW p \in {"dq", "sq"}
  PROVE  Seen(W, C, Pre(w, Quoted(p, u)))
<1> DEFINE T == Tokens(W)
           d == Quoted(p, u)
           x == Pre(w, d)
<1>1. /\ u \in Seq(T) /\ Covered(C, u) /\ w \in T /\ p \in T
      /\ u # <<>> /\ "NL" \notin Range(u) /\ WrapperBody(u) = u /\ unwrapShellCommand(u) = u
  BY TokensAreThere DEF Seen, Bare
<1>2. WrapperBody(x) = u
  <2> HIDE DEF T
  <2>. QED  BY <1>1, QuotedBody
<1>3. d \in Seq(T) /\ Covered(C, d)
  BY <1>1, QuotesAreCovered
<1> HIDE DEF d
<1>4. x \in Seq(T) /\ Covered(C, x) /\ x # <<>>
  BY <1>3, WrapperIsCovered
<1> HIDE DEF T, x
<1>5. unwrapShellCommand(x) = u
  BY <1>1, <1>2, <1>4, UnwrapsOnce
<1>6. Seen(W, C, x)
  BY <1>1, <1>4, <1>5, WrappedIsSeen DEF T
<1>. QED  BY <1>6 DEF x, d

(* The argument without quotes.                                            *)
LEMMA UnquotedIsSeen ==
  ASSUME NEW W, NEW C, NEW u, Seen(W, C, u), Bare(u), u[1] \notin {"dq", "sq"}
  PROVE  Seen(W, C, Pre("sh -c", u))
<1> DEFINE T == Tokens(W)
           x == Pre("sh -c", u)
<1>1. /\ u \in Seq(T) /\ Covered(C, u) /\ "sh -c" \in T
      /\ u # <<>> /\ "NL" \notin Range(u) /\ WrapperBody(u) = u /\ unwrapShellCommand(u) = u
  BY TokensAreThere DEF Seen, Bare
<1>2. WrapperBody(x) = u
  <2> HIDE DEF T
  <2>. QED  BY <1>1, BareBody
<1>3. x \in Seq(T) /\ Covered(C, x) /\ x # <<>>
  BY <1>1, WrapperIsCovered
<1> HIDE DEF T, x
<1>4. unwrapShellCommand(x) = u
  BY <1>1, <1>2, <1>3, UnwrapsOnce
<1>5. Seen(W, C, x)
  BY <1>1, <1>3, <1>4, WrappedIsSeen DEF T
<1>. QED  BY <1>5 DEF x

(* A shell in a shell.                                                     *)
LEMMA TwiceQuotedIsSeen ==
  ASSUME NEW W, NEW C, NEW u, Seen(W, C, u), Bare(u)
  PROVE  Seen(W, C, Pre("sh -c", Quoted("sq", Pre("sh -c", Quoted("dq", u)))))
<1> DEFINE T == Tokens(W)
           v == Pre("sh -c", Quoted("dq", u))
           d == Quoted("sq", v)
           x == Pre("sh -c", d)
<1>1. /\ u \in Seq(T) /\ Covered(C, u) /\ {"sh -c", "dq", "sq"} \subseteq T
      /\ u # <<>> /\ "NL" \notin Range(u) /\ WrapperBody(u) = u /\ unwrapShellCommand(u) = u
  BY TokensAreThere DEF Seen, Bare
<1>2. WrapperBody(v) = u
  <2> HIDE DEF T
  <2>. QED  BY <1>1, QuotedBody
<1>3. v \in Seq(T) /\ Covered(C, v) /\ v # <<>> /\ "NL" \notin Range(v)
  <2> DEFINE e == Quoted("dq", u)
  <2>1. e \in Seq(T) /\ Covered(C, e)
    BY <1>1, QuotesAreCovered
  <2>2. QuotedFacts(T, "dq", u)
    BY <1>1, QuotedProperties
  <2>3. "NL" \notin Range(e)
    BY <1>1, <2>2 DEF QuotedFacts
  <2>4. v = Pre("sh -c", e)
    OBVIOUS
  <2> HIDE DEF e, v
  <2>5. v \in Seq(T) /\ Covered(C, v)
    BY <2>1, <2>4, WrapperIsCovered
  <2>6. PreFacts(T, "sh -c", e)
    BY <1>1, <2>1, Prefixed
  <2>7. v # <<>> /\ "NL" \notin Range(v)
    BY <2>3, <2>4, <2>6 DEF PreFacts
  <2>. QED  BY <2>5, <2>7
<1> HIDE DEF v
<1>4. d \in Seq(T) /\ Covered(C, d) /\ d # <<>>
  BY <1>3, QuotesAreCovered
<1>5. WrapperBody(x) = v
  <2>1. WrapperBody(Pre("sh -c", Quoted("sq", v))) = v
    <3> HIDE DEF T
    <3>. QED  BY <1>1, <1>3, QuotedBody
  <2>. QED  BY <2>1
<1> HIDE DEF d
<1>6. x \in Seq(T) /\ Covered(C, x)
  BY <1>4, WrapperIsCovered
<1>7. unwrapShellCommand(x) = u
  <2>1. "sh -c" \in T
    BY <1>1
  <2> HIDE DEF T
  <2>. QED  BY <1>1, <1>2, <1>3, <1>4, <1>5, <2>1, UnwrapsTwice
<1> HIDE DEF x
<1>8. Seen(W, C, x)
  BY <1>1, <1>6, <1>7, WrappedIsSeen
<1>. QED  BY <1>8 DEF x, d, v

(* A line without a newline is bare.                                       *)
LEMMA LineIsBare ==
  ASSUME NEW W, AreWords(W), NEW l, NEW C, IsLine(W, l, C), "NL" \notin Range(l)
  PROVE  Bare(l) /\ l[1] \notin {"dq", "sq"}
<1>1. l \in Seq(Tokens(W)) /\ l # <<>> /\ l[1] \notin {"sh -c", "env sh -c", "dq", "sq"}
      /\ unwrapShellCommand(l) = l
  BY LineIsPlain
<1>2. WrapperBody(l) = l
  BY <1>1, PlainIsNoWrapper
<1>. QED  BY <1>1, <1>2 DEF Bare

(* So is one in backticks.                                                 *)
LEMMA BacktickIsBare ==
  ASSUME NEW W, AreWords(W), NEW l, NEW C, IsLine(W, l, C), "NL" \notin Range(l)
  PROVE  Bare(Backtick(l))
<1> DEFINE T == Tokens(W)
           x == Backtick(l)
<1>1. TextIs(T, x, {l}) /\ l \in Seq(T)
  BY BacktickText, LineIsPlain
<1>2. x \in Seq(T) /\ x # <<>> /\ x[1] = "echo" /\ unwrapShellCommand(x) = x
  BY <1>1 DEF TextIs
<1>3. WrapperBody(x) = x
  <2> HIDE DEF x
  <2>. QED  BY <1>2, PlainIsNoWrapper
<1>4. x = Around("bq", l, "bq") /\ "bq" \in T /\ "echo" \in T
  BY TokensAreThere DEF Backtick, Around
<1>5. AroundFacts(T, "bq", l, "bq")
  <2> HIDE DEF T
  <2>. QED  BY <1>1, <1>4, AroundProperties
<1>6. "NL" \notin Range(x)
  BY <1>4, <1>5 DEF AroundFacts
<1>. QED  BY <1>2, <1>3, <1>6 DEF Bare

(* Each dress of a line is seen through.                                   *)
LEMMA DressesAreSeen ==
  ASSUME NEW W, AreWords(W), NEW l, NEW C, IsLine(W, l, C), NEW x \in Dressed(l)
  PROVE  Seen(W, C, x)
<1> DEFINE T == Tokens(W)
           bl == Backtick(l)
<1>1. l \in Seq(T) /\ {"sh -c", "env sh -c", "dq", "sq"} \subseteq T
  BY LineIsPlain, TokensAreThere
<1>2. Seen(W, C, l) /\ Seen(W, C, bl)
  BY LineIsSeen, SubstitutedIsSeen
<1>3. CASE x \in {l, bl}
  BY <1>2, <1>3
<1>4. CASE "&&" \notin Range(l) /\ x \in {Dollar(l), Dollar(Backtick(l)), Backtick(Dollar(l))}
  BY <1>4, SubstitutedIsSeen
<1>5. CASE /\ "NL" \notin Range(l)
           /\ x \in {Wrapped(l, "dq"), Wrapped(Wrapped(l, "dq"), "sq"), <<"sh -c">> \o l,
                     <<"env sh -c", "sq">> \o l \o <<"sq">>, Wrapped(bl, "dq")}
  <2>1. Bare(l) /\ l[1] \notin {"dq", "sq"} /\ Bare(bl)
    BY <1>5, LineIsBare, BacktickIsBare
  <2> DEFINE v == Pre("sh -c", Quoted("dq", l))
  <2>2. Wrapped(l, "dq") = v /\ v \in Seq(T)
    <3>1. (<<"sh -c", "dq">> \o l) \o <<"dq">> = v
      <4> HIDE DEF T
      <4>. QED  BY <1>1, WrappedIsQuoted
    <3>2. "sh -c" \in T /\ "dq" \in T
      BY <1>1
    <3>3. QuotedFacts(T, "dq", l)
      <4> HIDE DEF T
      <4>. QED  BY <1>1, <3>2, QuotedProperties
    <3>4. Quoted("dq", l) \in Seq(T)
      BY <3>3 DEF QuotedFacts
    <3>5. PreFacts(T, "sh -c", Quoted("dq", l))
      <4> HIDE DEF T
      <4>. QED  BY <3>2, <3>4, Prefixed
    <3>. QED  BY <3>1, <3>5 DEF PreFacts, Wrapped
  <2>3. bl \in Seq(T)
    BY <1>2 DEF Seen
  <2>4. Wrapped(Wrapped(l, "dq"), "sq") = Pre("sh -c", Quoted("sq", v))
    <3>1. (<<"sh -c", "sq">> \o v) \o <<"sq">> = Pre("sh -c", Quoted("sq", v))
      <4> HIDE DEF T, v
      <4>. QED  BY <1>1, <2>2, WrappedIsQuoted
    <3>. QED  BY <2>2, <3>1 DEF Wrapped
  <2>5. <<"env sh -c", "sq">> \o l \o <<"sq">> = Pre("env sh -c", Quoted("sq", l))
    <3> HIDE DEF T
    <3>. QED  BY <1>1, WrappedIsQuoted
  <2>6. Wrapped(bl, "dq") = Pre("sh -c", Quoted("dq", bl))
    <3>1. (<<"sh -c", "dq">> \o bl) \o <<"dq">> = Pre("sh -c", Quoted("dq", bl))
      <4> HIDE DEF T, bl
      <4>. QED  BY <1>1, <2>3, WrappedIsQuoted
    <3>. QED  BY <3>1 DEF Wrapped
  <2>7. <<"sh -c">> \o l = Pre("sh -c", l)
    BY DEF Pre
  <2>8. Seen(W, C, v) /\ Seen(W, C, Pre("sh -c", Quoted("sq", v)))
    BY <1>2, <2>1, QuotedIsSeen, TwiceQuotedIsSeen
  <2>9. Seen(W, C, Pre("env sh -c", Quoted("sq", l))) /\ Seen(W, C, Pre("sh -c", l))
    BY <1>2, <2>1, QuotedIsSeen, UnquotedIsSeen
  <2>10. Seen(W, C, Pre("sh -c", Quoted("dq", bl)))
    BY <1>2, <2>1, QuotedIsSeen
  <2>. QED  BY <1>5, <2>2, <2>4, <2>5, <2>6, <2>7, <2>8, <2>9, <2>10
<1>6. \/ x \in {l, bl}
      \/ "&&" \notin Range(l) /\ x \in {Dollar(l), Dollar(Backtick(l)), Backtick(Dollar(l))}
      \/ /\ "NL" \notin Range(l)
         /\ x \in {Wrapped(l, "dq"), Wrapped(Wrapped(l, "dq"), "sq"), <<"sh -c">> \o l,
                   <<"env sh -c", "sq">> \o l \o <<"sq">>, Wrapped(bl, "dq")}
  BY Zenon DEF Dressed
<1>. QED  BY <1>3, <1>4, <1>5, <1>6

(* The policy judges a command line as it judges the simple commands the   *)
(* shell would run.                                                        *)
THEOREM EveryCommandIsSeen ==
  ASSUME NEW W, AreWords(W), PatternsAreWords, Scripts \subseteq Seq(Commands(W)) \ {<<>>}
  PROVE  SeesEveryCommand
<1> SUFFICES ASSUME NEW cs \in Scripts, NEW sep \in Between, NEW l \in Dressed(Line(cs, sep))
             PROVE  CheckCommand(l) = VerdictOnEach(Range(cs))
  BY DEF SeesEveryCommand
<1>1. cs \in Seq(Commands(W)) \ {<<>>}
  OBVIOUS
<1>2. IsLine(W, Line(cs, sep), Range(cs))
  BY <1>1, LinesAreLines
<1>3. Seen(W, Range(cs), l)
  BY <1>2, DressesAreSeen
<1>4. Range(cs) \in SUBSET Commands(W)
  BY <1>2 DEF IsLine
<1>. QED  BY <1>3, <1>4, SeenIsJudged

=================================================================================
