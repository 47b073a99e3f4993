----------------------------- MODULE ReplProof -----------------------------
(****************************************************************************)
(* Proofs about Repl, for scripts of any length, any number of signals,     *)
(* numbers of any length and words of any width.                            *)
(****************************************************************************)
EXTENDS Repl, SequenceTheorems, WellFoundedInduction, TLAPS

(* Induction and definition by primitive recursion, stated of a set and of  *)
(* a function in the place of an operator: a set that is not all of 0 .. n  *)
(* misses a least number (WFMin).                                           *)

LEMMA LessRelated ==
    ASSUME NEW j \in Nat, NEW k \in Nat, j < k
    PROVE  << j, k >> \in OpToRel(<, Nat)
<1> DEFINE p == << j, k >>
<1>1. p[1] = j /\ p[2] = k /\ p \in Nat \X Nat
  OBVIOUS
<1>2. p[1] < p[2]
  BY <1>1
<1> HIDE DEF p
<1>3. p \in OpToRel(<, Nat)
  BY <1>1, <1>2, Zenon DEF OpToRel
<1> QED BY <1>3 DEF p

\* What holds of 0 and of k, if of k - 1, holds up to n.
LEMMA Upto ==
    ASSUME NEW n \in Nat, NEW T,
           0 \in T, \A k \in 1 .. n : k - 1 \in T => k \in T
    PROVE  0 .. n \subseteq T
<1> DEFINE Missing == { k \in 0 .. n : k \notin T }
<1> SUFFICES ASSUME Missing # {} PROVE FALSE
  OBVIOUS
<1>1. Missing \subseteq Nat
  OBVIOUS
<1>2. PICK k \in Missing : \A j \in Missing : ~(<< j, k >> \in OpToRel(<, Nat))
  <2>1. IsWellFoundedOn(OpToRel(<, Nat), Nat)
    BY NatLessThanWellFounded
  <2> HIDE DEF Missing
  <2> QED BY <1>1, <2>1, WFMin
<1>3. k \in 1 .. n /\ k - 1 \in 0 .. n
  OBVIOUS
<1>4. k - 1 \notin Missing
  <2>1. k \in Nat /\ k - 1 \in Nat /\ k - 1 < k
    BY <1>3
  <2>2. << k - 1, k >> \in OpToRel(<, Nat)
    BY <2>1, LessRelated
  <2> QED BY <1>2, <2>2
<1> QED BY <1>3, <1>4

\* g is b at first, and F of what it was before at each k.
Follows(g, b, n, F) ==
    /\ g[0] = b
    /\ \A k \in 1 .. n : g[k] = F[<< g[k - 1], k >>]

\* There is such a function.
LEMMA Recursion ==
    ASSUME NEW A, NEW b \in A, NEW n \in Nat, NEW F \in [A \X (1 .. n) -> A]
    PROVE  \E g \in [0 .. n -> A] : Follows(g, b, n, F)
<1> DEFINE T == { m \in 0 .. n : \E g \in [0 .. m -> A] : Follows(g, b, m, F) }
<1>1. 0 \in T
  <2>1. [k \in 0 .. 0 |-> b] \in [0 .. 0 -> A] /\ Follows([k \in 0 .. 0 |-> b], b, 0, F)
    BY DEF Follows
  <2> QED BY <2>1
<1>2. ASSUME NEW m \in 1 .. n, m - 1 \in T PROVE m \in T
  <2>1. PICK g \in [0 .. m - 1 -> A] : Follows(g, b, m - 1, F)
    BY <1>2
  <2> DEFINE h == [k \in 0 .. m |-> IF k < m THEN g[k] ELSE F[<< g[m - 1], m >>]]
  <2>2. h \in [0 .. m -> A]
    <3>1. g[m - 1] \in A
      OBVIOUS
    <3>2. F[<< g[m - 1], m >>] \in A
      BY <3>1
    <3> QED BY <3>2
  <2>3. h[0] = b
    BY <2>1 DEF Follows
  <2>4. ASSUME NEW k \in 1 .. m PROVE h[k] = F[<< h[k - 1], k >>]
    <3>1. CASE k = m
      BY <3>1
    <3>2. CASE k < m
      BY <2>1, <3>2 DEF Follows
    <3> QED BY <3>1, <3>2
  <2>5. Follows(h, b, m, F)
    BY <2>3, <2>4 DEF Follows
  <2> HIDE DEF h
  <2> QED BY <2>2, <2>5
<1>3. 0 .. n \subseteq T
  <2> HIDE DEF T
  <2> QED BY <1>1, <1>2, Upto
<1> QED BY <1>3

(* ft_atoll().                                                              *)

\* Raw and Values are what their definitions say: the CHOOSE has a choice.
LEMMA RawDef ==
    ASSUME NEW digits \in Seq(0 .. 9)
    PROVE  /\ Raw(digits)[0] = 0
           /\ \A k \in 1 .. Len(digits) :
                Raw(digits)[k] = IF Raw(digits)[k - 1] > LLONG_MAX THEN Raw(digits)[k - 1]
                                 ELSE (Raw(digits)[k - 1] * 10 + digits[k]) % Wide
<1> DEFINE n == Len(digits)
           Add(raw, k) == IF raw > LLONG_MAX THEN raw
                          ELSE (raw * 10 + digits[k]) % Wide
           F == [x \in Nat \X (1 .. n) |-> Add(x[1], x[2])]
           Def(f) == [k \in 0 .. n |-> IF k = 0 THEN 0 ELSE Add(f[k - 1], k)]
<1>1. F \in [Nat \X (1 .. n) -> Nat]
  <2>1. ASSUME NEW r \in Nat, NEW k \in 1 .. n PROVE Add(r, k) \in Nat
    <3>1. digits[k] \in Nat
      BY ElementOfSeq
    <3>2. (r * 10 + digits[k]) % Wide \in Nat
      BY <3>1, ReplAssumption
    <3> QED BY <3>2
  <2> QED BY <2>1
<1>2. PICK g \in [0 .. n -> Nat] : Follows(g, 0, n, F)
  <2>1. n \in Nat
    OBVIOUS
  <2> HIDE DEF F, n
  <2> QED BY <1>1, <2>1, Recursion
<1>3. g = Def(g)
  <2>1. ASSUME NEW k \in 1 .. n PROVE g[k] = Add(g[k - 1], k)
    <3>1. g[k - 1] \in Nat
      OBVIOUS
    <3>2. F[<< g[k - 1], k >>] = Add(g[k - 1], k)
      BY <3>1
    <3> QED BY <1>2, <3>2 DEF Follows
  <2>2. g[0] = 0
    BY <1>2 DEF Follows
  <2> HIDE DEF Add, F
  <2> QED BY <2>1, <2>2
<1>4. Raw(digits) = CHOOSE f : f = Def(f)
  BY DEF Raw
<1>5. Raw(digits) = Def(Raw(digits))
  <2> HIDE DEF Def
  <2> QED BY <1>3, <1>4
<1> QED BY <1>5

LEMMA ValuesDef ==
    ASSUME NEW digits \in Seq(0 .. 9)
    PROVE  /\ Values(digits)[0] = 0
           /\ \A k \in 1 .. Len(digits) :
                Values(digits)[k] = Values(digits)[k - 1] * 10 + digits[k]
<1> DEFINE n == Len(digits)
           F == [x \in Nat \X (1 .. n) |-> x[1] * 10 + digits[x[2]]]
           Def(f) == [k \in 0 .. n |-> IF k = 0 THEN 0 ELSE f[k - 1] * 10 + digits[k]]
<1>1. F \in [Nat \X (1 .. n) -> Nat]
  <2>1. ASSUME NEW r \in Nat, NEW k \in 1 .. n PROVE r * 10 + digits[k] \in Nat
    <3>1. digits[k] \in Nat
      BY ElementOfSeq
    <3> QED BY <3>1
  <2> QED BY <2>1
<1>2. PICK g \in [0 .. n -> Nat] : Follows(g, 0, n, F)
  <2>1. n \in Nat
    OBVIOUS
  <2> HIDE DEF F, n
  <2> QED BY <1>1, <2>1, Recursion
<1>3. g = Def(g)
  <2>1. ASSUME NEW k \in 1 .. n PROVE g[k] = g[k - 1] * 10 + digits[k]
    <3>1. g[k - 1] \in Nat
      OBVIOUS
    <3>2. F[<< g[k - 1], k >>] = g[k - 1] * 10 + digits[k]
      BY <3>1
    <3> QED BY <1>2, <3>2 DEF Follows
  <2>2. g[0] = 0
    BY <1>2 DEF Follows
  <2> HIDE DEF F
  <2> QED BY <2>1, <2>2
<1>4. Values(digits) = CHOOSE f : f = Def(f)
  BY DEF Values
<1>5. Values(digits) = Def(Values(digits))
  <2> HIDE DEF Def
  <2> QED BY <1>3, <1>4
<1> QED BY <1>5

\* Both are natural numbers after every digit.
LEMMA NaturalValues ==
    ASSUME NEW digits \in Seq(0 .. 9)
    PROVE  \A k \in 0 .. Len(digits) : Raw(digits)[k] \in Nat /\ Values(digits)[k] \in Nat
<1> DEFINE n == Len(digits)
           T == { k \in 0 .. n : Raw(digits)[k] \in Nat /\ Values(digits)[k] \in Nat }
<1>1. 0 \in T
  BY RawDef, ValuesDef
<1>2. ASSUME NEW k \in 1 .. n, k - 1 \in T PROVE k \in T
  <2>1. digits[k] \in Nat
    BY ElementOfSeq
  <2>2. Values(digits)[k] \in Nat
    BY <1>2, <2>1, ValuesDef
  <2>3. (Raw(digits)[k - 1] * 10 + digits[k]) % Wide \in Nat
    BY <1>2, <2>1, ReplAssumption
  <2>4. Raw(digits)[k] \in Nat
    BY <1>2, <2>3, RawDef
  <2> QED BY <2>2, <2>4
<1>3. 0 .. n \subseteq T
  <2>1. n \in Nat
    OBVIOUS
  <2> HIDE DEF T, n
  <2> QED BY <1>1, <1>2, <2>1, Upto
<1> QED BY <1>3

LEMMA Halves == /\ LLONG_MAX \in Nat /\ LLONG_MAX < Wide
                /\ \E w \in Nat : Wide = 256 * w
<1>1. Wide \in Nat /\ Wide > 0 /\ Wide % 512 = 0
  BY ReplAssumption
<1>2. Wide = 512 * (Wide \div 512)
  BY <1>1
<1>3. Wide = 256 * (2 * (Wide \div 512)) /\ 2 * (Wide \div 512) \in Nat
  BY <1>1, <1>2
<1>4. LLONG_MAX = 256 * (Wide \div 512) - 1
  BY <1>1, <1>2 DEF LLONG_MAX
<1>5. LLONG_MAX \in Nat /\ LLONG_MAX < Wide
  BY <1>1, <1>2, <1>4
<1>6. \E w \in Nat : Wide = 256 * w
  BY <1>3
<1> QED BY <1>5, <1>6

LEMMA FitsWord ==
    ASSUME NEW x \in Nat, x < Wide
    PROVE  x % Wide = x
<1>1. Wide \in Nat /\ Wide > 0
  BY ReplAssumption
<1> DEFINE q == x \div Wide
           r == x % Wide
<1>2. q \in Nat /\ r \in Nat /\ x = Wide * q + r
  BY <1>1
<1>3. q >= 1 => Wide * q >= Wide
  <2> HIDE DEF q, r
  <2> QED BY <1>1, <1>2
<1>4. q = 0
  <2> HIDE DEF q, r
  <2> QED BY <1>1, <1>2, <1>3
<1> QED BY <1>1, <1>2, <1>4

LEMMA LowByte ==
    ASSUME NEW x \in Nat
    PROVE  (x % Wide) % 256 = x % 256
<1>1. PICK w \in Nat : Wide = 256 * w
  BY Halves
<1>2. Wide \in Nat /\ Wide > 0
  BY ReplAssumption
<1> DEFINE q == x \div Wide
           r == x % Wide
<1>3. q \in Nat /\ r \in Nat /\ x = Wide * q + r
  BY <1>2
<1>4. x = 256 * (w * q) + r /\ w * q \in Nat
  <2> HIDE DEF q, r
  <2> QED BY <1>1, <1>3
<1>5. ASSUME NEW p \in Nat, x = 256 * p + r PROVE x % 256 = r % 256
  <2> HIDE DEF r
  <2> QED BY <1>3, <1>5
<1> QED BY <1>4, <1>5

LEMMA LowByteOfNext ==
    ASSUME NEW a \in Nat, NEW b \in Nat, NEW d \in Nat, a % 256 = b % 256
    PROVE  (a * 10 + d) % 256 = (b * 10 + d) % 256
<1>1. ASSUME NEW x \in Nat PROVE x = 256 * (x \div 256) + (x % 256)
  OBVIOUS
<1>2. a * 10 + d = (b * 10 + d) + 256 * (10 * (a \div 256) - 10 * (b \div 256))
  BY <1>1
<1>3. ASSUME NEW x \in Int, NEW y \in Int, NEW p \in Int, x = y + 256 * p
      PROVE  x % 256 = y % 256
  BY <1>3
<1>4. /\ a * 10 + d \in Int /\ b * 10 + d \in Int
      /\ 10 * (a \div 256) - 10 * (b \div 256) \in Int
  OBVIOUS
<1> QED BY <1>2, <1>3, <1>4

\* Below 2 ^ 64 the code has the number, or stopped because it is too large.
LEMMA RawOfSmall ==
    ASSUME NEW digits \in Seq(0 .. 9)
    PROVE  \A k \in 0 .. Len(digits) :
             Values(digits)[k] < Wide =>
                 \/ Raw(digits)[k] = Values(digits)[k]
                 \/ Raw(digits)[k] > LLONG_MAX /\ Values(digits)[k] > LLONG_MAX
<1> DEFINE n == Len(digits)
           R(k) == Raw(digits)[k]
           V(k) == Values(digits)[k]
           T == { k \in 0 .. n : V(k) < Wide => R(k) = V(k) \/ (R(k) > LLONG_MAX /\ V(k) > LLONG_MAX) }
<1>1. 0 \in T
  BY RawDef, ValuesDef
<1>2. ASSUME NEW k \in 1 .. n, k - 1 \in T, V(k) < Wide
      PROVE  R(k) = V(k) \/ (R(k) > LLONG_MAX /\ V(k) > LLONG_MAX)
  <2>1. /\ digits[k] \in Nat /\ R(k - 1) \in Nat /\ V(k - 1) \in Nat
        /\ LLONG_MAX \in Nat /\ V(k) \in Nat /\ Wide \in Nat
    BY ElementOfSeq, NaturalValues, Halves, ReplAssumption
  <2>2. V(k) = V(k - 1) * 10 + digits[k]
    BY ValuesDef
  <2>3. R(k) = IF R(k - 1) > LLONG_MAX THEN R(k - 1)
               ELSE (R(k - 1) * 10 + digits[k]) % Wide
    BY RawDef
  <2>4. V(k - 1) <= V(k) /\ V(k - 1) < Wide
    <3> HIDE DEF V
    <3> QED BY <1>2, <2>1, <2>2
  <2>5. R(k - 1) = V(k - 1) \/ (R(k - 1) > LLONG_MAX /\ V(k - 1) > LLONG_MAX)
    BY <1>2, <2>4
  <2>6. CASE R(k - 1) > LLONG_MAX
    <3> HIDE DEF V, R
    <3> QED BY <2>1, <2>3, <2>4, <2>5, <2>6
  <2>7. CASE ~(R(k - 1) > LLONG_MAX)
    <3> HIDE DEF V, R
    <3>1. R(k) = V(k) % Wide
      BY <2>2, <2>3, <2>5, <2>7
    <3>2. V(k) % Wide = V(k)
      BY <1>2, <2>1, FitsWord
    <3> QED BY <3>1, <3>2
  <2> QED BY <2>6, <2>7
<1>3. 0 .. n \subseteq T
  <2>1. n \in Nat /\ \A k \in 1 .. n : k - 1 \in T => k \in T
    BY <1>2
  <2> HIDE DEF T, n
  <2> QED BY <1>1, <2>1, Upto
<1> QED BY <1>3

\* Whatever wraps around, the low byte is the number's, or the code stopped.
LEMMA LowByteOfRaw ==
    ASSUME NEW digits \in Seq(0 .. 9)
    PROVE  \A k \in 0 .. Len(digits) :
             Raw(digits)[k] > LLONG_MAX \/ Raw(digits)[k] % 256 = Values(digits)[k] % 256
<1> DEFINE n == Len(digits)
           R(k) == Raw(digits)[k]
           V(k) == Values(digits)[k]
           T == { k \in 0 .. n : R(k) > LLONG_MAX \/ R(k) % 256 = V(k) % 256 }
<1>1. 0 \in T
  BY RawDef, ValuesDef
<1>2. ASSUME NEW k \in 1 .. n, k - 1 \in T
      PROVE  R(k) > LLONG_MAX \/ R(k) % 256 = V(k) % 256
  <2>1. digits[k] \in Nat /\ R(k - 1) \in Nat /\ V(k - 1) \in Nat
    BY ElementOfSeq, NaturalValues
  <2>2. V(k) = V(k - 1) * 10 + digits[k]
    BY ValuesDef
  <2>3. R(k) = IF R(k - 1) > LLONG_MAX THEN R(k - 1)
               ELSE (R(k - 1) * 10 + digits[k]) % Wide
    BY RawDef
  <2>4. CASE R(k - 1) > LLONG_MAX
    BY <2>3, <2>4
  <2>5. CASE ~(R(k - 1) > LLONG_MAX)
    <3>1. R(k - 1) % 256 = V(k - 1) % 256
      BY <1>2, <2>5
    <3> HIDE DEF V, R
    <3> DEFINE d == digits[k]
               a == R(k - 1)
               b == V(k - 1)
    <3>2. R(k - 1) * 10 + digits[k] \in Nat
      BY <2>1
    <3>3. R(k) % 256 = (R(k - 1) * 10 + digits[k]) % 256
      BY <2>3, <2>5, <3>2, LowByte
    <3>4. (R(k - 1) * 10 + digits[k]) % 256 = V(k) % 256
      <4>1. a \in Nat /\ b \in Nat /\ d \in Nat /\ a % 256 = b % 256
        BY <2>1, <3>1
      <4>2. (a * 10 + d) % 256 = (b * 10 + d) % 256
        <5> HIDE DEF a, b, d
        <5> QED BY <4>1, LowByteOfNext
      <4> QED BY <2>2, <4>2
    <3> QED BY <3>3, <3>4
  <2> QED BY <2>4, <2>5
<1>3. 0 .. n \subseteq T
  <2>1. n \in Nat /\ \A k \in 1 .. n : k - 1 \in T => k \in T
    BY <1>2
  <2> HIDE DEF T, n
  <2> QED BY <1>1, <2>1, Upto
<1> QED BY <1>3

-----------------------------------------------------------------------------
(* exit                                                                     *)

LEMMA ArgumentType ==
    ASSUME TypeOK, line.kind = "exit"
    PROVE  /\ line.args \in Seq(Arguments)
           /\ line.args # << >> => /\ line.args[1] \in Arguments
                                  /\ line.args[1].digits \in Seq(0 .. 9)
<1>1. line \in Lines
  BY DEF TypeOK, Eof, Line
<1>2. line.args \in Seq(Arguments)
  BY <1>1 DEF Lines
<1>3. ASSUME line.args # << >> PROVE line.args[1] \in Arguments
  <2>1. 1 \in 1 .. Len(line.args)
    BY <1>2, <1>3, EmptySeq
  <2> QED BY <1>2, <2>1, ElementOfSeq
<1> QED BY <1>2, <1>3 DEF Arguments

\* What exit makes of the raw value of its argument.
LEMMA ExitCode ==
    ASSUME NEW arg \in Arguments
    PROVE  LET c == IF Atoll(arg) < 0 THEN EXIT_BUILTIN_MISUSE ELSE Atoll(arg) % 256
               n == Number(arg)
               refused == n > LLONG_MAX \/ (arg.sign = "-" /\ n > 0)
           IN  /\ c \in 0 .. 255
               /\ n < Wide => c = IF refused THEN EXIT_BUILTIN_MISUSE ELSE n % 256
               /\ n >= Wide => c \in { EXIT_BUILTIN_MISUSE, n % 256 }
<1> DEFINE digits == arg.digits
           r == Raw(digits)[Len(digits)]
           n == Values(digits)[Len(digits)]
           c == IF Atoll(arg) < 0 THEN EXIT_BUILTIN_MISUSE ELSE Atoll(arg) % 256
<1>1. digits \in Seq(0 .. 9)
  BY DEF Arguments
<1>2. Len(digits) \in 0 .. Len(digits)
  BY <1>1
<1>3. /\ r \in Nat /\ n \in Nat
      /\ n < Wide => r = n \/ (r > LLONG_MAX /\ n > LLONG_MAX)
      /\ r > LLONG_MAX \/ r % 256 = n % 256
  BY <1>1, <1>2, NaturalValues, RawOfSmall, LowByteOfRaw
<1>4. LLONG_MAX \in Nat
  BY Halves
<1>5. Atoll(arg) = IF r > LLONG_MAX THEN -1 ELSE IF arg.sign = "-" THEN -r ELSE r
  BY DEF Atoll
<1>6. c = IF r > LLONG_MAX \/ (arg.sign = "-" /\ r > 0) THEN EXIT_BUILTIN_MISUSE
          ELSE r % 256
  <2> HIDE DEF r
  <2>1. CASE r > LLONG_MAX
    BY <1>5, <2>1
  <2>2. CASE ~(r > LLONG_MAX) /\ arg.sign = "-"
    <3>1. r = 0 => Atoll(arg) = 0
      <4>1. Atoll(arg) = -r
        BY <1>5, <2>2
      <4>2. \A x \in Int : -x = 0 - x
        OBVIOUS
      <4>3. Atoll(arg) = 0 - r
        BY <1>3, <4>1, <4>2
      <4> QED BY <4>3
    <3>2. r > 0 => Atoll(arg) < 0
      BY <1>3, <1>5, <2>2
    <3> QED BY <1>3, <2>2, <3>1, <3>2
  <2>3. CASE ~(r > LLONG_MAX) /\ arg.sign # "-"
    <3>1. Atoll(arg) = r
      BY <1>5, <2>3
    <3> QED BY <1>3, <2>3, <3>1
  <2> QED BY <2>1, <2>2, <2>3
<1>7. c \in 0 .. 255
  <2> HIDE DEF r, c
  <2> QED BY <1>3, <1>6 DEF EXIT_BUILTIN_MISUSE
<1>8. Number(arg) = n
  BY DEF Number
<1> HIDE DEF r, n, c
<1>9. n < Wide => c = IF n > LLONG_MAX \/ (arg.sign = "-" /\ n > 0)
                      THEN EXIT_BUILTIN_MISUSE ELSE n % 256
  BY <1>3, <1>4, <1>6
<1>10. n >= Wide => c \in { EXIT_BUILTIN_MISUSE, n % 256 }
  BY <1>3, <1>6
<1> QED BY <1>7, <1>8, <1>9, <1>10 DEF c

-----------------------------------------------------------------------------
(* The loop and the signals.                                                *)

\* A signal is being handled only where it is looked at, and is still noted.
HandlingPlaces == handling # "none" => pc \in { "top", "got" } /\ received # "none"

\* What the next line sees, as long as the shell lives: after Ctrl-C its code,
\* once that is no longer noted; without one the last line's.
CodeKept ==
    pc # "ended" =>
        /\ "int" \in { received, handling } => hit
        /\ hit /\ received = "none" => code = EXIT_SIGINT
        /\ ~hit => code = last

\* A SIGTERM that is not lost is still noted when the shell looks for it.
NotedKept ==
    /\ noted # "no" => pc = "ended" \/ received = "term"
    /\ noted = "yes" => pc # "use"
    /\ noted = "late" => pc \in { "use", "ended" }

\* The shell that is to exit does nothing more.
ExitingPlaces == exiting => pc = "ended" \/ (pc = "top" /\ handling = "none")

ReplInv == TypeOK /\ HandlingPlaces /\ CodeKept /\ NotedKept /\ ExitingPlaces

LEMMA InitInv == Init => ReplInv
<1> SUFFICES ASSUME Init PROVE ReplInv
  OBVIOUS
<1>1. input \in Seq(Lines) /\ MaxSignals \in Nat
  BY ReplAssumption DEF Init
<1>2. signals \in 0 .. MaxSignals /\ code \in 0 .. 255 /\ last \in 0 .. 255
  BY <1>1 DEF Init
<1>3. TypeOK
  BY <1>1, <1>2 DEF Init, TypeOK
<1> QED BY <1>3 DEF Init, ReplInv, HandlingPlaces, CodeKept, NotedKept, ExitingPlaces

LEMMA LookInv == ReplInv /\ (Look \/ NoSignal \/ Stop \/ Fork) => ReplInv'
<1> SUFFICES ASSUME ReplInv, Look \/ NoSignal \/ Stop \/ Fork PROVE ReplInv'
  OBVIOUS
<1> USE DEF ReplInv, TypeOK, HandlingPlaces, CodeKept, NotedKept, ExitingPlaces, Ghost
<1>1. CASE Look
  BY <1>1 DEF Look, Looking
<1>2. CASE NoSignal
  BY <1>2 DEF NoSignal, Looking, After
<1>3. CASE Stop
  BY <1>3 DEF Stop
<1>4. CASE Fork
  BY <1>4 DEF Fork
<1> QED BY <1>1, <1>2, <1>3, <1>4

LEMMA HandleInv == ReplInv /\ Handle => ReplInv'
BY DEF ReplInv, TypeOK, HandlingPlaces, CodeKept, NotedKept, ExitingPlaces, Ghost,
       Handle, After, EXIT_SIGINT, OK

LEMMA ReadLineInv == ReplInv /\ ReadLine => ReplInv'
<1> SUFFICES ASSUME ReplInv, ReadLine PROVE ReplInv'
  OBVIOUS
<1>1. input' \in Seq(Lines) /\ line' \in Lines \cup { Eof }
  <2>1. CASE input = << >>
    BY <2>1 DEF ReplInv, TypeOK, ReadLine
  <2>2. CASE input # << >>
    <3>1. Head(input) \in Lines /\ Tail(input) \in Seq(Lines)
      BY <2>2, HeadTailProperties DEF ReplInv, TypeOK
    <3> QED BY <2>2, <3>1 DEF ReadLine
  <2> QED BY <2>1, <2>2
<1>2. TypeOK'
  BY <1>1 DEF ReplInv, TypeOK, ReadLine, Ghost
<1> QED BY <1>2 DEF ReplInv, HandlingPlaces, CodeKept, NotedKept, ExitingPlaces, Ghost, ReadLine

LEMMA UseInv == ReplInv /\ Use => ReplInv'
BY DEF ReplInv, TypeOK, HandlingPlaces, CodeKept, NotedKept, ExitingPlaces, Ghost, Use,
       NotLateAnyMore

\* The end of a line, whatever its code.
LEMMA LeftInv ==
    ASSUME ReplInv, pc \in { "eval", "wait" }, NEW c \in 0 .. 255, Left(c, received),
           pc' = "top", exiting' \in BOOLEAN, received' = received,
           UNCHANGED << input, line, handling, childCode, signals, noted >>
    PROVE  ReplInv'
BY DEF ReplInv, TypeOK, HandlingPlaces, CodeKept, NotedKept, ExitingPlaces, Left

LEMMA BuiltinInv == ReplInv /\ Builtin => ReplInv'
<1> SUFFICES ASSUME ReplInv, Builtin PROVE ReplInv'
  OBVIOUS
<1>1. PICK c \in Codes \cup { code } : Left(c, received)
  BY DEF Builtin
<1>2. c \in 0 .. 255
  BY ReplAssumption DEF ReplInv, TypeOK
<1>3. exiting' \in BOOLEAN
  BY DEF Builtin, ReplInv, TypeOK
<1> QED BY <1>1, <1>2, <1>3, LeftInv DEF Builtin

LEMMA WaitInv == ReplInv /\ Wait => ReplInv'
<1> SUFFICES ASSUME ReplInv, Wait PROVE ReplInv'
  OBVIOUS
<1>1. \E c \in 0 .. 255 : Left(c, received)
  <2>1. CASE childCode = -1
    BY <2>1, ReplAssumption DEF Wait
  <2>2. CASE childCode # -1
    BY <2>2 DEF Wait, ReplInv, TypeOK, EXIT_SIGINT
  <2> QED BY <2>1, <2>2
<1>2. exiting' \in BOOLEAN
  BY DEF Wait, ReplInv, TypeOK
<1> QED BY <1>1, <1>2, LeftInv DEF Wait

LEMMA ExitInv == ReplInv /\ Exit => ReplInv'
<1> SUFFICES ASSUME ReplInv, Exit PROVE ReplInv'
  OBVIOUS
<1> DEFINE args == line.args
           c1 == IF Atoll(args[1]) < 0 THEN EXIT_BUILTIN_MISUSE ELSE Atoll(args[1]) % 256
<1>1. line.kind = "exit" /\ pc = "eval" /\ pc' = "top" /\ received' = received
  BY DEF Exit
<1>2. TypeOK /\ code \in 0 .. 255 /\ exiting \in BOOLEAN
  BY DEF ReplInv, TypeOK
<1>3. args \in Seq(Arguments) /\ (args # << >> => args[1] \in Arguments)
  BY <1>1, <1>2, ArgumentType
<1>4. (\E c \in 0 .. 255 : Left(c, received)) /\ exiting' \in BOOLEAN
  <2>1. CASE args = << >> /\ Left(code, received) /\ exiting' = TRUE
    BY <1>2, <2>1
  <2>2. CASE Left(EXIT_BUILTIN_MISUSE, received) /\ exiting' = TRUE
    BY <2>2 DEF EXIT_BUILTIN_MISUSE
  <2>3. CASE Left(EXIT_GENERAL_ERROR, received) /\ UNCHANGED exiting
    BY <1>2, <2>3 DEF EXIT_GENERAL_ERROR
  <2>4. CASE Len(args) = 1 /\ Left(c1, received) /\ exiting' = TRUE
    <3>1. args[1] \in Arguments
      BY <1>3, <2>4
    <3>2. c1 \in 0 .. 255
      BY <3>1, ExitCode
    <3> HIDE DEF c1
    <3> QED BY <2>4, <3>2
  <2> QED BY <2>1, <2>2, <2>3, <2>4 DEF Exit
<1> QED BY <1>1, <1>4, LeftInv DEF Exit

LEMMA AbortInv == ReplInv /\ Abort => ReplInv'
<1> SUFFICES ASSUME ReplInv, Abort PROVE ReplInv'
  OBVIOUS
<1>1. PICK c \in 0 .. 255 : Left(c, "none")
  BY DEF Abort, EXIT_PARSE_ERROR, EXIT_REDIRECT_ERROR, EXIT_HEREDOC_ERROR, EXIT_SIGINT
<1>2. TypeOK'
  BY <1>1 DEF ReplInv, TypeOK, Abort, Left
<1> QED BY <1>1, <1>2 DEF ReplInv, HandlingPlaces, CodeKept, NotedKept, ExitingPlaces, Abort, Left

LEMMA SignalInv == ReplInv /\ (Interrupt \/ Terminate) => ReplInv'
<1> SUFFICES ASSUME ReplInv, Interrupt \/ Terminate PROVE ReplInv'
  OBVIOUS
<1>1. MaxSignals \in Nat
  BY ReplAssumption
<1> USE DEF ReplInv, TypeOK, HandlingPlaces, CodeKept, NotedKept, ExitingPlaces, Ghost
<1>2. CASE Interrupt
  <2>1. signals' \in 0 .. MaxSignals /\ childCode' \in { -1, EXIT_SIGINT }
    BY <1>1, <1>2 DEF Interrupt
  <2>2. TypeOK'
    BY <1>2, <2>1 DEF Interrupt
  <2>3. (HandlingPlaces /\ CodeKept /\ NotedKept /\ ExitingPlaces)'
    BY <1>2 DEF Interrupt
  <2> QED BY <2>2, <2>3
<1>3. CASE Terminate
  BY <1>1, <1>3 DEF Terminate
<1> QED BY <1>2, <1>3

LEMMA NextInv == ReplInv /\ [Next]_vars => ReplInv'
<1>1. ReplInv /\ UNCHANGED vars => ReplInv'
  BY DEF ReplInv, TypeOK, HandlingPlaces, CodeKept, NotedKept, ExitingPlaces, vars
<1> QED BY <1>1, LookInv, HandleInv, ReadLineInv, UseInv, BuiltinInv, WaitInv, ExitInv,
           AbortInv, SignalInv DEF Next, Step

LEMMA Invariant == Spec => []ReplInv
BY InitInv, NextInv, PTL DEF Spec

(* Every variable keeps its type, the codes those of a byte: whatever is    *)
(* typed and whatever signals come in between, and whatever number exit is  *)
(* given (run_shell(), builtin_exit(), ft_atoll()).                         *)
THEOREM TypeCorrect == Spec => []TypeOK
<1>1. ReplInv => TypeOK
  BY DEF ReplInv
<1> QED BY <1>1, Invariant, PTL

(* After a SIGTERM no line is begun but one that is past its last look,     *)
(* unless a Ctrl-C, the handling of another signal or a line that is given  *)
(* up loses it (reset_signal(), handle_signal(), sh_abort()).               *)
THEOREM TermCorrect == Spec => []TermStopsSoon
<1>1. ReplInv => TermStopsSoon
  BY DEF ReplInv, NotedKept, TermStopsSoon
<1> QED BY <1>1, Invariant, PTL

(* The code a line sees is the one the line before it left, or 130 if       *)
(* Ctrl-C came in between, wherever it came (handle_signal()).              *)
THEOREM CodeCorrect == Spec => []CodeSeen
<1>1. ReplInv => CodeSeen
  BY DEF ReplInv, CodeKept, CodeSeen
<1> QED BY <1>1, Invariant, PTL

\* The code and the flag exit leaves, by its arguments.
ExitStep ==
    LET arg == line.args[1]
        n   == Number(arg)
        refused == ~Numeric(arg) \/ n > LLONG_MAX \/ (arg.sign = "-" /\ n > 0)
    IN  /\ exiting' <=> ~Numeric(arg) \/ Len(line.args) = 1
        /\ ~exiting' => code' = EXIT_GENERAL_ERROR
        /\ exiting' /\ n < Wide =>
               code' = IF refused THEN EXIT_BUILTIN_MISUSE ELSE n % 256
        /\ exiting' /\ n >= Wide => code' \in { EXIT_BUILTIN_MISUSE, n % 256 }

LEMMA ExitIsMeant ==
    ReplInv /\ Exit /\ line.args # << >> => ExitStep
<1> SUFFICES ASSUME ReplInv, Exit, line.args # << >> PROVE ExitStep
  OBVIOUS
<1> DEFINE args == line.args
           arg == line.args[1]
           n == Number(arg)
           c == IF Atoll(arg) < 0 THEN EXIT_BUILTIN_MISUSE ELSE Atoll(arg) % 256
           refused == n > LLONG_MAX \/ (arg.sign = "-" /\ n > 0)
<1>1. line.kind = "exit" /\ TypeOK
  BY DEF Exit, ReplInv
<1>2. args \in Seq(Arguments) /\ arg \in Arguments
  BY <1>1, ArgumentType
<1>3. Len(args) \in Nat /\ Len(args) >= 1
  BY <1>2, EmptySeq
<1>4. exiting = FALSE
  BY <1>1 DEF Exit, ReplInv, ExitingPlaces, TypeOK
<1>5. /\ n < Wide => c = IF refused THEN EXIT_BUILTIN_MISUSE ELSE n % 256
      /\ n >= Wide => c \in { EXIT_BUILTIN_MISUSE, n % 256 }
  BY <1>2, ExitCode
<1> HIDE DEF c, n
<1>6. CASE ~Numeric(arg) /\ code' = EXIT_BUILTIN_MISUSE /\ exiting' = TRUE
  BY <1>6 DEF ExitStep, n
<1>7. CASE Numeric(arg) /\ Len(args) > 1 /\ code' = EXIT_GENERAL_ERROR /\ UNCHANGED exiting
  <2>1. exiting' = FALSE
    BY <1>4, <1>7
  <2>2. Len(args) # 1
    <3>1. Len(args) > 1
      BY <1>7
    <3>2. \A m \in Nat : m > 1 => m # 1
      OBVIOUS
    <3> QED BY <1>3, <3>1, <3>2, Zenon
  <2> HIDE DEF args, arg
  <2>3. exiting' <=> ~Numeric(arg) \/ Len(args) = 1
    BY <1>7, <2>1, <2>2
  <2> QED BY <1>7, <2>1, <2>3 DEF ExitStep, args, arg
<1>8. CASE Len(args) = 1 /\ Numeric(arg) /\ code' = c /\ exiting' = TRUE
  BY <1>5, <1>8 DEF ExitStep, n
<1>9. \/ args = << >>
      \/ ~Numeric(arg) /\ code' = EXIT_BUILTIN_MISUSE /\ exiting' = TRUE
      \/ Numeric(arg) /\ Len(args) > 1 /\ code' = EXIT_GENERAL_ERROR /\ UNCHANGED exiting
      \/ Len(args) = 1 /\ Numeric(arg) /\ code' = c /\ exiting' = TRUE
  BY DEF Exit, Left, c
<1> QED BY <1>6, <1>7, <1>8, <1>9

\* No other step ends a line that calls exit.
LEMMA OnlyExit ==
    ReplInv /\ [Next]_vars /\ pc = "eval" /\ pc' = "top" /\ line.kind = "exit" => Exit
BY DEF ReplInv, HandlingPlaces, Next, Step, Look, Looking, Handle, After, NoSignal, Stop, ReadLine, Use,
       Builtin, Abort, Fork, Wait, Interrupt, Terminate, vars

(* exit NUMBER ends the shell with the number's low byte, or with 2, for    *)
(* every sequence of digits and every width of a word: what the code        *)
(* accepts after its multiplication wrapped around has the right low byte   *)
(* all the same (builtin_exit(), ft_atoll()).                               *)
THEOREM ExitCorrect == Spec => ExitAsMeant
<1>1. ReplInv /\ [Next]_vars =>
        [pc = "eval" /\ pc' = "top" /\ line.kind = "exit" /\ line.args # << >>
            => ExitStep]_vars
  BY ExitIsMeant, OnlyExit
<1>2. Spec => [][pc = "eval" /\ pc' = "top" /\ line.kind = "exit" /\ line.args # << >>
                   => ExitStep]_vars
  BY <1>1, Invariant, PTL DEF Spec
<1> QED BY <1>2 DEF ExitAsMeant, ExitStep
==============================================================================
