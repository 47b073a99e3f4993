----------------------------- MODULE GrowthProof -----------------------------
(****************************************************************************)
(* Proofs about Arena and Growth, for every capacity, every set of sizes,   *)
(* every number of blocks and every command. What is proved of Arena holds  *)
(* of the requests a real command makes: each step of Growth is a step of   *)
(* Arena or leaves the arena alone.                                         *)
(****************************************************************************)
EXTENDS Growth, SequenceTheorems, WellFoundedInduction, TLAPS

(* Arena.                                                                   *)

ArenaInv == TypeOK /\ PlacesApart

LEMMA InitInv == Init => ArenaInv
BY ArenaAssumption DEF Init, ArenaInv, TypeOK, PlacesApart, Place

\* A place that starts at the cursor of its block overlaps nothing.
LEMMA PastTheCursor ==
    ASSUME ArenaInv, NEW new \in Place, new.at >= 0,
           new.block \in DOMAIN chain => new.at = chain[new.block]
    PROVE  \A p \in live : ~Overlap(p, new) /\ ~Overlap(new, p)
<1> SUFFICES ASSUME NEW p \in live
             PROVE  ~Overlap(p, new) /\ ~Overlap(new, p)
    OBVIOUS
<1>1. /\ p \in Place
      /\ p.block \in DOMAIN chain
      /\ p.at + p.size <= chain[p.block]
      /\ chain \in Seq(Nat)
    BY DEF ArenaInv, TypeOK, PlacesApart
<1>2. chain[p.block] \in Nat
    BY <1>1, ElementOfSeq
<1>3. /\ p.at \in Nat /\ p.size \in Nat
      /\ new.at \in Nat /\ new.size \in Nat
    BY <1>1, ArenaAssumption DEF Place
<1>4. CASE p.block = new.block
    BY <1>1, <1>2, <1>3, <1>4 DEF Overlap
<1>5. CASE p.block # new.block
    BY <1>5 DEF Overlap
<1> QED
    BY <1>4, <1>5

LEMMA InBlockInv ==
    ASSUME ArenaInv, NEW size \in Sizes, AllocInBlock(size)
    PROVE  /\ ArenaInv'
           /\ \A p \in live, new \in answer' : ~Overlap(p, new)
<1>1. PICK b \in DOMAIN chain :
        /\ HasRoom(b, size)
        /\ Give(b, chain[b], size)
        /\ chain' = [chain EXCEPT ![b] = @ + size]
    BY DEF AllocInBlock
<1> DEFINE new == [block |-> b, at |-> chain[b], size |-> size]
<1>2. /\ chain \in Seq(Nat) /\ Len(chain) <= MaxBlocks
      /\ live \subseteq Place
      /\ size \in Nat \ { 0 } /\ Capacity \in Nat
    BY ArenaAssumption DEF ArenaInv, TypeOK
<1>3. /\ chain[b] \in Nat /\ b \in Nat \ { 0 }
      /\ DOMAIN chain = 1 .. Len(chain)
    BY <1>2, ElementOfSeq, LenProperties
<1>4. new \in Place
    BY <1>3 DEF Place
<1>5. answer' = { new } /\ live' = live \cup { new }
    BY <1>1 DEF Give
<1>6. /\ chain' \in Seq(Nat) /\ Len(chain') = Len(chain)
      /\ DOMAIN chain' = DOMAIN chain
      /\ \A a \in DOMAIN chain :
           chain'[a] = IF a = b THEN chain[b] + size ELSE chain[a]
  <2>1. chain[b] + size \in Nat
      BY <1>2, <1>3
  <2>2. chain' = [chain EXCEPT ![b] = chain[b] + size]
      BY <1>1
  <2> QED
      BY <1>2, <1>3, <2>1, <2>2, ExceptSeq, LenProperties
<1>7. \A p \in live : ~Overlap(p, new) /\ ~Overlap(new, p)
  <2>1. new.at >= 0 /\ new.at = chain[new.block]
      BY <1>3
  <2> QED
      BY <1>4, <2>1, PastTheCursor
<1>8. TypeOK'
    BY <1>2, <1>4, <1>5, <1>6 DEF TypeOK
<1>9. \A a \in DOMAIN chain' : chain'[a] <= Capacity
    BY <1>1, <1>2, <1>6 DEF HasRoom, ArenaInv, PlacesApart
<1>10. \A p \in live' :
         p.block \in DOMAIN chain' /\ p.at + p.size <= chain'[p.block]
  <2> SUFFICES ASSUME NEW p \in live'
               PROVE  p.block \in DOMAIN chain' /\ p.at + p.size <= chain'[p.block]
      OBVIOUS
  <2>1. CASE p = new
      BY <2>1, <1>2, <1>3, <1>6
  <2>2. CASE p \in live
    <3>1. /\ p.block \in DOMAIN chain /\ p.at + p.size <= chain[p.block]
          /\ p.at \in Nat /\ p.size \in Nat
        BY <2>2, <1>2, ArenaAssumption DEF ArenaInv, PlacesApart, Place
    <3>2. chain[p.block] \in Nat
        BY <3>1, <1>2, ElementOfSeq
    <3>3. chain'[p.block] = IF p.block = b THEN chain[b] + size
                            ELSE chain[p.block]
        BY <3>1, <1>6
    <3>4. chain[p.block] <= chain'[p.block]
        BY <3>2, <3>3, <1>2, <1>3
    <3>5. chain'[p.block] \in Nat
        BY <3>2, <3>3, <1>2, <1>3
    <3> QED
        BY <3>1, <3>2, <3>4, <3>5, <1>6
  <2> QED
      BY <1>5, <2>1, <2>2
<1>11. \A p, q \in live' : p # q => ~Overlap(p, q)
    BY <1>5, <1>7 DEF ArenaInv, PlacesApart
<1>12. \A p \in live, n \in answer' : ~Overlap(p, n)
    BY <1>5, <1>7
<1> HIDE DEF new
<1> QED
    BY <1>8, <1>9, <1>10, <1>11, <1>12 DEF ArenaInv, PlacesApart, Overlap

LEMMA InNewBlockInv ==
    ASSUME ArenaInv, NEW size \in Sizes, AllocInNewBlock(size)
    PROVE  /\ ArenaInv'
           /\ \A p \in live, new \in answer' : ~Overlap(p, new)
<1> DEFINE b == Len(chain) + 1
           new == [block |-> b, at |-> 0, size |-> size]
<1>1. /\ chain \in Seq(Nat) /\ Len(chain) < MaxBlocks /\ MaxBlocks \in Nat
      /\ live \subseteq Place
      /\ size \in Nat \ { 0 } /\ size <= Capacity /\ Capacity \in Nat
      /\ chain' = Append(chain, size)
    BY ArenaAssumption DEF ArenaInv, TypeOK, AllocInNewBlock
<1>2. Len(chain) \in Nat /\ DOMAIN chain = 1 .. Len(chain)
    BY <1>1, LenProperties
<1>3. new \in Place
    BY <1>2 DEF Place
<1>4. answer' = { new } /\ live' = live \cup { new }
    BY DEF AllocInNewBlock, Give
<1>5. /\ chain' \in Seq(Nat) /\ Len(chain') = b
      /\ DOMAIN chain' = 1 .. b
      /\ \A a \in DOMAIN chain : chain'[a] = chain[a]
      /\ chain'[b] = size
  <2>1. size \in Nat
      BY <1>1
  <2> QED
      BY <1>1, <1>2, <2>1, AppendProperties, LenProperties
<1>6. \A p \in live : ~Overlap(p, new) /\ ~Overlap(new, p)
  <2>1. new.at >= 0 /\ new.block \notin DOMAIN chain
      BY <1>2
  <2> QED
      BY <1>3, <2>1, PastTheCursor
<1>7. TypeOK'
    BY <1>1, <1>2, <1>3, <1>4, <1>5 DEF TypeOK
<1>8. \A a \in DOMAIN chain' : chain'[a] <= Capacity
    BY <1>1, <1>2, <1>5 DEF ArenaInv, PlacesApart
<1>9. \A p \in live' :
         p.block \in DOMAIN chain' /\ p.at + p.size <= chain'[p.block]
  <2> SUFFICES ASSUME NEW p \in live'
               PROVE  p.block \in DOMAIN chain' /\ p.at + p.size <= chain'[p.block]
      OBVIOUS
  <2>1. CASE p = new
      BY <2>1, <1>1, <1>2, <1>5
  <2>2. CASE p \in live
    <3>1. p.block \in DOMAIN chain /\ p.at + p.size <= chain[p.block]
        BY <2>2 DEF ArenaInv, PlacesApart
    <3> QED
        BY <3>1, <1>2, <1>5
  <2> QED
      BY <1>4, <2>1, <2>2
<1>10. \A p, q \in live' : p # q => ~Overlap(p, q)
    BY <1>4, <1>6 DEF ArenaInv, PlacesApart
<1>11. \A p \in live, n \in answer' : ~Overlap(p, n)
    BY <1>4, <1>6
<1> HIDE DEF new
<1> QED
    BY <1>7, <1>8, <1>9, <1>10, <1>11 DEF ArenaInv, PlacesApart, Overlap

LEMMA FrameInv ==
    ASSUME ArenaInv, BeginFrame \/ EndFrame
    PROVE  ArenaInv' /\ live' = {} /\ answer' = {}
<1>1. /\ live' = {} /\ answer' = {}
      /\ chain' = << >> \/ (chain' = << 0 >> /\ MaxBlocks > 0)
    BY DEF BeginFrame, EndFrame
<1>2. CASE chain' = << >>
    BY <1>1, <1>2, ArenaAssumption DEF ArenaInv, TypeOK, PlacesApart
<1>3. CASE chain' = << 0 >> /\ MaxBlocks > 0
    BY <1>1, <1>3, ArenaAssumption DEF ArenaInv, TypeOK, PlacesApart
<1> QED
    BY <1>1, <1>2, <1>3

LEMMA FailsInv ==
    ASSUME ArenaInv, NEW size \in Sizes, AllocFails(size)
    PROVE  ArenaInv' /\ answer' = {}
BY DEF AllocFails, ArenaInv, TypeOK, PlacesApart, Overlap

LEMMA NextInv ==
    ArenaInv /\ [Next]_vars
        => ArenaInv' /\ (\A p \in live', new \in answer' :
                            p \in live /\ answer' # answer => ~Overlap(p, new))
<1> SUFFICES ASSUME ArenaInv, [Next]_vars
             PROVE  ArenaInv' /\ (\A p \in live', new \in answer' :
                        p \in live /\ answer' # answer => ~Overlap(p, new))
    OBVIOUS
<1>1. CASE BeginFrame \/ EndFrame
    BY <1>1, FrameInv
<1>2. ASSUME NEW size \in Sizes, AllocInBlock(size)
      PROVE  ArenaInv' /\ (\A p \in live, new \in answer' : ~Overlap(p, new))
    BY <1>2, InBlockInv
<1>3. ASSUME NEW size \in Sizes, AllocInNewBlock(size)
      PROVE  ArenaInv' /\ (\A p \in live, new \in answer' : ~Overlap(p, new))
    BY <1>3, InNewBlockInv
<1>4. ASSUME NEW size \in Sizes, AllocFails(size)
      PROVE  ArenaInv' /\ answer' = {}
    BY <1>4, FailsInv
<1>5. CASE UNCHANGED vars
    BY <1>5 DEF vars, ArenaInv, TypeOK, PlacesApart, Overlap
<1> QED
    BY <1>1, <1>2, <1>3, <1>4, <1>5 DEF Next

\* Places handed out in a frame never share a byte and never leave their block.
THEOREM PlacesCorrect == Spec => []PlacesApart
<1>1. ArenaInv => PlacesApart
    BY DEF ArenaInv
<1> QED
    BY InitInv, NextInv, <1>1, PTL DEF Spec

\* What arena_alloc() hands out was in nobody's hands.
THEOREM FreshCorrect == Spec => Fresh
<1>1. ArenaInv /\ [Next]_vars
        => [\A p \in live', new \in answer' :
              p \in live /\ answer' # answer => ~Overlap(p, new)]_vars
    BY NextInv
<1> QED
    BY InitInv, NextInv, <1>1, PTL DEF Spec, Fresh

-----------------------------------------------------------------------------
(* Growth.                                                                  *)

LEMMA AllocIsRequest ==
    ASSUME NEW size, Alloc(size) PROVE [Next]_vars
BY DEF Alloc, Next

LEMMA NoAllocIsNone == NoAlloc => [Next]_vars
BY DEF NoAlloc

\* The steps of str_append() and da_append() with a request or without one.
LEMMA Append1Requests == ASSUME NEW n, Append1(n) PROVE [Next]_vars
<1> DEFINE cap == IF StrGrows(n) THEN Doubled(str.cap, str.len + n) ELSE str.cap
<1>1. CASE StrGrows(n)
  <2>1. Alloc(cap)
    BY <1>1 DEF Append1
  <2> QED BY <2>1, AllocIsRequest
<1>2. CASE ~StrGrows(n)
  <2>1. NoAlloc
    BY <1>2 DEF Append1
  <2> QED BY <2>1, NoAllocIsNone
<1> QED BY <1>1, <1>2

LEMMA ArrayRequests == Array \/ CopyItem \/ Copied \/ LastItem => [Next]_vars
<1>1. ASSUME Array PROVE NoAlloc \/ \E size : Alloc(size)
  BY <1>1 DEF Array
<1>2. ASSUME CopyItem PROVE NoAlloc \/ \E size : Alloc(size)
  BY <1>2 DEF CopyItem
<1>3. ASSUME Copied PROVE NoAlloc
  BY <1>3 DEF Copied
<1>4. ASSUME LastItem PROVE NoAlloc \/ \E size : Alloc(size)
  BY <1>4 DEF LastItem
<1> QED BY <1>1, <1>2, <1>3, <1>4, AllocIsRequest, NoAllocIsNone

LEMMA TextRequests == Unquote \/ Expand \/ Part \/ Grow \/ Store \/ GetPath => [Next]_vars
<1>1. ASSUME Unquote PROVE NoAlloc \/ \E size : Alloc(size)
  BY <1>1 DEF Unquote
<1>2. ASSUME Expand PROVE NoAlloc \/ \E size : Alloc(size)
  BY <1>2 DEF Expand
<1>3. ASSUME Part PROVE NoAlloc \/ \E size : Alloc(size)
  BY <1>3 DEF Part
<1>4. ASSUME Grow PROVE NoAlloc \/ \E size : Alloc(size)
  BY <1>4 DEF Grow
<1>5. ASSUME Store PROVE NoAlloc
  BY <1>5 DEF Store
<1>6. ASSUME GetPath PROVE NoAlloc \/ \E size : Alloc(size)
  BY <1>6 DEF GetPath
<1> QED BY <1>1, <1>2, <1>3, <1>4, <1>5, <1>6, AllocIsRequest, NoAllocIsNone

LEMMA NextRequests == [GrowthNext]_growvars => [Next]_vars
<1> SUFFICES ASSUME GrowthNext PROVE [Next]_vars
  BY DEF growvars, vars
<1>1. CASE Frame
  BY <1>1 DEF Frame, Next
<1>2. CASE Struct
  BY <1>2, AllocIsRequest DEF Struct
<1>3. CASE Items
  BY <1>3, AllocIsRequest DEF Items
<1>4. CASE Chars
  BY <1>4, AllocIsRequest DEF Chars
<1>5. CASE Unquote \/ Expand \/ Part \/ Grow \/ Store \/ GetPath
  BY <1>5, TextRequests
<1>6. CASE StrAppend
  BY <1>6, Append1Requests, NoAllocIsNone DEF StrAppend
<1>7. CASE Array \/ CopyItem \/ Copied \/ LastItem
  BY <1>7, ArrayRequests
<1>8. CASE LineEnds
  BY <1>8 DEF LineEnds, Next
<1>9. CASE Lost
  BY <1>9 DEF Lost, growvars, vars
<1> QED BY <1>1, <1>2, <1>3, <1>4, <1>5, <1>6, <1>7, <1>8, <1>9 DEF GrowthNext

(* The words of a line use the arena as Arena says: every step of the       *)
(* growing functions and of the parser is one request, or none.             *)
THEOREM ImplementsArena == GrowthSpec => Spec
<1>1. GrowthInit => Init
  BY DEF GrowthInit
<1> QED BY <1>1, NextRequests, PTL DEF GrowthSpec, Spec

(* However strings, buffers and arrays of a line grow, no two places of the *)
(* arena share a byte and none leaves its block (arena_alloc()).            *)
THEOREM PlacesOfCommands == GrowthSpec => []PlacesApart
BY ImplementsArena, PlacesCorrect

-----------------------------------------------------------------------------
(* Induction and definition by primitive recursion, stated of a set and of  *)
(* a function in the place of an operator: a set that is not all of 0 .. n  *)
(* misses a least number (WFMin).                                           *)

LEMMA LessRelated ==
    ASSUME NEW j \in Nat, NEW k \in Nat, j < k
    PROVE  << j, k >> \in OpToRel(<, Nat)
<1> DEFINE p == << j, k >>
<1>1. p[1] = j /\ p[2] = k /\ p \in Nat \X Nat
  OBVIOUS
<1>2. p[1] < p[2]
  BY <1>1
<1> HIDE DEF p
<1>3. p \in OpToRel(<, Nat)
  BY <1>1, <1>2, Zenon DEF OpToRel
<1> QED BY <1>3 DEF p

\* What holds of 0 and of k, if of k - 1, holds up to n.
LEMMA Upto ==
    ASSUME NEW n \in Nat, NEW T,
           0 \in T, \A k \in 1 .. n : k - 1 \in T => k \in T
    PROVE  0 .. n \subseteq T
<1> DEFINE Missing == { k \in 0 .. n : k \notin T }
<1> SUFFICES ASSUME Missing # {} PROVE FALSE
  OBVIOUS
<1>1. Missing \subseteq Nat
  OBVIOUS
<1>2. PICK k \in Missing : \A j \in Missing : ~(<< j, k >> \in OpToRel(<, Nat))
  <2>1. IsWellFoundedOn(OpToRel(<, Nat), Nat)
    BY NatLessThanWellFounded
  <2> HIDE DEF Missing
  <2> QED BY <1>1, <2>1, WFMin
<1>3. k \in 1 .. n /\ k - 1 \in 0 .. n
  OBVIOUS
<1>4. k - 1 \notin Missing
  <2>1. k \in Nat /\ k - 1 \in Nat /\ k - 1 < k
    BY <1>3
  <2>2. << k - 1, k >> \in OpToRel(<, Nat)
    BY <2>1, LessRelated
  <2> QED BY <1>2, <2>2
<1> QED BY <1>3, <1>4

\* g is b at first, and F of what it was before at each k.
Follows(g, b, n, F) ==
    /\ g[0] = b
    /\ \A k \in 1 .. n : g[k] = F[<< g[k - 1], k >>]

\* There is such a function.
LEMMA Recursion ==
    ASSUME NEW A, NEW b \in A, NEW n \in Nat, NEW F \in [A \X (1 .. n) -> A]
    PROVE  \E g \in [0 .. n -> A] : Follows(g, b, n, F)
<1> DEFINE T == { m \in 0 .. n : \E g \in [0 .. m -> A] : Follows(g, b, m, F) }
<1>1. 0 \in T
  <2>1. [k \in 0 .. 0 |-> b] \in [0 .. 0 -> A] /\ Follows([k \in 0 .. 0 |-> b], b, 0, F)
    BY DEF Follows
  <2> QED BY <2>1
<1>2. ASSUME NEW m \in 1 .. n, m - 1 \in T PROVE m \in T
  <2>1. PICK g \in [0 .. m - 1 -> A] : Follows(g, b, m - 1, F)
    BY <1>2
  <2> DEFINE h == [k \in 0 .. m |-> IF k < m THEN g[k] ELSE F[<< g[m - 1], m >>]]
  <2>2. h \in [0 .. m -> A]
    <3>1. g[m - 1] \in A
      OBVIOUS
    <3>2. F[<< g[m - 1], m >>] \in A
      BY <3>1
    <3> QED BY <3>2
  <2>3. h[0] = b
    BY <2>1 DEF Follows
  <2>4. ASSUME NEW k \in 1 .. m PROVE h[k] = F[<< h[k - 1], k >>]
    <3>1. CASE k = m
      BY <3>1
    <3>2. CASE k < m
      BY <2>1, <3>2 DEF Follows
    <3> QED BY <3>1, <3>2
  <2>5. Follows(h, b, m, F)
    BY <2>3, <2>4 DEF Follows
  <2> HIDE DEF h
  <2> QED BY <2>2, <2>5
<1>3. 0 .. n \subseteq T
  <2> HIDE DEF T
  <2> QED BY <1>1, <1>2, Upto
<1> QED BY <1>3

\* A set of natural numbers has a least one.
LEMMA Least ==
    ASSUME NEW S, S \subseteq Nat, S # {}
    PROVE  \E m \in S : \A k \in S : m <= k
<1>1. PICK m \in S : \A k \in S : ~(<< k, m >> \in OpToRel(<, Nat))
  <2>1. IsWellFoundedOn(OpToRel(<, Nat), Nat)
    BY NatLessThanWellFounded
  <2> QED BY <2>1, WFMin
<1>2. ASSUME NEW k \in S PROVE m <= k
  <2>1. k \in Nat /\ m \in Nat
    OBVIOUS
  <2>2. ~(k < m)
    BY <1>1, <2>1, LessRelated
  <2> QED BY <2>1, <2>2
<1> QED BY <1>2

-----------------------------------------------------------------------------
(* Sums and capacities.                                                     *)

SumsAre(s) ==
    /\ Sums(s)[0] = 0
    /\ \A k \in 1 .. Len(s) : Sums(s)[k] = Sums(s)[k - 1] + s[k]
    /\ \A k \in 0 .. Len(s) : Sums(s)[k] \in Nat

LEMMA SumsDef ==
    ASSUME NEW s \in Seq(Nat)
    PROVE  SumsAre(s)
<1> DEFINE n == Len(s)
           F == [x \in Nat \X (1 .. n) |-> x[1] + s[x[2]]]
           Def(f) == [k \in 0 .. n |-> IF k = 0 THEN 0 ELSE f[k - 1] + s[k]]
<1>0. n \in Nat
  OBVIOUS
<1>1. F \in [Nat \X (1 .. n) -> Nat]
  <2>1. ASSUME NEW r \in Nat, NEW k \in 1 .. n PROVE r + s[k] \in Nat
    <3>1. s[k] \in Nat
      BY ElementOfSeq
    <3> QED BY <3>1
  <2> QED BY <2>1
<1>2. PICK g \in [0 .. n -> Nat] : Follows(g, 0, n, F)
  <2> HIDE DEF F, n
  <2> QED BY <1>0, <1>1, Recursion
<1>3. g = Def(g)
  <2>1. ASSUME NEW k \in 1 .. n PROVE g[k] = g[k - 1] + s[k]
    <3>1. g[k - 1] \in Nat
      OBVIOUS
    <3>2. F[<< g[k - 1], k >>] = g[k - 1] + s[k]
      BY <3>1
    <3> QED BY <1>2, <3>2 DEF Follows
  <2>2. g[0] = 0
    BY <1>2 DEF Follows
  <2> HIDE DEF F
  <2> QED BY <2>1, <2>2
<1>4. Sums(s) = CHOOSE f : f = Def(f)
  BY DEF Sums
<1>5. Sums(s) = Def(Sums(s))
  <2> HIDE DEF Def
  <2> QED BY <1>3, <1>4
<1>6. Sums(s)[0] = 0 /\ \A k \in 1 .. n : Sums(s)[k] = Sums(s)[k - 1] + s[k]
  BY <1>0, <1>5
<1> DEFINE T == { k \in 0 .. n : Sums(s)[k] \in Nat }
<1>7. 0 \in T
  BY <1>0, <1>6
<1>8. ASSUME NEW k \in 1 .. n, k - 1 \in T PROVE k \in T
  <2>1. s[k] \in Nat
    BY ElementOfSeq
  <2>2. Sums(s)[k] = Sums(s)[k - 1] + s[k]
    BY <1>6
  <2> QED BY <1>8, <2>1, <2>2
<1>9. 0 .. n \subseteq T
  <2> HIDE DEF T, n
  <2> QED BY <1>0, <1>7, <1>8, Upto
<1> QED BY <1>6, <1>9 DEF SumsAre

\* The loops that double a capacity end past what is needed.
LEMMA DoubledEnough ==
    ASSUME NEW cap \in Nat \ { 0 }, NEW need \in Nat
    PROVE  Doubled(cap, need) \in Nat /\ Doubled(cap, need) > need
<1> DEFINE F == [x \in (Nat \ { 0 }) \X (1 .. need) |-> 2 * x[1]]
           Def(f) == [k \in 0 .. need |-> IF k = 0 THEN cap ELSE 2 * f[k - 1]]
           R == CHOOSE f : f = Def(f)
<1>1. F \in [(Nat \ { 0 }) \X (1 .. need) -> Nat \ { 0 }]
  OBVIOUS
<1>2. PICK g \in [0 .. need -> Nat \ { 0 }] : Follows(g, cap, need, F)
  <2> HIDE DEF F
  <2> QED BY <1>1, Recursion
<1>3. g = Def(g)
  <2>1. ASSUME NEW k \in 1 .. need PROVE g[k] = 2 * g[k - 1]
    <3>1. g[k - 1] \in Nat \ { 0 }
      OBVIOUS
    <3>2. F[<< g[k - 1], k >>] = 2 * g[k - 1]
      BY <3>1
    <3> QED BY <1>2, <3>2 DEF Follows
  <2>2. g[0] = cap
    BY <1>2 DEF Follows
  <2> HIDE DEF F
  <2> QED BY <2>1, <2>2
<1>4. R = Def(R)
  <2> HIDE DEF Def
  <2> QED BY <1>3
<1> HIDE DEF R
<1>5. R[0] = cap /\ \A k \in 1 .. need : R[k] = 2 * R[k - 1]
  BY <1>4
<1> DEFINE T == { k \in 0 .. need : R[k] \in Nat /\ R[k] > k }
<1>6. 0 .. need \subseteq T
  <2>1. 0 \in T
    BY <1>5
  <2>2. ASSUME NEW k \in 1 .. need, k - 1 \in T PROVE k \in T
    BY <1>5, <2>2
  <2> HIDE DEF T
  <2> QED BY <2>1, <2>2, Upto
<1> DEFINE S == { k \in 0 .. need : R[k] > need }
<1>7. need \in S /\ S \subseteq Nat
  BY <1>6
<1>8. PICK m \in S : \A k \in S : m <= k
  <2> HIDE DEF S
  <2> QED BY <1>7, Least
<1> DEFINE P(k) == R[k] > need /\ \A j \in 0 .. k - 1 : R[j] <= need
<1>9. m \in 0 .. need /\ P(m)
  <2> SUFFICES ASSUME NEW j \in 0 .. m - 1 PROVE R[j] <= need
    BY <1>8
  <2>1. j \in 0 .. need /\ ~(m <= j)
    BY <1>8
  <2>2. j \notin S /\ R[j] \in Nat
    BY <1>6, <1>8, <2>1
  <2> QED BY <2>1, <2>2
<1>10. Doubled(cap, need) = R[CHOOSE k \in 0 .. need : P(k)]
  BY DEF Doubled, R
<1> DEFINE c == CHOOSE k \in 0 .. need : P(k)
<1>11. c \in 0 .. need /\ P(c)
  <2> HIDE DEF P
  <2> QED BY <1>9
<1> QED BY <1>6, <1>10, <1>11

-----------------------------------------------------------------------------
(* What is left of a sequence of which k elements are done.                 *)

Suffix(s, r, k) ==
    /\ k \in Nat /\ Len(r) + k = Len(s)
    /\ \A i \in 1 .. Len(r) : r[i] = s[k + i]

LEMMA AllLeft ==
    ASSUME NEW S, NEW s \in Seq(S)
    PROVE  Suffix(s, s, 0)
BY LenProperties DEF Suffix

LEMMA NextLeft ==
    ASSUME NEW S, NEW s \in Seq(S), NEW T, NEW r \in Seq(T), NEW k, Suffix(s, r, k), r # << >>
    PROVE  /\ k + 1 \in 1 .. Len(s) /\ Head(r) = s[k + 1] /\ Head(r) \in S
           /\ Tail(r) \in Seq(T) /\ Len(Tail(r)) = Len(r) - 1
           /\ Suffix(s, Tail(r), k + 1)
<1>1. /\ Len(r) \in Nat /\ Len(r) # 0 /\ Len(s) \in Nat /\ k \in Nat /\ Len(r) + k = Len(s)
      /\ Head(r) = r[1] /\ Tail(r) \in Seq(T) /\ Len(Tail(r)) = Len(r) - 1
      /\ \A i \in 1 .. Len(Tail(r)) : Tail(r)[i] = r[i + 1]
  BY EmptySeq, LenProperties, HeadTailProperties DEF Suffix
<1>2. k + 1 \in 1 .. Len(s) /\ 1 \in 1 .. Len(r)
  BY <1>1
<1>3. Head(r) = s[k + 1]
  BY <1>1, <1>2 DEF Suffix
<1>4. s[k + 1] \in S
  BY <1>2, ElementOfSeq
<1>5. ASSUME NEW i \in 1 .. Len(Tail(r)) PROVE Tail(r)[i] = s[k + 1 + i]
  <2>1. i + 1 \in 1 .. Len(r) /\ k + (i + 1) = k + 1 + i
    BY <1>1
  <2>2. r[i + 1] = s[k + (i + 1)]
    BY <2>1 DEF Suffix
  <2> QED BY <1>1, <2>1, <2>2
<1>6. Len(Tail(r)) + (k + 1) = Len(s) /\ k + 1 \in Nat
  BY <1>1
<1>7. Suffix(s, Tail(r), k + 1)
  BY <1>5, <1>6 DEF Suffix
<1> QED BY <1>1, <1>2, <1>3, <1>4, <1>7

\* The head put back in another form.
LEMMA NewHead ==
    ASSUME NEW T, NEW r \in Seq(T), r # << >>, NEW h \in T
    PROVE  /\ << h >> \o Tail(r) \in Seq(T) /\ << h >> \o Tail(r) # << >>
           /\ Head(<< h >> \o Tail(r)) = h /\ Tail(<< h >> \o Tail(r)) = Tail(r)
           /\ Len(<< h >> \o Tail(r)) = Len(r)
<1> DEFINE t == Tail(r)
           u == << h >> \o t
<1>1. t \in Seq(T) /\ Len(t) = Len(r) - 1 /\ Len(r) \in Nat
  BY LenProperties, HeadTailProperties
<1>2. << h >> \in Seq(T) /\ Len(<< h >>) = 1 /\ << h >>[1] = h
  OBVIOUS
<1> HIDE DEF t
<1>3. /\ u \in Seq(T) /\ Len(u) = 1 + Len(t)
      /\ \A i \in 1 .. 1 + Len(t) : u[i] = IF i <= 1 THEN << h >>[i] ELSE t[i - 1]
  BY <1>1, <1>2, ConcatProperties
<1> HIDE DEF u
<1>4. Len(u) = Len(r) /\ Len(t) \in Nat
  BY <1>1, <1>3, LenProperties
<1>5. u # << >>
  BY <1>3, <1>4, EmptySeq
<1>6. u[1] = h
  <2>1. 1 \in 1 .. 1 + Len(t) /\ 1 <= 1
    BY <1>4
  <2> QED BY <1>2, <1>3, <2>1
<1>7. /\ Head(u) = u[1] /\ Tail(u) \in Seq(T) /\ Len(Tail(u)) = Len(u) - 1
      /\ \A i \in 1 .. Len(Tail(u)) : Tail(u)[i] = u[i + 1]
  BY <1>3, <1>5, HeadTailProperties
<1>8. Tail(u) = t
  <2>1. Len(Tail(u)) = Len(t)
    BY <1>3, <1>4, <1>7
  <2>2. ASSUME NEW i \in 1 .. Len(t) PROVE Tail(u)[i] = t[i]
    <3>1. i + 1 \in 1 .. 1 + Len(t) /\ ~(i + 1 <= 1) /\ i + 1 - 1 = i
      BY <1>4
    <3> QED BY <1>3, <1>7, <2>1, <3>1
  <2> QED BY <1>1, <1>7, <2>1, <2>2, SeqEqual
<1> QED BY <1>3, <1>4, <1>5, <1>6, <1>7, <1>8 DEF u, t

WordTexts   == Seq(Texts) \ { << >> }

LEMMA TextSumsDef ==
    ASSUME NEW t \in Texts
    PROVE  /\ t.parts \in Seq(PartRecords) /\ t.raw \in Nat /\ t.copied \in BOOLEAN
           /\ TextSums(t)[0] = 0
           /\ \A k \in 1 .. Len(t.parts) : TextSums(t)[k] = TextSums(t)[k - 1] + t.parts[k].n
           /\ \A k \in 0 .. Len(t.parts) : TextSums(t)[k] \in Nat
           /\ TextLength(t) \in Nat
           /\ ~HasDollar(t.parts) => t.raw = TextLength(t)
<1>1. /\ t.parts \in Seq(PartRecords) /\ t.raw \in Nat /\ t.copied \in BOOLEAN
      /\ ~HasDollar(t.parts) => t.raw = TextLength(t)
  BY DEF Texts, PartRecords
<1> DEFINE p == t.parts
           s == [i \in DOMAIN p |-> p[i].n]
<1>2. DOMAIN p = 1 .. Len(p) /\ Len(p) \in Nat
  BY <1>1, LenProperties
<1>3. \A i \in 1 .. Len(p) : p[i].n \in Nat
  <2> SUFFICES ASSUME NEW i \in 1 .. Len(p) PROVE p[i].n \in Nat
    OBVIOUS
  <2>1. p[i] \in PartRecords
    <3> HIDE DEF p
    <3> QED BY <1>1, ElementOfSeq DEF p
  <2> QED BY <2>1 DEF PartRecords
<1>4. s \in Seq(Nat) /\ Len(s) = Len(p) /\ \A i \in 1 .. Len(p) : s[i] = p[i].n
  BY <1>2, <1>3
<1>5. TextSums(t) = Sums(s)
  BY DEF TextSums
<1> HIDE DEF s
<1>6. SumsAre(s)
  BY <1>4, SumsDef
<1>7. Len(p) \in 0 .. Len(p)
  BY <1>2
<1> HIDE DEF p
<1>8. /\ TextSums(t)[0] = 0
      /\ \A k \in 1 .. Len(p) : TextSums(t)[k] = TextSums(t)[k - 1] + p[k].n
      /\ \A k \in 0 .. Len(p) : TextSums(t)[k] \in Nat
  BY <1>4, <1>5, <1>6 DEF SumsAre
<1>9. TextLength(t) \in Nat
  BY <1>7, <1>8 DEF TextLength, p
<1> QED BY <1>1, <1>8, <1>9 DEF p

LEMMA WordSumsDef ==
    ASSUME NEW w \in Seq(Texts)
    PROVE  /\ WordSums(w)[0] = 0
           /\ \A k \in 1 .. Len(w) : WordSums(w)[k] = WordSums(w)[k - 1] + TextLength(w[k])
           /\ \A k \in 0 .. Len(w) : WordSums(w)[k] \in Nat
           /\ WordLength(w) \in Nat
<1> DEFINE s == [i \in DOMAIN w |-> TextLength(w[i])]
<1>2. DOMAIN w = 1 .. Len(w) /\ Len(w) \in Nat
  BY LenProperties
<1>3. \A i \in 1 .. Len(w) : TextLength(w[i]) \in Nat
  BY ElementOfSeq, TextSumsDef
<1>4. s \in Seq(Nat) /\ Len(s) = Len(w) /\ \A i \in 1 .. Len(w) : s[i] = TextLength(w[i])
  BY <1>2, <1>3
<1>5. WordSums(w) = Sums(s)
  BY DEF WordSums
<1> HIDE DEF s
<1>6. SumsAre(s)
  BY <1>4, SumsDef
<1>7. Len(w) \in 0 .. Len(w)
  BY <1>2
<1>8. /\ WordSums(w)[0] = 0
      /\ \A k \in 1 .. Len(w) : WordSums(w)[k] = WordSums(w)[k - 1] + TextLength(w[k])
      /\ \A k \in 0 .. Len(w) : WordSums(w)[k] \in Nat
  BY <1>4, <1>5, <1>6 DEF SumsAre
<1>9. WordLength(w) \in Nat
  BY <1>7, <1>8 DEF WordLength
<1> QED BY <1>8, <1>9

-----------------------------------------------------------------------------
(* The invariant.                                                           *)

BeforeWord == { "command", "array", "items", "word", "chars" }
InToken    == { "token", "expand", "parts", "grow", "store", "path",
                "append" }
InWord     == InToken \cup { "full", "copy", "last" }
InText     == { "parts", "grow", "store" }

Done       == Len(command) - Len(todo)
AtWord     == command[Done + 1]
TokensDone == Len(AtWord) - Len(Head(todo))
PartsDone  == Len(Token.parts) - Len(parts)

\* The name of the command is one token, and only a program's is looked up.
Named ==
    /\ lookup.prefix \in Nat /\ (~lookup.external => lookup.prefix = 0)
    /\ command # << >> => Len(command[1]) = 1

Looked(n) == IF n > 0 THEN n + lookup.prefix ELSE n

\* What str_append() gets of the token.
Piece == IF AtFirst THEN Looked(TextLength(Token)) ELSE TextLength(Token)

\* What the string has of the word.
WordSoFar ==
    LET n == WordSums(AtWord)[TokensDone] IN IF AtFirst THEN Looked(n) ELSE n

\* Between two words todo is the words that are left.
Ahead ==
    /\ command \in Seq(WordTexts) /\ todo \in Seq(WordTexts)
    /\ Suffix(command, todo, Done)

\* Within a word its head is the tokens that are left.
Within ==
    /\ command \in Seq(WordTexts) /\ todo \in Seq(Seq(Texts)) /\ todo # << >>
    /\ Tail(todo) \in Seq(WordTexts)
    /\ Done \in Nat /\ Suffix(command, Tail(todo), Done + 1)
    /\ Suffix(AtWord, Head(todo), TokensDone)

\* Within a token parts is the parts that are left.
Parsed ==
    /\ parts \in Seq(PartRecords)
    /\ Suffix(Token.parts, parts, PartsDone)

\* The buffer has what is done of the token, and room for the terminator.
BufFits ==
    /\ buf = [place |-> buf.place, cap |-> buf.cap, len |-> buf.len, text |-> buf.text]
    /\ buf.cap \in Nat \ { 0 } /\ buf.len \in Nat /\ buf.len < buf.cap
    /\ \E p \in buf.place : p.size = buf.cap
    /\ buf.text = buf.len /\ buf.len = TextSums(Token)[PartsDone]

\* The string has what is done of the word, and room for the terminator.
StrFits ==
    /\ str = [place |-> str.place, cap |-> str.cap, len |-> str.len]
    /\ str.cap \in Nat \ { 0 } /\ str.len \in Nat /\ str.len < str.cap
    /\ \E p \in str.place : p.size = str.cap
    /\ str.len = WordSoFar

\* The array has the words that are done, and is as long as it says.
DaFits ==
    /\ da = [place |-> da.place, cap |-> da.cap, items |-> da.items, done |-> da.done]
    /\ da.cap \in Nat \ { 0 } /\ da.done \in Nat
    /\ \E p \in da.place : p.size = PointerSize * (da.cap + 1)
    /\ da.items = [i \in 1 .. Done |-> { ArgumentLength(i) }]

\* As long as the arena answered.
Sound ==
    /\ pc \in { "frame", "given up" } \cup BeforeWord \cup InWord
    /\ pc \in BeforeWord => Ahead
    /\ pc \in { "command", "array", "items" } => Done = 0
    /\ pc = "chars" => todo # << >>
    /\ pc \in InWord => Within /\ StrFits
    /\ pc \in InToken => Head(todo) # << >>
    /\ pc \in InWord \ InToken => Head(todo) = << >>
    /\ pc \in InText => Parsed /\ BufFits
    /\ pc \in { "grow", "store" } => parts # << >>
    /\ pc = "store" => buf.len + Head(parts).n < buf.cap
    /\ pc = "path" => AtFirst /\ lookup.external /\ item = { TextLength(Token) }
    /\ pc = "append" => IF Piece = 0 THEN item \subseteq { 0 } ELSE item = { Piece }
    /\ pc \in InWord \cup { "word", "chars" } => DaFits
    /\ pc \in { "copy", "last" } => Count + 1 < da.cap

GrowthInv == refused \in BOOLEAN /\ Named /\ (~refused => Sound)

-----------------------------------------------------------------------------
(* What each part depends on.                                               *)

\* What a request gives.
LEMMA AllocGives ==
    ASSUME NEW size, Alloc(size), refused \in BOOLEAN
    PROVE  /\ refused' \in BOOLEAN
           /\ size \in Nat \ { 0 }
           /\ ~refused' => /\ ~refused /\ answer' # {}
                           /\ \E p \in answer' : p.size = size
<1>1. size \in Nat \ { 0 }
  BY ArenaAssumption DEF Alloc
<1>2. refused' = (refused \/ answer' = {})
  BY DEF Alloc
<1>3. answer' = {} \/ \E p \in answer' : p.size = size
  BY DEF Alloc, AllocInBlock, AllocInNewBlock, AllocFails, Give
<1> QED BY <1>1, <1>2, <1>3

LEMMA NoAllocGives ==
    ASSUME NoAlloc, refused \in BOOLEAN
    PROVE  refused' \in BOOLEAN /\ refused' = refused
BY DEF NoAlloc

LEMMA SameCommand ==
    ASSUME command' = command, todo' = todo
    PROVE  /\ Done' = Done /\ AtWord' = AtWord /\ TokensDone' = TokensDone /\ Token' = Token
           /\ AtFirst' = AtFirst
           /\ Ahead => Ahead'
           /\ Within => Within'
BY DEF Done, AtWord, TokensDone, Token, AtFirst, Ahead, Within

LEMMA SameParts ==
    ASSUME command' = command, todo' = todo, parts' = parts
    PROVE  /\ PartsDone' = PartsDone
           /\ Parsed => Parsed'
BY DEF Parsed, PartsDone, Token

LEMMA SameBuf ==
    ASSUME command' = command, todo' = todo, parts' = parts, buf' = buf, BufFits
    PROVE  BufFits'
BY SameParts, SameCommand DEF BufFits

LEMMA SameStr ==
    ASSUME command' = command, lookup' = lookup, todo' = todo, str' = str, StrFits
    PROVE  StrFits'
BY SameCommand DEF StrFits, WordSoFar, Looked

LEMMA SameDa ==
    ASSUME command' = command, lookup' = lookup, Done' = Done, da' = da, DaFits
    PROVE  DaFits'
BY DEF DaFits, ArgumentLength

\* What Within says of the words at hand.
LEMMA WithinGives ==
    ASSUME Within
    PROVE  /\ Done \in Nat /\ Done + 1 \in 1 .. Len(command) /\ AtWord \in Seq(Texts)
           /\ Head(todo) \in Seq(Texts) /\ TokensDone \in Nat
           /\ Head(todo) # << >> =>
                /\ Token \in Texts /\ TokensDone + 1 \in 1 .. Len(AtWord)
                /\ AtWord[TokensDone + 1] = Token
                /\ Tail(Head(todo)) \in Seq(Texts)
                /\ Suffix(AtWord, Tail(Head(todo)), TokensDone + 1)
           /\ Head(todo) = << >> => TokensDone = Len(AtWord)
<1>1. /\ Len(command) \in Nat /\ Len(todo) \in Nat /\ Len(todo) # 0
      /\ Tail(todo) \in Seq(Seq(Texts)) /\ Len(Tail(todo)) = Len(todo) - 1
      /\ Head(todo) \in Seq(Texts)
  BY EmptySeq, LenProperties, HeadTailProperties, ElementOfSeq DEF Within
<1>2. Done + 1 \in Nat /\ Done \in Nat /\ Done + 1 <= Len(command)
  <2>1. Done \in Nat /\ Len(Tail(todo)) + (Done + 1) = Len(command)
    BY DEF Within, Suffix
  <2>2. Len(Tail(todo)) \in Nat
    BY <1>1, LenProperties
  <2> QED BY <1>1, <2>1, <2>2
<1>3. Done + 1 \in 1 .. Len(command)
  BY <1>1, <1>2
<1>4. AtWord \in Seq(Texts)
  <2>1. command[Done + 1] \in WordTexts
    BY <1>3, ElementOfSeq DEF Within
  <2> QED BY <2>1 DEF AtWord, WordTexts
<1>5. TokensDone \in Nat /\ Suffix(AtWord, Head(todo), TokensDone)
  BY DEF Within, Suffix
<1>6. Head(todo) # << >> =>
                /\ Token \in Texts /\ TokensDone + 1 \in 1 .. Len(AtWord)
                /\ AtWord[TokensDone + 1] = Token
                /\ Tail(Head(todo)) \in Seq(Texts)
                /\ Suffix(AtWord, Tail(Head(todo)), TokensDone + 1)
  BY <1>1, <1>4, <1>5, NextLeft DEF Token
<1>7. Head(todo) = << >> => TokensDone = Len(AtWord)
  <2>1. ASSUME Head(todo) = << >> PROVE TokensDone = Len(AtWord)
    <3>1. Len(Head(todo)) = 0 /\ Len(AtWord) \in Nat
      BY <1>4, <2>1, EmptySeq, LenProperties
    <3> QED BY <3>1 DEF TokensDone
  <2> QED BY <2>1
<1> QED BY <1>1, <1>2, <1>3, <1>4, <1>5, <1>6, <1>7

-----------------------------------------------------------------------------
(* Each action keeps it, as long as the arena answers.                      *)

LEMMA FrameSound ==
    ASSUME Frame PROVE Sound'
<1>1. command' \in Seq(WordTexts) /\ todo' = command' /\ pc' = "command"
  BY GrowthAssumption DEF Frame, WordTexts
<1>2. Done' = 0 /\ Ahead'
  <2>1. PICK c \in Seq(WordTexts) : c = command'
    BY <1>1
  <2>2. Len(c) - Len(c) = 0
    BY LenProperties
  <2>3. Done' = 0
    BY <1>1, <2>1, <2>2 DEF Done
  <2>4. Suffix(c, c, 0)
    BY AllLeft
  <2> QED BY <1>1, <2>1, <2>3, <2>4 DEF Ahead
<1> QED BY <1>1, <1>2 DEF Sound, BeforeWord, InWord, InToken, InText

LEMMA StructSound ==
    ASSUME Sound, Named, Struct, lookup' = lookup, ~refused', refused \in BOOLEAN
    PROVE  Sound'
<1>1. answer' # {}
  BY AllocGives DEF Struct
<1>2. pc \in { "command", "array", "word" } /\ pc' = Then[pc]
  BY <1>1 DEF Struct, Then
<1>3. Ahead' /\ Done' = Done /\ todo' = todo /\ command' = command /\ da' = da
  BY <1>2, SameCommand DEF Struct, Sound, BeforeWord
<1>4. CASE pc = "command"
  BY <1>2, <1>3, <1>4 DEF Sound, BeforeWord, InWord, InToken, InText, Then
<1>5. CASE pc = "array"
  BY <1>2, <1>3, <1>5 DEF Sound, BeforeWord, InWord, InToken, InText, Then
<1>6. CASE pc = "word"
  <2>1. todo # << >> /\ DaFits /\ pc' = "chars"
    BY <1>2, <1>6 DEF Struct, Sound, Then
  <2>2. DaFits'
    BY <1>3, <2>1, SameDa
  <2> QED BY <1>3, <2>1, <2>2 DEF Sound, BeforeWord, InWord, InToken, InText
<1> QED BY <1>2, <1>4, <1>5, <1>6

LEMMA ItemsSound ==
    ASSUME Sound, Named, Items, lookup' = lookup, ~refused', refused \in BOOLEAN
    PROVE  Sound'
<1>1. answer' # {} /\ \E p \in answer' : p.size = PointerSize * (DaCap + 1)
  BY AllocGives DEF Items
<1>2. pc = "items" /\ pc' = "word"
  BY <1>1 DEF Items
<1>3. Ahead' /\ Done' = 0 /\ todo' = todo /\ command' = command
  BY <1>2, SameCommand DEF Items, Sound, BeforeWord
<1>4. da' = [place |-> answer', cap |-> DaCap, items |-> << >>, done |-> 0]
  BY DEF Items
<1>5. << >> = [i \in 1 .. Done' |-> { ArgumentLength(i)' }]
  BY <1>3
<1>6. DaFits'
  BY <1>1, <1>4, <1>5, GrowthAssumption DEF DaFits
<1> QED BY <1>2, <1>3, <1>6 DEF Sound, BeforeWord, InWord, InToken, InText

LEMMA CharsSound ==
    ASSUME Sound, Named, Chars, lookup' = lookup, ~refused', refused \in BOOLEAN
    PROVE  Sound'
<1>1. answer' # {} /\ \E p \in answer' : p.size = StrCap
  BY AllocGives DEF Chars
<1>2. pc = "chars" /\ pc' = "token" /\ todo # << >> /\ Ahead /\ DaFits
  BY <1>1 DEF Chars, Sound, BeforeWord
<1>3. Done' = Done /\ AtWord' = AtWord /\ TokensDone' = TokensDone
      /\ todo' = todo /\ command' = command
  BY SameCommand DEF Chars
<1>4. /\ command \in Seq(WordTexts) /\ todo \in Seq(WordTexts)
      /\ Done \in Nat /\ Suffix(command, todo, Done)
  BY <1>2 DEF Ahead, Suffix
<1>5. /\ Head(todo) = AtWord /\ Head(todo) \in WordTexts
      /\ Tail(todo) \in Seq(WordTexts)
      /\ Suffix(command, Tail(todo), Done + 1)
  BY <1>2, <1>4, NextLeft DEF AtWord
<1>6. todo \in Seq(Seq(Texts))
  BY <1>4 DEF WordTexts
<1>7. AtWord \in Seq(Texts) /\ Head(todo) # << >> /\ TokensDone = 0
  <2>1. AtWord \in Seq(Texts) /\ Head(todo) # << >>
    BY <1>5 DEF WordTexts
  <2>2. Len(AtWord) \in Nat
    BY <2>1, LenProperties
  <2> QED BY <1>5, <2>1, <2>2 DEF TokensDone
<1>8. Suffix(AtWord, Head(todo), TokensDone)
  BY <1>5, <1>7, AllLeft
<1>9. Within
  BY <1>2, <1>4, <1>5, <1>6, <1>8 DEF Within
<1>10. Within'
  BY <1>3, <1>9, SameCommand
<1>11. WordSums(AtWord)[0] = 0
  BY <1>7, WordSumsDef
<1>12. str' = [place |-> answer', cap |-> StrCap, len |-> 0]
  BY DEF Chars
<1>13. StrFits'
  BY <1>1, <1>3, <1>7, <1>11, <1>12, GrowthAssumption DEF StrFits, WordSoFar, Looked
<1>14. DaFits'
  BY <1>2, <1>3, SameDa DEF Chars
<1> QED BY <1>2, <1>3, <1>7, <1>10, <1>13, <1>14
        DEF Sound, BeforeWord, InWord, InToken, InText

\* What stays when only the token's own state changes.
LEMMA TokenStays ==
    ASSUME Sound, pc \in InToken, command' = command, lookup' = lookup, todo' = todo,
           str' = str, da' = da
    PROVE  Within' /\ StrFits' /\ DaFits' /\ Head(todo') # << >>
           /\ Token' = Token /\ Token \in Texts /\ Done' = Done
<1>1. Within /\ StrFits /\ DaFits /\ Head(todo) # << >>
  BY DEF Sound, InWord
<1>2. Token \in Texts
  BY <1>1, WithinGives
<1>3. Done' = Done /\ Token' = Token /\ Within'
  BY <1>1, SameCommand
<1>4. StrFits'
  BY <1>1, SameStr
<1>5. DaFits'
  BY <1>1, <1>3, SameDa
<1> QED BY <1>1, <1>2, <1>3, <1>4, <1>5

\* The text of a token goes to get_path() or is the piece to append.
LEMMA TextIsPiece ==
    ASSUME Named, command' = command, lookup' = lookup, todo' = todo, Token \in Texts,
           TextDone({ TextLength(Token) })
    PROVE  /\ pc' \in { "path", "append" }
           /\ pc' = "path" => AtFirst' /\ lookup'.external /\ item' = { TextLength(Token)' }
           /\ pc' = "append" => IF Piece' = 0 THEN item' \subseteq { 0 } ELSE item' = { Piece' }
<1>1. AtFirst' = AtFirst /\ Token' = Token /\ TextLength(Token) \in Nat
  BY SameCommand, TextSumsDef
<1>2. TextLength(Token)' = TextLength(Token)
  BY <1>1 DEF TextLength, TextSums
<1>3. Piece' = Piece
  BY <1>1, <1>2 DEF Piece, Looked
<1>4. /\ item' = { TextLength(Token) }
      /\ pc' = IF AtFirst /\ lookup.external THEN "path" ELSE "append"
  BY DEF TextDone
<1>5. ASSUME ~(AtFirst /\ lookup.external) PROVE Piece = TextLength(Token)
  BY <1>1, <1>5 DEF Piece, Looked, Named
<1> QED BY <1>1, <1>2, <1>3, <1>4, <1>5

LEMMA UnquoteSound ==
    ASSUME Sound, Named, Unquote, lookup' = lookup, ~refused', refused \in BOOLEAN
    PROVE  Sound'
<1>1. pc = "token" /\ pc \in InToken
  BY DEF Unquote, InToken
<1>2. command' = command /\ todo' = todo /\ str' = str /\ da' = da
  BY DEF Unquote
<1>3. Within' /\ StrFits' /\ DaFits' /\ Head(todo') # << >>
  BY <1>1, <1>2, TokenStays
<1>4. pc' = "expand"
  <2>1. CASE Token.copied
    <3>1. /\ Alloc(Token.raw + 1)
          /\ IF answer' = {} THEN TextDone({}) ELSE pc' = "expand" /\ item' = {}
      BY <2>1 DEF Unquote
    <3> QED BY <3>1, AllocGives
  <2>2. CASE ~Token.copied
    BY <2>2 DEF Unquote
  <2> QED BY <2>1, <2>2
<1> QED BY <1>3, <1>4 DEF Sound, BeforeWord, InWord, InToken, InText

LEMMA ExpandSound ==
    ASSUME Sound, Named, Expand, lookup' = lookup, ~refused', refused \in BOOLEAN
    PROVE  Sound'
<1>1. pc = "expand" /\ pc \in InToken
  BY DEF Expand, InToken
<1>2. command' = command /\ todo' = todo /\ str' = str /\ da' = da
  BY DEF Expand
<1>3. Within' /\ StrFits' /\ DaFits' /\ Head(todo') # << >> /\ Token' = Token /\ Token \in Texts
  BY <1>1, <1>2, TokenStays
<1>4. CASE ~HasDollar(Token.parts)
  <2>1. TextDone({ Token.raw })
    BY <1>4 DEF Expand
  <2>2. TextDone({ TextLength(Token) })
    BY <1>3, <1>4, <2>1, TextSumsDef
  <2> QED BY <1>2, <1>3, <2>2, TextIsPiece DEF Sound, BeforeWord, InWord, InToken, InText
<1>5. CASE HasDollar(Token.parts)
  <2>1. /\ Alloc(BufCap) /\ parts' = Token.parts /\ pc' = "parts"
        /\ buf' = [place |-> answer', cap |-> BufCap, len |-> 0, text |-> 0]
    BY <1>5 DEF Expand
  <2>2. \E p \in answer' : p.size = BufCap
    BY <2>1, AllocGives
  <2>3. /\ Token.parts \in Seq(PartRecords) /\ TextSums(Token)[0] = 0
    BY <1>3, TextSumsDef
  <2>4. PartsDone' = 0
    <3>1. PartsDone' = Len(Token.parts) - Len(Token.parts)
      BY <1>3, <2>1 DEF PartsDone
    <3>2. Len(Token.parts) \in Nat
      BY <2>3, LenProperties
    <3> QED BY <3>1, <3>2
  <2>5. Suffix(Token.parts, Token.parts, 0)
    BY <2>3, AllLeft
  <2>6. Parsed'
    BY <1>3, <2>1, <2>3, <2>4, <2>5 DEF Parsed
  <2>7. BufFits'
    BY <1>3, <2>1, <2>2, <2>3, <2>4, GrowthAssumption DEF BufFits
  <2> QED BY <1>3, <2>1, <2>6, <2>7 DEF Sound, BeforeWord, InWord, InToken, InText
<1> QED BY <1>4, <1>5

\* The next part of a token, and how far the parts before it go.
LEMMA PartGives ==
    ASSUME Parsed, Token \in Texts
    PROVE  /\ PartsDone \in 0 .. Len(Token.parts)
           /\ parts = << >> => TextSums(Token)[PartsDone] = TextLength(Token)
           /\ parts # << >> =>
                /\ Head(parts) \in PartRecords /\ Head(parts).n \in Nat
                /\ Tail(parts) \in Seq(PartRecords)
                /\ Len(Token.parts) - Len(Tail(parts)) = PartsDone + 1
                /\ Suffix(Token.parts, Tail(parts), PartsDone + 1)
                /\ TextSums(Token)[PartsDone + 1] = TextSums(Token)[PartsDone] + Head(parts).n
<1> DEFINE t == Token.parts
           d == PartsDone
<1>1. /\ t \in Seq(PartRecords) /\ parts \in Seq(PartRecords)
      /\ Suffix(t, parts, d) /\ d = Len(t) - Len(parts)
      /\ \A k \in 1 .. Len(t) : TextSums(Token)[k] = TextSums(Token)[k - 1] + t[k].n
      /\ TextSums(Token)[Len(t)] = TextLength(Token)
  BY TextSumsDef DEF Parsed, PartsDone, TextLength
<1> HIDE DEF t, d
<1>2. Len(t) \in Nat /\ Len(parts) \in Nat
  BY <1>1, LenProperties
<1>3. d \in 0 .. Len(t)
  BY <1>1, <1>2 DEF Suffix
<1>4. ASSUME parts = << >> PROVE TextSums(Token)[d] = TextLength(Token)
  <2>1. Len(parts) = 0
    BY <1>4, EmptySeq
  <2> QED BY <1>1, <1>2, <2>1
<1>5. ASSUME parts # << >>
      PROVE  /\ Head(parts) \in PartRecords /\ Head(parts).n \in Nat
             /\ Tail(parts) \in Seq(PartRecords)
             /\ Len(t) - Len(Tail(parts)) = d + 1
             /\ Suffix(t, Tail(parts), d + 1)
             /\ TextSums(Token)[d + 1] = TextSums(Token)[d] + Head(parts).n
  <2>1. /\ d + 1 \in 1 .. Len(t) /\ Head(parts) = t[d + 1] /\ Head(parts) \in PartRecords
        /\ Tail(parts) \in Seq(PartRecords) /\ Len(Tail(parts)) = Len(parts) - 1
        /\ Suffix(t, Tail(parts), d + 1)
    BY <1>1, <1>5, NextLeft
  <2>2. Head(parts).n \in Nat
    BY <2>1 DEF PartRecords
  <2>3. Len(t) - Len(Tail(parts)) = d + 1
    BY <1>1, <1>2, <2>1
  <2>4. d + 1 - 1 = d
    BY <1>3
  <2>5. TextSums(Token)[d + 1] = TextSums(Token)[d] + t[d + 1].n
    BY <1>1, <2>1, <2>4
  <2> QED BY <2>1, <2>2, <2>3, <2>5
<1> QED BY <1>3, <1>4, <1>5 DEF t, d

\* A part is done: the next one is at hand.
LEMMA PartDone ==
    ASSUME Parsed, Token \in Texts, parts # << >>,
           Token' = Token, parts' = Tail(parts)
    PROVE  Parsed' /\ PartsDone' = PartsDone + 1
<1>1. /\ Tail(parts) \in Seq(PartRecords)
      /\ Len(Token.parts) - Len(Tail(parts)) = PartsDone + 1
      /\ Suffix(Token.parts, Tail(parts), PartsDone + 1)
  BY PartGives
<1>2. PartsDone' = Len(Token.parts) - Len(Tail(parts))
  BY DEF PartsDone
<1> QED BY <1>1, <1>2 DEF Parsed

LEMMA PartSound ==
    ASSUME Sound, Named, Part, lookup' = lookup, ~refused', refused \in BOOLEAN
    PROVE  Sound'
<1>1. pc = "parts" /\ pc \in InToken
  BY DEF Part, InToken
<1>2. command' = command /\ todo' = todo /\ str' = str /\ da' = da /\ buf' = buf
  BY DEF Part
<1>3. Within' /\ StrFits' /\ DaFits' /\ Head(todo') # << >> /\ Token' = Token /\ Token \in Texts
  BY <1>1, <1>2, TokenStays
<1>4. Parsed /\ BufFits
  BY <1>1 DEF Sound, InText
<1>5. CASE parts = << >>
  <2>1. TextDone(IF buf.place = NoPlace THEN {} ELSE { buf.text })
    BY <1>5 DEF Part
  <2>2. buf.place # NoPlace
    BY <1>4 DEF BufFits, NoPlace
  <2>3. buf.text = TextLength(Token)
    BY <1>3, <1>4, <1>5, PartGives DEF BufFits
  <2>4. TextDone({ TextLength(Token) })
    BY <2>1, <2>2, <2>3
  <2> QED BY <1>2, <1>3, <2>4, TextIsPiece DEF Sound, BeforeWord, InWord, InToken, InText
<1>6. CASE parts # << >> /\ parts' = parts /\ pc' = "grow"
  <2>1. Parsed' /\ BufFits'
    BY <1>2, <1>4, <1>6, SameParts, SameBuf
  <2> QED BY <1>3, <1>6, <2>1 DEF Sound, BeforeWord, InWord, InToken, InText
<1>7. CASE parts # << >> /\ Head(parts).n = 0 /\ parts' = Tail(parts) /\ pc' = "parts"
  <2>1. Parsed' /\ PartsDone' = PartsDone + 1
    BY <1>3, <1>4, <1>7, PartDone
  <2>2. PartsDone \in Nat /\ TextSums(Token)[PartsDone + 1] = TextSums(Token)[PartsDone] + 0
    BY <1>3, <1>4, <1>7, PartGives
  <2>3. buf.len \in Nat /\ buf.len = TextSums(Token)[PartsDone]
    BY <1>4 DEF BufFits
  <2>4. buf.len = TextSums(Token)[PartsDone + 1]
    BY <2>2, <2>3
  <2>5. BufFits'
    BY <1>2, <1>3, <1>4, <2>1, <2>4 DEF BufFits
  <2> QED BY <1>3, <1>7, <2>1, <2>5 DEF Sound, BeforeWord, InWord, InToken, InText
<1>8. CASE parts # << >> /\ ~IsValue(Head(parts))
  BY <1>6, <1>8 DEF Part
<1>9. CASE parts # << >> /\ IsValue(Head(parts))
  <2>1. /\ Alloc(Head(parts).n + 1)
        /\ IF answer' = {} \/ Head(parts).n = 0
             THEN pc' = pc /\ parts' = Tail(parts)
             ELSE pc' = "grow" /\ parts' = parts
    BY <1>9 DEF Part
  <2>2. answer' # {}
    BY <2>1, AllocGives
  <2> QED BY <1>1, <1>6, <1>7, <1>9, <2>1, <2>2
<1> QED BY <1>5, <1>8, <1>9

LEMMA GrowSound ==
    ASSUME Sound, Named, Grow, lookup' = lookup, ~refused', refused \in BOOLEAN
    PROVE  Sound'
<1> DEFINE n == Head(parts).n
           cap == Doubled(buf.cap, buf.len + n)
<1>1. pc = "grow" /\ pc \in InToken
  BY DEF Grow, InToken
<1>2. command' = command /\ todo' = todo /\ str' = str /\ da' = da /\ parts' = parts
  BY DEF Grow
<1>3. Within' /\ StrFits' /\ DaFits' /\ Head(todo') # << >> /\ Token' = Token /\ Token \in Texts
  BY <1>1, <1>2, TokenStays
<1>4. Parsed /\ BufFits /\ parts # << >>
  BY <1>1 DEF Sound, InText
<1>5. n \in Nat /\ buf.cap \in Nat \ { 0 } /\ buf.len \in Nat
  BY <1>3, <1>4, PartGives DEF BufFits
<1>6. cap \in Nat /\ cap > buf.len + n
  <2>1. buf.len + n \in Nat
    BY <1>5
  <2> QED BY <1>5, <2>1, DoubledEnough
<1>7. Parsed' /\ PartsDone' = PartsDone /\ pc' = "store"
  BY <1>2, <1>4, SameParts DEF Grow, BufFits, NoPlace
<1>8. CASE Roomy(n)
  <2>1. buf' = buf
    BY <1>8 DEF Grow
  <2>2. BufFits'
    BY <1>2, <1>4, <2>1, SameBuf
  <2>3. buf.len + n < buf.cap
    BY <1>5, <1>8 DEF Roomy
  <2>4. buf'.len + Head(parts').n < buf'.cap
    BY <1>2, <2>1, <2>3
  <2> QED BY <1>1, <1>2, <1>3, <1>4, <1>7, <2>2, <2>4
          DEF Sound, BeforeWord, InWord, InToken, InText
<1>9. CASE ~Roomy(n)
  <2>1. /\ Alloc(cap)
        /\ buf' = IF answer' = {} THEN buf
                  ELSE [buf EXCEPT !.place = answer', !.cap = cap]
    BY <1>9 DEF Grow
  <2>2. answer' # {} /\ \E p \in answer' : p.size = cap
    <3> HIDE DEF cap
    <3> QED BY <2>1, AllocGives
  <2>3. buf' = [place |-> answer', cap |-> cap, len |-> buf.len, text |-> buf.text]
    <3> HIDE DEF cap
    <3>1. buf = [place |-> buf.place, cap |-> buf.cap, len |-> buf.len, text |-> buf.text]
      BY <1>4 DEF BufFits
    <3> QED BY <2>1, <2>2, <3>1
  <2>4. BufFits'
    <3> HIDE DEF cap, n
    <3> QED BY <1>3, <1>4, <1>5, <1>6, <1>7, <2>2, <2>3 DEF BufFits
  <2>5. buf'.len + Head(parts').n < buf'.cap
    <3> HIDE DEF cap
    <3> QED BY <1>2, <1>5, <1>6, <2>3
  <2> QED BY <1>1, <1>2, <1>3, <1>4, <1>7, <2>4, <2>5
          DEF Sound, BeforeWord, InWord, InToken, InText
<1> QED BY <1>8, <1>9

LEMMA StoreSound ==
    ASSUME Sound, Store, lookup' = lookup PROVE Sound'
<1> DEFINE n == Head(parts).n
<1>1. pc = "store" /\ pc \in InToken
  BY DEF Store, InToken
<1>2. command' = command /\ todo' = todo /\ str' = str /\ da' = da /\ parts' = Tail(parts)
  BY DEF Store
<1>3. Within' /\ StrFits' /\ DaFits' /\ Head(todo') # << >> /\ Token' = Token /\ Token \in Texts
  BY <1>1, <1>2, TokenStays
<1>4. Parsed /\ BufFits /\ parts # << >> /\ buf.len + n < buf.cap
  BY <1>1 DEF Sound, InText
<1>5. n \in Nat /\ buf.cap \in Nat \ { 0 } /\ buf.len \in Nat /\ PartsDone \in Nat
      /\ TextSums(Token)[PartsDone + 1] = TextSums(Token)[PartsDone] + n
  BY <1>3, <1>4, PartGives DEF BufFits
<1>6. Parsed' /\ PartsDone' = PartsDone + 1
  BY <1>2, <1>3, <1>4, PartDone
<1> DEFINE cut == buf.cap - buf.len
           end == IF IsValue(Head(parts)) /\ n >= cut /\ cut >= 0 THEN buf.cap - 1
                  ELSE buf.len + n
<1>7. end = buf.len + n /\ end \in Nat /\ end < buf.cap
  <2>1. ~(n >= cut)
    BY <1>4, <1>5
  <2> QED BY <1>4, <1>5, <2>1
<1>8. /\ pc' = After(buf.place, end, "parts")
      /\ buf' = [buf EXCEPT !.len = @ + n, !.text = IF @ = buf.len THEN end ELSE @]
  BY DEF Store
<1> HIDE DEF end, n
<1>9. pc' = "parts"
  <2>1. Holds(buf.place, end) /\ buf.place # NoPlace
    BY <1>4, <1>7 DEF BufFits, Holds, NoPlace
  <2> QED BY <1>8, <2>1 DEF After
<1>10. buf' = [place |-> buf.place, cap |-> buf.cap, len |-> buf.len + n, text |-> buf.len + n]
  <2>1. /\ buf = [place |-> buf.place, cap |-> buf.cap, len |-> buf.len, text |-> buf.text]
        /\ buf.text = buf.len
    BY <1>4 DEF BufFits
  <2> QED BY <1>7, <1>8, <2>1
<1>11. BufFits'
  BY <1>3, <1>4, <1>5, <1>6, <1>7, <1>10 DEF BufFits
<1> QED BY <1>3, <1>6, <1>9, <1>11 DEF Sound, BeforeWord, InWord, InToken, InText

LEMMA GetPathSound ==
    ASSUME Sound, Named, GetPath, lookup' = lookup, ~refused', refused \in BOOLEAN
    PROVE  Sound'
<1> DEFINE n == TextLength(Token)
<1>1. pc = "path" /\ pc \in InToken
  BY DEF GetPath, InToken
<1>2. command' = command /\ todo' = todo /\ str' = str /\ da' = da
  BY DEF GetPath
<1>3. Within' /\ StrFits' /\ DaFits' /\ Head(todo') # << >> /\ Token' = Token /\ Token \in Texts
  BY <1>1, <1>2, TokenStays
<1>4. AtFirst /\ item = { n } /\ n \in Nat /\ lookup.prefix \in Nat
  BY <1>1, <1>3, TextSumsDef DEF Sound, Named
<1>5. Piece' = Piece /\ Piece = IF n > 0 THEN n + lookup.prefix ELSE n
  <2>1. AtFirst' = AtFirst
    BY <1>2, SameCommand
  <2>2. TextLength(Token)' = TextLength(Token)
    BY <1>3 DEF TextLength, TextSums
  <2> QED BY <1>3, <1>4, <2>1, <2>2 DEF Piece, Looked
<1>6. /\ IF n = 0 \/ lookup.prefix = 0 THEN NoAlloc /\ item' = item \ { 0 }
         ELSE /\ Alloc(n + lookup.prefix + 1)
              /\ item' = IF answer' = {} THEN {} ELSE { n + lookup.prefix }
      /\ pc' = "append"
  <2> HIDE DEF n
  <2> QED BY <1>4 DEF GetPath
<1> HIDE DEF n
<1>7. IF Piece = 0 THEN item' \subseteq { 0 } ELSE item' = { Piece }
  <2>1. CASE n = 0 \/ lookup.prefix = 0
    BY <1>4, <1>5, <1>6, <2>1
  <2>2. CASE ~(n = 0 \/ lookup.prefix = 0)
    <3>1. answer' # {}
      BY <1>6, <2>2, AllocGives
    <3> QED BY <1>4, <1>5, <1>6, <2>2, <3>1
  <2> QED BY <2>1, <2>2
<1> QED BY <1>3, <1>5, <1>6, <1>7 DEF Sound, BeforeWord, InWord, InToken, InText

LEMMA PieceKeeps ==
    ASSUME Within, Head(todo) # << >>, command' = command, PieceDone
    PROVE  /\ Within' /\ Done' = Done /\ AtWord' = AtWord /\ TokensDone' = TokensDone + 1
           /\ AtFirst' = AtFirst
           /\ Head(todo') # << >> <=> pc' = "token"
           /\ pc' \in { "token", "full" }
<1> DEFINE h == Tail(Head(todo))
           r == << h >> \o Tail(todo)
<1>1. /\ AtWord \in Seq(Texts) /\ Head(todo) \in Seq(Texts) /\ TokensDone \in Nat
      /\ h \in Seq(Texts) /\ Suffix(AtWord, h, TokensDone + 1)
  BY WithinGives
<1>2. /\ todo \in Seq(Seq(Texts)) /\ todo # << >> /\ Tail(todo) \in Seq(WordTexts)
      /\ command \in Seq(WordTexts)
      /\ Done \in Nat /\ Suffix(command, Tail(todo), Done + 1)
  BY DEF Within
<1>3. /\ Len(h) = Len(Head(todo)) - 1 /\ Len(Head(todo)) \in Nat
  BY <1>1, HeadTailProperties, LenProperties
<1>4. todo' = r /\ pc' = IF Len(Head(todo)) > 1 THEN "token" ELSE "full"
  BY DEF PieceDone
<1> HIDE DEF h
<1>5. /\ r \in Seq(Seq(Texts)) /\ r # << >> /\ Head(r) = h /\ Tail(r) = Tail(todo)
      /\ Len(r) = Len(todo)
  BY <1>1, <1>2, NewHead
<1> HIDE DEF r
<1>6. Done' = Done /\ AtWord' = AtWord /\ AtFirst' = AtFirst
  BY <1>4, <1>5 DEF Done, AtWord, AtFirst
<1>7. TokensDone' = TokensDone + 1
  <2>1. TokensDone' = Len(AtWord) - Len(h)
    BY <1>4, <1>5, <1>6 DEF TokensDone
  <2>2. Len(AtWord) \in Nat
    BY <1>1, LenProperties
  <2>3. TokensDone = Len(AtWord) - Len(Head(todo))
    BY DEF TokensDone
  <2> QED BY <1>3, <2>1, <2>2, <2>3
<1>8. Within'
  BY <1>1, <1>2, <1>4, <1>5, <1>6, <1>7 DEF Within
<1>9. h # << >> <=> Len(Head(todo)) > 1
  <2>1. h = << >> <=> Len(h) = 0
    BY <1>1, EmptySeq
  <2> QED BY <1>3, <2>1
<1> QED BY <1>4, <1>5, <1>6, <1>7, <1>8, <1>9

\* The first of the words is at hand exactly when none is done.
LEMMA FirstIsNone ==
    ASSUME Within
    PROVE  AtFirst <=> Done = 0
<1>1. Len(todo) \in Nat /\ Len(command) \in Nat
  BY LenProperties DEF Within
<1> QED BY <1>1 DEF AtFirst, Done

\* With the piece of its token the string has one token more of the word.
LEMMA OnePieceMore ==
    ASSUME Within, Named, Head(todo) # << >>, AtFirst' = AtFirst, lookup' = lookup,
           AtWord' = AtWord, TokensDone' = TokensDone + 1
    PROVE  WordSoFar \in Nat /\ Piece \in Nat /\ WordSoFar' = WordSoFar + Piece
<1> DEFINE d == TokensDone
           n == TextLength(Token)
<1>1. /\ Token \in Texts /\ AtWord \in Seq(Texts) /\ d + 1 \in 1 .. Len(AtWord)
      /\ AtWord[d + 1] = Token /\ d \in Nat
      /\ Done + 1 \in 1 .. Len(command) /\ Done \in Nat
  BY WithinGives
<1>2. n \in Nat /\ lookup.prefix \in Nat
  BY <1>1, TextSumsDef DEF Named
<1>3. WordSums(AtWord)[d + 1] = WordSums(AtWord)[d] + n /\ WordSums(AtWord)[d] \in Nat
  <2>1. d + 1 - 1 = d /\ d \in 0 .. Len(AtWord)
    BY <1>1
  <2>2. WordSums(AtWord)[d + 1] = WordSums(AtWord)[d + 1 - 1] + TextLength(AtWord[d + 1])
    BY <1>1, WordSumsDef
  <2>3. WordSums(AtWord)[d] \in Nat
    BY <1>1, <2>1, WordSumsDef
  <2> QED BY <1>1, <2>1, <2>2, <2>3
<1>4. WordSums(AtWord)' = WordSums(AtWord)
  BY DEF WordSums, TextLength, TextSums
<1>5. CASE ~AtFirst
  BY <1>2, <1>3, <1>4, <1>5 DEF WordSoFar, Piece
<1>6. CASE AtFirst
  <2>1. Done = 0 /\ command # << >>
    BY <1>1, <1>6, FirstIsNone
  <2>2. Len(AtWord) = 1
    BY <2>1 DEF AtWord, Named
  <2>3. d = 0
    BY <1>1, <2>2
  <2>4. WordSums(AtWord)[d] = 0
    BY <1>1, <2>3, WordSumsDef
  <2>5. WordSoFar = 0
    BY <1>6, <2>4 DEF WordSoFar, Looked
  <2>6. WordSoFar' = Looked(n)
    <3>1. WordSums(AtWord)'[TokensDone'] = n
      BY <1>2, <1>3, <1>4, <2>4
    <3> QED BY <1>6, <3>1 DEF WordSoFar, Looked
  <2>7. Piece = Looked(n) /\ Piece \in Nat
    BY <1>2, <1>6 DEF Piece, Looked
  <2> QED BY <2>5, <2>6, <2>7
<1> QED BY <1>5, <1>6

LEMMA StrAppendSound ==
    ASSUME Sound, Named, StrAppend, lookup' = lookup, ~refused', refused \in BOOLEAN
    PROVE  Sound'
<1> DEFINE n == Piece
           cap == Doubled(str.cap, str.len + n)
<1>1. pc = "append" /\ command' = command /\ da' = da
  BY DEF StrAppend
<1>2. /\ Within /\ StrFits /\ DaFits /\ Head(todo) # << >>
      /\ IF n = 0 THEN item \subseteq { 0 } ELSE item = { n }
  BY <1>1 DEF Sound, InWord, InToken
<1>3. \/ item = {} /\ n = 0 /\ PieceDone /\ str' = str
      \/ Append1(n)
  <2>1. \/ item = {} /\ NoAlloc /\ PieceDone /\ UNCHANGED << str, starved >>
        \/ \E m \in item : Append1(m)
    BY DEF StrAppend
  <2> HIDE DEF n
  <2> QED BY <1>2, <2>1
<1>4. AtFirst' = AtFirst /\ AtWord' = AtWord /\ TokensDone' = TokensDone + 1
      => WordSoFar \in Nat /\ n \in Nat /\ WordSoFar' = WordSoFar + n
  BY <1>2, OnePieceMore
<1>5. n \in Nat
  <2>1. Token \in Texts
    BY <1>2, WithinGives
  <2> QED BY <2>1, TextSumsDef DEF Piece, Looked, Named
<1>6. /\ str.len \in Nat /\ str.cap \in Nat \ { 0 } /\ str.len = WordSoFar
      /\ str = [place |-> str.place, cap |-> str.cap, len |-> str.len]
      /\ \E p \in str.place : p.size = str.cap /\ str.len < str.cap
  BY <1>2 DEF StrFits
<1>8. cap \in Nat /\ cap > str.len + n
  <2>1. str.len + n \in Nat
    BY <1>5, <1>6
  <2> QED BY <1>6, <2>1, DoubledEnough
<1> HIDE DEF n, cap
<1>9. /\ PieceDone
      /\ \E place, c : /\ str' = [place |-> place, cap |-> c, len |-> str.len + n]
                       /\ c \in Nat \ { 0 } /\ str.len + n < c
                       /\ \E p \in place : p.size = c
  <2>1. CASE Append1(n) /\ StrGrows(n)
    <3>1. /\ Alloc(cap)
          /\ str' = [place |-> answer', cap |-> cap,
                     len |-> IF answer' = {} THEN str.len ELSE str.len + n]
          /\ IF answer' # {} /\ str.place = NoPlace /\ str.len > 0
             THEN pc' = "null" /\ todo' = todo
             ELSE PieceDone
      BY <2>1 DEF Append1, cap
    <3>2. answer' # {} /\ \E p \in answer' : p.size = cap
      BY <3>1, AllocGives
    <3>3. str.place # NoPlace
      BY <1>6 DEF NoPlace
    <3>4. PieceDone /\ str' = [place |-> answer', cap |-> cap, len |-> str.len + n]
      BY <3>1, <3>2, <3>3
    <3>5. cap \in Nat \ { 0 }
      BY <1>5, <1>6, <1>8
    <3> QED BY <1>8, <3>2, <3>4, <3>5
  <2>2. CASE Append1(n) /\ ~StrGrows(n)
    <3>1. /\ str' = [str EXCEPT !.len = @ + n]
          /\ IF After(str.place, str.len + n, "fine") = "fine" THEN PieceDone
             ELSE pc' = After(str.place, str.len + n, "fine") /\ todo' = todo
      BY <2>2 DEF Append1
    <3>2. str.len + n < str.cap
      BY <1>5, <1>6, <2>2 DEF StrGrows
    <3>3. After(str.place, str.len + n, "fine") = "fine"
      BY <1>6, <3>2 DEF After, Holds, NoPlace
    <3>4. str' = [place |-> str.place, cap |-> str.cap, len |-> str.len + n]
      BY <1>6, <3>1
    <3> QED BY <1>6, <3>1, <3>2, <3>3, <3>4
  <2>3. CASE item = {} /\ n = 0 /\ PieceDone /\ str' = str
    <3>1. str' = [place |-> str.place, cap |-> str.cap, len |-> str.len + n]
      BY <1>6, <2>3
    <3> QED BY <1>6, <2>3, <3>1
  <2> QED BY <1>3, <2>1, <2>2, <2>3
<1>10. /\ Within' /\ Done' = Done /\ AtWord' = AtWord /\ TokensDone' = TokensDone + 1
       /\ AtFirst' = AtFirst
       /\ Head(todo') # << >> <=> pc' = "token"
       /\ pc' \in { "token", "full" }
  BY <1>1, <1>2, <1>9, PieceKeeps
<1>11. StrFits'
  <2>1. str.len + n \in Nat /\ WordSoFar' = str.len + n
    BY <1>4, <1>5, <1>6, <1>10
  <2> QED BY <1>9, <2>1 DEF StrFits
<1>12. DaFits'
  BY <1>1, <1>2, <1>10, SameDa
<1>13. CASE pc' = "token"
  BY <1>10, <1>11, <1>12, <1>13 DEF Sound, BeforeWord, InWord, InToken, InText
<1>14. CASE pc' = "full"
  BY <1>10, <1>11, <1>12, <1>14 DEF Sound, BeforeWord, InWord, InToken, InText
<1> QED BY <1>10, <1>13, <1>14

\* The array at the end of a word.
LEMMA DaGives ==
    ASSUME DaFits, Done \in Nat
    PROVE  /\ Count = Done /\ da.cap \in Nat \ { 0 } /\ da.done \in Nat
           /\ DOMAIN da.items = 1 .. Done
           /\ \A i \in 1 .. Done : da.items[i] = { ArgumentLength(i) }
<1>1. da.items = [i \in 1 .. Done |-> { ArgumentLength(i) }]
  BY DEF DaFits
<1>2. Len([i \in 1 .. Done |-> { ArgumentLength(i) }]) = Done
  OBVIOUS
<1> QED BY <1>1, <1>2 DEF Count, DaFits

\* What stays when only the array changes.
LEMMA WordStays ==
    ASSUME Sound, pc \in { "full", "copy", "last" },
           command' = command, lookup' = lookup, todo' = todo, str' = str
    PROVE  /\ Within' /\ StrFits' /\ Head(todo') = << >> /\ Done' = Done
           /\ Within /\ DaFits /\ Head(todo) = << >> /\ Done \in Nat
<1>1. Within /\ StrFits /\ DaFits /\ Head(todo) = << >>
  BY DEF Sound, InWord, InToken
<1> QED BY <1>1, SameCommand, SameStr, WithinGives

LEMMA ArraySound ==
    ASSUME Sound, Named, Array, lookup' = lookup, ~refused', refused \in BOOLEAN
    PROVE  Sound'
<1>1. pc = "full" /\ command' = command /\ todo' = todo /\ str' = str
  BY DEF Array
<1>2. /\ Within' /\ StrFits' /\ Head(todo') = << >> /\ Done' = Done /\ DaFits /\ Done \in Nat
  BY <1>1, WordStays
<1>3. /\ Count = Done /\ da.cap \in Nat \ { 0 }
      /\ da = [place |-> da.place, cap |-> da.cap, items |-> da.items, done |-> da.done]
      /\ da.items = [i \in 1 .. Done |-> { ArgumentLength(i) }]
  BY <1>2, DaGives DEF DaFits
<1>4. CASE ~DaGrows
  <2>1. pc' = "last" /\ da' = da
    BY <1>4 DEF Array
  <2>2. DaFits' /\ Count' = Count
    BY <1>1, <1>2, <2>1, SameDa DEF Count
  <2>3. Count' + 1 < da'.cap
    BY <1>2, <1>3, <1>4, <2>1, <2>2 DEF DaGrows
  <2> QED BY <1>2, <2>1, <2>2, <2>3 DEF Sound, BeforeWord, InWord, InToken, InText
<1>5. CASE DaGrows
  <2> DEFINE cap == Doubled(da.cap, Count + 1)
  <2>1. /\ Alloc(PointerSize * (cap + 1))
        /\ da' = [da EXCEPT !.place = answer', !.cap = cap, !.done = 0]
        /\ pc' = IF answer' = {} THEN "null" ELSE "copy"
    BY <1>5 DEF Array
  <2>2. cap \in Nat /\ cap > Count + 1
    <3>1. Count + 1 \in Nat
      BY <1>2, <1>3
    <3> QED BY <1>3, <3>1, DoubledEnough
  <2> HIDE DEF cap
  <2>3. answer' # {} /\ \E p \in answer' : p.size = PointerSize * (cap + 1)
    BY <2>1, AllocGives
  <2>4. da' = [place |-> answer', cap |-> cap, items |-> da.items, done |-> 0]
    BY <1>3, <2>1
  <2>5. Count' = Count /\ Count' + 1 < da'.cap
    BY <2>2, <2>4 DEF Count
  <2>6. cap \in Nat \ { 0 }
    BY <1>2, <1>3, <2>2
  <2>7. DaFits'
    BY <1>1, <1>2, <1>3, <2>3, <2>4, <2>6 DEF DaFits, ArgumentLength
  <2> QED BY <1>2, <2>1, <2>3, <2>5, <2>7 DEF Sound, BeforeWord, InWord, InToken, InText
<1> QED BY <1>4, <1>5

LEMMA CopyItemSound ==
    ASSUME Sound, Named, CopyItem, lookup' = lookup, ~refused', refused \in BOOLEAN
    PROVE  Sound'
<1>1. pc = "copy" /\ pc' = pc /\ command' = command /\ todo' = todo /\ str' = str
      /\ da.done < Count
  BY DEF CopyItem
<1>2. /\ Within' /\ StrFits' /\ Head(todo') = << >> /\ Done' = Done /\ DaFits /\ Done \in Nat
      /\ Count + 1 < da.cap
  BY <1>1, WordStays DEF Sound
<1>3. /\ Count = Done /\ da.done \in Nat /\ DOMAIN da.items = 1 .. Done
      /\ da = [place |-> da.place, cap |-> da.cap, items |-> da.items, done |-> da.done]
      /\ \A i \in 1 .. Done : da.items[i] = { ArgumentLength(i) }
      /\ da.items = [i \in 1 .. Done |-> { ArgumentLength(i) }]
  BY <1>2, DaGives DEF DaFits
<1> DEFINE k == da.done + 1
           old == da.items[k]
<1>4. k \in 1 .. Done /\ old # {}
  <2>1. k \in 1 .. Done
    BY <1>1, <1>2, <1>3
  <2>2. old = { ArgumentLength(k) }
    <3> HIDE DEF k
    <3> QED BY <1>3, <2>1, Zenon
  <2>3. old # {}
    <3> HIDE DEF k, old
    <3> QED BY <2>2
  <2> QED BY <2>1, <2>3
<1>5. da' = [place |-> da.place, cap |-> da.cap, items |-> da.items, done |-> k]
  <2>1. PICK n \in old :
          /\ Alloc(n + 1)
          /\ da' = [da EXCEPT !.done = @ + 1,
                       !.items[da.done + 1] = IF answer' = {} THEN {} ELSE old]
    BY <1>4 DEF CopyItem
  <2>2. answer' # {}
    BY <2>1, AllocGives
  <2>3. [da.items EXCEPT ![k] = old] = da.items
    BY <1>3, <1>4
  <2>4. da' = [da EXCEPT !.done = k, !.items = [da.items EXCEPT ![k] = old]]
    BY <1>3, <2>1, <2>2
  <2> QED BY <1>3, <2>3, <2>4
<1>6. k \in Nat
  BY <1>3
<1> HIDE DEF k
<1>7. DaFits' /\ Count' = Count /\ da'.cap = da.cap
  BY <1>1, <1>2, <1>5, <1>6 DEF DaFits, Count, ArgumentLength
<1> QED BY <1>1, <1>2, <1>7 DEF Sound, BeforeWord, InWord, InToken, InText

LEMMA CopiedSound ==
    ASSUME Sound, Copied, lookup' = lookup PROVE Sound'
<1>1. pc = "copy" /\ pc' = "last" /\ command' = command /\ todo' = todo /\ str' = str /\ da' = da
  BY DEF Copied
<1>2. /\ Within' /\ StrFits' /\ Head(todo') = << >> /\ Done' = Done /\ DaFits
      /\ Count + 1 < da.cap
  BY <1>1, WordStays DEF Sound
<1>3. DaFits' /\ Count' = Count
  BY <1>1, <1>2, SameDa DEF Count
<1> QED BY <1>1, <1>2, <1>3 DEF Sound, BeforeWord, InWord, InToken, InText

\* Sizes of arrays grow with their capacities.
LEMMA RoomForLast ==
    ASSUME NEW s \in Nat \ { 0 }, NEW c \in Nat, NEW cap \in Nat, c + 1 < cap
    PROVE  s * (c + 2) - 1 < s * (cap + 1)
<1>1. PICK d \in Nat : cap + 1 = (c + 2) + d
  <2>1. cap - (c + 1) \in Nat /\ cap + 1 = (c + 2) + (cap - (c + 1))
    OBVIOUS
  <2> QED BY <2>1
<1>2. s * (cap + 1) = s * (c + 2) + s * d
  BY <1>1
<1>3. s * d \in Nat /\ s * (c + 2) \in Nat
  OBVIOUS
<1> QED BY <1>2, <1>3

LEMMA LastItemSound ==
    ASSUME Sound, Named, LastItem, lookup' = lookup, ~refused', refused \in BOOLEAN
    PROVE  Sound'
<1>1. pc = "last" /\ command' = command /\ todo' = Tail(todo) /\ str' = str
      /\ pc' = After(da.place, PointerSize * (Count + 2) - 1, "word")
  BY DEF LastItem
<1>2. Within /\ StrFits /\ DaFits /\ Head(todo) = << >> /\ Count + 1 < da.cap
  BY <1>1 DEF Sound, InWord, InToken
<1>3. /\ Done \in Nat /\ Done + 1 \in 1 .. Len(command) /\ TokensDone = Len(AtWord)
      /\ command \in Seq(WordTexts) /\ Tail(todo) \in Seq(WordTexts)
      /\ Suffix(command, Tail(todo), Done + 1)
  BY <1>2, WithinGives DEF Within
<1>4. Done' = Done + 1 /\ Ahead'
  <2>1. Len(Tail(todo)) + (Done + 1) = Len(command) /\ Len(Tail(todo)) \in Nat
    BY <1>3, LenProperties DEF Suffix
  <2>2. Done' = Len(command) - Len(Tail(todo))
    BY <1>1 DEF Done
  <2>3. Done' = Done + 1
    BY <1>3, <2>1, <2>2
  <2> QED BY <1>1, <1>3, <2>3 DEF Ahead
<1>5. str.len = ArgumentLength(Done + 1) /\ str.place # NoPlace
  <2>1. AtFirst <=> Done + 1 = 1
    BY <1>2, <1>3, FirstIsNone
  <2>2. WordSums(AtWord)[TokensDone] = WordLength(command[Done + 1])
    BY <1>3 DEF WordLength, AtWord
  <2>3. str.len = WordSoFar /\ str.place # NoPlace
    BY <1>2 DEF StrFits, NoPlace
  <2> QED BY <2>1, <2>2, <2>3 DEF WordSoFar, Looked, ArgumentLength
<1>6. /\ Count = Done /\ da.cap \in Nat \ { 0 } /\ da.done \in Nat
      /\ da = [place |-> da.place, cap |-> da.cap, items |-> da.items, done |-> da.done]
      /\ \E p \in da.place : p.size = PointerSize * (da.cap + 1)
      /\ DOMAIN da.items = 1 .. Done
      /\ \A i \in 1 .. Done : da.items[i] = { ArgumentLength(i) }
      /\ da.items = [i \in 1 .. Done |-> { ArgumentLength(i) }]
  BY <1>2, <1>3, DaGives DEF DaFits
<1> DEFINE l == { str.len }
           items == Append(da.items, l)
<1>7. da' = [place |-> da.place, cap |-> da.cap, items |-> items, done |-> da.done]
  <2>1. /\ Alloc(str.len + 1)
        /\ da' = [da EXCEPT !.items =
                     Append(@, IF answer' = {} THEN {} ELSE { str.len })]
    BY <1>5 DEF LastItem
  <2>2. answer' # {}
    BY <2>1, AllocGives
  <2> QED BY <1>6, <2>1, <2>2
<1>8. items = [i \in 1 .. Done + 1 |-> { ArgumentLength(i) }]
  <2>1. da.items \in Seq({ { ArgumentLength(i) } : i \in 1 .. Done } \cup { l })
    <3> DEFINE f(i) == { ArgumentLength(i) }
               S == { f(i) : i \in 1 .. Done } \cup { l }
    <3>1. \A i \in 1 .. Done : f(i) \in S
      OBVIOUS
    <3> HIDE DEF f, S
    <3>2. [i \in 1 .. Done |-> f(i)] \in Seq(S)
      BY <1>3, <3>1
    <3> QED BY <1>6, <3>2 DEF f, S
  <2>2. Len(da.items) = Done
    BY <1>6 DEF Count
  <2>3. /\ DOMAIN items = 1 .. Done + 1 /\ items = [i \in 1 .. Done + 1 |-> items[i]]
        /\ \A i \in 1 .. Done : items[i] = da.items[i]
        /\ items[Done + 1] = l
    <3> DEFINE S == { { ArgumentLength(i) } : i \in 1 .. Done } \cup { l }
    <3>1. l \in S
      OBVIOUS
    <3> HIDE DEF S, l
    <3>2. da.items \in Seq(S)
      BY <2>1 DEF S, l
    <3>3. /\ items \in Seq(S) /\ Len(items) = Done + 1
          /\ \A i \in 1 .. Done : items[i] = da.items[i]
          /\ items[Done + 1] = l
      BY <1>3, <2>2, <3>1, <3>2, AppendProperties
    <3> HIDE DEF items
    <3> QED BY <3>3, LenProperties
  <2>4. \A i \in 1 .. Done + 1 : items[i] = { ArgumentLength(i) }
    <3> SUFFICES ASSUME NEW i \in 1 .. Done + 1 PROVE items[i] = { ArgumentLength(i) }
      OBVIOUS
    <3> HIDE DEF items
    <3>1. CASE i = Done + 1
      BY <1>5, <2>3, <3>1
    <3>2. CASE i # Done + 1
      <4>1. i \in 1 .. Done
        BY <1>3, <3>2
      <4> QED BY <1>6, <2>3, <4>1
    <3> QED BY <3>1, <3>2
  <2> HIDE DEF items
  <2> QED BY <2>3, <2>4
<1> HIDE DEF items
<1>9. DaFits'
  BY <1>1, <1>4, <1>6, <1>7, <1>8 DEF DaFits, ArgumentLength
<1>10. pc' = "word"
  <2>1. PointerSize * (Count + 2) - 1 < PointerSize * (da.cap + 1)
    BY <1>2, <1>3, <1>6, GrowthAssumption, RoomForLast
  <2>2. Holds(da.place, PointerSize * (Count + 2) - 1) /\ da.place # NoPlace
    BY <1>6, <2>1 DEF Holds, NoPlace
  <2> QED BY <1>1, <2>2 DEF After
<1> QED BY <1>4, <1>9, <1>10 DEF Sound, BeforeWord, InWord, InToken, InText

-----------------------------------------------------------------------------
(* Together.                                                                *)

\* Once refused, refused until the line ends.
LEMMA RefusedStays ==
    ASSUME refused \in BOOLEAN, GrowthNext, ~LineEnds
    PROVE  refused' \in BOOLEAN /\ (~refused' => ~refused)
<1>1. ASSUME NEW size, Alloc(size) PROVE refused' \in BOOLEAN /\ (~refused' => ~refused)
  BY <1>1, AllocGives
<1>2. ASSUME refused' = refused PROVE refused' \in BOOLEAN /\ (~refused' => ~refused)
  BY <1>2
<1>3. CASE Unquote \/ Expand \/ Part \/ Grow \/ GetPath
  <2>1. refused' = refused \/ \E size : Alloc(size)
    BY <1>3 DEF Unquote, Expand, Part, Grow, GetPath, NoAlloc
  <2> QED BY <1>1, <1>2, <2>1
<1>4. CASE Struct \/ Items \/ Chars
  <2>1. \E size : Alloc(size)
    BY <1>4 DEF Struct, Items, Chars
  <2> QED BY <1>1, <2>1
<1>5. CASE Array \/ CopyItem \/ Copied \/ LastItem \/ Store
  <2>1. refused' = refused \/ \E size : Alloc(size)
    BY <1>5 DEF Array, CopyItem, Copied, LastItem, Store, NoAlloc
  <2> QED BY <1>1, <1>2, <2>1
<1>6. CASE StrAppend
  <2>1. refused' = refused \/ \E n : Append1(n)
    BY <1>6 DEF StrAppend, NoAlloc
  <2>2. ASSUME NEW n, Append1(n) PROVE refused' = refused \/ \E size : Alloc(size)
    <3>1. CASE StrGrows(n)
      BY <2>2, <3>1 DEF Append1
    <3>2. CASE ~StrGrows(n)
      BY <2>2, <3>2 DEF Append1, NoAlloc
    <3> QED BY <3>1, <3>2
  <2> QED BY <1>1, <1>2, <2>1, <2>2
<1>7. CASE Frame \/ Lost
  BY <1>2, <1>7 DEF Frame, Lost, growvars
<1> QED BY <1>3, <1>4, <1>5, <1>6, <1>7 DEF GrowthNext

\* Only the first steps of a line change what is known of its command's name.
LEMMA LookupStays ==
    ASSUME GrowthNext, ~Frame, ~LineEnds
    PROVE  command' = command /\ lookup' = lookup
BY DEF GrowthNext, Struct, Items, Chars, Unquote, Expand, Part, Grow, Store, GetPath,
       StrAppend, Array, CopyItem, Copied, LastItem, Lost, growvars

LEMMA NamedKept == ASSUME Named, GrowthNext PROVE Named'
<1>1. CASE Frame
  <2>1. command' \in Commands /\ lookup' \in Lookups
    BY <1>1 DEF Frame
  <2> QED BY <2>1, GrowthAssumption DEF Named
<1>2. CASE LineEnds
  BY <1>2 DEF LineEnds, Named
<1>3. CASE ~Frame /\ ~LineEnds
  BY <1>3, LookupStays DEF Named
<1> QED BY <1>1, <1>2, <1>3

LEMMA SoundKept ==
    ASSUME Sound, Named, GrowthNext, refused \in BOOLEAN, ~refused'
    PROVE  Sound'
<1>1. CASE LineEnds
  BY <1>1 DEF LineEnds, Sound, BeforeWord, InWord, InToken, InText
<1>2. ~Lost
  BY DEF Lost, Sound, BeforeWord, InWord, InToken
<1>3. CASE Frame
  BY <1>3, FrameSound
<1>4. CASE ~Frame /\ ~LineEnds
  <2>1. lookup' = lookup
    BY <1>4, LookupStays
  <2> QED BY <1>2, <1>4, <2>1, StructSound, ItemsSound, CharsSound, UnquoteSound,
           ExpandSound, PartSound, GrowSound, StoreSound, GetPathSound, StrAppendSound,
           ArraySound, CopyItemSound, CopiedSound, LastItemSound DEF GrowthNext
<1> QED BY <1>1, <1>3, <1>4

LEMMA GrowthInitInv == GrowthInit => GrowthInv
<1> SUFFICES ASSUME GrowthInit PROVE GrowthInv
  OBVIOUS
<1>1. Named
  BY DEF GrowthInit, Named
<1>2. pc = "frame" /\ refused \in BOOLEAN
  BY DEF GrowthInit
<1>3. Sound
  BY <1>2 DEF Sound, BeforeWord, InWord, InToken, InText
<1> QED BY <1>1, <1>2, <1>3 DEF GrowthInv

LEMMA GrowthNextInv == GrowthInv /\ [GrowthNext]_growvars => GrowthInv'
<1> SUFFICES ASSUME GrowthInv, [GrowthNext]_growvars PROVE GrowthInv'
  OBVIOUS
<1>1. CASE LineEnds
  BY <1>1 DEF LineEnds, GrowthInv, Named, Sound, BeforeWord, InWord, InToken, InText
<1>2. CASE GrowthNext /\ ~LineEnds
  <2>1. refused' \in BOOLEAN /\ (~refused' => ~refused)
    BY <1>2, RefusedStays DEF GrowthInv
  <2>2. ASSUME ~refused' PROVE Sound'
    BY <1>2, <2>1, <2>2, SoundKept DEF GrowthInv
  <2> QED BY <1>2, <2>1, <2>2, NamedKept DEF GrowthInv
<1>3. CASE UNCHANGED growvars
  <2>1. refused' = refused /\ (Named => Named')
    BY <1>3 DEF growvars, Named
  <2>2. /\ pc' = pc /\ command' = command /\ lookup' = lookup /\ todo' = todo /\ parts' = parts
        /\ item' = item /\ buf' = buf /\ str' = str /\ da' = da
    BY <1>3 DEF growvars
  <2>3. /\ (Ahead => Ahead') /\ (Within => Within') /\ (Parsed => Parsed')
        /\ Done' = Done /\ Token' = Token /\ AtFirst' = AtFirst /\ Count' = Count
    BY <2>2, SameCommand, SameParts DEF Count
  <2>4. (BufFits => BufFits') /\ (StrFits => StrFits') /\ (DaFits => DaFits')
    BY <2>2, <2>3, SameBuf, SameStr, SameDa
  <2>5. TextLength(Token)' = TextLength(Token)
    BY <2>3 DEF TextLength, TextSums
  <2>6. Piece' = Piece
    BY <2>2, <2>3, <2>5 DEF Piece, Looked
  <2>7. ASSUME Sound PROVE Sound'
    <3>1. /\ pc' \in { "frame", "given up" } \cup BeforeWord \cup InWord
          /\ pc' \in BeforeWord => Ahead'
          /\ pc' \in { "command", "array", "items" } => Done' = 0
          /\ pc' = "chars" => todo' # << >>
          /\ pc' \in InWord => Within' /\ StrFits'
      BY <2>2, <2>3, <2>4, <2>7 DEF Sound
    <3>2. /\ pc' \in InToken => Head(todo') # << >>
          /\ pc' \in InWord \ InToken => Head(todo') = << >>
          /\ pc' \in InText => Parsed' /\ BufFits'
          /\ pc' \in { "grow", "store" } => parts' # << >>
          /\ pc' = "store" => buf'.len + Head(parts').n < buf'.cap
      BY <2>2, <2>3, <2>4, <2>7 DEF Sound
    <3>3. /\ pc' = "path" => AtFirst' /\ lookup'.external /\ item' = { TextLength(Token)' }
          /\ pc' = "append" =>
               IF Piece' = 0 THEN item' \subseteq { 0 } ELSE item' = { Piece' }
      BY <2>2, <2>3, <2>5, <2>6, <2>7 DEF Sound
    <3>4. /\ pc' \in InWord \cup { "word", "chars" } => DaFits'
          /\ pc' \in { "copy", "last" } => Count' + 1 < da'.cap
      BY <2>2, <2>3, <2>4, <2>7 DEF Sound
    <3> QED BY <3>1, <3>2, <3>3, <3>4 DEF Sound, BeforeWord, InWord, InToken, InText
  <2> QED BY <2>1, <2>7 DEF GrowthInv
<1> QED BY <1>1, <1>2, <1>3

(* As long as the arena answers, every word of a command stands in the      *)
(* argument array at its full length, however often its buffer, its string  *)
(* and the array were moved (ft_strlcpy(), str_realloc(), ft_realloc()).    *)
THEOREM ArgumentsCorrect == GrowthSpec => []ArgumentsIntact
<1>1. GrowthInv => ArgumentsIntact
  BY DEF GrowthInv, Sound, ArgumentsIntact, DaFits, Done
<1> QED BY GrowthInitInv, GrowthNextInv, <1>1, PTL DEF GrowthSpec

-----------------------------------------------------------------------------
(* Whatever the arena refuses: each structure is as long as its capacity    *)
(* says, unless its own last request was refused.                           *)

WordLeft ==
    /\ todo \in Seq(Seq(Texts)) /\ todo # << >> /\ Tail(todo) \in Seq(WordTexts)

BufInside ==
    /\ buf = [place |-> buf.place, cap |-> buf.cap, len |-> buf.len, text |-> buf.text]
    /\ buf.cap \in Nat \ { 0 } /\ buf.len \in Nat /\ buf.text \in Nat
    /\ "buf" \notin starved => buf.len < buf.cap /\ \E p \in buf.place : p.size = buf.cap

StrInside ==
    /\ str = [place |-> str.place, cap |-> str.cap, len |-> str.len]
    /\ str.cap \in Nat \ { 0 } /\ str.len \in Nat
    /\ "str" \notin starved => str.len < str.cap /\ \E p \in str.place : p.size = str.cap

DaInside ==
    /\ da = [place |-> da.place, cap |-> da.cap, items |-> da.items, done |-> da.done]
    /\ da.items \in Seq(SUBSET Nat) /\ da.cap \in Nat \ { 0 } /\ da.done \in Nat
    /\ \E p \in da.place : p.size = PointerSize * (da.cap + 1)

Inside ==
    /\ pc \in { "frame", "given up", "null", "beyond" } \cup BeforeWord \cup InWord
    /\ pc \in BeforeWord => todo \in Seq(WordTexts)
    /\ pc = "chars" => todo # << >>
    /\ pc \in InWord => WordLeft /\ StrInside
    /\ pc \in InToken => Head(todo) # << >>
    /\ pc \in InText => parts \in Seq(PartRecords) /\ BufInside
    /\ pc \in { "grow", "store" } => parts # << >>
    /\ pc = "store" /\ "buf" \notin starved => buf.len + Head(parts).n < buf.cap
    /\ pc \in { "path", "append" } => item \subseteq Nat
    /\ pc = "path" /\ item = {} => starved \cap { "text", "buf" } # {}
    /\ pc \in InWord \cup { "word", "chars" } => DaInside
    /\ pc \in { "copy", "last" } => Count + 1 < da.cap

LEMMA AllocAnswers ==
    ASSUME NEW size, Alloc(size)
    PROVE  size \in Nat \ { 0 } /\ (answer' = {} \/ \E p \in answer' : p.size = size)
BY ArenaAssumption DEF Alloc, AllocInBlock, AllocInNewBlock, AllocFails, Give

\* What does not depend on the arena stays, if the token is still at hand.
LEMMA TokenKept ==
    ASSUME Inside, pc \in InToken, todo' = todo, str' = str, da' = da,
           "str" \in starved <=> "str" \in starved'
    PROVE  WordLeft' /\ StrInside' /\ DaInside' /\ Head(todo') # << >> /\ Token \in Texts
<1>1. WordLeft /\ StrInside /\ DaInside /\ Head(todo) # << >>
  BY DEF Inside, InWord
<1>2. Token \in Texts
  <2>1. Head(todo) \in Seq(Texts)
    BY <1>1, EmptySeq, HeadTailProperties, ElementOfSeq DEF WordLeft
  <2> QED BY <1>1, <2>1, EmptySeq, HeadTailProperties, ElementOfSeq DEF Token
<1> QED BY <1>1, <1>2 DEF WordLeft, StrInside, DaInside

LEMMA HeadOfParts ==
    ASSUME NEW p \in Seq(PartRecords), p # << >>
    PROVE  Head(p).n \in Nat /\ Tail(p) \in Seq(PartRecords)
<1>1. Head(p) \in PartRecords /\ Tail(p) \in Seq(PartRecords)
  BY EmptySeq, HeadTailProperties, ElementOfSeq
<1> QED BY <1>1 DEF PartRecords

LEMMA TextInside ==
    ASSUME NEW text \in SUBSET Nat, TextDone(text),
           text = {} => starved' \cap { "text", "buf" } # {}
    PROVE  /\ pc' \in { "path", "append" } /\ item' \subseteq Nat
           /\ pc' = "path" /\ item' = {} => starved' \cap { "text", "buf" } # {}
BY DEF TextDone

LEMMA FrameInside == ASSUME Frame PROVE Inside' /\ BlamesItsOwn
<1>1. todo' \in Seq(WordTexts) /\ pc' = "command"
  BY GrowthAssumption DEF Frame, WordTexts
<1> QED BY <1>1 DEF Inside, BlamesItsOwn, BeforeWord, InWord, InToken, InText

LEMMA StructInside ==
    ASSUME Inside, Struct PROVE Inside' /\ BlamesItsOwn
<1>1. /\ pc \in { "command", "array", "word" } /\ (pc = "word" => todo # << >>)
      /\ pc' \in { "given up", Then[pc] } /\ todo' = todo /\ da' = da
  BY DEF Struct, Then
<1>2. pc = "word" => DaInside /\ DaInside'
  BY <1>1 DEF Inside, DaInside
<1>3. todo' \in Seq(WordTexts)
  BY <1>1 DEF Inside, BeforeWord
<1>4. pc' \in { "given up", "array", "items" } \/ (pc = "word" /\ pc' = "chars")
  <2>1. Then["command"] = "array" /\ Then["array"] = "items" /\ Then["word"] = "chars"
    BY DEF Then
  <2> QED BY <1>1, <2>1
<1> QED BY <1>1, <1>2, <1>3, <1>4 DEF Inside, BlamesItsOwn, BeforeWord, InWord, InToken, InText

LEMMA ItemsInside ==
    ASSUME Inside, Items PROVE Inside' /\ BlamesItsOwn
<1>1. /\ pc = "items" /\ todo' = todo
      /\ da' = [place |-> answer', cap |-> DaCap, items |-> << >>, done |-> 0]
      /\ pc' = IF answer' = {} THEN "given up" ELSE "word"
  BY DEF Items
<1>2. answer' = {} \/ \E p \in answer' : p.size = PointerSize * (DaCap + 1)
  BY AllocAnswers DEF Items
<1>3. answer' # {} => DaInside'
  <2>1. DaCap \in Nat \ { 0 } /\ << >> \in Seq(SUBSET Nat)
    BY GrowthAssumption, EmptySeq
  <2> QED BY <1>1, <1>2, <2>1 DEF DaInside
<1>4. todo' \in Seq(WordTexts)
  BY <1>1 DEF Inside, BeforeWord
<1> QED BY <1>1, <1>3, <1>4 DEF Inside, BlamesItsOwn, BeforeWord, InWord, InToken, InText

LEMMA CharsInside ==
    ASSUME Inside, Chars PROVE Inside' /\ BlamesItsOwn
<1>1. /\ pc = "chars" /\ todo' = todo /\ da' = da
      /\ str' = [place |-> answer', cap |-> StrCap, len |-> 0]
      /\ pc' = IF answer' = {} THEN "given up" ELSE "token"
  BY DEF Chars
<1>2. answer' = {} \/ \E p \in answer' : p.size = StrCap
  BY AllocAnswers DEF Chars
<1>3. answer' # {} => StrInside'
  <2>1. StrCap \in Nat /\ 0 < StrCap
    BY GrowthAssumption
  <2>2. /\ str'.place = answer' /\ str'.cap = StrCap /\ str'.len = 0
        /\ str' = [place |-> str'.place, cap |-> str'.cap, len |-> str'.len]
    BY <1>1
  <2>3. answer' # {} => \E p \in str'.place : p.size = str'.cap
    BY <1>2, <2>2
  <2>4. str'.cap \in Nat \ { 0 } /\ str'.len \in Nat /\ str'.len < str'.cap
    BY <2>1, <2>2
  <2> QED BY <2>2, <2>3, <2>4 DEF StrInside
<1>4. todo \in Seq(WordTexts) /\ todo # << >> /\ DaInside
  BY <1>1 DEF Inside, BeforeWord
<1>5. WordLeft' /\ Head(todo) # << >>
  <2>1. Head(todo) \in WordTexts /\ Tail(todo) \in Seq(WordTexts)
    BY <1>4, EmptySeq, HeadTailProperties, ElementOfSeq
  <2>2. todo \in Seq(Seq(Texts))
    BY <1>4 DEF WordTexts
  <2> QED BY <1>1, <1>4, <2>1, <2>2 DEF WordLeft, WordTexts
<1>6. DaInside'
  BY <1>1, <1>4 DEF DaInside
<1> QED BY <1>1, <1>3, <1>5, <1>6 DEF Inside, BlamesItsOwn, BeforeWord, InWord, InToken, InText

LEMMA UnquoteInside ==
    ASSUME Inside, Unquote PROVE Inside' /\ BlamesItsOwn
<1>1. /\ pc = "token" /\ todo' = todo /\ str' = str /\ da' = da
      /\ "str" \in starved <=> "str" \in starved'
  BY DEF Unquote, For
<1>2. WordLeft' /\ StrInside' /\ DaInside' /\ Head(todo') # << >>
  BY <1>1, TokenKept DEF InToken
<1>3. \/ pc' = "expand"
      \/ TextDone({}) /\ "text" \in starved'
  BY DEF Unquote, For
<1>4. CASE pc' = "expand"
  BY <1>2, <1>4 DEF Inside, BlamesItsOwn, BeforeWord, InWord, InToken, InText
<1>5. CASE TextDone({}) /\ "text" \in starved'
  BY <1>2, <1>5, TextInside DEF Inside, BlamesItsOwn, BeforeWord, InWord, InToken, InText
<1> QED BY <1>3, <1>4, <1>5

LEMMA ExpandInside ==
    ASSUME Inside, Expand PROVE Inside' /\ BlamesItsOwn
<1>1. /\ pc = "expand" /\ todo' = todo /\ str' = str /\ da' = da
      /\ "str" \in starved <=> "str" \in starved'
  BY DEF Expand, For
<1>2. WordLeft' /\ StrInside' /\ DaInside' /\ Head(todo') # << >> /\ Token \in Texts
  BY <1>1, TokenKept DEF InToken
<1>3. Token.raw \in Nat /\ Token.parts \in Seq(PartRecords)
  BY <1>2 DEF Texts
<1>4. CASE ~HasDollar(Token.parts)
  <2>1. TextDone({ Token.raw })
    BY <1>4 DEF Expand
  <2>2. { Token.raw } \in SUBSET Nat /\ { Token.raw } # {}
    BY <1>3
  <2>3. pc' \in { "path", "append" } /\ item' \subseteq Nat /\ item' # {}
    BY <2>1, <2>2 DEF TextDone
  <2> QED BY <1>2, <2>3 DEF Inside, BlamesItsOwn, BeforeWord, InWord, InToken, InText
<1>5. CASE HasDollar(Token.parts)
  <2>1. /\ Alloc(BufCap) /\ For("buf") /\ parts' = Token.parts /\ pc' = "parts"
        /\ buf' = [place |-> answer', cap |-> BufCap, len |-> 0, text |-> 0]
    BY <1>5 DEF Expand
  <2>2. answer' = {} \/ \E p \in answer' : p.size = BufCap
    BY <2>1, AllocAnswers
  <2>3. BufInside'
    BY <2>1, <2>2, GrowthAssumption DEF BufInside, For
  <2> QED BY <1>2, <1>3, <2>1, <2>3 DEF Inside, BlamesItsOwn, BeforeWord, InWord, InToken, InText
<1> QED BY <1>4, <1>5

LEMMA PartInside ==
    ASSUME Inside, Part PROVE Inside' /\ BlamesItsOwn
<1>1. /\ pc = "parts" /\ todo' = todo /\ str' = str /\ da' = da
      /\ buf' = buf /\ starved' = starved
  BY DEF Part
<1>2. WordLeft' /\ StrInside' /\ DaInside' /\ Head(todo') # << >>
  BY <1>1, TokenKept DEF InToken
<1>3. parts \in Seq(PartRecords) /\ BufInside
  BY <1>1 DEF Inside, InText
<1>4. BufInside'
  BY <1>1, <1>3 DEF BufInside
<1>5. CASE parts = << >>
  <2>1. TextDone(IF buf.place = NoPlace THEN {} ELSE { buf.text })
    BY <1>5 DEF Part
  <2>2. buf.text \in Nat /\ (buf.place = NoPlace => "buf" \in starved')
    BY <1>1, <1>3 DEF BufInside, NoPlace
  <2>3. /\ pc' \in { "path", "append" } /\ item' \subseteq Nat
        /\ pc' = "path" /\ item' = {} => starved' \cap { "text", "buf" } # {}
    BY <2>1, <2>2 DEF TextDone
  <2> QED BY <1>2, <2>3 DEF Inside, BlamesItsOwn, BeforeWord, InWord, InToken, InText
<1>6. CASE parts # << >>
  <2>1. Tail(parts) \in Seq(PartRecords)
    BY <1>3, <1>6, HeadOfParts
  <2>2. \/ pc' = "grow" /\ parts' = parts
        \/ pc' = "parts" /\ parts' = Tail(parts)
    <3>1. CASE ~IsValue(Head(parts))
      BY <1>6, <3>1 DEF Part
    <3>2. CASE IsValue(Head(parts))
      <4>1. IF answer' = {} \/ Head(parts).n = 0
            THEN pc' = pc /\ parts' = Tail(parts)
            ELSE pc' = "grow" /\ parts' = parts
        BY <1>6, <3>2 DEF Part
      <4> QED BY <1>1, <4>1
    <3> QED BY <3>1, <3>2
  <2> QED BY <1>2, <1>3, <1>4, <1>6, <2>1, <2>2 DEF Inside, BlamesItsOwn, BeforeWord, InWord, InToken, InText
<1> QED BY <1>5, <1>6

LEMMA GrowInside ==
    ASSUME Inside, Grow PROVE Inside' /\ BlamesItsOwn
<1> DEFINE n == Head(parts).n
           cap == Doubled(buf.cap, buf.len + n)
<1>1. /\ pc = "grow" /\ todo' = todo /\ str' = str /\ da' = da /\ parts' = parts
      /\ "str" \in starved <=> "str" \in starved'
  BY DEF Grow, For
<1>2. WordLeft' /\ StrInside' /\ DaInside' /\ Head(todo') # << >>
  BY <1>1, TokenKept DEF InToken
<1>3. parts \in Seq(PartRecords) /\ BufInside /\ parts # << >>
  BY <1>1 DEF Inside, InText
<1>4. n \in Nat
  BY <1>3, HeadOfParts
<1>5. /\ buf.cap \in Nat \ { 0 } /\ buf.len \in Nat /\ buf.text \in Nat
      /\ buf = [place |-> buf.place, cap |-> buf.cap, len |-> buf.len, text |-> buf.text]
  BY <1>3 DEF BufInside
<1>6. cap \in Nat /\ cap > buf.len + n
  <2>1. buf.len + n \in Nat
    BY <1>4, <1>5
  <2> QED BY <1>5, <2>1, DoubledEnough
<1>7. /\ pc' = IF buf.place = NoPlace /\ buf'.place # NoPlace THEN "null" ELSE "store"
      /\ IF Roomy(n) THEN buf' = buf /\ starved' = starved
         ELSE /\ Alloc(cap) /\ For("buf")
              /\ buf' = IF answer' = {} THEN buf
                        ELSE [buf EXCEPT !.place = answer', !.cap = cap]
  BY DEF Grow
<1> HIDE DEF n, cap
<1>8. BufInside' /\ ("buf" \notin starved' => buf'.len + n < buf'.cap)
  <2>1. CASE Roomy(n)
    <3>1. buf' = buf /\ starved' = starved /\ buf.len + n < buf.cap
      BY <1>4, <1>5, <1>7, <2>1 DEF Roomy
    <3> QED BY <1>3, <3>1 DEF BufInside
  <2>2. CASE ~Roomy(n) /\ answer' = {}
    <3>1. buf' = buf /\ "buf" \in starved'
      BY <1>7, <2>2 DEF For
    <3> QED BY <1>5, <3>1 DEF BufInside
  <2>3. CASE ~Roomy(n) /\ answer' # {}
    <3>1. \E p \in answer' : p.size = cap
      BY <1>7, <2>3, AllocAnswers
    <3>2. buf' = [place |-> answer', cap |-> cap, len |-> buf.len, text |-> buf.text]
      BY <1>5, <1>7, <2>3
    <3> QED BY <1>4, <1>5, <1>6, <3>1, <3>2 DEF BufInside
  <2> QED BY <2>1, <2>2, <2>3
<1>9. buf.place = NoPlace => "buf" \in starved
  BY <1>3 DEF BufInside, NoPlace
<1>10. CASE pc' = "null"
  BY <1>1, <1>7, <1>9, <1>10 DEF Inside, BlamesItsOwn, Blamed, BeforeWord, InWord, InToken, InText
<1>11. CASE pc' = "store"
  BY <1>1, <1>2, <1>3, <1>8, <1>11 DEF Inside, BlamesItsOwn, BeforeWord, InWord, InToken, InText, n
<1> QED BY <1>7, <1>10, <1>11

LEMMA StoreInside ==
    ASSUME Inside, Store PROVE Inside' /\ BlamesItsOwn
<1> DEFINE n == Head(parts).n
           cut == buf.cap - buf.len
           end == IF IsValue(Head(parts)) /\ n >= cut /\ cut >= 0 THEN buf.cap - 1
                  ELSE buf.len + n
<1>1. /\ pc = "store" /\ todo' = todo /\ str' = str /\ da' = da /\ parts' = Tail(parts)
      /\ starved' = starved /\ pc' = After(buf.place, end, "parts")
      /\ buf' = [buf EXCEPT !.len = @ + n, !.text = IF @ = buf.len THEN end ELSE @]
  BY DEF Store
<1>2. WordLeft' /\ StrInside' /\ DaInside' /\ Head(todo') # << >>
  BY <1>1, TokenKept DEF InToken
<1>3. /\ parts \in Seq(PartRecords) /\ BufInside /\ parts # << >>
      /\ "buf" \notin starved => buf.len + n < buf.cap
  BY <1>1 DEF Inside, InText
<1>4. n \in Nat /\ parts' \in Seq(PartRecords)
  BY <1>1, <1>3, HeadOfParts
<1>5. /\ buf.cap \in Nat \ { 0 } /\ buf.len \in Nat /\ buf.text \in Nat
      /\ buf = [place |-> buf.place, cap |-> buf.cap, len |-> buf.len, text |-> buf.text]
  BY <1>3 DEF BufInside
<1>6. end \in Nat /\ ("buf" \notin starved => end = buf.len + n /\ end < buf.cap)
  BY <1>3, <1>4, <1>5
<1> HIDE DEF n, end
<1>7. "buf" \notin starved => pc' = "parts"
  <2>1. ASSUME "buf" \notin starved
        PROVE  Holds(buf.place, end) /\ buf.place # NoPlace
    BY <1>3, <1>6, <2>1 DEF BufInside, Holds, NoPlace
  <2> QED BY <1>1, <2>1 DEF After
<1>8. BufInside'
  <2>1. buf' = [place |-> buf.place, cap |-> buf.cap, len |-> buf.len + n,
                text |-> IF buf.text = buf.len THEN end ELSE buf.text]
    BY <1>1, <1>5
  <2>2. /\ buf'.place = buf.place /\ buf'.cap = buf.cap /\ buf'.len = buf.len + n
        /\ buf'.text = IF buf.text = buf.len THEN end ELSE buf.text
        /\ buf' = [place |-> buf'.place, cap |-> buf'.cap, len |-> buf'.len, text |-> buf'.text]
    BY <2>1
  <2>3. buf'.len \in Nat /\ buf'.text \in Nat
    BY <1>4, <1>5, <1>6, <2>2
  <2>4. "buf" \notin starved' => buf'.len < buf'.cap
    BY <1>1, <1>3, <2>2
  <2> QED BY <1>1, <1>3, <1>5, <2>2, <2>3, <2>4 DEF BufInside
<1>9. pc' \in { "parts", "null", "beyond" }
  BY <1>1 DEF After
<1> QED BY <1>1, <1>2, <1>4, <1>7, <1>8, <1>9
        DEF Inside, BlamesItsOwn, Blamed, BeforeWord, InWord, InToken, InText

LEMMA GetPathInside ==
    ASSUME Inside, Named, GetPath PROVE Inside' /\ BlamesItsOwn
<1>1. /\ pc = "path" /\ todo' = todo /\ str' = str /\ da' = da /\ starved' = starved
      /\ item \subseteq Nat /\ (item = {} => starved \cap { "text", "buf" } # {})
  BY DEF GetPath, Inside
<1>2. WordLeft' /\ StrInside' /\ DaInside' /\ Head(todo') # << >>
  BY <1>1, TokenKept DEF InToken
<1>3. CASE item = {} /\ pc' = "null"
  BY <1>1, <1>3 DEF Inside, BlamesItsOwn, Blamed, BeforeWord, InWord, InToken, InText
<1>4. CASE pc' = "append" /\ item' \subseteq Nat
  BY <1>2, <1>4 DEF Inside, BlamesItsOwn, BeforeWord, InWord, InToken, InText
<1>5. ASSUME NEW n \in item,
             IF n = 0 \/ lookup.prefix = 0 THEN NoAlloc /\ item' = item \ { 0 }
             ELSE /\ Alloc(n + lookup.prefix + 1)
                  /\ item' = IF answer' = {} THEN {} ELSE { n + lookup.prefix }
      PROVE  item' \subseteq Nat
  <2>1. n \in Nat /\ lookup.prefix \in Nat
    BY <1>1 DEF Named
  <2>2. item' = item \ { 0 } \/ item' = {} \/ item' = { n + lookup.prefix }
    BY <1>5
  <2>3. n + lookup.prefix \in Nat
    BY <2>1
  <2>4. item \ { 0 } \subseteq Nat /\ { n + lookup.prefix } \subseteq Nat
    BY <1>1, <2>3
  <2> QED BY <2>2, <2>4
<1> QED BY <1>3, <1>4, <1>5 DEF GetPath

LEMMA PieceInside ==
    ASSUME WordLeft, Head(todo) # << >>, PieceDone
    PROVE  /\ WordLeft' /\ pc' \in { "token", "full" }
           /\ pc' = "token" => Head(todo') # << >>
<1> DEFINE h == Tail(Head(todo))
<1>1. Head(todo) \in Seq(Texts)
  BY EmptySeq, HeadTailProperties, ElementOfSeq DEF WordLeft
<1>2. /\ h \in Seq(Texts) /\ Len(h) = Len(Head(todo)) - 1 /\ Len(Head(todo)) \in Nat
  BY <1>1, HeadTailProperties, LenProperties
<1> HIDE DEF h
<1>3. /\ << h >> \o Tail(todo) \in Seq(Seq(Texts)) /\ << h >> \o Tail(todo) # << >>
      /\ Head(<< h >> \o Tail(todo)) = h /\ Tail(<< h >> \o Tail(todo)) = Tail(todo)
  BY <1>2, NewHead DEF WordLeft
<1>4. todo' = << h >> \o Tail(todo) /\ pc' = IF Len(Head(todo)) > 1 THEN "token" ELSE "full"
  BY DEF PieceDone, h
<1>5. Len(Head(todo)) > 1 => h # << >>
  BY <1>2, EmptySeq
<1> QED BY <1>3, <1>4, <1>5 DEF WordLeft

LEMMA StrAppendInside ==
    ASSUME Inside, StrAppend PROVE Inside' /\ BlamesItsOwn
<1>1. pc = "append" /\ da' = da /\ item \subseteq Nat
  BY DEF StrAppend, Inside
<1>2. WordLeft /\ StrInside /\ DaInside /\ Head(todo) # << >>
  BY <1>1 DEF Inside, InWord, InToken
<1>3. DaInside'
  BY <1>1, <1>2 DEF DaInside
<1>4. ASSUME PieceDone, StrInside' PROVE Inside' /\ BlamesItsOwn
  <2>1. /\ WordLeft' /\ pc' \in { "token", "full" }
        /\ pc' = "token" => Head(todo') # << >>
    BY <1>2, <1>4, PieceInside
  <2> QED BY <1>3, <1>4, <2>1 DEF Inside, BlamesItsOwn, BeforeWord, InWord, InToken, InText
<1>5. ASSUME pc' \in { "null", "beyond" }, "str" \in starved PROVE Inside' /\ BlamesItsOwn
  BY <1>1, <1>5 DEF Inside, BlamesItsOwn, Blamed, BeforeWord, InWord, InToken, InText
<1>6. CASE item = {} /\ PieceDone /\ UNCHANGED << str, starved >>
  <2>1. StrInside'
    BY <1>2, <1>6 DEF StrInside
  <2> QED BY <1>4, <1>6, <2>1
<1>7. ASSUME NEW n \in item, Append1(n) PROVE Inside' /\ BlamesItsOwn
  <2> DEFINE cap == Doubled(str.cap, str.len + n)
  <2>1. /\ n \in Nat /\ str.cap \in Nat \ { 0 } /\ str.len \in Nat
        /\ str = [place |-> str.place, cap |-> str.cap, len |-> str.len]
        /\ "str" \notin starved => str.len < str.cap /\ \E p \in str.place : p.size = str.cap
    BY <1>1, <1>2 DEF StrInside
  <2>2. cap \in Nat \ { 0 } /\ cap > str.len + n
    <3>1. str.len + n \in Nat
      BY <2>1
    <3>2. cap \in Nat /\ cap > str.len + n
      BY <2>1, <3>1, DoubledEnough
    <3> HIDE DEF cap
    <3> QED BY <3>1, <3>2
  <2> HIDE DEF cap
  <2>3. CASE StrGrows(n)
    <3>1. /\ Alloc(cap) /\ For("str")
          /\ str' = [place |-> answer', cap |-> cap,
                     len |-> IF answer' = {} THEN str.len ELSE str.len + n]
          /\ IF answer' # {} /\ str.place = NoPlace /\ str.len > 0
             THEN pc' = "null" /\ todo' = todo
             ELSE PieceDone
      BY <1>7, <2>3 DEF Append1, cap
    <3>2. answer' = {} \/ \E p \in answer' : p.size = cap
      BY <3>1, AllocAnswers
    <3>3. StrInside'
      BY <2>1, <2>2, <3>1, <3>2 DEF StrInside, For
    <3>4. str.place = NoPlace => "str" \in starved
      BY <2>1 DEF NoPlace
    <3> QED BY <1>4, <1>5, <3>1, <3>3, <3>4
  <2>4. CASE ~StrGrows(n)
    <3>1. /\ str' = [str EXCEPT !.len = @ + n] /\ starved' = starved
          /\ IF After(str.place, str.len + n, "fine") = "fine" THEN PieceDone
             ELSE pc' = After(str.place, str.len + n, "fine") /\ todo' = todo
      BY <1>7, <2>4 DEF Append1
    <3>2. str.len + n < str.cap
      BY <2>1, <2>4 DEF StrGrows
    <3>3. StrInside'
      <4>1. str' = [place |-> str.place, cap |-> str.cap, len |-> str.len + n]
        BY <2>1, <3>1
      <4> QED BY <2>1, <3>1, <3>2, <4>1 DEF StrInside
    <3>4. After(str.place, str.len + n, "fine") # "fine" =>
             /\ "str" \in starved
             /\ After(str.place, str.len + n, "fine") \in { "null", "beyond" }
      BY <2>1, <3>2 DEF After, Holds, NoPlace
    <3> QED BY <1>4, <1>5, <3>1, <3>3, <3>4
  <2> QED BY <2>3, <2>4
<1> QED BY <1>6, <1>7 DEF StrAppend

\* What stays when only the array changes.
LEMMA WordKept ==
    ASSUME Inside, pc \in { "full", "copy", "last" }, todo' = todo, str' = str,
           "str" \in starved <=> "str" \in starved'
    PROVE  WordLeft' /\ StrInside' /\ DaInside /\ Count \in Nat
<1>1. WordLeft /\ StrInside /\ DaInside
  BY DEF Inside, InWord
<1>2. Count \in Nat
  BY <1>1, LenProperties DEF Count, DaInside
<1> QED BY <1>1, <1>2 DEF WordLeft, StrInside

LEMMA ArrayInside ==
    ASSUME Inside, Array PROVE Inside' /\ BlamesItsOwn
<1> DEFINE cap == Doubled(da.cap, Count + 1)
<1>1. /\ pc = "full" /\ todo' = todo /\ str' = str
      /\ "str" \in starved <=> "str" \in starved'
  BY DEF Array, For
<1>2. WordLeft' /\ StrInside' /\ DaInside /\ Count \in Nat
  BY <1>1, WordKept
<1>3. /\ da.cap \in Nat \ { 0 } /\ da.items \in Seq(SUBSET Nat)
      /\ da = [place |-> da.place, cap |-> da.cap, items |-> da.items, done |-> da.done]
  BY <1>2 DEF DaInside
<1>4. CASE ~DaGrows
  <2>1. pc' = "last" /\ da' = da
    BY <1>4 DEF Array
  <2>2. DaInside' /\ Count' = Count /\ Count + 1 < da.cap
    BY <1>2, <1>3, <1>4, <2>1 DEF DaInside, Count, DaGrows
  <2> QED BY <1>2, <2>1, <2>2 DEF Inside, BlamesItsOwn, BeforeWord, InWord, InToken, InText
<1>5. CASE DaGrows
  <2>1. /\ Alloc(PointerSize * (cap + 1)) /\ For("da")
        /\ da' = [da EXCEPT !.place = answer', !.cap = cap, !.done = 0]
        /\ pc' = IF answer' = {} THEN "null" ELSE "copy"
    BY <1>5 DEF Array
  <2>2. cap \in Nat \ { 0 } /\ cap > Count + 1
    <3>1. Count + 1 \in Nat
      BY <1>2
    <3>2. cap \in Nat /\ cap > Count + 1
      BY <1>3, <3>1, DoubledEnough
    <3> HIDE DEF cap
    <3> QED BY <1>2, <3>2
  <2> HIDE DEF cap
  <2>3. answer' = {} \/ \E p \in answer' : p.size = PointerSize * (cap + 1)
    BY <2>1, AllocAnswers
  <2>4. da' = [place |-> answer', cap |-> cap, items |-> da.items, done |-> 0]
    BY <1>3, <2>1
  <2>5. Count' = Count /\ Count' + 1 < da'.cap
    BY <2>2, <2>4 DEF Count
  <2>6. CASE answer' = {}
    BY <1>1, <2>1, <2>6 DEF Inside, BlamesItsOwn, Blamed, For, BeforeWord, InWord, InToken, InText
  <2>7. CASE answer' # {}
    <3>1. DaInside'
      BY <1>3, <2>2, <2>3, <2>4, <2>7 DEF DaInside
    <3> QED BY <1>2, <2>1, <2>5, <2>7, <3>1 DEF Inside, BlamesItsOwn, BeforeWord, InWord, InToken, InText
  <2> QED BY <2>6, <2>7
<1> QED BY <1>4, <1>5

LEMMA CopyItemInside ==
    ASSUME Inside, CopyItem PROVE Inside' /\ BlamesItsOwn
<1> DEFINE k == da.done + 1
<1>1. /\ pc = "copy" /\ pc' = pc /\ todo' = todo /\ str' = str /\ starved' = starved
      /\ da.done < Count /\ Count + 1 < da.cap
  BY DEF CopyItem, Inside
<1>2. WordLeft' /\ StrInside' /\ DaInside /\ Count \in Nat
  BY <1>1, WordKept
<1>3. /\ da.items \in Seq(SUBSET Nat) /\ da.done \in Nat
      /\ da = [place |-> da.place, cap |-> da.cap, items |-> da.items, done |-> da.done]
  BY <1>2 DEF DaInside
<1>4. k \in 1 .. Len(da.items) /\ k \in Nat
  BY <1>1, <1>2, <1>3 DEF Count
<1> HIDE DEF k
<1>5. PICK new \in SUBSET Nat :
        da' = [place |-> da.place, cap |-> da.cap,
               items |-> [da.items EXCEPT ![k] = new], done |-> k]
  <2>1. da.items[k] \in SUBSET Nat /\ {} \in SUBSET Nat
    BY <1>3, <1>4, ElementOfSeq
  <2>2. CASE da' = [da EXCEPT !.done = @ + 1]
    <3>1. [da.items EXCEPT ![k] = da.items[k]] = da.items
      BY <1>3, <1>4
    <3>2. da' = [place |-> da.place, cap |-> da.cap, items |-> da.items, done |-> k]
      BY <1>3, <2>2 DEF k
    <3> QED BY <2>1, <3>1, <3>2
  <2>3. ASSUME NEW new \in SUBSET Nat,
               da' = [da EXCEPT !.done = @ + 1, !.items[da.done + 1] = new]
        PROVE  da' = [place |-> da.place, cap |-> da.cap,
                      items |-> [da.items EXCEPT ![k] = new], done |-> k]
    BY <1>3, <2>3 DEF k
  <2>4. \/ da' = [da EXCEPT !.done = @ + 1]
        \/ \E new \in { {}, da.items[k] } :
              da' = [da EXCEPT !.done = @ + 1, !.items[da.done + 1] = new]
    BY DEF CopyItem, k
  <2> QED BY <2>1, <2>2, <2>3, <2>4
<1>6. /\ [da.items EXCEPT ![k] = new] \in Seq(SUBSET Nat)
      /\ Len([da.items EXCEPT ![k] = new]) = Len(da.items)
  BY <1>3, <1>4, ExceptSeq
<1>7. DaInside' /\ Count' = Count /\ da'.cap = da.cap
  BY <1>2, <1>4, <1>5, <1>6 DEF DaInside, Count
<1> QED BY <1>1, <1>2, <1>7 DEF Inside, BlamesItsOwn, BeforeWord, InWord, InToken, InText

LEMMA CopiedInside ==
    ASSUME Inside, Copied PROVE Inside' /\ BlamesItsOwn
<1>1. /\ pc = "copy" /\ pc' = "last" /\ todo' = todo /\ str' = str /\ da' = da
      /\ starved' = starved /\ Count + 1 < da.cap
  BY DEF Copied, Inside
<1>2. WordLeft' /\ StrInside' /\ DaInside
  BY <1>1, WordKept
<1>3. DaInside' /\ Count' = Count
  BY <1>1, <1>2 DEF DaInside, Count
<1> QED BY <1>1, <1>2, <1>3 DEF Inside, BlamesItsOwn, BeforeWord, InWord, InToken, InText

LEMMA LastItemInside ==
    ASSUME Inside, LastItem PROVE Inside' /\ BlamesItsOwn
<1>1. /\ pc = "last" /\ todo' = Tail(todo) /\ str' = str /\ Count + 1 < da.cap
      /\ pc' = After(da.place, PointerSize * (Count + 2) - 1, "word")
  BY DEF LastItem, Inside
<1>2. WordLeft /\ StrInside /\ DaInside
  BY <1>1 DEF Inside, InWord
<1>3. /\ da.cap \in Nat \ { 0 } /\ da.items \in Seq(SUBSET Nat) /\ da.done \in Nat
      /\ da = [place |-> da.place, cap |-> da.cap, items |-> da.items, done |-> da.done]
      /\ \E p \in da.place : p.size = PointerSize * (da.cap + 1)
      /\ Count \in Nat /\ str.len \in Nat
  BY <1>2, LenProperties DEF DaInside, StrInside, Count
<1>4. pc' = "word"
  <2>1. PointerSize * (Count + 2) - 1 < PointerSize * (da.cap + 1)
    BY <1>1, <1>3, GrowthAssumption, RoomForLast
  <2>2. Holds(da.place, PointerSize * (Count + 2) - 1) /\ da.place # NoPlace
    BY <1>3, <2>1 DEF Holds, NoPlace
  <2> QED BY <1>1, <2>2 DEF After
<1>5. PICK new \in SUBSET Nat : da' = [da EXCEPT !.items = Append(@, new)]
  BY <1>3 DEF LastItem
<1>6. Append(da.items, new) \in Seq(SUBSET Nat)
  BY <1>3, AppendProperties
<1>7. da' = [place |-> da.place, cap |-> da.cap, items |-> Append(da.items, new),
             done |-> da.done]
  BY <1>3, <1>5
<1>8. DaInside'
  BY <1>3, <1>6, <1>7 DEF DaInside
<1>9. todo' \in Seq(WordTexts)
  BY <1>1, <1>2 DEF WordLeft
<1> QED BY <1>4, <1>8, <1>9 DEF Inside, BlamesItsOwn, BeforeWord, InWord, InToken, InText

LEMMA InsideKept ==
    ASSUME Inside, Named, GrowthNext
    PROVE  Inside' /\ (BlamesItsOwn \/ UNCHANGED growvars)
<1>1. CASE LineEnds
  BY <1>1 DEF LineEnds, Inside, BlamesItsOwn, BeforeWord, InWord, InToken, InText
<1>2. CASE Lost
  <2>1. pc' \in { "null", "beyond" } /\ UNCHANGED growvars
    BY <1>2 DEF Lost, growvars
  <2> QED BY <2>1 DEF Inside, BeforeWord, InWord, InToken, InText
<1>3. CASE ~LineEnds /\ ~Lost
  BY <1>3, FrameInside, StructInside, ItemsInside, CharsInside, UnquoteInside,
     ExpandInside, PartInside, GrowInside, StoreInside, GetPathInside, StrAppendInside,
     ArrayInside, CopyItemInside, CopiedInside, LastItemInside DEF GrowthNext
<1> QED BY <1>1, <1>2, <1>3

LEMMA InsideStutters ==
    ASSUME Inside, UNCHANGED growvars PROVE Inside'
<1>1. /\ pc' = pc /\ todo' = todo /\ parts' = parts /\ item' = item /\ buf' = buf
      /\ str' = str /\ da' = da /\ starved' = starved
  BY DEF growvars
<1>2. /\ WordLeft' = WordLeft /\ BufInside' = BufInside /\ StrInside' = StrInside
      /\ DaInside' = DaInside /\ Count' = Count
  BY <1>1 DEF WordLeft, BufInside, StrInside, DaInside, Count
<1> QED BY <1>1, <1>2 DEF Inside, BeforeWord, InWord, InToken, InText

(* Whatever the lengths of the words, the capacities and the sizes, and     *)
(* whatever the arena refuses, a store of buf_grow(), get_path(),           *)
(* str_append() or da_append() goes through NULL or past the place it is    *)
(* meant for only where that very structure was refused its last place.     *)
THEOREM StoresCorrect == GrowthSpec => StoresInside
<1>1. GrowthInit => Inside /\ Named
  BY DEF GrowthInit, Inside, Named, BeforeWord, InWord, InToken, InText
<1>2. Inside /\ Named /\ [GrowthNext]_growvars => Inside' /\ Named' /\ [BlamesItsOwn]_growvars
  <2> SUFFICES ASSUME Inside, Named, [GrowthNext]_growvars
               PROVE  Inside' /\ Named' /\ [BlamesItsOwn]_growvars
    OBVIOUS
  <2>1. CASE GrowthNext
    BY <2>1, InsideKept, NamedKept
  <2>2. CASE UNCHANGED growvars
    BY <2>2, InsideStutters DEF growvars, Named
  <2> QED BY <2>1, <2>2
<1> QED BY <1>1, <1>2, PTL DEF GrowthSpec, StoresInside

==============================================================================
