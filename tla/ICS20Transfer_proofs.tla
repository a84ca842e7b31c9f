------------------------- MODULE ICS20Transfer_proofs -------------------------
(***************************************************************************)
(* Transfers of tokens, for any chains, channels, users, tokens and        *)
(* amounts: the bank can pay what it owes, and the escrow accounts hold    *)
(* what is abroad.  Both are about sums, so the first part proves what the *)
(* folds of the community modules compute.                                 *)
(***************************************************************************)
EXTENDS ICS20Transfer, FiniteSetTheorems, SequenceTheorems, TLAPS

-----------------------------------------------------------------------------
(* Sums over finite sets                                                   *)

\* Of the subsets of a finite set, in a set T of them, one is minimal: the
\* form in which induction over finite sets is used below.
LEMMA SetMin ==
    ASSUME NEW S, IsFiniteSet(S), NEW T \in SUBSET (SUBSET S), T # {}
    PROVE  \E t \in T : \A u \in T : u \subseteq t => u = t
<1>1. IsWellFoundedOn(StrictSubsetOrdering(S), FiniteSubsetsOf(S))
  BY FS_StrictSubsetOrderingWellFounded
<1>2. T \subseteq FiniteSubsetsOf(S)
  BY FS_FiniteSubsetsOfFinite
<1>3. PICK t \in T : \A u \in T : ~ (<<u, t>> \in StrictSubsetOrdering(S))
  BY <1>1, <1>2, WFMin
<1>4. \A u \in T : u \subseteq t => u = t
  BY <1>3 DEF StrictSubsetOrdering
<1> QED
  BY <1>4

pick(s) == CHOOSE x \in s : TRUE

LEMMA Picked ==
    ASSUME NEW s, s # {}
    PROVE  pick(s) \in s /\ s \ {pick(s)} \subseteq s /\ s \ {pick(s)} # s
BY DEF pick

\* F[s] is the sum of g over s, for every subset s of S, as the folds of the
\* community modules compute it.
SumsOf(F, g, S) ==
    F = [s \in SUBSET S |-> IF s = {} THEN 0 ELSE g[pick(s)] + F[s \ {pick(s)}]]

SumOver(g, S) == (CHOOSE F : SumsOf(F, g, S))[S]

LEMMA SumsUnique ==
    ASSUME NEW S, IsFiniteSet(S), NEW T \in SUBSET S, NEW g, NEW F, NEW G,
           SumsOf(F, g, S), SumsOf(G, g, T)
    PROVE  \A s \in SUBSET T : F[s] = G[s]
<1> DEFINE Bad == {s \in SUBSET T : F[s] # G[s]}
<1>1. SUFFICES ASSUME Bad # {} PROVE FALSE
  OBVIOUS
<1>2. PICK t \in Bad : \A u \in Bad : u \subseteq t => u = t
  <2>1. Bad \in SUBSET (SUBSET S)
    OBVIOUS
  <2> HIDE DEF Bad
  <2> QED
    BY <1>1, <2>1, SetMin
<1>3. \A s \in SUBSET S : F[s] = IF s = {} THEN 0 ELSE g[pick(s)] + F[s \ {pick(s)}]
  BY DEF SumsOf
<1>4. \A s \in SUBSET T : G[s] = IF s = {} THEN 0 ELSE g[pick(s)] + G[s \ {pick(s)}]
  BY DEF SumsOf
<1>5. t \in SUBSET T /\ t \in SUBSET S
  OBVIOUS
<1>6. t # {}
  BY <1>2, <1>3, <1>4, <1>5
<1>7. t \ {pick(t)} \notin Bad /\ t \ {pick(t)} \in SUBSET T
  BY <1>2, <1>5, <1>6, Picked
<1>8. F[t \ {pick(t)}] = G[t \ {pick(t)}]
  BY <1>7
<1>9. F[t] = G[t]
  BY <1>3, <1>4, <1>5, <1>6, <1>8
<1> QED
  BY <1>2, <1>9

LEMMA SumsExist ==
    ASSUME NEW S, IsFiniteSet(S), NEW g, \A x \in S : g[x] \in Int
    PROVE  \E F \in [SUBSET S -> Int] : SumsOf(F, g, S)
<1> DEFINE Good(s) == \E F \in [SUBSET s -> Int] : SumsOf(F, g, s)
           Bad == {s \in SUBSET S : ~ Good(s)}
<1>1. SUFFICES ASSUME Bad # {} PROVE FALSE
  <2>1. S \in SUBSET S
    OBVIOUS
  <2> QED
    BY <1>1, <2>1
<1>2. PICK t \in Bad : \A u \in Bad : u \subseteq t => u = t
  <2>1. Bad \in SUBSET (SUBSET S)
    OBVIOUS
  <2> HIDE DEF Bad
  <2> QED
    BY <1>1, <2>1, SetMin
<1>3. t \in SUBSET S /\ ~ Good(t)
  OBVIOUS
<1>4. \A u \in SUBSET t : u # t => Good(u)
  BY <1>2, <1>3
<1> HIDE DEF Bad
<1> DEFINE sums(u) == CHOOSE F : F \in [SUBSET u -> Int] /\ SumsOf(F, g, u)
<1>5. \A u \in SUBSET t : u # t =>
        sums(u) \in [SUBSET u -> Int] /\ SumsOf(sums(u), g, u)
  BY <1>4
<1> HIDE DEF sums, Good
<1> DEFINE value(u) == IF u = {} THEN 0
                       ELSE g[pick(u)] + sums(u \ {pick(u)})[u \ {pick(u)}]
           F == [u \in SUBSET t |-> value(u)]
<1>6. \A u \in SUBSET t : u # {} =>
        /\ pick(u) \in S /\ u \ {pick(u)} \in SUBSET t
        /\ u \ {pick(u)} # t
        /\ u \ {pick(u)} \in SUBSET (u \ {pick(u)})
  BY <1>3, Picked
<1>7. \A u \in SUBSET t : value(u) \in Int
  <2> SUFFICES ASSUME NEW u \in SUBSET t PROVE value(u) \in Int
    OBVIOUS
  <2>1. CASE u = {}
    BY <2>1
  <2>2. CASE u # {}
    <3> DEFINE w == u \ {pick(u)}
    <3>1. w \in SUBSET t /\ w # t /\ w \in SUBSET w
      BY <1>6, <2>2
    <3>2. sums(w)[w] \in Int
      <4>1. sums(w) \in [SUBSET w -> Int]
        BY <1>5, <3>1
      <4> HIDE DEF w
      <4> QED
        BY <3>1, <4>1
    <3>3. g[pick(u)] \in Int
      BY <1>6, <2>2
    <3> QED
      BY <2>2, <3>2, <3>3
  <2> QED
    BY <2>1, <2>2
<1>8. \A u \in SUBSET t : u # t => value(u) = sums(u)[u]
  <2> SUFFICES ASSUME NEW u \in SUBSET t, u # t PROVE value(u) = sums(u)[u]
    OBVIOUS
  <2>1. /\ u \in SUBSET u
        /\ \A v \in SUBSET u : sums(u)[v] =
             IF v = {} THEN 0 ELSE g[pick(v)] + sums(u)[v \ {pick(v)}]
    BY <1>5 DEF SumsOf
  <2>2. CASE u = {}
    BY <2>1, <2>2
  <2>3. CASE u # {}
    <3> DEFINE w == u \ {pick(u)}
    <3>1. w \in SUBSET u /\ w \in SUBSET t /\ w # t /\ w \in SUBSET w
      BY <1>6, <2>3
    <3>2. SumsOf(sums(u), g, u) /\ SumsOf(sums(w), g, w)
      BY <1>5, <3>1
    <3>3. IsFiniteSet(u)
      BY <1>3, FS_Subset
    <3>4. sums(u)[w] = sums(w)[w]
      BY <3>1, <3>2, <3>3, SumsUnique
    <3>5. sums(u)[u] = g[pick(u)] + sums(u)[w]
      BY <2>1, <2>3
    <3> QED
      BY <2>3, <3>4, <3>5
  <2> QED
    BY <2>2, <2>3
<1>9. \A u \in SUBSET t : F[u] = IF u = {} THEN 0 ELSE g[pick(u)] + F[u \ {pick(u)}]
  BY <1>6, <1>8
<1>10. F \in [SUBSET t -> Int] /\ SumsOf(F, g, t)
  <2>1. F \in [SUBSET t -> Int]
    BY <1>7
  <2>2. F = [u \in SUBSET t |-> F[u]]
    OBVIOUS
  <2> HIDE DEF F
  <2> QED
    BY <1>9, <2>1, <2>2 DEF SumsOf
<1> QED
  BY <1>3, <1>10 DEF Good

\* F says what the fold computes for every part of S.
Summing(F, g, S) ==
    /\ F \in [SUBSET S -> Int]
    /\ SumsOf(F, g, S)
    /\ \A T \in SUBSET S : F[T] = SumOver(g, T)

LEMMA SumsChosen ==
    ASSUME NEW S, IsFiniteSet(S), NEW g, \A x \in S : g[x] \in Int
    PROVE  \E F : Summing(F, g, S)
<1>1. PICK F \in [SUBSET S -> Int] : SumsOf(F, g, S)
  BY SumsExist
<1>2. ASSUME NEW T \in SUBSET S PROVE F[T] = SumOver(g, T)
  <2>1. IsFiniteSet(T) /\ \A x \in T : g[x] \in Int
    BY FS_Subset
  <2>2. \E G : SumsOf(G, g, T)
    BY <2>1, SumsExist
  <2>3. PICK G : G = CHOOSE H : SumsOf(H, g, T)
    OBVIOUS
  <2>4. SumsOf(G, g, T)
    BY <2>2, <2>3
  <2>5. F[T] = G[T]
    BY <1>1, <2>4, SumsUnique
  <2> QED
    BY <2>3, <2>5 DEF SumOver
<1> QED
  BY <1>1, <1>2 DEF Summing

LEMMA SumType ==
    ASSUME NEW S, IsFiniteSet(S), NEW g, \A x \in S : g[x] \in Int
    PROVE  SumOver(g, S) \in Int
<1>1. PICK F : Summing(F, g, S)
  <2>1. \A x \in S : g[x] \in Int
    OBVIOUS
  <2> QED
    BY <2>1, SumsChosen
<1>2. S \in SUBSET S
  OBVIOUS
<1> QED
  BY <1>1, <1>2 DEF Summing

LEMMA SumEmpty ==
    ASSUME NEW g PROVE SumOver(g, {}) = 0
<1>1. IsFiniteSet({}) /\ {} \in SUBSET {}
  BY FS_EmptySet
<1>2. PICK F : Summing(F, g, {})
  <2>1. \A x \in {} : g[x] \in Int
    OBVIOUS
  <2> QED
    BY <1>1, <2>1, SumsChosen
<1> QED
  BY <1>1, <1>2 DEF Summing, SumsOf

\* The order in which the fold picks elements does not matter.
LEMMA SumWithout ==
    ASSUME NEW S, IsFiniteSet(S), NEW g, \A x \in S : g[x] \in Int, NEW x \in S
    PROVE  SumOver(g, S) = g[x] + SumOver(g, S \ {x})
<1>1. PICK F : Summing(F, g, S)
  BY SumsChosen
<1>2. \A s \in SUBSET S : F[s] = IF s = {} THEN 0 ELSE g[pick(s)] + F[s \ {pick(s)}]
  BY <1>1 DEF Summing, SumsOf
<1> DEFINE Bad == {s \in SUBSET S : \E y \in s : F[s] # g[y] + F[s \ {y}]}
<1>3. Bad = {}
  <2>1. SUFFICES ASSUME Bad # {} PROVE FALSE
    OBVIOUS
  <2>2. PICK t \in Bad : \A u \in Bad : u \subseteq t => u = t
    <3>1. Bad \in SUBSET (SUBSET S)
      OBVIOUS
    <3> HIDE DEF Bad
    <3> QED
      BY <2>1, <3>1, SetMin
  <2>3. PICK y \in t : F[t] # g[y] + F[t \ {y}]
    OBVIOUS
  <2>4. PICK p : p = pick(t)
    OBVIOUS
  <2>5. t \in SUBSET S /\ t # {} /\ p \in t
    BY <2>3, <2>4, Picked
  <2>6. F[t] = g[p] + F[t \ {p}]
    BY <1>2, <2>4, <2>5
  <2>7. p # y
    BY <2>3, <2>6
  <2>8. /\ t \ {p} \in SUBSET S /\ t \ {y} \in SUBSET S
        /\ t \ {p} \subseteq t /\ t \ {y} \subseteq t
        /\ t \ {p} # t /\ t \ {y} # t
        /\ y \in t \ {p} /\ p \in t \ {y}
    BY <2>5, <2>7
  <2>9. t \ {p} \notin Bad /\ t \ {y} \notin Bad
    BY <2>2, <2>8
  <2>10. /\ F[t \ {p}] = g[y] + F[(t \ {p}) \ {y}]
         /\ F[t \ {y}] = g[p] + F[(t \ {y}) \ {p}]
    BY <2>8, <2>9
  <2>11. (t \ {p}) \ {y} = (t \ {y}) \ {p} /\ (t \ {p}) \ {y} \in SUBSET S
    BY <2>5
  <2>12. PICK r \in Int : r = F[(t \ {p}) \ {y}]
    BY <1>1, <2>11 DEF Summing
  <2>13. g[p] \in Int /\ g[y] \in Int
    BY <2>5
  <2>14. F[t \ {p}] = g[y] + r /\ F[t \ {y}] = g[p] + r
    BY <2>10, <2>11, <2>12
  <2> HIDE DEF Bad
  <2> QED
    BY <2>3, <2>6, <2>12, <2>13, <2>14
<1>4. F[S] = g[x] + F[S \ {x}]
  BY <1>3
<1>5. S \in SUBSET S /\ S \ {x} \in SUBSET S
  OBVIOUS
<1> QED
  BY <1>1, <1>4, <1>5 DEF Summing

\* Only the values on S count.
LEMMA SumSame ==
    ASSUME NEW S, IsFiniteSet(S), NEW g, NEW h,
           \A x \in S : g[x] \in Int /\ h[x] = g[x]
    PROVE  SumOver(h, S) = SumOver(g, S)
<1>1. PICK F : Summing(F, g, S)
  <2>1. \A x \in S : g[x] \in Int
    OBVIOUS
  <2> QED
    BY <2>1, SumsChosen
<1>2. PICK G : Summing(G, h, S)
  <2>1. \A x \in S : h[x] \in Int
    OBVIOUS
  <2> QED
    BY <2>1, SumsChosen
<1>3. \A s \in SUBSET S : s # {} => g[pick(s)] = h[pick(s)]
  BY Picked
<1>4. [s \in SUBSET S |-> IF s = {} THEN 0 ELSE g[pick(s)] + G[s \ {pick(s)}]]
        = [s \in SUBSET S |-> IF s = {} THEN 0 ELSE h[pick(s)] + G[s \ {pick(s)}]]
  BY <1>3
<1>5. SumsOf(G, g, S)
  BY <1>2, <1>4 DEF Summing, SumsOf
<1>6. F[S] = G[S]
  BY <1>1, <1>5, SumsUnique DEF Summing
<1> QED
  BY <1>1, <1>2, <1>6 DEF Summing

\* A sum changes by what one of its terms changes.
LEMMA SumChanged ==
    ASSUME NEW S, IsFiniteSet(S), NEW g, NEW h, NEW x \in S,
           \A y \in S : g[y] \in Int /\ h[y] \in Int /\ (y # x => h[y] = g[y])
    PROVE  /\ SumOver(g, S) \in Int
           /\ SumOver(h, S) = SumOver(g, S) - g[x] + h[x]
<1>1. IsFiniteSet(S \ {x})
  BY FS_Subset
<1>2. SumOver(h, S \ {x}) = SumOver(g, S \ {x})
  BY <1>1, SumSame
<1>3. PICK r \in Int : r = SumOver(g, S \ {x})
  BY <1>1, SumType
<1>4. SumOver(g, S) = g[x] + r
  BY <1>3, SumWithout
<1>5. SumOver(h, S) = h[x] + r
  BY <1>2, <1>3, SumWithout
<1>6. g[x] \in Int /\ h[x] \in Int
  OBVIOUS
<1> QED
  BY <1>3, <1>4, <1>5, <1>6

\* A sum of what is not negative is at least that of any part.
LEMMA SumAtLeast ==
    ASSUME NEW S, IsFiniteSet(S), NEW g, \A x \in S : g[x] \in Nat
    PROVE  /\ SumOver(g, S) \in Nat
           /\ \A x \in S : g[x] <= SumOver(g, S)
<1> DEFINE Bad == {s \in SUBSET S : SumOver(g, s) \notin Nat}
<1>1. Bad = {}
  <2>1. SUFFICES ASSUME Bad # {} PROVE FALSE
    OBVIOUS
  <2>2. PICK t \in Bad : \A u \in Bad : u \subseteq t => u = t
    <3>1. Bad \in SUBSET (SUBSET S)
      OBVIOUS
    <3> HIDE DEF Bad
    <3> QED
      BY <2>1, <3>1, SetMin
  <2>3. t \in SUBSET S /\ SumOver(g, t) \notin Nat
    OBVIOUS
  <2>4. t # {}
    BY <2>3, SumEmpty
  <2>5. PICK x \in t : TRUE
    BY <2>4
  <2>6. t \ {x} \notin Bad /\ t \ {x} \in SUBSET S
    BY <2>2, <2>3, <2>5
  <2>7. SumOver(g, t \ {x}) \in Nat
    BY <2>6
  <2>8. IsFiniteSet(t) /\ g[x] \in Nat /\ \A y \in t : g[y] \in Int
    BY <2>3, <2>5, FS_Subset
  <2> HIDE DEF Bad
  <2>9. SumOver(g, t) = g[x] + SumOver(g, t \ {x})
    BY <2>5, <2>8, SumWithout
  <2> QED
    BY <2>3, <2>7, <2>8, <2>9
<1>2. \A s \in SUBSET S : SumOver(g, s) \in Nat
  BY <1>1
<1>3. ASSUME NEW x \in S PROVE g[x] <= SumOver(g, S)
  <2>1. PICK r \in Nat : r = SumOver(g, S \ {x})
    BY <1>2
  <2>2. \A y \in S : g[y] \in Int
    OBVIOUS
  <2>3. SumOver(g, S) = g[x] + r
    BY <2>1, <2>2, SumWithout
  <2>4. g[x] \in Nat
    OBVIOUS
  <2> QED
    BY <2>1, <2>3, <2>4
<1> QED
  BY <1>2, <1>3

LEMMA SumNothing ==
    ASSUME NEW S, IsFiniteSet(S), NEW g, \A x \in S : g[x] = 0
    PROVE  SumOver(g, S) = 0
<1>1. PICK F : Summing(F, g, S)
  <2>1. \A x \in S : g[x] \in Int
    OBVIOUS
  <2> QED
    BY <2>1, SumsChosen
<1> DEFINE Zeros == [s \in SUBSET S |-> 0]
<1>2. SumsOf(Zeros, g, S)
  <2>1. \A s \in SUBSET S : s # {} => g[pick(s)] = 0 /\ s \ {pick(s)} \in SUBSET S
    BY Picked
  <2>2. Zeros = [s \in SUBSET S |-> IF s = {} THEN 0
                                    ELSE g[pick(s)] + Zeros[s \ {pick(s)}]]
    BY <2>1
  <2> HIDE DEF Zeros
  <2> QED
    BY <2>2 DEF SumsOf
<1>3. F[S] = Zeros[S]
  BY <1>1, <1>2, SumsUnique DEF Summing
<1> QED
  BY <1>1, <1>3 DEF Summing

LEMMA SumFunctionIs ==
    ASSUME NEW f PROVE SumFunction(f) = SumOver(f, DOMAIN f)
BY DEF SumFunction, SumFunctionOnSet, FoldFunctionOnSet, MapThenFoldSet, SumOver,
       SumsOf, pick

\* The sum of the values of a function, and what a change of one does to it.
LEMMA FunctionSum ==
    ASSUME NEW S, IsFiniteSet(S), NEW m \in [S -> Nat]
    PROVE  /\ SumFunction(m) \in Nat
           /\ \A a \in S : m[a] <= SumFunction(m)
<1>1. DOMAIN m = S /\ \A a \in S : m[a] \in Nat
  OBVIOUS
<1> QED
  BY <1>1, SumAtLeast, SumFunctionIs

LEMMA FunctionSumChanged ==
    ASSUME NEW S, IsFiniteSet(S), NEW m \in [S -> Int], NEW h \in [S -> Int],
           NEW a \in S, \A x \in S : x # a => h[x] = m[x]
    PROVE  SumFunction(h) = SumFunction(m) - m[a] + h[a]
<1>1. DOMAIN h = S /\ DOMAIN m = S
  OBVIOUS
<1>2. \A x \in S : m[x] \in Int /\ h[x] \in Int /\ (x # a => h[x] = m[x])
  OBVIOUS
<1>3. /\ SumOver(m, S) \in Int
      /\ SumOver(h, S) = SumOver(m, S) - m[a] + h[a]
  BY <1>2, SumChanged
<1> QED
  BY <1>1, <1>3, SumFunctionIs

-----------------------------------------------------------------------------
(* Accounts                                                                *)

LEMMA AccountsFinite == IsFiniteSet(Account)
<1>1. IsFiniteSet({Escrow, Bank, Zero})
  <2>1. IsFiniteSet({} \cup {Escrow} \cup {Bank} \cup {Zero})
    BY FS_EmptySet, FS_AddElement
  <2>2. {} \cup {Escrow} \cup {Bank} \cup {Zero} = {Escrow, Bank, Zero}
    OBVIOUS
  <2> QED
    BY <2>1, <2>2
<1> QED
  BY <1>1, AccountAssumption, FS_Union DEF Account

LEMMA BalancesSum ==
    ASSUME NEW m \in [Account -> Nat]
    PROVE  /\ SumFunction(m) \in Nat
           /\ \A a \in Account : m[a] <= SumFunction(m)
BY AccountsFinite, FunctionSum

LEMMA BalanceChanged ==
    ASSUME NEW m \in [Account -> Nat], NEW h \in [Account -> Nat],
           NEW a \in Account, \A x \in Account : x # a => h[x] = m[x]
    PROVE  SumFunction(h) = SumFunction(m) - m[a] + h[a]
<1>1. m \in [Account -> Int] /\ h \in [Account -> Int]
  OBVIOUS
<1> QED
  BY <1>1, AccountsFinite, FunctionSumChanged

LEMMA ModSmall ==
    ASSUME NEW x \in Nat, NEW n \in Nat, x < n PROVE x % n = x
OBVIOUS

\* The balances of a chain.
BankTyped(b) == b \in [Denom -> [Account -> Nat]]

\* r are the balances b with the units of one denomination changed.
SameBut(r, b, denom) ==
    /\ r \in [Denom -> [Account -> Nat]]
    /\ \A other \in Denom : other # denom => r[other] = b[other]

LEMMA Moved ==
    ASSUME NEW b, BankTyped(b), NEW from \in Account, NEW to \in Account,
           NEW denom \in Denom, NEW amount \in Nat, SumFunction(b[denom]) < UINT256,
           ~ transferFrom(b, from, to, denom, amount).reverted,
           NEW r, r = transferFrom(b, from, to, denom, amount).balances
    PROVE  /\ SameBut(r, b, denom)
           /\ SumFunction(r[denom]) = SumFunction(b[denom])
           /\ b[denom][from] >= amount
           /\ \A a \in Account : r[denom][a] =
                b[denom][a] - (IF a = from THEN amount ELSE 0)
                            + (IF a = to THEN amount ELSE 0)
<1> DEFINE m == b[denom]
           t == [m EXCEPT ![from] = @ - amount]
           u == [t EXCEPT ![to] = @ + amount]
           taken == [b EXCEPT ![denom][from] = @ - amount]
<1>1. /\ m \in [Account -> Nat] /\ SumFunction(m) < UINT256 /\ UINT256 \in Nat
      /\ b \in [Denom -> [Account -> Nat]]
  BY BoundAssumption DEF BankTyped
<1>2. /\ b[denom][from] >= amount
      /\ r = [taken EXCEPT ![denom][to] = (@ + amount) % UINT256]
  <2>1. ~ (to = Zero \/ b[denom][from] < amount)
    BY DEF transferFrom, Reverts
  <2>2. r = [taken EXCEPT ![denom][to] = (@ + amount) % UINT256]
    BY <2>1 DEF transferFrom, Balances
  <2>3. b[denom][from] \in Nat
    BY <1>1
  <2> QED
    BY <2>1, <2>2, <2>3
<1>3. /\ t \in [Account -> Nat] /\ t[from] = m[from] - amount /\ m[from] \in Nat
      /\ \A x \in Account : x # from => t[x] = m[x]
  BY <1>1, <1>2
<1>4. /\ u \in [Account -> Nat] /\ u[to] = t[to] + amount
      /\ \A x \in Account : x # to => u[x] = t[x]
  <2> HIDE DEF t
  <2> QED
    BY <1>3
<1>5. SumFunction(m) \in Nat
  BY <1>1, BalancesSum
<1>6. SumFunction(u) = SumFunction(m)
  <2> HIDE DEF t, u, m
  <2>1. SumFunction(t) = SumFunction(m) - m[from] + t[from]
    BY <1>1, <1>3, BalanceChanged
  <2>2. SumFunction(u) = SumFunction(t) - t[to] + u[to]
    BY <1>3, <1>4, BalanceChanged
  <2>3. t[to] \in Nat
    BY <1>3
  <2> QED
    BY <1>3, <1>4, <1>5, <2>1, <2>2, <2>3
<1>7. u[to] = t[to] + amount /\ t[to] \in Nat
  BY <1>3
<1>8. (t[to] + amount) % UINT256 = t[to] + amount
  <2> HIDE DEF t, u, m
  <2>1. u[to] <= SumFunction(u)
    BY <1>4, BalancesSum
  <2>2. t[to] + amount \in Nat /\ t[to] + amount < UINT256
    BY <1>1, <1>5, <1>6, <1>7, <2>1
  <2> QED
    BY <1>1, <2>2, ModSmall
<1>9. taken = [b EXCEPT ![denom] = t]
  BY <1>1
<1>10. r = [b EXCEPT ![denom] = u]
  <2> HIDE DEF t
  <2>1. [b EXCEPT ![denom] = t][denom] = t
    BY <1>1
  <2>2. r = [[b EXCEPT ![denom] = t] EXCEPT ![denom] = [t EXCEPT ![to] = (@ + amount) % UINT256]]
    BY <1>1, <1>2, <1>9, <2>1
  <2> QED
    BY <1>1, <1>8, <2>2
<1>11. \A a \in Account : u[a] =
         m[a] - (IF a = from THEN amount ELSE 0) + (IF a = to THEN amount ELSE 0)
  BY <1>1
<1>12. r[denom] = u /\ SameBut(r, b, denom)
  <2> HIDE DEF u
  <2> QED
    BY <1>1, <1>4, <1>10 DEF SameBut
<1> HIDE DEF u, t
<1> QED
  BY <1>2, <1>6, <1>11, <1>12

LEMMA MintedTo ==
    ASSUME NEW b, BankTyped(b), NEW account \in Account, NEW denom \in Denom,
           NEW amount \in Nat, SumFunction(b[denom]) + amount < UINT256,
           NEW r, r = mint(b, account, denom, amount).balances
    PROVE  /\ SameBut(r, b, denom)
           /\ SumFunction(r[denom]) = SumFunction(b[denom]) + amount
           /\ \A a \in Account : r[denom][a] =
                b[denom][a] + (IF a = account THEN amount ELSE 0)
<1> DEFINE m == b[denom]
           u == [m EXCEPT ![account] = @ + amount]
<1>1. /\ m \in [Account -> Nat] /\ UINT256 \in Nat
      /\ b \in [Denom -> [Account -> Nat]]
  BY BoundAssumption DEF BankTyped
<1>2. r = [b EXCEPT ![denom][account] = (@ + amount) % UINT256]
  BY DEF mint, Balances
<1>3. /\ u \in [Account -> Nat] /\ SumFunction(u) = SumFunction(m) + amount
  <2>1. /\ u \in [Account -> Nat] /\ u[account] = m[account] + amount
        /\ m[account] \in Nat /\ \A x \in Account : x # account => u[x] = m[x]
    BY <1>1
  <2> HIDE DEF m, u
  <2>2. SumFunction(u) = SumFunction(m) - m[account] + u[account]
    BY <1>1, <2>1, BalanceChanged
  <2>3. SumFunction(m) \in Nat
    BY <1>1, BalancesSum
  <2> QED
    BY <2>1, <2>2, <2>3
<1>4. (m[account] + amount) % UINT256 = m[account] + amount
  <2>1. m[account] <= SumFunction(m) /\ SumFunction(m) \in Nat /\ m[account] \in Nat
    BY <1>1, BalancesSum
  <2>2. m[account] + amount \in Nat /\ m[account] + amount < UINT256
    BY <1>1, <2>1
  <2> QED
    BY <1>1, <2>2, ModSmall
<1>5. r = [b EXCEPT ![denom] = u]
  BY <1>1, <1>2, <1>4
<1>6. \A a \in Account : u[a] = m[a] + (IF a = account THEN amount ELSE 0)
  BY <1>1
<1>7. r[denom] = u /\ SameBut(r, b, denom)
  <2> HIDE DEF u
  <2> QED
    BY <1>1, <1>3, <1>5 DEF SameBut
<1> HIDE DEF u
<1> QED
  BY <1>3, <1>6, <1>7

LEMMA BurnedFrom ==
    ASSUME NEW b, BankTyped(b), NEW account \in Account, NEW denom \in Denom,
           NEW amount \in Nat, ~ burn(b, account, denom, amount).reverted,
           NEW r, r = burn(b, account, denom, amount).balances
    PROVE  /\ SameBut(r, b, denom)
           /\ SumFunction(r[denom]) = SumFunction(b[denom]) - amount
           /\ b[denom][account] >= amount
           /\ \A a \in Account : r[denom][a] =
                b[denom][a] - (IF a = account THEN amount ELSE 0)
<1> DEFINE m == b[denom]
           u == [m EXCEPT ![account] = @ - amount]
<1>1. /\ m \in [Account -> Nat] /\ b \in [Denom -> [Account -> Nat]]
  BY DEF BankTyped
<1>2. /\ b[denom][account] >= amount
      /\ r = [b EXCEPT ![denom][account] = @ - amount]
  <2>1. ~ (b[denom][account] < amount)
    BY DEF burn, Reverts
  <2>2. r = [b EXCEPT ![denom][account] = @ - amount]
    BY <2>1 DEF burn, Balances
  <2>3. b[denom][account] \in Nat
    BY <1>1
  <2> QED
    BY <2>1, <2>2, <2>3
<1>3. /\ u \in [Account -> Nat] /\ SumFunction(u) = SumFunction(m) - amount
  <2>1. /\ u \in [Account -> Nat] /\ u[account] = m[account] - amount
        /\ m[account] \in Nat /\ \A x \in Account : x # account => u[x] = m[x]
    BY <1>1, <1>2
  <2> HIDE DEF m, u
  <2>2. SumFunction(u) = SumFunction(m) - m[account] + u[account]
    BY <1>1, <2>1, BalanceChanged
  <2>3. SumFunction(m) \in Nat
    BY <1>1, BalancesSum
  <2> QED
    BY <2>1, <2>2, <2>3
<1>4. SumFunction(m) \in Nat
  BY <1>1, BalancesSum
<1>5. r = [b EXCEPT ![denom] = u]
  BY <1>1, <1>2
<1>6. \A a \in Account : u[a] = m[a] - (IF a = account THEN amount ELSE 0)
  BY <1>1
<1>7. r[denom] = u /\ SameBut(r, b, denom)
  <2> HIDE DEF u
  <2> QED
    BY <1>1, <1>3, <1>5 DEF SameBut
<1> HIDE DEF u
<1> QED
  BY <1>2, <1>3, <1>4, <1>6, <1>7

-----------------------------------------------------------------------------
(* Denominations                                                           *)

LEMMA DenomIs ==
    ASSUME NEW denom
    PROVE  denom \in Denom <=> /\ denom \in [trace : Seq(ChannelId), token : Token]
                               /\ Len(denom.trace) <= MaxTrace
<1>1. ASSUME NEW s, s \in Seq(ChannelId), Len(s) <= MaxTrace
      PROVE  s \in UNION {[1..k -> ChannelId] : k \in 0..MaxTrace}
  <2>1. Len(s) \in 0..MaxTrace /\ s \in [1..Len(s) -> ChannelId]
    BY <1>1, BoundAssumption
  <2> QED
    BY <2>1
<1>2. ASSUME NEW s, s \in UNION {[1..k -> ChannelId] : k \in 0..MaxTrace}
      PROVE  s \in Seq(ChannelId) /\ Len(s) <= MaxTrace
  <2>1. PICK k \in 0..MaxTrace : s \in [1..k -> ChannelId]
    BY <1>2
  <2>2. k \in Nat /\ k <= MaxTrace
    BY <2>1, BoundAssumption
  <2>3. s \in Seq(ChannelId) /\ Len(s) = k
    BY <2>1, <2>2
  <2> QED
    BY <2>2, <2>3
<1>3. ASSUME denom \in Denom
      PROVE  /\ denom \in [trace : Seq(ChannelId), token : Token]
             /\ Len(denom.trace) <= MaxTrace
  <2>1. /\ denom = [trace |-> denom.trace, token |-> denom.token]
        /\ denom.trace \in UNION {[1..k -> ChannelId] : k \in 0..MaxTrace}
        /\ denom.token \in Token
    BY <1>3 DEF Denom
  <2>2. denom.trace \in Seq(ChannelId) /\ Len(denom.trace) <= MaxTrace
    BY <1>2, <2>1
  <2> QED
    BY <2>1, <2>2
<1>4. ASSUME denom \in [trace : Seq(ChannelId), token : Token],
             Len(denom.trace) <= MaxTrace
      PROVE  denom \in Denom
  <2>1. denom.trace \in UNION {[1..k -> ChannelId] : k \in 0..MaxTrace}
    BY <1>1, <1>4
  <2> HIDE <1>1
  <2> QED
    BY <1>4, <2>1 DEF Denom
<1> QED
  BY <1>3, <1>4

LEMMA NativeDenom ==
    ASSUME NEW token \in Token
    PROVE  /\ native(token) \in Denom
           /\ \A channel : ~ startsWith(native(token), channel)
<1>1. native(token) \in [trace : Seq(ChannelId), token : Token]
  BY DEF native
<1>2. Len(native(token).trace) = 0
  BY DEF native
<1>3. native(token) \in Denom
  BY <1>1, <1>2, BoundAssumption, DenomIs
<1> QED
  BY <1>3 DEF native, startsWith

LEMMA PrefixedDenom ==
    ASSUME NEW denom \in Denom, NEW channel \in ChannelId
    PROVE  /\ Len(denom.trace) < MaxTrace => prefixed(channel, denom) \in Denom
           /\ \A x : startsWith(prefixed(channel, denom), x) <=> x = channel
           /\ beyond(prefixed(channel, denom)) = denom
<1> DEFINE s == <<channel>> \o denom.trace
<1>1. /\ denom \in [trace : Seq(ChannelId), token : Token]
      /\ Len(denom.trace) \in Nat /\ MaxTrace \in Nat
  BY DenomIs, BoundAssumption
<1>2. /\ s \in Seq(ChannelId) /\ Len(s) = Len(denom.trace) + 1
      /\ s # <<>> /\ s[1] = channel /\ Tail(s) = denom.trace
  <2>1. s \in Seq(ChannelId) /\ Len(s) = Len(denom.trace) + 1 /\ s[1] = channel
    BY <1>1
  <2>2. s # <<>>
    BY <1>1, <2>1
  <2>3. Tail(s) = denom.trace
    <3>1. Tail(s) \in Seq(ChannelId) /\ Len(Tail(s)) = Len(denom.trace)
      BY <1>1, <2>1, <2>2
    <3>2. \A i \in 1..Len(denom.trace) : Tail(s)[i] = denom.trace[i]
      BY <1>1, <2>1
    <3> QED
      BY <1>1, <3>1, <3>2, SeqEqual
  <2> QED
    BY <2>1, <2>2, <2>3
<1>3. prefixed(channel, denom) = [trace |-> s, token |-> denom.token]
  <2>1. prefixed(channel, denom) = [denom EXCEPT !.trace = s]
    BY DEF prefixed
  <2> HIDE DEF s
  <2> QED
    BY <1>1, <2>1
<1> HIDE DEF s
<1>4. Len(denom.trace) < MaxTrace => prefixed(channel, denom) \in Denom
  <2> SUFFICES ASSUME Len(denom.trace) < MaxTrace
               PROVE  prefixed(channel, denom) \in Denom
    OBVIOUS
  <2>1. Len(s) <= MaxTrace
    BY <1>1, <1>2
  <2>2. /\ [trace |-> s, token |-> denom.token] \in [trace : Seq(ChannelId), token : Token]
        /\ [trace |-> s, token |-> denom.token].trace = s
    BY <1>1, <1>2
  <2> QED
    BY <1>3, <2>1, <2>2, DenomIs
<1>5. \A x : startsWith(prefixed(channel, denom), x) <=> x = channel
  BY <1>2, <1>3 DEF startsWith
<1>6. beyond(prefixed(channel, denom)) = denom
  BY <1>1, <1>2, <1>3 DEF beyond
<1> QED
  BY <1>4, <1>5, <1>6

LEMMA BeyondDenom ==
    ASSUME NEW denom \in Denom, NEW channel, startsWith(denom, channel)
    PROVE  /\ beyond(denom) \in Denom
           /\ channel \in ChannelId
           /\ prefixed(channel, beyond(denom)) = denom
<1> DEFINE s == denom.trace
           t == Tail(s)
<1>1. /\ denom \in [trace : Seq(ChannelId), token : Token]
      /\ s \in Seq(ChannelId) /\ Len(s) \in Nat /\ Len(s) <= MaxTrace
      /\ s # <<>> /\ s[1] = channel
  BY DenomIs DEF startsWith
<1>2. /\ t \in Seq(ChannelId) /\ Len(t) = Len(s) - 1 /\ channel \in ChannelId
      /\ \A i \in 1..Len(t) : t[i] = s[i + 1]
  BY <1>1
<1>3. <<channel>> \o t = s
  <2> DEFINE w == <<channel>> \o t
  <2> HIDE DEF s, t
  <2>1. /\ w \in Seq(ChannelId) /\ Len(w) = 1 + Len(t) /\ w[1] = channel
        /\ \A i \in 2..Len(w) : w[i] = t[i - 1]
    BY <1>2
  <2>2. \A i \in 1..Len(w) : w[i] = s[i]
    <3> SUFFICES ASSUME NEW i \in 1..Len(w) PROVE w[i] = s[i]
      OBVIOUS
    <3>1. CASE i = 1
      BY <1>1, <2>1, <3>1
    <3>2. CASE i # 1
      <4>1. i - 1 \in 1..Len(t) /\ i \in 2..Len(w) /\ i - 1 + 1 = i
        BY <1>2, <2>1, <3>2
      <4> QED
        BY <1>2, <2>1, <4>1
    <3> QED
      BY <3>1, <3>2
  <2>3. Len(w) = Len(s)
    BY <1>1, <1>2, <2>1
  <2> HIDE DEF w
  <2>4. w = s
    BY <1>1, <2>1, <2>2, <2>3, SeqEqual
  <2> QED
    BY <2>4 DEF w
<1>4. beyond(denom) = [trace |-> t, token |-> denom.token]
  <2>1. beyond(denom) = [denom EXCEPT !.trace = Tail(denom.trace)]
    BY DEF beyond
  <2>2. denom \in [trace : Seq(ChannelId), token : Token]
    BY <1>1
  <2> QED
    BY ONLY <2>1, <2>2
<1> HIDE DEF s, t
<1>5. beyond(denom) \in Denom
  <2>1. Len(t) <= MaxTrace
    BY <1>1, <1>2, BoundAssumption
  <2>2. /\ [trace |-> t, token |-> denom.token] \in [trace : Seq(ChannelId), token : Token]
        /\ [trace |-> t, token |-> denom.token].trace = t
    BY <1>1, <1>2
  <2> QED
    BY <1>4, <2>1, <2>2, DenomIs
<1>6. prefixed(channel, beyond(denom)) = denom
  BY <1>1, <1>3, <1>4 DEF prefixed, s
<1> QED
  BY <1>2, <1>5, <1>6

-----------------------------------------------------------------------------
(* The inductive invariant                                                 *)

Transfer == [denom : Denom, amount : Nat, sender : User, receiver : Account,
             timeout : Nat]

TypeOK ==
    /\ balances \in [Chain -> [Denom -> [Account -> Nat]]]
    /\ wallets \in [Chain -> [Token -> [Account -> Nat]]]
    /\ gifts \in [Chain -> [Denom -> Nat]]

DeliveryTypeOK ==
    /\ sent \in [Endpoint -> Seq(Transfer)]
    /\ \A e \in Endpoint : Len(sent[e]) <= MaxSends
    /\ received \in [Endpoint -> Seq([number : Number, message : Transfer])]
    /\ answers \in [Endpoint -> [Number -> Answer \cup {None}]]
    /\ acked \in [Endpoint -> Seq([number : Number, message : Transfer,
                                   answer : Answer])]

\* What was delivered was sent, what was answered was delivered, and what is
\* heard of was answered.
DeliveredWereSent ==
    \A e \in Endpoint, n \in Number : Delivered(e, n) => n \in DOMAIN sent[Peer[e]]

AnsweredWereDelivered ==
    \A e \in Endpoint, n \in Number : answers[e][n] # None => Delivered(e, n)

AckedWereAnswered ==
    \A e \in Endpoint, n \in Number : Acked(e, n) => answers[Peer[e]][n] # None

\* A denomination that came over the channel of an end did not leave over the
\* other end of that channel: it would have gone back.
cameOver(e, denom) ==
    startsWith(denom, channelOf(e)) /\ ~ startsWith(beyond(denom), channelOf(Peer[e]))

\* What left over e has a denomination that the other end can receive it as;
\* what goes back came over e, unless it was minted by an outside call.
SentCanArrive ==
    \A e \in Endpoint : \A n \in DOMAIN sent[e] :
      LET denom == sent[e][n].denom IN
      IF startsWith(denom, channelOf(e))
      THEN outside = 0 /\ sent[e][n].amount # 0 => cameOver(e, denom)
      ELSE prefixed(channelOf(Peer[e]), denom) \in Denom

VouchersCameOver ==
    \A c \in Chain, denom \in Denom, channel \in ChannelId :
      Supply(c, denom) # 0 /\ startsWith(denom, channel)
        => cameOver(<<c, channel>>, denom)

\* No sum of balances overflows.
SupplyBounded == \A c \in Chain, denom \in Denom : Supply(c, denom) < UINT256
WalletsBounded ==
    \A c \in Chain, token \in Token : SumFunction(wallets[c][token]) < UINT256

\* What is sent, received and answered over the channels.
DeliveryInv ==
    /\ DeliveryTypeOK
    /\ DeliveredWereSent /\ AnsweredWereDelivered /\ AckedWereAnswered
    /\ SentCanArrive

\* What the accounts hold.
AccountInv ==
    /\ VouchersCameOver
    /\ SupplyBounded /\ WalletsBounded
    /\ NativeBacked /\ EscrowIsAbroad

\* The inductive invariant as long as no callback is called from outside.
IInv == TypeOK /\ DeliveryInv /\ AccountInv

-----------------------------------------------------------------------------
(* Messages                                                                *)

LEMMA Ends ==
    ASSUME NEW e \in Endpoint
    PROVE  /\ Peer[e] \in Endpoint /\ Peer[Peer[e]] = e
           /\ chainOf(e) \in Chain /\ channelOf(e) \in ChannelId
           /\ e = <<chainOf(e), channelOf(e)>>
BY PeerAssumption, TransferAssumption DEF chainOf, channelOf

Numbered(s, n) == \E k \in DOMAIN s : s[k].number = n

LEMMA Appended ==
    ASSUME NEW S, NEW s \in Seq(S), NEW x \in S, NEW n
    PROVE  Numbered(Append(s, x), n) <=> Numbered(s, n) \/ x.number = n
<1> DEFINE t == Append(s, x)
<1>1. /\ t \in Seq(S) /\ Len(s) \in Nat /\ Len(t) = Len(s) + 1
      /\ DOMAIN s = 1..Len(s) /\ DOMAIN t = 1..Len(t)
      /\ t[Len(t)] = x /\ \A k \in 1..Len(s) : t[k] = s[k]
  OBVIOUS
<1> HIDE DEF t
<1>2. ASSUME NEW k \in DOMAIN t, t[k].number = n
      PROVE  (\E j \in DOMAIN s : s[j].number = n) \/ x.number = n
  <2>1. k = Len(t) \/ k \in 1..Len(s)
    BY <1>1
  <2> QED
    BY <1>1, <1>2, <2>1
<1>3. ASSUME NEW k \in DOMAIN s, s[k].number = n
      PROVE  \E j \in DOMAIN t : t[j].number = n
  <2>1. k \in DOMAIN t /\ t[k] = s[k]
    BY <1>1
  <2> QED
    BY <1>3, <2>1
<1>4. ASSUME x.number = n PROVE \E j \in DOMAIN t : t[j].number = n
  <2>1. Len(t) \in DOMAIN t
    BY <1>1
  <2> QED
    BY <1>1, <1>4, <2>1
<1> QED
  BY <1>2, <1>3, <1>4 DEF t, Numbered

LEMMA SendDelivery ==
    ASSUME DeliveryInv, NEW e \in Endpoint, NEW message \in Transfer,
           Len(sent[e]) < MaxSends, Send(e, message), UNCHANGED outside,
           IF startsWith(message.denom, channelOf(e))
           THEN outside = 0 /\ message.amount # 0 => cameOver(e, message.denom)
           ELSE prefixed(channelOf(Peer[e]), message.denom) \in Denom
    PROVE  DeliveryInv'
<1>1. /\ sent \in [Endpoint -> Seq(Transfer)]
      /\ sent' = [sent EXCEPT ![e] = Append(@, message)]
      /\ UNCHANGED <<received, answers, acked>>
  BY DEF DeliveryInv, DeliveryTypeOK, Send
<1>2. /\ sent' \in [Endpoint -> Seq(Transfer)]
      /\ sent'[e] = Append(sent[e], message)
      /\ \A f \in Endpoint : f # e => sent'[f] = sent[f]
  BY <1>1
<1>3. /\ Len(sent[e]) \in Nat /\ Len(sent'[e]) = Len(sent[e]) + 1
      /\ DOMAIN sent[e] = 1..Len(sent[e]) /\ DOMAIN sent'[e] = 1..Len(sent'[e])
      /\ \A n \in DOMAIN sent[e] : sent'[e][n] = sent[e][n]
      /\ sent'[e][Len(sent'[e])] = message
  BY <1>1, <1>2
<1>4. \A f \in Endpoint : \A n \in DOMAIN sent[f] :
        n \in DOMAIN sent'[f] /\ sent'[f][n] = sent[f][n]
  BY <1>2, <1>3
<1>5. DeliveryTypeOK'
  <2>1. \A f \in Endpoint : Len(sent'[f]) <= MaxSends
    <3>1. MaxSends \in Nat /\ \A f \in Endpoint : Len(sent[f]) <= MaxSends
      BY TransferAssumption DEF DeliveryInv, DeliveryTypeOK
    <3>2. Len(sent'[e]) <= MaxSends
      BY <1>3, <3>1
    <3> QED
      BY <1>2, <3>1, <3>2
  <2> QED
    BY <1>1, <1>2, <2>1 DEF DeliveryInv, DeliveryTypeOK
<1>6. DeliveredWereSent' /\ AnsweredWereDelivered' /\ AckedWereAnswered'
  <2>1. \A f, n : Delivered(f, n)' <=> Delivered(f, n)
    BY <1>1 DEF Delivered
  <2>2. \A f, n : Acked(f, n)' <=> Acked(f, n)
    BY <1>1 DEF Acked
  <2>3. DeliveredWereSent'
    BY <1>4, <2>1, Ends DEF DeliveryInv, DeliveredWereSent
  <2>4. AnsweredWereDelivered' /\ AckedWereAnswered'
    BY <1>1, <2>1, <2>2 DEF DeliveryInv, AnsweredWereDelivered, AckedWereAnswered
  <2> QED
    BY <2>3, <2>4
<1>7. SentCanArrive'
  <2> SUFFICES ASSUME NEW f \in Endpoint, NEW n \in DOMAIN sent'[f]
               PROVE  IF startsWith(sent'[f][n].denom, channelOf(f))
                      THEN outside' = 0 /\ sent'[f][n].amount # 0
                             => cameOver(f, sent'[f][n].denom)
                      ELSE prefixed(channelOf(Peer[f]), sent'[f][n].denom) \in Denom
    BY DEF SentCanArrive
  <2>1. CASE f = e /\ n = Len(sent'[e])
    BY <1>3, <2>1
  <2>2. CASE ~ (f = e /\ n = Len(sent'[e]))
    <3>1. n \in DOMAIN sent[f]
      BY <1>2, <1>3, <2>2
    <3>2. sent'[f][n] = sent[f][n]
      BY <1>4, <3>1
    <3> QED
      BY <3>1, <3>2 DEF DeliveryInv, SentCanArrive
  <2> QED
    BY <2>1, <2>2
<1> QED
  BY <1>5, <1>6, <1>7 DEF DeliveryInv

LEMMA DeliverDelivery ==
    ASSUME DeliveryInv, NEW e \in Endpoint, NEW n \in Number,
           NEW answer \in Answer, Deliver(e, n, answer), UNCHANGED outside
    PROVE  /\ DeliveryInv'
           /\ \A f \in Endpoint : \A k :
                Delivered(f, k)' <=> Delivered(f, k) \/ (f = e /\ k = n)
<1> DEFINE entry == [number |-> n, message |-> sent[Peer[e]][n]]
           Entry == [number : Number, message : Transfer]
<1>1. /\ sent \in [Endpoint -> Seq(Transfer)]
      /\ received \in [Endpoint -> Seq(Entry)]
      /\ answers \in [Endpoint -> [Number -> Answer \cup {None}]]
  BY DEF DeliveryInv, DeliveryTypeOK
<1>2. /\ received' = [received EXCEPT ![e] = Append(@, entry)]
      /\ answers' = [answers EXCEPT ![e][n] = answer]
      /\ UNCHANGED <<sent, acked>>
      /\ n \in DOMAIN sent[Peer[e]]
  BY DEF Deliver
<1>3. entry \in Entry /\ entry.number = n
  <2>1. sent[Peer[e]][n] \in Transfer
    BY <1>1, <1>2, Ends
  <2> QED
    BY <2>1
<1> HIDE DEF entry, Entry
<1>4. /\ received' \in [Endpoint -> Seq(Entry)]
      /\ received'[e] = Append(received[e], entry)
      /\ \A f \in Endpoint : f # e => received'[f] = received[f]
  BY <1>1, <1>2, <1>3
<1>5. \A f \in Endpoint : \A k : Delivered(f, k)' <=> Delivered(f, k) \/ (f = e /\ k = n)
  <2> SUFFICES ASSUME NEW f \in Endpoint, NEW k
               PROVE  Delivered(f, k)' <=> Delivered(f, k) \/ (f = e /\ k = n)
    OBVIOUS
  <2>1. CASE f = e
    <3>1. received[e] \in Seq(Entry)
      BY <1>1
    <3>2. Numbered(received'[e], k) <=> Numbered(received[e], k) \/ entry.number = k
      BY <1>3, <1>4, <3>1, Appended
    <3> QED
      BY <1>3, <2>1, <3>2 DEF Delivered, Numbered
  <2>2. CASE f # e
    BY <1>4, <2>2 DEF Delivered
  <2> QED
    BY <2>1, <2>2
<1>6. /\ answers' \in [Endpoint -> [Number -> Answer \cup {None}]]
      /\ \A f \in Endpoint, k \in Number :
           answers'[f][k] = IF f = e /\ k = n THEN answer ELSE answers[f][k]
  BY <1>1, <1>2
<1>7. DeliveryTypeOK'
  BY <1>2, <1>4, <1>6 DEF DeliveryInv, DeliveryTypeOK, Entry
<1>8. DeliveredWereSent' /\ AnsweredWereDelivered'
  BY <1>2, <1>5, <1>6 DEF DeliveryInv, DeliveredWereSent, AnsweredWereDelivered
<1>9. AckedWereAnswered'
  <2>1. \A f, k : Acked(f, k)' <=> Acked(f, k)
    BY <1>2 DEF Acked
  <2>2. answer # None
    BY AnswerAssumption
  <2> QED
    BY <1>6, <2>1, <2>2, Ends DEF DeliveryInv, AckedWereAnswered
<1>10. SentCanArrive'
  BY <1>2 DEF DeliveryInv, SentCanArrive
<1> QED
  BY <1>5, <1>7, <1>8, <1>9, <1>10 DEF DeliveryInv

LEMMA AcknowledgeDelivery ==
    ASSUME DeliveryInv, NEW e \in Endpoint, NEW n \in Number, Acknowledge(e, n),
           UNCHANGED outside
    PROVE  /\ DeliveryInv'
           /\ \A f \in Endpoint : \A k : Acked(f, k)' <=> Acked(f, k) \/ (f = e /\ k = n)
<1> DEFINE entry == [number |-> n, message |-> sent[e][n],
                     answer |-> answers[Peer[e]][n]]
           Entry == [number : Number, message : Transfer, answer : Answer]
<1>1. /\ sent \in [Endpoint -> Seq(Transfer)]
      /\ acked \in [Endpoint -> Seq(Entry)]
      /\ answers \in [Endpoint -> [Number -> Answer \cup {None}]]
  BY DEF DeliveryInv, DeliveryTypeOK
<1>2. /\ acked' = [acked EXCEPT ![e] = Append(@, entry)]
      /\ UNCHANGED <<sent, received, answers>>
      /\ n \in DOMAIN sent[e] /\ answers[Peer[e]][n] # None
  BY DEF Acknowledge
<1>3. entry \in Entry /\ entry.number = n
  <2>1. sent[e][n] \in Transfer
    BY <1>1, <1>2
  <2>2. answers[Peer[e]][n] \in Answer
    BY <1>1, <1>2, Ends
  <2> QED
    BY <2>1, <2>2
<1> HIDE DEF entry, Entry
<1>4. /\ acked' \in [Endpoint -> Seq(Entry)]
      /\ acked'[e] = Append(acked[e], entry)
      /\ \A f \in Endpoint : f # e => acked'[f] = acked[f]
  BY <1>1, <1>2, <1>3
<1>5. \A f \in Endpoint : \A k : Acked(f, k)' <=> Acked(f, k) \/ (f = e /\ k = n)
  <2> SUFFICES ASSUME NEW f \in Endpoint, NEW k
               PROVE  Acked(f, k)' <=> Acked(f, k) \/ (f = e /\ k = n)
    OBVIOUS
  <2>1. CASE f = e
    <3>1. acked[e] \in Seq(Entry)
      BY <1>1
    <3>2. Numbered(acked'[e], k) <=> Numbered(acked[e], k) \/ entry.number = k
      BY <1>3, <1>4, <3>1, Appended
    <3> QED
      BY <1>3, <2>1, <3>2 DEF Acked, Numbered
  <2>2. CASE f # e
    BY <1>4, <2>2 DEF Acked
  <2> QED
    BY <2>1, <2>2
<1>6. DeliveryTypeOK'
  BY <1>2, <1>4 DEF DeliveryInv, DeliveryTypeOK, Entry
<1>7. \A f, k : Delivered(f, k)' <=> Delivered(f, k)
  BY <1>2 DEF Delivered
<1>8. DeliveredWereSent' /\ AnsweredWereDelivered' /\ SentCanArrive'
  BY <1>2, <1>7 DEF DeliveryInv, DeliveredWereSent, AnsweredWereDelivered, SentCanArrive
<1>9. AckedWereAnswered'
  BY <1>2, <1>5 DEF DeliveryInv, AckedWereAnswered
<1> QED
  BY <1>5, <1>6, <1>8, <1>9 DEF DeliveryInv

\* Steps that send, receive and hear nothing.
LEMMA DeliveryUnchanged ==
    ASSUME UNCHANGED deliveryVars, outside' = 0 => outside = 0
    PROVE  /\ DeliveryInv => DeliveryInv'
           /\ \A f, x : AmountInFlight(f, x)' = AmountInFlight(f, x)
<1>1. UNCHANGED <<sent, received, answers, acked>>
  BY DEF deliveryVars
<1>2. \A f, k : (Delivered(f, k)' <=> Delivered(f, k)) /\ (Acked(f, k)' <=> Acked(f, k))
  BY <1>1 DEF Delivered, Acked
<1>3. ASSUME DeliveryInv PROVE DeliveryInv'
  <2>1. DeliveryTypeOK' /\ SentCanArrive'
    BY <1>1, <1>3 DEF DeliveryInv, DeliveryTypeOK, SentCanArrive
  <2>2. DeliveredWereSent' /\ AnsweredWereDelivered' /\ AckedWereAnswered'
    BY <1>1, <1>2, <1>3
    DEF DeliveryInv, DeliveredWereSent, AnsweredWereDelivered, AckedWereAnswered
  <2> QED
    BY <2>1, <2>2 DEF DeliveryInv
<1>4. \A f, x : AmountInFlight(f, x)' = AmountInFlight(f, x)
  BY <1>1 DEF AmountInFlight, AmountOf, InFlight, Delivered, Acked
<1> QED
  BY <1>3, <1>4

-----------------------------------------------------------------------------
(* Amounts in flight                                                       *)

LEMMA AmountOfType ==
    ASSUME DeliveryInv
    PROVE  \A e \in Endpoint : \A n, x : AmountOf(e, n, x) \in Nat
<1> SUFFICES ASSUME NEW e \in Endpoint, NEW n, NEW x PROVE AmountOf(e, n, x) \in Nat
  OBVIOUS
<1>1. sent[e] \in Seq(Transfer)
  BY DEF DeliveryInv, DeliveryTypeOK
<1>2. n \in DOMAIN sent[e] => sent[e][n].amount \in Nat
  <2>1. n \in DOMAIN sent[e] => sent[e][n] \in Transfer
    BY <1>1
  <2> QED
    BY <2>1 DEF Transfer
<1> QED
  BY <1>2 DEF AmountOf

LEMMA FlightSum ==
    ASSUME DeliveryInv, NEW e \in Endpoint, NEW x
    PROVE  /\ AmountInFlight(e, x) \in Nat
           /\ \A n \in Number : AmountOf(e, n, x) <= AmountInFlight(e, x)
<1> DEFINE amounts == [n \in Number |-> AmountOf(e, n, x)]
<1>1. amounts \in [Number -> Nat] /\ \A n \in Number : amounts[n] = AmountOf(e, n, x)
  BY AmountOfType
<1>2. IsFiniteSet(Number)
  BY TransferAssumption, FS_Interval
<1>3. AmountInFlight(e, x) = SumFunction(amounts)
  BY DEF AmountInFlight
<1> HIDE DEF amounts
<1> QED
  BY <1>1, <1>2, <1>3, FunctionSum

LEMMA FlightChanged ==
    ASSUME DeliveryInv, NEW e \in Endpoint, NEW x, NEW m \in Number,
           AmountOf(e, m, x)' \in Nat,
           \A n \in Number : n # m => AmountOf(e, n, x)' = AmountOf(e, n, x)
    PROVE  AmountInFlight(e, x)' =
             AmountInFlight(e, x) - AmountOf(e, m, x) + AmountOf(e, m, x)'
<1> DEFINE before == [n \in Number |-> AmountOf(e, n, x)]
           after == [n \in Number |-> AmountOf(e, n, x)']
<1>1. before \in [Number -> Int] /\ \A n \in Number : before[n] = AmountOf(e, n, x)
  BY AmountOfType
<1>2. after \in [Number -> Int] /\ \A n \in Number : after[n] = AmountOf(e, n, x)'
  <2>1. \A n \in Number : AmountOf(e, n, x)' \in Int
    BY AmountOfType
  <2> QED
    BY <2>1
<1>3. IsFiniteSet(Number)
  BY TransferAssumption, FS_Interval
<1>4. /\ AmountInFlight(e, x) = SumFunction(before)
      /\ AmountInFlight(e, x)' = SumFunction(after)
  BY DEF AmountInFlight
<1> HIDE DEF before, after
<1>5. \A n \in Number : n # m => after[n] = before[n]
  BY <1>1, <1>2
<1>6. SumFunction(after) = SumFunction(before) - before[m] + after[m]
  BY <1>1, <1>2, <1>3, <1>5, FunctionSumChanged
<1> QED
  BY <1>1, <1>2, <1>4, <1>6

LEMMA FlightSame ==
    ASSUME NEW e \in Endpoint, NEW x,
           \A n \in Number : AmountOf(e, n, x)' = AmountOf(e, n, x)
    PROVE  AmountInFlight(e, x)' = AmountInFlight(e, x)
<1>1. [n \in Number |-> AmountOf(e, n, x)'] = [n \in Number |-> AmountOf(e, n, x)]
  OBVIOUS
<1> QED
  BY <1>1 DEF AmountInFlight

LEMMA SendAmounts ==
    ASSUME DeliveryInv, NEW e \in Endpoint, NEW message \in Transfer,
           Len(sent[e]) < MaxSends, Send(e, message)
    PROVE  \A f \in Endpoint : \A x :
             AmountInFlight(f, x)' = AmountInFlight(f, x)
               + (IF f = e /\ x = message.denom THEN message.amount ELSE 0)
<1> SUFFICES ASSUME NEW f \in Endpoint, NEW x
             PROVE  AmountInFlight(f, x)' = AmountInFlight(f, x)
                      + (IF f = e /\ x = message.denom THEN message.amount ELSE 0)
  OBVIOUS
<1>0. PICK m : m = Len(sent[e]) + 1
  OBVIOUS
<1>1. /\ sent \in [Endpoint -> Seq(Transfer)]
      /\ sent' = [sent EXCEPT ![e] = Append(@, message)]
      /\ UNCHANGED <<received, answers, acked>>
  BY DEF DeliveryInv, DeliveryTypeOK, Send
<1>2. /\ sent'[e] = Append(sent[e], message)
      /\ \A g \in Endpoint : g # e => sent'[g] = sent[g]
  BY <1>1
<1>3. /\ m \in Number /\ m \notin DOMAIN sent[e] /\ m \in DOMAIN sent'[e]
      /\ sent'[e][m] = message
      /\ \A n \in DOMAIN sent[e] : n \in DOMAIN sent'[e] /\ sent'[e][n] = sent[e][n]
      /\ \A n \in DOMAIN sent'[e] : n = m \/ n \in DOMAIN sent[e]
  <2>1. sent[e] \in Seq(Transfer) /\ Len(sent[e]) \in Nat /\ MaxSends \in Nat
    BY <1>1, TransferAssumption
  <2> QED
    BY <1>0, <1>2, <2>1, TransferAssumption
<1>4. /\ \A g, n : Delivered(g, n)' <=> Delivered(g, n)
      /\ \A g, n : Acked(g, n)' <=> Acked(g, n)
      /\ \A g, n : InFlight(g, n)' <=> InFlight(g, n)
  BY <1>1 DEF Delivered, Acked, InFlight
<1>5. AmountInFlight(f, x) \in Nat
  BY FlightSum
<1>6. CASE f # e
  <2>1. sent'[f] = sent[f]
    BY <1>2, <1>6
  <2>2. \A n \in Number : AmountOf(f, n, x)' = AmountOf(f, n, x)
    BY <1>4, <2>1 DEF AmountOf
  <2> QED
    BY <1>5, <1>6, <2>2, FlightSame
<1>7. CASE f = e
  <2>1. \A n \in Number : n # m => AmountOf(e, n, x)' = AmountOf(e, n, x)
    BY <1>3, <1>4 DEF AmountOf
  <2>2. AmountOf(e, m, x) = 0
    BY <1>3 DEF AmountOf
  <2>3. InFlight(e, m)
    BY <1>3, Ends DEF DeliveryInv, DeliveredWereSent, InFlight
  <2>4. AmountOf(e, m, x)' = IF x = message.denom THEN message.amount ELSE 0
    <3>1. m \in DOMAIN sent'[e] /\ sent'[e][m] = message /\ InFlight(e, m)'
      BY <1>3, <1>4, <2>3
    <3> QED
      BY <3>1 DEF AmountOf
  <2>5. message.amount \in Nat
    BY DEF Transfer
  <2>6. AmountInFlight(e, x)' =
          AmountInFlight(e, x) - AmountOf(e, m, x) + AmountOf(e, m, x)'
    <3>1. AmountOf(e, m, x)' \in Nat
      BY <2>4, <2>5
    <3> QED
      BY <1>3, <2>1, <3>1, FlightChanged
  <2> QED
    BY <1>5, <1>7, <2>2, <2>4, <2>5, <2>6
<1> QED
  BY <1>6, <1>7

LEMMA DeliverAmounts ==
    ASSUME DeliveryInv, NEW e \in Endpoint, NEW n \in Number,
           NEW answer \in Answer, Deliver(e, n, answer), UNCHANGED outside
    PROVE  /\ \A f \in Endpoint : \A x :
                AmountInFlight(f, x)' = AmountInFlight(f, x)
                  - (IF f = Peer[e] /\ x = sent[f][n].denom /\ answer = Success
                     THEN sent[f][n].amount ELSE 0)
           /\ sent[Peer[e]][n].amount
                <= AmountInFlight(Peer[e], sent[Peer[e]][n].denom)
<1> DEFINE data == sent[Peer[e]][n]
<1>1. /\ sent \in [Endpoint -> Seq(Transfer)]
      /\ received \in [Endpoint -> Seq([number : Number, message : Transfer])]
      /\ answers \in [Endpoint -> [Number -> Answer \cup {None}]]
  BY DEF DeliveryInv, DeliveryTypeOK
<1>2. /\ n \in DOMAIN sent[Peer[e]] /\ ~ Delivered(e, n)
      /\ received' = [received EXCEPT ![e] = Append(@, [number |-> n, message |-> data])]
      /\ answers' = [answers EXCEPT ![e][n] = answer]
      /\ UNCHANGED <<sent, acked>>
  BY DEF Deliver
<1>3. data \in Transfer /\ data.amount \in Nat
  <2>1. data \in Transfer
    BY <1>1, <1>2, Ends
  <2> QED
    BY <2>1 DEF Transfer
<1>4. \A f \in Endpoint : \A k : Delivered(f, k)' <=> Delivered(f, k) \/ (f = e /\ k = n)
  BY DeliverDelivery
<1>5. \A f \in Endpoint, k \in Number :
        answers'[f][k] = IF f = e /\ k = n THEN answer ELSE answers[f][k]
  BY <1>1, <1>2
<1>6. \A f, k : Acked(f, k)' <=> Acked(f, k)
  BY <1>2 DEF Acked
<1>7. ~ Acked(Peer[e], n)
  <2>1. answers[e][n] = None
    BY <1>2 DEF DeliveryInv, AnsweredWereDelivered
  <2> QED
    BY <2>1, Ends DEF DeliveryInv, AckedWereAnswered
<1>8. \A f \in Endpoint, k \in Number : \A x :
        ~ (f = Peer[e] /\ k = n) => AmountOf(f, k, x)' = AmountOf(f, k, x)
  <2> SUFFICES ASSUME NEW f \in Endpoint, NEW k \in Number, NEW x,
                      ~ (f = Peer[e] /\ k = n)
               PROVE  AmountOf(f, k, x)' = AmountOf(f, k, x)
    OBVIOUS
  <2>1. Peer[f] \in Endpoint /\ ~ (Peer[f] = e /\ k = n)
    BY Ends
  <2>2. InFlight(f, k)' <=> InFlight(f, k)
    BY <1>4, <1>5, <1>6, <2>1 DEF InFlight
  <2> QED
    BY <1>2, <2>2 DEF AmountOf
<1>9. InFlight(Peer[e], n) /\ (InFlight(Peer[e], n)' <=> answer = Failure)
  BY <1>2, <1>4, <1>5, <1>6, <1>7, Ends DEF InFlight
<1>10. \A x :
         /\ AmountOf(Peer[e], n, x) = (IF data.denom = x THEN data.amount ELSE 0)
         /\ AmountOf(Peer[e], n, x)' =
              (IF data.denom = x /\ answer = Failure THEN data.amount ELSE 0)
  BY <1>2, <1>9 DEF AmountOf
<1>11. answer \in {Success, Failure} /\ Success # Failure
  BY TransferAssumption DEF Success, Failure
<1> HIDE DEF data
<1>12. \A f \in Endpoint : \A x :
         AmountInFlight(f, x)' = AmountInFlight(f, x)
           - (IF f = Peer[e] /\ x = data.denom /\ answer = Success
              THEN data.amount ELSE 0)
  <2> SUFFICES ASSUME NEW f \in Endpoint, NEW x
               PROVE  AmountInFlight(f, x)' = AmountInFlight(f, x)
                        - (IF f = Peer[e] /\ x = data.denom /\ answer = Success
                           THEN data.amount ELSE 0)
    OBVIOUS
  <2>1. AmountInFlight(f, x) \in Nat
    BY FlightSum
  <2>2. CASE f # Peer[e]
    <3>1. AmountInFlight(f, x)' = AmountInFlight(f, x)
      BY <1>8, <2>2, FlightSame
    <3> QED
      BY <2>1, <2>2, <3>1
  <2>3. CASE f = Peer[e]
    <3>1. AmountOf(f, n, x)' \in Nat
      BY <1>3, <1>10, <2>3
    <3>2. AmountInFlight(f, x)' =
            AmountInFlight(f, x) - AmountOf(f, n, x) + AmountOf(f, n, x)'
      BY <1>8, <3>1, FlightChanged
    <3> QED
      BY <1>3, <1>10, <1>11, <2>1, <2>3, <3>2
  <2> QED
    BY <2>2, <2>3
<1>13. data.amount <= AmountInFlight(Peer[e], data.denom)
  BY <1>10, Ends, FlightSum
<1> QED
  BY <1>12, <1>13 DEF data

LEMMA AcknowledgeAmounts ==
    ASSUME DeliveryInv, NEW e \in Endpoint, NEW n \in Number, Acknowledge(e, n),
           UNCHANGED outside
    PROVE  /\ \A f \in Endpoint : \A x :
                AmountInFlight(f, x)' = AmountInFlight(f, x)
                  - (IF f = e /\ x = sent[e][n].denom /\ answers[Peer[e]][n] = Failure
                     THEN sent[e][n].amount ELSE 0)
           /\ answers[Peer[e]][n] = Failure =>
                sent[e][n].amount <= AmountInFlight(e, sent[e][n].denom)
<1> DEFINE data == sent[e][n]
           failed == answers[Peer[e]][n] = Failure
<1>1. /\ n \in DOMAIN sent[e] /\ ~ Acked(e, n) /\ answers[Peer[e]][n] # None
      /\ UNCHANGED <<sent, received, answers>>
  BY DEF Acknowledge
<1>2. data \in Transfer /\ data.amount \in Nat
  <2>1. data \in Transfer
    BY <1>1 DEF DeliveryInv, DeliveryTypeOK
  <2> QED
    BY <2>1 DEF Transfer
<1>3. \A f \in Endpoint : \A k : Acked(f, k)' <=> Acked(f, k) \/ (f = e /\ k = n)
  BY AcknowledgeDelivery
<1>4. \A f, k : Delivered(f, k)' <=> Delivered(f, k)
  BY <1>1 DEF Delivered
<1>5. Delivered(Peer[e], n)
  BY <1>1, Ends DEF DeliveryInv, AnsweredWereDelivered
<1>6. \A f \in Endpoint, k \in Number : \A x :
        ~ (f = e /\ k = n) => AmountOf(f, k, x)' = AmountOf(f, k, x)
  BY <1>1, <1>3, <1>4 DEF AmountOf, InFlight
<1>7. (InFlight(e, n) <=> failed) /\ ~ InFlight(e, n)'
  BY <1>1, <1>3, <1>4, <1>5 DEF InFlight
<1>8. \A x :
        /\ AmountOf(e, n, x) = (IF data.denom = x /\ failed THEN data.amount ELSE 0)
        /\ AmountOf(e, n, x)' = 0
  BY <1>1, <1>7 DEF AmountOf
<1> HIDE DEF data, failed
<1>9. \A f \in Endpoint : \A x :
        AmountInFlight(f, x)' = AmountInFlight(f, x)
          - (IF f = e /\ x = data.denom /\ failed THEN data.amount ELSE 0)
  <2> SUFFICES ASSUME NEW f \in Endpoint, NEW x
               PROVE  AmountInFlight(f, x)' = AmountInFlight(f, x)
                        - (IF f = e /\ x = data.denom /\ failed
                           THEN data.amount ELSE 0)
    OBVIOUS
  <2>1. AmountInFlight(f, x) \in Nat
    BY FlightSum
  <2>2. CASE f # e
    <3>1. AmountInFlight(f, x)' = AmountInFlight(f, x)
      BY <1>6, <2>2, FlightSame
    <3> QED
      BY <2>1, <2>2, <3>1
  <2>3. CASE f = e
    <3>1. AmountOf(f, n, x)' \in Nat
      BY <1>8, <2>3
    <3>2. AmountInFlight(f, x)' =
            AmountInFlight(f, x) - AmountOf(f, n, x) + AmountOf(f, n, x)'
      BY <1>6, <3>1, FlightChanged
    <3> QED
      BY <1>2, <1>8, <2>1, <2>3, <3>2
  <2> QED
    BY <2>2, <2>3
<1>10. failed => data.amount <= AmountInFlight(e, data.denom)
  BY <1>8, FlightSum
<1> QED
  BY <1>9, <1>10 DEF data, failed

-----------------------------------------------------------------------------
(* The escrow accounts                                                     *)

Outbound(denom) == {channel \in ChannelId : ~ startsWith(denom, channel)}

\* What is abroad where P[e][denom] is in flight from e and Y[c][denom] is the
\* supply of c; and that the escrow accounts E hold it, next to the gifts G.
AbroadIn(P, Y, e, denom) ==
    LET voucher == prefixed(channelOf(Peer[e]), denom) IN
    P[e][denom]
      + (IF voucher \in Denom
         THEN P[Peer[e]][voucher] + Y[chainOf(Peer[e])][voucher]
         ELSE 0)

AllAbroad(P, Y, c, denom) ==
    [channel \in Outbound(denom) |-> AbroadIn(P, Y, <<c, channel>>, denom)]

EscrowHolds(E, G, P, Y) ==
    \A c \in Chain, denom \in Denom :
      E[c][denom] = G[c][denom] + SumFunction(AllAbroad(P, Y, c, denom))

FlightAmounts == [Endpoint -> [Denom -> Nat]]
ChainAmounts == [Chain -> [Denom -> Nat]]

LEMMA OutboundFinite ==
    ASSUME NEW denom
    PROVE  IsFiniteSet(Outbound(denom)) /\ Outbound(denom) \subseteq ChannelId
BY TransferAssumption, FS_Subset DEF Outbound

LEMMA AbroadInType ==
    ASSUME NEW P \in FlightAmounts, NEW Y \in ChainAmounts,
           NEW e \in Endpoint, NEW denom \in Denom
    PROVE  AbroadIn(P, Y, e, denom) \in Nat
<1> DEFINE v == prefixed(channelOf(Peer[e]), denom)
<1>1. P[e][denom] \in Nat
  BY DEF FlightAmounts
<1>2. ASSUME v \in Denom
      PROVE  P[Peer[e]][v] \in Nat /\ Y[chainOf(Peer[e])][v] \in Nat
  BY <1>2, Ends DEF FlightAmounts, ChainAmounts
<1> HIDE DEF v
<1>3. AbroadIn(P, Y, e, denom) =
        P[e][denom] + (IF v \in Denom THEN P[Peer[e]][v] + Y[chainOf(Peer[e])][v] ELSE 0)
  BY DEF AbroadIn, v
<1> QED
  BY <1>1, <1>2, <1>3

LEMMA AllAbroadType ==
    ASSUME NEW P \in FlightAmounts, NEW Y \in ChainAmounts,
           NEW c \in Chain, NEW denom \in Denom
    PROVE  AllAbroad(P, Y, c, denom) \in [Outbound(denom) -> Nat]
<1> SUFFICES ASSUME NEW channel \in Outbound(denom)
             PROVE  AbroadIn(P, Y, <<c, channel>>, denom) \in Nat
  BY DEF AllAbroad
<1>1. <<c, channel>> \in Endpoint
  BY TransferAssumption DEF Outbound
<1> QED
  BY <1>1, AbroadInType

\* A step that touches what is abroad of denom over e only, where the escrow
\* account changes by as much: from E, G, P and Y to D, H, Q and Z.
Shifts(e, denom, E, D, G, H, P, Q, Y, Z) ==
    LET v == prefixed(channelOf(Peer[e]), denom) IN
    /\ \A f \in Endpoint, x \in Denom :
         <<f, x>> # <<e, denom>> /\ <<f, x>> # <<Peer[e], v>> => Q[f][x] = P[f][x]
    /\ \A c \in Chain, x \in Denom : \A channel :
         <<c, x>> # <<chainOf(Peer[e]), v>> /\ startsWith(x, channel)
           => Z[c][x] = Y[c][x]
    /\ \A c \in Chain, x \in Denom : <<c, x>> # <<chainOf(e), denom>>
         => D[c][x] - H[c][x] = E[c][x] - G[c][x]
    /\ D[chainOf(e)][denom] - H[chainOf(e)][denom] =
         E[chainOf(e)][denom] - G[chainOf(e)][denom]
           + AbroadIn(Q, Z, e, denom) - AbroadIn(P, Y, e, denom)

LEMMA EscrowKept ==
    ASSUME NEW P \in FlightAmounts, NEW Q \in FlightAmounts,
           NEW Y \in ChainAmounts, NEW Z \in ChainAmounts,
           NEW E \in ChainAmounts, NEW D \in ChainAmounts,
           NEW G \in ChainAmounts, NEW H \in ChainAmounts,
           NEW e \in Endpoint, NEW denom \in Denom, ~ startsWith(denom, channelOf(e)),
           EscrowHolds(E, G, P, Y), Shifts(e, denom, E, D, G, H, P, Q, Y, Z)
    PROVE  EscrowHolds(D, H, Q, Z)
<1> SUFFICES ASSUME NEW c \in Chain, NEW x \in Denom
             PROVE  D[c][x] = H[c][x] + SumFunction(AllAbroad(Q, Z, c, x))
  BY DEF EscrowHolds
<1>0. PICK v : v = prefixed(channelOf(Peer[e]), denom)
  OBVIOUS
<1>1. /\ D[c][x] \in Nat /\ H[c][x] \in Nat /\ E[c][x] \in Nat /\ G[c][x] \in Nat
      /\ E[c][x] = G[c][x] + SumFunction(AllAbroad(P, Y, c, x))
  BY DEF EscrowHolds, ChainAmounts
<1>2. /\ IsFiniteSet(Outbound(x))
      /\ AllAbroad(P, Y, c, x) \in [Outbound(x) -> Nat]
      /\ AllAbroad(Q, Z, c, x) \in [Outbound(x) -> Nat]
      /\ \A channel \in Outbound(x) :
           /\ AllAbroad(P, Y, c, x)[channel] = AbroadIn(P, Y, <<c, channel>>, x)
           /\ AllAbroad(Q, Z, c, x)[channel] = AbroadIn(Q, Z, <<c, channel>>, x)
  <2>1. IsFiniteSet(Outbound(x))
    BY OutboundFinite
  <2>2. /\ AllAbroad(P, Y, c, x) \in [Outbound(x) -> Nat]
        /\ AllAbroad(Q, Z, c, x) \in [Outbound(x) -> Nat]
    BY AllAbroadType
  <2> QED
    BY <2>1, <2>2 DEF AllAbroad
<1>3. ASSUME NEW channel \in Outbound(x), <<<<c, channel>>, x>> # <<e, denom>>
      PROVE  AbroadIn(Q, Z, <<c, channel>>, x) = AbroadIn(P, Y, <<c, channel>>, x)
  <2> DEFINE f == <<c, channel>>
             w == prefixed(channelOf(Peer[f]), x)
  <2>1. /\ f \in Endpoint /\ channel \in ChannelId /\ channelOf(f) = channel
        /\ ~ startsWith(x, channel)
    BY TransferAssumption DEF Outbound, channelOf
  <2> HIDE DEF f
  <2>2. /\ Peer[f] \in Endpoint /\ Peer[Peer[f]] = f
        /\ chainOf(Peer[f]) \in Chain /\ channelOf(Peer[f]) \in ChannelId
        /\ Peer[f] = <<chainOf(Peer[f]), channelOf(Peer[f])>>
        /\ Peer[e] \in Endpoint /\ Peer[Peer[e]] = e
        /\ chainOf(Peer[e]) \in Chain /\ channelOf(Peer[e]) \in ChannelId
        /\ Peer[e] = <<chainOf(Peer[e]), channelOf(Peer[e])>>
    BY <2>1, Ends
  <2>3. /\ \A y : startsWith(w, y) <=> y = channelOf(Peer[f])
        /\ beyond(w) = x
        /\ \A y : startsWith(v, y) <=> y = channelOf(Peer[e])
        /\ beyond(v) = denom
    BY <1>0, <2>2, PrefixedDenom
  <2> HIDE DEF w
  <2>4. <<f, x>> # <<e, denom>> /\ <<f, x>> # <<Peer[e], v>>
    <3>1. <<f, x>> # <<e, denom>>
      BY <1>3 DEF f
    <3>2. ~ (f = Peer[e] /\ x = v)
      BY <2>1, <2>3
    <3> QED
      BY <3>1, <3>2
  <2>5. Q[f][x] = P[f][x]
    BY <1>0, <2>1, <2>4 DEF Shifts
  <2>6. ASSUME w \in Denom
        PROVE  /\ Q[Peer[f]][w] = P[Peer[f]][w]
               /\ Z[chainOf(Peer[f])][w] = Y[chainOf(Peer[f])][w]
    <3>1. ~ (Peer[f] = e /\ w = denom)
      BY <2>3
    <3>2. ~ (Peer[f] = Peer[e] /\ w = v)
      BY <2>2, <2>3, <2>4
    <3>3. ~ (chainOf(Peer[f]) = chainOf(Peer[e]) /\ w = v)
      <4>1. SUFFICES ASSUME chainOf(Peer[f]) = chainOf(Peer[e]), w = v PROVE FALSE
        OBVIOUS
      <4>2. channelOf(Peer[f]) = channelOf(Peer[e])
        BY <2>3, <4>1
      <4> QED
        BY <2>2, <3>2, <4>1, <4>2
    <3>4. Q[Peer[f]][w] = P[Peer[f]][w]
      BY <1>0, <2>2, <2>6, <3>1, <3>2 DEF Shifts
    <3>5. startsWith(w, channelOf(Peer[f]))
      BY <2>3
    <3>6. Z[chainOf(Peer[f])][w] = Y[chainOf(Peer[f])][w]
      BY <1>0, <2>2, <2>6, <3>3, <3>5 DEF Shifts
    <3> QED
      BY <3>4, <3>6
  <2> QED
    BY <2>5, <2>6 DEF AbroadIn, f, w
<1>4. CASE c = chainOf(e) /\ x = denom
  <2>1. channelOf(e) \in Outbound(x) /\ <<c, channelOf(e)>> = e
    BY <1>4, Ends DEF Outbound
  <2>2. \A channel \in Outbound(x) : channel # channelOf(e) =>
          AllAbroad(Q, Z, c, x)[channel] = AllAbroad(P, Y, c, x)[channel]
    <3> SUFFICES ASSUME NEW channel \in Outbound(x), channel # channelOf(e)
                 PROVE  AllAbroad(Q, Z, c, x)[channel] = AllAbroad(P, Y, c, x)[channel]
      OBVIOUS
    <3>1. <<<<c, channel>>, x>> # <<e, denom>>
      BY <2>1
    <3> QED
      BY <1>2, <1>3, <3>1
  <2> DEFINE g == AllAbroad(P, Y, c, x)
             h == AllAbroad(Q, Z, c, x)
  <2>3. /\ g \in [Outbound(x) -> Nat] /\ h \in [Outbound(x) -> Nat]
        /\ g[channelOf(e)] = AbroadIn(P, Y, e, denom)
        /\ h[channelOf(e)] = AbroadIn(Q, Z, e, denom)
    BY <1>2, <1>4, <2>1
  <2> HIDE DEF g, h
  <2>4. g \in [Outbound(x) -> Int] /\ h \in [Outbound(x) -> Int]
    BY <2>3
  <2>5. SumFunction(h) = SumFunction(g) - g[channelOf(e)] + h[channelOf(e)]
    BY <1>2, <2>1, <2>2, <2>4, FunctionSumChanged DEF g, h
  <2>6. SumFunction(g) \in Nat /\ g[channelOf(e)] \in Nat /\ h[channelOf(e)] \in Nat
    BY <1>2, <2>1, <2>3, FunctionSum
  <2>7. D[c][x] - H[c][x] = E[c][x] - G[c][x] + h[channelOf(e)] - g[channelOf(e)]
    <3>1. D[c][x] - H[c][x] = E[c][x] - G[c][x] + AbroadIn(Q, Z, e, denom)
                                - AbroadIn(P, Y, e, denom)
      BY <1>4 DEF Shifts
    <3> QED
      BY <2>3, <3>1
  <2>8. E[c][x] = G[c][x] + SumFunction(g)
    BY <1>1 DEF g
  <2>9. D[c][x] = H[c][x] + SumFunction(h)
    BY <1>1, <2>5, <2>6, <2>7, <2>8
  <2> QED
    BY <2>9 DEF h
<1>5. CASE ~ (c = chainOf(e) /\ x = denom)
  <2>1. ASSUME NEW channel \in Outbound(x)
        PROVE  AbroadIn(Q, Z, <<c, channel>>, x) = AbroadIn(P, Y, <<c, channel>>, x)
    <3>1. <<<<c, channel>>, x>> # <<e, denom>>
      BY <1>5 DEF chainOf
    <3> QED
      BY <1>3, <3>1
  <2>2. AllAbroad(Q, Z, c, x) = AllAbroad(P, Y, c, x)
    BY <2>1 DEF AllAbroad
  <2>3. D[c][x] - H[c][x] = E[c][x] - G[c][x]
    BY <1>5 DEF Shifts
  <2>4. SumFunction(AllAbroad(P, Y, c, x)) \in Nat
    BY <1>2, FunctionSum
  <2> QED
    BY <1>1, <2>2, <2>3, <2>4
<1> QED
  BY <1>4, <1>5

\* No amount of a denomination that came over a channel differs.
SameVouchers(Y, Z) ==
    \A c \in Chain, x \in Denom : \A channel :
      startsWith(x, channel) => Z[c][x] = Y[c][x]

\* The escrow accounts hold as much next to the gifts.
SameEscrow(E, G, D, H) ==
    \A c \in Chain, x \in Denom : D[c][x] - H[c][x] = E[c][x] - G[c][x]

LEMMA EscrowUntouched ==
    ASSUME NEW P \in FlightAmounts, NEW Y \in ChainAmounts, NEW Z \in ChainAmounts,
           NEW E \in ChainAmounts, NEW D \in ChainAmounts,
           NEW G \in ChainAmounts, NEW H \in ChainAmounts,
           EscrowHolds(E, G, P, Y), SameVouchers(Y, Z), SameEscrow(E, G, D, H)
    PROVE  EscrowHolds(D, H, P, Z)
<1> SUFFICES ASSUME NEW c \in Chain, NEW x \in Denom
             PROVE  D[c][x] = H[c][x] + SumFunction(AllAbroad(P, Z, c, x))
  BY DEF EscrowHolds
<1>1. /\ D[c][x] \in Nat /\ H[c][x] \in Nat /\ E[c][x] \in Nat /\ G[c][x] \in Nat
      /\ E[c][x] = G[c][x] + SumFunction(AllAbroad(P, Y, c, x))
  BY DEF EscrowHolds, ChainAmounts
<1>2. ASSUME NEW channel \in Outbound(x)
      PROVE  AbroadIn(P, Z, <<c, channel>>, x) = AbroadIn(P, Y, <<c, channel>>, x)
  <2> DEFINE f == <<c, channel>>
             w == prefixed(channelOf(Peer[f]), x)
  <2>1. f \in Endpoint
    BY TransferAssumption DEF Outbound
  <2> HIDE DEF f
  <2>2. chainOf(Peer[f]) \in Chain /\ startsWith(w, channelOf(Peer[f]))
    BY <2>1, Ends, PrefixedDenom
  <2>3. w \in Denom => Z[chainOf(Peer[f])][w] = Y[chainOf(Peer[f])][w]
    BY <2>2 DEF SameVouchers
  <2> HIDE DEF w
  <2> QED
    BY <2>3 DEF AbroadIn, f, w
<1>3. AllAbroad(P, Z, c, x) = AllAbroad(P, Y, c, x)
  BY <1>2 DEF AllAbroad
<1>4. SumFunction(AllAbroad(P, Y, c, x)) \in Nat
  <2>1. AllAbroad(P, Y, c, x) \in [Outbound(x) -> Nat]
    BY AllAbroadType
  <2> QED
    BY <2>1, OutboundFinite, FunctionSum
<1> QED
  BY <1>1, <1>3, <1>4 DEF SameEscrow

\* The functions of the state that EscrowHolds relates.
Escrowed == [c \in Chain |-> [denom \in Denom |-> balances[c][denom][Escrow]]]
Supplied == [c \in Chain |-> [denom \in Denom |-> Supply(c, denom)]]
InFlightOf == [e \in Endpoint |-> [denom \in Denom |-> AmountInFlight(e, denom)]]

LEMMA AbroadIs ==
    \A e \in Endpoint, denom \in Denom :
      Abroad(e, denom) = AbroadIn(InFlightOf, Supplied, e, denom)
<1> SUFFICES ASSUME NEW e \in Endpoint, NEW denom \in Denom
             PROVE  Abroad(e, denom) = AbroadIn(InFlightOf, Supplied, e, denom)
  OBVIOUS
<1>1. Peer[e] \in Endpoint /\ chainOf(Peer[e]) \in Chain
  BY Ends
<1> QED
  BY <1>1 DEF Abroad, AbroadIn, InFlightOf, Supplied

LEMMA EscrowAccountsAre ==
    EscrowIsAbroad <=> EscrowHolds(Escrowed, gifts, InFlightOf, Supplied)
<1>1. ASSUME NEW c \in Chain, NEW denom \in Denom
      PROVE  [channel \in {ch \in ChannelId : ~ startsWith(denom, ch)} |->
                Abroad(<<c, channel>>, denom)]
               = AllAbroad(InFlightOf, Supplied, c, denom)
  <2>1. ASSUME NEW channel \in Outbound(denom)
        PROVE  Abroad(<<c, channel>>, denom)
                 = AbroadIn(InFlightOf, Supplied, <<c, channel>>, denom)
    BY TransferAssumption, AbroadIs DEF Outbound
  <2> QED
    BY <2>1 DEF AllAbroad, Outbound
<1> QED
  BY <1>1 DEF EscrowIsAbroad, EscrowHolds, Escrowed

LEMMA EscrowAccountsNext ==
    EscrowIsAbroad' <=> EscrowHolds(Escrowed, gifts, InFlightOf, Supplied)'
BY EscrowAccountsAre, PTL

AmountsTyped ==
    /\ Escrowed \in ChainAmounts /\ Supplied \in ChainAmounts
    /\ gifts \in ChainAmounts
    /\ \A c \in Chain, denom \in Denom :
         /\ balances[c][denom] \in [Account -> Nat]
         /\ Supply(c, denom) \in Nat /\ gifts[c][denom] \in Nat
         /\ \A a \in Account : balances[c][denom][a] <= Supply(c, denom)

FlightTyped == InFlightOf \in FlightAmounts

LEMMA AmountTypes == TypeOK => AmountsTyped
<1> SUFFICES ASSUME TypeOK PROVE AmountsTyped
  OBVIOUS
<1>1. \A c \in Chain, denom \in Denom :
        balances[c][denom] \in [Account -> Nat] /\ gifts[c][denom] \in Nat
  BY DEF TypeOK
<1>2. \A c \in Chain, denom \in Denom :
        /\ Supply(c, denom) \in Nat
        /\ \A a \in Account : balances[c][denom][a] <= Supply(c, denom)
  BY <1>1, BalancesSum DEF Supply
<1>3. Escrow \in Account
  BY DEF Account
<1>4. Escrowed \in ChainAmounts /\ Supplied \in ChainAmounts /\ gifts \in ChainAmounts
  BY <1>1, <1>2, <1>3 DEF Escrowed, Supplied, ChainAmounts, TypeOK
<1> QED
  BY <1>1, <1>2, <1>4 DEF AmountsTyped

LEMMA AmountTypesNext == TypeOK' => AmountsTyped'
BY AmountTypes, PTL

LEMMA FlightTypes == DeliveryInv => FlightTyped
BY FlightSum DEF InFlightOf, FlightAmounts, FlightTyped

LEMMA FlightTypesNext == DeliveryInv' => FlightTyped'
BY FlightTypes, PTL

\* Whatever is abroad of a denomination is covered by its supply at home, so
\* vouchers do not overflow either.
LEMMA FlightCovered ==
    ASSUME IInv, NEW e \in Endpoint, NEW denom \in Denom,
           ~ startsWith(denom, channelOf(e)),
           NEW v \in Denom, v = prefixed(channelOf(Peer[e]), denom)
    PROVE  /\ AmountInFlight(e, denom) \in Nat /\ AmountInFlight(Peer[e], v) \in Nat
           /\ Supply(chainOf(Peer[e]), v) \in Nat
           /\ AmountInFlight(e, denom) + AmountInFlight(Peer[e], v)
                + Supply(chainOf(Peer[e]), v) < UINT256
<1> DEFINE c == chainOf(e)
           channel == channelOf(e)
           all == AllAbroad(InFlightOf, Supplied, c, denom)
<1>1. /\ c \in Chain /\ channel \in Outbound(denom) /\ <<c, channel>> = e
      /\ Peer[e] \in Endpoint /\ chainOf(Peer[e]) \in Chain
  BY Ends DEF Outbound
<1>2. InFlightOf \in FlightAmounts /\ Supplied \in ChainAmounts
  BY AmountTypes, FlightTypes DEF IInv, AmountsTyped, FlightTyped
<1>3. all \in [Outbound(denom) -> Nat] /\ all[channel] = AbroadIn(InFlightOf, Supplied, e, denom)
  <2>1. all \in [Outbound(denom) -> Nat]
    BY <1>1, <1>2, AllAbroadType
  <2> QED
    BY <1>1, <2>1 DEF AllAbroad
<1>4. EscrowHolds(Escrowed, gifts, InFlightOf, Supplied)
  BY EscrowAccountsAre DEF IInv, AccountInv
<1>5. Escrowed[c][denom] = gifts[c][denom] + SumFunction(all)
  BY <1>1, <1>4 DEF EscrowHolds
<1>6. /\ gifts[c][denom] \in Nat /\ Escrow \in Account
      /\ Escrowed[c][denom] <= Supply(c, denom) /\ Escrowed[c][denom] \in Nat
      /\ Supply(c, denom) \in Nat /\ Supply(c, denom) < UINT256
  <2>1. Escrow \in Account
    BY DEF Account
  <2>2. Supply(c, denom) < UINT256
    BY <1>1 DEF IInv, AccountInv, SupplyBounded
  <2>3. Escrowed[c][denom] = balances[c][denom][Escrow]
    BY <1>1 DEF Escrowed
  <2> QED
    BY <1>1, <2>1, <2>2, <2>3, AmountTypes DEF IInv, AmountsTyped
<1> HIDE DEF c, channel, all
<1>7. SumFunction(all) \in Nat /\ all[channel] <= SumFunction(all)
  BY <1>1, <1>3, OutboundFinite, FunctionSum
<1>8. all[channel] = AmountInFlight(e, denom) + (AmountInFlight(Peer[e], v)
                       + Supply(chainOf(Peer[e]), v))
  BY <1>1, <1>3 DEF AbroadIn, InFlightOf, Supplied
<1>9. /\ AmountInFlight(e, denom) \in Nat /\ AmountInFlight(Peer[e], v) \in Nat
      /\ Supply(chainOf(Peer[e]), v) \in Nat
  BY <1>1, FlightSum, AmountTypes DEF IInv, AmountsTyped
<1>10. UINT256 \in Nat
  BY BoundAssumption
<1> QED
  BY <1>5, <1>6, <1>7, <1>8, <1>9, <1>10

\* A step of a transfer over e of denom, which is the voucher v on the other
\* side: p more of it are in flight from e, q from the other end, y more
\* vouchers are in accounts there, and b more is escrowed.
TransferMoved(e, denom, v, p, q, y, b) ==
    /\ \A f \in Endpoint, x \in Denom :
         AmountInFlight(f, x)' = AmountInFlight(f, x)
           + (IF f = e /\ x = denom THEN p ELSE 0)
           + (IF f = Peer[e] /\ x = v THEN q ELSE 0)
    /\ \A c \in Chain, x \in Denom :
         Supply(c, x)' = Supply(c, x)
           + (IF c = chainOf(Peer[e]) /\ x = v THEN y ELSE 0)
    /\ \A c \in Chain, x \in Denom :
         balances'[c][x][Escrow] - gifts'[c][x]
           = balances[c][x][Escrow] - gifts[c][x]
               + (IF c = chainOf(e) /\ x = denom THEN b ELSE 0)

\* Such a step is sound when what it escrows is what it sends abroad.
LEMMA TransferStep ==
    ASSUME IInv, TypeOK', DeliveryInv', UNCHANGED wallets,
           NEW e \in Endpoint, NEW denom \in Denom,
           ~ startsWith(denom, channelOf(e)),
           NEW v \in Denom, v = prefixed(channelOf(Peer[e]), denom),
           NEW p \in Int, NEW q \in Int, NEW y \in Int, NEW b \in Int,
           TransferMoved(e, denom, v, p, q, y, b), b = p + q + y,
           Supply(chainOf(Peer[e]), v) + y < UINT256
    PROVE  IInv'
<1>0. /\ \A f \in Endpoint, x \in Denom :
           AmountInFlight(f, x)' = AmountInFlight(f, x)
             + (IF f = e /\ x = denom THEN p ELSE 0)
             + (IF f = Peer[e] /\ x = v THEN q ELSE 0)
      /\ \A c \in Chain, x \in Denom :
           Supply(c, x)' = Supply(c, x)
             + (IF c = chainOf(Peer[e]) /\ x = v THEN y ELSE 0)
      /\ \A c \in Chain, x \in Denom :
           balances'[c][x][Escrow] - gifts'[c][x]
             = balances[c][x][Escrow] - gifts[c][x]
                 + (IF c = chainOf(e) /\ x = denom THEN p + q + y ELSE 0)
  BY DEF TransferMoved
<1>1. /\ Peer[e] \in Endpoint /\ chainOf(Peer[e]) \in Chain /\ Peer[Peer[e]] = e
      /\ channelOf(Peer[e]) \in ChannelId /\ chainOf(e) \in Chain
      /\ Peer[e] = <<chainOf(Peer[e]), channelOf(Peer[e])>>
  BY Ends
<1>2. beyond(v) = denom /\ \A x : startsWith(v, x) <=> x = channelOf(Peer[e])
  BY <1>1, PrefixedDenom
<1>3. /\ InFlightOf \in FlightAmounts /\ InFlightOf' \in FlightAmounts
      /\ Supplied \in ChainAmounts /\ Supplied' \in ChainAmounts
      /\ Escrowed \in ChainAmounts /\ Escrowed' \in ChainAmounts
      /\ gifts \in ChainAmounts /\ gifts' \in ChainAmounts
  BY AmountTypes, AmountTypesNext, FlightTypes, FlightTypesNext
  DEF IInv, AmountsTyped, FlightTyped
<1>4. /\ \A f \in Endpoint, x \in Denom :
           /\ InFlightOf[f][x] = AmountInFlight(f, x)
           /\ InFlightOf'[f][x] = AmountInFlight(f, x)'
           /\ AmountInFlight(f, x) \in Nat
      /\ \A c \in Chain, x \in Denom :
           /\ Supplied[c][x] = Supply(c, x) /\ Supplied'[c][x] = Supply(c, x)'
           /\ Escrowed[c][x] = balances[c][x][Escrow]
           /\ Escrowed'[c][x] = balances'[c][x][Escrow]
           /\ Supply(c, x) \in Nat
  BY FlightSum, AmountTypes DEF InFlightOf, Supplied, Escrowed, IInv, AmountsTyped
<1>5. EscrowIsAbroad'
  <2>1. EscrowHolds(Escrowed, gifts, InFlightOf, Supplied)
    BY EscrowAccountsAre DEF IInv, AccountInv
  <2>2. \A f \in Endpoint, x \in Denom :
          <<f, x>> # <<e, denom>> /\ <<f, x>> # <<Peer[e], v>>
            => InFlightOf'[f][x] = InFlightOf[f][x]
    BY <1>0, <1>4
  <2>3. \A c \in Chain, x \in Denom : \A channel :
          <<c, x>> # <<chainOf(Peer[e]), v>> /\ startsWith(x, channel)
            => Supplied'[c][x] = Supplied[c][x]
    BY <1>0, <1>4
  <2>4. \A c \in Chain, x \in Denom : <<c, x>> # <<chainOf(e), denom>>
          => Escrowed'[c][x] - gifts'[c][x] = Escrowed[c][x] - gifts[c][x]
    <3> SUFFICES ASSUME NEW c \in Chain, NEW x \in Denom,
                        <<c, x>> # <<chainOf(e), denom>>
                 PROVE  Escrowed'[c][x] - gifts'[c][x] = Escrowed[c][x] - gifts[c][x]
      OBVIOUS
    <3>1. /\ Escrowed[c][x] \in Nat /\ gifts[c][x] \in Nat
          /\ Escrowed'[c][x] - gifts'[c][x] = Escrowed[c][x] - gifts[c][x] + 0
      BY <1>0, <1>3, <1>4 DEF ChainAmounts
    <3> QED
      BY <3>1
  <2>5. Escrowed'[chainOf(e)][denom] - gifts'[chainOf(e)][denom] =
          Escrowed[chainOf(e)][denom] - gifts[chainOf(e)][denom]
            + AbroadIn(InFlightOf', Supplied', e, denom)
            - AbroadIn(InFlightOf, Supplied, e, denom)
    <3>1. AbroadIn(InFlightOf, Supplied, e, denom) = AmountInFlight(e, denom)
            + (AmountInFlight(Peer[e], v) + Supply(chainOf(Peer[e]), v))
      BY <1>1, <1>4 DEF AbroadIn
    <3>2. AbroadIn(InFlightOf', Supplied', e, denom) = AmountInFlight(e, denom)'
            + (AmountInFlight(Peer[e], v)' + Supply(chainOf(Peer[e]), v)')
      BY <1>1, <1>4 DEF AbroadIn
    <3>3. denom # v \/ e # Peer[e]
      BY <1>2
    <3>4. AmountInFlight(e, denom)' = AmountInFlight(e, denom) + p
      BY <1>0, <1>4, <3>3
    <3>5. AmountInFlight(Peer[e], v)' = AmountInFlight(Peer[e], v) + q
      BY <1>0, <1>1, <1>4, <3>3
    <3>6. Supply(chainOf(Peer[e]), v)' = Supply(chainOf(Peer[e]), v) + y
      BY <1>0, <1>1
    <3>7. /\ AmountInFlight(e, denom) \in Nat /\ AmountInFlight(Peer[e], v) \in Nat
          /\ Supply(chainOf(Peer[e]), v) \in Nat
          /\ Escrowed[chainOf(e)][denom] \in Nat /\ gifts[chainOf(e)][denom] \in Nat
      BY <1>1, <1>3, <1>4 DEF ChainAmounts
    <3>8. Escrowed'[chainOf(e)][denom] - gifts'[chainOf(e)][denom] =
            Escrowed[chainOf(e)][denom] - gifts[chainOf(e)][denom] + (p + q + y)
      BY <1>0, <1>1, <1>4
    <3> QED
      BY <3>1, <3>2, <3>4, <3>5, <3>6, <3>7, <3>8
  <2>6. EscrowHolds(Escrowed', gifts', InFlightOf', Supplied')
    <3>1. Shifts(e, denom, Escrowed, Escrowed', gifts, gifts',
                 InFlightOf, InFlightOf', Supplied, Supplied')
      BY <2>2, <2>3, <2>4, <2>5 DEF Shifts
    <3> QED
      BY <1>3, <2>1, <3>1, EscrowKept
  <2> QED
    BY <2>6, EscrowAccountsNext
<1>6. VouchersCameOver'
  <2> SUFFICES ASSUME NEW c \in Chain, NEW x \in Denom, NEW channel \in ChannelId,
                      Supply(c, x)' # 0, startsWith(x, channel)
               PROVE  cameOver(<<c, channel>>, x)
    BY DEF VouchersCameOver
  <2>1. CASE Supply(c, x) # 0
    BY <2>1 DEF IInv, AccountInv, VouchersCameOver
  <2>2. CASE Supply(c, x) = 0
    <3>1. c = chainOf(Peer[e]) /\ x = v
      BY <1>0, <2>2
    <3>2. <<c, channel>> = Peer[e]
      BY <1>1, <1>2, <3>1
    <3> QED
      BY <1>1, <1>2, <3>1, <3>2 DEF cameOver
  <2> QED
    BY <2>1, <2>2
<1>7. SupplyBounded'
  <2> SUFFICES ASSUME NEW c \in Chain, NEW x \in Denom
               PROVE  Supply(c, x)' < UINT256
    BY DEF SupplyBounded
  <2>1. CASE c = chainOf(Peer[e]) /\ x = v
    BY <1>0, <2>1
  <2>2. CASE ~ (c = chainOf(Peer[e]) /\ x = v)
    <3>1. Supply(c, x)' = Supply(c, x) + 0 /\ Supply(c, x) \in Nat
      BY <1>0, <1>4, <2>2
    <3> QED
      BY <3>1 DEF IInv, AccountInv, SupplyBounded
  <2> QED
    BY <2>1, <2>2
<1>8. NativeBacked' /\ WalletsBounded'
  <2>1. ASSUME NEW c \in Chain, NEW token \in Token
        PROVE  Supply(c, native(token))' = Supply(c, native(token))
    <3>1. native(token) \in Denom /\ native(token) # v
      BY <1>2, NativeDenom
    <3> QED
      BY <1>0, <1>4, <3>1
  <2> QED
    BY <2>1 DEF IInv, AccountInv, NativeBacked, WalletsBounded
<1> QED
  BY <1>5, <1>6, <1>7, <1>8 DEF IInv, AccountInv

-----------------------------------------------------------------------------
(* Steps of the bank                                                       *)

\* The bank of c holds r of one denomination, and else what it held.
BankChanged(c, denom, r) ==
    /\ balances' \in [Chain -> [Denom -> [Account -> Nat]]]
    /\ \A k \in Chain, x \in Denom : ~ (k = c /\ x = denom) =>
         balances'[k][x] = balances[k][x] /\ Supply(k, x)' = Supply(k, x)
    /\ balances'[c][denom] = r[denom]
    /\ Supply(c, denom)' = SumFunction(r[denom])

LEMMA BankChange ==
    ASSUME TypeOK, NEW c \in Chain, NEW denom \in Denom,
           NEW r, SameBut(r, balances[c], denom),
           balances' = [balances EXCEPT ![c] = r]
    PROVE  BankChanged(c, denom, r)
<1>1. balances \in [Chain -> [Denom -> [Account -> Nat]]]
  BY DEF TypeOK
<1>2. /\ r \in [Denom -> [Account -> Nat]]
      /\ \A other \in Denom : other # denom => r[other] = balances[c][other]
  BY DEF SameBut
<1>3. /\ balances' \in [Chain -> [Denom -> [Account -> Nat]]]
      /\ balances'[c] = r /\ \A k \in Chain : k # c => balances'[k] = balances[k]
  BY <1>1, <1>2
<1>4. ASSUME NEW k \in Chain, NEW x \in Denom, ~ (k = c /\ x = denom)
      PROVE  balances'[k][x] = balances[k][x]
  BY <1>2, <1>3, <1>4
<1> QED
  BY <1>3, <1>4 DEF Supply, BankChanged

\* What account is given is a gift when it is the escrow account.
GiftsChanged(c, account, denom, amount) ==
    /\ gifts' \in [Chain -> [Denom -> Nat]]
    /\ \A k \in Chain, x \in Denom :
         gifts'[k][x] = gifts[k][x]
           + (IF account = Escrow /\ k = c /\ x = denom THEN amount ELSE 0)

LEMMA Given ==
    ASSUME TypeOK, NEW c \in Chain, NEW account, NEW denom \in Denom,
           NEW amount \in Nat, give(c, account, denom, amount)
    PROVE  GiftsChanged(c, account, denom, amount)
<1>1. gifts \in [Chain -> [Denom -> Nat]]
  BY DEF TypeOK
<1>2. CASE account = Escrow
  <2>1. gifts' = [gifts EXCEPT ![c][denom] = @ + amount]
    BY <1>2 DEF give
  <2>2. \A k \in Chain, x \in Denom :
          gifts'[k][x] = IF k = c /\ x = denom THEN gifts[k][x] + amount ELSE gifts[k][x]
    BY <1>1, <2>1
  <2>3. \A k \in Chain, x \in Denom : gifts[k][x] \in Nat
    BY <1>1
  <2> QED
    BY <1>1, <1>2, <2>1, <2>2, <2>3 DEF GiftsChanged
<1>3. CASE account # Escrow
  <2>1. gifts' = gifts /\ \A k \in Chain, x \in Denom : gifts[k][x] \in Nat
    BY <1>1, <1>3 DEF give
  <2> QED
    BY <1>1, <1>3, <2>1 DEF GiftsChanged
<1> QED
  BY <1>2, <1>3

LEMMA BanksOK ==
    ASSUME IInv, NEW c \in Chain
    PROVE  /\ BankTyped(balances[c])
           /\ \A denom \in Denom : SumFunction(balances[c][denom]) < UINT256
BY DEF IInv, AccountInv, TypeOK, SupplyBounded, Supply, BankTyped

\* A step that moves nothing over a channel and no vouchers.
LEMMA HomeStep ==
    ASSUME IInv, TypeOK', DeliveryInv',
           SupplyBounded', WalletsBounded', NativeBacked',
           \A f \in Endpoint, x \in Denom : AmountInFlight(f, x)' = AmountInFlight(f, x),
           \A c \in Chain, x \in Denom : \A channel :
             startsWith(x, channel) => Supply(c, x)' = Supply(c, x),
           \A c \in Chain, x \in Denom :
             balances'[c][x][Escrow] - gifts'[c][x] = balances[c][x][Escrow] - gifts[c][x]
    PROVE  IInv'
<1>1. /\ InFlightOf \in FlightAmounts
      /\ Supplied \in ChainAmounts /\ Supplied' \in ChainAmounts
      /\ Escrowed \in ChainAmounts /\ Escrowed' \in ChainAmounts
      /\ gifts \in ChainAmounts /\ gifts' \in ChainAmounts
  BY AmountTypes, AmountTypesNext, FlightTypes DEF IInv, AmountsTyped, FlightTyped
<1>2. InFlightOf' = InFlightOf
  BY DEF InFlightOf
<1>3. SameVouchers(Supplied, Supplied')
  BY DEF Supplied, SameVouchers
<1>4. SameEscrow(Escrowed, gifts, Escrowed', gifts')
  BY DEF Escrowed, SameEscrow
<1>5. EscrowHolds(Escrowed, gifts, InFlightOf, Supplied)
  BY EscrowAccountsAre DEF IInv, AccountInv
<1>6. EscrowHolds(Escrowed', gifts', InFlightOf, Supplied')
  BY ONLY <1>1, <1>3, <1>4, <1>5, EscrowUntouched
<1>7. EscrowIsAbroad'
  BY <1>2, <1>6, EscrowAccountsNext
<1>8. VouchersCameOver'
  <2> SUFFICES ASSUME NEW c \in Chain, NEW x \in Denom, NEW channel \in ChannelId,
                      Supply(c, x)' # 0, startsWith(x, channel)
               PROVE  cameOver(<<c, channel>>, x)
    BY DEF VouchersCameOver
  <2> QED
    BY DEF IInv, AccountInv, VouchersCameOver
<1> QED
  BY <1>7, <1>8 DEF IInv, AccountInv

\* A step that moves nothing over a channel and leaves all supplies alone.
LEMMA QuietStep ==
    ASSUME IInv, TypeOK', DeliveryInv', UNCHANGED wallets,
           \A f \in Endpoint, x \in Denom : AmountInFlight(f, x)' = AmountInFlight(f, x),
           \A c \in Chain, x \in Denom : Supply(c, x)' = Supply(c, x),
           \A c \in Chain, x \in Denom :
             balances'[c][x][Escrow] - gifts'[c][x] = balances[c][x][Escrow] - gifts[c][x]
    PROVE  IInv'
<1>1. SupplyBounded'
  BY DEF IInv, AccountInv, SupplyBounded
<1>2. WalletsBounded'
  BY DEF IInv, AccountInv, WalletsBounded
<1>3. NativeBacked'
  <2>1. \A c \in Chain, token \in Token :
          Supply(c, native(token))' = Supply(c, native(token))
    BY NativeDenom
  <2> QED
    BY <2>1 DEF IInv, AccountInv, NativeBacked
<1> QED
  BY <1>1, <1>2, <1>3, HomeStep

LEMMA TransferFromStep ==
    ASSUME IInv, NEW c \in Chain, NEW user \in User, NEW receiver \in Account,
           NEW denom \in Denom, NEW amount \in Nat,
           TransferFrom(c, user, receiver, denom, amount),
           give(c, receiver, denom, amount), UNCHANGED <<deliveryVars, outside>>
    PROVE  IInv'
<1>1. PICK r : r = transferFrom(balances[c], user, receiver, denom, amount).balances
  OBVIOUS
<1>2. /\ ~ transferFrom(balances[c], user, receiver, denom, amount).reverted
      /\ balances' = [balances EXCEPT ![c] = r]
      /\ UNCHANGED wallets
  BY <1>1 DEF TransferFrom
<1>3. user \in Account /\ user # Escrow /\ Escrow \in Account
  BY AccountAssumption DEF Account
<1>4. /\ SameBut(r, balances[c], denom)
      /\ SumFunction(r[denom]) = SumFunction(balances[c][denom])
      /\ \A a \in Account : r[denom][a] =
           balances[c][denom][a] - (IF a = user THEN amount ELSE 0)
                                 + (IF a = receiver THEN amount ELSE 0)
  BY <1>1, <1>2, <1>3, BanksOK, Moved
<1>5. /\ balances' \in [Chain -> [Denom -> [Account -> Nat]]]
      /\ \A k \in Chain, x \in Denom : ~ (k = c /\ x = denom) =>
           balances'[k][x] = balances[k][x] /\ Supply(k, x)' = Supply(k, x)
      /\ balances'[c][denom] = r[denom]
      /\ Supply(c, denom)' = SumFunction(r[denom])
  <2>1. TypeOK
    BY DEF IInv
  <2>2. BankChanged(c, denom, r)
    BY <1>2, <1>4, <2>1, BankChange
  <2> QED
    BY <2>2 DEF BankChanged
<1>6. /\ gifts' \in [Chain -> [Denom -> Nat]]
      /\ \A k \in Chain, x \in Denom :
           gifts'[k][x] = gifts[k][x]
             + (IF receiver = Escrow /\ k = c /\ x = denom THEN amount ELSE 0)
  <2>1. TypeOK
    BY DEF IInv
  <2>2. GiftsChanged(c, receiver, denom, amount)
    BY <2>1, Given
  <2> QED
    BY <2>2 DEF GiftsChanged
<1>7. TypeOK'
  BY <1>2, <1>5, <1>6 DEF IInv, TypeOK
<1>8. \A k \in Chain, x \in Denom : Supply(k, x)' = Supply(k, x)
  <2>1. Supply(c, denom)' = Supply(c, denom)
    BY <1>4, <1>5 DEF Supply
  <2> QED
    BY <1>5, <2>1
<1>9. \A k \in Chain, x \in Denom :
        balances'[k][x][Escrow] - gifts'[k][x] = balances[k][x][Escrow] - gifts[k][x]
  <2> SUFFICES ASSUME NEW k \in Chain, NEW x \in Denom
               PROVE  balances'[k][x][Escrow] - gifts'[k][x]
                        = balances[k][x][Escrow] - gifts[k][x]
    OBVIOUS
  <2>1. balances[k][x][Escrow] \in Nat /\ gifts[k][x] \in Nat
    BY <1>3 DEF IInv, TypeOK
  <2>2. CASE k = c /\ x = denom
    <3>1. balances'[k][x][Escrow] =
            balances[k][x][Escrow] + (IF Escrow = receiver THEN amount ELSE 0)
      BY <1>3, <1>4, <1>5, <2>1, <2>2
    <3> QED
      BY <1>6, <2>1, <2>2, <3>1
  <2>3. CASE ~ (k = c /\ x = denom)
    BY <1>5, <1>6, <2>1, <2>3
  <2> QED
    BY <2>2, <2>3
<1>10. /\ DeliveryInv'
       /\ \A f, x : AmountInFlight(f, x)' = AmountInFlight(f, x)
  BY DeliveryUnchanged DEF IInv
<1> QED
  BY <1>2, <1>7, <1>8, <1>9, <1>10, QuietStep

\* Tokens change hands: of the token contract, none is made.
WalletsChanged(c, token, from, to, amount) ==
    /\ wallets' \in [Chain -> [Token -> [Account -> Nat]]]
    /\ \A k \in Chain, t \in Token :
         SumFunction(wallets'[k][t]) = SumFunction(wallets[k][t])
    /\ \A k \in Chain, t \in Token : ~ (k = c /\ t = token) =>
         wallets'[k][t] = wallets[k][t]
    /\ \A a \in Account : wallets'[c][token][a] =
         wallets[c][token][a] - (IF a = from THEN amount ELSE 0)
                              + (IF a = to THEN amount ELSE 0)

LEMMA WalletsMoved ==
    ASSUME TypeOK, NEW c \in Chain, NEW token \in Token, NEW from \in Account,
           NEW to \in Account, NEW amount \in Nat, wallets[c][token][from] >= amount,
           wallets' = [wallets EXCEPT ![c] = transfer(@, from, to, token, amount)]
    PROVE  WalletsChanged(c, token, from, to, amount)
<1> DEFINE m == wallets[c][token]
           t0 == [m EXCEPT ![from] = @ - amount]
           u == [t0 EXCEPT ![to] = @ + amount]
<1>1. wallets \in [Chain -> [Token -> [Account -> Nat]]] /\ m \in [Account -> Nat]
  BY DEF TypeOK
<1>2. /\ t0 \in [Account -> Nat] /\ t0[from] = m[from] - amount /\ m[from] \in Nat
      /\ \A x \in Account : x # from => t0[x] = m[x]
  BY <1>1
<1>3. /\ u \in [Account -> Nat] /\ u[to] = t0[to] + amount
      /\ \A x \in Account : x # to => u[x] = t0[x]
  <2> HIDE DEF t0
  <2> QED
    BY <1>2
<1>4. SumFunction(u) = SumFunction(m)
  <2> HIDE DEF t0, u, m
  <2>1. SumFunction(t0) = SumFunction(m) - m[from] + t0[from]
    BY <1>1, <1>2, BalanceChanged
  <2>2. SumFunction(u) = SumFunction(t0) - t0[to] + u[to]
    BY <1>2, <1>3, BalanceChanged
  <2>3. t0[to] \in Nat /\ SumFunction(m) \in Nat
    BY <1>1, <1>2, BalancesSum
  <2> QED
    BY <1>2, <1>3, <2>1, <2>2, <2>3
<1>5. wallets' = [wallets EXCEPT ![c][token] = u]
  <2>1. [wallets[c] EXCEPT ![token][from] = @ - amount]
          = [wallets[c] EXCEPT ![token] = t0]
    BY <1>1
  <2> HIDE DEF t0
  <2>2. transfer(wallets[c], from, to, token, amount)
          = [wallets[c] EXCEPT ![token] = u]
    BY <1>1, <2>1 DEF transfer
  <2> HIDE DEF u
  <2> QED
    BY <1>1, <2>2
<1>6. \A a \in Account : u[a] =
        m[a] - (IF a = from THEN amount ELSE 0) + (IF a = to THEN amount ELSE 0)
  BY <1>1
<1> HIDE DEF t0, u, m
<1>7. /\ wallets' \in [Chain -> [Token -> [Account -> Nat]]]
      /\ wallets'[c][token] = u
      /\ \A k \in Chain, t \in Token : ~ (k = c /\ t = token) =>
           wallets'[k][t] = wallets[k][t]
  BY <1>1, <1>3, <1>5
<1>8. \A k \in Chain, t \in Token : SumFunction(wallets'[k][t]) = SumFunction(wallets[k][t])
  BY <1>4, <1>7 DEF m
<1> QED
  BY <1>6, <1>7, <1>8 DEF WalletsChanged, m

LEMMA DepositStep ==
    ASSUME IInv, NEW c \in Chain, NEW user \in User, NEW token \in Token,
           NEW amount \in Nat, NEW receiver \in Account,
           Deposit(c, user, token, amount, receiver),
           give(c, receiver, native(token), amount),
           UNCHANGED <<deliveryVars, outside>>
    PROVE  IInv'
<1>0. PICK denom : denom = native(token)
  OBVIOUS
<1>1. denom \in Denom /\ \A channel : ~ startsWith(denom, channel)
  BY <1>0, NativeDenom
<1>2. PICK r : r = mint(balances[c], receiver, denom, amount).balances
  OBVIOUS
<1>3. /\ wallets[c][token][user] >= amount
      /\ wallets' = [wallets EXCEPT ![c] = transfer(@, user, Bank, token, amount)]
      /\ balances' = [balances EXCEPT ![c] = r]
  <2>1. balances' = [balances EXCEPT ![c] =
                       mint(balances[c], receiver, denom, amount).balances]
    BY <1>0 DEF Deposit
  <2> QED
    BY <1>2, <2>1 DEF Deposit
<1>4. /\ user \in Account /\ Bank \in Account /\ Escrow \in Account /\ user # Bank
  BY AccountAssumption DEF Account
<1>5. /\ wallets' \in [Chain -> [Token -> [Account -> Nat]]]
      /\ \A k \in Chain, t \in Token :
           SumFunction(wallets'[k][t]) = SumFunction(wallets[k][t])
      /\ \A k \in Chain, t \in Token : ~ (k = c /\ t = token) =>
           wallets'[k][t] = wallets[k][t]
      /\ \A a \in Account : wallets'[c][token][a] =
           wallets[c][token][a] - (IF a = user THEN amount ELSE 0)
                                + (IF a = Bank THEN amount ELSE 0)
  <2>1. TypeOK
    BY DEF IInv
  <2>2. WalletsChanged(c, token, user, Bank, amount)
    BY <1>3, <1>4, <2>1, WalletsMoved
  <2> QED
    BY <2>2 DEF WalletsChanged
<1>6. /\ wallets[c][token][Bank] \in Nat
      /\ wallets'[c][token][Bank] = wallets[c][token][Bank] + amount
  <2>1. wallets[c][token][Bank] \in Nat
    BY <1>4 DEF IInv, TypeOK
  <2>2. wallets'[c][token][Bank] =
          wallets[c][token][Bank] - (IF Bank = user THEN amount ELSE 0) + amount
    BY <1>4, <1>5
  <2> QED
    BY <1>4, <2>1, <2>2
<1>7. /\ Supply(c, denom) \in Nat /\ Supply(c, denom) <= wallets[c][token][Bank]
      /\ Supply(c, denom) + amount <= wallets'[c][token][Bank]
      /\ Supply(c, denom) + amount < UINT256
  <2>1. Supply(c, denom) \in Nat
    BY <1>1, AmountTypes DEF IInv, AmountsTyped
  <2>2. Supply(c, denom) <= wallets[c][token][Bank]
    BY <1>0 DEF IInv, AccountInv, NativeBacked
  <2>3. /\ wallets'[c][token] \in [Account -> Nat]
        /\ SumFunction(wallets'[c][token]) < UINT256
    BY <1>5 DEF IInv, AccountInv, WalletsBounded
  <2>4. /\ wallets'[c][token][Bank] <= SumFunction(wallets'[c][token])
        /\ SumFunction(wallets'[c][token]) \in Nat
    BY <1>4, <2>3, BalancesSum
  <2>5. UINT256 \in Nat
    BY BoundAssumption
  <2> QED
    BY <1>6, <2>1, <2>2, <2>3, <2>4, <2>5
<1>8. /\ SameBut(r, balances[c], denom)
      /\ SumFunction(r[denom]) = Supply(c, denom) + amount
      /\ \A a \in Account : r[denom][a] =
           balances[c][denom][a] + (IF a = receiver THEN amount ELSE 0)
  BY <1>1, <1>2, <1>7, BanksOK, MintedTo DEF Supply
<1>9. /\ balances' \in [Chain -> [Denom -> [Account -> Nat]]]
      /\ \A k \in Chain, x \in Denom : ~ (k = c /\ x = denom) =>
           balances'[k][x] = balances[k][x] /\ Supply(k, x)' = Supply(k, x)
      /\ balances'[c][denom] = r[denom]
      /\ Supply(c, denom)' = Supply(c, denom) + amount
  <2>1. TypeOK
    BY DEF IInv
  <2>2. BankChanged(c, denom, r)
    BY <1>1, <1>3, <1>8, <2>1, BankChange
  <2> QED
    BY <1>8, <2>2 DEF BankChanged
<1>10. /\ gifts' \in [Chain -> [Denom -> Nat]]
       /\ \A k \in Chain, x \in Denom :
            gifts'[k][x] = gifts[k][x]
              + (IF receiver = Escrow /\ k = c /\ x = denom THEN amount ELSE 0)
  <2>1. TypeOK /\ give(c, receiver, denom, amount) /\ denom \in Denom
    BY <1>0, <1>1 DEF IInv
  <2>2. GiftsChanged(c, receiver, denom, amount)
    BY <2>1, Given
  <2> QED
    BY <2>2 DEF GiftsChanged
<1>11. TypeOK'
  BY <1>5, <1>9, <1>10 DEF TypeOK
<1>12. SupplyBounded'
  BY <1>7, <1>9 DEF IInv, AccountInv, SupplyBounded
<1>13. WalletsBounded'
  BY <1>5 DEF IInv, AccountInv, WalletsBounded
<1>14. NativeBacked'
  <2> SUFFICES ASSUME NEW k \in Chain, NEW t \in Token
               PROVE  Supply(k, native(t))' <= wallets'[k][t][Bank]
    BY DEF NativeBacked
  <2>1. CASE k = c /\ t = token
    BY <1>0, <1>7, <1>9, <2>1
  <2>2. CASE ~ (k = c /\ t = token)
    <3>1. native(t) \in Denom /\ ~ (k = c /\ native(t) = denom)
      BY <1>0, <2>2, NativeDenom DEF native
    <3> QED
      BY <1>5, <1>9, <2>2, <3>1 DEF IInv, AccountInv, NativeBacked
  <2> QED
    BY <2>1, <2>2
<1>15. \A k \in Chain, x \in Denom : \A channel :
         startsWith(x, channel) => Supply(k, x)' = Supply(k, x)
  BY <1>1, <1>9
<1>16. \A k \in Chain, x \in Denom :
         balances'[k][x][Escrow] - gifts'[k][x] = balances[k][x][Escrow] - gifts[k][x]
  <2> SUFFICES ASSUME NEW k \in Chain, NEW x \in Denom
               PROVE  balances'[k][x][Escrow] - gifts'[k][x]
                        = balances[k][x][Escrow] - gifts[k][x]
    OBVIOUS
  <2>1. balances[k][x][Escrow] \in Nat /\ gifts[k][x] \in Nat
    BY <1>4 DEF IInv, TypeOK
  <2>2. CASE k = c /\ x = denom
    <3>1. balances'[k][x][Escrow] =
            balances[k][x][Escrow] + (IF Escrow = receiver THEN amount ELSE 0)
      BY <1>4, <1>8, <1>9, <2>2
    <3> QED
      BY <1>10, <2>1, <2>2, <3>1
  <2>3. CASE ~ (k = c /\ x = denom)
    BY <1>9, <1>10, <2>1, <2>3
  <2> QED
    BY <2>2, <2>3
<1>17. /\ DeliveryInv'
       /\ \A f, x : AmountInFlight(f, x)' = AmountInFlight(f, x)
  BY DeliveryUnchanged DEF IInv
<1> QED
  BY <1>11, <1>12, <1>13, <1>14, <1>15, <1>16, <1>17, HomeStep

LEMMA WithdrawStep ==
    ASSUME IInv, NEW c \in Chain, NEW user \in User, NEW token \in Token,
           NEW amount \in Nat, NEW receiver \in Account,
           Withdraw(c, user, token, amount, receiver),
           UNCHANGED <<deliveryVars, gifts, outside>>
    PROVE  IInv'
<1>0. PICK denom : denom = native(token)
  OBVIOUS
<1>1. denom \in Denom /\ \A channel : ~ startsWith(denom, channel)
  BY <1>0, NativeDenom
<1>2. PICK r : r = burn(balances[c], user, denom, amount).balances
  OBVIOUS
<1>3. /\ ~ burn(balances[c], user, denom, amount).reverted
      /\ wallets[c][token][Bank] >= amount
      /\ wallets' = [wallets EXCEPT ![c] = transfer(@, Bank, receiver, token, amount)]
      /\ balances' = [balances EXCEPT ![c] = r]
  BY <1>0, <1>2 DEF Withdraw
<1>4. /\ user \in Account /\ Bank \in Account /\ Escrow \in Account /\ user # Escrow
  BY AccountAssumption DEF Account
<1>5. /\ wallets' \in [Chain -> [Token -> [Account -> Nat]]]
      /\ \A k \in Chain, t \in Token :
           SumFunction(wallets'[k][t]) = SumFunction(wallets[k][t])
      /\ \A k \in Chain, t \in Token : ~ (k = c /\ t = token) =>
           wallets'[k][t] = wallets[k][t]
      /\ \A a \in Account : wallets'[c][token][a] =
           wallets[c][token][a] - (IF a = Bank THEN amount ELSE 0)
                                + (IF a = receiver THEN amount ELSE 0)
  <2>1. TypeOK
    BY DEF IInv
  <2>2. WalletsChanged(c, token, Bank, receiver, amount)
    BY <1>3, <1>4, <2>1, WalletsMoved
  <2> QED
    BY <2>2 DEF WalletsChanged
<1>6. /\ wallets[c][token][Bank] \in Nat
      /\ wallets'[c][token][Bank] >= wallets[c][token][Bank] - amount
      /\ wallets'[c][token][Bank] \in Nat
  <2>1. wallets[c][token][Bank] \in Nat /\ wallets'[c][token][Bank] \in Nat
    BY <1>4, <1>5 DEF IInv, TypeOK
  <2>2. wallets'[c][token][Bank] =
          wallets[c][token][Bank] - amount + (IF Bank = receiver THEN amount ELSE 0)
    BY <1>4, <1>5
  <2> QED
    BY <2>1, <2>2
<1>7. /\ SameBut(r, balances[c], denom)
      /\ SumFunction(r[denom]) = Supply(c, denom) - amount
      /\ \A a \in Account : r[denom][a] =
           balances[c][denom][a] - (IF a = user THEN amount ELSE 0)
  BY <1>0, <1>1, <1>2, <1>3, <1>4, BanksOK, BurnedFrom DEF Supply
<1>8. /\ balances' \in [Chain -> [Denom -> [Account -> Nat]]]
      /\ \A k \in Chain, x \in Denom : ~ (k = c /\ x = denom) =>
           balances'[k][x] = balances[k][x] /\ Supply(k, x)' = Supply(k, x)
      /\ balances'[c][denom] = r[denom]
      /\ Supply(c, denom)' = Supply(c, denom) - amount
  <2>1. TypeOK
    BY DEF IInv
  <2>2. BankChanged(c, denom, r)
    BY <1>1, <1>3, <1>7, <2>1, BankChange
  <2> QED
    BY <1>7, <2>2 DEF BankChanged
<1>9. Supply(c, denom) \in Nat /\ Supply(c, denom) <= wallets[c][token][Bank]
  <2>1. Supply(c, denom) \in Nat
    BY <1>1, AmountTypes DEF IInv, AmountsTyped
  <2> QED
    BY <1>0, <2>1 DEF IInv, AccountInv, NativeBacked
<1>10. TypeOK'
  BY <1>5, <1>8 DEF IInv, TypeOK
<1>11. SupplyBounded'
  <2>1. Supply(c, denom) < UINT256 /\ UINT256 \in Nat
    BY <1>1, BoundAssumption DEF IInv, AccountInv, SupplyBounded
  <2>2. Supply(c, denom)' < UINT256
    BY <1>8, <1>9, <2>1
  <2> QED
    BY <1>8, <2>2 DEF IInv, AccountInv, SupplyBounded
<1>12. WalletsBounded'
  BY <1>5 DEF IInv, AccountInv, WalletsBounded
<1>13. NativeBacked'
  <2> SUFFICES ASSUME NEW k \in Chain, NEW t \in Token
               PROVE  Supply(k, native(t))' <= wallets'[k][t][Bank]
    BY DEF NativeBacked
  <2>1. CASE k = c /\ t = token
    <3>1. Supply(c, denom)' <= wallets'[c][token][Bank]
      BY <1>6, <1>8, <1>9
    <3> QED
      BY <1>0, <2>1, <3>1
  <2>2. CASE ~ (k = c /\ t = token)
    <3>1. native(t) \in Denom /\ ~ (k = c /\ native(t) = denom)
      BY <1>0, <2>2, NativeDenom DEF native
    <3> QED
      BY <1>5, <1>8, <2>2, <3>1 DEF IInv, AccountInv, NativeBacked
  <2> QED
    BY <2>1, <2>2
<1>14. \A k \in Chain, x \in Denom : \A channel :
         startsWith(x, channel) => Supply(k, x)' = Supply(k, x)
  BY <1>1, <1>8
<1>15. \A k \in Chain, x \in Denom :
         balances'[k][x][Escrow] - gifts'[k][x] = balances[k][x][Escrow] - gifts[k][x]
  <2>1. balances[c][denom][Escrow] \in Nat
    BY <1>1, <1>4 DEF IInv, TypeOK
  <2>2. balances'[c][denom][Escrow] = balances[c][denom][Escrow]
    BY <1>4, <1>7, <1>8, <2>1
  <2> QED
    BY <1>8, <2>2
<1>16. /\ DeliveryInv'
       /\ \A f, x : AmountInFlight(f, x)' = AmountInFlight(f, x)
  BY DeliveryUnchanged DEF IInv
<1> QED
  BY <1>10, <1>11, <1>12, <1>13, <1>14, <1>15, <1>16, HomeStep

-----------------------------------------------------------------------------
(* Steps of transfers                                                      *)

\* Of one denomination on one chain, supply more are in accounts, and escrow
\* more in the escrow account that were not given to it.
AccountsMoved(c, denom, supply, escrow) ==
    /\ TypeOK'
    /\ \A k \in Chain, x \in Denom :
         /\ Supply(k, x)' = Supply(k, x) + (IF k = c /\ x = denom THEN supply ELSE 0)
         /\ balances'[k][x][Escrow] - gifts'[k][x]
              = balances[k][x][Escrow] - gifts[k][x]
                  + (IF k = c /\ x = denom THEN escrow ELSE 0)

\* The balances of c become r, which differ in one denomination, of which
\* supply more are in accounts and escrow more in the escrow account.
Holding(r, c, denom, supply, escrow) ==
    /\ balances' = [balances EXCEPT ![c] = r]
    /\ SameBut(r, balances[c], denom)
    /\ SumFunction(r[denom]) = SumFunction(balances[c][denom]) + supply
    /\ r[denom][Escrow] = balances[c][denom][Escrow] + escrow

\* Of what the escrow account gets, all but what it is given.
ungiven(escrow, account, gift) == escrow - (IF account = Escrow THEN gift ELSE 0)

LEMMA AccountsStep ==
    ASSUME TypeOK, NEW c \in Chain, NEW denom \in Denom,
           NEW r, NEW supply \in Int, NEW escrow \in Int,
           Holding(r, c, denom, supply, escrow), UNCHANGED wallets,
           NEW account, NEW gift \in Nat, GiftsChanged(c, account, denom, gift)
    PROVE  AccountsMoved(c, denom, supply, ungiven(escrow, account, gift))
<1> DEFINE more == ungiven(escrow, account, gift)
<1>0. /\ balances' = [balances EXCEPT ![c] = r]
      /\ SameBut(r, balances[c], denom)
      /\ SumFunction(r[denom]) = SumFunction(balances[c][denom]) + supply
      /\ r[denom][Escrow] = balances[c][denom][Escrow] + escrow
  BY DEF Holding
<1>1. /\ balances' \in [Chain -> [Denom -> [Account -> Nat]]]
      /\ \A k \in Chain, x \in Denom : ~ (k = c /\ x = denom) =>
           balances'[k][x] = balances[k][x] /\ Supply(k, x)' = Supply(k, x)
      /\ balances'[c][denom] = r[denom]
      /\ Supply(c, denom)' = SumFunction(r[denom])
  <2>1. BankChanged(c, denom, r)
    BY <1>0, BankChange
  <2> QED
    BY <2>1 DEF BankChanged
<1>2. /\ gifts' \in [Chain -> [Denom -> Nat]]
      /\ \A k \in Chain, x \in Denom :
           gifts'[k][x] = gifts[k][x]
             + (IF account = Escrow /\ k = c /\ x = denom THEN gift ELSE 0)
  BY DEF GiftsChanged
<1>3. TypeOK'
  BY <1>1, <1>2 DEF TypeOK
<1>4. ASSUME NEW k \in Chain, NEW x \in Denom
      PROVE  /\ Supply(k, x)' = Supply(k, x) + (IF k = c /\ x = denom THEN supply ELSE 0)
             /\ balances'[k][x][Escrow] - gifts'[k][x]
                  = balances[k][x][Escrow] - gifts[k][x]
                      + (IF k = c /\ x = denom THEN more ELSE 0)
  <2>1. balances[k][x][Escrow] \in Nat /\ gifts[k][x] \in Nat /\ Supply(k, x) \in Nat
    <3>1. Escrow \in Account
      BY DEF Account
    <3> QED
      BY <3>1, AmountTypes DEF AmountsTyped, TypeOK
  <2>2. CASE k = c /\ x = denom
    <3>1. Supply(c, denom)' = Supply(c, denom) + supply
      BY <1>0, <1>1 DEF Supply
    <3>2. balances'[c][denom][Escrow] = balances[c][denom][Escrow] + escrow
      BY <1>0, <1>1
    <3>3. gifts'[c][denom] = gifts[c][denom] + (IF account = Escrow THEN gift ELSE 0)
      BY <1>2
    <3> QED
      BY <2>1, <2>2, <3>1, <3>2, <3>3 DEF ungiven
  <2>3. CASE ~ (k = c /\ x = denom)
    <3>1. balances'[k][x] = balances[k][x] /\ Supply(k, x)' = Supply(k, x)
      BY <1>1, <2>3
    <3>2. gifts'[k][x] = gifts[k][x] + 0
      BY <1>2, <2>3
    <3> QED
      BY <2>1, <2>3, <3>1, <3>2
  <2> QED
    BY <2>2, <2>3
<1> QED
  BY <1>3, <1>4 DEF AccountsMoved

LEMMA NothingGiven ==
    ASSUME TypeOK, UNCHANGED gifts, NEW c \in Chain, NEW denom \in Denom, NEW account
    PROVE  GiftsChanged(c, account, denom, 0)
<1>1. /\ gifts' \in [Chain -> [Denom -> Nat]] /\ gifts' = gifts
      /\ \A k \in Chain, x \in Denom : gifts[k][x] \in Nat
  BY DEF TypeOK
<1> QED
  BY <1>1 DEF GiftsChanged

\* Of one denomination, amount more are in flight from an end.
FlightMoved(f, denom, amount) ==
    \A e \in Endpoint, x \in Denom :
      AmountInFlight(e, x)' = AmountInFlight(e, x)
        + (IF e = f /\ x = denom THEN amount ELSE 0)

\* The steps of a transfer over e of denom, which is v on the other side: at
\* its home, where it is escrowed and released, ...
LEMMA EscrowStep ==
    ASSUME IInv, DeliveryInv', UNCHANGED wallets,
           NEW e \in Endpoint, NEW denom \in Denom,
           ~ startsWith(denom, channelOf(e)),
           NEW v \in Denom, v = prefixed(channelOf(Peer[e]), denom),
           NEW amount \in Int,
           AccountsMoved(chainOf(e), denom, 0, amount),
           FlightMoved(e, denom, amount) \/ FlightMoved(Peer[e], v, amount)
    PROVE  IInv'
<1>1. Peer[e] \in Endpoint /\ chainOf(e) \in Chain /\ chainOf(Peer[e]) \in Chain
  BY Ends
<1>2. /\ TypeOK /\ TypeOK' /\ DeliveryInv
      /\ \A f \in Endpoint, x \in Denom : AmountInFlight(f, x) \in Nat
      /\ \A k \in Chain, x \in Denom :
           Supply(k, x) \in Nat /\ balances[k][x][Escrow] - gifts[k][x] \in Int
  <2>1. Escrow \in Account
    BY DEF Account
  <2>2. TypeOK /\ DeliveryInv /\ AmountsTyped /\ TypeOK'
    BY AmountTypes DEF IInv, AccountsMoved
  <2>3. \A f \in Endpoint, x \in Denom : AmountInFlight(f, x) \in Nat
    BY <2>2, FlightSum
  <2>4. \A k \in Chain, x \in Denom :
          balances[k][x][Escrow] \in Nat /\ gifts[k][x] \in Nat
    BY <2>1, <2>2 DEF TypeOK
  <2> QED
    BY <2>2, <2>3, <2>4 DEF AmountsTyped
<1>3. Supply(chainOf(Peer[e]), v) + 0 < UINT256
  BY <1>1, <1>2 DEF IInv, AccountInv, SupplyBounded
<1>4. /\ amount + 0 + 0 = amount /\ 0 + amount + 0 = amount /\ 0 \in Int
  OBVIOUS
<1>5. CASE FlightMoved(e, denom, amount)
  <2>1. TransferMoved(e, denom, v, amount, 0, 0, amount)
    BY <1>2, <1>5 DEF FlightMoved, AccountsMoved, TransferMoved
  <2> QED
    BY <1>2, <1>3, <1>4, <2>1, TransferStep
<1>6. CASE FlightMoved(Peer[e], v, amount)
  <2>1. TransferMoved(e, denom, v, 0, amount, 0, amount)
    BY <1>2, <1>6 DEF FlightMoved, AccountsMoved, TransferMoved
  <2> QED
    BY <1>2, <1>3, <1>4, <2>1, TransferStep
<1> QED
  BY <1>5, <1>6

\* ... and abroad, where its vouchers are minted and burned, ...
LEMMA VoucherStep ==
    ASSUME IInv, DeliveryInv', UNCHANGED wallets,
           NEW e \in Endpoint, NEW denom \in Denom,
           ~ startsWith(denom, channelOf(e)),
           NEW v \in Denom, v = prefixed(channelOf(Peer[e]), denom),
           NEW amount \in Int, Supply(chainOf(Peer[e]), v) + amount < UINT256,
           AccountsMoved(chainOf(Peer[e]), v, amount, 0),
           FlightMoved(e, denom, - amount) \/ FlightMoved(Peer[e], v, - amount)
    PROVE  IInv'
<1>1. Peer[e] \in Endpoint /\ chainOf(e) \in Chain /\ chainOf(Peer[e]) \in Chain
  BY Ends
<1>2. /\ TypeOK /\ TypeOK' /\ DeliveryInv /\ - amount \in Int
      /\ \A f \in Endpoint, x \in Denom : AmountInFlight(f, x) \in Nat
      /\ \A k \in Chain, x \in Denom :
           Supply(k, x) \in Nat /\ balances[k][x][Escrow] - gifts[k][x] \in Int
  <2>1. Escrow \in Account
    BY DEF Account
  <2>2. TypeOK /\ DeliveryInv /\ AmountsTyped /\ TypeOK'
    BY AmountTypes DEF IInv, AccountsMoved
  <2>3. \A f \in Endpoint, x \in Denom : AmountInFlight(f, x) \in Nat
    BY <2>2, FlightSum
  <2>4. \A k \in Chain, x \in Denom :
          balances[k][x][Escrow] \in Nat /\ gifts[k][x] \in Nat
    BY <2>1, <2>2 DEF TypeOK
  <2> QED
    BY <2>2, <2>3, <2>4 DEF AmountsTyped
<1>3. PICK less \in Int : less = - amount /\ less + 0 + amount = 0 /\ 0 + less + amount = 0
  BY <1>2
<1>4. CASE FlightMoved(e, denom, - amount)
  <2>1. TransferMoved(e, denom, v, less, 0, amount, 0)
    BY <1>2, <1>3, <1>4 DEF FlightMoved, AccountsMoved, TransferMoved
  <2> QED
    BY <1>2, <1>3, <2>1, TransferStep
<1>5. CASE FlightMoved(Peer[e], v, - amount)
  <2>1. TransferMoved(e, denom, v, 0, less, amount, 0)
    BY <1>2, <1>3, <1>5 DEF FlightMoved, AccountsMoved, TransferMoved
  <2> QED
    BY <1>2, <1>3, <2>1, TransferStep
<1> QED
  BY <1>4, <1>5

\* ... and where nothing is to be moved.
LEMMA NothingStep ==
    ASSUME IInv, DeliveryInv', UNCHANGED wallets,
           NEW c, NEW denom, AccountsMoved(c, denom, 0, 0),
           NEW f, NEW x, FlightMoved(f, x, 0)
    PROVE  IInv'
<1>1. /\ TypeOK /\ TypeOK' /\ DeliveryInv
      /\ \A e \in Endpoint, y \in Denom : AmountInFlight(e, y) \in Nat
      /\ \A k \in Chain, y \in Denom :
           Supply(k, y) \in Nat /\ balances[k][y][Escrow] - gifts[k][y] \in Int
  <2>1. Escrow \in Account
    BY DEF Account
  <2>2. TypeOK /\ DeliveryInv /\ AmountsTyped /\ TypeOK'
    BY AmountTypes DEF IInv, AccountsMoved
  <2>3. \A e \in Endpoint, y \in Denom : AmountInFlight(e, y) \in Nat
    BY <2>2, FlightSum
  <2>4. \A k \in Chain, y \in Denom :
          balances[k][y][Escrow] \in Nat /\ gifts[k][y] \in Nat
    BY <2>1, <2>2 DEF TypeOK
  <2> QED
    BY <2>2, <2>3, <2>4 DEF AmountsTyped
<1>2. \A e \in Endpoint, y \in Denom : AmountInFlight(e, y)' = AmountInFlight(e, y)
  BY <1>1 DEF FlightMoved
<1>3. \A k \in Chain, y \in Denom : Supply(k, y)' = Supply(k, y)
  BY <1>1 DEF AccountsMoved
<1>4. \A k \in Chain, y \in Denom :
        balances'[k][y][Escrow] - gifts'[k][y] = balances[k][y][Escrow] - gifts[k][y]
  BY <1>1 DEF AccountsMoved
<1> QED
  BY <1>1, <1>2, <1>3, <1>4, QuietStep

\* What a transfer between accounts brings to the escrow account.
escrowedOf(from, to, amount) ==
    (IF to = Escrow THEN amount ELSE 0) - (IF from = Escrow THEN amount ELSE 0)

LEMMA Transferred ==
    ASSUME IInv, NEW c \in Chain, NEW from \in Account, NEW to \in Account,
           NEW denom \in Denom, NEW amount \in Nat,
           ~ transferFrom(balances[c], from, to, denom, amount).reverted,
           balances' = [balances EXCEPT ![c] =
                          transferFrom(balances[c], from, to, denom, amount).balances],
           UNCHANGED wallets,
           NEW account, NEW gift \in Nat, GiftsChanged(c, account, denom, gift),
           NEW escrow \in Int,
           escrow = ungiven(escrowedOf(from, to, amount), account, gift)
    PROVE  AccountsMoved(c, denom, 0, escrow)
<1>1. PICK r : r = transferFrom(balances[c], from, to, denom, amount).balances
  OBVIOUS
<1>2. balances' = [balances EXCEPT ![c] = r]
  BY <1>1
<1>3. /\ SameBut(r, balances[c], denom)
      /\ SumFunction(r[denom]) = SumFunction(balances[c][denom])
      /\ \A a \in Account : r[denom][a] =
           balances[c][denom][a] - (IF a = from THEN amount ELSE 0)
                                 + (IF a = to THEN amount ELSE 0)
  BY <1>1, BanksOK, Moved
<1>4. TypeOK /\ Escrow \in Account
  BY DEF IInv, Account
<1>5. balances[c][denom] \in [Account -> Nat] /\ SumFunction(balances[c][denom]) \in Nat
  BY <1>4, BalancesSum DEF TypeOK
<1>6. PICK moved \in Int : moved = escrowedOf(from, to, amount)
  BY DEF escrowedOf
<1>7. Holding(r, c, denom, 0, moved)
  <2>1. balances[c][denom][Escrow] \in Nat
    BY <1>4, <1>5
  <2>2. r[denom][Escrow] =
          balances[c][denom][Escrow] - (IF from = Escrow THEN amount ELSE 0)
                                     + (IF to = Escrow THEN amount ELSE 0)
    BY <1>3, <1>4
  <2>3. r[denom][Escrow] = balances[c][denom][Escrow] + moved
    BY <1>6, <2>1, <2>2 DEF escrowedOf
  <2>4. SumFunction(r[denom]) = SumFunction(balances[c][denom]) + 0
    BY <1>3, <1>5
  <2> QED
    BY <1>2, <1>3, <2>3, <2>4 DEF Holding
<1>8. AccountsMoved(c, denom, 0, ungiven(moved, account, gift))
  BY <1>4, <1>7, AccountsStep
<1> QED
  BY <1>6, <1>8

LEMMA Minting ==
    ASSUME IInv, NEW c \in Chain, NEW to \in Account,
           NEW denom \in Denom, NEW amount \in Nat,
           Supply(c, denom) + amount < UINT256,
           balances' = [balances EXCEPT ![c] =
                          mint(balances[c], to, denom, amount).balances],
           UNCHANGED wallets,
           NEW account, NEW gift \in Nat, GiftsChanged(c, account, denom, gift),
           (IF account = Escrow THEN gift ELSE 0) = (IF to = Escrow THEN amount ELSE 0)
    PROVE  AccountsMoved(c, denom, amount, 0)
<1>1. PICK r : r = mint(balances[c], to, denom, amount).balances
  OBVIOUS
<1>2. balances' = [balances EXCEPT ![c] = r]
  BY <1>1
<1>3. /\ SameBut(r, balances[c], denom)
      /\ SumFunction(r[denom]) = SumFunction(balances[c][denom]) + amount
      /\ \A a \in Account : r[denom][a] =
           balances[c][denom][a] + (IF a = to THEN amount ELSE 0)
  BY <1>1, BanksOK, MintedTo DEF Supply
<1>4. TypeOK /\ Escrow \in Account
  BY DEF IInv, Account
<1>5. PICK moved \in Int : moved = (IF to = Escrow THEN amount ELSE 0)
  OBVIOUS
<1>6. Holding(r, c, denom, amount, moved)
  <2>1. balances[c][denom][Escrow] \in Nat
    BY <1>4 DEF TypeOK
  <2>2. r[denom][Escrow] =
          balances[c][denom][Escrow] + (IF to = Escrow THEN amount ELSE 0)
    BY <1>3, <1>4
  <2> QED
    BY <1>2, <1>3, <1>5, <2>1, <2>2 DEF Holding
<1>7. 0 = ungiven(moved, account, gift)
  BY <1>5 DEF ungiven
<1>8. AccountsMoved(c, denom, amount, ungiven(moved, account, gift))
  BY <1>4, <1>6, AccountsStep
<1> QED
  BY <1>7, <1>8

LEMMA Burning ==
    ASSUME IInv, NEW c \in Chain, NEW from \in Account, from # Escrow,
           NEW denom \in Denom, NEW amount \in Nat,
           ~ burn(balances[c], from, denom, amount).reverted,
           balances' = [balances EXCEPT ![c] =
                          burn(balances[c], from, denom, amount).balances],
           UNCHANGED <<wallets, gifts>>
    PROVE  /\ AccountsMoved(c, denom, - amount, 0)
           /\ amount <= Supply(c, denom)
<1>1. PICK r : r = burn(balances[c], from, denom, amount).balances
  OBVIOUS
<1>2. balances' = [balances EXCEPT ![c] = r]
  BY <1>1
<1>3. /\ SameBut(r, balances[c], denom)
      /\ SumFunction(r[denom]) = SumFunction(balances[c][denom]) - amount
      /\ balances[c][denom][from] >= amount
      /\ \A a \in Account : r[denom][a] =
           balances[c][denom][a] - (IF a = from THEN amount ELSE 0)
  BY <1>1, BanksOK, BurnedFrom
<1>4. TypeOK /\ Escrow \in Account
  BY DEF IInv, Account
<1>5. /\ balances[c][denom] \in [Account -> Nat]
      /\ SumFunction(balances[c][denom]) \in Nat
      /\ balances[c][denom][from] <= SumFunction(balances[c][denom])
  BY <1>4, BalancesSum DEF TypeOK
<1>6. PICK less \in Int : less = - amount
  OBVIOUS
<1>7. Holding(r, c, denom, less, 0)
  <2>1. SumFunction(r[denom]) = SumFunction(balances[c][denom]) + less
    BY <1>3, <1>5, <1>6
  <2>2. r[denom][Escrow] = balances[c][denom][Escrow] + 0
    BY <1>3, <1>4, <1>5
  <2> QED
    BY <1>2, <1>3, <2>1, <2>2 DEF Holding
<1>8. GiftsChanged(c, from, denom, 0)
  BY <1>4, NothingGiven
<1>9. 0 \in Nat /\ 0 \in Int /\ 0 = ungiven(0, from, 0)
  BY DEF ungiven
<1>10. AccountsMoved(c, denom, - amount, 0)
  BY <1>4, <1>6, <1>7, <1>8, <1>9, AccountsStep
<1>11. amount <= Supply(c, denom)
  BY <1>3, <1>4, <1>5 DEF Supply
<1> QED
  BY <1>10, <1>11

\* What left over e and goes back is a voucher of that channel, and what it is
\* a voucher of left over the other end.
LEMMA GoesBack ==
    ASSUME NEW e \in Endpoint, NEW denom \in Denom,
           startsWith(denom, channelOf(e)), cameOver(e, denom)
    PROVE  /\ Peer[e] \in Endpoint /\ beyond(denom) \in Denom
           /\ ~ startsWith(beyond(denom), channelOf(Peer[e]))
           /\ denom = prefixed(channelOf(Peer[Peer[e]]), beyond(denom))
           /\ Peer[Peer[e]] = e
BY Ends, BeyondDenom DEF cameOver

LEMMA SendTransferStep ==
    ASSUME IInv, NEW c \in Chain, NEW user \in User, NEW denom \in Denom,
           NEW amount \in Nat, NEW receiver \in Account, NEW channel \in ChannelId,
           NEW timeout \in Nat,
           SendTransfer(c, user, denom, amount, receiver, channel, timeout)
    PROVE  IInv'
<1>1. PICK e \in Endpoint : e = <<c, channel>>
  BY TransferAssumption
<1>2. PICK message : message = [denom |-> denom, amount |-> amount,
                                sender |-> user, receiver |-> receiver,
                                timeout |-> timeout]
  OBVIOUS
<1>3. /\ message \in Transfer /\ message.denom = denom /\ message.amount = amount
      /\ chainOf(e) = c /\ channelOf(e) = channel
      /\ user \in Account /\ user # Escrow /\ Escrow \in Account
  BY <1>1, <1>2, AccountAssumption DEF Transfer, chainOf, channelOf, Account
<1>4. /\ Len(sent[e]) < MaxSends /\ Send(e, message)
      /\ UNCHANGED <<wallets, gifts, outside>>
      /\ startsWith(denom, channel) \/ Len(denom.trace) < MaxTrace
  BY <1>1, <1>2 DEF SendTransfer
<1>5. /\ TypeOK /\ DeliveryInv /\ Supply(c, denom) \in Nat
  BY AmountTypes DEF IInv, AmountsTyped
<1>6. FlightMoved(e, denom, amount)
  BY <1>3, <1>4, <1>5, SendAmounts DEF FlightMoved
<1>7. CASE ~ startsWith(denom, channel)
  <2>1. PICK v : v = prefixed(channelOf(Peer[e]), denom)
    OBVIOUS
  <2>2. v \in Denom /\ ~ startsWith(denom, channelOf(e))
    BY <1>3, <1>4, <1>7, <2>1, Ends, PrefixedDenom
  <2>3. DeliveryInv'
    BY <1>3, <1>4, <1>5, <2>1, <2>2, SendDelivery
  <2>4. /\ ~ transferFrom(balances[c], user, Escrow, denom, amount).reverted
        /\ balances' = [balances EXCEPT ![c] =
                          transferFrom(balances[c], user, Escrow, denom, amount).balances]
    BY <1>7 DEF SendTransfer
  <2>5. GiftsChanged(c, user, denom, 0)
    BY <1>4, <1>5, NothingGiven
  <2>6. AccountsMoved(c, denom, 0, amount)
    <3>1. amount = ungiven(escrowedOf(user, Escrow, amount), user, 0)
      BY <1>3 DEF ungiven, escrowedOf
    <3>2. 0 \in Nat /\ amount \in Int
      OBVIOUS
    <3> QED
      BY <1>3, <1>4, <2>4, <2>5, <3>1, <3>2, Transferred
  <2>7. amount \in Int /\ AccountsMoved(chainOf(e), denom, 0, amount)
    BY <1>3, <2>6
  <2> QED
    BY <1>4, <1>6, <2>1, <2>2, <2>3, <2>7, EscrowStep
<1>8. CASE startsWith(denom, channel)
  <2>1. /\ ~ burn(balances[c], user, denom, amount).reverted
        /\ balances' = [balances EXCEPT ![c] =
                          burn(balances[c], user, denom, amount).balances]
    BY <1>8 DEF SendTransfer
  <2>2. AccountsMoved(c, denom, - amount, 0) /\ amount <= Supply(c, denom)
    BY <1>3, <1>4, <2>1, Burning
  <2>3. amount # 0 => cameOver(e, denom)
    <3>1. ASSUME amount # 0 PROVE Supply(c, denom) # 0
      BY <1>5, <2>2, <3>1
    <3> QED
      BY <1>1, <1>8, <3>1 DEF IInv, AccountInv, VouchersCameOver
  <2>4. DeliveryInv'
    BY <1>3, <1>4, <1>5, <1>8, <2>3, SendDelivery
  <2>5. CASE amount = 0
    <3>1. AccountsMoved(c, denom, 0, 0) /\ FlightMoved(e, denom, 0)
      <4>1. PICK less \in Int : less = - amount /\ less = 0
        BY <2>5
      <4>2. AccountsMoved(c, denom, less, 0)
        BY <2>2, <4>1
      <4> QED
        BY <1>6, <2>5, <4>1, <4>2
    <3> QED
      BY <1>4, <2>4, <3>1, NothingStep
  <2>6. CASE amount # 0
    <3>1. PICK f \in Endpoint, x \in Denom :
            /\ f = Peer[e] /\ Peer[f] = e /\ x = beyond(denom)
            /\ ~ startsWith(x, channelOf(f)) /\ denom = prefixed(channelOf(Peer[f]), x)
      BY <1>3, <1>8, <2>3, <2>6, GoesBack
    <3>2. PICK burnt \in Int : burnt = - amount /\ amount = - burnt
      OBVIOUS
    <3>3. Supply(chainOf(Peer[f]), denom) + burnt < UINT256
      <4>1. Supply(c, denom) < UINT256 /\ UINT256 \in Nat
        BY BoundAssumption DEF IInv, AccountInv, SupplyBounded
      <4> QED
        BY <1>3, <1>5, <3>1, <3>2, <4>1
    <3>4. AccountsMoved(chainOf(Peer[f]), denom, burnt, 0)
      BY <1>3, <2>2, <3>1, <3>2
    <3>5. FlightMoved(Peer[f], denom, - burnt)
      BY <1>6, <3>1, <3>2
    <3> QED
      BY <1>4, <2>4, <3>1, <3>3, <3>4, <3>5, VoucherStep
  <2> QED
    BY <2>5, <2>6
<1> QED
  BY <1>7, <1>8

LEMMA FailureSuccess == Failure # Success
BY DEF Failure, Success

\* The callback moves the tokens and answers with success, ...
LEMMA ReceivedStep ==
    ASSUME IInv, outside = 0, NEW e \in Endpoint, NEW n \in Number,
           NEW source, source = channelOf(Peer[e]),
           NEW data, data = sent[Peer[e]][n], n \in DOMAIN sent[Peer[e]],
           ~ movedFor(e, source, data).reverted, Deliver(e, n, Success),
           balances' = [balances EXCEPT ![chainOf(e)] = movedFor(e, source, data).balances],
           give(chainOf(e), data.receiver, receivedAs(e, source, data), data.amount),
           UNCHANGED <<wallets, outside>>
    PROVE  IInv'
<1>1. PICK f \in Endpoint, c \in Chain :
        /\ f = Peer[e] /\ Peer[f] = e /\ c = chainOf(e)
        /\ channelOf(e) \in ChannelId /\ channelOf(f) \in ChannelId
  BY Ends
<1>2. PICK denom, amount, receiver :
        denom = data.denom /\ amount = data.amount /\ receiver = data.receiver
  OBVIOUS
<1>3. /\ TypeOK /\ DeliveryInv /\ AmountsTyped
      /\ denom \in Denom /\ amount \in Nat /\ receiver \in Account
      /\ Escrow \in Account /\ Success \in Answer
  <2>1. data \in Transfer
    BY <1>1 DEF IInv, DeliveryInv, DeliveryTypeOK
  <2> QED
    BY <1>2, <2>1, AmountTypes, TransferAssumption DEF IInv, Transfer, Account
<1>4. DeliveryInv' /\ amount <= AmountInFlight(f, denom)
  BY <1>1, <1>2, <1>3, DeliverDelivery, DeliverAmounts
<1>5. PICK moved \in Int : moved = - amount /\ (amount = 0 => moved = 0)
  BY <1>3
<1>6. FlightMoved(f, denom, moved)
  <2>1. \A g \in Endpoint : \A x :
          AmountInFlight(g, x)' = AmountInFlight(g, x)
            - (IF g = f /\ x = denom THEN amount ELSE 0)
    BY <1>1, <1>2, <1>3, DeliverAmounts
  <2>2. \A g \in Endpoint, x \in Denom : AmountInFlight(g, x) \in Nat
    BY <1>3, FlightSum
  <2> QED
    BY <1>3, <1>5, <2>1, <2>2 DEF FlightMoved
<1>7. CASE startsWith(denom, channelOf(f))
  <2>1. PICK x : x = beyond(denom)
    OBVIOUS
  <2>2. x \in Denom
    BY <1>3, <1>7, <2>1, BeyondDenom
  <2>3. movedFor(e, source, data) = transferFrom(balances[c], Escrow, receiver, x, amount)
    BY <1>1, <1>2, <1>7, <2>1 DEF movedFor, receivedAs
  <2>4. GiftsChanged(c, receiver, x, amount)
    <3>1. give(c, receiver, x, amount)
      BY <1>1, <1>2, <1>7, <2>1 DEF receivedAs
    <3> QED
      BY <1>3, <2>2, <3>1, Given
  <2>6. AccountsMoved(c, x, 0, moved)
    <3>1. moved = ungiven(escrowedOf(Escrow, receiver, amount), receiver, amount)
      BY <1>3, <1>5 DEF ungiven, escrowedOf
    <3>2. /\ ~ transferFrom(balances[c], Escrow, receiver, x, amount).reverted
          /\ balances' = [balances EXCEPT ![c] =
                            transferFrom(balances[c], Escrow, receiver, x, amount).balances]
      BY <1>1, <2>3
    <3> QED
      BY <1>3, <2>2, <2>4, <3>1, <3>2, Transferred
  <2>7. CASE amount = 0
    <3>1. AccountsMoved(c, x, 0, 0) /\ FlightMoved(f, denom, 0)
      <4>1. moved = 0 /\ FlightMoved(f, denom, moved)
        BY <1>5, <1>6, <2>7
      <4> QED
        BY <2>6, <4>1
    <3> QED
      BY <1>4, <3>1, NothingStep
  <2>8. CASE amount # 0
    <3>1. cameOver(f, denom)
      BY <1>1, <1>2, <1>7, <2>8 DEF IInv, DeliveryInv, SentCanArrive
    <3>2. ~ startsWith(x, channelOf(e)) /\ denom = prefixed(channelOf(Peer[e]), x)
      BY <1>1, <1>3, <1>7, <2>1, <3>1, GoesBack
    <3>3. AccountsMoved(chainOf(e), x, 0, moved) /\ FlightMoved(Peer[e], denom, moved)
      BY <1>1, <1>6, <2>6
    <3> QED
      BY <1>3, <1>4, <2>2, <3>2, <3>3, EscrowStep
  <2> QED
    BY <2>7, <2>8
<1>8. CASE ~ startsWith(denom, channelOf(f))
  <2>1. PICK x : x = prefixed(channelOf(e), denom)
    OBVIOUS
  <2>2. x \in Denom
    BY <1>1, <1>2, <1>8, <2>1 DEF IInv, DeliveryInv, SentCanArrive
  <2>3. movedFor(e, source, data) = mint(balances[c], receiver, x, amount)
    BY <1>1, <1>2, <1>8, <2>1 DEF movedFor, receivedAs
  <2>4. GiftsChanged(c, receiver, x, amount)
    <3>1. give(c, receiver, x, amount)
      BY <1>1, <1>2, <1>8, <2>1 DEF receivedAs
    <3> QED
      BY <1>3, <2>2, <3>1, Given
  <2>5. Supply(c, x) + amount < UINT256
    <3>1. /\ AmountInFlight(f, denom) \in Nat /\ AmountInFlight(e, x) \in Nat
          /\ Supply(c, x) \in Nat
          /\ AmountInFlight(f, denom) + AmountInFlight(e, x) + Supply(c, x) < UINT256
      BY <1>1, <1>3, <1>8, <2>1, <2>2, FlightCovered
    <3>2. UINT256 \in Nat
      BY BoundAssumption
    <3> QED
      BY <1>3, <1>4, <3>1, <3>2
  <2>6. AccountsMoved(chainOf(Peer[f]), x, amount, 0)
    <3>1. balances' = [balances EXCEPT ![c] =
                         mint(balances[c], receiver, x, amount).balances]
      BY <1>1, <2>3
    <3>2. AccountsMoved(c, x, amount, 0)
      BY <1>3, <2>2, <2>4, <2>5, <3>1, Minting
    <3> QED
      BY <1>1, <3>2
  <2>7. Supply(chainOf(Peer[f]), x) + amount < UINT256 /\ amount \in Int
    BY <1>1, <1>3, <2>5
  <2>8. FlightMoved(f, denom, - amount)
    BY <1>5, <1>6
  <2> QED
    BY <1>1, <1>3, <1>4, <1>8, <2>1, <2>2, <2>6, <2>7, <2>8, VoucherStep
<1> QED
  BY <1>7, <1>8

\* ... or the bank reverts, and it answers with failure.
LEMMA RefusedStep ==
    ASSUME IInv, NEW e \in Endpoint, NEW n \in Number, Deliver(e, n, Failure),
           UNCHANGED <<balances, gifts, wallets, outside>>
    PROVE  IInv'
<1>1. TypeOK /\ DeliveryInv /\ Failure \in Answer
  BY TransferAssumption DEF IInv
<1>2. DeliveryInv' /\ TypeOK'
  BY <1>1, DeliverDelivery DEF TypeOK
<1>3. \A f \in Endpoint, x \in Denom : AmountInFlight(f, x)' = AmountInFlight(f, x)
  <2>1. \A f \in Endpoint, x \in Denom : AmountInFlight(f, x)' = AmountInFlight(f, x) - 0
    BY <1>1, DeliverAmounts, FailureSuccess
  <2>2. \A f \in Endpoint, x \in Denom : AmountInFlight(f, x) \in Nat
    BY <1>1, FlightSum
  <2> QED
    BY <2>1, <2>2
<1>4. \A c \in Chain, x \in Denom : Supply(c, x)' = Supply(c, x)
  BY DEF Supply
<1>5. \A c \in Chain, x \in Denom :
        balances'[c][x][Escrow] - gifts'[c][x] = balances[c][x][Escrow] - gifts[c][x]
  OBVIOUS
<1> QED
  BY <1>2, <1>3, <1>4, <1>5, QuietStep

LEMMA OnRecvPacketStep ==
    ASSUME IInv, outside = 0, NEW e \in Endpoint, NEW n \in Number, OnRecvPacket(e, n)
    PROVE  IInv'
<1>1. PICK data, source, result :
        /\ data = sent[Peer[e]][n] /\ source = channelOf(Peer[e])
        /\ result = movedFor(e, source, data)
  OBVIOUS
<1>2. /\ n \in DOMAIN sent[Peer[e]] /\ Deliver(e, n, answerTo(result))
      /\ UNCHANGED <<wallets, outside>>
      /\ IF result.reverted THEN UNCHANGED <<balances, gifts>>
         ELSE /\ balances' = [balances EXCEPT ![chainOf(e)] = result.balances]
              /\ give(chainOf(e), data.receiver, receivedAs(e, source, data), data.amount)
  BY <1>1 DEF OnRecvPacket
<1>3. CASE result.reverted
  BY <1>2, <1>3, RefusedStep DEF answerTo
<1>4. CASE ~ result.reverted
  <2>1. Deliver(e, n, Success)
    BY <1>2, <1>4 DEF answerTo
  <2> QED
    BY <1>1, <1>2, <1>4, <2>1, ReceivedStep
<1> QED
  BY <1>3, <1>4

\* Heard of a failure, the sender is refunded.
LEMMA RefundStep ==
    ASSUME IInv, outside = 0, NEW e \in Endpoint, NEW n \in Number, Acknowledge(e, n),
           answers[Peer[e]][n] = Failure,
           NEW data, data = sent[e][n], n \in DOMAIN sent[e],
           ~ refundTokens(e, data).reverted,
           balances' = [balances EXCEPT ![chainOf(e)] = refundTokens(e, data).balances],
           UNCHANGED <<wallets, gifts, outside>>
    PROVE  IInv'
<1>1. PICK f \in Endpoint, c \in Chain :
        /\ f = Peer[e] /\ Peer[f] = e /\ c = chainOf(e)
        /\ channelOf(e) \in ChannelId /\ channelOf(f) \in ChannelId
  BY Ends
<1>2. PICK denom, amount, sender :
        denom = data.denom /\ amount = data.amount /\ sender = data.sender
  OBVIOUS
<1>3. /\ TypeOK /\ DeliveryInv
      /\ denom \in Denom /\ amount \in Nat /\ sender \in Account /\ sender # Escrow
      /\ Escrow \in Account
  <2>1. data \in Transfer
    BY DEF IInv, DeliveryInv, DeliveryTypeOK
  <2> QED
    BY <1>2, <2>1, AccountAssumption DEF IInv, Transfer, Account
<1>4. DeliveryInv' /\ amount <= AmountInFlight(e, denom)
  BY <1>1, <1>2, <1>3, AcknowledgeDelivery, AcknowledgeAmounts
<1>5. PICK moved \in Int : moved = - amount /\ (amount = 0 => moved = 0)
  BY <1>3
<1>6. FlightMoved(e, denom, moved)
  <2>1. \A g \in Endpoint : \A x :
          AmountInFlight(g, x)' = AmountInFlight(g, x)
            - (IF g = e /\ x = denom THEN amount ELSE 0)
    BY <1>1, <1>2, <1>3, AcknowledgeAmounts
  <2>2. \A g \in Endpoint, x \in Denom : AmountInFlight(g, x) \in Nat
    BY <1>3, FlightSum
  <2> QED
    BY <1>3, <1>5, <2>1, <2>2 DEF FlightMoved
<1>7. CASE startsWith(denom, channelOf(e))
  <2>1. balances' = [balances EXCEPT ![c] =
                       mint(balances[c], sender, denom, amount).balances]
    BY <1>1, <1>2, <1>7 DEF refundTokens
  <2>2. GiftsChanged(c, sender, denom, 0)
    BY <1>3, NothingGiven
  <2>3. ASSUME Supply(c, denom) + amount < UINT256
        PROVE  AccountsMoved(c, denom, amount, 0)
    <3>1. /\ (IF sender = Escrow THEN 0 ELSE 0) = (IF sender = Escrow THEN amount ELSE 0)
          /\ 0 \in Nat
      BY <1>3
    <3> QED
      BY <1>3, <2>1, <2>2, <2>3, <3>1, Minting
  <2>4. UINT256 \in Nat /\ Supply(c, denom) \in Nat /\ Supply(c, denom) < UINT256
    BY <1>3, BoundAssumption, AmountTypes
    DEF IInv, AccountInv, SupplyBounded, AmountsTyped
  <2>5. CASE amount = 0
    <3>1. Supply(c, denom) + amount < UINT256
      BY <2>4, <2>5
    <3>2. AccountsMoved(c, denom, 0, 0) /\ FlightMoved(e, denom, 0)
      <4>1. AccountsMoved(c, denom, amount, 0)
        BY <2>3, <3>1
      <4> QED
        BY <1>5, <1>6, <2>5, <4>1
    <3> QED
      BY <1>4, <3>2, NothingStep
  <2>6. CASE amount # 0
    <3>1. cameOver(e, denom)
      BY <1>1, <1>2, <1>7, <2>6 DEF IInv, DeliveryInv, SentCanArrive
    <3>2. PICK x \in Denom :
            /\ x = beyond(denom) /\ ~ startsWith(x, channelOf(f))
            /\ denom = prefixed(channelOf(Peer[f]), x)
      BY <1>1, <1>3, <1>7, <3>1, GoesBack
    <3>3. Supply(c, denom) + amount < UINT256
      <4>1. /\ AmountInFlight(f, x) \in Nat /\ AmountInFlight(e, denom) \in Nat
            /\ AmountInFlight(f, x) + AmountInFlight(e, denom) + Supply(c, denom)
                 < UINT256
        BY <1>1, <1>3, <3>2, FlightCovered
      <4> QED
        BY <1>3, <1>4, <2>4, <4>1
    <3>4. AccountsMoved(chainOf(Peer[f]), denom, amount, 0)
      BY <1>1, <2>3, <3>3
    <3>5. FlightMoved(Peer[f], denom, - amount)
      BY <1>1, <1>5, <1>6
    <3>6. Supply(chainOf(Peer[f]), denom) + amount < UINT256 /\ amount \in Int
      BY <1>1, <1>3, <3>3
    <3> QED
      BY <1>3, <1>4, <3>2, <3>4, <3>5, <3>6, VoucherStep
  <2> QED
    BY <2>5, <2>6
<1>8. CASE ~ startsWith(denom, channelOf(e))
  <2>1. PICK v : v = prefixed(channelOf(Peer[e]), denom)
    OBVIOUS
  <2>2. v \in Denom
    BY <1>1, <1>2, <1>8, <2>1 DEF IInv, DeliveryInv, SentCanArrive
  <2>3. /\ ~ transferFrom(balances[c], Escrow, sender, denom, amount).reverted
        /\ balances' = [balances EXCEPT ![c] =
                          transferFrom(balances[c], Escrow, sender, denom, amount).balances]
    BY <1>1, <1>2, <1>8 DEF refundTokens
  <2>4. GiftsChanged(c, sender, denom, 0)
    BY <1>3, NothingGiven
  <2>5. AccountsMoved(c, denom, 0, moved)
    <3>1. moved = ungiven(escrowedOf(Escrow, sender, amount), sender, 0) /\ 0 \in Nat
      BY <1>3, <1>5 DEF ungiven, escrowedOf
    <3> QED
      BY <1>3, <2>3, <2>4, <3>1, Transferred
  <2>6. AccountsMoved(chainOf(e), denom, 0, moved)
    BY <1>1, <2>5
  <2> QED
    BY <1>3, <1>4, <1>6, <1>8, <2>1, <2>2, <2>6, EscrowStep
<1> QED
  BY <1>7, <1>8

LEMMA SucceededStep ==
    ASSUME IInv, NEW e \in Endpoint, NEW n \in Number, Acknowledge(e, n),
           answers[Peer[e]][n] = Success, UNCHANGED <<balances, wallets, gifts, outside>>
    PROVE  IInv'
<1>1. TypeOK /\ DeliveryInv
  BY DEF IInv
<1>2. DeliveryInv' /\ TypeOK'
  BY <1>1, AcknowledgeDelivery DEF TypeOK
<1>3. \A f \in Endpoint, x \in Denom : AmountInFlight(f, x)' = AmountInFlight(f, x)
  <2>1. \A f \in Endpoint, x \in Denom : AmountInFlight(f, x)' = AmountInFlight(f, x) - 0
    BY <1>1, AcknowledgeAmounts, FailureSuccess
  <2>2. \A f \in Endpoint, x \in Denom : AmountInFlight(f, x) \in Nat
    BY <1>1, FlightSum
  <2> QED
    BY <2>1, <2>2
<1>4. \A c \in Chain, x \in Denom : Supply(c, x)' = Supply(c, x)
  BY DEF Supply
<1>5. \A c \in Chain, x \in Denom :
        balances'[c][x][Escrow] - gifts'[c][x] = balances[c][x][Escrow] - gifts[c][x]
  OBVIOUS
<1> QED
  BY <1>2, <1>3, <1>4, <1>5, QuietStep

LEMMA OnAcknowledgementPacketStep ==
    ASSUME IInv, outside = 0, NEW e \in Endpoint, NEW n \in Number,
           OnAcknowledgementPacket(e, n)
    PROVE  IInv'
<1>1. Acknowledge(e, n) /\ UNCHANGED <<wallets, gifts, outside>>
  BY DEF OnAcknowledgementPacket
<1>2. n \in DOMAIN sent[e] /\ answers[Peer[e]][n] # None
  BY <1>1 DEF Acknowledge
<1>3. answers[Peer[e]][n] \in {Success, Failure}
  <2>1. answers[Peer[e]][n] \in Answer \cup {None}
    BY Ends DEF IInv, DeliveryInv, DeliveryTypeOK
  <2> QED
    BY <1>2, <2>1, TransferAssumption
<1>4. CASE answers[Peer[e]][n] = Failure
  <2>1. PICK data : data = sent[e][n]
    OBVIOUS
  <2>2. /\ ~ refundTokens(e, data).reverted
        /\ balances' = [balances EXCEPT ![chainOf(e)] = refundTokens(e, data).balances]
    BY <1>4, <2>1, FailureSuccess DEF OnAcknowledgementPacket, isFailure
  <2> QED
    BY <1>1, <1>2, <1>4, <2>1, <2>2, RefundStep
<1>5. CASE answers[Peer[e]][n] = Success
  <2>1. UNCHANGED balances
    BY <1>5 DEF OnAcknowledgementPacket, isFailure
  <2> QED
    BY <1>1, <1>5, <2>1, SucceededStep
<1> QED
  BY <1>3, <1>4, <1>5

-----------------------------------------------------------------------------
(* The first state                                                         *)

\* The users of a chain own what was minted.
LEMMA WalletsInit ==
    ASSUME NEW m \in Nat, NEW g, g = [a \in Account |-> IF a \in User THEN m ELSE 0]
    PROVE  SumFunction(g) = m * Cardinality(User)
<1> DEFINE Bad == {s \in SUBSET Account : SumOver(g, s) # m * Cardinality(s \cap User)}
<1>1. Bad = {}
  <2>1. SUFFICES ASSUME Bad # {} PROVE FALSE
    OBVIOUS
  <2>2. PICK t \in Bad : \A u \in Bad : u \subseteq t => u = t
    <3>1. Bad \in SUBSET (SUBSET Account)
      OBVIOUS
    <3> HIDE DEF Bad
    <3> QED
      BY <2>1, <3>1, AccountsFinite, SetMin
  <2>3. t \in SUBSET Account /\ SumOver(g, t) # m * Cardinality(t \cap User)
    OBVIOUS
  <2>4. t # {}
    <3>1. SUFFICES ASSUME t = {} PROVE FALSE
      OBVIOUS
    <3>2. SumOver(g, t) = 0 /\ t \cap User = {} /\ Cardinality({}) = 0
      BY <3>1, SumEmpty, FS_EmptySet
    <3> QED
      BY <2>3, <3>2
  <2>5. PICK x \in t : TRUE
    BY <2>4
  <2>6. t \ {x} \notin Bad /\ t \ {x} \in SUBSET Account
    BY <2>2, <2>3, <2>5
  <2>7. SumOver(g, t \ {x}) = m * Cardinality((t \ {x}) \cap User)
    BY <2>6
  <2>8. IsFiniteSet(t) /\ IsFiniteSet(t \cap User) /\ \A y \in t : g[y] \in Int
    BY <2>3, AccountsFinite, FS_Subset, FS_Intersection
  <2>9. g[x] = IF x \in User THEN m ELSE 0
    BY <2>3, <2>5
  <2> HIDE DEF Bad
  <2>10. SumOver(g, t) = g[x] + SumOver(g, t \ {x})
    BY <2>5, <2>8, SumWithout
  <2>11. PICK k \in Nat : k = Cardinality(t \cap User)
    BY <2>8, FS_CardinalityType
  <2>12. CASE x \in User
    <3>1. (t \ {x}) \cap User = (t \cap User) \ {x} /\ x \in t \cap User
      BY <2>5, <2>12
    <3>2. Cardinality((t \cap User) \ {x}) = k - 1
      BY <2>8, <2>11, <3>1, FS_RemoveElement
    <3>3. SumOver(g, t) = m + m * (k - 1)
      BY <2>7, <2>9, <2>10, <2>12, <3>1, <3>2
    <3>4. m + m * (k - 1) = m * k
      BY SMT
    <3> QED
      BY <2>3, <2>11, <3>3, <3>4
  <2>13. CASE x \notin User
    <3>1. (t \ {x}) \cap User = t \cap User
      BY <2>13
    <3>2. m * k \in Nat
      OBVIOUS
    <3>3. SumOver(g, t) = 0 + m * k
      BY <2>7, <2>9, <2>10, <2>11, <2>13, <3>1
    <3> QED
      BY <2>3, <2>11, <3>2, <3>3
  <2> QED
    BY <2>12, <2>13
<1>2. Account \cap User = User /\ DOMAIN g = Account
  BY DEF Account
<1>3. SumOver(g, Account) = m * Cardinality(Account \cap User)
  BY <1>1
<1> QED
  BY <1>2, <1>3, SumFunctionIs

LEMMA ZerosSum ==
    ASSUME NEW S, IsFiniteSet(S), NEW g, DOMAIN g = S, \A x \in S : g[x] = 0
    PROVE  SumFunction(g) = 0
BY SumNothing, SumFunctionIs

LEMMA InitIInv == Init => IInv
<1> SUFFICES ASSUME Init PROVE IInv
  OBVIOUS
<1>1. /\ balances = [c \in Chain |-> [denom \in Denom |-> [a \in Account |-> 0]]]
      /\ wallets = [c \in Chain |-> [token \in Token |->
                      [a \in Account |-> IF a \in User THEN Minted[c] ELSE 0]]]
      /\ gifts = [c \in Chain |-> [denom \in Denom |-> 0]]
  BY DEF Init, BankInit
<1>2. /\ sent = [e \in Endpoint |-> <<>>]
      /\ received = [e \in Endpoint |-> <<>>]
      /\ answers = [e \in Endpoint |-> [n \in Number |-> None]]
      /\ acked = [e \in Endpoint |-> <<>>]
  BY DEF Init, DeliveryInit
<1>3. Minted \in [Chain -> Nat] /\ UINT256 \in Nat /\ Cardinality(User) \in Nat
  BY SupplyAssumption, BoundAssumption, AccountAssumption, FS_CardinalityType
<1>4. TypeOK
  BY <1>1, <1>3 DEF TypeOK
<1>5. \A e \in Endpoint : \A n : ~ Delivered(e, n) /\ ~ Acked(e, n)
  BY <1>2 DEF Delivered, Acked
<1>6. DeliveryInv
  <2>1. \A e \in Endpoint : Len(sent[e]) <= MaxSends
    BY <1>2, TransferAssumption
  <2>2. DeliveryTypeOK
    BY <1>2, <2>1 DEF DeliveryTypeOK
  <2>3. DeliveredWereSent /\ AnsweredWereDelivered /\ AckedWereAnswered
    BY <1>2, <1>5 DEF DeliveredWereSent, AnsweredWereDelivered, AckedWereAnswered
  <2>4. SentCanArrive
    BY <1>2 DEF SentCanArrive
  <2> QED
    BY <2>2, <2>3, <2>4 DEF DeliveryInv
<1>7. \A c \in Chain, denom \in Denom : Supply(c, denom) = 0
  <2> SUFFICES ASSUME NEW c \in Chain, NEW denom \in Denom
               PROVE  Supply(c, denom) = 0
    OBVIOUS
  <2>1. DOMAIN balances[c][denom] = Account /\ \A a \in Account : balances[c][denom][a] = 0
    BY <1>1
  <2> QED
    BY <2>1, AccountsFinite, ZerosSum DEF Supply
<1>8. \A c \in Chain, token \in Token :
        SumFunction(wallets[c][token]) < UINT256 /\ 0 < UINT256
  <2> SUFFICES ASSUME NEW c \in Chain, NEW token \in Token
               PROVE  SumFunction(wallets[c][token]) < UINT256 /\ 0 < UINT256
    OBVIOUS
  <2>1. wallets[c][token] = [a \in Account |-> IF a \in User THEN Minted[c] ELSE 0]
    BY <1>1
  <2>2. Minted[c] \in Nat
    BY <1>3
  <2>3. SumFunction(wallets[c][token]) = Minted[c] * Cardinality(User)
    BY <2>1, <2>2, WalletsInit
  <2>4. Minted[c] * Cardinality(User) \in Nat
    BY <1>3, <2>2
  <2>5. Minted[c] * Cardinality(User) < UINT256
    BY SupplyAssumption
  <2> QED
    BY <1>3, <2>3, <2>4, <2>5
<1>9. SupplyBounded /\ WalletsBounded /\ VouchersCameOver
  <2>1. ASSUME NEW c \in Chain PROVE 0 < UINT256
    <3>1. Minted[c] * Cardinality(User) \in Nat /\ Minted[c] * Cardinality(User) < UINT256
      BY <1>3, SupplyAssumption
    <3> QED
      BY <1>3, <3>1
  <2> QED
    BY <1>7, <1>8, <2>1 DEF SupplyBounded, WalletsBounded, VouchersCameOver
<1>10. NativeBacked
  <2> SUFFICES ASSUME NEW c \in Chain, NEW token \in Token
               PROVE  Supply(c, native(token)) <= wallets[c][token][Bank]
    BY DEF NativeBacked
  <2>1. Bank \in Account /\ wallets[c][token][Bank] \in Nat
    BY <1>4 DEF Account, TypeOK
  <2> QED
    BY <1>7, <2>1, NativeDenom
<1>11. EscrowIsAbroad
  <2>1. \A e \in Endpoint, denom \in Denom : AmountInFlight(e, denom) = 0
    <3> SUFFICES ASSUME NEW e \in Endpoint, NEW denom \in Denom
                 PROVE  AmountInFlight(e, denom) = 0
      OBVIOUS
    <3> DEFINE amounts == [n \in Number |-> AmountOf(e, n, denom)]
    <3>1. DOMAIN amounts = Number /\ \A n \in Number : amounts[n] = 0
      BY <1>2 DEF AmountOf
    <3>2. IsFiniteSet(Number)
      BY TransferAssumption, FS_Interval
    <3> HIDE DEF amounts
    <3>3. SumFunction(amounts) = 0
      BY <3>1, <3>2, ZerosSum
    <3> QED
      BY <3>3 DEF AmountInFlight, amounts
  <2>2. EscrowHolds(Escrowed, gifts, InFlightOf, Supplied)
    <3> SUFFICES ASSUME NEW c \in Chain, NEW denom \in Denom
                 PROVE  Escrowed[c][denom] = gifts[c][denom]
                          + SumFunction(AllAbroad(InFlightOf, Supplied, c, denom))
      BY DEF EscrowHolds
    <3> DEFINE all == AllAbroad(InFlightOf, Supplied, c, denom)
    <3>1. \A e \in Endpoint, x \in Denom : AbroadIn(InFlightOf, Supplied, e, x) = 0
      <4>1. \A e \in Endpoint, x \in Denom : InFlightOf[e][x] = 0
        BY <2>1 DEF InFlightOf
      <4>2. \A k \in Chain, x \in Denom : Supplied[k][x] = 0
        BY <1>7 DEF Supplied
      <4> QED
        BY <4>1, <4>2, Ends DEF AbroadIn
    <3>2. DOMAIN all = Outbound(denom) /\ \A channel \in Outbound(denom) : all[channel] = 0
      BY <3>1, TransferAssumption DEF AllAbroad, Outbound
    <3>3. SumFunction(all) = 0
      <4> HIDE DEF all
      <4> QED
        BY <3>2, OutboundFinite, ZerosSum
    <3>4. Escrowed[c][denom] = 0 /\ gifts[c][denom] = 0
      BY <1>1 DEF Escrowed, Account
    <3> QED
      BY <3>3, <3>4
  <2> QED
    BY <2>2, EscrowAccountsAre
<1> QED
  BY <1>4, <1>6, <1>9, <1>10, <1>11 DEF IInv, AccountInv

-----------------------------------------------------------------------------
(* Every step                                                              *)

\* What a user may do with an amount and a receiver.
UserMoves(c, user, amount, receiver) ==
    \/ \E token \in Token :
         \/ /\ Deposit(c, user, token, amount, receiver)
            /\ give(c, receiver, native(token), amount)
            /\ UNCHANGED <<deliveryVars, height, outside>>
         \/ /\ Withdraw(c, user, token, amount, receiver)
            /\ UNCHANGED <<deliveryVars, height, gifts, outside>>
    \/ \E denom \in Denom :
         \/ /\ TransferFrom(c, user, receiver, denom, amount)
            /\ give(c, receiver, denom, amount)
            /\ UNCHANGED <<deliveryVars, height, outside>>
         \/ \E channel \in ChannelId, timeout \in Nat :
              SendTransfer(c, user, denom, amount, receiver, channel, timeout)

LEMMA UserChoices ==
    ASSUME NEW c \in Chain, NEW user \in User, UserNext(c, user)
    PROVE  \E amount \in Nat, receiver \in Account : UserMoves(c, user, amount, receiver)
<1>1. PICK amount \in Amount, receiver \in Receiver :
        \/ \E token \in Token :
             \/ /\ Deposit(c, user, token, amount, receiver)
                /\ give(c, receiver, native(token), amount)
                /\ UNCHANGED <<deliveryVars, height, outside>>
             \/ /\ Withdraw(c, user, token, amount, receiver)
                /\ UNCHANGED <<deliveryVars, height, gifts, outside>>
        \/ \E denom \in Denom :
             \/ /\ TransferFrom(c, user, receiver, denom, amount)
                /\ give(c, receiver, denom, amount)
                /\ UNCHANGED <<deliveryVars, height, outside>>
             \/ \E channel \in ChannelId : \E timeout \in TimeoutHeight[<<c, channel>>] :
                  SendTransfer(c, user, denom, amount, receiver, channel, timeout)
  BY DEF UserNext
<1>2. /\ amount \in Nat /\ receiver \in Account
      /\ \A channel \in ChannelId : TimeoutHeight[<<c, channel>>] \subseteq Nat
  BY TransferAssumption
<1>3. UserMoves(c, user, amount, receiver)
  BY <1>1, <1>2 DEF UserMoves
<1> QED
  BY <1>2, <1>3

LEMMA UserStep ==
    ASSUME IInv, NEW c \in Chain, NEW user \in User, UserNext(c, user)
    PROVE  IInv'
<1>1. PICK amount \in Nat, receiver \in Account : UserMoves(c, user, amount, receiver)
  BY UserChoices
<1>2. ASSUME NEW token \in Token, Deposit(c, user, token, amount, receiver),
             give(c, receiver, native(token), amount), UNCHANGED <<deliveryVars, outside>>
      PROVE  IInv'
  BY <1>2, DepositStep
<1>3. ASSUME NEW token \in Token, Withdraw(c, user, token, amount, receiver),
             UNCHANGED <<deliveryVars, gifts, outside>>
      PROVE  IInv'
  BY <1>3, WithdrawStep
<1>4. ASSUME NEW denom \in Denom, TransferFrom(c, user, receiver, denom, amount),
             give(c, receiver, denom, amount), UNCHANGED <<deliveryVars, outside>>
      PROVE  IInv'
  BY <1>4, TransferFromStep
<1>5. ASSUME NEW denom \in Denom, NEW channel \in ChannelId, NEW timeout \in Nat,
             SendTransfer(c, user, denom, amount, receiver, channel, timeout)
      PROVE  IInv'
  BY <1>5, SendTransferStep
<1> QED
  BY <1>1, <1>2, <1>3, <1>4, <1>5 DEF UserMoves

\* Blocks and stuttering.
LEMMA QuietIInv ==
    ASSUME IInv, UNCHANGED <<bankVars, gifts, deliveryVars, outside>>
    PROVE  IInv'
<1>1. UNCHANGED <<balances, wallets, gifts>>
  BY DEF bankVars
<1>2. TypeOK'
  BY <1>1 DEF IInv, TypeOK
<1>3. DeliveryInv' /\ \A f, x : AmountInFlight(f, x)' = AmountInFlight(f, x)
  BY DeliveryUnchanged DEF IInv
<1>4. \A c \in Chain, x \in Denom : Supply(c, x)' = Supply(c, x)
  BY <1>1 DEF Supply
<1>5. \A c \in Chain, x \in Denom :
        balances'[c][x][Escrow] - gifts'[c][x] = balances[c][x][Escrow] - gifts[c][x]
  BY <1>1
<1> QED
  BY <1>1, <1>2, <1>3, <1>4, <1>5, QuietStep

-----------------------------------------------------------------------------
(* Calls from outside: the bank stays backed                               *)

CountersTyped == height \in [Chain -> Nat] /\ outside \in Nat

\* What holds whoever calls the callbacks.
BackedInv == TypeOK /\ CountersTyped /\ DeliveryInv /\ WalletsBounded /\ NativeBacked

LEMMA Counting ==
    ASSUME NEW c \in Chain PROVE UINT256 \in Nat /\ UINT256 > 0
<1>1. Minted[c] \in Nat /\ Cardinality(User) \in Nat
  BY SupplyAssumption, AccountAssumption, FS_CardinalityType
<1>2. Minted[c] * Cardinality(User) \in Nat
  BY <1>1
<1> QED
  BY <1>2, BoundAssumption, SupplyAssumption

LEMMA OtherNative ==
    ASSUME NEW s \in Token, NEW t \in Token, s # t
    PROVE  native(s) \in Denom /\ native(s) # native(t)
BY NativeDenom DEF native

\* In BackedInv the sums of vouchers are not bounded; balances are numbers
\* even when they overflow.
LEMMA SameButMoved ==
    ASSUME NEW c \in Chain, NEW b, BankTyped(b), NEW from \in Account, NEW to \in Account,
           NEW denom \in Denom, NEW amount \in Nat,
           ~ transferFrom(b, from, to, denom, amount).reverted
    PROVE  SameBut(transferFrom(b, from, to, denom, amount).balances, b, denom)
<1> DEFINE t == [b[denom] EXCEPT ![from] = @ - amount]
           u == [t EXCEPT ![to] = (@ + amount) % UINT256]
<1>1. b \in [Denom -> [Account -> Nat]] /\ UINT256 \in Nat /\ UINT256 > 0
  BY Counting DEF BankTyped
<1>2. ~ (to = Zero \/ b[denom][from] < amount) /\ b[denom][from] \in Nat
  BY <1>1 DEF transferFrom, Reverts
<1>3. t \in [Account -> Nat]
  BY <1>1, <1>2
<1>4. u \in [Account -> Nat]
  <2>1. t[to] \in Nat /\ (t[to] + amount) % UINT256 \in Nat
    <3> HIDE DEF t
    <3> QED
      BY <1>1, <1>3
  <2> HIDE DEF t
  <2> QED
    BY <1>3, <2>1
<1>5. transferFrom(b, from, to, denom, amount).balances = [b EXCEPT ![denom] = u]
  <2>1. transferFrom(b, from, to, denom, amount).balances =
          [[b EXCEPT ![denom][from] = @ - amount]
              EXCEPT ![denom][to] = (@ + amount) % UINT256]
    BY <1>2 DEF transferFrom, Balances
  <2>2. [b EXCEPT ![denom][from] = @ - amount] = [b EXCEPT ![denom] = t]
    BY <1>1
  <2> HIDE DEF t
  <2>3. [b EXCEPT ![denom] = t][denom] = t
    BY <1>1
  <2> QED
    BY <1>1, <2>1, <2>2, <2>3
<1> HIDE DEF u
<1> QED
  BY <1>1, <1>4, <1>5 DEF SameBut

LEMMA SameButMinted ==
    ASSUME NEW c \in Chain, NEW b, BankTyped(b), NEW account \in Account,
           NEW denom \in Denom, NEW amount \in Nat
    PROVE  SameBut(mint(b, account, denom, amount).balances, b, denom)
<1> DEFINE u == [b[denom] EXCEPT ![account] = (@ + amount) % UINT256]
<1>1. b \in [Denom -> [Account -> Nat]] /\ UINT256 \in Nat /\ UINT256 > 0
  BY Counting DEF BankTyped
<1>2. u \in [Account -> Nat]
  <2>1. b[denom][account] \in Nat /\ (b[denom][account] + amount) % UINT256 \in Nat
    BY <1>1
  <2> QED
    BY <1>1, <2>1
<1>3. mint(b, account, denom, amount).balances = [b EXCEPT ![denom] = u]
  BY <1>1 DEF mint, Balances
<1> HIDE DEF u
<1> QED
  BY <1>1, <1>2, <1>3 DEF SameBut

LEMMA BackedBanks ==
    ASSUME BackedInv, NEW c \in Chain
    PROVE  /\ BankTyped(balances[c])
           /\ \A token \in Token : SumFunction(balances[c][native(token)]) < UINT256
<1>1. balances \in [Chain -> [Denom -> [Account -> Nat]]]
  BY DEF BackedInv, TypeOK
<1>2. ASSUME NEW token \in Token PROVE SumFunction(balances[c][native(token)]) < UINT256
  <2>1. /\ wallets[c][token] \in [Account -> Nat] /\ Bank \in Account
        /\ SumFunction(wallets[c][token]) < UINT256
    BY DEF BackedInv, TypeOK, WalletsBounded, Account
  <2>2. /\ wallets[c][token][Bank] <= SumFunction(wallets[c][token])
        /\ SumFunction(wallets[c][token]) \in Nat /\ wallets[c][token][Bank] \in Nat
    BY <2>1, BalancesSum
  <2>3. Supply(c, native(token)) <= wallets[c][token][Bank]
    BY DEF BackedInv, NativeBacked
  <2>4. balances[c][native(token)] \in [Account -> Nat]
    BY <1>1, NativeDenom
  <2>5. SumFunction(balances[c][native(token)]) \in Nat /\ UINT256 \in Nat
    BY <2>4, BalancesSum, BoundAssumption
  <2> QED
    BY <2>1, <2>2, <2>3, <2>5 DEF Supply
<1> QED
  BY <1>1, <1>2 DEF BankTyped

\* A step of the transfer application is backed when it makes no more of a
\* token of this chain.
LEMMA BackedStep ==
    ASSUME BackedInv, NEW c \in Chain, NEW denom \in Denom,
           NEW r, SameBut(r, balances[c], denom),
           balances' = [balances EXCEPT ![c] = r], UNCHANGED wallets,
           gifts' \in [Chain -> [Denom -> Nat]], CountersTyped', DeliveryInv',
           \A token \in Token : denom = native(token) =>
             SumFunction(r[denom]) <= SumFunction(balances[c][denom])
    PROVE  BackedInv'
<1>1. TypeOK
  BY DEF BackedInv
<1>2. BankChanged(c, denom, r)
  BY <1>1, BankChange
<1>3. TypeOK'
  BY <1>1, <1>2 DEF TypeOK, BankChanged
<1>4. WalletsBounded'
  BY DEF BackedInv, WalletsBounded
<1>5. NativeBacked'
  <2> SUFFICES ASSUME NEW k \in Chain, NEW token \in Token
               PROVE  Supply(k, native(token))' <= wallets[k][token][Bank]
    BY DEF NativeBacked
  <2>1. native(token) \in Denom /\ Supply(k, native(token)) <= wallets[k][token][Bank]
    BY NativeDenom DEF BackedInv, NativeBacked
  <2>2. CASE k = c /\ denom = native(token)
    <3>1. SumFunction(balances[c][denom]) <= wallets[c][token][Bank]
      BY <2>1, <2>2 DEF Supply
    <3>2. SumFunction(r[denom]) <= SumFunction(balances[c][denom])
      BY <2>2
    <3>3. r[denom] \in [Account -> Nat] /\ balances[c][denom] \in [Account -> Nat]
      BY <1>1 DEF SameBut, TypeOK
    <3>4. SumFunction(r[denom]) \in Nat /\ SumFunction(balances[c][denom]) \in Nat
      BY <3>3, BalancesSum
    <3>5. wallets[c][token][Bank] \in Nat
      BY <1>1 DEF TypeOK, Account
    <3> QED
      BY <1>2, <2>2, <3>1, <3>2, <3>4, <3>5 DEF BankChanged
  <2>3. CASE ~ (k = c /\ denom = native(token))
    BY <1>2, <2>1, <2>3 DEF BankChanged
  <2> QED
    BY <2>2, <2>3
<1> QED
  BY <1>3, <1>4, <1>5 DEF BackedInv

\* The three operations of the bank; only a voucher is minted.
LEMMA BackedTransfer ==
    ASSUME BackedInv, NEW c \in Chain, NEW from \in Account, NEW to \in Account,
           NEW denom \in Denom, NEW amount \in Nat,
           NEW result, result = transferFrom(balances[c], from, to, denom, amount),
           ~ result.reverted,
           balances' = [balances EXCEPT ![c] = result.balances], UNCHANGED wallets,
           gifts' \in [Chain -> [Denom -> Nat]], CountersTyped', DeliveryInv'
    PROVE  BackedInv'
<1>1. PICK r : r = result.balances
  OBVIOUS
<1>2. BankTyped(balances[c])
  BY BackedBanks
<1>3. SameBut(r, balances[c], denom)
  BY <1>1, <1>2, SameButMoved
<1>4. ASSUME NEW token \in Token, denom = native(token)
      PROVE  SumFunction(r[denom]) <= SumFunction(balances[c][denom])
  <2>1. SumFunction(balances[c][denom]) < UINT256
    BY <1>4, BackedBanks
  <2>2. SumFunction(r[denom]) = SumFunction(balances[c][denom])
    BY <1>1, <1>2, <2>1, Moved
  <2>3. SumFunction(balances[c][denom]) \in Nat
    BY <1>2, BalancesSum DEF BankTyped
  <2> QED
    BY <2>2, <2>3
<1>5. balances' = [balances EXCEPT ![c] = r]
  BY <1>1
<1> QED
  BY <1>3, <1>4, <1>5, BackedStep

LEMMA BackedMint ==
    ASSUME BackedInv, NEW c \in Chain, NEW account \in Account,
           NEW denom \in Denom, NEW amount \in Nat,
           NEW channel, startsWith(denom, channel),
           balances' = [balances EXCEPT ![c] =
                          mint(balances[c], account, denom, amount).balances],
           UNCHANGED wallets,
           gifts' \in [Chain -> [Denom -> Nat]], CountersTyped', DeliveryInv'
    PROVE  BackedInv'
<1>1. PICK r : r = mint(balances[c], account, denom, amount).balances
  OBVIOUS
<1>2. SameBut(r, balances[c], denom)
  BY <1>1, BackedBanks, SameButMinted
<1>3. \A token \in Token : denom # native(token)
  BY NativeDenom
<1>4. balances' = [balances EXCEPT ![c] = r]
  BY <1>1
<1>5. \A token \in Token : denom = native(token) =>
        SumFunction(r[denom]) <= SumFunction(balances[c][denom])
  BY <1>3
<1> QED
  BY <1>2, <1>4, <1>5, BackedStep

LEMMA BackedBurn ==
    ASSUME BackedInv, NEW c \in Chain, NEW account \in Account,
           NEW denom \in Denom, NEW amount \in Nat,
           NEW result, result = burn(balances[c], account, denom, amount),
           ~ result.reverted,
           balances' = [balances EXCEPT ![c] = result.balances], UNCHANGED wallets,
           gifts' \in [Chain -> [Denom -> Nat]], CountersTyped', DeliveryInv'
    PROVE  BackedInv'
<1>1. PICK r : r = result.balances
  OBVIOUS
<1>2. BankTyped(balances[c])
  BY BackedBanks
<1>3. /\ SameBut(r, balances[c], denom)
      /\ SumFunction(r[denom]) = SumFunction(balances[c][denom]) - amount
  BY <1>1, <1>2, BurnedFrom
<1>4. SumFunction(balances[c][denom]) \in Nat
  BY <1>2, BalancesSum DEF BankTyped
<1>5. SumFunction(r[denom]) <= SumFunction(balances[c][denom])
  BY <1>3, <1>4
<1>6. balances' = [balances EXCEPT ![c] = r]
  BY <1>1
<1> QED
  BY <1>3, <1>5, <1>6, BackedStep

\* A deposit makes tokens in the bank, one for each it takes.
LEMMA BackedDeposit ==
    ASSUME BackedInv, NEW c \in Chain, NEW user \in User, NEW token \in Token,
           NEW amount \in Nat, NEW receiver \in Account,
           Deposit(c, user, token, amount, receiver),
           gifts' \in [Chain -> [Denom -> Nat]], CountersTyped', DeliveryInv'
    PROVE  BackedInv'
<1>0. PICK denom : denom = native(token)
  OBVIOUS
<1>1. denom \in Denom /\ TypeOK
  BY <1>0, NativeDenom DEF BackedInv
<1>2. PICK r : r = mint(balances[c], receiver, denom, amount).balances
  OBVIOUS
<1>3. /\ wallets[c][token][user] >= amount
      /\ wallets' = [wallets EXCEPT ![c] = transfer(@, user, Bank, token, amount)]
      /\ balances' = [balances EXCEPT ![c] = r]
  <2>1. balances' = [balances EXCEPT ![c] =
                       mint(balances[c], receiver, denom, amount).balances]
    BY <1>0 DEF Deposit
  <2> QED
    BY <1>2, <2>1 DEF Deposit
<1>4. user \in Account /\ Bank \in Account /\ user # Bank
  BY AccountAssumption DEF Account
<1>5. WalletsChanged(c, token, user, Bank, amount)
  BY <1>1, <1>3, <1>4, WalletsMoved
<1>6. /\ wallets[c][token][Bank] \in Nat
      /\ wallets'[c][token][Bank] = wallets[c][token][Bank] + amount
  <2>1. wallets[c][token][Bank] \in Nat
    BY <1>1, <1>4 DEF TypeOK
  <2>2. wallets'[c][token][Bank] =
          wallets[c][token][Bank] - (IF Bank = user THEN amount ELSE 0) + amount
    BY <1>4, <1>5 DEF WalletsChanged
  <2> QED
    BY <1>4, <2>1, <2>2
<1>7. WalletsBounded'
  BY <1>5 DEF BackedInv, WalletsBounded, WalletsChanged
<1>8. /\ SumFunction(balances[c][denom]) \in Nat
      /\ SumFunction(balances[c][denom]) + amount <= wallets'[c][token][Bank]
      /\ SumFunction(balances[c][denom]) + amount < UINT256
  <2>1. SumFunction(balances[c][denom]) \in Nat
    BY <1>1, BackedBanks, BalancesSum DEF BankTyped
  <2>2. SumFunction(balances[c][denom]) <= wallets[c][token][Bank]
    BY <1>0 DEF BackedInv, NativeBacked, Supply
  <2>3. /\ wallets'[c][token] \in [Account -> Nat]
        /\ SumFunction(wallets'[c][token]) < UINT256
    BY <1>5, <1>7 DEF WalletsChanged, WalletsBounded
  <2>4. /\ wallets'[c][token][Bank] <= SumFunction(wallets'[c][token])
        /\ SumFunction(wallets'[c][token]) \in Nat
    BY <1>4, <2>3, BalancesSum
  <2>5. UINT256 \in Nat
    BY BoundAssumption
  <2> QED
    BY <1>6, <2>1, <2>2, <2>3, <2>4, <2>5
<1>9. /\ SameBut(r, balances[c], denom)
      /\ SumFunction(r[denom]) = SumFunction(balances[c][denom]) + amount
  BY <1>1, <1>2, <1>8, BackedBanks, MintedTo
<1>10. BankChanged(c, denom, r)
  BY <1>1, <1>3, <1>9, BankChange
<1>11. TypeOK'
  BY <1>5, <1>10 DEF TypeOK, WalletsChanged, BankChanged
<1>12. NativeBacked'
  <2> SUFFICES ASSUME NEW k \in Chain, NEW t \in Token
               PROVE  Supply(k, native(t))' <= wallets'[k][t][Bank]
    BY DEF NativeBacked
  <2>1. CASE k = c /\ t = token
    BY <1>0, <1>8, <1>9, <1>10, <2>1 DEF BankChanged
  <2>2. CASE ~ (k = c /\ t = token)
    <3>1. native(t) \in Denom /\ ~ (k = c /\ native(t) = denom)
      BY <1>0, <2>2, NativeDenom, OtherNative
    <3>2. wallets'[k][t] = wallets[k][t]
      BY <1>5, <2>2 DEF WalletsChanged
    <3>3. Supply(k, native(t))' = Supply(k, native(t))
      BY <1>10, <3>1 DEF BankChanged
    <3> QED
      BY <3>2, <3>3 DEF BackedInv, NativeBacked
  <2> QED
    BY <2>1, <2>2
<1> QED
  BY <1>7, <1>11, <1>12 DEF BackedInv

LEMMA BackedWithdraw ==
    ASSUME BackedInv, NEW c \in Chain, NEW user \in User, NEW token \in Token,
           NEW amount \in Nat, NEW receiver \in Account,
           Withdraw(c, user, token, amount, receiver),
           gifts' \in [Chain -> [Denom -> Nat]], CountersTyped', DeliveryInv'
    PROVE  BackedInv'
<1>0. PICK denom : denom = native(token)
  OBVIOUS
<1>1. denom \in Denom /\ TypeOK
  BY <1>0, NativeDenom DEF BackedInv
<1>2. PICK r : r = burn(balances[c], user, denom, amount).balances
  OBVIOUS
<1>3. /\ ~ burn(balances[c], user, denom, amount).reverted
      /\ wallets[c][token][Bank] >= amount
      /\ wallets' = [wallets EXCEPT ![c] = transfer(@, Bank, receiver, token, amount)]
      /\ balances' = [balances EXCEPT ![c] = r]
  BY <1>0, <1>2 DEF Withdraw
<1>4. user \in Account /\ Bank \in Account
  BY DEF Account
<1>5. WalletsChanged(c, token, Bank, receiver, amount)
  BY <1>1, <1>3, <1>4, WalletsMoved
<1>6. /\ wallets[c][token][Bank] \in Nat /\ wallets'[c][token][Bank] \in Nat
      /\ wallets'[c][token][Bank] >= wallets[c][token][Bank] - amount
  <2>1. wallets[c][token][Bank] \in Nat /\ wallets'[c][token][Bank] \in Nat
    BY <1>1, <1>4, <1>5 DEF TypeOK, WalletsChanged
  <2>2. wallets'[c][token][Bank] =
          wallets[c][token][Bank] - amount + (IF Bank = receiver THEN amount ELSE 0)
    BY <1>4, <1>5 DEF WalletsChanged
  <2> QED
    BY <2>1, <2>2
<1>7. /\ SameBut(r, balances[c], denom)
      /\ SumFunction(r[denom]) = SumFunction(balances[c][denom]) - amount
  BY <1>1, <1>2, <1>3, <1>4, BackedBanks, BurnedFrom
<1>8. /\ SumFunction(balances[c][denom]) \in Nat
      /\ SumFunction(balances[c][denom]) <= wallets[c][token][Bank]
  <2>1. SumFunction(balances[c][denom]) \in Nat
    BY <1>1, BackedBanks, BalancesSum DEF BankTyped
  <2> QED
    BY <1>0, <2>1 DEF BackedInv, NativeBacked, Supply
<1>9. BankChanged(c, denom, r)
  BY <1>1, <1>3, <1>7, BankChange
<1>10. TypeOK'
  BY <1>5, <1>9 DEF TypeOK, WalletsChanged, BankChanged
<1>11. WalletsBounded'
  BY <1>5 DEF BackedInv, WalletsBounded, WalletsChanged
<1>12. NativeBacked'
  <2> SUFFICES ASSUME NEW k \in Chain, NEW t \in Token
               PROVE  Supply(k, native(t))' <= wallets'[k][t][Bank]
    BY DEF NativeBacked
  <2>1. CASE k = c /\ t = token
    <3>1. SumFunction(r[denom]) <= wallets'[c][token][Bank]
      BY <1>6, <1>7, <1>8
    <3> QED
      BY <1>0, <1>9, <2>1, <3>1 DEF BankChanged
  <2>2. CASE ~ (k = c /\ t = token)
    <3>1. native(t) \in Denom /\ ~ (k = c /\ native(t) = denom)
      BY <1>0, <2>2, NativeDenom, OtherNative
    <3>2. wallets'[k][t] = wallets[k][t]
      BY <1>5, <2>2 DEF WalletsChanged
    <3>3. Supply(k, native(t))' = Supply(k, native(t))
      BY <1>9, <3>1 DEF BankChanged
    <3> QED
      BY <3>2, <3>3 DEF BackedInv, NativeBacked
  <2> QED
    BY <2>1, <2>2
<1> QED
  BY <1>10, <1>11, <1>12 DEF BackedInv

\* What the callbacks do to the balances, whoever calls them.
LEMMA BackedReceived ==
    ASSUME BackedInv, NEW e \in Endpoint, NEW source,
           NEW data, data.denom \in Denom, data.amount \in Nat, data.receiver \in Account,
           receivedAs(e, source, data) \in Denom,
           NEW result, result = movedFor(e, source, data), ~ result.reverted,
           balances' = [balances EXCEPT ![chainOf(e)] = result.balances],
           UNCHANGED wallets,
           gifts' \in [Chain -> [Denom -> Nat]], CountersTyped', DeliveryInv'
    PROVE  BackedInv'
<1>1. PICK c \in Chain, denom \in Denom, amount \in Nat, receiver \in Account :
        /\ c = chainOf(e) /\ denom = receivedAs(e, source, data)
        /\ amount = data.amount /\ receiver = data.receiver
  BY Ends
<1>2. Escrow \in Account
  BY DEF Account
<1>3. CASE startsWith(data.denom, source)
  <2>1. result = transferFrom(balances[c], Escrow, receiver, denom, amount)
    BY <1>1, <1>3 DEF movedFor
  <2> QED
    BY <1>1, <1>2, <2>1, BackedTransfer
<1>4. CASE ~ startsWith(data.denom, source)
  <2>1. result = mint(balances[c], receiver, denom, amount)
    BY <1>1, <1>4 DEF movedFor
  <2>2. startsWith(denom, channelOf(e))
    BY <1>1, <1>4, Ends, PrefixedDenom DEF receivedAs
  <2> QED
    BY <1>1, <2>1, <2>2, BackedMint
<1> QED
  BY <1>3, <1>4

LEMMA BackedRefund ==
    ASSUME BackedInv, NEW e \in Endpoint,
           NEW data, data.denom \in Denom, data.amount \in Nat, data.sender \in Account,
           NEW result, result = refundTokens(e, data), ~ result.reverted,
           balances' = [balances EXCEPT ![chainOf(e)] = result.balances],
           UNCHANGED wallets,
           gifts' \in [Chain -> [Denom -> Nat]], CountersTyped', DeliveryInv'
    PROVE  BackedInv'
<1>1. PICK c \in Chain, denom \in Denom, amount \in Nat, sender \in Account :
        /\ c = chainOf(e) /\ denom = data.denom
        /\ amount = data.amount /\ sender = data.sender
  BY Ends
<1>2. Escrow \in Account
  BY DEF Account
<1>3. CASE startsWith(data.denom, channelOf(e))
  <2>1. result = mint(balances[c], sender, denom, amount)
    BY <1>1, <1>3 DEF refundTokens
  <2> QED
    BY <1>1, <1>3, <2>1, BackedMint
<1>4. CASE ~ startsWith(data.denom, channelOf(e))
  <2>1. result = transferFrom(balances[c], Escrow, sender, denom, amount)
    BY <1>1, <1>4 DEF refundTokens
  <2> QED
    BY <1>1, <1>2, <2>1, BackedTransfer
<1> QED
  BY <1>3, <1>4

\* Steps that move no tokens.
LEMMA BackedQuiet ==
    ASSUME BackedInv, UNCHANGED <<bankVars, gifts>>, CountersTyped', DeliveryInv'
    PROVE  BackedInv'
<1>1. UNCHANGED <<balances, wallets, gifts>>
  BY DEF bankVars
<1>2. TypeOK' /\ WalletsBounded' /\ NativeBacked'
  BY <1>1 DEF BackedInv, TypeOK, WalletsBounded, NativeBacked, Supply
<1> QED
  BY <1>2 DEF BackedInv

LEMMA BackedUserStep ==
    ASSUME BackedInv, outside = 0 => IInv,
           NEW c \in Chain, NEW user \in User, UserNext(c, user)
    PROVE  BackedInv'
<1>1. PICK amount \in Nat, receiver \in Account : UserMoves(c, user, amount, receiver)
  BY UserChoices
<1>2. /\ TypeOK /\ CountersTyped /\ DeliveryInv
      /\ gifts \in [Chain -> [Denom -> Nat]]
      /\ user \in Account /\ Escrow \in Account
  BY DEF BackedInv, TypeOK, Account
<1>3. ASSUME NEW token \in Token, Deposit(c, user, token, amount, receiver),
             give(c, receiver, native(token), amount),
             UNCHANGED <<deliveryVars, height, outside>>
      PROVE  BackedInv'
  <2>1. gifts' \in [Chain -> [Denom -> Nat]]
    BY <1>2, <1>3, NativeDenom, Given DEF GiftsChanged
  <2>2. DeliveryInv' /\ CountersTyped'
    BY <1>2, <1>3, DeliveryUnchanged DEF CountersTyped
  <2> QED
    BY <1>3, <2>1, <2>2, BackedDeposit
<1>4. ASSUME NEW token \in Token, Withdraw(c, user, token, amount, receiver),
             UNCHANGED <<deliveryVars, height, gifts, outside>>
      PROVE  BackedInv'
  <2>1. DeliveryInv' /\ CountersTyped' /\ gifts' \in [Chain -> [Denom -> Nat]]
    BY <1>2, <1>4, DeliveryUnchanged DEF CountersTyped
  <2> QED
    BY <1>4, <2>1, BackedWithdraw
<1>5. ASSUME NEW denom \in Denom, TransferFrom(c, user, receiver, denom, amount),
             give(c, receiver, denom, amount),
             UNCHANGED <<deliveryVars, height, outside>>
      PROVE  BackedInv'
  <2>1. gifts' \in [Chain -> [Denom -> Nat]]
    BY <1>2, <1>5, Given DEF GiftsChanged
  <2>2. DeliveryInv' /\ CountersTyped'
    BY <1>2, <1>5, DeliveryUnchanged DEF CountersTyped
  <2>3. PICK result : result = transferFrom(balances[c], user, receiver, denom, amount)
    OBVIOUS
  <2>4. /\ ~ result.reverted /\ UNCHANGED wallets
        /\ balances' = [balances EXCEPT ![c] = result.balances]
    BY <1>5, <2>3 DEF TransferFrom
  <2> QED
    BY <1>2, <2>1, <2>2, <2>3, <2>4, BackedTransfer
<1>6. ASSUME NEW denom \in Denom, NEW channel \in ChannelId, NEW timeout \in Nat,
             SendTransfer(c, user, denom, amount, receiver, channel, timeout)
      PROVE  BackedInv'
  <2>1. PICK e \in Endpoint : e = <<c, channel>>
    BY TransferAssumption
  <2>2. PICK message : message = [denom |-> denom, amount |-> amount,
                                  sender |-> user, receiver |-> receiver,
                                  timeout |-> timeout]
    OBVIOUS
  <2>3. /\ message \in Transfer /\ message.denom = denom /\ message.amount = amount
        /\ channelOf(e) = channel
    BY <2>1, <2>2 DEF Transfer, channelOf
  <2>4. PICK result :
          result = IF startsWith(denom, channel)
                   THEN burn(balances[c], user, denom, amount)
                   ELSE transferFrom(balances[c], user, Escrow, denom, amount)
    OBVIOUS
  <2>5. /\ Len(sent[e]) < MaxSends /\ Send(e, message)
        /\ startsWith(denom, channel) \/ Len(denom.trace) < MaxTrace
        /\ ~ result.reverted
        /\ balances' = [balances EXCEPT ![c] = result.balances]
        /\ UNCHANGED <<wallets, height, gifts, outside>>
    BY <1>6, <2>1, <2>2, <2>4 DEF SendTransfer
  <2>6. CountersTyped' /\ gifts' \in [Chain -> [Denom -> Nat]]
    BY <1>2, <2>5 DEF CountersTyped
  <2>7. CASE startsWith(denom, channel)
    <3>1. result = burn(balances[c], user, denom, amount)
      BY <2>4, <2>7
    <3>2. outside = 0 /\ amount # 0 => cameOver(e, denom)
      <4>1. SUFFICES ASSUME outside = 0, amount # 0 PROVE cameOver(e, denom)
        OBVIOUS
      <4>2. IInv
        BY <4>1
      <4>3. /\ balances[c][denom] \in [Account -> Nat]
            /\ ~ (balances[c][denom][user] < amount)
            /\ balances[c][denom][user] \in Nat
        BY <1>2, <2>5, <3>1 DEF TypeOK, burn, Reverts
      <4>4. /\ balances[c][denom][user] <= Supply(c, denom)
            /\ Supply(c, denom) \in Nat
        BY <1>2, <4>3, BalancesSum DEF Supply
      <4>5. Supply(c, denom) # 0
        BY <4>1, <4>3, <4>4
      <4> QED
        BY <2>1, <2>7, <4>2, <4>5 DEF IInv, AccountInv, VouchersCameOver
    <3>3. DeliveryInv'
      BY <1>2, <2>3, <2>5, <2>7, <3>2, SendDelivery
    <3> QED
      BY <1>2, <2>5, <2>6, <3>1, <3>3, BackedBurn
  <2>8. CASE ~ startsWith(denom, channel)
    <3>1. result = transferFrom(balances[c], user, Escrow, denom, amount)
      BY <2>4, <2>8
    <3>2. prefixed(channelOf(Peer[e]), denom) \in Denom
      BY <2>5, <2>8, Ends, PrefixedDenom
    <3>3. DeliveryInv'
      BY <1>2, <2>3, <2>5, <2>8, <3>2, SendDelivery
    <3> QED
      BY <1>2, <2>5, <2>6, <3>1, <3>3, BackedTransfer
  <2> QED
    BY <2>7, <2>8
<1> QED
  BY <1>1, <1>3, <1>4, <1>5, <1>6 DEF UserMoves

LEMMA BackedOnRecvPacket ==
    ASSUME BackedInv, NEW e \in Endpoint, NEW n \in Number, OnRecvPacket(e, n)
    PROVE  BackedInv'
<1>1. PICK data, source, result :
        /\ data = sent[Peer[e]][n] /\ source = channelOf(Peer[e])
        /\ result = movedFor(e, source, data)
  OBVIOUS
<1>2. /\ n \in DOMAIN sent[Peer[e]] /\ Deliver(e, n, answerTo(result))
      /\ UNCHANGED <<wallets, height, outside>>
      /\ IF result.reverted THEN UNCHANGED <<balances, gifts>>
         ELSE /\ balances' = [balances EXCEPT ![chainOf(e)] = result.balances]
              /\ give(chainOf(e), data.receiver, receivedAs(e, source, data), data.amount)
  BY <1>1 DEF OnRecvPacket
<1>3. /\ TypeOK /\ CountersTyped /\ DeliveryInv
      /\ gifts \in [Chain -> [Denom -> Nat]]
      /\ Peer[e] \in Endpoint /\ Peer[Peer[e]] = e /\ chainOf(e) \in Chain
  BY Ends DEF BackedInv, TypeOK
<1>4. /\ data.denom \in Denom /\ data.amount \in Nat /\ data.receiver \in Account
      /\ receivedAs(e, source, data) \in Denom
  <2>1. data \in Transfer
    BY <1>1, <1>2, <1>3 DEF DeliveryInv, DeliveryTypeOK
  <2>2. data.denom \in Denom /\ data.amount \in Nat /\ data.receiver \in Account
    BY <2>1 DEF Transfer
  <2>3. ~ startsWith(data.denom, source) => prefixed(channelOf(e), data.denom) \in Denom
    BY <1>1, <1>2, <1>3 DEF DeliveryInv, SentCanArrive
  <2> QED
    BY <2>2, <2>3, BeyondDenom DEF receivedAs
<1>5. answerTo(result) \in Answer
  BY TransferAssumption DEF answerTo
<1>6. DeliveryInv' /\ CountersTyped'
  BY <1>2, <1>3, <1>5, DeliverDelivery DEF CountersTyped
<1>7. CASE result.reverted
  BY <1>2, <1>6, <1>7, BackedQuiet DEF bankVars
<1>8. CASE ~ result.reverted
  <2>1. GiftsChanged(chainOf(e), data.receiver, receivedAs(e, source, data), data.amount)
    BY <1>2, <1>3, <1>4, <1>8, Given
  <2>2. gifts' \in [Chain -> [Denom -> Nat]]
    BY <2>1 DEF GiftsChanged
  <2> QED
    BY <1>1, <1>2, <1>4, <1>6, <1>8, <2>2, BackedReceived
<1> QED
  BY <1>7, <1>8

LEMMA BackedOnAcknowledgementPacket ==
    ASSUME BackedInv, NEW e \in Endpoint, NEW n \in Number, OnAcknowledgementPacket(e, n)
    PROVE  BackedInv'
<1>1. PICK data, result : data = sent[e][n] /\ result = refundTokens(e, data)
  OBVIOUS
<1>2. /\ Acknowledge(e, n) /\ n \in DOMAIN sent[e]
      /\ UNCHANGED <<wallets, height, gifts, outside>>
      /\ IF isFailure(answers[Peer[e]][n])
         THEN /\ ~ result.reverted
              /\ balances' = [balances EXCEPT ![chainOf(e)] = result.balances]
         ELSE UNCHANGED balances
  BY <1>1 DEF OnAcknowledgementPacket, Acknowledge
<1>3. /\ CountersTyped /\ DeliveryInv /\ gifts \in [Chain -> [Denom -> Nat]]
  BY DEF BackedInv, TypeOK
<1>4. data.denom \in Denom /\ data.amount \in Nat /\ data.sender \in Account
  <2>1. data \in Transfer
    BY <1>1, <1>2, <1>3 DEF DeliveryInv, DeliveryTypeOK
  <2> QED
    BY <2>1 DEF Transfer, Account
<1>5. /\ DeliveryInv' /\ CountersTyped' /\ gifts' \in [Chain -> [Denom -> Nat]]
  BY <1>2, <1>3, AcknowledgeDelivery DEF CountersTyped
<1>6. CASE isFailure(answers[Peer[e]][n])
  BY <1>1, <1>2, <1>4, <1>5, <1>6, BackedRefund
<1>7. CASE ~ isFailure(answers[Peer[e]][n])
  BY <1>2, <1>5, <1>7, BackedQuiet DEF bankVars
<1> QED
  BY <1>6, <1>7

\* A call from outside does the same with the balances and tells the handler
\* nothing.
LEMMA BackedOutsideStep ==
    ASSUME BackedInv, OutsideNext
    PROVE  BackedInv' /\ outside' # 0
<1>0. PICK e \in Endpoint :
        \E data \in OutsideData[e] :
          \/ \E source \in ChannelId :
               /\ receivedAs(e, source, data) \in Denom
               /\ OutsideCall(e, movedFor(e, source, data))
          \/ OutsideCall(e, refundTokens(e, data))
  BY DEF OutsideNext
<1>1. PICK data \in OutsideData[e] :
        \/ \E source \in ChannelId :
             /\ receivedAs(e, source, data) \in Denom
             /\ OutsideCall(e, movedFor(e, source, data))
        \/ OutsideCall(e, refundTokens(e, data))
  BY <1>0
<1>2. /\ data.denom \in Denom /\ data.amount \in Nat
      /\ data.sender \in Account /\ data.receiver \in Account
  BY TransferAssumption
<1>3. /\ CountersTyped /\ DeliveryInv /\ gifts \in [Chain -> [Denom -> Nat]]
  BY DEF BackedInv, TypeOK
<1>4. ASSUME NEW result, OutsideCall(e, result)
      PROVE  /\ ~ result.reverted
             /\ balances' = [balances EXCEPT ![chainOf(e)] = result.balances]
             /\ UNCHANGED wallets /\ gifts' \in [Chain -> [Denom -> Nat]]
             /\ CountersTyped' /\ DeliveryInv' /\ outside' # 0
  <2>1. /\ outside' = outside + 1 /\ ~ result.reverted
        /\ balances' = [balances EXCEPT ![chainOf(e)] = result.balances]
        /\ UNCHANGED <<wallets, deliveryVars, height, gifts>>
    BY <1>4 DEF OutsideCall
  <2>2. outside \in Nat /\ outside' \in Nat /\ outside' # 0
    BY <1>3, <2>1 DEF CountersTyped
  <2> QED
    BY <1>3, <2>1, <2>2, DeliveryUnchanged DEF CountersTyped
<1>5. ASSUME NEW source \in ChannelId, receivedAs(e, source, data) \in Denom,
             OutsideCall(e, movedFor(e, source, data))
      PROVE  BackedInv' /\ outside' # 0
  <2>1. PICK result : result = movedFor(e, source, data)
    OBVIOUS
  <2>2. OutsideCall(e, result)
    BY <1>5, <2>1
  <2> QED
    BY <1>2, <1>4, <1>5, <2>1, <2>2, BackedReceived
<1>6. ASSUME OutsideCall(e, refundTokens(e, data))
      PROVE  BackedInv' /\ outside' # 0
  <2>1. PICK result : result = refundTokens(e, data)
    OBVIOUS
  <2>2. OutsideCall(e, result)
    BY <1>6, <2>1
  <2> QED
    BY <1>2, <1>4, <2>1, <2>2, BackedRefund
<1> QED
  BY <1>1, <1>5, <1>6

-----------------------------------------------------------------------------
(* The invariant of the specification                                      *)

FullInv == BackedInv /\ (outside = 0 => IInv)

LEMMA InitFullInv == Init => FullInv
<1> SUFFICES ASSUME Init PROVE FullInv
  OBVIOUS
<1>1. IInv
  BY InitIInv
<1>2. CountersTyped
  BY DEF Init, CountersTyped
<1> QED
  BY <1>1, <1>2 DEF FullInv, BackedInv, IInv, AccountInv

LEMMA NextFullInv == FullInv /\ [Next]_vars => FullInv'
<1> SUFFICES ASSUME FullInv, [Next]_vars PROVE FullInv'
  OBVIOUS
<1>0. BackedInv /\ (outside = 0 => IInv) /\ CountersTyped /\ DeliveryInv
  BY DEF FullInv, BackedInv
<1>1. ASSUME NEW c \in Chain, NEW user \in User, UserNext(c, user)
      PROVE  FullInv'
  <2>1. BackedInv'
    BY <1>0, <1>1, BackedUserStep
  <2>2. outside' = outside
    <3>1. PICK amount \in Nat, receiver \in Account : UserMoves(c, user, amount, receiver)
      BY <1>1, UserChoices
    <3> QED
      BY <3>1 DEF UserMoves, SendTransfer
  <2>3. outside = 0 => IInv'
    BY <1>0, <1>1, UserStep
  <2> QED
    BY <2>1, <2>2, <2>3 DEF FullInv
<1>2. ASSUME NEW e \in Endpoint, NEW n \in Number, OnRecvPacket(e, n)
      PROVE  FullInv'
  <2>1. BackedInv' /\ (outside = 0 => IInv')
    BY <1>0, <1>2, BackedOnRecvPacket, OnRecvPacketStep
  <2>2. outside' = outside
    BY <1>2 DEF OnRecvPacket
  <2> QED
    BY <2>1, <2>2 DEF FullInv
<1>3. ASSUME NEW e \in Endpoint, NEW n \in Number, OnAcknowledgementPacket(e, n)
      PROVE  FullInv'
  <2>1. BackedInv' /\ (outside = 0 => IInv')
    BY <1>0, <1>3, BackedOnAcknowledgementPacket, OnAcknowledgementPacketStep
  <2>2. outside' = outside
    BY <1>3 DEF OnAcknowledgementPacket
  <2> QED
    BY <2>1, <2>2 DEF FullInv
<1>4. CASE OutsideNext
  BY <1>0, <1>4, BackedOutsideStep DEF FullInv
<1>5. ASSUME NEW c \in Chain, NewBlock(c)
      PROVE  FullInv'
  <2>1. UNCHANGED <<bankVars, deliveryVars, gifts, outside>>
    BY <1>5 DEF NewBlock
  <2>2. CountersTyped'
    BY <1>0, <1>5 DEF NewBlock, CountersTyped
  <2>3. DeliveryInv'
    BY <1>0, <2>1, DeliveryUnchanged
  <2>4. BackedInv'
    BY <1>0, <2>1, <2>2, <2>3, BackedQuiet
  <2>5. outside = 0 => IInv'
    BY <1>0, <2>1, QuietIInv
  <2> QED
    BY <2>1, <2>4, <2>5 DEF FullInv
<1>6. CASE UNCHANGED vars
  <2>1. UNCHANGED <<bankVars, deliveryVars, height, gifts, outside>>
    BY <1>6 DEF vars
  <2>2. CountersTyped' /\ DeliveryInv'
    BY <1>0, <2>1, DeliveryUnchanged DEF CountersTyped
  <2>3. BackedInv'
    BY <1>0, <2>1, <2>2, BackedQuiet
  <2>4. outside = 0 => IInv'
    BY <1>0, <2>1, QuietIInv
  <2> QED
    BY <2>1, <2>3, <2>4 DEF FullInv
<1>7. CASE PacketNext
  <2>1. PICK e \in Endpoint, n \in 1..MaxSends :
          OnRecvPacket(e, n) \/ OnAcknowledgementPacket(e, n)
    BY <1>7 DEF PacketNext
  <2>2. n \in Number
    BY TransferAssumption
  <2> QED
    BY <1>2, <1>3, <2>1, <2>2
<1> QED
  BY <1>1, <1>4, <1>5, <1>6, <1>7 DEF Next

LEMMA FullInvIsInvariant == Spec => []FullInv
BY InitFullInv, NextFullInv, PTL DEF Spec

\* Whoever calls the callbacks of ICS20Transfer.sol, the balances, the wallets
\* and the messages stay of their types, what is delivered was sent and what is
\* answered was delivered.  As long as the handler alone calls them, the amounts
\* of one denomination never add up to more than a uint256, though _mint and
\* transferFrom of ICS20Bank.sol do not look for an overflow.
THEOREM TransfersTyped ==
    Spec => [](TypeOK /\ DeliveryInv /\ (outside = 0 => SupplyBounded))
<1>1. FullInv => TypeOK /\ DeliveryInv /\ (outside = 0 => SupplyBounded)
  BY DEF FullInv, BackedInv, IInv, AccountInv
<1> QED
  BY <1>1, FullInvIsInvariant, PTL

\* deposit and withdraw of ICS20Bank.sol: whatever the transfers do to the
\* balances, and whoever calls the callbacks, the bank holds a token for every
\* unit of it in an account.
THEOREM BankBacked == Spec => []NativeBacked
<1>1. FullInv => NativeBacked
  BY DEF FullInv, BackedInv
<1> QED
  BY <1>1, FullInvIsInvariant, PTL

\* sendTransfer, onRecvPacket and onAcknowledgementPacket of ICS20Transfer.sol:
\* as long as the handler alone calls the callbacks, what the escrow account
\* holds is what is abroad, over however many channels, ordered or not, whatever
\* times out, and in whatever order packets and acknowledgements come.
THEOREM EscrowAccounted == Spec => []EscrowAccountsForVouchers
<1>1. FullInv => EscrowAccountsForVouchers
  BY DEF FullInv, IInv, AccountInv, EscrowAccountsForVouchers
<1> QED
  BY <1>1, FullInvIsInvariant, PTL

\* No voucher overflows either, as long as the handler alone calls the
\* callbacks: what is in flight of a denomination over a channel, there and
\* back, and in accounts on the other side is less than a uint256 counts, so
\* that _mint gives the receiver what was sent.
THEOREM VouchersFit ==
    Spec => [](outside = 0 => \A e \in Endpoint, denom \in Denom :
      LET v == prefixed(channelOf(Peer[e]), denom) IN
      ~ startsWith(denom, channelOf(e)) /\ v \in Denom
        => AmountInFlight(e, denom) + AmountInFlight(Peer[e], v)
             + Supply(chainOf(Peer[e]), v) < UINT256)
<1>1. FullInv => (outside = 0 => \A e \in Endpoint, denom \in Denom :
        LET v == prefixed(channelOf(Peer[e]), denom) IN
        ~ startsWith(denom, channelOf(e)) /\ v \in Denom
          => AmountInFlight(e, denom) + AmountInFlight(Peer[e], v)
               + Supply(chainOf(Peer[e]), v) < UINT256)
  BY FlightCovered DEF FullInv
<1> QED
  BY <1>1, FullInvIsInvariant, PTL
=============================================================================
