------------------------ MODULE ProfitCustodyProofs ------------------------
(***************************************************************************)
(* Proofs about ProfitCustody, for any amounts, gains, premium, wallets,   *)
(* tasks and threshold.                                                    *)
(***************************************************************************)
EXTENDS ProfitCustody, FiniteSetTheorems, WellFoundedInduction, TLAPS

-----------------------------------------------------------------------------
(***************************************************************************)
(* Sums.  SumOf(f) takes the elements of DOMAIN f away one by one, in an   *)
(* order that CHOOSE fixes; what is proved about it is proved for the      *)
(* smallest set of which it could be false.                                *)
(***************************************************************************)
LEMMA SmallestSet ==
  ASSUME NEW S, IsFiniteSet(S), NEW F \in SUBSET SUBSET S, F # {}
  PROVE  \E T \in F : \A U \in F : U \subseteq T => U = T
<1>1. F \subseteq FiniteSubsetsOf(S)
  BY FS_Subset DEF FiniteSubsetsOf
<1>2. IsWellFoundedOn(StrictSubsetOrdering(S), FiniteSubsetsOf(S))
  BY FS_StrictSubsetOrderingWellFounded
<1>3. PICK T \in F : \A U \in F : ~(<<U, T>> \in StrictSubsetOrdering(S))
  BY <1>1, <1>2, WFMin
<1>4. \A U \in F : U \subseteq T => U = T
  BY <1>3 DEF StrictSubsetOrdering
<1>5. QED BY <1>4

First(s) == CHOOSE x \in s : TRUE
Rest(s) == s \ {First(s)}

\* g holds the sums of f over the subsets of T.
Sums(f, T, g) == g = [s \in SUBSET T |-> IF s = {} THEN 0 ELSE f[First(s)] + g[Rest(s)]]

LEMMA SumIs ==
  ASSUME NEW f
  PROVE  SumOf(f) = (CHOOSE g : Sums(f, DOMAIN f, g))[DOMAIN f]
BY DEF SumOf, FoldFunction, FoldFunctionOnSet, MapThenFoldSet, Sums, First, Rest

LEMMA FirstRest ==
  ASSUME NEW s, s # {}
  PROVE  /\ First(s) \in s /\ Rest(s) \subseteq s /\ Rest(s) # s
         /\ First(s) \notin Rest(s) /\ s = Rest(s) \cup {First(s)}
BY DEF First, Rest

LEMMA SumsAt ==
  ASSUME NEW f, NEW T, NEW g, Sums(f, T, g), NEW s, s \subseteq T
  PROVE  /\ s = {} => g[s] = 0
         /\ s # {} => g[s] = f[First(s)] + g[Rest(s)]
BY DEF Sums

\* The sums over a set do not depend on what it is part of.
LEMMA SumsUnique ==
  ASSUME NEW f, NEW T, IsFiniteSet(T), NEW g, Sums(f, T, g),
         NEW U, NEW h, Sums(f, U, h), NEW s, s \subseteq T, s \subseteq U
  PROVE  g[s] = h[s]
<1> DEFINE F == {r \in SUBSET T : r \subseteq U /\ g[r] # h[r]}
<1> SUFFICES ASSUME F # {} PROVE FALSE
  OBVIOUS
<1>1. F \in SUBSET SUBSET T
  OBVIOUS
<1>2. PICK r \in F : \A q \in F : q \subseteq r => q = r
  <2> HIDE DEF F
  <2>1. QED BY <1>1, SmallestSet
<1>3. r \subseteq T /\ r \subseteq U /\ g[r] # h[r]
  BY <1>2
<1>4. r # {}
  BY <1>3, SumsAt
<1>5. Rest(r) \subseteq T /\ Rest(r) \subseteq U /\ Rest(r) \notin F
  BY <1>2, <1>3, <1>4, FirstRest
<1>6. g[Rest(r)] = h[Rest(r)]
  BY <1>5
<1>7. QED BY <1>3, <1>4, <1>6, SumsAt

\* There are such sums.
LEMMA SumsExist ==
  ASSUME NEW D, IsFiniteSet(D), NEW f, \A x \in D : f[x] \in Int
  PROVE  \E g \in [SUBSET D -> Int] : Sums(f, D, g)
<1> DEFINE Summed(T) == \E g \in [SUBSET T -> Int] : Sums(f, T, g)
           F == {T \in SUBSET D : ~Summed(T)}
<1> SUFFICES ASSUME F # {} PROVE FALSE
  OBVIOUS
<1>1. F \in SUBSET SUBSET D
  OBVIOUS
<1>2. PICK T \in F : \A U \in F : U \subseteq T => U = T
  <2> HIDE DEF F
  <2>1. QED BY <1>1, SmallestSet
<1>3. T \subseteq D /\ ~Summed(T)
  BY <1>2
<1>4. \A U \in SUBSET T : U # T => Summed(U)
  BY <1>2, <1>3
<1> DEFINE G(U) == CHOOSE g \in [SUBSET U -> Int] : Sums(f, U, g)
<1>5. \A U \in SUBSET T : U # T => G(U) \in [SUBSET U -> Int] /\ Sums(f, U, G(U))
  BY <1>4
<1> HIDE DEF G, Summed, F
<1> DEFINE last == IF T = {} THEN 0 ELSE f[First(T)] + G(Rest(T))[Rest(T)]
           g == [s \in SUBSET T |-> IF s = T THEN last ELSE G(s)[s]]
<1>6. last \in Int
  <2>1. CASE T # {}
    <3>1. Rest(T) \in SUBSET T /\ Rest(T) # T /\ First(T) \in D
      BY <1>3, <2>1, FirstRest
    <3>2. G(Rest(T))[Rest(T)] \in Int
      BY <1>5, <3>1
    <3>3. QED BY <2>1, <3>1, <3>2
  <2>2. QED BY <2>1
<1>7. g \in [SUBSET T -> Int]
  <2> HIDE DEF last
  <2>1. \A s \in SUBSET T : s # T => G(s)[s] \in Int
    BY <1>5
  <2>2. QED BY <1>6, <2>1
<1>8. Sums(f, T, g)
  <2>1. ASSUME NEW s \in SUBSET T
        PROVE  g[s] = IF s = {} THEN 0 ELSE f[First(s)] + g[Rest(s)]
    <3>1. CASE s = {}
      <4>1. CASE T = {}
        BY <3>1, <4>1
      <4>2. CASE T # {}
        <5>1. Sums(f, s, G(s)) /\ g[s] = G(s)[s]
          BY <1>5, <3>1, <4>2
        <5>2. QED BY <3>1, <5>1, SumsAt
      <4>3. QED BY <4>1, <4>2
    <3>2. CASE s # {}
      <4>1. Rest(s) \in SUBSET T /\ Rest(s) # T /\ Rest(s) \subseteq s /\ g[Rest(s)] = G(Rest(s))[Rest(s)]
        BY <3>2, FirstRest
      <4>2. CASE s = T
        BY <3>2, <4>1, <4>2
      <4>3. CASE s # T
        <5>1. Sums(f, s, G(s)) /\ g[s] = G(s)[s] /\ Sums(f, Rest(s), G(Rest(s)))
          BY <1>5, <4>1, <4>3
        <5>2. g[s] = f[First(s)] + G(s)[Rest(s)]
          BY <3>2, <5>1, SumsAt
        <5>3. IsFiniteSet(s)
          BY <1>3, FS_Subset
        <5>4. G(s)[Rest(s)] = G(Rest(s))[Rest(s)]
          <6> HIDE DEF g
          <6>1. QED BY <4>1, <5>1, <5>3, SumsUnique
        <5>5. QED BY <3>2, <4>1, <5>2, <5>4
      <4>4. QED BY <4>2, <4>3
    <3>3. QED BY <3>1, <3>2
  <2>2. g = [s \in SUBSET T |-> g[s]]
    OBVIOUS
  <2> HIDE DEF g
  <2>3. QED BY <2>1, <2>2 DEF Sums
<1>9. Summed(T)
  BY <1>7, <1>8 DEF Summed
<1>10. QED BY <1>3, <1>9

LEMMA SumFrom ==
  ASSUME NEW D, IsFiniteSet(D), NEW f, f \in [D -> Int]
  PROVE  \E g \in [SUBSET D -> Int] : Sums(f, D, g) /\ SumOf(f) = g[D]
<1>1. PICK g \in [SUBSET D -> Int] : Sums(f, D, g)
  BY SumsExist
<1>2. DOMAIN f = D
  OBVIOUS
<1> DEFINE h == CHOOSE e : Sums(f, D, e)
<1>3. Sums(f, D, h)
  BY <1>1
<1>4. SumOf(f) = h[D]
  BY <1>2, SumIs
<1> HIDE DEF h
<1>5. h[D] = g[D]
  BY <1>1, <1>3, SumsUnique
<1>6. QED BY <1>1, <1>4, <1>5

\* A sum of whole numbers is one.
LEMMA SumType ==
  ASSUME NEW D, IsFiniteSet(D), NEW f, f \in [D -> Int]
  PROVE  SumOf(f) \in Int
<1>1. PICK g \in [SUBSET D -> Int] : Sums(f, D, g) /\ SumOf(f) = g[D]
  BY SumFrom
<1>2. g[D] \in Int
  OBVIOUS
<1>3. QED BY <1>1, <1>2

LEMMA SumOfNothing ==
  ASSUME NEW D, IsFiniteSet(D), NEW f, f = [x \in D |-> 0]
  PROVE  SumOf(f) = 0
<1>1. f \in [D -> Int]
  OBVIOUS
<1>2. PICK g \in [SUBSET D -> Int] : Sums(f, D, g) /\ SumOf(f) = g[D]
  BY <1>1, SumFrom
<1> DEFINE F == {s \in SUBSET D : g[s] # 0}
<1>3. F = {}
  <2> SUFFICES ASSUME F # {} PROVE FALSE
    OBVIOUS
  <2>1. PICK s \in F : \A q \in F : q \subseteq s => q = s
    <3>1. F \in SUBSET SUBSET D
      OBVIOUS
    <3> HIDE DEF F
    <3>2. QED BY <3>1, SmallestSet
  <2>2. s \subseteq D /\ g[s] # 0
    BY <2>1
  <2>3. s # {}
    BY ONLY <1>2, <2>2, SumsAt
  <2>4. First(s) \in D /\ Rest(s) \subseteq D /\ Rest(s) \notin F
    BY <2>1, <2>2, <2>3, FirstRest
  <2>5. g[Rest(s)] = 0 /\ f[First(s)] = 0
    BY <2>4
  <2>6. QED BY <1>2, <2>2, <2>3, <2>5, SumsAt
<1>4. QED BY <1>2, <1>3

\* One of the summands changes: the sum changes by as much.
LEMMA SumOneChanged ==
  ASSUME NEW D, IsFiniteSet(D), NEW f, f \in [D -> Int], NEW u \in D, NEW d \in Int,
         NEW e, e = [f EXCEPT ![u] = f[u] + d]
  PROVE  SumOf(e) = SumOf(f) + d
<1>1. e \in [D -> Int] /\ \A x \in D : e[x] = IF x = u THEN f[x] + d ELSE f[x]
  OBVIOUS
<1>2. PICK g \in [SUBSET D -> Int] : Sums(f, D, g) /\ SumOf(f) = g[D]
  BY SumFrom
<1>3. PICK h \in [SUBSET D -> Int] : Sums(e, D, h) /\ SumOf(e) = h[D]
  <2>1. IsFiniteSet(D)
    OBVIOUS
  <2>2. QED BY ONLY <1>1, <2>1, SumFrom
<1> DEFINE More(s) == IF u \in s THEN d ELSE 0
           F == {s \in SUBSET D : h[s] # g[s] + More(s)}
<1>4. F = {}
  <2> SUFFICES ASSUME F # {} PROVE FALSE
    OBVIOUS
  <2>1. PICK s \in F : \A q \in F : q \subseteq s => q = s
    <3>1. F \in SUBSET SUBSET D
      OBVIOUS
    <3> HIDE DEF F
    <3>2. QED BY <3>1, SmallestSet
  <2>2. s \subseteq D /\ h[s] # g[s] + More(s)
    BY <2>1
  <2>3. s # {}
    <3>1. s = {} => h[s] = 0 /\ g[s] = 0
      BY ONLY <1>2, <1>3, <2>2, SumsAt
    <3>2. QED BY <2>2, <3>1
  <2>4. /\ First(s) \in D /\ First(s) \in s /\ Rest(s) \in SUBSET D /\ Rest(s) \notin F
        /\ First(s) \notin Rest(s) /\ s = Rest(s) \cup {First(s)}
    BY <2>1, <2>2, <2>3, FirstRest
  <2>5. h[Rest(s)] = g[Rest(s)] + More(Rest(s))
    BY <2>4
  <2>6. h[s] = e[First(s)] + h[Rest(s)] /\ g[s] = f[First(s)] + g[Rest(s)]
    BY ONLY <1>2, <1>3, <2>2, <2>3, SumsAt
  <2>7. e[First(s)] + More(Rest(s)) = f[First(s)] + More(s)
    <3>1. f[First(s)] \in Int
      BY <2>4
    <3>2. CASE First(s) = u
      <4>1. u \in s /\ u \notin Rest(s) /\ e[First(s)] = f[First(s)] + d
        BY <1>1, <2>4, <3>2
      <4>2. QED BY <3>1, <4>1
    <3>3. CASE First(s) # u
      <4>1. (u \in s <=> u \in Rest(s)) /\ e[First(s)] = f[First(s)]
        BY <1>1, <2>4, <3>3
      <4>2. QED BY <3>1, <4>1
    <3>4. QED BY <3>2, <3>3
  <2>8. h[s] = g[s] + More(s)
    <3>1. /\ g[Rest(s)] \in Int /\ f[First(s)] \in Int /\ e[First(s)] \in Int
          /\ More(s) \in Int /\ More(Rest(s)) \in Int
      BY <1>1, <2>4
    <3> HIDE DEF More, F
    <3>2. QED BY ONLY <2>5, <2>6, <2>7, <3>1
  <2>9. QED BY <2>2, <2>8
<1>5. More(D) = d
  OBVIOUS
<1>6. QED BY <1>2, <1>3, <1>4, <1>5

\* Equal summands, equal sums.
LEMMA SumEqual ==
  ASSUME NEW D, NEW f, NEW e, f \in [D -> Int], e \in [D -> Int],
         \A x \in D : f[x] = e[x]
  PROVE  SumOf(f) = SumOf(e)
<1>1. f = e
  OBVIOUS
<1>2. QED BY <1>1

-----------------------------------------------------------------------------
(***************************************************************************)
(* What the single steps do to a task and to the transactions.             *)
(***************************************************************************)
TaskStates == [at : Phases, amount : Amounts \cup {0}, receipt : Receipts]

LEMMA TaskAt ==
  ASSUME TypeOK, NEW t \in Tasks, NEW phase, phase \in Phases, At(t, phase)
  PROVE  /\ task' \in [Tasks -> TaskStates]
         /\ task'[t].at = phase
         /\ task'[t].amount = task[t].amount /\ task'[t].receipt = task[t].receipt
         /\ \A s \in Tasks \ {t} : task'[s] = task[s]
<1>1. task \in [Tasks -> TaskStates]
  BY DEF TypeOK, TaskStates
<1>2. task' = [task EXCEPT ![t].at = phase]
  BY DEF At
<1>3. [task[t] EXCEPT !.at = phase] \in TaskStates
  <2>1. task[t] \in TaskStates
    BY <1>1
  <2>2. QED BY <2>1 DEF TaskStates
<1>4. task[t] \in [at : Phases, amount : Amounts \cup {0}, receipt : Receipts]
  BY <1>1 DEF TaskStates
<1>5. QED BY <1>1, <1>2, <1>3, <1>4

LEMMA TaskReceipt ==
  ASSUME TypeOK, NEW t \in Tasks, NEW status, status \in Receipts, Receipt(t, status)
  PROVE  /\ task' \in [Tasks -> TaskStates]
         /\ task'[t].receipt = status
         /\ task'[t].amount = task[t].amount /\ task'[t].at = task[t].at
         /\ \A s \in Tasks \ {t} : task'[s] = task[s]
<1>1. task \in [Tasks -> TaskStates]
  BY DEF TypeOK, TaskStates
<1>2. task' = [task EXCEPT ![t].receipt = status]
  BY DEF Receipt
<1>3. [task[t] EXCEPT !.receipt = status] \in TaskStates
  <2>1. task[t] \in TaskStates
    BY <1>1
  <2>2. QED BY <2>1 DEF TaskStates
<1>4. task[t] \in [at : Phases, amount : Amounts \cup {0}, receipt : Receipts]
  BY <1>1 DEF TaskStates
<1>5. QED BY <1>1, <1>2, <1>3, <1>4

\* A transaction joins the end of the queue.
LEMMA OneMore ==
  ASSUME NEW S, NEW s \in Seq(S), NEW e \in S
  PROVE  /\ Append(s, e) \in Seq(S) /\ Len(s) \in Nat
         /\ DOMAIN s = 1..Len(s) /\ DOMAIN Append(s, e) = 1..(Len(s) + 1)
         /\ \A i \in DOMAIN s : Append(s, e)[i] = s[i]
         /\ Append(s, e)[Len(s) + 1] = e
OBVIOUS

\* The first leaves it.
LEMMA OneLess ==
  ASSUME NEW S, NEW s \in Seq(S), s # << >>
  PROVE  /\ Tail(s) \in Seq(S) /\ Len(s) \in Nat /\ Len(s) > 0
         /\ DOMAIN s = 1..Len(s) /\ DOMAIN Tail(s) = 1..(Len(s) - 1)
         /\ \A i \in DOMAIN Tail(s) : Tail(s)[i] = s[i + 1]
         /\ Head(s) = s[1] /\ Head(s) \in S
OBVIOUS

LEMMA PlatformPartType ==
  ASSUME NEW amount \in Nat
  PROVE  PlatformPart(amount) \in 0..amount /\ UserPart(amount) \in 0..amount
<1>1. (amount * 7500) \div 10000 \in 0..amount
  OBVIOUS
<1>2. PlatformPart(amount) \in 0..amount
  BY <1>1 DEF PlatformPart, PLATFORM_SHARE_BPS, BPS_DENOMINATOR
<1>3. QED BY <1>2 DEF UserPart

LEMMA AmountsAre == \A amount \in Amounts : amount \in Nat /\ amount > 0
BY CustodyAssumption

LEMMA TransactionKinds ==
  ASSUME NEW tx, tx \in Transactions
  PROVE  /\ tx.kind \in {"approve", "deposit", "rescue"}
         /\ tx.kind # "rescue" => tx.of \in Tasks /\ tx.amount \in Amounts
         /\ tx.kind = "rescue" => tx.amount \in Nat
BY DEF Transactions

-----------------------------------------------------------------------------
(***************************************************************************)
(* The vault contract: every call keeps its books, whoever makes it.       *)
(***************************************************************************)
Vault == VaultTypeOK /\ VaultSolvent /\ TotalsAddUp

LEMMA SomeAssumptions ==
  /\ IsFiniteSet(Users) /\ IsFiniteSet(Wallets) /\ IsFiniteSet(Tasks)
  /\ Bot \in Users /\ Other \in Users
BY VaultAssumption, CustodyAssumption

LEMMA VaultStart == VaultInit => Vault
<1> SUFFICES ASSUME VaultInit PROVE Vault
  OBVIOUS
<1>1. SumOf(userBalances) = 0 /\ SumOf(paid) = 0
  BY SomeAssumptions, SumOfNothing DEF VaultInit
<1>2. VaultTypeOK
  BY DEF VaultInit, VaultTypeOK
<1>3. VaultSolvent
  BY <1>1 DEF VaultInit, VaultSolvent
<1>4. TotalsAddUp
  BY <1>1 DEF VaultInit, TotalsAddUp
<1>5. QED BY <1>2, <1>3, <1>4 DEF Vault

\* What the users are owed and the platform was paid is a number.
LEMMA SharesType ==
  ASSUME Vault
  PROVE  Shares \in Int
<1>1. userBalances \in [Users -> Int] /\ paid \in [Wallets -> Int]
  BY DEF Vault, VaultTypeOK
<1>2. SumOf(userBalances) \in Int /\ SumOf(paid) \in Int
  BY <1>1, SomeAssumptions, SumType
<1>3. QED BY <1>2 DEF Shares

LEMMA VaultDeposit ==
  ASSUME Vault, NEW bot, NEW amount \in Nat, NEW user \in Users,
         DepositProfit(bot, amount, user)
  PROVE  Vault' /\ totals'.deposited = totals.deposited + amount /\ Shares' = Shares + amount
<1> DEFINE up == UserPart(amount)
           pp == PlatformPart(amount)
<1>1. /\ balance \in Nat /\ rescued \in Nat
      /\ userBalances \in [Users -> Nat] /\ paid \in [Wallets -> Nat]
      /\ platformWallet \in Wallets
      /\ totals \in [deposited : Nat, platform : Nat, user : Nat, withdrawn : Nat]
      /\ botRole \subseteq Users /\ paused \in BOOLEAN
  BY DEF Vault, VaultTypeOK
<1>2. up \in Nat /\ pp \in Nat /\ up + pp = amount
  <2>1. up \in 0..amount /\ pp \in 0..amount
    BY PlatformPartType
  <2>2. QED BY <2>1 DEF UserPart
<1>3. /\ balance' = balance + up /\ rescued' = rescued
      /\ userBalances' = [userBalances EXCEPT ![user] = userBalances[user] + up]
      /\ paid' = [paid EXCEPT ![platformWallet] = paid[platformWallet] + pp]
      /\ totals' = [totals EXCEPT !.deposited = totals.deposited + amount,
                                  !.platform = totals.platform + pp,
                                  !.user = totals.user + up]
      /\ UNCHANGED <<platformWallet, botRole, paused>>
  BY DEF DepositProfit
<1> HIDE DEF up, pp
<1>4. SumOf(userBalances') = SumOf(userBalances) + up /\ SumOf(userBalances) \in Int
  <2>1. userBalances \in [Users -> Int] /\ up \in Int
    BY <1>1, <1>2
  <2>2. IsFiniteSet(Users) /\ userBalances' = [userBalances EXCEPT ![user] = userBalances[user] + up]
    BY <1>3, SomeAssumptions
  <2>3. SumOf(userBalances') = SumOf(userBalances) + up
    BY ONLY <2>1, <2>2, user \in Users, SumOneChanged
  <2>4. SumOf(userBalances) \in Int
    BY ONLY <2>1, <2>2, SumType
  <2>5. QED BY <2>3, <2>4
<1>5. SumOf(paid') = SumOf(paid) + pp /\ SumOf(paid) \in Int
  <2>1. paid \in [Wallets -> Int] /\ pp \in Int /\ platformWallet \in Wallets
    BY <1>1, <1>2
  <2>2. IsFiniteSet(Wallets) /\ paid' = [paid EXCEPT ![platformWallet] = paid[platformWallet] + pp]
    BY <1>3, SomeAssumptions
  <2>3. SumOf(paid') = SumOf(paid) + pp
    BY ONLY <2>1, <2>2, SumOneChanged
  <2>4. SumOf(paid) \in Int
    BY ONLY <2>1, <2>2, SumType
  <2>5. QED BY <2>3, <2>4
<1>6. /\ totals'.deposited = totals.deposited + amount /\ totals'.platform = totals.platform + pp
      /\ totals'.user = totals.user + up /\ totals'.withdrawn = totals.withdrawn
      /\ totals' \in [deposited : Nat, platform : Nat, user : Nat, withdrawn : Nat]
  <2>1. /\ totals \in [deposited : Nat, platform : Nat, user : Nat, withdrawn : Nat]
        /\ totals' = [totals EXCEPT !.deposited = totals.deposited + amount,
                                    !.platform = totals.platform + pp,
                                    !.user = totals.user + up]
    BY <1>1, <1>3
  <2>2. /\ totals.deposited + amount \in Nat /\ totals.platform + pp \in Nat
        /\ totals.user + up \in Nat
    BY <1>2, <2>1
  <2>3. /\ totals'.deposited = totals.deposited + amount
        /\ totals'.platform = totals.platform + pp
        /\ totals'.user = totals.user + up /\ totals'.withdrawn = totals.withdrawn
    BY ONLY <2>1
  <2>4. totals' \in [deposited : Nat, platform : Nat, user : Nat, withdrawn : Nat]
    BY ONLY <2>1, <2>2
  <2>5. QED BY <2>3, <2>4
<1>7. userBalances' \in [Users -> Nat] /\ paid' \in [Wallets -> Nat] /\ balance' \in Nat
  BY <1>1, <1>2, <1>3
<1>8. VaultTypeOK'
  BY <1>1, <1>3, <1>6, <1>7 DEF VaultTypeOK
<1>9. VaultSolvent'
  BY <1>1, <1>2, <1>3, <1>4 DEF Vault, VaultSolvent
<1>10. TotalsAddUp'
  BY <1>1, <1>2, <1>4, <1>5, <1>6 DEF Vault, TotalsAddUp
<1>11. Shares' = Shares + amount
  BY <1>2, <1>4, <1>5 DEF Shares
<1>12. QED BY <1>6, <1>8, <1>9, <1>10, <1>11 DEF Vault

LEMMA VaultWithdraw ==
  ASSUME Vault, NEW user \in Users, NEW amount \in Nat, Withdraw(user, amount)
  PROVE  Vault' /\ totals'.deposited = totals.deposited /\ Shares' = Shares - amount
<1>1. /\ balance \in Nat /\ rescued \in Nat
      /\ userBalances \in [Users -> Nat] /\ paid \in [Wallets -> Nat]
      /\ platformWallet \in Wallets
      /\ totals \in [deposited : Nat, platform : Nat, user : Nat, withdrawn : Nat]
      /\ botRole \subseteq Users /\ paused \in BOOLEAN
  BY DEF Vault, VaultTypeOK
<1>2. /\ amount <= userBalances[user] /\ amount <= balance
      /\ balance' = balance - amount /\ rescued' = rescued
      /\ userBalances' = [userBalances EXCEPT ![user] = userBalances[user] - amount]
      /\ totals' = [totals EXCEPT !.withdrawn = totals.withdrawn + amount]
      /\ UNCHANGED <<platformWallet, paid, botRole, paused>>
  BY DEF Withdraw
<1>3. SumOf(userBalances') = SumOf(userBalances) - amount /\ SumOf(userBalances) \in Int
  <2> DEFINE d == 0 - amount
  <2>1. userBalances \in [Users -> Int] /\ d \in Int
    BY <1>1
  <2>2. userBalances' = [userBalances EXCEPT ![user] = userBalances[user] + d]
    <3>1. userBalances[user] - amount = userBalances[user] + d
      BY <1>1
    <3>2. QED BY <1>2, <3>1
  <2> HIDE DEF d
  <2>3. IsFiniteSet(Users)
    BY SomeAssumptions
  <2>4. SumOf(userBalances') = SumOf(userBalances) + d
    BY ONLY <2>1, <2>2, <2>3, user \in Users, SumOneChanged
  <2>5. SumOf(userBalances) \in Int
    BY ONLY <2>1, <2>3, SumType
  <2>6. QED BY <2>4, <2>5 DEF d
<1>4. /\ totals'.deposited = totals.deposited /\ totals'.platform = totals.platform
      /\ totals'.user = totals.user /\ totals'.withdrawn = totals.withdrawn + amount
      /\ totals' \in [deposited : Nat, platform : Nat, user : Nat, withdrawn : Nat]
  BY <1>1, <1>2
<1>5. userBalances' \in [Users -> Nat] /\ balance' \in Nat
  <2>1. userBalances[user] - amount \in Nat /\ balance - amount \in Nat
    BY <1>1, <1>2
  <2>2. QED BY <1>1, <1>2, <2>1
<1>6. VaultTypeOK'
  BY <1>1, <1>2, <1>4, <1>5 DEF VaultTypeOK
<1>7. VaultSolvent'
  BY <1>1, <1>2, <1>3 DEF Vault, VaultSolvent
<1>8. TotalsAddUp'
  BY <1>1, <1>2, <1>3, <1>4 DEF Vault, TotalsAddUp
<1>9. Shares' = Shares - amount
  <2>1. SumOf(paid) \in Int
    BY <1>1, SomeAssumptions, SumType
  <2>2. SumOf(paid') = SumOf(paid)
    BY <1>2
  <2>3. QED BY <1>3, <2>1, <2>2 DEF Shares
<1>10. QED BY <1>4, <1>6, <1>7, <1>8, <1>9 DEF Vault

LEMMA VaultOthers ==
  ASSUME Vault,
         \/ \E w \in Wallets : SetPlatformWallet(w)
         \/ \E u \in Users : GrantOrRevokeBotRole(u)
         \/ PauseOrUnpause
         \/ \E amount \in 1..balance : EmergencyRescue(amount)
         \/ UNCHANGED vaultVars
  PROVE  Vault' /\ totals'.deposited = totals.deposited /\ Shares' = Shares
<1> USE DEF Vault
<1>1. UNCHANGED <<userBalances, paid, totals>>
  BY DEF SetPlatformWallet, GrantOrRevokeBotRole, PauseOrUnpause, EmergencyRescue, vaultVars
<1>2. balance' + rescued' = balance + rescued /\ balance' \in Nat /\ rescued' \in Nat
  <2>1. balance \in Nat /\ rescued \in Nat
    BY DEF VaultTypeOK
  <2>2. CASE \E amount \in 1..balance : EmergencyRescue(amount)
    BY <2>1, <2>2 DEF EmergencyRescue
  <2>3. CASE UNCHANGED <<balance, rescued>>
    BY <2>1, <2>3
  <2>4. QED
    BY <2>2, <2>3 DEF SetPlatformWallet, GrantOrRevokeBotRole, PauseOrUnpause, vaultVars
<1>3. platformWallet' \in Wallets /\ botRole' \subseteq Users /\ paused' \in BOOLEAN
  BY DEF VaultTypeOK, SetPlatformWallet, GrantOrRevokeBotRole, PauseOrUnpause,
         EmergencyRescue, vaultVars
<1>4. VaultTypeOK'
  BY <1>1, <1>2, <1>3 DEF VaultTypeOK
<1>5. VaultSolvent'
  BY <1>1, <1>2 DEF VaultSolvent
<1>6. TotalsAddUp' /\ totals'.deposited = totals.deposited /\ Shares' = Shares
  BY <1>1 DEF TotalsAddUp, Shares
<1>7. QED BY <1>4, <1>5, <1>6

-----------------------------------------------------------------------------
(***************************************************************************)
(* Types, the vault's books, and where the money is.                       *)
(***************************************************************************)
\* A task that has begun has an amount.
AmountsKnown == \A t \in Tasks : task[t].at # "idle" => task[t].amount \in Amounts

\* How the steps of a deposit task that send nothing go on.
LEMMA ReportIs ==
  ASSUME TypeOK, NEW t \in Tasks, NEW amount \in Amounts, Report(t, amount)
  PROVE  /\ task[t].at = "idle" /\ task' \in [Tasks -> TaskStates]
         /\ task'[t].at = "begun" /\ task'[t].amount = amount
         /\ task'[t].receipt = task[t].receipt
         /\ \A s \in Tasks \ {t} : task'[s] = task[s]
<1>1. task \in [Tasks -> TaskStates]
  BY DEF TypeOK, TaskStates
<1>2. /\ task' = [task EXCEPT ![t] = [task[t] EXCEPT !.at = "begun", !.amount = amount]]
      /\ task[t].at = "idle"
  BY <1>1 DEF Report
<1>3. task[t] \in TaskStates /\ [task[t] EXCEPT !.at = "begun", !.amount = amount] \in TaskStates
  <2>1. task[t] \in TaskStates /\ "begun" \in Phases
    BY <1>1 DEF Phases
  <2>2. QED BY <2>1 DEF TaskStates
<1>4. QED BY <1>1, <1>2, <1>3 DEF TaskStates

LEMMA SendIs ==
  ASSUME TypeOK, NEW t \in Tasks, task[t].amount \in Amounts,
         NEW kind, kind \in {"approve", "deposit"}, NEW phase, phase \in Phases,
         Send(t, kind, phase)
  PROVE  /\ task' \in [Tasks -> TaskStates]
         /\ task'[t].at = phase /\ task'[t].amount = task[t].amount /\ task'[t].receipt = "none"
         /\ \A s \in Tasks \ {t} : task'[s] = task[s]
         /\ mempool' \in Seq(Transactions) /\ Len(mempool) \in Nat
         /\ DOMAIN mempool = 1..Len(mempool) /\ DOMAIN mempool' = 1..(Len(mempool) + 1)
         /\ \A i \in DOMAIN mempool : mempool'[i] = mempool[i]
         /\ mempool'[Len(mempool) + 1].kind = kind
         /\ mempool'[Len(mempool) + 1].amount = task[t].amount
         /\ mempool'[Len(mempool) + 1].of = t
<1>1. task \in [Tasks -> TaskStates] /\ mempool \in Seq(Transactions)
  BY DEF TypeOK, TaskStates
<1> DEFINE tx == [kind |-> kind, amount |-> task[t].amount, of |-> t]
<1>2. /\ task' = [task EXCEPT ![t] = [task[t] EXCEPT !.at = phase, !.receipt = "none"]]
      /\ mempool' = Append(mempool, tx)
  BY <1>1 DEF Send
<1>3. /\ task[t] \in TaskStates
      /\ [task[t] EXCEPT !.at = phase, !.receipt = "none"] \in TaskStates
  <2>1. task[t] \in TaskStates /\ "none" \in Receipts
    BY <1>1 DEF Receipts
  <2>2. QED BY <2>1 DEF TaskStates
<1>4. /\ task' \in [Tasks -> TaskStates]
      /\ task'[t].at = phase /\ task'[t].amount = task[t].amount /\ task'[t].receipt = "none"
      /\ \A s \in Tasks \ {t} : task'[s] = task[s]
  BY <1>1, <1>2, <1>3 DEF TaskStates
<1>5. tx \in Transactions
  BY DEF Transactions
<1>6. tx.kind = kind /\ tx.amount = task[t].amount /\ tx.of = t
  OBVIOUS
<1> HIDE DEF tx
<1>7. /\ Append(mempool, tx) \in Seq(Transactions) /\ Len(mempool) \in Nat
      /\ DOMAIN mempool = 1..Len(mempool)
      /\ DOMAIN Append(mempool, tx) = 1..(Len(mempool) + 1)
      /\ \A i \in DOMAIN mempool : Append(mempool, tx)[i] = mempool[i]
      /\ Append(mempool, tx)[Len(mempool) + 1] = tx
  BY ONLY <1>1, <1>5, OneMore
<1>8. mempool' = Append(mempool, tx)
  BY <1>2
<1>9. QED BY ONLY <1>4, <1>6, <1>7, <1>8, Zenon

\* The steps of a deposit task that only move it on, and from where to where.
Moves(t) == ReadBalance(t) \/ ReadAllowance(t) \/ Approved(t) \/ Deposited(t) \/ DepositFails(t)

LEMMA MoveIs ==
  ASSUME TypeOK, NEW t \in Tasks, Moves(t)
  PROVE  /\ task' \in [Tasks -> TaskStates]
         /\ task'[t].amount = task[t].amount /\ task'[t].receipt = task[t].receipt
         /\ \A s \in Tasks \ {t} : task'[s] = task[s]
         /\ UNCHANGED <<vaultVars, executorVars, moneyVars, clash, collector, mempool, fromOthers>>
         /\ \/ /\ task[t].at = "begun" /\ wallet >= task[t].amount
               /\ task'[t].at = "balanced" /\ counted' = counted
            \/ task[t].at = "begun" /\ task'[t].at = "done" /\ counted' = counted
            \/ /\ task[t].at = "balanced" /\ allowance >= task[t].amount
               /\ task'[t].at = "approved" /\ counted' = counted
            \/ task[t].at = "balanced" /\ task'[t].at = "approve" /\ counted' = counted
            \/ /\ task[t].at = "approving" /\ task[t].receipt # "none"
               /\ task'[t].at = "approved" /\ counted' = counted
            \/ /\ task[t].at = "depositing" /\ task[t].receipt # "none"
               /\ task'[t].at = "done" /\ counted' = counted + task[t].amount
            \/ task[t].at \notin Ended /\ task'[t].at = "failed" /\ counted' = counted
<1>1. PICK phase : phase \in Phases /\ At(t, phase)
  BY DEF Moves, ReadBalance, ReadAllowance, Approved, Deposited, DepositFails, Phases
<1>2. /\ task' \in [Tasks -> TaskStates] /\ task'[t].at = phase
      /\ task'[t].amount = task[t].amount /\ task'[t].receipt = task[t].receipt
      /\ \A s \in Tasks \ {t} : task'[s] = task[s]
  BY <1>1, TaskAt
<1>3. UNCHANGED <<vaultVars, executorVars, moneyVars, clash, collector, mempool, fromOthers>>
  BY DEF Moves, ReadBalance, ReadAllowance, Approved, Deposited, DepositFails
<1>4. \A p : At(t, p) => task'[t].at = p
  BY DEF At, TypeOK
<1>5. CASE ReadBalance(t)
  <2>1. wallet \in Nat /\ task[t].amount \in Nat
    <3>1. wallet \in Nat /\ task \in [Tasks -> TaskStates]
      BY DEF TypeOK, TaskStates
    <3>2. task[t].amount \in Amounts \cup {0}
      BY <3>1 DEF TaskStates
    <3>3. Amounts \cup {0} \subseteq Nat
      BY ONLY CustodyAssumption
    <3>4. QED BY ONLY <3>1, <3>2, <3>3
  <2>2. QED BY <1>2, <1>3, <1>4, <1>5, <2>1 DEF ReadBalance
<1>6. CASE ReadAllowance(t)
  BY <1>2, <1>3, <1>4, <1>6 DEF ReadAllowance
<1>7. CASE Approved(t)
  BY <1>2, <1>3, <1>4, <1>7 DEF Approved
<1>8. CASE Deposited(t)
  BY <1>2, <1>3, <1>4, <1>8 DEF Deposited
<1>9. CASE DepositFails(t)
  BY <1>2, <1>3, <1>4, <1>9 DEF DepositFails
<1>10. QED BY <1>5, <1>6, <1>7, <1>8, <1>9 DEF Moves

\* The invariant of this part.
Money == TypeOK /\ AmountsKnown /\ VaultSolvent /\ TotalsAddUp /\ ProfitCoversAll

\* TypeOK from its parts.
LEMMA TypedAgain ==
  ASSUME VaultTypeOK', ExecutorTypeOK',
         wallet' \in Nat, allowance' \in Nat, counted' \in Nat, fromOthers' \in 0..MaxFromOthers,
         task' \in [Tasks -> TaskStates], collector' \in Nat,
         mempool' \in Seq(Transactions), clash' \in [Tasks -> BOOLEAN]
  PROVE  TypeOK'
BY DEF TypeOK, TaskStates

LEMMA MoneyStart == Init => Money
<1> SUFFICES ASSUME Init PROVE Money
  OBVIOUS
<1>1. Vault
  BY VaultStart DEF Init
<1>2. TypeOK /\ AmountsKnown
  <2>1. task \in [Tasks -> TaskStates]
    BY DEF Init, TaskStates, Phases, Receipts
  <2>2. ExecutorTypeOK
    BY ExecutorAssumption DEF Init, ExecutorInit, ExecutorTypeOK
  <2>3. wallet \in Nat /\ 0 \in 0..MaxFromOthers
    BY CustodyAssumption DEF Init
  <2>4. TypeOK
    BY <1>1, <2>1, <2>2, <2>3 DEF Init, Vault, TypeOK, TaskStates
  <2>5. QED BY <2>4 DEF Init, AmountsKnown
<1>3. ProfitCoversAll
  <2>1. /\ held = 0 /\ totalTrades = 0 /\ totalProfit = 0 /\ wallet = InitialWallet
        /\ fromOthers = 0 /\ totalTrades * Premium = 0
    BY ExecutorAssumption DEF Init, ExecutorInit
  <2>2. SumOf(userBalances) = 0 /\ SumOf(paid) = 0
    BY SomeAssumptions, SumOfNothing DEF Init, VaultInit
  <2>3. QED BY <2>1, <2>2, CustodyAssumption DEF ProfitCoversAll, Shares
<1>4. QED BY <1>1, <1>2, <1>3 DEF Money, Vault

\* A step that moves no money.
LEMMA NoMoneyMoved ==
  ASSUME ProfitCoversAll, VaultSolvent, TotalsAddUp, UNCHANGED <<vaultVars, executorVars, wallet, fromOthers>>
  PROVE  ProfitCoversAll' /\ VaultSolvent' /\ TotalsAddUp'
BY DEF ProfitCoversAll, Shares, VaultSolvent, TotalsAddUp, vaultVars, executorVars

LEMMA TaskKeepsMoney ==
  ASSUME Money, NEW t \in Tasks, DepositTask(t)
  PROVE  Money'
<1> USE DEF Money
<1>1. UNCHANGED <<vaultVars, executorVars, moneyVars, collector, fromOthers>>
  BY DEF DepositTask, Report, ReadBalance, ReadAllowance, SendApprove, Approved, SendDeposit,
         Deposited, DepositFails, Send
<1>2. /\ task' \in [Tasks -> TaskStates] /\ mempool' \in Seq(Transactions)
      /\ AmountsKnown' /\ counted' \in Nat /\ clash' \in [Tasks -> BOOLEAN]
  <2>0. /\ mempool \in Seq(Transactions) /\ counted \in Nat /\ clash \in [Tasks -> BOOLEAN]
        /\ \A a \in Amounts : a \in Nat
    BY CustodyAssumption DEF TypeOK
  <2>1. CASE Moves(t)
    <3>1. /\ task' \in [Tasks -> TaskStates]
          /\ task[t].at # "idle" /\ task'[t].amount = task[t].amount
          /\ \A s \in Tasks \ {t} : task'[s] = task[s]
          /\ mempool' = mempool /\ clash' = clash
          /\ counted' = counted \/ counted' = counted + task[t].amount
      BY <2>1, MoveIs DEF Ended
    <3>2. task[t].amount \in Amounts
      BY <3>1 DEF AmountsKnown
    <3>3. QED BY <2>0, <3>1, <3>2 DEF AmountsKnown
  <2>2. CASE \E amount \in Amounts : Report(t, amount)
    <3>1. PICK amount \in Amounts : Report(t, amount)
      BY <2>2
    <3>2. /\ task' \in [Tasks -> TaskStates] /\ task'[t].amount = amount
          /\ \A s \in Tasks \ {t} : task'[s] = task[s]
      BY <3>1, ReportIs
    <3>3. mempool' = mempool /\ counted' = counted /\ clash' \in [Tasks -> BOOLEAN]
      BY <3>1 DEF Report
    <3>4. QED BY <2>0, <3>2, <3>3 DEF AmountsKnown
  <2>3. CASE SendApprove(t) \/ SendDeposit(t)
    <3>1. task[t].amount \in Amounts
      BY <2>3 DEF AmountsKnown, SendApprove, SendDeposit
    <3>2. /\ task' \in [Tasks -> TaskStates] /\ mempool' \in Seq(Transactions)
          /\ task'[t].amount = task[t].amount
          /\ \A s \in Tasks \ {t} : task'[s] = task[s]
      <4>1. CASE Send(t, "approve", "approving")
        BY <3>1, <4>1, SendIs DEF Phases
      <4>2. CASE Send(t, "deposit", "depositing")
        BY <3>1, <4>2, SendIs DEF Phases
      <4>3. QED BY <2>3, <4>1, <4>2 DEF SendApprove, SendDeposit
    <3>3. counted' = counted /\ clash' = clash
      BY <2>3 DEF SendApprove, SendDeposit, Send
    <3>4. QED BY <2>0, <3>1, <3>2, <3>3 DEF AmountsKnown
  <2>4. QED BY <2>1, <2>2, <2>3 DEF DepositTask, Moves
<1>3. TypeOK'
  <2>1. /\ VaultTypeOK' /\ ExecutorTypeOK' /\ wallet' \in Nat /\ allowance' \in Nat
        /\ fromOthers' \in 0..MaxFromOthers /\ collector' \in Nat
    BY <1>1 DEF TypeOK, VaultTypeOK, ExecutorTypeOK, vaultVars, executorVars, moneyVars
  <2>2. QED BY <1>2, <2>1, TypedAgain
<1>4. ProfitCoversAll' /\ VaultSolvent' /\ TotalsAddUp'
  BY <1>1, NoMoneyMoved DEF moneyVars
<1>5. QED BY <1>2, <1>3, <1>4

LEMMA CollectorKeepsMoney ==
  ASSUME Money, Collector
  PROVE  Money'
<1> USE DEF Money
<1>1. UNCHANGED <<vaultVars, executorVars, moneyVars, clientVars, fromOthers>>
  BY DEF Collector, ReadExecutorBalance, SendRescue, CollectionFails, CollectorReads
<1>2. collector' \in Nat
  BY DEF Collector, ReadExecutorBalance, SendRescue, CollectionFails, CollectorReads, TypeOK,
         ExecutorTypeOK
<1>3. mempool' \in Seq(Transactions)
  <2>1. mempool \in Seq(Transactions) /\ collector \in Nat
    BY DEF TypeOK
  <2>2. [kind |-> "rescue", amount |-> collector] \in Transactions
    BY <2>1 DEF Transactions
  <2>3. Append(mempool, [kind |-> "rescue", amount |-> collector]) \in Seq(Transactions)
    BY ONLY <2>1, <2>2, OneMore
  <2>4. mempool' = mempool \/ mempool' = Append(mempool, [kind |-> "rescue", amount |-> collector])
    BY DEF Collector, ReadExecutorBalance, SendRescue, CollectionFails
  <2>5. QED BY ONLY <2>1, <2>3, <2>4, Zenon
<1>4. TypeOK'
  <2>1. /\ VaultTypeOK' /\ ExecutorTypeOK' /\ wallet' \in Nat /\ allowance' \in Nat
        /\ fromOthers' \in 0..MaxFromOthers /\ counted' \in Nat /\ clash' \in [Tasks -> BOOLEAN]
        /\ task' \in [Tasks -> TaskStates]
    BY <1>1 DEF TypeOK, VaultTypeOK, ExecutorTypeOK, vaultVars, executorVars, moneyVars,
                clientVars, TaskStates
  <2>2. QED BY <1>2, <1>3, <2>1, TypedAgain
<1>5. ProfitCoversAll' /\ VaultSolvent' /\ TotalsAddUp'
  BY <1>1, NoMoneyMoved DEF moneyVars
<1>6. AmountsKnown'
  BY <1>1 DEF AmountsKnown, clientVars
<1>7. QED BY <1>4, <1>5, <1>6

\* What is mined is the first of the transactions.
LEMMA MineIs ==
  ASSUME TypeOK, Mine
  PROVE  /\ mempool' \in Seq(Transactions) /\ Len(mempool) \in Nat /\ Len(mempool) > 0
         /\ DOMAIN mempool = 1..Len(mempool) /\ DOMAIN mempool' = 1..(Len(mempool) - 1)
         /\ \A i \in DOMAIN mempool' : mempool'[i] = mempool[i + 1]
         /\ mempool[1] \in Transactions
         /\ MineApprove(mempool[1]) \/ MineDeposit(mempool[1]) \/ MineRescue(mempool[1])
         /\ UNCHANGED <<counted, clash, collector, fromOthers>>
<1>1. mempool \in Seq(Transactions) /\ mempool # << >> /\ mempool' = Tail(mempool)
  BY DEF TypeOK, Mine
<1>2. /\ Tail(mempool) \in Seq(Transactions) /\ Len(mempool) \in Nat /\ Len(mempool) > 0
      /\ DOMAIN mempool = 1..Len(mempool) /\ DOMAIN Tail(mempool) = 1..(Len(mempool) - 1)
      /\ \A i \in DOMAIN Tail(mempool) : Tail(mempool)[i] = mempool[i + 1]
      /\ Head(mempool) = mempool[1] /\ Head(mempool) \in Transactions
  BY ONLY <1>1, OneLess
<1>3. /\ MineApprove(Head(mempool)) \/ MineDeposit(Head(mempool)) \/ MineRescue(Head(mempool))
      /\ UNCHANGED <<counted, clash, collector, fromOthers>>
  BY DEF Mine
<1>4. Head(mempool) = mempool[1] /\ mempool' = Tail(mempool)
  BY <1>1, <1>2
<1>5. MineApprove(mempool[1]) \/ MineDeposit(mempool[1]) \/ MineRescue(mempool[1])
  BY ONLY <1>3, <1>4, Zenon
<1>6. QED BY ONLY <1>2, <1>3, <1>4, <1>5, Zenon

\* The deposit arrives, or reverts and changes nothing but the receipt.
DepositArrives(tx) ==
  /\ tx.kind = "deposit" /\ tx.amount <= wallet /\ tx.amount <= allowance
  /\ Receipt(tx.of, "done")
  /\ DepositProfit(Bot, tx.amount, Bot)
  /\ wallet' = wallet - tx.amount /\ allowance' = allowance - tx.amount
  /\ UNCHANGED executorVars
DepositReverts(tx, status) ==
  /\ tx.kind = "deposit" /\ status \in {"short", "barred"}
  /\ status = "short" => wallet < tx.amount \/ allowance < tx.amount
  /\ Receipt(tx.of, status)
  /\ UNCHANGED <<vaultVars, moneyVars, executorVars>>

LEMMA DepositsEnd ==
  ASSUME TypeOK, NEW tx, tx \in Transactions, MineDeposit(tx)
  PROVE  DepositArrives(tx) \/ \E status : DepositReverts(tx, status)
<1>1. tx.kind = "deposit" /\ wallet \in Int /\ allowance \in Int /\ tx.amount \in Int
  <2>1. tx.kind = "deposit"
    BY DEF MineDeposit
  <2>2. tx.amount \in Amounts
    BY <2>1, TransactionKinds
  <2>3. wallet \in Nat /\ allowance \in Nat
    BY DEF TypeOK
  <2>4. QED BY ONLY <2>1, <2>2, <2>3, AmountsAre
<1>2. CASE ~MayDeposit(Bot)
  <2>1. DepositReverts(tx, "barred")
    BY <1>1, <1>2 DEF MineDeposit, DepositReverts
  <2>2. QED BY <2>1
<1>3. CASE MayDeposit(Bot) /\ (wallet < tx.amount \/ allowance < tx.amount)
  <2>1. DepositReverts(tx, "short")
    BY <1>1, <1>3 DEF MineDeposit, DepositReverts
  <2>2. QED BY <2>1
<1>4. CASE MayDeposit(Bot) /\ ~(wallet < tx.amount) /\ ~(allowance < tx.amount)
  <2>1. DepositArrives(tx)
    BY <1>1, <1>4 DEF MineDeposit, DepositArrives
  <2>2. QED BY <2>1
<1>5. QED BY <1>2, <1>3, <1>4

LEMMA MineKeepsMoney ==
  ASSUME Money, Mine
  PROVE  Money'
<1> USE DEF Money
<1> DEFINE tx == mempool[1]
           cost == totalTrades * Premium
<1>1. /\ mempool' \in Seq(Transactions) /\ tx \in Transactions
      /\ MineApprove(tx) \/ MineDeposit(tx) \/ MineRescue(tx)
      /\ UNCHANGED <<counted, clash, collector, fromOthers>>
  BY MineIs
<1>2. /\ held \in Nat /\ wallet \in Nat /\ allowance \in Nat /\ Shares \in Int
      /\ fromOthers \in Nat /\ totalProfit \in Nat /\ cost \in Int
      /\ InitialWallet \in Nat
  <2>1. cost \in Int
    BY ExecutorAssumption DEF TypeOK, ExecutorTypeOK
  <2>2. fromOthers \in 0..MaxFromOthers /\ MaxFromOthers \in Nat /\ InitialWallet \in Nat
    BY CustodyAssumption DEF TypeOK
  <2>3. Shares \in Int
    BY SharesType DEF Vault, TypeOK
  <2>4. QED BY <2>1, <2>2, <2>3 DEF TypeOK, VaultTypeOK, ExecutorTypeOK
<1>3. held + wallet + Shares + cost <= InitialWallet + totalProfit + fromOthers
  BY DEF ProfitCoversAll
<1>4. /\ counted' \in Nat /\ clash' \in [Tasks -> BOOLEAN] /\ collector' \in Nat
      /\ fromOthers' \in 0..MaxFromOthers
  BY <1>1 DEF TypeOK
<1>5. Vault
  BY DEF Vault, TypeOK
<1> HIDE DEF tx, cost
<1>6. ASSUME tx.kind \in {"approve", "deposit"}, NEW status, status \in Receipts,
             Receipt(tx.of, status)
      PROVE  task' \in [Tasks -> TaskStates] /\ AmountsKnown'
  <2>1. tx.of \in Tasks
    BY <1>1, <1>6, TransactionKinds
  <2>2. /\ task' \in [Tasks -> TaskStates]
        /\ task'[tx.of].amount = task[tx.of].amount /\ task'[tx.of].at = task[tx.of].at
        /\ \A s \in Tasks \ {tx.of} : task'[s] = task[s]
    BY ONLY <1>6, <2>1, Money, TaskReceipt DEF Money
  <2>3. QED BY <2>2 DEF AmountsKnown
<1>7. CASE MineApprove(tx)
  <2>1. /\ tx.kind = "approve" /\ allowance' = tx.amount /\ Receipt(tx.of, "done")
        /\ UNCHANGED <<vaultVars, executorVars, wallet>>
    BY <1>7 DEF MineApprove
  <2>2. allowance' \in Nat
    <3>1. tx.amount \in Amounts
      BY <1>1, <2>1, TransactionKinds
    <3>2. QED BY <2>1, <3>1, AmountsAre
  <2>3. task' \in [Tasks -> TaskStates] /\ AmountsKnown'
    BY <1>6, <2>1 DEF Receipts
  <2>4. VaultTypeOK' /\ ExecutorTypeOK' /\ wallet' \in Nat
    BY <2>1 DEF TypeOK, VaultTypeOK, ExecutorTypeOK, vaultVars, executorVars
  <2>5. TypeOK'
    BY <1>1, <1>4, <2>2, <2>3, <2>4, TypedAgain
  <2>6. ProfitCoversAll' /\ VaultSolvent' /\ TotalsAddUp'
    BY <1>1, <2>1, NoMoneyMoved
  <2>7. QED BY <2>3, <2>5, <2>6
<1>8. CASE DepositArrives(tx)
  <2>1. /\ tx.kind = "deposit" /\ Receipt(tx.of, "done") /\ DepositProfit(Bot, tx.amount, Bot)
        /\ tx.amount <= wallet /\ tx.amount <= allowance
        /\ wallet' = wallet - tx.amount /\ allowance' = allowance - tx.amount
        /\ UNCHANGED executorVars
    BY <1>8 DEF DepositArrives
  <2>2. tx.amount \in Nat
    <3>1. tx.amount \in Amounts
      BY <1>1, <2>1, TransactionKinds
    <3>2. QED BY <3>1, AmountsAre
  <2>3. task' \in [Tasks -> TaskStates] /\ AmountsKnown'
    BY <1>6, <2>1 DEF Receipts
  <2>4. Vault' /\ Shares' = Shares + tx.amount
    BY ONLY <1>5, <2>1, <2>2, SomeAssumptions, VaultDeposit
  <2>5. wallet' \in Nat /\ allowance' \in Nat
    BY ONLY <1>2, <2>1, <2>2
  <2>6. held' = held /\ totalProfit' = totalProfit /\ cost' = cost /\ ExecutorTypeOK'
    BY <2>1 DEF executorVars, cost, TypeOK, ExecutorTypeOK
  <2>7. TypeOK'
    BY <1>1, <1>4, <2>3, <2>4, <2>5, <2>6, TypedAgain DEF Vault
  <2>8. held' + wallet' + Shares' + cost' <= InitialWallet + totalProfit' + fromOthers'
    <3>1. /\ held' = held /\ totalProfit' = totalProfit /\ cost' = cost /\ fromOthers' = fromOthers
          /\ wallet' = wallet - tx.amount /\ Shares' = Shares + tx.amount
      BY <1>1, <2>1, <2>4, <2>6
    <3>2. QED BY ONLY <1>2, <1>3, <2>2, <3>1
  <2>9. QED BY <2>3, <2>4, <2>7, <2>8 DEF Vault, ProfitCoversAll, cost
<1>9. CASE \E status : DepositReverts(tx, status)
  <2>1. PICK status : DepositReverts(tx, status)
    BY <1>9
  <2>2. /\ tx.kind = "deposit" /\ status \in Receipts /\ Receipt(tx.of, status)
        /\ UNCHANGED <<vaultVars, moneyVars, executorVars>>
    BY <2>1 DEF DepositReverts, Receipts
  <2>3. task' \in [Tasks -> TaskStates] /\ AmountsKnown'
    BY <1>6, <2>2
  <2>4. VaultTypeOK' /\ ExecutorTypeOK' /\ wallet' \in Nat /\ allowance' \in Nat
    BY <2>2 DEF TypeOK, VaultTypeOK, ExecutorTypeOK, vaultVars, executorVars, moneyVars
  <2>5. TypeOK'
    BY <1>1, <1>4, <2>3, <2>4, TypedAgain
  <2>6. ProfitCoversAll' /\ VaultSolvent' /\ TotalsAddUp'
    BY <1>1, <2>2, NoMoneyMoved DEF moneyVars
  <2>7. QED BY <2>3, <2>5, <2>6
<1>10. CASE MineRescue(tx)
  <2>1. tx.amount \in Nat /\ UNCHANGED <<vaultVars, task, allowance>>
    BY <1>1, <1>10, TransactionKinds DEF MineRescue
  <2>2. \/ /\ tx.amount <= held /\ held' = held - tx.amount /\ wallet' = wallet + tx.amount
           /\ UNCHANGED <<totalProfit, totalTrades>>
        \/ UNCHANGED <<held, wallet, totalProfit, totalTrades>>
    BY <1>10 DEF MineRescue, RescueFunds, MayRescue, executorVars
  <2>3. held' \in Nat /\ wallet' \in Nat /\ held' + wallet' = held + wallet
    BY ONLY <1>2, <2>1, <2>2
  <2>4. /\ VaultTypeOK' /\ ExecutorTypeOK' /\ allowance' \in Nat /\ task' \in [Tasks -> TaskStates]
        /\ AmountsKnown' /\ VaultSolvent' /\ TotalsAddUp'
        /\ Shares' = Shares /\ totalProfit' = totalProfit /\ cost' = cost
    BY <2>1, <2>2, <2>3 DEF TypeOK, VaultTypeOK, ExecutorTypeOK, vaultVars, TaskStates,
       AmountsKnown, VaultSolvent, TotalsAddUp, Shares, cost
  <2>5. TypeOK'
    BY <1>1, <1>4, <2>3, <2>4, TypedAgain
  <2>6. held' + wallet' + Shares' + cost' <= InitialWallet + totalProfit' + fromOthers'
    BY ONLY <1>1, <1>2, <1>3, <2>3, <2>4
  <2>7. QED BY <2>4, <2>5, <2>6 DEF ProfitCoversAll, cost
<1>11. QED BY <1>1, <1>7, <1>8, <1>9, <1>10, DepositsEnd

LEMMA TradeKeepsMoney ==
  ASSUME Money, Trade
  PROVE  Money'
<1> USE DEF Money
<1>1. /\ UNCHANGED <<vaultVars, moneyVars, clientVars, collector, mempool, fromOthers>>
      /\ \E gain \in Gains : ExecuteArb(gain) \/ ExecuteLiquidation(gain)
  BY DEF Trade
<1>2. PICK gain \in Gains : ExecuteArb(gain) \/ ExecuteLiquidation(gain)
  BY <1>1
<1>3. /\ gain \in Int /\ held \in Nat /\ Premium \in Nat /\ MaxTrades \in Nat
      /\ totalProfit \in Nat /\ totalTrades \in 0..MaxTrades /\ totalTrades \in Int
  BY ExecutorAssumption DEF TypeOK, ExecutorTypeOK
<1>4. PICK profit \in Nat : gain <= profit /\ Repay(gain, profit)
  <2>1. CASE ExecuteArb(gain)
    <3>1. gain \in Nat /\ Repay(gain, gain)
      BY <1>3, <2>1 DEF ExecuteArb
    <3>2. gain <= gain
      BY <1>3
    <3>3. QED BY <3>1, <3>2
  <2>2. CASE ExecuteLiquidation(gain)
    <3> DEFINE left == IF held + gain > 0 THEN held + gain ELSE 0
    <3>1. Repay(gain, left)
      BY <2>2 DEF ExecuteLiquidation
    <3>2. left \in Nat /\ gain <= left
      BY <1>3
    <3> HIDE DEF left
    <3>3. QED BY <3>1, <3>2
  <2>3. QED BY <1>2, <2>1, <2>2
<1>5. /\ totalTrades < MaxTrades /\ held + gain >= Premium /\ held' = held + gain - Premium
      /\ totalProfit' = totalProfit + profit /\ totalTrades' = totalTrades + 1
  BY <1>4 DEF Repay
<1>6. ExecutorTypeOK'
  <2>1. held' \in Nat /\ totalProfit' \in Nat /\ totalTrades' \in 0..MaxTrades
    BY ONLY <1>3, <1>5, profit \in Nat
  <2>2. QED BY <2>1 DEF ExecutorTypeOK
<1>7. TypeOK'
  <2>1. /\ VaultTypeOK' /\ wallet' \in Nat /\ allowance' \in Nat /\ counted' \in Nat
        /\ fromOthers' \in 0..MaxFromOthers /\ task' \in [Tasks -> TaskStates]
        /\ collector' \in Nat /\ mempool' \in Seq(Transactions) /\ clash' \in [Tasks -> BOOLEAN]
    BY <1>1 DEF TypeOK, VaultTypeOK, vaultVars, moneyVars, clientVars, TaskStates
  <2>2. QED BY <1>6, <2>1, TypedAgain
<1>8. VaultSolvent' /\ TotalsAddUp' /\ AmountsKnown'
  BY <1>1 DEF VaultSolvent, TotalsAddUp, AmountsKnown, vaultVars, clientVars
<1>9. ProfitCoversAll'
  <2> DEFINE cost == totalTrades * Premium
  <2>1. cost \in Int /\ cost' = cost + Premium
    BY ONLY <1>3, <1>5 DEF cost
  <2>2. /\ wallet \in Nat /\ Shares \in Int /\ InitialWallet \in Nat /\ fromOthers \in Nat
        /\ wallet' = wallet /\ Shares' = Shares /\ fromOthers' = fromOthers
    <3>1. fromOthers \in 0..MaxFromOthers /\ MaxFromOthers \in Nat /\ InitialWallet \in Nat
      BY CustodyAssumption DEF TypeOK
    <3>2. Shares \in Int /\ Shares' = Shares
      BY <1>1, SharesType DEF Vault, TypeOK, Shares, vaultVars
    <3>3. QED BY <1>1, <3>1, <3>2 DEF TypeOK, moneyVars
  <2>3. held + wallet + Shares + cost <= InitialWallet + totalProfit + fromOthers
    BY DEF ProfitCoversAll
  <2> HIDE DEF cost
  <2>4. held' + wallet' + Shares' + cost' <= InitialWallet + totalProfit' + fromOthers'
    BY ONLY <1>3, <1>4, <1>5, <2>1, <2>2, <2>3, profit \in Nat
  <2>5. QED BY <2>4 DEF cost, ProfitCoversAll
<1>10. QED BY <1>7, <1>8, <1>9

\* A withdrawal: the bot's own share comes back to the wallet, any other leaves.
LEMMA WithdrawalIs ==
  ASSUME TypeOK, VaultSolvent, TotalsAddUp, Withdrawal
  PROVE  /\ Vault' /\ totals'.deposited = totals.deposited
         /\ \E amount \in Nat : /\ Shares' = Shares - amount
                                /\ wallet' = wallet \/ wallet' = wallet + amount
<1>1. PICK u \in Users : \E amount \in 1..userBalances[u] :
          Withdraw(u, amount) /\ wallet' = IF u = Bot THEN wallet + amount ELSE wallet
  BY DEF Withdrawal
<1>2. PICK amount \in 1..userBalances[u] :
          Withdraw(u, amount) /\ wallet' = IF u = Bot THEN wallet + amount ELSE wallet
  BY <1>1
<1>3. userBalances[u] \in Nat
  BY DEF TypeOK, VaultTypeOK
<1>4. amount \in Nat
  BY <1>3
<1>5. Vault
  BY DEF TypeOK, Vault
<1>6. Vault' /\ totals'.deposited = totals.deposited /\ Shares' = Shares - amount
  BY ONLY <1>2, <1>4, <1>5, u \in Users, VaultWithdraw
<1>7. QED BY <1>2, <1>4, <1>6

LEMMA WithdrawalKeepsMoney ==
  ASSUME Money, Withdrawal
  PROVE  Money'
<1> USE DEF Money
<1>1. UNCHANGED <<executorVars, allowance, clientVars, collector, mempool, fromOthers>>
  BY DEF Withdrawal
<1>2. Vault'
  BY WithdrawalIs
<1>3. PICK amount \in Nat : /\ Shares' = Shares - amount
                            /\ wallet' = wallet \/ wallet' = wallet + amount
  BY WithdrawalIs
<1>4. wallet \in Nat /\ Shares \in Int
  BY SharesType DEF TypeOK, Vault
<1>5. TypeOK'
  <2>1. wallet' \in Nat
    BY ONLY <1>3, <1>4
  <2>2. /\ ExecutorTypeOK' /\ allowance' \in Nat /\ counted' \in Nat
        /\ fromOthers' \in 0..MaxFromOthers /\ task' \in [Tasks -> TaskStates]
        /\ collector' \in Nat /\ mempool' \in Seq(Transactions) /\ clash' \in [Tasks -> BOOLEAN]
    BY <1>1 DEF TypeOK, ExecutorTypeOK, executorVars, clientVars, TaskStates
  <2>3. QED BY <1>2, <2>1, <2>2, TypedAgain DEF Vault
<1>6. ProfitCoversAll'
  <2> DEFINE cost == totalTrades * Premium
             cover == InitialWallet + totalProfit + fromOthers
  <2>1. /\ held \in Nat /\ cost \in Int /\ cover \in Int
        /\ held' = held /\ cost' = cost /\ cover' = cover
    <3>1. fromOthers \in 0..MaxFromOthers /\ MaxFromOthers \in Nat /\ InitialWallet \in Nat
      BY CustodyAssumption DEF TypeOK
    <3>2. held \in Nat /\ totalProfit \in Nat /\ cost \in Int
      BY ExecutorAssumption DEF TypeOK, ExecutorTypeOK
    <3>3. held' = held /\ cost' = cost /\ cover' = cover
      BY <1>1 DEF executorVars
    <3>4. QED BY <3>1, <3>2, <3>3
  <2>2. held + wallet + Shares + cost <= cover
    BY DEF ProfitCoversAll
  <2> HIDE DEF cost, cover
  <2>3. held' + wallet' + Shares' + cost' <= cover'
    BY ONLY <1>3, <1>4, <2>1, <2>2
  <2>4. QED BY <2>3 DEF cost, cover, ProfitCoversAll
<1>7. AmountsKnown'
  BY <1>1 DEF AmountsKnown, clientVars
<1>8. QED BY <1>2, <1>5, <1>6, <1>7 DEF Vault

LEMMA VaultCallKeepsMoney ==
  ASSUME Money, VaultCall
  PROVE  Money'
<1> USE DEF Money
<1>1. UNCHANGED <<executorVars, moneyVars, clientVars, collector, mempool, fromOthers>>
  BY DEF VaultCall
<1>2. Vault
  BY DEF TypeOK, Vault
<1>3. Vault' /\ Shares' = Shares
  BY <1>2, VaultOthers DEF VaultCall
<1>4. TypeOK'
  <2>1. /\ ExecutorTypeOK' /\ wallet' \in Nat /\ allowance' \in Nat /\ counted' \in Nat
        /\ fromOthers' \in 0..MaxFromOthers /\ task' \in [Tasks -> TaskStates]
        /\ collector' \in Nat /\ mempool' \in Seq(Transactions) /\ clash' \in [Tasks -> BOOLEAN]
    BY <1>1 DEF TypeOK, ExecutorTypeOK, executorVars, moneyVars, clientVars, TaskStates
  <2>2. QED BY <1>3, <2>1, TypedAgain DEF Vault
<1>5. ProfitCoversAll'
  BY <1>1, <1>3 DEF ProfitCoversAll, executorVars, moneyVars
<1>6. AmountsKnown'
  BY <1>1 DEF AmountsKnown, clientVars
<1>7. QED BY <1>3, <1>4, <1>5, <1>6 DEF Vault

LEMMA OtherKeepsMoney ==
  ASSUME Money, OtherDeposits
  PROVE  Money'
<1> USE DEF Money
<1>1. UNCHANGED <<executorVars, moneyVars, clientVars, collector, mempool>>
  BY DEF OtherDeposits
<1>2. PICK amount \in Amounts : /\ fromOthers + amount <= MaxFromOthers
                               /\ DepositProfit(Other, amount, Other)
                               /\ fromOthers' = fromOthers + amount
  BY DEF OtherDeposits
<1>3. amount \in Nat /\ fromOthers \in Nat /\ MaxFromOthers \in Nat
  BY AmountsAre, CustodyAssumption DEF TypeOK
<1>4. Vault
  BY DEF TypeOK, Vault
<1>5. Vault' /\ Shares' = Shares + amount
  BY ONLY <1>2, <1>3, <1>4, SomeAssumptions, VaultDeposit
<1>6. fromOthers' \in 0..MaxFromOthers
  BY ONLY <1>2, <1>3
<1>7. TypeOK'
  <2>1. /\ ExecutorTypeOK' /\ wallet' \in Nat /\ allowance' \in Nat /\ counted' \in Nat
        /\ task' \in [Tasks -> TaskStates]
        /\ collector' \in Nat /\ mempool' \in Seq(Transactions) /\ clash' \in [Tasks -> BOOLEAN]
    BY <1>1 DEF TypeOK, ExecutorTypeOK, executorVars, moneyVars, clientVars, TaskStates
  <2>2. QED BY <1>5, <1>6, <2>1, TypedAgain DEF Vault
<1>8. ProfitCoversAll'
  <2> DEFINE cost == totalTrades * Premium
             base == InitialWallet + totalProfit
  <2>1. /\ held \in Nat /\ wallet \in Nat /\ Shares \in Int /\ cost \in Int /\ base \in Int
    BY <1>4, SharesType, ExecutorAssumption, CustodyAssumption DEF TypeOK, ExecutorTypeOK
  <2>2. held' = held /\ wallet' = wallet /\ cost' = cost /\ base' = base
    BY <1>1 DEF executorVars, moneyVars
  <2>3. held + wallet + Shares + cost <= base + fromOthers
    BY DEF ProfitCoversAll
  <2> HIDE DEF cost, base
  <2>4. held' + wallet' + Shares' + cost' <= base' + fromOthers'
    BY ONLY <1>2, <1>3, <1>5, <2>1, <2>2, <2>3
  <2>5. QED BY <2>4 DEF cost, base, ProfitCoversAll
<1>9. AmountsKnown'
  BY <1>1 DEF AmountsKnown, clientVars
<1>10. QED BY <1>5, <1>7, <1>8, <1>9 DEF Vault

(***************************************************************************)
(* Wherever the money is, it was earned: types, the vault's books and the  *)
(* bound on what executor, wallet, users and platform have together, the   *)
(* bot's own withdrawals back to its wallet included.                      *)
(***************************************************************************)
THEOREM MoneyInvariant == Spec => []Money
<1>1. Money /\ [Next]_vars => Money'
  <2> SUFFICES ASSUME Money, [Next]_vars PROVE Money'
    OBVIOUS
  <2>1. CASE \E t \in Tasks : DepositTask(t)
    BY <2>1, TaskKeepsMoney
  <2>2. CASE Collector
    BY <2>2, CollectorKeepsMoney
  <2>3. CASE Mine
    BY <2>3, MineKeepsMoney
  <2>4. CASE Trade
    BY <2>4, TradeKeepsMoney
  <2>5. CASE OtherDeposits
    BY <2>5, OtherKeepsMoney
  <2>6. CASE VaultCall
    BY <2>6, VaultCallKeepsMoney
  <2>7. CASE Withdrawal
    BY <2>7, WithdrawalKeepsMoney
  <2>8. CASE UNCHANGED vars
    BY <2>8 DEF vars, vaultVars, executorVars, moneyVars, clientVars, Money, TypeOK, VaultTypeOK,
       ExecutorTypeOK, AmountsKnown, VaultSolvent, TotalsAddUp, ProfitCoversAll, Shares
  <2>9. QED BY <2>1, <2>2, <2>3, <2>4, <2>5, <2>6, <2>7, <2>8 DEF Next
<1>2. QED BY <1>1, MoneyStart, PTL DEF Spec

(***************************************************************************)
(* The vault owes what it holds, but for an emergency rescue, and its      *)
(* totals add up, for any share, wallet and user.                          *)
(***************************************************************************)
THEOREM VaultBooksTheorem == Spec => []VaultBooks
<1>1. Money => VaultBooks
  BY DEF Money, VaultBooks
<1>2. QED BY <1>1, MoneyInvariant, PTL

(***************************************************************************)
(* No late or repeated rescue, no failed deposit, no withdrawal and no     *)
(* share deposited a second time makes money out of nothing.               *)
(***************************************************************************)
THEOREM ProfitCoversAllTheorem == Spec => []ProfitCoversAll
<1>1. Money => ProfitCoversAll
  BY DEF Money
<1>2. QED BY <1>1, MoneyInvariant, PTL

-----------------------------------------------------------------------------
(***************************************************************************)
(* The bot's transactions and the tasks that sent them: a task has one at  *)
(* most, and unless the task has failed it waits for this one.             *)
(***************************************************************************)
FromTask(tx) == tx.kind # "rescue"
Fits(tx, state) ==
  /\ tx.amount = state.amount
  /\ \/ state.at = "failed"
     \/ /\ state.receipt = "none"
        /\ \/ tx.kind = "approve" /\ state.at = "approving"
           \/ tx.kind = "deposit" /\ state.at = "depositing"

Queue ==
  /\ \A i \in DOMAIN mempool : FromTask(mempool[i]) => Fits(mempool[i], task[mempool[i].of])
  /\ \A i, j \in DOMAIN mempool :
       FromTask(mempool[i]) /\ FromTask(mempool[j]) /\ mempool[i].of = mempool[j].of => i = j

\* No receipt is known before the first transaction is sent.
NoReceiptYet ==
  \A t \in Tasks : task[t].at \in {"idle", "begun", "balanced", "approve"} => task[t].receipt = "none"

LEMMA PendingAt ==
  ASSUME Queue, NEW i \in DOMAIN mempool, FromTask(mempool[i])
  PROVE  task[mempool[i].of].at \in {"failed", "approving", "depositing"}
BY DEF Queue, Fits

LEMMA TaskKeepsQueue ==
  ASSUME Money, Queue, NoReceiptYet, NEW t \in Tasks, DepositTask(t)
  PROVE  Queue' /\ NoReceiptYet'
<1>1. TypeOK
  BY DEF Money
<1>2. CASE Moves(t)
  <2>1. /\ \A s \in Tasks \ {t} : task'[s] = task[s]
        /\ mempool' = mempool
        /\ task'[t].amount = task[t].amount /\ task'[t].receipt = task[t].receipt
    BY <1>1, <1>2, MoveIs
  <2>2. \/ task[t].at = "begun" /\ task'[t].at \in {"balanced", "done"}
        \/ task[t].at = "balanced" /\ task'[t].at \in {"approved", "approve"}
        \/ task[t].at = "approving" /\ task[t].receipt # "none" /\ task'[t].at = "approved"
        \/ task[t].at = "depositing" /\ task[t].receipt # "none" /\ task'[t].at = "done"
        \/ task[t].at # "failed" /\ task'[t].at = "failed"
    BY <1>1, <1>2, MoveIs DEF Ended
  <2>3. ASSUME NEW tx, FromTask(tx), tx \in Transactions, Fits(tx, task[tx.of])
        PROVE  Fits(tx, task'[tx.of])
    <3>1. tx.of \in Tasks
      BY <2>3, TransactionKinds DEF FromTask
    <3>2. CASE tx.of = t
      BY <2>1, <2>2, <2>3, <3>2 DEF Fits
    <3>3. CASE tx.of # t
      BY <2>1, <2>3, <3>1, <3>3
    <3>4. QED BY <3>2, <3>3
  <2>4. \A i \in DOMAIN mempool : mempool[i] \in Transactions
    BY <1>1 DEF TypeOK
  <2>5. Queue'
    BY <2>1, <2>3, <2>4 DEF Queue
  <2>6. NoReceiptYet'
    BY <2>1, <2>2 DEF NoReceiptYet
  <2>7. QED BY <2>5, <2>6
<1>3. CASE \E amount \in Amounts : Report(t, amount)
  <2>1. PICK amount \in Amounts : Report(t, amount)
    BY <1>3
  <2>2. /\ task[t].at = "idle" /\ task'[t].at = "begun" /\ task'[t].receipt = task[t].receipt
        /\ \A s \in Tasks \ {t} : task'[s] = task[s]
    BY <1>1, <2>1, ReportIs
  <2>3. mempool' = mempool
    BY <2>1 DEF Report
  <2>4. ASSUME NEW i \in DOMAIN mempool, FromTask(mempool[i])
        PROVE  mempool[i].of \in Tasks \ {t}
    <3>1. mempool[i] \in Transactions
      BY <1>1 DEF TypeOK
    <3>2. mempool[i].of \in Tasks
      BY <2>4, <3>1, TransactionKinds DEF FromTask
    <3>3. task[mempool[i].of].at # "idle"
      BY <2>4, PendingAt
    <3>4. QED BY <2>2, <3>2, <3>3
  <2>5. Queue'
    BY <2>2, <2>3, <2>4 DEF Queue
  <2>6. NoReceiptYet'
    BY <2>2 DEF NoReceiptYet
  <2>7. QED BY <2>5, <2>6
<1>4. CASE SendApprove(t) \/ SendDeposit(t)
  <2> DEFINE n == Len(mempool) + 1
  <2>1. task[t].amount \in Amounts /\ task[t].at \in {"approve", "approved"}
    BY <1>4 DEF Money, AmountsKnown, SendApprove, SendDeposit
  <2>2. PICK kind, phase :
          /\ \/ kind = "approve" /\ phase = "approving"
             \/ kind = "deposit" /\ phase = "depositing"
          /\ Send(t, kind, phase)
    <3>1. Send(t, "approve", "approving") \/ Send(t, "deposit", "depositing")
      BY <1>4 DEF SendApprove, SendDeposit
    <3>2. QED BY ONLY <3>1, Zenon
  <2>3. /\ task'[t].at = phase /\ task'[t].amount = task[t].amount /\ task'[t].receipt = "none"
        /\ \A s \in Tasks \ {t} : task'[s] = task[s]
        /\ Len(mempool) \in Nat
        /\ DOMAIN mempool = 1..Len(mempool) /\ DOMAIN mempool' = 1..n
        /\ \A i \in DOMAIN mempool : mempool'[i] = mempool[i]
        /\ mempool'[n].kind = kind /\ mempool'[n].amount = task[t].amount /\ mempool'[n].of = t
    <3>1. kind \in {"approve", "deposit"} /\ phase \in Phases
      BY <2>2 DEF Phases
    <3>2. QED BY <1>1, <2>1, <2>2, <3>1, SendIs
  <2>4. ASSUME NEW i \in DOMAIN mempool, FromTask(mempool[i])
        PROVE  mempool[i].of \in Tasks \ {t}
    <3>1. mempool[i] \in Transactions
      BY <1>1 DEF TypeOK
    <3>2. mempool[i].of \in Tasks
      BY <2>4, <3>1, TransactionKinds DEF FromTask
    <3>3. task[mempool[i].of].at \notin {"approve", "approved"}
      BY <2>4, PendingAt
    <3>4. QED BY <2>1, <3>2, <3>3
  <2>5. \A i \in DOMAIN mempool' : i \in DOMAIN mempool \/ i = n
    BY <2>3
  <2> HIDE DEF n
  <2>6. FromTask(mempool'[n]) /\ Fits(mempool'[n], task'[mempool'[n].of])
    BY <2>2, <2>3 DEF FromTask, Fits
  <2>7. \A i \in DOMAIN mempool : FromTask(mempool[i]) =>
           mempool'[i] = mempool[i] /\ mempool[i].of # t /\ Fits(mempool'[i], task'[mempool[i].of])
    BY <2>3, <2>4 DEF Queue
  <2>8. Queue'
    BY <2>3, <2>5, <2>6, <2>7 DEF Queue
  <2>9. NoReceiptYet'
    BY <2>2, <2>3 DEF NoReceiptYet
  <2>10. QED BY <2>8, <2>9
<1>5. QED BY <1>2, <1>3, <1>4 DEF DepositTask, Moves

\* A mined transaction gives its task a receipt; nothing else of this changes.
LEMMA MineTask ==
  ASSUME TypeOK, Mine
  PROVE  \/ ~FromTask(mempool[1]) /\ task' = task
         \/ /\ FromTask(mempool[1]) /\ mempool[1].of \in Tasks
            /\ task' \in [Tasks -> TaskStates]
            /\ task'[mempool[1].of].at = task[mempool[1].of].at
            /\ task'[mempool[1].of].amount = task[mempool[1].of].amount
            /\ \A s \in Tasks \ {mempool[1].of} : task'[s] = task[s]
<1> DEFINE tx == mempool[1]
<1>1. tx \in Transactions /\ (MineApprove(tx) \/ MineDeposit(tx) \/ MineRescue(tx))
  BY MineIs
<1> HIDE DEF tx
<1>2. CASE MineRescue(tx)
  BY <1>2 DEF MineRescue, FromTask, tx
<1>3. CASE MineApprove(tx) \/ MineDeposit(tx)
  <2>1. PICK status : status \in Receipts /\ Receipt(tx.of, status)
    <3>1. CASE MineApprove(tx)
      <4>1. Receipt(tx.of, "done") /\ "done" \in Receipts
        BY <3>1 DEF MineApprove, Receipts
      <4>2. QED BY <4>1
    <3>2. CASE DepositArrives(tx)
      <4>1. Receipt(tx.of, "done") /\ "done" \in Receipts
        BY <3>2 DEF DepositArrives, Receipts
      <4>2. QED BY <4>1
    <3>3. CASE \E status : DepositReverts(tx, status)
      BY <3>3 DEF DepositReverts, Receipts
    <3>4. QED BY <1>1, <1>3, <3>1, <3>2, <3>3, DepositsEnd
  <2>2. tx.kind \in {"approve", "deposit"}
    BY <1>3 DEF MineApprove, MineDeposit
  <2>3. FromTask(tx) /\ tx.of \in Tasks
    BY <1>1, <2>2, TransactionKinds DEF FromTask
  <2>4. /\ task' \in [Tasks -> TaskStates]
        /\ task'[tx.of].at = task[tx.of].at /\ task'[tx.of].amount = task[tx.of].amount
        /\ \A s \in Tasks \ {tx.of} : task'[s] = task[s]
    BY ONLY TypeOK, <2>1, <2>3, TaskReceipt
  <2>5. QED BY ONLY <2>3, <2>4, Zenon DEF tx
<1>4. QED BY <1>1, <1>2, <1>3

LEMMA MineKeepsQueue ==
  ASSUME Money, Queue, NoReceiptYet, Mine
  PROVE  Queue' /\ NoReceiptYet'
<1>1. TypeOK
  BY DEF Money
<1>2. /\ Len(mempool) \in Nat /\ Len(mempool) > 0
      /\ DOMAIN mempool = 1..Len(mempool) /\ DOMAIN mempool' = 1..(Len(mempool) - 1)
      /\ \A i \in DOMAIN mempool' : mempool'[i] = mempool[i + 1]
  BY <1>1, MineIs
<1>3. \A i \in DOMAIN mempool' : /\ i + 1 \in DOMAIN mempool /\ i + 1 # 1 /\ i \in Nat
                                /\ mempool'[i] = mempool[i + 1]
  BY <1>2
<1>4. 1 \in DOMAIN mempool
  BY <1>2
<1>5. CASE ~FromTask(mempool[1]) /\ task' = task
  <2>1. Queue'
    <3>1. \A i \in DOMAIN mempool' : FromTask(mempool'[i]) => Fits(mempool'[i], task'[mempool'[i].of])
      BY <1>3, <1>5 DEF Queue
    <3>2. ASSUME NEW i \in DOMAIN mempool', NEW j \in DOMAIN mempool',
                 FromTask(mempool'[i]), FromTask(mempool'[j]), mempool'[i].of = mempool'[j].of
          PROVE  i = j
      <4>1. i + 1 = j + 1
        BY <1>3, <3>2 DEF Queue
      <4>2. i \in Nat /\ j \in Nat
        BY <1>3
      <4>3. QED BY ONLY <4>1, <4>2
    <3>3. QED BY <3>1, <3>2 DEF Queue
  <2>2. QED BY <1>5, <2>1 DEF NoReceiptYet
<1>6. CASE /\ FromTask(mempool[1]) /\ mempool[1].of \in Tasks
           /\ task'[mempool[1].of].at = task[mempool[1].of].at
           /\ \A s \in Tasks \ {mempool[1].of} : task'[s] = task[s]
  <2>1. ASSUME NEW i \in DOMAIN mempool', FromTask(mempool'[i])
        PROVE  mempool'[i].of \in Tasks \ {mempool[1].of}
    <3>1. FromTask(mempool[i + 1]) /\ i + 1 \in DOMAIN mempool /\ i + 1 # 1
      BY <1>3, <2>1
    <3>2. mempool[i + 1].of # mempool[1].of
      BY <1>4, <1>6, <3>1 DEF Queue
    <3>3. mempool[i + 1] \in Transactions
      BY <1>1, <3>1 DEF TypeOK
    <3>4. mempool[i + 1].of \in Tasks
      BY <3>1, <3>3, TransactionKinds DEF FromTask
    <3>5. QED BY <1>3, <3>2, <3>4
  <2>2. Queue'
    <3>1. \A i \in DOMAIN mempool' : FromTask(mempool'[i]) => Fits(mempool'[i], task'[mempool'[i].of])
      BY <1>3, <1>6, <2>1 DEF Queue
    <3>2. ASSUME NEW i \in DOMAIN mempool', NEW j \in DOMAIN mempool',
                 FromTask(mempool'[i]), FromTask(mempool'[j]), mempool'[i].of = mempool'[j].of
          PROVE  i = j
      <4>1. i + 1 = j + 1
        BY <1>3, <3>2 DEF Queue
      <4>2. i \in Nat /\ j \in Nat
        BY <1>3
      <4>3. QED BY ONLY <4>1, <4>2
    <3>3. QED BY <3>1, <3>2 DEF Queue
  <2>3. NoReceiptYet'
    <3>1. task[mempool[1].of].at \in {"failed", "approving", "depositing"}
      BY <1>4, <1>6, PendingAt
    <3>2. QED BY <1>6, <3>1 DEF NoReceiptYet
  <2>4. QED BY <2>2, <2>3
<1>7. QED BY <1>1, <1>5, <1>6, MineTask

LEMMA CollectorKeepsQueue ==
  ASSUME Money, Queue, NoReceiptYet, Collector
  PROVE  Queue' /\ NoReceiptYet' /\ task' = task
<1>1. task' = task
  BY DEF Collector, ReadExecutorBalance, SendRescue, CollectionFails, CollectorReads, clientVars
<1>2. CASE mempool' = mempool
  BY <1>1, <1>2 DEF Queue, NoReceiptYet
<1>3. CASE SendRescue
  <2> DEFINE tx == [kind |-> "rescue", amount |-> collector]
             n == Len(mempool) + 1
  <2>1. mempool \in Seq(Transactions) /\ tx \in Transactions /\ mempool' = Append(mempool, tx)
    BY <1>3 DEF Money, TypeOK, SendRescue, Transactions
  <2>2. ~FromTask(tx)
    BY DEF FromTask
  <2> HIDE DEF tx
  <2>3. /\ Len(mempool) \in Nat
        /\ DOMAIN mempool = 1..Len(mempool) /\ DOMAIN Append(mempool, tx) = 1..n
        /\ \A i \in DOMAIN mempool : Append(mempool, tx)[i] = mempool[i]
        /\ Append(mempool, tx)[n] = tx
    BY ONLY <2>1, OneMore
  <2>4. \A i \in DOMAIN mempool' : FromTask(mempool'[i]) =>
           i \in DOMAIN mempool /\ mempool'[i] = mempool[i]
    <3>1. \A i \in 1..n : i \in 1..Len(mempool) \/ i = n
      BY ONLY <2>3
    <3>2. QED BY <2>1, <2>2, <2>3, <3>1
  <2>5. QED BY <1>1, <2>4 DEF Queue, NoReceiptYet
<1>4. QED BY <1>1, <1>2, <1>3 DEF Collector, ReadExecutorBalance, CollectionFails

\* The steps that touch neither tasks nor transactions, nor take from the wallet.
Elsewhere == Trade \/ OtherDeposits \/ Withdrawal \/ VaultCall \/ UNCHANGED vars

LEMMA ElsewhereIs ==
  ASSUME Money, Elsewhere
  PROVE  /\ UNCHANGED <<task, counted, clash, allowance, mempool>>
         /\ wallet \in Nat /\ wallet' \in Nat /\ wallet <= wallet'
<1>1. wallet \in Nat
  BY DEF Money, TypeOK
<1>2. CASE Trade \/ OtherDeposits \/ VaultCall \/ UNCHANGED vars
  BY <1>1, <1>2 DEF Trade, OtherDeposits, VaultCall, vars, clientVars, moneyVars
<1>3. CASE Withdrawal
  <2>1. UNCHANGED <<task, counted, clash, allowance, mempool>>
    BY <1>3 DEF Withdrawal, clientVars
  <2>2. PICK amount \in Nat : wallet' = wallet \/ wallet' = wallet + amount
    BY <1>3, WithdrawalIs DEF Money
  <2>3. QED BY <1>1, <2>1, <2>2
<1>4. QED BY <1>2, <1>3 DEF Elsewhere

-----------------------------------------------------------------------------
(***************************************************************************)
(* A task that is alone: while it runs and until its last transaction is   *)
(* mined, what it has checked stays true.                                  *)
(***************************************************************************)
DepositPending(t) ==
  \E i \in DOMAIN mempool : mempool[i].kind = "deposit" /\ mempool[i].of = t

\* Two that are under way at a time both know.
Clashing == \A s, t \in Tasks : s # t /\ Active(s) /\ Active(t) => clash[t]

HasBalance(t) == task[t].at \in {"balanced", "approve", "approving", "approved"} \/ DepositPending(t)
HasAllowance(t) ==
  \/ task[t].at = "approved" \/ DepositPending(t)
  \/ task[t].at = "approving" /\ task[t].receipt # "none"

Checked ==
  \A t \in Tasks : ~clash[t] =>
    /\ HasBalance(t) => task[t].amount <= wallet
    /\ HasAllowance(t) => task[t].amount <= allowance

Alone == Clashing /\ Checked /\ AloneDepositsArrive

LEMMA DepositIsPending ==
  ASSUME NEW t, DepositPending(t)
  PROVE  Pending(t)
BY DEF DepositPending, Pending

LEMMA CheckedIsActive ==
  ASSUME NEW t, HasBalance(t) \/ HasAllowance(t)
  PROVE  Active(t)
BY DepositIsPending DEF HasBalance, HasAllowance, Active, Ended

LEMMA PendingPhase ==
  ASSUME Queue, NEW t, Pending(t)
  PROVE  /\ task[t].at \in {"failed", "approving", "depositing"}
         /\ task[t].at # "failed" => task[t].receipt = "none"
BY DEF Queue, Pending, Fits, FromTask

\* A task moves on.
LEMMA MoveKeepsAlone ==
  ASSUME Money, Queue, NoReceiptYet, Alone, NEW t \in Tasks, Moves(t)
  PROVE  Alone'
<1>1. /\ task'[t].amount = task[t].amount /\ task'[t].receipt = task[t].receipt
      /\ \A s \in Tasks \ {t} : task'[s] = task[s]
      /\ UNCHANGED <<wallet, allowance, clash, mempool>>
      /\ \/ /\ task[t].at = "begun" /\ wallet >= task[t].amount
            /\ task'[t].at = "balanced"
         \/ task[t].at = "begun" /\ task'[t].at = "done"
         \/ /\ task[t].at = "balanced" /\ allowance >= task[t].amount
            /\ task'[t].at = "approved"
         \/ task[t].at = "balanced" /\ task'[t].at = "approve"
         \/ /\ task[t].at = "approving" /\ task[t].receipt # "none"
            /\ task'[t].at = "approved"
         \/ /\ task[t].at = "depositing" /\ task[t].receipt # "none"
            /\ task'[t].at = "done"
         \/ task[t].at \notin Ended /\ task'[t].at = "failed"
  BY MoveIs DEF Money, moneyVars
<1>2. \A s : (Pending(s)' <=> Pending(s)) /\ (DepositPending(s)' <=> DepositPending(s))
  BY <1>1 DEF Pending, DepositPending
<1>3. task[t].at \notin Ended
  BY <1>1 DEF Ended
<1>4. \A s \in Tasks : Active(s)' => Active(s)
  <2>1. \A s \in Tasks : Active(s) <=> task[s].at \notin Ended \/ Pending(s)
    BY DEF Active
  <2>2. \A s \in Tasks : Active(s)' <=> task'[s].at \notin Ended \/ Pending(s)'
    BY DEF Active, Ended
  <2>3. QED BY <1>1, <1>2, <1>3, <2>1, <2>2
<1>5. Clashing'
  BY <1>1, <1>4 DEF Alone, Clashing
<1>6. Checked'
  <2> SUFFICES ASSUME NEW s \in Tasks, ~clash[s]
               PROVE  /\ HasBalance(s)' => task'[s].amount <= wallet
                      /\ HasAllowance(s)' => task'[s].amount <= allowance
    BY <1>1 DEF Checked
  <2>1. /\ HasBalance(s) => task[s].amount <= wallet
        /\ HasAllowance(s) => task[s].amount <= allowance
    BY DEF Alone, Checked
  <2>2. CASE s # t
    BY <1>1, <1>2, <2>1, <2>2 DEF HasBalance, HasAllowance
  <2>3. CASE s = t
    <3>1. wallet \in Nat /\ allowance \in Nat /\ task[t].amount \in Nat
      <4>1. task[t].amount \in Amounts
        BY <1>1 DEF Money, AmountsKnown, Ended
      <4>2. QED BY <4>1, AmountsAre DEF Money, TypeOK
    <3>2. HasBalance(s)' => task[t].amount <= wallet
      BY <1>1, <1>2, <2>1, <2>3, <3>1 DEF HasBalance
    <3>3. HasAllowance(s)' => task[t].amount <= allowance
      BY <1>1, <1>2, <2>1, <2>3, <3>1 DEF HasAllowance
    <3>4. QED BY <1>1, <2>3, <3>2, <3>3
  <2>4. QED BY <2>2, <2>3
<1>7. AloneDepositsArrive'
  BY <1>1 DEF Alone, AloneDepositsArrive
<1>8. QED BY <1>5, <1>6, <1>7 DEF Alone

\* A task begins: whoever is under way knows from now on.
LEMMA ReportKeepsAlone ==
  ASSUME Money, Queue, NoReceiptYet, Alone, NEW t \in Tasks, NEW amount \in Amounts,
         Report(t, amount)
  PROVE  Alone'
<1>1. /\ task[t].at = "idle" /\ task'[t].at = "begun" /\ task'[t].receipt = task[t].receipt
      /\ \A s \in Tasks \ {t} : task'[s] = task[s]
  BY ReportIs DEF Money
<1>2. UNCHANGED <<wallet, allowance, mempool>>
  BY DEF Report, moneyVars
<1>3. /\ \A s \in Tasks : clash[s] => clash'[s]
      /\ \A s \in Tasks \ {t} : Active(s) => clash'[s] /\ clash'[t]
  BY DEF Report
<1>4. \A s : (Pending(s)' <=> Pending(s)) /\ (DepositPending(s)' <=> DepositPending(s))
  BY <1>2 DEF Pending, DepositPending
<1>5. \A s \in Tasks \ {t} : Active(s)' => Active(s)
  <2>1. \A s \in Tasks : Active(s) <=> task[s].at \notin Ended \/ Pending(s)
    BY DEF Active
  <2>2. \A s \in Tasks : Active(s)' <=> task'[s].at \notin Ended \/ Pending(s)'
    BY DEF Active, Ended
  <2>3. QED BY <1>1, <1>4, <2>1, <2>2
<1>6. Clashing'
  BY <1>3, <1>5 DEF Alone, Clashing
<1>7. Checked'
  <2> SUFFICES ASSUME NEW s \in Tasks, ~clash'[s]
               PROVE  /\ HasBalance(s)' => task'[s].amount <= wallet'
                      /\ HasAllowance(s)' => task'[s].amount <= allowance'
    BY DEF Checked
  <2>1. CASE s # t
    <3>1. /\ HasBalance(s) => task[s].amount <= wallet
          /\ HasAllowance(s) => task[s].amount <= allowance
      BY <1>3 DEF Alone, Checked
    <3>2. QED BY <1>1, <1>2, <1>4, <2>1, <3>1 DEF HasBalance, HasAllowance
  <2>2. CASE s = t
    <3>1. ~DepositPending(t)'
      BY <1>1, <1>4, DepositIsPending, PendingPhase
    <3>2. QED BY <1>1, <2>2, <3>1 DEF HasBalance, HasAllowance
  <2>3. QED BY <2>1, <2>2
<1>8. AloneDepositsArrive'
  BY <1>1, <1>3 DEF Alone, AloneDepositsArrive
<1>9. QED BY <1>6, <1>7, <1>8 DEF Alone

\* A task sends: it was under way before.
LEMMA SendKeepsAlone ==
  ASSUME Money, Queue, NoReceiptYet, Alone, NEW t \in Tasks, SendApprove(t) \/ SendDeposit(t)
  PROVE  Alone'
<1> DEFINE n == Len(mempool) + 1
<1>1. PICK kind, phase :
        /\ \/ kind = "approve" /\ phase = "approving" /\ task[t].at = "approve"
           \/ kind = "deposit" /\ phase = "depositing" /\ task[t].at = "approved"
        /\ Send(t, kind, phase)
  <2>1. \/ Send(t, "approve", "approving") /\ task[t].at = "approve"
        \/ Send(t, "deposit", "depositing") /\ task[t].at = "approved"
    BY DEF SendApprove, SendDeposit
  <2>2. QED BY ONLY <2>1, Zenon
<1>2. /\ task'[t].at = phase /\ task'[t].amount = task[t].amount /\ task'[t].receipt = "none"
      /\ \A s \in Tasks \ {t} : task'[s] = task[s]
      /\ Len(mempool) \in Nat
      /\ DOMAIN mempool = 1..Len(mempool) /\ DOMAIN mempool' = 1..n
      /\ \A i \in DOMAIN mempool : mempool'[i] = mempool[i]
      /\ mempool'[n].kind = kind /\ mempool'[n].of = t
  <2>1. kind \in {"approve", "deposit"} /\ phase \in Phases /\ task[t].amount \in Amounts
    BY <1>1 DEF Phases, Money, AmountsKnown
  <2>2. QED BY <1>1, <2>1, SendIs DEF Money
<1>3. UNCHANGED <<wallet, allowance, clash>>
  BY <1>1 DEF Send, moneyVars
<1>4. \A i \in DOMAIN mempool' : i \in DOMAIN mempool \/ i = n
  BY <1>2
<1> HIDE DEF n
<1>5. \A s \in Tasks \ {t} : (Pending(s)' => Pending(s)) /\ (DepositPending(s)' => DepositPending(s))
  BY <1>2, <1>4 DEF Pending, DepositPending
<1>6. Active(t) /\ \A s \in Tasks \ {t} : Active(s)' => Active(s)
  <2>1. \A s \in Tasks : Active(s) <=> task[s].at \notin Ended \/ Pending(s)
    BY DEF Active
  <2>2. \A s \in Tasks : Active(s)' <=> task'[s].at \notin Ended \/ Pending(s)'
    BY DEF Active, Ended
  <2>3. task[t].at \notin Ended
    BY <1>1 DEF Ended
  <2>4. QED BY <1>2, <1>5, <2>1, <2>2, <2>3
<1>7. Clashing'
  BY <1>3, <1>6 DEF Alone, Clashing
<1>8. Checked'
  <2> SUFFICES ASSUME NEW s \in Tasks, ~clash[s]
               PROVE  /\ HasBalance(s)' => task'[s].amount <= wallet
                      /\ HasAllowance(s)' => task'[s].amount <= allowance
    BY <1>3 DEF Checked
  <2>1. /\ HasBalance(s) => task[s].amount <= wallet
        /\ HasAllowance(s) => task[s].amount <= allowance
    BY DEF Alone, Checked
  <2>2. CASE s # t
    BY <1>2, <1>5, <2>1, <2>2 DEF HasBalance, HasAllowance
  <2>3. CASE s = t
    <3>1. HasBalance(t)
      BY <1>1 DEF HasBalance
    <3>2. CASE kind = "deposit"
      <4>1. HasAllowance(t)
        BY <1>1, <3>2 DEF HasAllowance
      <4>2. QED BY <1>2, <2>1, <2>3, <3>1, <4>1
    <3>3. CASE kind = "approve"
      <4>1. ~DepositPending(t)'
        <5>1. ~Pending(t)
          BY <1>1, <3>3, PendingPhase
        <5>2. \A i \in DOMAIN mempool : ~(mempool'[i].kind = "deposit" /\ mempool'[i].of = t)
          BY <1>2, <5>1 DEF Pending
        <5>3. QED BY <1>2, <1>4, <3>3, <5>2 DEF DepositPending
      <4>2. ~HasAllowance(t)'
        BY <1>1, <1>2, <3>3, <4>1 DEF HasAllowance
      <4>3. QED BY <1>2, <2>1, <2>3, <3>1, <4>2
    <3>4. QED BY <1>1, <3>2, <3>3
  <2>4. QED BY <2>2, <2>3
<1>9. AloneDepositsArrive'
  BY <1>2, <1>3 DEF Alone, AloneDepositsArrive
<1>10. QED BY <1>7, <1>8, <1>9 DEF Alone

\* A transaction that is mined is pending no more.
LEMMA MinePending ==
  ASSUME Money, Queue, Mine
  PROVE  /\ \A s : (Pending(s)' => Pending(s)) /\ (DepositPending(s)' => DepositPending(s))
         /\ \A s : FromTask(mempool[1]) /\ s = mempool[1].of => Pending(s) /\ ~Pending(s)'
         /\ mempool[1].kind = "deposit" => DepositPending(mempool[1].of)
         /\ FromTask(mempool[1]) => mempool[1].amount = task[mempool[1].of].amount
<1>1. /\ Len(mempool) \in Nat /\ Len(mempool) > 0
      /\ DOMAIN mempool = 1..Len(mempool) /\ DOMAIN mempool' = 1..(Len(mempool) - 1)
      /\ \A i \in DOMAIN mempool' : mempool'[i] = mempool[i + 1]
  BY MineIs DEF Money
<1>2. \A i \in DOMAIN mempool' : /\ i + 1 \in DOMAIN mempool /\ i + 1 # 1
                                /\ mempool'[i] = mempool[i + 1]
  BY <1>1
<1>3. 1 \in DOMAIN mempool
  BY <1>1
<1>4. \A s : (Pending(s)' => Pending(s)) /\ (DepositPending(s)' => DepositPending(s))
  BY <1>2 DEF Pending, DepositPending
<1>5. ASSUME NEW s, FromTask(mempool[1]), s = mempool[1].of PROVE Pending(s) /\ ~Pending(s)'
  <2>1. Pending(s)
    BY <1>3, <1>5 DEF Pending, FromTask
  <2>2. ASSUME NEW i \in DOMAIN mempool', mempool'[i].kind # "rescue", mempool'[i].of = s
        PROVE  FALSE
    BY <1>2, <1>3, <1>5, <2>2 DEF Queue, FromTask
  <2>3. ~Pending(s)'
    BY <2>2 DEF Pending
  <2>4. QED BY <2>1, <2>3
<1>6. mempool[1].kind = "deposit" => DepositPending(mempool[1].of)
  BY <1>3 DEF DepositPending
<1>7. FromTask(mempool[1]) => mempool[1].amount = task[mempool[1].of].amount
  BY <1>3 DEF Queue, Fits
<1>8. QED BY <1>4, <1>5, <1>6, <1>7

\* Something is mined: it was a task's own, or two were under way.
LEMMA MineKeepsAlone ==
  ASSUME Money, Queue, NoReceiptYet, Alone, Mine
  PROVE  Alone'
<1> DEFINE tx == mempool[1]
           own == mempool[1].of
<1>1. /\ tx \in Transactions /\ clash' = clash
      /\ MineApprove(tx) \/ MineDeposit(tx) \/ MineRescue(tx)
  BY MineIs DEF Money
<1>2. /\ \A s : (Pending(s)' => Pending(s)) /\ (DepositPending(s)' => DepositPending(s))
      /\ \A s : FromTask(tx) /\ s = own => Pending(s) /\ ~Pending(s)'
      /\ tx.kind = "deposit" => DepositPending(own)
      /\ FromTask(tx) => tx.amount = task[own].amount
  BY MinePending
<1>3. \/ ~FromTask(tx) /\ task' = task
      \/ /\ FromTask(tx) /\ own \in Tasks
         /\ task'[own].at = task[own].at /\ task'[own].amount = task[own].amount
         /\ \A s \in Tasks \ {own} : task'[s] = task[s]
  BY MineTask DEF Money
<1> HIDE DEF tx, own
<1>4. /\ \A s \in Tasks : task'[s].at = task[s].at /\ task'[s].amount = task[s].amount
      /\ \A s \in Tasks : ~(FromTask(tx) /\ s = own) => task'[s] = task[s]
  BY <1>3
<1>5. \A s \in Tasks : Active(s)' => Active(s)
  <2>1. \A s \in Tasks : Active(s) <=> task[s].at \notin Ended \/ Pending(s)
    BY DEF Active
  <2>2. \A s \in Tasks : Active(s)' <=> task'[s].at \notin Ended \/ Pending(s)'
    BY DEF Active, Ended
  <2>3. QED BY <1>2, <1>4, <2>1, <2>2
<1>6. Clashing'
  BY <1>1, <1>5 DEF Alone, Clashing
<1>7. ASSUME FromTask(tx), NEW s \in Tasks, s # own, Active(s)
      PROVE  clash[s]
  <2>1. own \in Tasks
    BY <1>3, <1>7
  <2>2. Pending(own)
    BY <1>2, <1>7
  <2>3. Active(own)
    BY <2>2 DEF Active
  <2>4. QED BY <1>7, <2>1, <2>3 DEF Alone, Clashing
<1>8. FromTask(tx) <=> tx.kind # "rescue"
  BY DEF FromTask
<1>9. Checked'
  <2> SUFFICES ASSUME NEW s \in Tasks, ~clash[s]
               PROVE  /\ HasBalance(s)' => task'[s].amount <= wallet'
                      /\ HasAllowance(s)' => task'[s].amount <= allowance'
    BY <1>1 DEF Checked
  <2>1. /\ HasBalance(s) => task[s].amount <= wallet
        /\ HasAllowance(s) => task[s].amount <= allowance
    BY DEF Alone, Checked
  <2>2. HasBalance(s)' => HasBalance(s)
    BY <1>2, <1>4 DEF HasBalance
  <2>3. CASE FromTask(tx) /\ s # own
    <3>1. ~Active(s)
      BY <1>7, <2>3
    <3>2. ~HasBalance(s) /\ ~HasAllowance(s)
      BY <3>1, CheckedIsActive
    <3>3. ~HasAllowance(s)'
      BY <1>2, <1>4, <2>3, <3>2 DEF HasAllowance
    <3>4. QED BY <2>2, <3>2, <3>3
  <2>4. CASE FromTask(tx) /\ s = own
    <3>1. ~DepositPending(s)'
      <4>1. ~Pending(s)'
        BY <1>2, <2>4
      <4>2. DepositPending(s)' => Pending(s)'
        BY DEF DepositPending, Pending
      <4>3. QED BY <4>1, <4>2
    <3>2. Pending(s)
      BY <1>2, <2>4
    <3>3. CASE MineApprove(tx)
      <4>1. allowance' = task[s].amount /\ wallet' = wallet
        BY <1>2, <2>4, <3>3 DEF MineApprove
      <4>2. task[s].amount \in Nat
        <5>1. tx.amount \in Amounts
          BY <1>1, <1>8, <2>4, TransactionKinds
        <5>2. QED BY <1>2, <2>4, <5>1, AmountsAre
      <4>3. QED BY <1>4, <2>1, <2>2, <4>1, <4>2
    <3>4. CASE MineDeposit(tx)
      <4>1. task[s].at \in {"failed", "approving", "depositing"}
        BY <3>2, PendingPhase
      <4>2. tx.kind = "deposit"
        BY <3>4 DEF MineDeposit
      <4>3. task[s].at # "approving"
        <5>1. 1 \in DOMAIN mempool
          BY MineIs DEF Money
        <5>2. Fits(tx, task[own])
          BY <2>4, <5>1 DEF Queue, tx, own
        <5>3. QED BY <2>4, <4>2, <5>2 DEF Fits
      <4>4. ~HasBalance(s)' /\ ~HasAllowance(s)'
        BY <1>4, <3>1, <4>1, <4>3 DEF HasBalance, HasAllowance
      <4>5. QED BY <4>4
    <3>5. CASE MineRescue(tx)
      BY <1>8, <2>4, <3>5 DEF MineRescue
    <3>6. QED BY <1>1, <3>3, <3>4, <3>5
  <2>5. CASE ~FromTask(tx)
    <3>1. MineRescue(tx) /\ tx.amount \in Nat
      BY <1>1, <1>8, <2>5, TransactionKinds DEF MineApprove, MineDeposit
    <3>2. allowance' = allowance /\ (wallet' = wallet \/ wallet' = wallet + tx.amount)
      BY <3>1 DEF MineRescue
    <3>3. HasAllowance(s)' => HasAllowance(s)
      BY <1>2, <1>4, <2>5 DEF HasAllowance
    <3>4. wallet \in Nat /\ (HasBalance(s) => task[s].amount \in Nat)
      <4>1. HasBalance(s) => task[s].at # "idle"
        BY PendingPhase, DepositIsPending DEF HasBalance
      <4>2. QED BY <4>1, AmountsAre DEF Money, AmountsKnown, TypeOK
    <3>5. QED BY <1>4, <2>1, <2>2, <3>1, <3>2, <3>3, <3>4
  <2>6. QED BY <2>3, <2>4, <2>5
<1>10. AloneDepositsArrive'
  <2> SUFFICES ASSUME NEW s \in Tasks, task'[s].receipt = "short" PROVE clash[s]
    BY <1>1 DEF AloneDepositsArrive
  <2>1. CASE ~(FromTask(tx) /\ s = own)
    BY <1>4, <2>1 DEF Alone, AloneDepositsArrive
  <2>2. CASE FromTask(tx) /\ s = own
    <3>1. \A status : status \in Receipts /\ Receipt(own, status) => task'[own].receipt = status
      BY <2>2, TaskReceipt DEF Money
    <3>2. CASE MineApprove(tx)
      <4>1. Receipt(own, "done") /\ "done" \in Receipts
        BY <3>2 DEF MineApprove, tx, own, Receipts
      <4>2. task'[s].receipt = "done"
        BY <2>2, <3>1, <4>1
      <4>3. QED BY <4>2
    <3>3. CASE DepositArrives(tx)
      <4>1. Receipt(own, "done") /\ "done" \in Receipts
        BY <3>3 DEF DepositArrives, tx, own, Receipts
      <4>2. task'[s].receipt = "done"
        BY <2>2, <3>1, <4>1
      <4>3. QED BY <4>2
    <3>4. CASE \E status : DepositReverts(tx, status)
      <4>1. PICK status : DepositReverts(tx, status)
        BY <3>4
      <4>2. /\ tx.kind = "deposit" /\ status \in Receipts /\ Receipt(own, status)
            /\ status = "short" => wallet < tx.amount \/ allowance < tx.amount
        BY <4>1 DEF DepositReverts, tx, own, Receipts
      <4>3. status = "short"
        BY <2>2, <3>1, <4>2
      <4>4. HasBalance(s) /\ HasAllowance(s) /\ tx.amount = task[s].amount
        BY <1>2, <2>2, <4>2 DEF HasBalance, HasAllowance
      <4>5. wallet \in Nat /\ allowance \in Nat /\ tx.amount \in Nat
        <5>1. tx.amount \in Amounts
          BY <1>1, <4>2, TransactionKinds
        <5>2. QED BY <5>1, AmountsAre DEF Money, TypeOK
      <4>6. ~(task[s].amount <= wallet /\ task[s].amount <= allowance)
        BY ONLY <4>2, <4>3, <4>4, <4>5
      <4>7. QED BY <4>4, <4>6 DEF Alone, Checked
    <3>5. CASE MineRescue(tx)
      BY <1>8, <2>2, <3>5 DEF MineRescue
    <3>6. QED BY <1>1, <3>2, <3>3, <3>4, <3>5, DepositsEnd DEF Money
  <2>3. QED BY <2>1, <2>2
<1>11. QED BY <1>6, <1>9, <1>10 DEF Alone

LEMMA StillsKeepAlone ==
  ASSUME Money, Queue, Alone, Collector \/ Elsewhere
  PROVE  Alone'
<1>1. /\ UNCHANGED <<task, clash, allowance>>
      /\ wallet \in Nat /\ wallet' \in Nat /\ wallet <= wallet'
      /\ \A s : (Pending(s)' => Pending(s)) /\ (DepositPending(s)' => DepositPending(s))
  <2>1. CASE Elsewhere
    BY <2>1, ElsewhereIs DEF Pending, DepositPending
  <2>2. CASE Collector
    <3>1. UNCHANGED <<task, clash, wallet, allowance>> /\ wallet \in Nat
      BY <2>2 DEF Money, TypeOK, Collector, ReadExecutorBalance, SendRescue, CollectionFails, CollectorReads,
                  clientVars, moneyVars
    <3>2. CASE mempool' = mempool
      BY <3>1, <3>2 DEF Pending, DepositPending
    <3>3. CASE SendRescue
      <4> DEFINE tx == [kind |-> "rescue", amount |-> collector]
                 n == Len(mempool) + 1
      <4>1. /\ mempool \in Seq(Transactions) /\ tx \in Transactions /\ mempool' = Append(mempool, tx)
            /\ tx.kind = "rescue"
        BY <3>3 DEF Money, TypeOK, SendRescue, Transactions
      <4> HIDE DEF tx
      <4>2. /\ Len(mempool) \in Nat
            /\ DOMAIN mempool = 1..Len(mempool) /\ DOMAIN Append(mempool, tx) = 1..n
            /\ \A i \in DOMAIN mempool : Append(mempool, tx)[i] = mempool[i]
            /\ Append(mempool, tx)[n] = tx
        BY ONLY <4>1, OneMore
      <4>3. \A i \in DOMAIN mempool' : mempool'[i].kind # "rescue" =>
               i \in DOMAIN mempool /\ mempool'[i] = mempool[i]
        <5>1. \A i \in 1..n : i \in 1..Len(mempool) \/ i = n
          BY ONLY <4>2
        <5>2. QED BY <4>1, <4>2, <5>1
      <4>4. QED BY <3>1, <4>3 DEF Pending, DepositPending
    <3>4. QED BY <2>2, <3>2, <3>3 DEF Collector, ReadExecutorBalance, CollectionFails
  <2>3. QED BY <2>1, <2>2
<1>2. \A s \in Tasks : Active(s)' => Active(s)
  <2>1. \A s \in Tasks : Active(s) <=> task[s].at \notin Ended \/ Pending(s)
    BY DEF Active
  <2>2. \A s \in Tasks : Active(s)' <=> task'[s].at \notin Ended \/ Pending(s)'
    BY DEF Active, Ended
  <2>3. QED BY <1>1, <2>1, <2>2
<1>3. \A s \in Tasks : (HasBalance(s)' => HasBalance(s)) /\ (HasAllowance(s)' => HasAllowance(s))
  BY <1>1 DEF HasBalance, HasAllowance
<1>4. Clashing' /\ AloneDepositsArrive'
  BY <1>1, <1>2 DEF Alone, Clashing, AloneDepositsArrive
<1>5. Checked'
  <2> SUFFICES ASSUME NEW s \in Tasks, ~clash'[s]
               PROVE  /\ HasBalance(s)' => task'[s].amount <= wallet'
                      /\ HasAllowance(s)' => task'[s].amount <= allowance'
    BY DEF Checked
  <2>1. /\ HasBalance(s) => task[s].amount <= wallet
        /\ HasAllowance(s) => task[s].amount <= allowance
    BY <1>1 DEF Alone, Checked
  <2>2. HasBalance(s) => task[s].amount \in Nat
    <3>1. HasBalance(s) => task[s].at # "idle"
      BY PendingPhase, DepositIsPending DEF HasBalance
    <3>2. QED BY <3>1, AmountsAre DEF Money, AmountsKnown
  <2>3. QED BY <1>1, <1>3, <2>1, <2>2
<1>6. QED BY <1>4, <1>5 DEF Alone

-----------------------------------------------------------------------------
(***************************************************************************)
(* The counts: what the client has counted is the sum over the tasks that  *)
(* have seen a receipt of their deposit; and unless a task has failed, what*)
(* the vault has from the bot is the sum over those whose deposit arrived. *)
(***************************************************************************)
CountedOf == [t \in Tasks |-> IF task[t].at = "done" /\ task[t].receipt # "none"
                              THEN task[t].amount ELSE 0]
ArrivedOf == [t \in Tasks |-> IF task[t].at \in {"depositing", "done"} /\ task[t].receipt = "done"
                              THEN task[t].amount ELSE 0]

NoneFailed == \A t \in Tasks : task[t].at # "failed"

Counts ==
  /\ counted = SumOf(CountedOf)
  /\ NoneFailed => totals.deposited - fromOthers = SumOf(ArrivedOf)

LEMMA CountsTyped ==
  ASSUME TypeOK
  PROVE  CountedOf \in [Tasks -> Int] /\ ArrivedOf \in [Tasks -> Int]
<1>1. task \in [Tasks -> TaskStates]
  BY DEF TypeOK, TaskStates
<1>2. \A t \in Tasks : task[t].amount \in Amounts \cup {0}
  BY <1>1 DEF TaskStates
<1>3. \A t \in Tasks : task[t].amount \in Int
  BY <1>2, AmountsAre
<1>4. QED BY <1>3 DEF CountedOf, ArrivedOf

LEMMA SumOfOne ==
  ASSUME NEW f, f \in [Tasks -> Int], NEW e, e \in [Tasks -> Int], NEW t \in Tasks,
         \A s \in Tasks \ {t} : e[s] = f[s]
  PROVE  SumOf(e) = SumOf(f) + (e[t] - f[t])
<1> DEFINE d == e[t] - f[t]
<1>1. d \in Int /\ e[t] = f[t] + d
  OBVIOUS
<1> HIDE DEF d
<1>2. e = [f EXCEPT ![t] = f[t] + d]
  BY <1>1
<1>3. IsFiniteSet(Tasks) /\ d \in Int
  BY <1>1, SomeAssumptions
<1>4. SumOf(e) = SumOf(f) + d
  BY ONLY <1>2, <1>3, f \in [Tasks -> Int], t \in Tasks, SumOneChanged
<1>5. QED BY <1>4 DEF d

\* One task changes: the counts change by what it counts for.
LEMMA CountsOfOne ==
  ASSUME TypeOK, TypeOK', NEW t \in Tasks, \A s \in Tasks \ {t} : task'[s] = task[s]
  PROVE  /\ SumOf(CountedOf') = SumOf(CountedOf) + (CountedOf'[t] - CountedOf[t])
         /\ SumOf(ArrivedOf') = SumOf(ArrivedOf) + (ArrivedOf'[t] - ArrivedOf[t])
         /\ SumOf(CountedOf) \in Int /\ SumOf(ArrivedOf) \in Int
         /\ CountedOf[t] \in Int /\ ArrivedOf[t] \in Int
<1>1. CountedOf \in [Tasks -> Int] /\ ArrivedOf \in [Tasks -> Int]
  BY CountsTyped
<1>2. CountedOf' \in [Tasks -> Int] /\ ArrivedOf' \in [Tasks -> Int]
  <2>1. task' \in [Tasks -> TaskStates]
    BY DEF TypeOK, TaskStates
  <2>2. \A s \in Tasks : task'[s].amount \in Amounts \cup {0}
    BY <2>1 DEF TaskStates
  <2>3. \A s \in Tasks : task'[s].amount \in Int
    BY <2>2, AmountsAre
  <2>4. QED BY <2>3 DEF CountedOf, ArrivedOf
<1>3. \A s \in Tasks \ {t} : CountedOf'[s] = CountedOf[s] /\ ArrivedOf'[s] = ArrivedOf[s]
  BY DEF CountedOf, ArrivedOf
<1>4. SumOf(CountedOf') = SumOf(CountedOf) + (CountedOf'[t] - CountedOf[t])
  BY ONLY <1>1, <1>2, <1>3, t \in Tasks, SumOfOne
<1>5. SumOf(ArrivedOf') = SumOf(ArrivedOf) + (ArrivedOf'[t] - ArrivedOf[t])
  BY ONLY <1>1, <1>2, <1>3, t \in Tasks, SumOfOne
<1>6. CountedOf[t] \in Int /\ ArrivedOf[t] \in Int
  BY <1>1
<1>7. QED BY ONLY <1>1, <1>4, <1>5, <1>6, SomeAssumptions, SumType

\* What is counted, or got, must be what the task comes to count for.
LEMMA CountsFollow ==
  ASSUME TypeOK, TypeOK', Counts, NEW t \in Tasks, \A s \in Tasks \ {t} : task'[s] = task[s],
         NEW c, c \in Int, counted' = counted + c, CountedOf'[t] = CountedOf[t] + c,
         NEW a, a \in Int,
         NoneFailed' => /\ NoneFailed /\ ArrivedOf'[t] = ArrivedOf[t] + a
                        /\ totals'.deposited - fromOthers' = totals.deposited - fromOthers + a
  PROVE  Counts'
<1>1. /\ SumOf(CountedOf') = SumOf(CountedOf) + (CountedOf'[t] - CountedOf[t])
      /\ SumOf(ArrivedOf') = SumOf(ArrivedOf) + (ArrivedOf'[t] - ArrivedOf[t])
      /\ SumOf(CountedOf) \in Int /\ SumOf(ArrivedOf) \in Int
      /\ CountedOf[t] \in Int /\ ArrivedOf[t] \in Int
  BY CountsOfOne
<1>2. SumOf(CountedOf') = SumOf(CountedOf) + c
  BY ONLY <1>1, c \in Int, CountedOf'[t] = CountedOf[t] + c
<1>3. counted' = SumOf(CountedOf')
  BY <1>2 DEF Counts
<1>4. ASSUME NoneFailed' PROVE totals'.deposited - fromOthers' = SumOf(ArrivedOf')
  <2>1. /\ NoneFailed /\ ArrivedOf'[t] = ArrivedOf[t] + a
        /\ totals'.deposited - fromOthers' = totals.deposited - fromOthers + a
    BY <1>4
  <2>2. SumOf(ArrivedOf') = SumOf(ArrivedOf) + a
    BY ONLY <1>1, <2>1, a \in Int
  <2>3. QED BY <2>1, <2>2 DEF Counts
<1>5. QED BY <1>3, <1>4 DEF Counts

\* Nothing that is counted changes.
LEMMA CountsStay ==
  ASSUME Counts, task' = task, counted' = counted,
         totals'.deposited - fromOthers' = totals.deposited - fromOthers
  PROVE  Counts'
BY DEF Counts, CountedOf, ArrivedOf, NoneFailed

LEMMA KnownCounts ==
  ASSUME TypeOK
  PROVE  counted \in Int /\ totals.deposited - fromOthers \in Int
BY DEF TypeOK, VaultTypeOK

LEMMA TaskKeepsCounts ==
  ASSUME Money, Money', NoReceiptYet, Counts, NEW t \in Tasks, DepositTask(t)
  PROVE  Counts'
<1>1. TypeOK /\ TypeOK' /\ counted \in Int /\ totals.deposited - fromOthers \in Int
  BY KnownCounts DEF Money
<1>2. CountedOf[t] = IF task[t].at = "done" /\ task[t].receipt # "none" THEN task[t].amount ELSE 0
  BY DEF CountedOf
<1>3. CountedOf'[t] = IF task'[t].at = "done" /\ task'[t].receipt # "none" THEN task'[t].amount ELSE 0
  BY DEF CountedOf
<1>4. ArrivedOf[t] = IF task[t].at \in {"depositing", "done"} /\ task[t].receipt = "done"
                     THEN task[t].amount ELSE 0
  BY DEF ArrivedOf
<1>5. ArrivedOf'[t] = IF task'[t].at \in {"depositing", "done"} /\ task'[t].receipt = "done"
                      THEN task'[t].amount ELSE 0
  BY DEF ArrivedOf
<1>6. task[t].amount \in Int
  <2>1. task[t].amount \in Amounts \cup {0}
    BY DEF Money, TypeOK
  <2>2. QED BY <2>1, AmountsAre
<1>7. ASSUME \A s \in Tasks \ {t} : task'[s] = task[s], task[t].at # "failed", NoneFailed'
      PROVE  NoneFailed
  BY <1>7 DEF NoneFailed
<1>8. CASE Moves(t)
  <2>1. /\ task'[t].amount = task[t].amount /\ task'[t].receipt = task[t].receipt
        /\ \A s \in Tasks \ {t} : task'[s] = task[s]
        /\ totals' = totals /\ fromOthers' = fromOthers
    BY <1>1, <1>8, MoveIs DEF vaultVars
  <2>2. \/ /\ task[t].at = "begun" /\ task'[t].at \in {"balanced", "done"} /\ counted' = counted
        \/ /\ task[t].at = "balanced" /\ task'[t].at \in {"approved", "approve"} /\ counted' = counted
        \/ /\ task[t].at = "approving" /\ task'[t].at = "approved" /\ counted' = counted
        \/ /\ task[t].at = "depositing" /\ task[t].receipt # "none" /\ task'[t].at = "done"
           /\ counted' = counted + task[t].amount
        \/ /\ task[t].at \notin Ended /\ task'[t].at = "failed" /\ counted' = counted
    BY <1>1, <1>8, MoveIs
  <2>3. task[t].at # "failed"
    BY <2>2 DEF Ended
  <2>4. NoneFailed' => NoneFailed /\ task'[t].at # "failed"
    BY <1>7, <2>1, <2>3 DEF NoneFailed
  <2>5. task[t].at = "begun" => task[t].receipt = "none"
    BY DEF NoReceiptYet
  <2> DEFINE c == IF task[t].at = "depositing" /\ task'[t].at = "done" THEN task[t].amount ELSE 0
  <2>6. c \in Int /\ counted' = counted + c /\ CountedOf'[t] = CountedOf[t] + c
    BY <1>1, <1>2, <1>3, <1>6, <2>1, <2>2, <2>5 DEF Ended
  <2>7. task'[t].at # "failed" => ArrivedOf'[t] = ArrivedOf[t] + 0
    BY <1>4, <1>5, <1>6, <2>1, <2>2, <2>5
  <2> HIDE DEF c
  <2>8. 0 \in Int /\ totals'.deposited - fromOthers' = totals.deposited - fromOthers + 0
    BY <1>1, <2>1
  <2>9. QED BY ONLY <1>1, <2>1, <2>4, <2>6, <2>7, <2>8, Counts, t \in Tasks, CountsFollow
<1>9. CASE ~Moves(t)
  <2>1. /\ task[t].at # "failed" /\ task'[t].at # "failed"
        /\ \A s \in Tasks \ {t} : task'[s] = task[s]
        /\ totals' = totals /\ fromOthers' = fromOthers /\ counted' = counted
        /\ CountedOf[t] = 0 /\ CountedOf'[t] = 0 /\ ArrivedOf[t] = 0 /\ ArrivedOf'[t] = 0
    <3>1. CASE \E amount \in Amounts : Report(t, amount)
      <4>1. PICK amount \in Amounts : Report(t, amount)
        BY <3>1
      <4>2. /\ task[t].at = "idle" /\ task'[t].at = "begun"
            /\ \A s \in Tasks \ {t} : task'[s] = task[s]
        BY <1>1, <4>1, ReportIs
      <4>3. totals' = totals /\ fromOthers' = fromOthers /\ counted' = counted
        BY <4>1 DEF Report, vaultVars
      <4>4. QED BY <1>2, <1>3, <1>4, <1>5, <4>2, <4>3
    <3>2. CASE SendApprove(t) \/ SendDeposit(t)
      <4>1. task[t].amount \in Amounts /\ task[t].at \in {"approve", "approved"}
        BY <3>2 DEF Money, AmountsKnown, SendApprove, SendDeposit
      <4>2. /\ task'[t].at \in {"approving", "depositing"} /\ task'[t].receipt = "none"
            /\ \A s \in Tasks \ {t} : task'[s] = task[s]
        <5>1. CASE Send(t, "approve", "approving")
          BY <1>1, <4>1, <5>1, SendIs DEF Phases
        <5>2. CASE Send(t, "deposit", "depositing")
          BY <1>1, <4>1, <5>2, SendIs DEF Phases
        <5>3. QED BY <3>2, <5>1, <5>2 DEF SendApprove, SendDeposit
      <4>3. totals' = totals /\ fromOthers' = fromOthers /\ counted' = counted
        BY <3>2 DEF SendApprove, SendDeposit, Send, vaultVars
      <4>4. QED BY <1>2, <1>3, <1>4, <1>5, <4>1, <4>2, <4>3
    <3>3. QED BY <1>9, <3>1, <3>2 DEF DepositTask, Moves
  <2>2. NoneFailed' => NoneFailed
    BY <1>7, <2>1
  <2>3. /\ 0 \in Int /\ counted' = counted + 0 /\ CountedOf'[t] = CountedOf[t] + 0
        /\ ArrivedOf'[t] = ArrivedOf[t] + 0
        /\ totals'.deposited - fromOthers' = totals.deposited - fromOthers + 0
    BY <1>1, <2>1
  <2>4. QED BY ONLY <1>1, <2>1, <2>2, <2>3, Counts, t \in Tasks, CountsFollow
<1>10. QED BY <1>8, <1>9

LEMMA MineKeepsCounts ==
  ASSUME Money, Money', Queue, Counts, Mine
  PROVE  Counts'
<1> DEFINE tx == mempool[1]
           own == mempool[1].of
<1>1. TypeOK /\ TypeOK' /\ counted \in Int /\ totals.deposited - fromOthers \in Int
  BY KnownCounts DEF Money
<1>2. /\ tx \in Transactions /\ counted' = counted /\ fromOthers' = fromOthers
      /\ MineApprove(tx) \/ MineDeposit(tx) \/ MineRescue(tx)
  BY <1>1, MineIs
<1>3. \/ ~FromTask(tx) /\ task' = task
      \/ /\ FromTask(tx) /\ own \in Tasks
         /\ task'[own].at = task[own].at /\ task'[own].amount = task[own].amount
         /\ \A s \in Tasks \ {own} : task'[s] = task[s]
  BY <1>1, MineTask
<1>4. FromTask(tx) => Fits(tx, task[own])
  BY <1>1, MineIs DEF Queue
<1> HIDE DEF tx, own
<1>5. CASE ~FromTask(tx)
  <2>1. MineRescue(tx)
    BY <1>2, <1>5 DEF MineApprove, MineDeposit, FromTask
  <2>2. totals' = totals
    BY <2>1 DEF MineRescue, vaultVars
  <2>3. QED BY <1>2, <1>3, <1>5, <2>2, CountsStay
<1>6. CASE FromTask(tx)
  <2>1. /\ own \in Tasks
        /\ task'[own].at = task[own].at /\ task'[own].amount = task[own].amount
        /\ \A s \in Tasks \ {own} : task'[s] = task[s]
    BY <1>3, <1>6
  <2>2. NoneFailed' => NoneFailed /\ task[own].at # "failed"
    BY <2>1 DEF NoneFailed
  <2>3. /\ CountedOf[own] = 0 /\ CountedOf'[own] = 0
        /\ task[own].at # "depositing" => ArrivedOf[own] = 0 /\ ArrivedOf'[own] = 0
        /\ task[own].at # "failed" => ArrivedOf[own] = 0
    BY <1>4, <1>6, <2>1 DEF Fits, CountedOf, ArrivedOf
  <2>4. \A status : Receipt(own, status) /\ status \in Receipts => task'[own].receipt = status
    BY <1>1, <2>1, TaskReceipt
  <2>5. ArrivedOf'[own] = IF task'[own].at \in {"depositing", "done"} /\ task'[own].receipt = "done"
                          THEN task'[own].amount ELSE 0
    BY <2>1 DEF ArrivedOf
  <2>6. CASE DepositArrives(tx)
    <3>1. tx.kind = "deposit" /\ Receipt(own, "done") /\ DepositProfit(Bot, tx.amount, Bot)
      BY <2>6 DEF DepositArrives, tx, own
    <3>2. tx.amount \in Nat
      <4>1. tx.amount \in Amounts
        BY <1>2, <3>1, TransactionKinds
      <4>2. QED BY <4>1, AmountsAre
    <3>3. totals'.deposited = totals.deposited + tx.amount
      <4>1. Vault
        BY <1>1 DEF Vault, Money, TypeOK
      <4>2. QED BY ONLY <3>1, <3>2, <4>1, SomeAssumptions, VaultDeposit
    <3>4. totals.deposited \in Nat /\ fromOthers \in Nat
      BY <1>1 DEF TypeOK, VaultTypeOK
    <3>5. totals'.deposited - fromOthers' = totals.deposited - fromOthers + tx.amount
      BY ONLY <1>2, <3>2, <3>3, <3>4
    <3>6. task[own].at # "failed" => ArrivedOf'[own] = ArrivedOf[own] + tx.amount
      <4>1. "done" \in Receipts
        BY DEF Receipts
      <4>2. task'[own].receipt = "done"
        BY <2>4, <3>1, <4>1
      <4>3. task[own].at # "failed" => task[own].at = "depositing" /\ tx.amount = task[own].amount
        BY <1>4, <1>6, <3>1 DEF Fits
      <4>4. QED BY <2>1, <2>3, <2>5, <3>2, <4>2, <4>3
    <3>7. /\ 0 \in Int /\ tx.amount \in Int /\ counted' = counted + 0
          /\ CountedOf'[own] = CountedOf[own] + 0
      BY <1>1, <1>2, <2>3, <3>2
    <3>8. QED BY ONLY <1>1, <2>1, <2>2, <3>5, <3>6, <3>7, Counts, CountsFollow
  <2>7. CASE MineApprove(tx) \/ \E status : DepositReverts(tx, status)
    <3>1. totals' = totals
      BY <2>7 DEF MineApprove, DepositReverts, vaultVars
    <3>2. task[own].at # "failed" => ArrivedOf'[own] = 0
      <4>1. CASE MineApprove(tx)
        <5>1. task[own].at \in {"failed", "approving"}
          BY <1>4, <1>6, <4>1 DEF Fits, MineApprove
        <5>2. QED BY <2>3, <5>1
      <4>2. CASE \E status : DepositReverts(tx, status)
        <5>1. PICK status : DepositReverts(tx, status)
          BY <4>2
        <5>2. Receipt(own, status) /\ status \in Receipts /\ status # "done"
          BY <5>1 DEF DepositReverts, tx, own, Receipts
        <5>3. task'[own].receipt = status
          BY <2>4, <5>2
        <5>4. QED BY <2>5, <5>2, <5>3
      <4>3. QED BY <2>7, <4>1, <4>2
    <3>3. /\ 0 \in Int /\ counted' = counted + 0
          /\ CountedOf'[own] = CountedOf[own] + 0
          /\ totals'.deposited - fromOthers' = totals.deposited - fromOthers + 0
          /\ task[own].at # "failed" => ArrivedOf'[own] = ArrivedOf[own] + 0
      BY <1>1, <1>2, <2>3, <3>1, <3>2
    <3>4. QED BY ONLY <1>1, <2>1, <2>2, <3>3, Counts, CountsFollow
  <2>8. ~MineRescue(tx)
    BY <1>6 DEF MineRescue, FromTask
  <2>9. QED BY <1>2, <2>6, <2>7, <2>8, <1>1, DepositsEnd
<1>7. QED BY <1>5, <1>6

LEMMA ElsewhereKeepsCounts ==
  ASSUME Money, Counts, Collector \/ Elsewhere
  PROVE  Counts'
<1>1. task' = task /\ counted' = counted
  BY ElsewhereIs DEF Collector, ReadExecutorBalance, SendRescue, CollectionFails, CollectorReads,
                     clientVars
<1>2. totals.deposited \in Nat /\ fromOthers \in Nat
  BY DEF Money, TypeOK, VaultTypeOK
<1>3. totals'.deposited - fromOthers' = totals.deposited - fromOthers
  <2>1. CASE OtherDeposits
    <3>1. PICK amount \in Amounts : DepositProfit(Other, amount, Other)
                                    /\ fromOthers' = fromOthers + amount
      BY <2>1 DEF OtherDeposits
    <3>2. amount \in Nat /\ Vault
      BY AmountsAre DEF Money, TypeOK, Vault
    <3>3. totals'.deposited = totals.deposited + amount
      BY ONLY <3>1, <3>2, SomeAssumptions, VaultDeposit
    <3>4. QED BY ONLY <1>2, <3>1, <3>2, <3>3
  <2>2. CASE Withdrawal \/ VaultCall
    <3>1. fromOthers' = fromOthers
      BY <2>2 DEF Withdrawal, VaultCall
    <3>2. totals'.deposited = totals.deposited
      BY <2>2, WithdrawalIs, VaultOthers DEF Money, Vault, TypeOK, VaultCall
    <3>3. QED BY <3>1, <3>2
  <2>3. CASE Trade \/ Collector \/ UNCHANGED vars
    BY <2>3 DEF Trade, Collector, ReadExecutorBalance, SendRescue, CollectionFails, CollectorReads,
                vars, vaultVars
  <2>4. QED BY <2>1, <2>2, <2>3 DEF Elsewhere
<1>4. QED BY <1>1, <1>3, CountsStay

-----------------------------------------------------------------------------
(***************************************************************************)
(* Everything about the way of a profit that the theorems below rest on.   *)
(***************************************************************************)
CustodyInv == Money /\ Queue /\ NoReceiptYet /\ Alone /\ Counts

LEMMA CustodyStart == Init => CustodyInv
<1> SUFFICES ASSUME Init PROVE CustodyInv
  OBVIOUS
<1>1. Money
  BY MoneyStart
<1>2. /\ \A t \in Tasks : task[t].at = "idle" /\ task[t].receipt = "none"
      /\ DOMAIN mempool = {}
  BY DEF Init
<1>3. Queue /\ NoReceiptYet
  BY <1>2 DEF Queue, NoReceiptYet
<1>4. Alone
  <2>1. \A t \in Tasks : ~Active(t) /\ ~HasBalance(t) /\ ~HasAllowance(t)
    BY <1>2 DEF Active, Ended, Pending, DepositPending, HasBalance, HasAllowance
  <2>2. QED BY <1>2, <2>1 DEF Alone, Clashing, Checked, AloneDepositsArrive
<1>5. Counts
  <2>1. CountedOf = [t \in Tasks |-> 0] /\ ArrivedOf = [t \in Tasks |-> 0]
    BY <1>2 DEF CountedOf, ArrivedOf
  <2>2. SumOf(CountedOf) = 0 /\ SumOf(ArrivedOf) = 0
    BY ONLY <2>1, SomeAssumptions, SumOfNothing
  <2>3. counted = 0 /\ totals.deposited = 0 /\ fromOthers = 0
    BY DEF Init, VaultInit
  <2>4. QED BY <2>2, <2>3 DEF Counts
<1>6. QED BY <1>1, <1>3, <1>4, <1>5 DEF CustodyInv

(***************************************************************************)
(* It holds all along, whatever the tasks, amounts and losses.             *)
(***************************************************************************)
THEOREM CustodyInvariant == Spec => []CustodyInv
<1>1. CustodyInv /\ Money' /\ [Next]_vars => CustodyInv'
  <2> SUFFICES ASSUME Money, Queue, NoReceiptYet, Alone, Counts, Money', [Next]_vars
               PROVE  CustodyInv'
    BY DEF CustodyInv
  <2>1. CASE \E t \in Tasks : DepositTask(t)
    <3>1. PICK t \in Tasks : DepositTask(t)
      BY <2>1
    <3>2. Queue' /\ NoReceiptYet' /\ Counts'
      BY <3>1, TaskKeepsQueue, TaskKeepsCounts
    <3>3. Alone'
      BY <3>1, MoveKeepsAlone, ReportKeepsAlone, SendKeepsAlone DEF DepositTask, Moves
    <3>4. QED BY <3>2, <3>3 DEF CustodyInv
  <2>2. CASE Mine
    BY <2>2, MineKeepsQueue, MineKeepsAlone, MineKeepsCounts DEF CustodyInv
  <2>3. CASE Collector
    BY <2>3, CollectorKeepsQueue, StillsKeepAlone, ElsewhereKeepsCounts DEF CustodyInv
  <2>4. CASE Elsewhere
    <3>1. Queue' /\ NoReceiptYet'
      BY <2>4, ElsewhereIs DEF Queue, NoReceiptYet
    <3>2. QED BY <2>4, <3>1, StillsKeepAlone, ElsewhereKeepsCounts DEF CustodyInv
  <2>5. QED BY <2>1, <2>2, <2>3, <2>4 DEF Next, Elsewhere
<1>2. QED BY <1>1, CustodyStart, MoneyInvariant, PTL DEF Spec

(***************************************************************************)
(* A deposit whose task was alone reverts only if the vault bars the bot.  *)
(***************************************************************************)
THEOREM AloneDepositsArriveTheorem == Spec => []AloneDepositsArrive
<1>1. CustodyInv => AloneDepositsArrive
  BY DEF CustodyInv, Alone
<1>2. QED BY <1>1, CustodyInvariant, PTL

(***************************************************************************)
(* When all tasks have come to a good end, the client has counted what the *)
(* vault has got.                                                          *)
(***************************************************************************)
THEOREM CountsAgreeTheorem == Spec => []CountsAgree
<1>1. CustodyInv => CountsAgree
  <2> SUFFICES ASSUME CustodyInv,
                      \A t \in Tasks : task[t].at \in {"idle", "done"} /\ task[t].receipt \in {"none", "done"}
               PROVE  counted = totals.deposited - fromOthers
    BY DEF CountsAgree
  <2>1. NoneFailed
    BY DEF NoneFailed
  <2>2. \A t \in Tasks : CountedOf[t] = ArrivedOf[t]
    BY DEF CountedOf, ArrivedOf
  <2>3. CountedOf \in [Tasks -> Int] /\ ArrivedOf \in [Tasks -> Int]
    BY CountsTyped DEF CustodyInv, Money
  <2>4. SumOf(CountedOf) = SumOf(ArrivedOf)
    BY ONLY <2>2, <2>3, SumEqual
  <2>5. QED BY <2>1, <2>4 DEF CustodyInv, Counts
<1>2. QED BY <1>1, CustodyInvariant, PTL
=============================================================================
