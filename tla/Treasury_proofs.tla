---------------------------- MODULE Treasury_proofs ----------------------------
(***************************************************************************)
(* Proofs about the treasury: its variables keep their types; retention    *)
(* loses only expenses that MaxExpenses newer ones outlive; nothing goes on *)
(* before its expense is written; what is cached, once it is quiet, is what *)
(* the rows derive; a sheet worth nothing admits nothing; and a sync with   *)
(* none beside it leaves the sheet it was given.  And about what the funds  *)
(* come and go by: a live read of the balances reports what it read         *)
(* (LiveBalances), and the wallet signs as it says (WalletSigning).         *)
(***************************************************************************)
EXTENDS Treasury, LiveBalances, WalletSigning, FiniteSetTheorems, TLAPS

-----------------------------------------------------------------------------
(* Types.                                                                   *)

Sheets == [Rows -> Usd \cup {None}]

(* Every derived state is one of the four.                                  *)
LEMMA DerivedType ==
  ASSUME NEW days
  PROVE  ComputeTreasuryState(days) \in States
BY DEF ComputeTreasuryState, States

(* The sheet of a sync that is not running is a sheet.                      *)
LEMMA EmptySheet == NoSheet \in Sheets
BY DEF NoSheet, Sheets

(* The tail of a chain that is not empty is a chain, and its head a writer. *)
LEMMA ChainType ==
  ASSUME chain \in Seq(Writers), chain # <<>>
  PROVE  Head(chain) \in Writers /\ Tail(chain) \in Seq(Writers)
OBVIOUS

(* What a settling operation leaves is typed.                               *)
LEMMA SettleType ==
  ASSUME TypeOK, NEW w \in Writers, NEW q \in Seq(Writers), Settle(w, q)
  PROVE  /\ state' \in States /\ settledAt' \in 0..MaxTime /\ torn' \in BOOLEAN
         /\ chain' \in Seq(Writers)
         /\ writing' \in [Writers -> Rows \cup Calls \cup {None}]
         /\ pc' \in [Writers -> PcValues]
<1>1. state' \in States
  BY DerivedType DEF Settle, Derived
<1>2. settledAt' \in 0..MaxTime /\ torn' \in BOOLEAN /\ chain' \in Seq(Writers)
  BY DEF TypeOK, Settle
<1>3. writing' \in [Writers -> Rows \cup Calls \cup {None}]
  BY DEF TypeOK, Settle
<1>4. pc' \in [Writers -> PcValues]
  BY DEF TypeOK, Settle, PcValues
<1> QED
  BY <1>1, <1>2, <1>3, <1>4

(* What issuing a write leaves is typed.                                    *)
LEMMA IssueType ==
  ASSUME TypeOK, NEW w \in Writers, NEW q \in Seq(Writers),
         NEW what \in Rows \cup Calls, Issue(q, w, what)
  PROVE  /\ chain' \in Seq(Writers)
         /\ writing' \in [Writers -> Rows \cup Calls \cup {None}]
<1>1. chain' \in Seq(Writers)
  BY DEF Issue
<1>2. writing' \in [Writers -> Rows \cup Calls \cup {None}]
  BY DEF Issue, TypeOK
<1> QED
  BY <1>1, <1>2

(* One step of a balance update keeps the types.                            *)
LEMMA UpdateType ==
  ASSUME TypeOK, NEW s \in Syncs, NEW given \in Sheets,
         NEW D \in SUBSET Rows, NEW P \in SUBSET Rows, NEW q \in Seq(Writers),
         UpdateGoesOn(s, given, D, P, q)
  PROVE  /\ state' \in States /\ settledAt' \in 0..MaxTime /\ torn' \in BOOLEAN
         /\ chain' \in Seq(Writers)
         /\ writing' \in [Writers -> Rows \cup Calls \cup {None}]
         /\ pc' \in [Writers -> PcValues]
         /\ sheet' \in [Syncs -> Sheets]
         /\ dels' \in [Syncs -> SUBSET Rows] /\ puts' \in [Syncs -> SUBSET Rows]
         /\ overlapped' \in SUBSET Syncs
<1>0. s \in Writers
  BY DEF Writers
<1>1. CASE D \cup P = {}
  <2>1. Settle(s, q)
    BY <1>1 DEF UpdateGoesOn
  <2>2. sheet' \in [Syncs -> Sheets]
    <3>1. sheet' = [sheet EXCEPT ![s] = NoSheet]
      BY <1>1 DEF UpdateGoesOn
    <3> QED
      BY <3>1, EmptySheet DEF TypeOK, Sheets
  <2>3. /\ dels' \in [Syncs -> SUBSET Rows] /\ puts' \in [Syncs -> SUBSET Rows]
        /\ overlapped' \in SUBSET Syncs
    BY <1>1 DEF UpdateGoesOn, TypeOK
  <2> QED
    BY <1>0, <2>1, <2>2, <2>3, SettleType
<1>2. CASE D \cup P # {}
  <2>1. PICK r \in IF D # {} THEN D ELSE P :
          /\ Issue(q, s, r)
          /\ dels' = [dels EXCEPT ![s] = D \ {r}]
          /\ puts' = [puts EXCEPT ![s] = P \ {r}]
    BY <1>2 DEF UpdateGoesOn
  <2>2. /\ chain' \in Seq(Writers)
        /\ writing' \in [Writers -> Rows \cup Calls \cup {None}]
    <3>1. r \in Rows \cup Calls
      BY <2>1
    <3> QED
      BY <1>0, <2>1, <3>1, IssueType
  <2>3. dels' \in [Syncs -> SUBSET Rows] /\ puts' \in [Syncs -> SUBSET Rows]
    BY <2>1 DEF TypeOK
  <2>4. state' \in States /\ settledAt' \in 0..MaxTime /\ torn' \in BOOLEAN
    BY <1>2 DEF UpdateGoesOn, Unsettled, TypeOK
  <2>5. pc' \in [Writers -> PcValues]
    BY <1>2 DEF UpdateGoesOn, TypeOK, PcValues
  <2>6. sheet' \in [Syncs -> Sheets]
    BY <1>2 DEF UpdateGoesOn, TypeOK, Sheets
  <2>7. overlapped' \in SUBSET Syncs
    BY <1>2 DEF UpdateGoesOn, TypeOK
  <2> QED
    BY <2>2, <2>3, <2>4, <2>5, <2>6, <2>7
<1> QED
  BY <1>1, <1>2

(* One step of a prune keeps the types.                                     *)
LEMMA PruneType ==
  ASSUME TypeOK, NEW c \in Calls, NEW V \in SUBSET Calls, NEW q \in Seq(Writers),
         PruneGoesOn(c, V, q)
  PROVE  /\ state' \in States /\ settledAt' \in 0..MaxTime /\ torn' \in BOOLEAN
         /\ chain' \in Seq(Writers)
         /\ writing' \in [Writers -> Rows \cup Calls \cup {None}]
         /\ pc' \in [Writers -> PcValues]
         /\ victims' \in [Calls -> SUBSET Calls]
<1>0. c \in Writers
  BY DEF Writers
<1>1. CASE V = {}
  <2>1. Settle(c, q) /\ victims' = victims
    BY <1>1 DEF PruneGoesOn
  <2>2. victims' \in [Calls -> SUBSET Calls]
    BY <2>1 DEF TypeOK
  <2> QED
    BY <1>0, <2>1, <2>2, SettleType
<1>2. CASE V # {}
  <2>1. PICK v \in V : Issue(q, c, v) /\ victims' = [victims EXCEPT ![c] = V \ {v}]
    BY <1>2 DEF PruneGoesOn
  <2>2. v \in Rows \cup Calls
    BY <2>1
  <2>3. /\ chain' \in Seq(Writers)
        /\ writing' \in [Writers -> Rows \cup Calls \cup {None}]
    BY <1>0, <2>1, <2>2, IssueType
  <2>4. victims' \in [Calls -> SUBSET Calls]
    BY <2>1 DEF TypeOK
  <2>5. state' \in States /\ settledAt' \in 0..MaxTime /\ torn' \in BOOLEAN
    BY <1>2 DEF PruneGoesOn, Unsettled, TypeOK
  <2>6. pc' \in [Writers -> PcValues]
    BY <1>2 DEF PruneGoesOn, TypeOK, PcValues
  <2> QED
    BY <2>3, <2>4, <2>5, <2>6
<1> QED
  BY <1>1, <1>2

(* Operations that end early leave their fields typed.                      *)
LEMMA AbandonType ==
  ASSUME TypeOK, NEW W, Abandon(W)
  PROVE  /\ writing' \in [Writers -> Rows \cup Calls \cup {None}]
         /\ sheet' \in [Syncs -> Sheets]
         /\ dels' \in [Syncs -> SUBSET Rows] /\ puts' \in [Syncs -> SUBSET Rows]
         /\ victims' \in [Calls -> SUBSET Calls]
         /\ overlapped' \in SUBSET Syncs
<1>1. writing' \in [Writers -> Rows \cup Calls \cup {None}]
  BY DEF TypeOK, Abandon
<1>2. sheet' \in [Syncs -> Sheets]
  BY EmptySheet DEF TypeOK, Abandon, Sheets
<1>3. dels' \in [Syncs -> SUBSET Rows] /\ puts' \in [Syncs -> SUBSET Rows]
  BY DEF TypeOK, Abandon
<1>4. victims' \in [Calls -> SUBSET Calls] /\ overlapped' \in SUBSET Syncs
  BY DEF TypeOK, Abandon
<1> QED
  BY <1>1, <1>2, <1>3, <1>4

(* Every step keeps every variable in its type: one case per action.        *)
LEMMA TypeStep ==
  ASSUME TypeOK, [Next]_vars
  PROVE  TypeOK'
<1> USE DEF Sheets
<1>1. ASSUME NEW s \in Syncs, SyncAll(s) PROVE TypeOK'
  <2>1. PICK given \in Sheets : UpdateBalances(s, given)
    BY <1>1 DEF SyncAll
  <2>2. UpdateGoesOn(s, given, {r \in Filled(balances) : given[r] = None},
                     {r \in Rows : given[r] # None}, chain)
    BY <2>1 DEF UpdateBalances
  <2>3. chain \in Seq(Writers) /\ {r \in Filled(balances) : given[r] = None} \in SUBSET Rows
    BY DEF TypeOK, Filled
  <2>4. UNCHANGED <<balances, expenses, stamp, victims, landed, now, everFunded>>
    BY <2>1 DEF UpdateBalances, callVars
  <2> QED
    BY <2>2, <2>3, <2>4, UpdateType DEF TypeOK
<1>2. ASSUME NEW s \in Syncs, NEW r \in Rows, SyncOne(s, r) PROVE TypeOK'
  <2>1. PICK v \in Usd \cup {None} : UpdateBalances(s, [balances EXCEPT ![r] = v])
    BY <1>2 DEF SyncOne
  <2>2. PICK given \in Sheets : UpdateBalances(s, given)
    BY <2>1 DEF TypeOK
  <2>3. UpdateGoesOn(s, given, {u \in Filled(balances) : given[u] = None},
                     {u \in Rows : given[u] # None}, chain)
    BY <2>2 DEF UpdateBalances
  <2>4. chain \in Seq(Writers) /\ {u \in Filled(balances) : given[u] = None} \in SUBSET Rows
    BY DEF TypeOK, Filled
  <2>5. UNCHANGED <<balances, expenses, stamp, victims, landed, now, everFunded>>
    BY <2>2 DEF UpdateBalances, callVars
  <2> QED
    BY <2>3, <2>4, <2>5, UpdateType DEF TypeOK
<1>3. ASSUME NEW c \in Calls, Admit(c) \/ Deny(c) PROVE TypeOK'
  <2>1. pc' \in [Writers -> PcValues]
    BY <1>3 DEF Admit, Deny, TypeOK, PcValues
  <2> QED
    BY <1>3, <2>1 DEF Admit, Deny, TypeOK, ledgerVars, syncVars, callVars
<1>4. ASSUME NEW c \in Calls, Meter(c) PROVE TypeOK'
  <2>0. c \in Writers /\ c \in Rows \cup Calls /\ chain \in Seq(Writers)
    BY DEF Writers, TypeOK
  <2>1. /\ chain' \in Seq(Writers)
        /\ writing' \in [Writers -> Rows \cup Calls \cup {None}]
    BY <1>4, <2>0, IssueType DEF Meter, RecordExpense
  <2>2. pc' \in [Writers -> PcValues] /\ stamp' \in [Calls -> 0..MaxTime]
    BY <1>4 DEF Meter, RecordExpense, TypeOK, PcValues
  <2> QED
    BY <1>4, <2>1, <2>2 DEF Meter, RecordExpense, TypeOK, ledgerVars, syncVars
<1>5. ASSUME Lands PROVE TypeOK'
  <2>0. chain # <<>> /\ Head(chain) \in Writers /\ Tail(chain) \in Seq(Writers)
    BY <1>5, ChainType DEF Lands, TypeOK
  <2>1. ASSUME NEW s \in Syncs, UpdateLands(s) PROVE TypeOK'
    <3>1. UpdateGoesOn(s, sheet[s], dels[s], puts[s], Tail(chain))
      BY <2>1 DEF UpdateLands
    <3>2. sheet[s] \in Sheets /\ dels[s] \in SUBSET Rows /\ puts[s] \in SUBSET Rows
      BY DEF TypeOK
    <3>3. balances' \in Sheets
      BY <2>1, <3>2 DEF UpdateLands, TypeOK
    <3>5. everFunded' \in BOOLEAN
      BY <2>1 DEF UpdateLands, TypeOK
    <3>4. UNCHANGED <<expenses, stamp, victims, landed, now>>
      BY <2>1 DEF UpdateLands, callVars
    <3> QED
      BY <2>0, <3>1, <3>2, <3>3, <3>4, <3>5, UpdateType DEF TypeOK
  <2>3. ASSUME NEW c \in Calls, RecordLands(c) PROVE TypeOK'
    <3>1. Surplus(expenses \cup {c}) \in SUBSET Calls
      BY DEF Surplus, TypeOK
    <3>2. PruneGoesOn(c, Surplus(expenses \cup {c}), Tail(chain))
      BY <2>3 DEF RecordLands
    <3>3. /\ expenses' \in SUBSET Calls /\ landed' \in SUBSET Calls
          /\ UNCHANGED <<balances, stamp, sheet, dels, puts, overlapped, now, everFunded>>
      BY <2>3 DEF RecordLands, TypeOK, syncVars
    <3> QED
      BY <2>0, <3>1, <3>2, <3>3, PruneType DEF TypeOK
  <2>4. ASSUME NEW c \in Calls, PruneLands(c) PROVE TypeOK'
    <3>1. victims[c] \in SUBSET Calls
      BY DEF TypeOK
    <3>2. PruneGoesOn(c, victims[c], Tail(chain))
      BY <2>4 DEF PruneLands
    <3>3. /\ expenses' \in SUBSET Calls
          /\ UNCHANGED <<balances, stamp, landed, sheet, dels, puts, overlapped, now, everFunded>>
      BY <2>4 DEF PruneLands, TypeOK, syncVars
    <3> QED
      BY <2>0, <3>1, <3>2, <3>3, PruneType DEF TypeOK
  <2> QED
    BY <1>5, <2>1, <2>3, <2>4 DEF Lands
<1>6. ASSUME WriteFails PROVE TypeOK'
  <2>1. chain' \in Seq(Writers) /\ torn' \in BOOLEAN
    BY <1>6, ChainType DEF WriteFails, TypeOK
  <2>2. pc' \in [Writers -> PcValues]
    BY <1>6 DEF WriteFails, TypeOK, PcValues
  <2>3. Abandon({Head(chain)})
    BY <1>6 DEF WriteFails
  <2>4. /\ writing' \in [Writers -> Rows \cup Calls \cup {None}]
        /\ sheet' \in [Syncs -> Sheets]
        /\ dels' \in [Syncs -> SUBSET Rows] /\ puts' \in [Syncs -> SUBSET Rows]
        /\ victims' \in [Calls -> SUBSET Calls]
        /\ overlapped' \in SUBSET Syncs
    BY <2>3, AbandonType
  <2> QED
    BY <1>6, <2>1, <2>2, <2>4 DEF WriteFails, TypeOK
<1>7. CASE Tick
  <2>1. now' \in 0..MaxTime
    BY <1>7, NumbersAssumption DEF Tick, TypeOK
  <2> QED
    BY <1>7, <2>1 DEF Tick, TypeOK, ledgerVars, syncVars, callVars
<1>8. CASE Restart
  <2>1. torn' \in BOOLEAN /\ settledAt' \in 0..MaxTime
    BY <1>8 DEF Restart, TypeOK
  <2>5. chain' \in Seq(Writers)
    BY <1>8 DEF Restart
  <2>2. pc' \in [Writers -> PcValues]
    BY <1>8 DEF Restart, TypeOK, PcValues
  <2>3. state' \in States
    BY <1>8, DerivedType DEF Restart, Derived
  <2>4. Abandon(Writers)
    BY <1>8 DEF Restart
  <2> QED
    BY <1>8, <2>1, <2>2, <2>3, <2>4, <2>5, AbandonType DEF Restart, TypeOK
<1>9. CASE UNCHANGED vars
  BY <1>9 DEF vars, ledgerVars, syncVars, callVars, TypeOK
<1> QED
  BY <1>1, <1>2, <1>3, <1>4, <1>5, <1>6, <1>7, <1>8, <1>9 DEF Next

(* The treasury starts typed.                                               *)
LEMMA TypeInit == Init => TypeOK
<1> SUFFICES ASSUME Init PROVE TypeOK
  OBVIOUS
<1>1. state \in States
  BY DerivedType DEF Init
<1>2. pc \in [Writers -> PcValues]
  BY DEF Init, PcValues
<1>3. sheet \in [Syncs -> [Rows -> Usd \cup {None}]]
  BY EmptySheet DEF Init, Sheets
<1>4. now \in 0..MaxTime /\ settledAt \in 0..MaxTime /\ stamp \in [Calls -> 0..MaxTime]
  BY NumbersAssumption DEF Init
<1>5. chain \in Seq(Writers)
  BY DEF Init
<1> QED
  BY <1>1, <1>2, <1>3, <1>4, <1>5 DEF Init, TypeOK

(* Whatever syncs, records, prunes, failures and restarts interleave on the *)
(* write chain, every variable of the ledger keeps its type: the cached     *)
(* state is one of the four, and a prune only ever names expenses.          *)
THEOREM TypeCorrect == Spec => []TypeOK
BY TypeInit, TypeStep, PTL DEF Spec

-----------------------------------------------------------------------------
(* Sums over finite sets.  The figures of the treasury are folds, whose     *)
(* recursion is over subsets; what a sum is worth is shown by looking at a  *)
(* least subset that would break it.                                        *)

(* A nonempty family of subsets of a finite set has a least member.         *)
LEMMA SmallestSubset ==
  ASSUME NEW S, IsFiniteSet(S), NEW F \in SUBSET (SUBSET S), F # {}
  PROVE  \E T \in F : \A U \in F : U \subseteq T => U = T
<1>1. IsWellFoundedOn(StrictSubsetOrdering(S), SUBSET S)
  BY FS_StrictSubsetOrderingWellFounded, FS_FiniteSubsetsOfFinite
<1>2. PICK T \in F : \A U \in F : <<U, T>> \notin StrictSubsetOrdering(S)
  BY <1>1, WFMin
<1>3. ASSUME NEW U \in F, U \subseteq T, U # T PROVE FALSE
  <2>1. <<U, T>> \in StrictSubsetOrdering(S)
    BY <1>3 DEF StrictSubsetOrdering
  <2>2. QED BY <1>2, <2>1
<1>4. QED BY <1>2, <1>3

(* A sum over a set, as the fold of the community modules defines it: the   *)
(* function that sums every subset, one picked element at a time.           *)
Picked(s) == CHOOSE x \in s : TRUE

(* What is picked of a set is in it.                                        *)
LEMMA PickedIsIn == ASSUME NEW s, s # {} PROVE Picked(s) \in s
BY DEF Picked

Rest(s) == s \ {Picked(s)}

SumsUp(g, f, T) ==
  g = [s \in SUBSET T |-> IF s = {} THEN 0 ELSE f[Picked(s)] + g[Rest(s)]]

Over(f, T) == CHOOSE g : SumsUp(g, f, T)

(* The sum of the model is the value of that function at the whole set.     *)
LEMMA SumIsChosen ==
  ASSUME NEW f, NEW S
  PROVE  SumFunctionOnSet(f, S) = Over(f, S)[S]
BY DEF SumFunctionOnSet, FoldFunctionOnSet, MapThenFoldSet, Over, SumsUp, Rest, Picked

(* What the function is at one subset.                                      *)
LEMMA SumsUpAt ==
  ASSUME NEW f, NEW T, NEW g, SumsUp(g, f, T), NEW s \in SUBSET T
  PROVE  /\ s = {} => g[s] = 0
         /\ s # {} => g[s] = f[Picked(s)] + g[Rest(s)]
<1>1. g[s] = [u \in SUBSET T |-> IF u = {} THEN 0 ELSE f[Picked(u)] + g[Rest(u)]][s]
  BY DEF SumsUp
<1>2. g[s] = IF s = {} THEN 0 ELSE f[Picked(s)] + g[Rest(s)]
  BY <1>1
<1>3. QED BY <1>2

(* Two such functions agree on the finite subsets both know: a least subset *)
(* they disagree on would have a smaller one.                               *)
LEMMA SumsAgree ==
  ASSUME NEW f, NEW T, IsFiniteSet(T), NEW g, SumsUp(g, f, T),
         NEW U, NEW h, SumsUp(h, f, U), NEW s, s \subseteq T, s \subseteq U
  PROVE  g[s] = h[s]
<1>1. PICK B : B = {u \in SUBSET s : g[u] # h[u]}
  OBVIOUS
<1>2. SUFFICES ASSUME B # {} PROVE FALSE
  BY <1>1
<1>3. IsFiniteSet(s) /\ B \in SUBSET (SUBSET s)
  BY <1>1, FS_Subset
<1>4. PICK u \in B : \A v \in B : v \subseteq u => v = u
  BY <1>2, <1>3, SmallestSubset
<1>5. u \in SUBSET T /\ u \in SUBSET U /\ g[u] # h[u]
  BY <1>1, <1>4
<1>6. u # {}
  BY <1>5, SumsUpAt
<1>7. Rest(u) \notin B
  BY <1>4, <1>6, PickedIsIn DEF Rest
<1>8. g[Rest(u)] = h[Rest(u)]
  BY <1>1, <1>4, <1>7 DEF Rest
<1>9. QED BY <1>5, <1>6, <1>8, SumsUpAt

(* There is such a function for every finite set: on a least set without    *)
(* one it could be put together from those of the smaller sets.             *)
LEMMA SumExists ==
  ASSUME NEW f, NEW S, IsFiniteSet(S)
  PROVE  SumsUp(Over(f, S), f, S)
<1>1. PICK B : B = {T \in SUBSET S : ~ SumsUp(Over(f, T), f, T)}
  OBVIOUS
<1>2. SUFFICES ASSUME B # {} PROVE FALSE
  BY <1>1
<1>3. PICK T \in B : \A U \in B : U \subseteq T => U = T
  BY <1>1, <1>2, SmallestSubset
<1>4. IsFiniteSet(T) /\ T \subseteq S
  BY <1>1, FS_Subset
<1>5. ASSUME NEW V \in SUBSET T, V # T PROVE SumsUp(Over(f, V), f, V)
  BY <1>1, <1>3, <1>4, <1>5
<1>6. \A V \in SUBSET T : V # {} => Rest(V) \in SUBSET T /\ Rest(V) # T /\ Rest(V) \subseteq V
  BY PickedIsIn DEF Rest
<1>7. PICK g : g = [V \in SUBSET T |->
                      IF V = {} THEN 0 ELSE f[Picked(V)] + Over(f, Rest(V))[Rest(V)]]
  OBVIOUS
<1>8. ASSUME NEW W \in SUBSET T, W # T PROVE g[W] = Over(f, W)[W]
  <2>1. SumsUp(Over(f, W), f, W)
    BY <1>5, <1>8
  <2>2. CASE W = {}
    BY <1>7, <2>1, <2>2, SumsUpAt
  <2>3. CASE W # {}
    <3>1. SumsUp(Over(f, Rest(W)), f, Rest(W))
      BY <1>5, <1>6, <2>3
    <3>2. IsFiniteSet(W) /\ Rest(W) \subseteq W
      BY <1>4, <1>6, <2>3, FS_Subset
    <3>3. Over(f, W)[Rest(W)] = Over(f, Rest(W))[Rest(W)]
      BY <2>1, <3>1, <3>2, SumsAgree
    <3>4. Over(f, W)[W] = f[Picked(W)] + Over(f, W)[Rest(W)]
      BY <2>1, <2>3, SumsUpAt
    <3>5. QED BY <1>7, <2>3, <3>3, <3>4
  <2>4. QED BY <2>2, <2>3
<1>9. \A V \in SUBSET T : V # {} => g[Rest(V)] = Over(f, Rest(V))[Rest(V)]
  BY <1>6, <1>8
<1>10. SumsUp(g, f, T)
  BY <1>7, <1>9 DEF SumsUp
<1>11. SumsUp(Over(f, T), f, T)
  BY <1>10 DEF Over
<1>12. QED BY <1>1, <1>3, <1>11

(* The sum over no rows is nothing.                                         *)
LEMMA SumOfNone == ASSUME NEW f PROVE SumFunctionOnSet(f, {}) = 0
BY SumExists, SumIsChosen, SumsUpAt, FS_EmptySet

(* The sum of a finite set of natural numbers is one.                       *)
LEMMA SumOfNats ==
  ASSUME NEW S, IsFiniteSet(S), NEW f, \A x \in S : f[x] \in Nat
  PROVE  SumFunctionOnSet(f, S) \in Nat
<1>1. PICK g : g = Over(f, S)
  OBVIOUS
<1>2. SumsUp(g, f, S)
  BY <1>1, SumExists
<1>3. PICK B : B = {u \in SUBSET S : g[u] \notin Nat}
  OBVIOUS
<1>4. SUFFICES ASSUME B # {} PROVE FALSE
  BY <1>1, <1>3, SumIsChosen
<1>5. PICK u \in B : \A v \in B : v \subseteq u => v = u
  BY <1>3, <1>4, SmallestSubset
<1>6. u \in SUBSET S /\ g[u] \notin Nat
  BY <1>3, <1>5
<1>7. u # {}
  <2>1. u = {} => g[u] = 0
    BY <1>2, <1>6, SumsUpAt
  <2>2. QED BY <1>6, <2>1
<1>8. Picked(u) \in u
  BY <1>7, PickedIsIn
<1>9. g[Rest(u)] \in Nat
  BY <1>3, <1>5, <1>6, <1>8 DEF Rest
<1>10. g[u] = f[Picked(u)] + g[Rest(u)]
  BY <1>2, <1>6, <1>7, SumsUpAt
<1>11. QED BY <1>6, <1>8, <1>9, <1>10

-----------------------------------------------------------------------------
(* Retention.                                                               *)

(* MaxExpenses written expenses are newer than c.                           *)
Outlived(c) == Cardinality({d \in landed : Older(c, d)}) >= MaxExpenses

(* Where a call is before its expense lands.                                *)
Unwritten == {"idle", "denied", "admitted", "recording"}

(* What makes retention inductive: a write about to land is not written     *)
(* yet, so its stamp may still be set, and whatever a prune is deleting or  *)
(* will delete is outlived already.                                         *)
RetentionInv ==
  /\ IsFiniteSet(landed)
  /\ expenses \subseteq landed
  /\ \A c \in Calls : pc[c] \in Unwritten => c \notin landed
  /\ \A c \in landed \ expenses : Outlived(c)
  /\ \A c \in Calls : pc[c] = "pruning" => writing[c] \in landed /\ Outlived(writing[c])
  /\ \A c \in Calls : \A v \in victims[c] : v \in landed /\ Outlived(v)

(* An expense outlived once stays so: written expenses only grow in number  *)
(* and never change their stamps.                                           *)
LEMMA OutlivedStays ==
  ASSUME TypeOK, IsFiniteSet(landed'), landed \subseteq landed', NEW c,
         \A d \in landed : Older(c, d) => Older(c, d)',
         Outlived(c)
  PROVE  Outlived(c)'
<1> DEFINE before == {d \in landed : Older(c, d)}
           after == {d \in landed' : Older(c, d)'}
<1>1. before \subseteq after
  OBVIOUS
<1>2. IsFiniteSet(after)
  BY FS_Subset
<1>3. Cardinality(before) \in Nat /\ Cardinality(after) \in Nat
      /\ Cardinality(before) <= Cardinality(after)
  BY <1>1, <1>2, FS_Subset, FS_CardinalityType
<1> QED
  BY <1>3, NumbersAssumption DEF Outlived

(* A step that writes, deletes and stamps no expense and starts no prune    *)
(* keeps the retention invariant.                                           *)
LEMMA RetentionIdle ==
  ASSUME TypeOK, RetentionInv,
         UNCHANGED <<expenses, landed, stamp>>,
         \A c \in Calls : victims'[c] \subseteq victims[c],
         \A c \in Calls : pc'[c] = "pruning" => pc[c] = "pruning" /\ writing'[c] = writing[c],
         \A c \in Calls : pc'[c] \in Unwritten => pc[c] \in Unwritten
  PROVE  RetentionInv'
<1>1. \A c : Outlived(c) => Outlived(c)'
  BY DEF Outlived, Older
<1> QED
  BY <1>1 DEF RetentionInv

(* The four steps of a prune's loop share this: it settles, or its next     *)
(* victim is one of V.                                                      *)
LEMMA PruneTargets ==
  ASSUME TypeOK, NEW c \in Calls, NEW V \in SUBSET Calls, NEW q, PruneGoesOn(c, V, q)
  PROVE  /\ \A d \in Calls \ {c} : /\ pc'[d] = pc[d] /\ writing'[d] = writing[d]
                                   /\ victims'[d] = victims[d]
         /\ pc'[c] \in {"pruning", "done"}
         /\ pc'[c] = "pruning" => writing'[c] \in V /\ victims'[c] \subseteq V
         /\ pc'[c] = "done" => victims' = victims
<1>0. c \in Writers /\ Calls \subseteq Writers
  BY DEF Writers
<1>1. CASE V = {}
  <2>1. Settle(c, q) /\ victims' = victims
    BY <1>1 DEF PruneGoesOn
  <2> QED
    BY <1>0, <2>1 DEF Settle, TypeOK
<1>2. CASE V # {}
  <2>1. PICK v \in V : Issue(q, c, v) /\ victims' = [victims EXCEPT ![c] = V \ {v}]
    BY <1>2 DEF PruneGoesOn
  <2>2. pc' = [pc EXCEPT ![c] = "pruning"]
    BY <1>2 DEF PruneGoesOn
  <2> QED
    BY <1>0, <2>1, <2>2 DEF Issue, TypeOK
<1> QED
  BY <1>1, <1>2

(* A sync touches no call.                                                  *)
LEMMA UpdateLeavesCalls ==
  ASSUME TypeOK, NEW s \in Syncs, NEW given, NEW D, NEW P, NEW q,
         UpdateGoesOn(s, given, D, P, q)
  PROVE  \A c \in Calls : pc'[c] = pc[c] /\ writing'[c] = writing[c]
<1>0. s \in Writers /\ Calls \subseteq Writers /\ s \notin Calls
  BY NamesAssumption DEF Writers
<1>1. CASE D \cup P = {}
  <2>1. Settle(s, q)
    BY <1>1 DEF UpdateGoesOn
  <2> QED
    BY <1>0, <2>1 DEF Settle, TypeOK
<1>2. CASE D \cup P # {}
  <2>1. PICK r : Issue(q, s, r)
    BY <1>2 DEF UpdateGoesOn
  <2>2. pc' = [pc EXCEPT ![s] = "updating"]
    BY <1>2 DEF UpdateGoesOn
  <2> QED
    BY <1>0, <2>1, <2>2 DEF Issue, TypeOK
<1> QED
  BY <1>1, <1>2

(* Every step keeps the retention invariant.                                *)
LEMMA RetentionStep ==
  ASSUME TypeOK, RetentionInv, [Next]_vars
  PROVE  RetentionInv'
<1>0. Calls \subseteq Writers
  BY DEF Writers
<1>1. ASSUME NEW s \in Syncs, NEW given, UpdateBalances(s, given) PROVE RetentionInv'
  <2>1. \A c \in Calls : pc'[c] = pc[c] /\ writing'[c] = writing[c]
    BY <1>1, UpdateLeavesCalls DEF UpdateBalances
  <2>2. UNCHANGED <<expenses, landed, stamp, victims>>
    BY <1>1 DEF UpdateBalances, callVars
  <2> QED
    BY <2>1, <2>2, RetentionIdle
<1>2. ASSUME NEW s \in Syncs, UpdateLands(s) PROVE RetentionInv'
  <2>1. \A c \in Calls : pc'[c] = pc[c] /\ writing'[c] = writing[c]
    BY <1>2, UpdateLeavesCalls DEF UpdateLands
  <2>2. UNCHANGED <<expenses, landed, stamp, victims>>
    BY <1>2 DEF UpdateLands, callVars
  <2> QED
    BY <2>1, <2>2, RetentionIdle
<1>3. ASSUME NEW c \in Calls, Admit(c) \/ Deny(c) PROVE RetentionInv'
  <2>1. /\ UNCHANGED <<expenses, landed, stamp, victims, writing>>
        /\ pc[c] = "idle"
        /\ \A d \in Calls \ {c} : pc'[d] = pc[d]
        /\ pc'[c] \in {"admitted", "denied"}
    BY <1>0, <1>3 DEF Admit, Deny, ledgerVars, callVars, TypeOK
  <2> QED
    BY <2>1, RetentionIdle DEF Unwritten
<1>4. ASSUME NEW c \in Calls, Meter(c) PROVE RetentionInv'
  <2>1. /\ UNCHANGED <<expenses, landed, victims>>
        /\ pc[c] = "admitted"
        /\ pc'[c] = "recording"
        /\ \A d \in Calls \ {c} : pc'[d] = pc[d] /\ writing'[d] = writing[d] /\ stamp'[d] = stamp[d]
    BY <1>0, <1>4 DEF Meter, RecordExpense, Issue, ledgerVars, TypeOK
  <2>2. c \notin landed
    BY <2>1 DEF RetentionInv, Unwritten
  <2>3. ASSUME NEW d \in landed, Outlived(d) PROVE Outlived(d)'
    <3>1. \A e \in landed : Older(d, e) => Older(d, e)'
      BY <2>1, <2>2 DEF Older, TypeOK
    <3> QED
      BY <2>1, <2>3, <3>1, OutlivedStays DEF RetentionInv
  <2> QED
    BY <2>1, <2>2, <2>3 DEF RetentionInv, Unwritten
<1>5. ASSUME NEW c \in Calls, RecordLands(c) PROVE RetentionInv'
  <2> DEFINE S == expenses \cup {c}
  <2>1. /\ expenses' = S /\ landed' = landed \cup {c} /\ stamp' = stamp
        /\ PruneGoesOn(c, Surplus(S), Tail(chain))
    BY <1>5 DEF RecordLands
  <2>2. IsFiniteSet(landed') /\ S \subseteq landed'
    BY <2>1, FS_AddElement DEF RetentionInv
  <2>3. ASSUME NEW d, Outlived(d) PROVE Outlived(d)'
    <3>1. \A e \in landed : Older(d, e) => Older(d, e)'
      BY <2>1 DEF Older
    <3> QED
      BY <2>1, <2>2, <2>3, <3>1, OutlivedStays
  <2>4. ASSUME NEW v \in Surplus(S) PROVE v \in landed' /\ Outlived(v)'
    <3> DEFINE inTable == {d \in S : Older(v, d)}
               written == {d \in landed' : Older(v, d)'}
    <3>1. inTable \subseteq written
      BY <2>1, <2>2 DEF Older
    <3>2. IsFiniteSet(written)
      BY <2>2, FS_Subset
    <3>3. /\ Cardinality(inTable) \in Nat /\ Cardinality(written) \in Nat
          /\ Cardinality(inTable) <= Cardinality(written)
      BY <3>1, <3>2, FS_Subset, FS_CardinalityType
    <3>4. v \in S /\ Cardinality(inTable) >= MaxExpenses
      BY DEF Surplus
    <3> QED
      BY <2>2, <3>3, <3>4, NumbersAssumption DEF Outlived
  <2>5. Surplus(S) \in SUBSET Calls
    BY DEF Surplus, TypeOK
  <2>6. /\ \A d \in Calls \ {c} : /\ pc'[d] = pc[d] /\ writing'[d] = writing[d]
                                  /\ victims'[d] = victims[d]
        /\ pc'[c] \in {"pruning", "done"}
        /\ pc'[c] = "pruning" => writing'[c] \in Surplus(S) /\ victims'[c] \subseteq Surplus(S)
        /\ pc'[c] = "done" => victims' = victims
    BY <2>1, <2>5, PruneTargets
  <2>7. \A d \in Calls : pc'[d] \in Unwritten => d \notin landed'
    BY <2>1, <2>6 DEF RetentionInv, Unwritten
  <2>8. \A d \in landed' \ expenses' : Outlived(d)'
    BY <2>1, <2>3 DEF RetentionInv
  <2>9. \A d \in Calls : pc'[d] = "pruning" => writing'[d] \in landed' /\ Outlived(writing[d])'
    <3>1. ASSUME NEW d \in Calls \ {c}, pc'[d] = "pruning"
          PROVE  writing'[d] \in landed' /\ Outlived(writing[d])'
      <4>1. writing'[d] = writing[d] /\ writing[d] \in landed /\ Outlived(writing[d])
        BY <2>6, <3>1 DEF RetentionInv
      <4>2. PICK v : v = writing[d]
        OBVIOUS
      <4> QED
        BY <2>1, <2>3, <4>1, <4>2 DEF Outlived
    <3>2. ASSUME pc'[c] = "pruning"
          PROVE  writing'[c] \in landed' /\ Outlived(writing[c])'
      <4>1. PICK v \in Surplus(S) : v = writing'[c]
        BY <2>6, <3>2
      <4> QED
        BY <2>4, <4>1 DEF Outlived
    <3> QED
      BY <3>1, <3>2
  <2>10. \A d \in Calls : \A v \in victims'[d] : v \in landed' /\ Outlived(v)'
    BY <2>1, <2>3, <2>4, <2>6 DEF RetentionInv
  <2> QED
    BY <2>1, <2>2, <2>7, <2>8, <2>9, <2>10 DEF RetentionInv
<1>6. ASSUME NEW c \in Calls, PruneLands(c) PROVE RetentionInv'
  <2>1. /\ pc[c] = "pruning" /\ UNCHANGED <<landed, stamp>>
        /\ expenses' = expenses \ {writing[c]}
        /\ PruneGoesOn(c, victims[c], Tail(chain))
    BY <1>6 DEF PruneLands
  <2>2. victims[c] \in SUBSET Calls
    BY DEF TypeOK
  <2>3. /\ \A d \in Calls \ {c} : /\ pc'[d] = pc[d] /\ writing'[d] = writing[d]
                                  /\ victims'[d] = victims[d]
        /\ pc'[c] \in {"pruning", "done"}
        /\ pc'[c] = "pruning" => writing'[c] \in victims[c] /\ victims'[c] \subseteq victims[c]
        /\ pc'[c] = "done" => victims' = victims
    BY <2>1, <2>2, PruneTargets
  <2>4. \A d : Outlived(d) => Outlived(d)'
    BY <2>1 DEF Outlived, Older
  <2>5. \A d \in landed' \ expenses' : Outlived(d)'
    BY <2>1, <2>4 DEF RetentionInv
  <2>6. \A d \in Calls : pc'[d] \in Unwritten => d \notin landed'
    BY <2>1, <2>3 DEF RetentionInv, Unwritten
  <2>7. \A d \in Calls : pc'[d] = "pruning" => writing'[d] \in landed' /\ Outlived(writing[d])'
    <3>1. ASSUME NEW d \in Calls, pc'[d] = "pruning"
          PROVE  \E v : v = writing'[d] /\ v \in landed /\ Outlived(v)
      <4>1. CASE d = c
        BY <2>3, <3>1, <4>1 DEF RetentionInv
      <4>2. CASE d # c
        BY <2>3, <3>1, <4>2 DEF RetentionInv
      <4> QED
        BY <4>1, <4>2
    <3>2. \A d \in Calls : pc'[d] = "pruning" =>
              writing'[d] \in landed' /\
              Cardinality({e \in landed' : Older(writing[d], e)'}) >= MaxExpenses
      <4> SUFFICES ASSUME NEW d \in Calls, pc'[d] = "pruning"
                   PROVE  writing'[d] \in landed' /\
                          Cardinality({e \in landed' : Older(writing[d], e)'}) >= MaxExpenses
        OBVIOUS
      <4>1. PICK v : v = writing'[d] /\ v \in landed /\ Outlived(v)
        BY <3>1
      <4>2. Cardinality({e \in landed : Older(v, e)}) >= MaxExpenses
        BY <4>1 DEF Outlived
      <4>3. {e \in landed' : Older(writing[d], e)'} = {e \in landed : Older(v, e)}
        BY <2>1, <4>1 DEF Older
      <4> QED
        BY <2>1, <4>1, <4>2, <4>3
    <3> QED
      BY <3>2 DEF Outlived
  <2>8. \A d \in Calls : \A v \in victims'[d] : v \in landed' /\ Outlived(v)'
    BY <2>1, <2>3, <2>4 DEF RetentionInv
  <2> QED
    BY <2>1, <2>5, <2>6, <2>7, <2>8 DEF RetentionInv
<1>7. CASE WriteFails
  <2>1. /\ UNCHANGED <<expenses, landed, stamp>>
        /\ pc' = [pc EXCEPT ![Head(chain)] = "failed"]
        /\ Abandon({Head(chain)})
    BY <1>7 DEF WriteFails
  <2>2. \A c \in Calls : victims'[c] \subseteq victims[c]
    BY <2>1 DEF Abandon
  <2>3. \A c \in Calls : pc'[c] = "pruning" => pc[c] = "pruning" /\ writing'[c] = writing[c]
    BY <1>0, <2>1 DEF Abandon, TypeOK
  <2>4. \A c \in Calls : pc'[c] \in Unwritten => pc[c] \in Unwritten
    BY <1>0, <2>1 DEF Unwritten, TypeOK
  <2> QED
    BY <2>1, <2>2, <2>3, <2>4, RetentionIdle
<1>8. CASE Restart
  <2>1. /\ UNCHANGED <<expenses, landed, stamp>>
        /\ pc' = [w \in Writers |-> IF pc[w] \in InFlight \cup {"admitted"} THEN "lost" ELSE pc[w]]
        /\ Abandon(Writers)
    BY <1>8 DEF Restart
  <2>2. \A c \in Calls : victims'[c] \subseteq victims[c]
    BY <2>1 DEF Abandon
  <2>3. \A c \in Calls : pc'[c] = "pruning" => pc[c] = "pruning" /\ writing'[c] = writing[c]
    BY <1>0, <2>1 DEF InFlight
  <2>4. \A c \in Calls : pc'[c] \in Unwritten => pc[c] \in Unwritten
    BY <1>0, <2>1 DEF Unwritten
  <2> QED
    BY <2>1, <2>2, <2>3, <2>4, RetentionIdle
<1>9. CASE Tick \/ UNCHANGED vars
  BY <1>9, RetentionIdle DEF Tick, vars, ledgerVars, callVars
<1> QED
  <2>1. ASSUME NEW s \in Syncs, SyncAll(s) PROVE RetentionInv'
    BY <1>1, <2>1 DEF SyncAll
  <2>2. ASSUME NEW s \in Syncs, NEW r \in Rows, SyncOne(s, r) PROVE RetentionInv'
    BY <1>1, <2>2 DEF SyncOne
  <2>3. CASE Lands
    BY <1>2, <1>5, <1>6, <2>3 DEF Lands
  <2> QED
    BY <1>3, <1>4, <1>7, <1>8, <1>9, <2>1, <2>2, <2>3 DEF Next

(* An empty ledger has written nothing.                                     *)
LEMMA RetentionInit == Init => RetentionInv
<1> SUFFICES ASSUME Init PROVE RetentionInv
  OBVIOUS
<1>1. IsFiniteSet(landed) /\ landed = {} /\ expenses = {}
  BY FS_EmptySet DEF Init
<1>2. \A c \in Calls : pc[c] = "idle" /\ victims[c] = {}
  BY DEF Init, Writers
<1> QED
  BY <1>1, <1>2 DEF RetentionInv

(* Recording past the cap loses only what MaxExpenses newer expenses        *)
(* outlive, for any number of concurrent records, prunes and crashes.       *)
THEOREM RetentionHolds == Spec => []NewestAreRetained
<1>1. RetentionInv => NewestAreRetained
  BY DEF RetentionInv, NewestAreRetained, Outlived
<1>2. Init => TypeOK /\ RetentionInv
  BY TypeInit, RetentionInit
<1>3. TypeOK /\ RetentionInv /\ [Next]_vars => TypeOK' /\ RetentionInv'
  BY TypeStep, RetentionStep
<1> QED
  BY <1>1, <1>2, <1>3, PTL DEF Spec

-----------------------------------------------------------------------------
(* Metering.                                                                *)

(* A call past its put has its expense written.                             *)
MeteredInv == \A c \in Calls : pc[c] \in {"pruning", "done"} => c \in landed

(* Every step keeps it: only the landing of its own put takes a call there. *)
LEMMA MeteredStep ==
  ASSUME TypeOK, MeteredInv, [Next]_vars
  PROVE  MeteredInv'
<1>0. Calls \subseteq Writers
  BY DEF Writers
<1> DEFINE Past(c) == pc[c] \in {"pruning", "done"}
<1>1. ASSUME landed \subseteq landed', \A c \in Calls : Past(c)' => Past(c) \/ c \in landed'
      PROVE  MeteredInv'
  BY <1>1 DEF MeteredInv
<1>2. ASSUME NEW s \in Syncs, NEW given, UpdateBalances(s, given) PROVE MeteredInv'
  BY <1>1, <1>2, UpdateLeavesCalls DEF UpdateBalances, callVars
<1>3. ASSUME NEW s \in Syncs, UpdateLands(s) PROVE MeteredInv'
  BY <1>1, <1>3, UpdateLeavesCalls DEF UpdateLands, callVars
<1>4. ASSUME NEW c \in Calls, Admit(c) \/ Deny(c) \/ Meter(c) PROVE MeteredInv'
  <2>1. /\ landed' = landed
        /\ \A d \in Calls : pc'[d] = IF d = c THEN pc'[c] ELSE pc[d]
        /\ pc'[c] \in {"admitted", "denied", "recording"}
    BY <1>0, <1>4 DEF Admit, Deny, Meter, RecordExpense, callVars, TypeOK
  <2> QED
    BY <1>1, <2>1
<1>5. ASSUME NEW c \in Calls, RecordLands(c) PROVE MeteredInv'
  <2>1. landed' = landed \cup {c} /\ Surplus(expenses \cup {c}) \in SUBSET Calls
    BY <1>5 DEF RecordLands, Surplus, TypeOK
  <2>2. \A d \in Calls \ {c} : pc'[d] = pc[d]
    BY <1>5, <2>1, PruneTargets DEF RecordLands
  <2> QED
    BY <1>1, <2>1, <2>2
<1>6. ASSUME NEW c \in Calls, PruneLands(c) PROVE MeteredInv'
  <2>1. landed' = landed /\ pc[c] = "pruning" /\ victims[c] \in SUBSET Calls
    BY <1>6 DEF PruneLands, TypeOK
  <2>2. \A d \in Calls \ {c} : pc'[d] = pc[d]
    BY <1>6, <2>1, PruneTargets DEF PruneLands
  <2> QED
    BY <1>1, <2>1, <2>2
<1>7. CASE WriteFails
  <2>1. landed' = landed /\ pc' = [pc EXCEPT ![Head(chain)] = "failed"]
    BY <1>7 DEF WriteFails
  <2> QED
    BY <1>0, <1>1, <2>1 DEF TypeOK
<1>8. CASE Restart
  <2>1. /\ landed' = landed
        /\ pc' = [w \in Writers |-> IF pc[w] \in InFlight \cup {"admitted"} THEN "lost" ELSE pc[w]]
    BY <1>8 DEF Restart
  <2> QED
    BY <1>0, <1>1, <2>1
<1>9. CASE Tick \/ UNCHANGED vars
  BY <1>1, <1>9 DEF Tick, vars, callVars
<1> QED
  <2>1. ASSUME NEW s \in Syncs, SyncAll(s) PROVE MeteredInv'
    BY <1>2, <2>1 DEF SyncAll
  <2>2. ASSUME NEW s \in Syncs, NEW r \in Rows, SyncOne(s, r) PROVE MeteredInv'
    BY <1>2, <2>2 DEF SyncOne
  <2>3. CASE Lands
    BY <1>3, <1>5, <1>6, <2>3 DEF Lands
  <2> QED
    BY <1>4, <1>7, <1>8, <1>9, <2>1, <2>2, <2>3 DEF Next

(* No request is sent and no tool result handed on before its expense is    *)
(* durable, whatever fails or overlaps.                                     *)
THEOREM MeteredFirst == Spec => []DoneMeansMetered
<1>1. MeteredInv => DoneMeansMetered
  BY DEF MeteredInv, DoneMeansMetered
<1>2. Init => TypeOK /\ MeteredInv
  <2>1. Init => \A c \in Calls : pc[c] = "idle"
    BY DEF Init, Writers
  <2> QED
    BY <2>1, TypeInit DEF MeteredInv
<1>3. TypeOK /\ MeteredInv /\ [Next]_vars => TypeOK' /\ MeteredInv'
  BY TypeStep, MeteredStep
<1> QED
  BY <1>1, <1>2, <1>3, PTL DEF Spec

-----------------------------------------------------------------------------
(* The cached state.                                                        *)

(* The state of an empty ledger is the one its rows derive.                 *)
LEMMA DerivedInit == ASSUME Init PROVE state = Derived(balances, expenses)
<1>1. Filled(balances) = {} /\ {c \in expenses : stamp[c] >= now - BurnWindow} = {}
  BY DEF Init, Filled
<1>2. TotalValueUsd(balances) = 0
  BY <1>1, SumOfNone DEF TotalValueUsd
<1>3. SpentOn({c \in expenses : stamp[c] >= now - BurnWindow}) = 0
  BY <1>1, SumOfNone DEF SpentOn
<1>4. (0 + BurnWindow - 1) \div BurnWindow = 0
  BY NumbersAssumption
<1>5. DailyBurnUsd(expenses) = FixedBurn
  BY <1>3, <1>4, NumbersAssumption DEF DailyBurnUsd
<1>6. QED BY <1>2, <1>5 DEF Init, Derived

(* The settled state is the one the rows derive, and the clock stands.      *)
LEMMA SettledIsDerived ==
  ASSUME NEW w, NEW q, Settle(w, q), UNCHANGED <<stamp, now>>
  PROVE  (state = Derived(balances, expenses))' /\ settledAt' = now' /\ torn' = FALSE
BY DEF Settle, Derived, DailyBurnUsd

(* An update settles, or has its next write on the chain.                   *)
LEMMA UpdateSettles ==
  ASSUME TypeOK, NEW s \in Syncs, NEW given, NEW D, NEW P, NEW q \in Seq(Writers),
         UpdateGoesOn(s, given, D, P, q)
  PROVE  \/ D \cup P = {} /\ Settle(s, q)
         \/ chain' = Append(q, s) /\ chain' # <<>> /\ Unsettled
            /\ pc' = [pc EXCEPT ![s] = "updating"]
<1>1. CASE D \cup P = {}
  BY <1>1 DEF UpdateGoesOn
<1>2. CASE D \cup P # {}
  <2>1. (\E r : Issue(q, s, r)) /\ Unsettled /\ pc' = [pc EXCEPT ![s] = "updating"]
    BY <1>2 DEF UpdateGoesOn
  <2>2. s \in Writers
    BY DEF Writers
  <2>3. QED BY <2>1, <2>2 DEF Issue
<1>3. QED BY <1>1, <1>2

(* So does a prune.                                                         *)
LEMMA PruneSettles ==
  ASSUME TypeOK, NEW c \in Calls, NEW V, NEW q \in Seq(Writers), PruneGoesOn(c, V, q)
  PROVE  \/ Settle(c, q)
         \/ chain' = Append(q, c) /\ chain' # <<>> /\ Unsettled
            /\ pc' = [pc EXCEPT ![c] = "pruning"]
BY DEF PruneGoesOn, Issue, Writers

(* The clock has not passed an hour it was settled at.                      *)
QuietInv == settledAt <= now /\ QuietStateIsDerived

(* Every write ends by settling or by issuing the next one, so an empty     *)
(* chain means that the last thing done was to settle.                      *)
LEMMA QuietStep == ASSUME TypeOK, QuietInv, [Next]_vars PROVE QuietInv'
<1> USE DEF ledgerVars, syncVars, callVars
<1>0. now \in Nat /\ settledAt \in Nat
  BY NumbersAssumption DEF TypeOK
<1>1. ASSUME NEW w, NEW q, Settle(w, q), UNCHANGED <<stamp, now>> PROVE QuietInv'
  <2>1. (state = Derived(balances, expenses))' /\ settledAt' = now'
    BY <1>1, SettledIsDerived, Zenon
  <2>2. settledAt' <= now'
    BY <1>0, <1>1, <2>1
  <2>3. QED BY <2>1, <2>2 DEF QuietInv, QuietStateIsDerived
<1>2. ASSUME chain' # <<>>, Unsettled, now' = now PROVE QuietInv'
  BY <1>2 DEF QuietInv, QuietStateIsDerived, Unsettled
<1>3. ASSUME NEW s \in Syncs, NEW given, UpdateBalances(s, given) PROVE QuietInv'
  <2>1. chain \in Seq(Writers) /\ UNCHANGED <<stamp, now>>
    BY <1>3 DEF TypeOK, UpdateBalances
  <2>2. (\E q : Settle(s, q)) \/ (chain' # <<>> /\ Unsettled)
    BY <1>3, <2>1, UpdateSettles DEF UpdateBalances
  <2>3. QED BY <1>1, <1>2, <2>1, <2>2
<1>4. ASSUME NEW c \in Calls, Admit(c) \/ Deny(c) PROVE QuietInv'
  BY <1>4 DEF Admit, Deny, QuietInv, QuietStateIsDerived, Derived, DailyBurnUsd
<1>5. ASSUME NEW c \in Calls, Meter(c) PROVE QuietInv'
  <2>1. chain \in Seq(Writers) /\ c \in Writers
    BY DEF Writers, TypeOK
  <2>2. chain' # <<>> /\ Unsettled /\ now' = now
    BY <1>5, <2>1 DEF Meter, RecordExpense, Issue, Unsettled
  <2>3. QED BY <1>2, <2>2
<1>6. CASE Lands
  <2>1. Tail(chain) \in Seq(Writers)
    BY <1>6, ChainType DEF Lands, TypeOK
  <2>2. ASSUME NEW s \in Syncs, UpdateLands(s) PROVE QuietInv'
    <3>1. (\E q : Settle(s, q)) \/ (chain' # <<>> /\ Unsettled)
      BY <2>1, <2>2, UpdateSettles DEF UpdateLands
    <3>2. QED BY <1>1, <1>2, <2>2, <3>1 DEF UpdateLands
  <2>3. ASSUME NEW c \in Calls, RecordLands(c) \/ PruneLands(c) PROVE QuietInv'
    <3>1. (\E q : Settle(c, q)) \/ (chain' # <<>> /\ Unsettled)
      BY <2>1, <2>3, PruneSettles DEF RecordLands, PruneLands
    <3>2. QED BY <1>1, <1>2, <2>3, <3>1 DEF RecordLands, PruneLands
  <2>4. QED BY <1>6, <2>2, <2>3 DEF Lands
<1>7. CASE WriteFails
  BY <1>7 DEF WriteFails, QuietInv, QuietStateIsDerived
<1>8. CASE Tick
  BY <1>0, <1>8 DEF Tick, QuietInv, QuietStateIsDerived
<1>9. CASE Restart
  BY <1>0, <1>9 DEF Restart, QuietInv, QuietStateIsDerived, Derived, DailyBurnUsd
<1>10. CASE UNCHANGED vars
  BY <1>10 DEF vars, QuietInv, QuietStateIsDerived, Derived, DailyBurnUsd
<1>11. QED
  BY <1>3, <1>4, <1>5, <1>6, <1>7, <1>8, <1>9, <1>10 DEF Next, SyncAll, SyncOne

(* QuietStateIsDerived: with nothing being written, no failure and the same *)
(* clock, the cached state is the one the rows derive, in whatever order    *)
(* the writes of updates, records and prunes landed (Treasury.settle).      *)
THEOREM QuietIsDerived == Spec => []QuietStateIsDerived
<1>1. Init => TypeOK /\ QuietInv
  <2>1. ASSUME Init PROVE QuietInv
    <3>1. state = Derived(balances, expenses)
      BY <2>1, DerivedInit
    <3>2. settledAt <= now
      BY <2>1 DEF Init
    <3>3. QED BY <3>1, <3>2 DEF QuietInv, QuietStateIsDerived
  <2>2. QED BY <2>1, TypeInit
<1>2. TypeOK /\ QuietInv /\ [Next]_vars => TypeOK' /\ QuietInv'
  BY TypeStep, QuietStep
<1>3. QuietInv => QuietStateIsDerived
  BY DEF QuietInv
<1>4. QED BY <1>1, <1>2, <1>3, PTL DEF Spec

-----------------------------------------------------------------------------
(* A treasury that is worth nothing.                                        *)

(* What is worth nothing has no state but the two extremes: there is no     *)
(* runway, or there is no burn.                                             *)
LEMMA WorthlessState ==
  ASSUME NEW b, NEW E, IsFiniteSet(E), E \subseteq Calls, TotalValueUsd(b) = 0
  PROVE  Derived(b, E) \in {"funded", "depleted"}
<1> DEFINE W == {c \in E : stamp[c] >= now - BurnWindow}
<1>1. IsFiniteSet(W) /\ W \subseteq Calls
  BY FS_Subset
<1>2. SpentOn(W) \in Nat
  BY <1>1, SumOfNats, CallsAssumption DEF SpentOn
<1>3. PICK burn \in Nat : burn = DailyBurnUsd(E)
  <2>1. PICK n \in Nat : n = SpentOn(W)
    BY <1>2
  <2>2. (n + BurnWindow - 1) \div BurnWindow \in Nat
    BY <2>1, NumbersAssumption
  <2>3. DailyBurnUsd(E) = FixedBurn + (n + BurnWindow - 1) \div BurnWindow
    BY <2>1 DEF DailyBurnUsd
  <2>4. FixedBurn + (n + BurnWindow - 1) \div BurnWindow \in Nat
    BY <2>2, NumbersAssumption
  <2>5. QED BY <2>3, <2>4
<1>4. ComputeRunway(0, burn) \in {InfiniteRunwayDays, 0}
  BY <1>3 DEF ComputeRunway
<1>5. QED
  BY <1>3, <1>4 DEF Derived, ComputeTreasuryState, InfiniteRunwayDays

BrokeInv ==
  /\ ~torn
  /\ \A s \in Syncs : pc[s] # "updating"
  /\ TotalValueUsd(balances) = 0
  => state \in {"funded", "depleted"}

(* Only an update changes what the sheet is worth, and it derives the state *)
(* anew before it is done.                                                  *)
LEMMA BrokeStep ==
  ASSUME TypeOK, RetentionInv, BrokeInv, [Next]_vars PROVE BrokeInv'
<1> USE DEF ledgerVars, syncVars, callVars
<1>0. /\ IsFiniteSet(expenses) /\ expenses \subseteq Calls
      /\ \A c \in Calls : IsFiniteSet(expenses \cup {c})
      /\ Syncs \subseteq Writers /\ Calls \subseteq Writers
  BY FS_Subset, FS_AddElement DEF RetentionInv, TypeOK, Writers
<1>1. ASSUME NEW w, NEW q, Settle(w, q), UNCHANGED <<stamp, now>>,
             IsFiniteSet(expenses'), expenses' \subseteq Calls
      PROVE  BrokeInv'
  <2>1. state' = Derived(balances', expenses')
    BY <1>1 DEF Settle
  <2>2. TotalValueUsd(balances') = 0 => Derived(balances', expenses') \in {"funded", "depleted"}
    BY <1>1, WorthlessState
  <2>3. QED BY <2>1, <2>2 DEF BrokeInv
<1>2. ASSUME Unsettled, NEW s \in Syncs, pc' = [pc EXCEPT ![s] = "updating"] PROVE BrokeInv'
  BY <1>0, <1>2 DEF BrokeInv, TypeOK
<1>3. ASSUME Unsettled, balances' = balances, \A s \in Syncs : pc'[s] = pc[s] PROVE BrokeInv'
  BY <1>3 DEF BrokeInv, Unsettled, TotalValueUsd, Filled
<1>4. ASSUME NEW s \in Syncs, NEW given, UpdateBalances(s, given) PROVE BrokeInv'
  <2>1. chain \in Seq(Writers) /\ UNCHANGED <<stamp, now, expenses>>
    BY <1>4 DEF TypeOK, UpdateBalances
  <2>2. (\E q : Settle(s, q)) \/ (Unsettled /\ pc' = [pc EXCEPT ![s] = "updating"])
    BY <1>4, <2>1, UpdateSettles DEF UpdateBalances
  <2>3. QED BY <1>0, <1>1, <1>2, <2>1, <2>2
<1>5. ASSUME NEW c \in Calls, Admit(c) \/ Deny(c) \/ Meter(c) PROVE BrokeInv'
  <2>1. Unsettled /\ balances' = balances
    BY <1>5 DEF Admit, Deny, Meter, RecordExpense, Unsettled
  <2>2. \A s \in Syncs : pc'[s] = pc[s]
    BY <1>0, <1>5, NamesAssumption DEF Admit, Deny, Meter, RecordExpense, TypeOK
  <2>3. QED BY <1>3, <2>1, <2>2
<1>6. CASE Lands
  <2>1. Tail(chain) \in Seq(Writers)
    BY <1>6, ChainType DEF Lands, TypeOK
  <2>2. ASSUME NEW s \in Syncs, UpdateLands(s) PROVE BrokeInv'
    <3>1. (\E q : Settle(s, q)) \/ (Unsettled /\ pc' = [pc EXCEPT ![s] = "updating"])
      BY <2>1, <2>2, UpdateSettles DEF UpdateLands
    <3>2. UNCHANGED <<stamp, now, expenses>>
      BY <2>2 DEF UpdateLands
    <3>3. QED BY <1>0, <1>1, <1>2, <3>1, <3>2
  <2>3. ASSUME NEW c \in Calls, RecordLands(c) \/ PruneLands(c) PROVE BrokeInv'
    <3>1. (\E q : Settle(c, q)) \/ (Unsettled /\ pc' = [pc EXCEPT ![c] = "pruning"])
      BY <2>1, <2>3, PruneSettles DEF RecordLands, PruneLands
    <3>2. UNCHANGED <<stamp, now, balances>>
      BY <2>3 DEF RecordLands, PruneLands
    <3>3. IsFiniteSet(expenses') /\ expenses' \subseteq Calls
      BY <1>0, <2>3, FS_Subset DEF RecordLands, PruneLands
    <3>4. CASE Unsettled /\ pc' = [pc EXCEPT ![c] = "pruning"]
      <4>1. \A s \in Syncs : pc'[s] = pc[s]
        BY <1>0, <3>4, NamesAssumption DEF TypeOK
      <4>2. QED BY <1>3, <3>2, <3>4, <4>1
    <3>5. QED BY <1>1, <3>1, <3>2, <3>3, <3>4
  <2>4. QED BY <1>6, <2>2, <2>3 DEF Lands
<1>7. CASE WriteFails
  BY <1>7 DEF WriteFails, BrokeInv
<1>8. CASE Tick \/ UNCHANGED vars
  BY <1>3, <1>8 DEF Tick, Unsettled, vars
<1>9. CASE Restart
  <2>1. state' = Derived(balances, expenses) /\ UNCHANGED balances
    BY <1>9 DEF Restart
  <2>2. TotalValueUsd(balances) = 0 => Derived(balances, expenses) \in {"funded", "depleted"}
    BY <1>0, WorthlessState
  <2>3. QED BY <2>1, <2>2 DEF BrokeInv, TotalValueUsd, Filled
<1>10. QED
  BY <1>4, <1>5, <1>6, <1>7, <1>8, <1>9 DEF Next, SyncAll, SyncOne

(* A call is admitted only by the gate.                                     *)
LEMMA OnlyAdmitted ==
  ASSUME TypeOK, [Next]_vars, NEW c \in Calls, pc[c] = "idle", pc'[c] = "admitted"
  PROVE  Gate(c)
<1>0. c \in Writers /\ Calls \subseteq Writers /\ c \notin Syncs
  BY NamesAssumption DEF Writers
<1>1. ASSUME NEW s \in Syncs, NEW given, UpdateBalances(s, given) PROVE FALSE
  BY <1>1, UpdateLeavesCalls DEF UpdateBalances
<1>2. ASSUME NEW d \in Calls, Deny(d) \/ Meter(d) PROVE FALSE
  BY <1>0, <1>2 DEF Deny, Meter, RecordExpense, TypeOK
<1>3. ASSUME Lands PROVE FALSE
  <2>1. ASSUME NEW s \in Syncs, UpdateLands(s) PROVE FALSE
    BY <2>1, UpdateLeavesCalls DEF UpdateLands
  <2>2. ASSUME NEW d \in Calls, NEW V \in SUBSET Calls, NEW q, PruneGoesOn(d, V, q) PROVE FALSE
    BY <1>0, <2>2, PruneTargets
  <2>3. ASSUME NEW d \in Calls, RecordLands(d) PROVE FALSE
    BY <2>2, <2>3 DEF RecordLands, Surplus, TypeOK
  <2>4. ASSUME NEW d \in Calls, PruneLands(d) PROVE FALSE
    BY <2>2, <2>4 DEF PruneLands, TypeOK
  <2>5. QED BY <1>3, <2>1, <2>3, <2>4 DEF Lands
<1>4. ASSUME WriteFails \/ Tick \/ Restart \/ UNCHANGED vars PROVE FALSE
  BY <1>0, <1>4 DEF WriteFails, Tick, Restart, vars, TypeOK
<1>5. ASSUME NEW d \in Calls, Admit(d) PROVE Gate(c)
  BY <1>0, <1>5 DEF Admit, TypeOK
<1>6. QED
  BY <1>1, <1>2, <1>3, <1>4, <1>5 DEF Next, SyncAll, SyncOne

(* BrokeSpendsNothing: with enforcement on and a sheet worth nothing, no    *)
(* call is admitted, unless an update is under way or a write failed        *)
(* (authorizeCost, SpentPercentage, ComputeTreasuryState).                  *)
THEOREM BrokeIsDenied == Spec => BrokeSpendsNothing
<1>1. Init => TypeOK /\ RetentionInv /\ BrokeInv
  <2>1. ASSUME Init PROVE BrokeInv
    <3>1. Filled(balances) = {} /\ expenses = {}
      BY <2>1 DEF Init, Filled
    <3>2. Derived(balances, expenses) \in {"funded", "depleted"}
      BY <3>1, SumOfNone, FS_EmptySet, WorthlessState DEF TotalValueUsd
    <3>3. QED BY <2>1, <3>2, DerivedInit DEF BrokeInv
  <2>2. QED BY <2>1, TypeInit, RetentionInit
<1>2. TypeOK /\ RetentionInv /\ BrokeInv /\ [Next]_vars => (TypeOK /\ RetentionInv /\ BrokeInv)'
  BY TypeStep, RetentionStep, BrokeStep
<1> DEFINE A == \A c \in Calls :
                  /\ pc[c] = "idle" /\ pc'[c] = "admitted"
                  /\ Enabled /\ Funded /\ TotalValueUsd(balances) = 0
                  => torn \/ \E s \in Syncs : pc[s] = "updating"
<1>3. TypeOK /\ BrokeInv /\ [Next]_vars => [A]_vars
  <2> SUFFICES ASSUME TypeOK, BrokeInv, [Next]_vars, NEW c \in Calls,
                      pc[c] = "idle", pc'[c] = "admitted",
                      Enabled, Funded, TotalValueUsd(balances) = 0,
                      ~torn, \A s \in Syncs : pc[s] # "updating"
               PROVE  FALSE
    OBVIOUS
  <2>1. Authorized(c)
    BY OnlyAdmitted DEF Gate
  <2>2. state \in {"funded", "depleted"}
    BY DEF BrokeInv
  <2>3. IsBudgetAvailable(CategoryOf[c])
    BY <2>1, <2>2 DEF Authorized
  <2>4. 100 < Budget[CategoryOf[c]]
    BY <2>3 DEF IsBudgetAvailable, SpentPercentage
  <2>5. Budget[CategoryOf[c]] \in 0..100
    BY CallsAssumption
  <2>6. QED BY <2>4, <2>5
<1>4. QED BY <1>1, <1>2, <1>3, PTL DEF Spec, BrokeSpendsNothing

-----------------------------------------------------------------------------
(* A sync with nothing beside it.                                           *)

(* No sync has two writes in the chain.                                     *)
Once(q) == \A i, j \in 1..Len(q) : q[i] \in Syncs /\ q[i] = q[j] => i = j

(* What is in the chain runs, what runs beside another sync is marked, and  *)
(* the sheet of an unmarked sync is already there but for what it still has *)
(* to delete, to put or to land.                                            *)
LoneInv ==
  /\ Once(chain)
  /\ \A i \in 1..Len(chain) : chain[i] \in Syncs => pc[chain[i]] = "updating"
  /\ \A s, u \in Syncs :
       s # u /\ pc[s] = "updating" /\ pc[u] = "updating" => s \in overlapped
  /\ \A s \in Syncs \ overlapped :
       pc[s] = "updating" =>
         \A r \in Rows :
           balances[r] = sheet[s][r] \/ r \in dels[s] \cup puts[s] \cup {writing[s]}

(* The head of such a chain is not in its tail.                             *)
LEMMA OnceTail ==
  ASSUME NEW q \in Seq(Writers), q # <<>>, Once(q)
  PROVE  /\ Once(Tail(q))
         /\ \A i \in 1..Len(Tail(q)) : Tail(q)[i] \in Syncs =>
              Tail(q)[i] # Head(q) /\ \E j \in 1..Len(q) : Tail(q)[i] = q[j]
<1>1. /\ Len(Tail(q)) = Len(q) - 1 /\ Len(q) \in Nat
      /\ \A i \in 1..Len(Tail(q)) : Tail(q)[i] = q[i + 1] /\ i + 1 \in 1..Len(q)
      /\ Head(q) = q[1] /\ 1 \in 1..Len(q)
  OBVIOUS
<1>2. Once(Tail(q))
  BY <1>1 DEF Once
<1>3. ASSUME NEW i \in 1..Len(Tail(q)), Tail(q)[i] \in Syncs, Tail(q)[i] = Head(q)
      PROVE  FALSE
  <2>1. i + 1 = 1
    BY <1>1, <1>3 DEF Once
  <2>2. QED BY <2>1
<1>4. QED BY <1>1, <1>2, <1>3

(* A write that was not in the chain enters it once.                        *)
LEMMA OnceAppend ==
  ASSUME NEW q \in Seq(Writers), NEW w \in Writers, Once(q),
         \A i \in 1..Len(q) : q[i] \in Syncs => q[i] # w
  PROVE  /\ Once(Append(q, w))
         /\ \A i \in 1..Len(Append(q, w)) :
              Append(q, w)[i] = w \/ (i \in 1..Len(q) /\ Append(q, w)[i] = q[i])
<1>1. /\ Len(Append(q, w)) = Len(q) + 1 /\ Len(q) \in Nat
      /\ \A i \in 1..Len(q) : Append(q, w)[i] = q[i]
      /\ Append(q, w)[Len(q) + 1] = w
  OBVIOUS
<1>2. \A i \in 1..(Len(q) + 1) : i \in 1..Len(q) \/ i = Len(q) + 1
  BY <1>1
<1>3. ASSUME NEW i \in 1..(Len(q) + 1), NEW j \in 1..(Len(q) + 1),
             Append(q, w)[i] \in Syncs, Append(q, w)[i] = Append(q, w)[j]
      PROVE  i = j
  <2>1. CASE i \in 1..Len(q) /\ j \in 1..Len(q)
    BY <1>1, <1>3, <2>1 DEF Once
  <2>2. CASE i = Len(q) + 1 \/ j = Len(q) + 1
    BY <1>1, <1>2, <1>3, <2>2
  <2>3. QED BY <1>2, <2>1, <2>2
<1>4. QED BY <1>1, <1>2, <1>3 DEF Once

(* What an update leaves: it has settled, or its next write is issued.      *)
LEMMA UpdateEffect ==
  ASSUME TypeOK, NEW s \in Syncs, NEW given, NEW D, NEW P, NEW q,
         UpdateGoesOn(s, given, D, P, q)
  PROVE  /\ \A u \in Syncs \ {s} :
              /\ pc'[u] = pc[u] /\ sheet'[u] = sheet[u] /\ writing'[u] = writing[u]
              /\ dels'[u] = dels[u] /\ puts'[u] = puts[u]
         /\ \/ /\ D \cup P = {} /\ chain' = q /\ pc'[s] = "done"
               /\ overlapped' = overlapped \ {s}
            \/ /\ chain' = Append(q, s) /\ pc'[s] = "updating" /\ sheet'[s] = given
               /\ D \cup P = dels'[s] \cup puts'[s] \cup {writing'[s]}
               /\ overlapped \subseteq overlapped'
               /\ \A u \in Syncs \ {s} : pc[u] = "updating" => u \in overlapped' /\ s \in overlapped'
<1>0. s \in Writers /\ Syncs \subseteq Writers
  BY DEF Writers
<1>1. CASE D \cup P = {}
  BY <1>0, <1>1 DEF UpdateGoesOn, Settle, TypeOK
<1>2. CASE D \cup P # {}
  <2>1. PICK r \in IF D # {} THEN D ELSE P :
          /\ Issue(q, s, r)
          /\ dels' = [dels EXCEPT ![s] = D \ {r}]
          /\ puts' = [puts EXCEPT ![s] = P \ {r}]
    BY <1>2 DEF UpdateGoesOn
  <2>2. /\ writing'[s] = r /\ dels'[s] = D \ {r} /\ puts'[s] = P \ {r}
        /\ chain' = Append(q, s)
        /\ \A u \in Syncs \ {s} :
             writing'[u] = writing[u] /\ dels'[u] = dels[u] /\ puts'[u] = puts[u]
    BY <1>0, <2>1 DEF Issue, TypeOK
  <2>3. r \in D \cup P
    BY <1>2, <2>1
  <2>4. D \cup P = dels'[s] \cup puts'[s] \cup {writing'[s]}
    BY <2>2, <2>3
  <2>5. /\ pc'[s] = "updating" /\ sheet'[s] = given
        /\ \A u \in Syncs \ {s} : pc'[u] = pc[u] /\ sheet'[u] = sheet[u]
    BY <1>0, <1>2 DEF UpdateGoesOn, TypeOK
  <2>6. /\ overlapped \subseteq overlapped'
        /\ \A u \in Syncs \ {s} : pc[u] = "updating" => u \in overlapped' /\ s \in overlapped'
    <3>1. PICK B : B = {u \in Syncs \ {s} : pc[u] = "updating"}
      OBVIOUS
    <3>2. overlapped' = IF B = {} THEN overlapped ELSE overlapped \cup B \cup {s}
      BY <1>2, <3>1 DEF UpdateGoesOn
    <3>3. QED BY <3>1, <3>2
  <2>7. QED BY <2>2, <2>4, <2>5, <2>6
<1>3. QED BY <1>1, <1>2

(* One step of an update.                                                   *)
LEMMA LoneUpdate ==
  ASSUME TypeOK, LoneInv, NEW s \in Syncs, NEW given, NEW D, NEW P,
         NEW q \in Seq(Writers), UpdateGoesOn(s, given, D, P, q),
         Once(q), \A i \in 1..Len(q) : q[i] \in Syncs => q[i] # s /\ pc[q[i]] = "updating",
         pc[s] = "updating" \/ balances' = balances,
         s \notin overlapped => \A r \in Rows : balances'[r] = given[r] \/ r \in D \cup P
  PROVE  LoneInv'
<1>0. s \in Writers
  BY DEF Writers
<1>1. \A u \in Syncs \ {s} :
         /\ pc'[u] = pc[u] /\ sheet'[u] = sheet[u] /\ writing'[u] = writing[u]
         /\ dels'[u] = dels[u] /\ puts'[u] = puts[u]
  BY UpdateEffect
<1>2. CASE /\ D \cup P = {} /\ chain' = q /\ pc'[s] = "done"
           /\ overlapped' = overlapped \ {s}
  <2>1. Once(chain')
    BY <1>2
  <2>2. \A i \in 1..Len(chain') : chain'[i] \in Syncs => pc'[chain'[i]] = "updating"
    BY <1>1, <1>2
  <2>3. \A u, v \in Syncs :
          u # v /\ pc'[u] = "updating" /\ pc'[v] = "updating" => u \in overlapped'
    BY <1>1, <1>2 DEF LoneInv
  <2>4. ASSUME NEW u \in Syncs \ overlapped', pc'[u] = "updating", NEW r \in Rows
        PROVE  balances'[r] = sheet'[u][r] \/ r \in dels'[u] \cup puts'[u] \cup {writing'[u]}
    <3>1. u # s /\ pc[u] = "updating" /\ u \notin overlapped
      BY <1>1, <1>2, <2>4
    <3>2. balances' = balances
      BY <3>1 DEF LoneInv
    <3>3. QED BY <1>1, <3>1, <3>2 DEF LoneInv
  <2>5. QED BY <2>1, <2>2, <2>3, <2>4 DEF LoneInv, Once
<1>3. CASE /\ chain' = Append(q, s) /\ pc'[s] = "updating" /\ sheet'[s] = given
           /\ D \cup P = dels'[s] \cup puts'[s] \cup {writing'[s]}
           /\ overlapped \subseteq overlapped'
           /\ \A u \in Syncs \ {s} : pc[u] = "updating" => u \in overlapped' /\ s \in overlapped'
  <2>0. /\ Once(Append(q, s))
        /\ \A i \in 1..Len(Append(q, s)) :
             Append(q, s)[i] = s \/ (i \in 1..Len(q) /\ Append(q, s)[i] = q[i])
    BY <1>0, OnceAppend
  <2>1. Once(chain')
    BY <1>3, <2>0
  <2>2. \A i \in 1..Len(chain') : chain'[i] \in Syncs => pc'[chain'[i]] = "updating"
    BY <1>1, <1>3, <2>0
  <2>3. \A u, v \in Syncs :
          u # v /\ pc'[u] = "updating" /\ pc'[v] = "updating" => u \in overlapped'
    BY <1>1, <1>3
  <2>4. ASSUME NEW u \in Syncs \ overlapped', pc'[u] = "updating", NEW r \in Rows
        PROVE  balances'[r] = sheet'[u][r] \/ r \in dels'[u] \cup puts'[u] \cup {writing'[u]}
    <3>1. u = s
      BY <1>1, <1>3, <2>4
    <3>2. QED BY <1>3, <3>1
  <2>5. QED BY <2>1, <2>2, <2>3, <2>4 DEF LoneInv, Once
<1>4. QED BY <1>2, <1>3, UpdateEffect

(* The head of the chain, when it is a sync.                                *)
LEMMA LoneHead ==
  ASSUME TypeOK, LoneInv, chain # <<>>
  PROVE  /\ Once(Tail(chain)) /\ Tail(chain) \in Seq(Writers)
         /\ \A i \in 1..Len(Tail(chain)) : Tail(chain)[i] \in Syncs =>
              Tail(chain)[i] # Head(chain) /\ pc[Tail(chain)[i]] = "updating"
         /\ Head(chain) \in Syncs => pc[Head(chain)] = "updating"
<1>1. chain \in Seq(Writers) /\ Tail(chain) \in Seq(Writers) /\ Once(chain)
  BY ChainType DEF TypeOK, LoneInv
<1>2. Head(chain) = chain[1] /\ 1 \in 1..Len(chain)
  BY <1>1
<1>3. /\ Once(Tail(chain))
      /\ \A i \in 1..Len(Tail(chain)) : Tail(chain)[i] \in Syncs =>
           Tail(chain)[i] # Head(chain) /\ \E j \in 1..Len(chain) : Tail(chain)[i] = chain[j]
  BY <1>1, OnceTail
<1>4. \A i \in 1..Len(Tail(chain)) : Tail(chain)[i] \in Syncs => pc[Tail(chain)[i]] = "updating"
  BY <1>3 DEF LoneInv
<1>5. QED BY <1>1, <1>2, <1>3, <1>4 DEF LoneInv

(* A step of a call leaves the syncs alone.                                 *)
LEMMA LoneCalls ==
  ASSUME TypeOK, LoneInv, NEW c \in Calls,
         UNCHANGED <<balances, syncVars>>,
         \A s \in Syncs : pc'[s] = pc[s] /\ writing'[s] = writing[s],
         NEW q \in Seq(Writers), Once(q),
         \A i \in 1..Len(q) : q[i] \in Syncs => pc[q[i]] = "updating",
         chain' = q \/ chain' = Append(q, c)
  PROVE  LoneInv'
<1>0. c \in Writers /\ c \notin Syncs
  BY NamesAssumption DEF Writers
<1>1. /\ Once(Append(q, c))
      /\ \A i \in 1..Len(Append(q, c)) :
           Append(q, c)[i] = c \/ (i \in 1..Len(q) /\ Append(q, c)[i] = q[i])
  BY <1>0, OnceAppend
<1>2. Once(chain') /\ \A i \in 1..Len(chain') : chain'[i] \in Syncs => pc'[chain'[i]] = "updating"
  <2>1. Once(chain')
    BY <1>1
  <2>2. CASE chain' = q
    BY <2>1, <2>2
  <2>3. CASE chain' = Append(q, c)
    <3>1. ASSUME NEW i \in 1..Len(Append(q, c)), Append(q, c)[i] \in Syncs
          PROVE  pc'[Append(q, c)[i]] = "updating"
      BY <1>0, <1>1, <3>1
    <3>2. QED BY <2>1, <2>3, <3>1
  <2>4. QED BY <2>2, <2>3
<1>3. \A s, u \in Syncs :
        s # u /\ pc'[s] = "updating" /\ pc'[u] = "updating" => s \in overlapped'
  BY DEF LoneInv, syncVars
<1>4. ASSUME NEW s \in Syncs \ overlapped', pc'[s] = "updating", NEW r \in Rows
      PROVE  balances'[r] = sheet'[s][r] \/ r \in dels'[s] \cup puts'[s] \cup {writing'[s]}
  BY <1>4 DEF LoneInv, syncVars
<1>5. QED BY <1>2, <1>3, <1>4 DEF LoneInv, Once

LEMMA LoneStep == ASSUME TypeOK, LoneInv, [Next]_vars PROVE LoneInv'
<1>0. Syncs \subseteq Writers /\ Calls \subseteq Writers /\ \A c \in Calls : c \notin Syncs
  BY NamesAssumption DEF Writers
<1>1. ASSUME NEW s \in Syncs, NEW given \in Sheets, pc[s] = "idle", UpdateBalances(s, given)
      PROVE  LoneInv'
  <2>1. chain \in Seq(Writers) /\ balances \in Sheets
    BY DEF TypeOK, Sheets
  <2>2. Once(chain) /\ \A i \in 1..Len(chain) : chain[i] \in Syncs =>
          chain[i] # s /\ pc[chain[i]] = "updating"
    BY <1>1 DEF LoneInv
  <2>3. PICK D, P : /\ D = {r \in Filled(balances) : given[r] = None}
                    /\ P = {r \in Rows : given[r] # None}
    OBVIOUS
  <2>4. balances' = balances /\ UpdateGoesOn(s, given, D, P, chain)
    BY <1>1, <2>3 DEF UpdateBalances
  <2>5. \A r \in Rows : balances'[r] = given[r] \/ r \in D \cup P
    BY <2>3, <2>4 DEF Filled
  <2>6. QED BY <2>1, <2>2, <2>4, <2>5, LoneUpdate
<1>2. ASSUME NEW s \in Syncs, SyncAll(s) PROVE LoneInv'
  BY <1>1, <1>2 DEF SyncAll, Sheets
<1>3. ASSUME NEW s \in Syncs, NEW r \in Rows, SyncOne(s, r) PROVE LoneInv'
  <2>1. PICK v \in Usd \cup {None} : UpdateBalances(s, [balances EXCEPT ![r] = v])
    BY <1>3 DEF SyncOne
  <2>2. [balances EXCEPT ![r] = v] \in Sheets
    BY DEF TypeOK, Sheets
  <2>3. QED BY <1>1, <1>3, <2>1, <2>2 DEF SyncOne
<1>4. ASSUME NEW c \in Calls, Admit(c) \/ Deny(c) PROVE LoneInv'
  <2>1. \A s \in Syncs : pc'[s] = pc[s]
    BY <1>0, <1>4 DEF Admit, Deny, TypeOK
  <2>2. QED BY <1>4, <2>1 DEF Admit, Deny, LoneInv, Once, syncVars, ledgerVars
<1>5. ASSUME NEW c \in Calls, Meter(c) PROVE LoneInv'
  <2>1. chain \in Seq(Writers) /\ Once(chain)
        /\ \A i \in 1..Len(chain) : chain[i] \in Syncs => pc[chain[i]] = "updating"
    BY DEF TypeOK, LoneInv
  <2>2. \A s \in Syncs : pc'[s] = pc[s] /\ writing'[s] = writing[s]
    BY <1>0, <1>5 DEF Meter, RecordExpense, Issue, TypeOK
  <2>3. chain' = Append(chain, c) /\ UNCHANGED <<balances, syncVars>>
    BY <1>5 DEF Meter, RecordExpense, Issue, ledgerVars
  <2>4. QED BY <2>1, <2>2, <2>3, LoneCalls
<1>6. CASE Lands
  <2>0. chain # <<>>
    BY <1>6 DEF Lands
  <2>1. /\ Once(Tail(chain)) /\ Tail(chain) \in Seq(Writers)
        /\ \A i \in 1..Len(Tail(chain)) : Tail(chain)[i] \in Syncs =>
             Tail(chain)[i] # Head(chain) /\ pc[Tail(chain)[i]] = "updating"
        /\ Head(chain) \in Syncs => pc[Head(chain)] = "updating"
    BY <2>0, LoneHead
  <2>2. ASSUME NEW s \in Syncs, s = Head(chain), UpdateLands(s) PROVE LoneInv'
    <3>1. balances' = [balances EXCEPT ![writing[s]] = sheet[s][writing[s]]]
          /\ UpdateGoesOn(s, sheet[s], dels[s], puts[s], Tail(chain))
      BY <2>2 DEF UpdateLands
    <3>2. PICK D, P : D = dels[s] /\ P = puts[s]
      OBVIOUS
    <3>3. ASSUME s \notin overlapped
          PROVE  \A r \in Rows : balances'[r] = sheet[s][r] \/ r \in D \cup P
      <4>1. \A r \in Rows : balances[r] = sheet[s][r] \/ r \in D \cup P \cup {writing[s]}
        BY <2>1, <2>2, <3>2, <3>3 DEF LoneInv
      <4>2. QED BY <3>1, <4>1 DEF TypeOK
    <3>4. QED BY <2>1, <2>2, <3>1, <3>2, <3>3, LoneUpdate
  <2>3. ASSUME NEW c \in Calls, c = Head(chain), RecordLands(c) \/ PruneLands(c) PROVE LoneInv'
    <3>1. PICK V : PruneGoesOn(c, V, Tail(chain))
      BY <2>3 DEF RecordLands, PruneLands
    <3>2. UNCHANGED <<balances, syncVars>>
      BY <2>3 DEF RecordLands, PruneLands
    <3>3. \A s \in Syncs : pc'[s] = pc[s] /\ writing'[s] = writing[s]
      BY <1>0, <3>1 DEF PruneGoesOn, Settle, Issue, TypeOK
    <3>4. chain' = Tail(chain) \/ chain' = Append(Tail(chain), c)
      BY <3>1 DEF PruneGoesOn, Settle, Issue
    <3>5. QED BY <2>1, <3>2, <3>3, <3>4, LoneCalls
  <2>4. QED BY <1>6, <2>2, <2>3 DEF Lands
<1>7. CASE WriteFails
  <2>0. chain # <<>>
    BY <1>7 DEF WriteFails
  <2>1. /\ Once(Tail(chain)) /\ Tail(chain) \in Seq(Writers)
        /\ \A i \in 1..Len(Tail(chain)) : Tail(chain)[i] \in Syncs =>
             Tail(chain)[i] # Head(chain) /\ pc[Tail(chain)[i]] = "updating"
        /\ Head(chain) \in Syncs => pc[Head(chain)] = "updating"
    BY <2>0, LoneHead
  <2>2. PICK w : w = Head(chain)
    OBVIOUS
  <2>3. /\ pc' = [pc EXCEPT ![w] = "failed"] /\ chain' = Tail(chain)
        /\ overlapped' = overlapped \ {w} /\ balances' = balances
        /\ \A s \in Syncs \ {w} :
             /\ sheet'[s] = sheet[s] /\ writing'[s] = writing[s]
             /\ dels'[s] = dels[s] /\ puts'[s] = puts[s]
    BY <1>0, <1>7, <2>2 DEF WriteFails, Abandon
  <2>4. /\ \A s \in Syncs \ {w} : pc'[s] = pc[s]
        /\ \A s \in Syncs : s = w => pc'[s] = "failed"
    BY <1>0, <2>3 DEF TypeOK
  <2>5. Once(chain') /\ \A i \in 1..Len(chain') : chain'[i] \in Syncs => pc'[chain'[i]] = "updating"
    BY <2>1, <2>2, <2>3, <2>4
  <2>6. \A u, v \in Syncs :
          u # v /\ pc'[u] = "updating" /\ pc'[v] = "updating" => u \in overlapped'
    BY <2>3, <2>4 DEF LoneInv
  <2>7. ASSUME NEW u \in Syncs \ overlapped', pc'[u] = "updating", NEW r \in Rows
        PROVE  balances'[r] = sheet'[u][r] \/ r \in dels'[u] \cup puts'[u] \cup {writing'[u]}
    <3>1. u # w /\ pc[u] = "updating" /\ u \notin overlapped
      BY <2>3, <2>4, <2>7
    <3>2. QED BY <2>3, <3>1 DEF LoneInv
  <2>8. QED BY <2>5, <2>6, <2>7 DEF LoneInv, Once
<1>8. CASE Tick \/ UNCHANGED vars
  BY <1>8 DEF Tick, LoneInv, Once, vars, syncVars, ledgerVars
<1>9. CASE Restart
  <2>1. chain' = <<>> /\ \A s \in Syncs : pc'[s] # "updating"
    BY <1>0, <1>9 DEF Restart, InFlight
  <2>2. QED BY <2>1 DEF LoneInv, Once
<1>10. QED
  BY <1>2, <1>3, <1>4, <1>5, <1>6, <1>7, <1>8, <1>9 DEF Next

(* LoneSyncReplaces: a sync that no other one ran beside leaves exactly the *)
(* balance set it was given, whatever records, prunes and failures its      *)
(* writes interleave with (updateBalances).                                 *)
THEOREM LoneSyncIsWhole == Spec => LoneSyncReplaces
<1>1. Init => TypeOK /\ LoneInv
  <2>1. ASSUME Init PROVE LoneInv
    <3>1. chain = <<>> /\ \A s \in Syncs : pc[s] = "idle"
      BY <2>1 DEF Init, Writers
    <3>2. QED BY <3>1 DEF LoneInv, Once
  <2>2. QED BY <2>1, TypeInit
<1>2. TypeOK /\ LoneInv /\ [Next]_vars => (TypeOK /\ LoneInv)'
  BY TypeStep, LoneStep
<1> DEFINE A == \A s \in Syncs \ overlapped :
                  pc[s] = "updating" /\ pc'[s] = "done" => balances' = sheet[s]
<1>3. TypeOK /\ LoneInv /\ [Next]_vars => [A]_vars
  <2> SUFFICES ASSUME TypeOK, LoneInv, [Next]_vars, NEW s \in Syncs \ overlapped,
                      pc[s] = "updating", pc'[s] = "done"
               PROVE  balances' = sheet[s]
    OBVIOUS
  <2>0. s \in Syncs /\ s \in Writers /\ Calls \subseteq Writers /\ s \notin Calls
    BY NamesAssumption DEF Writers
  <2>1. ASSUME NEW u \in Syncs, NEW given, pc[u] = "idle", UpdateBalances(u, given) PROVE FALSE
    BY <2>0, <2>1, UpdateEffect DEF UpdateBalances
  <2>2. ASSUME NEW c \in Calls, Admit(c) \/ Deny(c) \/ Meter(c) PROVE FALSE
    BY <2>0, <2>2 DEF Admit, Deny, Meter, RecordExpense, TypeOK
  <2>3. ASSUME NEW c \in Calls, RecordLands(c) \/ PruneLands(c) PROVE FALSE
    <3>1. PICK V, q : PruneGoesOn(c, V, q)
      BY <2>3 DEF RecordLands, PruneLands
    <3>2. QED BY <2>0, <3>1 DEF PruneGoesOn, Settle, TypeOK
  <2>4. ASSUME WriteFails \/ Tick \/ Restart \/ UNCHANGED vars PROVE FALSE
    <3>1. ASSUME WriteFails PROVE FALSE
      BY <2>0, <3>1 DEF WriteFails, TypeOK
    <3>2. ASSUME Restart PROVE FALSE
      BY <2>0, <3>2 DEF Restart, InFlight
    <3>3. QED BY <2>4, <3>1, <3>2 DEF Tick, vars
  <2>5. ASSUME NEW u \in Syncs, UpdateLands(u) PROVE balances' = sheet[s]
    <3>1. /\ balances' = [balances EXCEPT ![writing[u]] = sheet[u][writing[u]]]
          /\ UpdateGoesOn(u, sheet[u], dels[u], puts[u], Tail(chain))
      BY <2>5 DEF UpdateLands
    <3>2. u = s /\ dels[u] \cup puts[u] = {}
      BY <2>0, <3>1, UpdateEffect
    <3>3. \A r \in Rows : balances[r] = sheet[s][r] \/ r = writing[s]
      BY <3>2 DEF LoneInv
    <3>4. PICK x : x = writing[s]
      OBVIOUS
    <3>5. balances' = [r \in Rows |-> IF r = x THEN sheet[s][x] ELSE balances[r]]
      BY <3>1, <3>2, <3>4 DEF TypeOK
    <3>6. sheet[s] = [r \in Rows |-> sheet[s][r]]
      BY <2>0 DEF TypeOK
    <3>7. QED BY <3>3, <3>4, <3>5, <3>6
  <2>6. ASSUME Lands PROVE balances' = sheet[s]
    BY <2>3, <2>5, <2>6 DEF Lands
  <2>7. QED BY <2>1, <2>2, <2>4, <2>6 DEF Next, SyncAll, SyncOne
<1>4. QED BY <1>1, <1>2, <1>3, PTL DEF Spec, LoneSyncReplaces

-----------------------------------------------------------------------------
(* The live balances: the report of one read.                              *)

(* The sums of two functions that agree on a finite set are the same: on a   *)
(* least subset on which they were not, they would agree.                    *)
LEMMA SumOfSame ==
  ASSUME NEW f, NEW h, NEW S, IsFiniteSet(S), \A x \in S : f[x] = h[x]
  PROVE  SumFunctionOnSet(f, S) = SumFunctionOnSet(h, S)
<1>1. PICK F : F = Over(f, S)
  OBVIOUS
<1>2. PICK H : H = Over(h, S)
  OBVIOUS
<1>3. SumsUp(F, f, S) /\ SumsUp(H, h, S)
  BY <1>1, <1>2, SumExists
<1>4. PICK B : B = {u \in SUBSET S : F[u] # H[u]}
  OBVIOUS
<1>5. B = {}
  <2>1. SUFFICES ASSUME B # {} PROVE FALSE
    OBVIOUS
  <2>2. PICK u \in B : \A v \in B : v \subseteq u => v = u
    BY <1>4, <2>1, SmallestSubset
  <2>3. u \in SUBSET S /\ F[u] # H[u]
    BY <1>4
  <2>4. u # {}
    BY <1>3, <2>3, SumsUpAt
  <2>5. Picked(u) \in u /\ Rest(u) \in SUBSET S /\ Rest(u) \notin B
    BY <2>2, <2>3, <2>4, PickedIsIn DEF Rest
  <2>6. f[Picked(u)] = h[Picked(u)] /\ F[Rest(u)] = H[Rest(u)]
    BY <1>4, <2>3, <2>5
  <2>7. QED BY <1>3, <2>3, <2>4, <2>6, SumsUpAt
<1>6. F[S] = H[S]
  BY <1>4, <1>5
<1>7. QED BY <1>1, <1>2, <1>6, SumIsChosen

(* What a task has done so far, and what the wallet held meanwhile.          *)
ReadsAre(a) ==
  /\ reads[a].is = "read" => reads[a].raw \in seen[a]
  /\ reads[a].node \in 1 .. Nodes[ChainOf(a)]
  /\ reads[a].is = "silent" => reads[a].node = Nodes[ChainOf(a)]
  /\ leg \in {"idle", "pricing"} => reads[a].is = "asking"
  /\ leg \in {"pricing", "reading"} => wealth[a] \in seen[a]

(* What a sync writes beside a sheet b.                                      *)
MergedInto(b) ==
  [a \in Assets |->
     IF a \in Fetched THEN Estimate[a]
     ELSE IF want.chain # "all" /\ ChainOf(a) # want.chain THEN b[a] ELSE NoRow]

BalanceReads == [is : {"asking", "read", "malformed", "silent"}, node : Nat, raw : Amounts \cup {0}]

BalancesInv ==
  /\ leg \in {"idle", "pricing", "reading", "done"}
  /\ wealth \in [Assets -> Amounts]
  /\ reads \in [Assets -> BalanceReads]
  /\ seen \in [Assets -> SUBSET Amounts]
  /\ \A a \in Assets : ReadsAre(a)
  /\ leg = "done" => /\ \A a \in Targets : reads[a].is # "asking"
                     /\ sheet_ \in {before_, MergedInto(before_)}
  /\ leg # "done" => sheet_ = before_

LEMMA BalancesStart == BalancesInit => BalancesInv
<1>1. SUFFICES ASSUME BalancesInit PROVE BalancesInv
  OBVIOUS
<1>2. Asking \in BalanceReads
  BY DEF Asking, BalanceReads
<1>3. /\ reads \in [Assets -> BalanceReads]
      /\ wealth \in [Assets -> Amounts]
      /\ seen \in [Assets -> SUBSET Amounts]
      /\ leg = "idle" /\ sheet_ = before_
  BY <1>1, <1>2 DEF BalancesInit
<1>4. ASSUME NEW a \in Assets PROVE ReadsAre(a)
  <2>1. reads[a] = Asking /\ ChainOf(a) \in Chains_
    BY <1>1 DEF BalancesInit, Chains_
  <2>2. Nodes[ChainOf(a)] \in Nat \ {0}
    BY <2>1, BalancesAssumption
  <2>3. QED BY <1>3, <2>1, <2>2 DEF ReadsAre, Asking
<1>5. QED BY <1>3, <1>4 DEF BalancesInv

(* What one task does leaves the others alone.                               *)
LEMMA TaskStep ==
  ASSUME BalancesInv, NEW a \in Assets,
         NodeAnswers(a) \/ NodeMisanswers(a) \/ NodeFails(a)
  PROVE  BalancesInv'
<1>1. /\ leg = "reading" /\ leg' = leg /\ wealth' = wealth /\ seen' = seen
      /\ sheet_' = sheet_ /\ before_' = before_ /\ reads[a].is = "asking"
  BY Zenon DEF NodeAnswers, NodeMisanswers, NodeFails, Task
<1>2. PICK r : reads' = [reads EXCEPT ![a] = r]
  BY DEF NodeAnswers, NodeMisanswers, NodeFails
<1>3. reads[a] \in BalanceReads /\ wealth[a] \in Amounts /\ ReadsAre(a) /\ reads'[a] = r
  BY <1>2 DEF BalancesInv
<1>4. ChainOf(a) \in Chains_
  BY DEF Chains_
<1>5. Nodes[ChainOf(a)] \in Nat \ {0}
  BY <1>4, BalancesAssumption
<1>6. r \in BalanceReads /\ ReadsAre(a)'
  <2>1. CASE NodeAnswers(a)
    <3>1. r = [reads[a] EXCEPT !.is = "read", !.raw = wealth[a]]
      BY <1>3, <2>1 DEF NodeAnswers, BalancesInv
    <3>2. QED BY <1>1, <1>3, <1>5, <3>1 DEF BalanceReads, ReadsAre
  <2>2. CASE NodeMisanswers(a)
    <3>1. r = [reads[a] EXCEPT !.is = "malformed"]
      BY <1>3, <2>2 DEF NodeMisanswers, BalancesInv
    <3>2. QED BY <1>1, <1>3, <1>5, <3>1 DEF BalanceReads, ReadsAre
  <2>3. CASE NodeFails(a)
    <3>1. r = IF reads[a].node < Nodes[ChainOf(a)]
              THEN [reads[a] EXCEPT !.node = reads[a].node + 1] ELSE [reads[a] EXCEPT !.is = "silent"]
      BY <1>3, <2>3 DEF NodeFails, BalancesInv
    <3>2. CASE reads[a].node < Nodes[ChainOf(a)]
      BY <1>1, <1>3, <1>5, <3>1, <3>2 DEF BalanceReads, ReadsAre
    <3>3. CASE ~ (reads[a].node < Nodes[ChainOf(a)])
      <4>1. reads[a].node = Nodes[ChainOf(a)]
        BY <1>3, <1>5, <3>3 DEF ReadsAre, BalanceReads
      <4>2. QED BY <1>1, <1>3, <1>5, <3>1, <3>3, <4>1 DEF BalanceReads, ReadsAre
    <3>4. QED BY <3>2, <3>3
  <2>4. QED BY <2>1, <2>2, <2>3
<1>7. reads' \in [Assets -> BalanceReads]
  BY <1>2, <1>6 DEF BalancesInv
<1>8. ASSUME NEW b \in Assets PROVE ReadsAre(b)'
  <2>1. CASE b = a
    BY <1>6, <2>1
  <2>2. CASE b # a
    <3>1. reads'[b] = reads[b] /\ ReadsAre(b)
      BY <1>2, <2>2 DEF BalancesInv
    <3>2. QED BY <1>1, <3>1 DEF ReadsAre
  <2>3. QED BY <2>1, <2>2
<1>9. QED BY <1>1, <1>7, <1>8 DEF BalancesInv

LEMMA BalancesStep == BalancesInv /\ [BalancesNext]_balanceVars => BalancesInv'
<1>1. SUFFICES ASSUME BalancesInv, [BalancesNext]_balanceVars PROVE BalancesInv'
  OBVIOUS
<1>2. ASSUME NEW c, NEW sync, get_balances(c, sync) PROVE BalancesInv'
  <2>1. /\ leg = "idle" /\ leg' = "pricing" /\ seen' = [a \in Assets |-> {wealth[a]}]
        /\ wealth' = wealth /\ sheet_' = sheet_ /\ reads' = reads /\ before_' = before_
    BY <1>2, Zenon DEF get_balances
  <2>2. ASSUME NEW a \in Assets PROVE ReadsAre(a)'
    BY <1>1, <2>1 DEF BalancesInv, ReadsAre
  <2>3. QED BY <1>1, <2>1, <2>2 DEF BalancesInv
<1>3. ASSUME fetchPrices PROVE BalancesInv'
  <2>1. /\ leg = "pricing" /\ leg' = "reading" /\ seen' = seen
        /\ wealth' = wealth /\ sheet_' = sheet_ /\ reads' = reads /\ before_' = before_
    BY <1>3, Zenon DEF fetchPrices
  <2>2. ASSUME NEW a \in Assets PROVE ReadsAre(a)'
    BY <1>1, <2>1 DEF BalancesInv, ReadsAre
  <2>3. QED BY <1>1, <2>1, <2>2 DEF BalancesInv
<1>4. ASSUME fetchAllLiveBalances PROVE BalancesInv'
  <2>1. /\ leg = "reading" /\ leg' = "done" /\ seen' = seen /\ want' = want /\ price' = price
        /\ wealth' = wealth /\ reads' = reads /\ before_' = before_
    BY <1>4, Zenon DEF fetchAllLiveBalances
  <2>2. \A a \in Targets : reads[a].is # "asking"
    BY <1>4, Zenon DEF fetchAllLiveBalances
  <2>3. sheet_' \in {Merged, sheet_} /\ sheet_ = before_
    BY <1>1, <1>4, <2>1 DEF fetchAllLiveBalances, BalancesInv
  <2>4. Merged = MergedInto(before_)
    BY <2>3 DEF Merged, MergedInto
  <2>5. Targets' = Targets /\ MergedInto(before_)' = MergedInto(before_)
    BY <2>1 DEF Targets, MergedInto, Fetched, Estimate, toMicroUsd
  <2>6. ASSUME NEW a \in Assets PROVE ReadsAre(a)'
    BY <1>1, <2>1 DEF BalancesInv, ReadsAre
  <2>7. /\ \A a \in Targets' : reads'[a].is # "asking"
        /\ sheet_' \in {before_', MergedInto(before_)'}
    BY <2>1, <2>2, <2>3, <2>4, <2>5
  <2>8. QED BY <1>1, <2>1, <2>6, <2>7 DEF BalancesInv
<1>5. ASSUME NEW a \in Assets, NodeAnswers(a) \/ NodeMisanswers(a) \/ NodeFails(a) PROVE BalancesInv'
  BY <1>1, <1>5, TaskStep
<1>6. ASSUME NEW a \in Assets, Transfer(a) PROVE BalancesInv'
  <2>1. /\ leg = "reading" /\ leg' = leg /\ reads' = reads /\ sheet_' = sheet_ /\ before_' = before_
    BY <1>6, Zenon DEF Transfer
  <2>2. PICK v \in Amounts : /\ wealth' = [wealth EXCEPT ![a] = v]
                             /\ seen' = [seen EXCEPT ![a] = seen[a] \cup {v}]
    BY <1>6 DEF Transfer
  <2>3. wealth' \in [Assets -> Amounts] /\ seen' \in [Assets -> SUBSET Amounts]
    BY <1>1, <2>2 DEF BalancesInv
  <2>4. ASSUME NEW b \in Assets PROVE ReadsAre(b)'
    <3>1. seen[b] \subseteq seen'[b] /\ (wealth[b] \in seen[b] => wealth'[b] \in seen'[b])
      BY <1>1, <2>2 DEF BalancesInv
    <3>2. QED BY <1>1, <2>1, <3>1 DEF BalancesInv, ReadsAre
  <2>5. QED BY <1>1, <2>1, <2>3, <2>4 DEF BalancesInv
<1>7. ASSUME UNCHANGED balanceVars PROVE BalancesInv'
  <2>1. /\ wealth' = wealth /\ sheet_' = sheet_ /\ want' = want /\ leg' = leg /\ price' = price
        /\ reads' = reads /\ seen' = seen /\ before_' = before_
    BY <1>7, Zenon DEF balanceVars
  <2>2. QED BY <1>1, <2>1 DEF BalancesInv, ReadsAre, Targets, MergedInto, Fetched, Estimate, toMicroUsd
<1>8. QED BY <1>1, <1>2, <1>3, <1>4, <1>5, <1>6, <1>7 DEF BalancesNext

LEMMA InvMeansWhole == BalancesInv => ReportIsWhole
<1>1. SUFFICES ASSUME BalancesInv, leg = "done"
               PROVE  /\ \A a \in Targets :
                           IF a \in Fetched
                           THEN /\ \E v \in seen[a] : Estimate[a] = toMicroUsd(v, TokenOf(a))
                                /\ sheet_[a] \in {Estimate[a], before_[a]}
                           ELSE /\ reads[a].is = "malformed" \/ reads[a].node = Nodes[ChainOf(a)]
                                /\ ~ Success(ChainOf(a))
                                /\ sheet_[a] \in {NoRow, before_[a]}
                      /\ (\A c \in Chains_ : Success(c)) /\ want.sync /\ sheet_ # before_ =>
                            TotalUsd = SumFunctionOnSet(sheet_, Targets)
                      /\ \A a \in Assets \ Targets : sheet_[a] = before_[a]
  BY DEF ReportIsWhole
<1>2. sheet_ = before_ \/ sheet_ = MergedInto(before_)
  BY <1>1 DEF BalancesInv
<1>3. ASSUME NEW a \in Targets PROVE a \in Assets /\ reads[a].is # "asking" /\ ReadsAre(a)
                                     /\ reads[a] \in BalanceReads
  BY <1>1 DEF BalancesInv, Targets
<1>4. ASSUME NEW a \in Targets, a \in Fetched
      PROVE  /\ \E v \in seen[a] : Estimate[a] = toMicroUsd(v, TokenOf(a))
             /\ sheet_[a] \in {Estimate[a], before_[a]}
  <2>1. reads[a].is = "read" /\ reads[a].raw \in seen[a]
    BY <1>3, <1>4 DEF Fetched, ReadsAre
  <2>2. Estimate[a] = toMicroUsd(reads[a].raw, TokenOf(a))
    BY <1>4 DEF Estimate
  <2>3. sheet_ = MergedInto(before_) => sheet_[a] = Estimate[a]
    BY <1>3, <1>4 DEF MergedInto
  <2>4. QED BY <1>2, <2>1, <2>2, <2>3
<1>5. ASSUME NEW a \in Targets, a \notin Fetched
      PROVE  /\ reads[a].is = "malformed" \/ reads[a].node = Nodes[ChainOf(a)]
             /\ ~ Success(ChainOf(a))
             /\ sheet_[a] \in {NoRow, before_[a]}
  <2>1. reads[a].is \in {"malformed", "silent"}
    BY <1>3, <1>5 DEF Fetched, BalanceReads
  <2>2. ~ Success(ChainOf(a))
    BY <1>5 DEF Success
  <2>3. sheet_ = MergedInto(before_) => sheet_[a] \in {NoRow, before_[a]}
    BY <1>3, <1>5 DEF MergedInto
  <2>4. QED BY <1>2, <1>3, <2>1, <2>2, <2>3 DEF ReadsAre
<1>6. ASSUME \A c \in Chains_ : Success(c), sheet_ # before_
      PROVE  TotalUsd = SumFunctionOnSet(sheet_, Targets)
  <2>1. Fetched = Targets
    <3>1. ASSUME NEW a \in Targets PROVE a \in Fetched
      <4>1. ChainOf(a) \in Chains_
        BY <1>3 DEF Chains_
      <4>2. QED BY <1>6, <4>1 DEF Success
    <3>2. QED BY <3>1 DEF Fetched
  <2>2. Targets \subseteq Assets
    BY DEF Targets
  <2>3. IsFiniteSet(Targets)
    BY <2>2, BalancesAssumption, FS_Subset
  <2>4. \A a \in Targets : Estimate[a] = sheet_[a]
    BY <1>2, <1>6, <2>1, <2>2 DEF MergedInto
  <2>5. QED BY <2>1, <2>3, <2>4, SumOfSame DEF TotalUsd
<1>7. ASSUME NEW a \in Assets \ Targets PROVE sheet_[a] = before_[a]
  <2>1. want.chain # "all" /\ ChainOf(a) # want.chain /\ a \notin Fetched
    BY <1>7 DEF Targets, Fetched
  <2>2. QED BY <1>2, <2>1 DEF MergedInto
<1>8. QED BY <1>4, <1>5, <1>6, <1>7

(* A report leaves out only what could not be read, says what it left out,    *)
(* and a sync writes the report and nothing else, for every set of chains,   *)
(* tokens and nodes: fetchAllLiveBalances.                                   *)
THEOREM ReportHolds == BalancesSpec => []ReportIsWhole
<1>1. BalancesInit => BalancesInv
  BY BalancesStart
<1>2. BalancesInv /\ [BalancesNext]_balanceVars => BalancesInv'
  BY BalancesStep
<1>3. BalancesInv => ReportIsWhole
  BY InvMeansWhole
<1> QED
  BY <1>1, <1>2, <1>3, PTL DEF BalancesSpec

-----------------------------------------------------------------------------
(* The wallet: who signs.                                                   *)

ShapeOf(r) ==
  r = [pc |-> r.pc, op |-> r.op, good |-> r.good, adapter |-> r.adapter, secret |-> r.secret,
       address |-> r.address, material |-> r.material, signer |-> r.signer]

(* What an operation kept for its signature belongs to the address it has.   *)
LoadedAs(o) ==
  IF Raw(o) THEN call[o].address = normalizePrivateKey(call[o].secret) /\ call[o].material = call[o].address
  ELSE \E id : call[o].material = <<id, IndexOf(o)>> /\ call[o].address = Account(id, 0)

(* The account that signed is the one told or, in the vault, that of the     *)
(* configured index beside it.                                              *)
SignsFor(o) ==
  IF Raw(o) THEN call[o].signer = call[o].address
  ELSE call[o].signer = [call[o].address EXCEPT ![3] = IndexOf(o)]

(* A credential in hand, or still to be asked for, is one of those it was.   *)
CallFits_(o) ==
  /\ call[o].pc = "resolving" => wallet.keyRef # "none" /\ credential \in held[o]
  /\ call[o].pc \in {"loading", "signing", "done"} => call[o].secret \in held[o]
  /\ call[o].pc \in {"signing", "done"} => LoadedAs(o)
  /\ call[o].pc = "signing" => call[o].op # "address"
  /\ IF call[o].pc = "done" /\ call[o].op # "address"
     THEN SignsFor(o) /\ emitted[o] = <<call[o].address>>
     ELSE emitted[o] = <<>>

CallsInv ==
  /\ call = [o \in Operations |-> call[o]]
  /\ emitted = [o \in Operations |-> emitted[o]]
  /\ held = [o \in Operations |-> held[o]]
  /\ \A o \in Operations : ShapeOf(call[o]) /\ CallFits_(o)

(* An adapter of a family belongs to a load of its provider; one that is up   *)
(* has all of its families, which are known ones.                           *)
ProvidersInv ==
  /\ DOMAIN adapters = Families
  /\ provider \in [Providers -> [phase : {"off", "loading", "up", "failing"}, gen : Nat]]
  /\ \A p \in Providers :
       /\ provider[p].phase # "off" => \A i \in 1 .. Len(Serves[p]) : Serves[p][i] \in Families
       /\ provider[p].phase = "up" => \A i \in 1 .. Len(Serves[p]) : adapters[Serves[p][i]] = AdapterOf(p)

SigningInv == CallsInv /\ ProvidersInv

LEMMA SigningStart == SigningInit => SigningInv
<1>1. SUFFICES ASSUME SigningInit PROVE SigningInv
  OBVIOUS
<1>2. CallsInv
  <2>1. /\ call = [o \in Operations |-> Uncalled] /\ emitted = [o \in Operations |-> <<>>]
        /\ held = [o \in Operations |-> {}]
    BY <1>1 DEF SigningInit
  <2>2. ShapeOf(Uncalled) /\ Uncalled.pc = "new"
    BY DEF ShapeOf, Uncalled
  <2>3. QED BY <2>1, <2>2 DEF CallsInv, CallFits_
<1>3. ProvidersInv
  <2>1. /\ adapters = [c \in Families |-> NoAdapter]
        /\ provider = [p \in Providers |-> [phase |-> "off", gen |-> 0]]
    BY <1>1 DEF SigningInit
  <2>2. QED BY <2>1 DEF ProvidersInv
<1>4. QED BY <1>2, <1>3 DEF SigningInv

(* What a step leaves alone.                                                *)
LEMMA CallsStay ==
  ASSUME CallsInv, wallet' = wallet, accountIndex' = accountIndex, credential' = credential, call' = call, emitted' = emitted, held' = held
  PROVE  CallsInv'
BY DEF CallsInv, CallFits_, ShapeOf, LoadedAs, SignsFor, Raw, IndexOf, Account, normalizePrivateKey

(* A step of one operation.                                                 *)
LEMMA OneCall ==
  ASSUME CallsInv, wallet' = wallet, accountIndex' = accountIndex, credential' = credential, NEW o \in Operations,
         NEW r, NEW e, NEW h, call' = [call EXCEPT ![o] = r], emitted' = [emitted EXCEPT ![o] = e],
         held' = [held EXCEPT ![o] = h], ShapeOf(r),
         CallFits_(o)'
  PROVE  CallsInv'
<1>1. /\ call' = [q \in Operations |-> call'[q]] /\ emitted' = [q \in Operations |-> emitted'[q]]
      /\ held' = [q \in Operations |-> held'[q]]
      /\ call'[o] = r
  BY DEF CallsInv
<1>2. ASSUME NEW q \in Operations, q # o PROVE ShapeOf(call'[q]) /\ CallFits_(q)'
  <2>1. call'[q] = call[q] /\ emitted'[q] = emitted[q] /\ held'[q] = held[q]
    BY <1>2 DEF CallsInv
  <2>2. ShapeOf(call[q]) /\ CallFits_(q)
    BY DEF CallsInv
  <2>3. QED BY <2>1, <2>2 DEF CallFits_, ShapeOf, LoadedAs, SignsFor, Raw, IndexOf, Account, normalizePrivateKey
<1>3. ShapeOf(call'[o])
  BY <1>1
<1>4. ASSUME NEW q \in Operations PROVE ShapeOf(call[q])' /\ CallFits_(q)'
  BY <1>2, <1>3, <1>4 DEF ShapeOf
<1>5. QED BY <1>1, <1>4 DEF CallsInv

(* A failed one has sent nothing to the observers.                          *)
LEMMA FailStep ==
  ASSUME CallsInv, NEW o \in Operations, Fails(o), call[o].pc # "done",
         wallet' = wallet, accountIndex' = accountIndex, credential' = credential, emitted' = emitted,
         NEW h, held' = [held EXCEPT ![o] = h]
  PROVE  CallsInv'
<1>1. PICK r : r = [call[o] EXCEPT !.pc = "failed"]
  OBVIOUS
<1>2. call' = [call EXCEPT ![o] = r]
  BY <1>1 DEF Fails
<1>3. ShapeOf(call[o]) /\ CallFits_(o) /\ emitted' = [emitted EXCEPT ![o] = emitted[o]]
  BY DEF CallsInv
<1>4. ShapeOf(r) /\ r.pc = "failed"
  BY <1>1, <1>3 DEF ShapeOf
<1>5. call'[o] = r /\ emitted'[o] = <<>>
  BY <1>2, <1>3 DEF CallsInv, CallFits_
<1>6. CallFits_(o)'
  BY <1>4, <1>5 DEF CallFits_
<1>7. QED BY <1>2, <1>3, <1>4, <1>6, OneCall

LEMMA BeginStep ==
  ASSUME CallsInv, NEW o \in Operations, NEW op, NEW good, beginOperation(o, op, good)
  PROVE  CallsInv'
<1>1. /\ call[o].pc = "new" /\ wallet' = wallet /\ accountIndex' = accountIndex /\ credential' = credential /\ emitted' = emitted
      /\ held' = [held EXCEPT ![o] = IF wallet.keyRef = "none" THEN {Unset} ELSE {credential}]
  BY DEF beginOperation
<1>2. CASE Fails(o)
  BY <1>1, <1>2, FailStep
<1>3. CASE ~ Fails(o)
  <2>1. PICK r : r = [Uncalled EXCEPT !.pc = IF wallet.keyRef = "none" THEN "loading" ELSE "resolving",
                                      !.op = op, !.good = good, !.adapter = adapters[wallet.chain]]
    OBVIOUS
  <2>2. call' = [call EXCEPT ![o] = r]
    BY <1>3, <2>1 DEF beginOperation
  <2>3. /\ ShapeOf(r) /\ r.secret = Unset
        /\ r.pc = IF wallet.keyRef = "none" THEN "loading" ELSE "resolving"
    BY <2>1 DEF ShapeOf, Uncalled
  <2>4. emitted[o] = <<>> /\ emitted' = [emitted EXCEPT ![o] = emitted[o]]
    BY <1>1 DEF CallsInv, CallFits_
  <2>5. /\ call'[o] = r /\ emitted'[o] = <<>>
        /\ held'[o] = IF wallet.keyRef = "none" THEN {Unset} ELSE {credential}
    BY <1>1, <2>2, <2>4 DEF CallsInv
  <2>6. CallFits_(o)'
    BY <1>1, <2>3, <2>5 DEF CallFits_
  <2>7. QED BY <1>1, <2>2, <2>3, <2>4, <2>6, OneCall
<1>4. QED BY <1>2, <1>3

LEMMA ResolveStep ==
  ASSUME CallsInv, NEW o \in Operations, ResolvesCredential(o)
  PROVE  CallsInv'
<1>1. /\ call[o].pc = "resolving" /\ wallet' = wallet /\ accountIndex' = accountIndex /\ credential' = credential /\ emitted' = emitted
      /\ held' = held
  BY DEF ResolvesCredential
<1>2. held' = [held EXCEPT ![o] = held[o]] /\ emitted' = [emitted EXCEPT ![o] = emitted[o]]
  BY <1>1 DEF CallsInv
<1>3. CASE Fails(o)
  BY <1>1, <1>2, <1>3, FailStep
<1>4. CASE ~ Fails(o)
  <2>1. PICK r : r = [call[o] EXCEPT !.pc = "loading", !.secret = credential]
    OBVIOUS
  <2>2. call' = [call EXCEPT ![o].pc = "loading", ![o].secret = credential]
    BY <1>4 DEF ResolvesCredential
  <2>3. call' = [call EXCEPT ![o] = r]
    BY <2>1, <2>2 DEF CallsInv
  <2>4. ShapeOf(call[o]) /\ credential \in held[o] /\ emitted[o] = <<>>
    BY <1>1 DEF CallsInv, CallFits_
  <2>5. ShapeOf(r) /\ r.pc = "loading" /\ r.secret = credential
    BY <2>1, <2>4 DEF ShapeOf
  <2>6. call'[o] = r /\ emitted'[o] = <<>> /\ held'[o] = held[o]
    BY <1>1, <2>3, <2>4 DEF CallsInv
  <2>7. CallFits_(o)'
    BY <2>4, <2>5, <2>6 DEF CallFits_
  <2>8. QED BY <1>1, <1>2, <2>3, <2>5, <2>7, OneCall
<1>5. QED BY <1>3, <1>4

LEMMA LoadStep ==
  ASSUME CallsInv, NEW o \in Operations, loadKey(o)
  PROVE  CallsInv'
<1>1. /\ call[o].pc = "loading" /\ wallet' = wallet /\ accountIndex' = accountIndex /\ credential' = credential /\ emitted' = emitted
      /\ held' = held
  BY DEF loadKey
<1>2. held' = [held EXCEPT ![o] = held[o]] /\ emitted' = [emitted EXCEPT ![o] = emitted[o]]
  BY <1>1 DEF CallsInv
<1>3. CASE Fails(o)
  BY <1>1, <1>2, <1>3, FailStep
<1>4. CASE ~ Fails(o)
  <2>1. PICK r : r = [call[o] EXCEPT !.pc = IF call[o].op = "address" THEN "done" ELSE "signing",
                                     !.address = Loaded(o).address, !.material = Loaded(o).material]
    OBVIOUS
  <2>2. call' = [call EXCEPT ![o].pc = IF call[o].op = "address" THEN "done" ELSE "signing",
                             ![o].address = Loaded(o).address, ![o].material = Loaded(o).material]
    BY <1>4 DEF loadKey
  <2>3. call' = [call EXCEPT ![o] = r]
    BY <2>1, <2>2 DEF CallsInv
  <2>4. ShapeOf(call[o]) /\ call[o].secret \in held[o] /\ emitted[o] = <<>>
    BY <1>1 DEF CallsInv, CallFits_
  <2>5. /\ ShapeOf(r) /\ r.pc = IF r.op = "address" THEN "done" ELSE "signing"
        /\ r.secret = call[o].secret /\ r.adapter = call[o].adapter
        /\ r.address = Loaded(o).address /\ r.material = Loaded(o).material
    BY <2>1, <2>4 DEF ShapeOf
  <2>6. call'[o] = r /\ emitted'[o] = <<>> /\ held'[o] = held[o]
    BY <1>1, <2>3, <2>4 DEF CallsInv
  <2>7. LoadedAs(o)'
    <3>1. Raw(o)' = Raw(o)
      BY <2>5, <2>6 DEF Raw
    <3>2. CASE Raw(o)
      <4>1. r.address = normalizePrivateKey(call[o].secret) /\ r.material = r.address
        BY <2>5, <3>2 DEF Loaded, RawLoaded
      <4>2. QED BY <2>5, <2>6, <3>1, <3>2, <4>1 DEF LoadedAs
    <3>3. CASE ~ Raw(o)
      <4>1. r.address = Account(vault.id, 0) /\ r.material = <<vault.id, IndexOf(o)>>
        <5>1. Loaded(o).address # <<>>
          BY <1>4 DEF loadKey
        <5>2. Loaded(o) = [address |-> accountAddress(vault.id), material |-> <<vault.id, IndexOf(o)>>]
          BY <3>3 DEF Loaded, OwsLoaded
        <5>3. accountAddress(vault.id) = Account(vault.id, 0)
          BY <5>1, <5>2 DEF accountAddress
        <5>4. QED BY <2>5, <5>2, <5>3
      <4>2. PICK id : id = vault.id
        OBVIOUS
      <4>3. IndexOf(o)' = IndexOf(o)
        BY <1>1, <2>5, <2>6 DEF IndexOf
      <4>4. Account(id, 0)' = Account(vault.id, 0)
        BY <1>1, <4>2 DEF Account
      <4>5. r.material = <<id, IndexOf(o)'>> /\ r.address = Account(id, 0)'
        BY <4>1, <4>2, <4>3, <4>4
      <4>6. QED BY <2>6, <3>1, <3>3, <4>5 DEF LoadedAs
    <3>4. QED BY <3>2, <3>3
  <2>8. CallFits_(o)'
    BY <2>4, <2>5, <2>6, <2>7 DEF CallFits_
  <2>9. QED BY <1>1, <1>2, <2>3, <2>5, <2>8, OneCall
<1>5. QED BY <1>3, <1>4

LEMMA SignStep ==
  ASSUME CallsInv, NEW o \in Operations, sign(o)
  PROVE  CallsInv'
<1>1. /\ call[o].pc = "signing" /\ wallet' = wallet /\ accountIndex' = accountIndex /\ credential' = credential /\ held' = held
  BY DEF sign
<1>2. held' = [held EXCEPT ![o] = held[o]]
  BY <1>1 DEF CallsInv
<1>3. CASE Fails(o) /\ UNCHANGED emitted
  BY <1>1, <1>2, <1>3, FailStep
<1>4. CASE ~ (Fails(o) /\ UNCHANGED emitted)
  <2>1. /\ Signs(o) # <<>>
        /\ call' = [call EXCEPT ![o].pc = "done", ![o].signer = Signs(o)]
        /\ emitted' = [emitted EXCEPT ![o] = Append(emitted[o], call[o].address)]
    BY <1>4 DEF sign
  <2>2. ShapeOf(call[o]) /\ call[o].secret \in held[o] /\ emitted[o] = <<>> /\ LoadedAs(o)
    BY <1>1 DEF CallsInv, CallFits_
  <2>3. IF Raw(o) THEN Signs(o) = call[o].address
        ELSE Signs(o) = [call[o].address EXCEPT ![3] = IndexOf(o)]
    <3>1. CASE Raw(o)
      BY <2>1, <2>2, <3>1 DEF Signs, RawSigns, LoadedAs
    <3>2. CASE ~ Raw(o)
      <4>1. PICK id : call[o].material = <<id, IndexOf(o)>> /\ call[o].address = Account(id, 0)
        BY <2>2, <3>2 DEF LoadedAs
      <4>2. call[o].material[1] = vault.id /\ Signs(o) = Account(vault.id, call[o].material[2])
        BY <2>1, <3>2 DEF Signs, OwsSigns
      <4>3. Signs(o) = <<id, wallet.chain, IndexOf(o)>>
        BY <4>1, <4>2 DEF Account
      <4>4. call[o].address = <<id, wallet.chain, 0>>
        BY <4>1 DEF Account
      <4>5. QED BY <3>2, <4>3, <4>4
    <3>3. QED BY <3>1, <3>2
  <2>4. PICK r : r = [call[o] EXCEPT !.pc = "done", !.signer = Signs(o)]
    OBVIOUS
  <2>5. call' = [call EXCEPT ![o] = r]
    BY <2>1, <2>4 DEF CallsInv
  <2>6. /\ ShapeOf(r) /\ r.pc = "done" /\ r.signer = Signs(o) /\ r.secret = call[o].secret
        /\ r.adapter = call[o].adapter /\ r.address = call[o].address /\ r.material = call[o].material
        /\ r.op = call[o].op
    BY <2>2, <2>4 DEF ShapeOf
  <2>7. call'[o] = r /\ held'[o] = held[o]
    BY <1>1, <2>5 DEF CallsInv
  <2>8. emitted'[o] = <<r.address>>
    <3>1. emitted'[o] = Append(emitted[o], call[o].address)
      BY <2>1 DEF CallsInv
    <3>2. Append(<<>>, call[o].address) = <<call[o].address>>
      OBVIOUS
    <3>3. QED BY <2>2, <2>6, <3>1, <3>2
  <2>9. LoadedAs(o)'
    BY <1>1, <2>2, <2>6, <2>7 DEF LoadedAs, SignsFor, Raw, IndexOf, Account, normalizePrivateKey
  <2>10. call[o].op # "address"
    BY <1>1 DEF CallsInv, CallFits_
  <2>11. SignsFor(o)'
    <3>1. (Raw(o)' <=> Raw(o)) /\ IndexOf(o)' = IndexOf(o)
      BY <1>1, <2>6, <2>7 DEF Raw, IndexOf
    <3>2. QED BY <2>3, <2>6, <2>7, <3>1 DEF SignsFor
  <2>12. CallFits_(o)'
    BY <2>2, <2>6, <2>7, <2>8, <2>9, <2>10, <2>11 DEF CallFits_
  <2>13. QED BY <1>1, <1>2, <2>1, <2>5, <2>6, <2>12, OneCall
<1>5. QED BY <1>3, <1>4

LEMMA RotateStep == ASSUME CallsInv, RotateCredential PROVE CallsInv'
<1>1. /\ wallet' = wallet /\ accountIndex' = accountIndex /\ call' = call /\ emitted' = emitted
      /\ held' = [o \in Operations |->
                    IF Active(o) /\ wallet.keyRef # "none" THEN held[o] \cup {credential'} ELSE held[o]]
  BY DEF RotateCredential
<1>2. ASSUME NEW o \in Operations PROVE ShapeOf(call[o])' /\ CallFits_(o)'
  <2>1. ShapeOf(call[o]) /\ CallFits_(o) /\ held[o] \subseteq held'[o]
    BY <1>1 DEF CallsInv
  <2>2. call[o].pc = "resolving" => wallet.keyRef # "none" /\ credential' \in held'[o]
    BY <1>1, <2>1 DEF CallFits_, Active
  <2>3. (LoadedAs(o)' <=> LoadedAs(o)) /\ (SignsFor(o)' <=> SignsFor(o))
    BY <1>1 DEF LoadedAs, SignsFor, Raw, IndexOf, Account, normalizePrivateKey
  <2>4. QED BY <1>1, <2>1, <2>2, <2>3 DEF CallFits_, ShapeOf
<1>3. QED BY <1>1, <1>2 DEF CallsInv

(* A registration takes families that nobody has, and a provider that got    *)
(* all of its own is up with them.                                          *)
LEMMA RegisterStep ==
  ASSUME ProvidersInv, NEW p \in Providers, register(p, <<p, provider[p].gen + 1>>),
         \A i \in 1 .. Len(Serves[p]) : Serves[p][i] \in Families,
         provider[p].phase # "up"
  PROVE  ProvidersInv'
<1>1. PICK a : a = <<p, provider[p].gen + 1>>
  OBVIOUS
<1>2. PICK F : F = Free(Serves[p])
  OBVIOUS
<1>3. /\ adapters' = [c \in Families |-> IF c \in F THEN a ELSE adapters[c]]
      /\ provider' = [provider EXCEPT ![p] =
                        [phase |-> IF F = {Serves[p][i] : i \in 1 .. Len(Serves[p])} THEN "up" ELSE "failing",
                         gen |-> a[2]]]
  BY <1>1, <1>2 DEF register
<1>4. provider[p].gen \in Nat /\ a[2] = provider[p].gen + 1
  BY <1>1 DEF ProvidersInv
<1>5. provider' \in [Providers -> [phase : {"off", "loading", "up", "failing"}, gen : Nat]]
  BY <1>3, <1>4 DEF ProvidersInv
<1>6. \A c \in F : adapters[c] = NoAdapter
  <2>1. ASSUME NEW j \in 1 .. Len(Serves[p]), \A k \in 1 .. j : adapters[Serves[p][k]] = NoAdapter
        PROVE  adapters[Serves[p][j]] = NoAdapter
    <3>1. Len(Serves[p]) \in Nat
      BY SigningAssumption
    <3>2. j \in 1 .. j
      BY <3>1
    <3>3. QED BY <2>1, <3>2
  <2>2. QED BY <1>2, <2>1 DEF Free
<1>7. ASSUME NEW q \in Providers
      PROVE  /\ provider'[q].phase # "off" => \A i \in 1 .. Len(Serves[q]) : Serves[q][i] \in Families
             /\ provider'[q].phase = "up" => \A i \in 1 .. Len(Serves[q]) : adapters'[Serves[q][i]] = AdapterOf(q)'
  <2>1. CASE q = p
    <3>1. AdapterOf(p)' = a
      BY <1>1, <1>3, <1>4 DEF AdapterOf, ProvidersInv
    <3>2. provider'[p].phase = "up" => F = {Serves[p][i] : i \in 1 .. Len(Serves[p])}
      BY <1>3 DEF ProvidersInv
    <3>3. QED BY <1>3, <2>1, <3>1, <3>2
  <2>2. CASE q # p
    <3>1. provider'[q] = provider[q] /\ AdapterOf(q)' = AdapterOf(q)
      BY <1>3, <2>2 DEF AdapterOf, ProvidersInv
    <3>2. AdapterOf(q) # NoAdapter
      BY DEF AdapterOf, NoAdapter
    <3>3. ASSUME provider[q].phase = "up", NEW i \in 1 .. Len(Serves[q])
          PROVE  adapters'[Serves[q][i]] = AdapterOf(q)
      <4>1. adapters[Serves[q][i]] = AdapterOf(q) /\ Serves[q][i] \in Families
        BY <3>3 DEF ProvidersInv
      <4>2. Serves[q][i] \notin F
        BY <1>6, <3>2, <4>1
      <4>3. QED BY <1>3, <4>1, <4>2
    <3>4. QED BY <3>1, <3>3 DEF ProvidersInv
  <2>3. QED BY <2>1, <2>2
<1>8. QED BY <1>3, <1>5, <1>7 DEF ProvidersInv

(* A disposer takes nothing from a provider that is up, but its own.         *)
LEMMA DisposeStep ==
  ASSUME ProvidersInv, NEW p \in Providers, NEW g, adapters' = Disposed(<<p, g>>),
         provider' = provider \/ provider' = [provider EXCEPT ![p].phase = "off"],
         provider'[p].phase = "up" => g # provider[p].gen
  PROVE  ProvidersInv'
<1>1. adapters' = [c \in Families |-> IF adapters[c] = <<p, g>> THEN NoAdapter ELSE adapters[c]]
  BY DEF Disposed
<1>2. /\ provider' \in [Providers -> [phase : {"off", "loading", "up", "failing"}, gen : Nat]]
      /\ \A q \in Providers : /\ provider'[q].gen = provider[q].gen
                              /\ provider'[q].phase \in {provider[q].phase, "off"}
  <2>1. CASE provider' = provider
    BY <2>1 DEF ProvidersInv
  <2>2. CASE provider' = [provider EXCEPT ![p].phase = "off"]
    BY <2>2 DEF ProvidersInv
  <2>3. QED BY <2>1, <2>2
<1>3. ASSUME NEW q \in Providers
      PROVE  /\ provider'[q].phase # "off" => \A i \in 1 .. Len(Serves[q]) : Serves[q][i] \in Families
             /\ provider'[q].phase = "up" => \A i \in 1 .. Len(Serves[q]) : adapters'[Serves[q][i]] = AdapterOf(q)'
  <2>1. AdapterOf(q)' = AdapterOf(q) /\ AdapterOf(q) = <<q, provider[q].gen>>
    BY <1>2 DEF AdapterOf
  <2>2. ASSUME provider'[q].phase = "up", NEW i \in 1 .. Len(Serves[q])
        PROVE  adapters'[Serves[q][i]] = AdapterOf(q)
    <3>1. adapters[Serves[q][i]] = AdapterOf(q) /\ Serves[q][i] \in Families
      BY <1>2, <2>2 DEF ProvidersInv
    <3>2. <<q, provider[q].gen>> # <<p, g>>
      BY <2>2
    <3>3. QED BY <1>1, <2>1, <3>1, <3>2
  <2>3. QED BY <1>2, <2>1, <2>2 DEF ProvidersInv
<1>4. QED BY <1>1, <1>2, <1>3 DEF ProvidersInv

(* A provider that is loading, or no longer, has no family of anybody else.  *)
LEMMA PhaseStep ==
  ASSUME ProvidersInv, NEW p \in Providers, NEW phase \in {"off", "loading"},
         adapters' = adapters, provider' = [provider EXCEPT ![p].phase = phase],
         phase = "loading" => \A i \in 1 .. Len(Serves[p]) : Serves[p][i] \in Families
  PROVE  ProvidersInv'
<1>1. /\ provider' \in [Providers -> [phase : {"off", "loading", "up", "failing"}, gen : Nat]]
      /\ provider'[p].phase = phase
      /\ \A q \in Providers : /\ provider'[q].gen = provider[q].gen
                              /\ q # p => provider'[q].phase = provider[q].phase
  BY DEF ProvidersInv
<1>2. QED BY <1>1 DEF ProvidersInv, AdapterOf

LEMMA ProvidersStep ==
  ASSUME ProvidersInv, NEW p \in Providers,
         \/ apply(p) \/ SignerLoads(p) \/ SignerMissing(p) \/ Unload(p)
         \/ \E g \in 1 .. MaxGen[p] : StaleDisposer(p, g)
  PROVE  ProvidersInv'
<1>1. CASE apply(p)
  <2>1. \A i \in 1 .. Len(Serves[p]) : Serves[p][i] \in Families
    BY <1>1 DEF apply
  <2>2. CASE register(p, <<p, provider[p].gen + 1>>)
    <3>1. provider[p].phase # "up"
      BY <1>1 DEF apply
    <3>2. QED BY <2>1, <2>2, <3>1, RegisterStep
  <2>3. CASE provider' = [provider EXCEPT ![p].phase = "loading"] /\ UNCHANGED adapters
    BY <2>1, <2>3, PhaseStep
  <2>4. QED BY <1>1, <2>2, <2>3 DEF apply
<1>2. CASE SignerLoads(p)
  <2>1. /\ provider[p].phase = "loading" /\ register(p, <<p, provider[p].gen + 1>>)
        /\ \A i \in 1 .. Len(Serves[p]) : Serves[p][i] \in Families
    BY <1>2 DEF SignerLoads, ProvidersInv
  <2>2. QED BY <2>1, RegisterStep
<1>3. CASE SignerMissing(p)
  BY <1>3, PhaseStep DEF SignerMissing
<1>4. CASE Unload(p)
  <2>1. adapters' = Disposed(<<p, provider[p].gen>>) /\ provider' = [provider EXCEPT ![p].phase = "off"]
    BY <1>4 DEF Unload, AdapterOf
  <2>2. provider'[p].phase = "off"
    BY <2>1 DEF ProvidersInv
  <2>3. QED BY <2>1, <2>2, DisposeStep
<1>5. CASE \E g \in 1 .. MaxGen[p] : StaleDisposer(p, g)
  <2>1. PICK g \in 1 .. MaxGen[p] : StaleDisposer(p, g)
    BY <1>5
  <2>2. /\ provider' = provider /\ adapters' = Disposed(<<p, g>>)
        /\ provider[p].phase = "up" => g < provider[p].gen
    BY <2>1 DEF StaleDisposer
  <2>3. provider'[p].phase = "up" => g # provider[p].gen
    BY <2>2 DEF ProvidersInv
  <2>4. QED BY <2>2, <2>3, DisposeStep
<1>6. QED BY <1>1, <1>2, <1>3, <1>4, <1>5

LEMMA ProvidersStay ==
  ASSUME ProvidersInv, adapters' = adapters, provider' = provider PROVE ProvidersInv'
BY DEF ProvidersInv, AdapterOf

LEMMA SigningStep == SigningInv /\ [SigningNext]_walletVars => SigningInv'
<1>1. SUFFICES ASSUME SigningInv, [SigningNext]_walletVars PROVE SigningInv'
  OBVIOUS
<1>2. CallsInv /\ ProvidersInv
  BY <1>1 DEF SigningInv
<1>3. ASSUME NEW p \in Providers,
             \/ apply(p) \/ SignerLoads(p) \/ SignerMissing(p) \/ Unload(p)
             \/ \E g \in 1 .. MaxGen[p] : StaleDisposer(p, g)
      PROVE  SigningInv'
  <2>1. wallet' = wallet /\ accountIndex' = accountIndex /\ credential' = credential /\ call' = call /\ emitted' = emitted /\ held' = held
    BY <1>3, Zenon DEF apply, SignerLoads, SignerMissing, Unload, StaleDisposer
  <2>2. QED BY <1>2, <1>3, <2>1, CallsStay, ProvidersStep DEF SigningInv
<1>4. ASSUME NEW o \in Operations,
             \/ \E op, good : beginOperation(o, op, good)
             \/ ResolvesCredential(o) \/ loadKey(o) \/ sign(o)
      PROVE  SigningInv'
  <2>1. adapters' = adapters /\ provider' = provider
    BY <1>4, Zenon DEF beginOperation, ResolvesCredential, loadKey, sign
  <2>2. CallsInv'
    BY <1>2, <1>4, BeginStep, ResolveStep, LoadStep, SignStep
  <2>3. QED BY <1>2, <2>1, <2>2, ProvidersStay DEF SigningInv
<1>5. ASSUME RotateCredential PROVE SigningInv'
  <2>1. adapters' = adapters /\ provider' = provider
    BY <1>5, Zenon DEF RotateCredential
  <2>2. QED BY <1>2, <1>5, <2>1, RotateStep, ProvidersStay DEF SigningInv
<1>6. ASSUME VaultRemade \/ UNCHANGED walletVars PROVE SigningInv'
  <2>1. /\ adapters' = adapters /\ provider' = provider
        /\ wallet' = wallet /\ accountIndex' = accountIndex /\ credential' = credential /\ call' = call /\ emitted' = emitted /\ held' = held
    BY <1>6, Zenon DEF VaultRemade, walletVars
  <2>2. QED BY <1>2, <2>1, CallsStay, ProvidersStay DEF SigningInv
<1>7. QED BY <1>1, <1>3, <1>4, <1>5, <1>6, Zenon DEF SigningNext

LEMMA InvMeansTold == SigningInv => SignsAsTold
<1>1. SUFFICES ASSUME SigningInv PROVE SignsAsTold
  OBVIOUS
<1>2. ASSUME NEW o \in Operations
      PROVE  /\ call[o].pc = "done" =>
                  /\ call[o].secret \in held[o]
                  /\ Raw(o) => \E s \in held[o] : call[o].address = normalizePrivateKey(s)
             /\ Signed_(o) =>
                  IF Raw(o) THEN call[o].signer = call[o].address
                  ELSE call[o].signer = [call[o].address EXCEPT ![3] = IndexOf(o)]
             /\ Signed_(o) /\ IndexOf(o) = 0 => call[o].signer = call[o].address
             /\ emitted[o] = IF Signed_(o) THEN <<call[o].address>> ELSE <<>>
  <2>1. CallFits_(o)
    BY <1>1 DEF SigningInv, CallsInv
  <2>2. ASSUME Signed_(o), ~ Raw(o), IndexOf(o) = 0 PROVE call[o].signer = call[o].address
    <3>1. PICK id : call[o].address = Account(id, 0)
      BY <2>1, <2>2 DEF CallFits_, LoadedAs, Signed_
    <3>2. call[o].address = <<id, wallet.chain, 0>>
      BY <3>1 DEF Account
    <3>3. call[o].signer = [call[o].address EXCEPT ![3] = 0]
      BY <2>1, <2>2 DEF CallFits_, SignsFor, Signed_
    <3>4. QED BY <3>2, <3>3
  <2>3. QED BY <2>1, <2>2 DEF CallFits_, LoadedAs, SignsFor, Signed_
<1>3. ASSUME NEW p \in Providers, provider[p].phase = "up"
      PROVE  \A i \in 1 .. Len(Serves[p]) : adapters[Serves[p][i]] = AdapterOf(p)
  BY <1>1, <1>3 DEF SigningInv, ProvidersInv
<1>4. QED BY <1>2, <1>3 DEF SignsAsTold

(* What signed is the raw key whose address the caller is told or the vault   *)
(* account of the configured index beside the one he is told (that one for   *)
(* index 0), under a credential of that time, observers hear of it once, and *)
(* a provider keeps its families, for every set of providers, indexes and    *)
(* operations: beginOperation, loadKey and sign of the two Ethereum          *)
(* providers, register of the wallet service.                               *)
THEOREM SignedAsTold == SigningSpec => []SignsAsTold
<1>1. SigningInit => SigningInv
  BY SigningStart
<1>2. SigningInv /\ [SigningNext]_walletVars => SigningInv'
  BY SigningStep
<1>3. SigningInv => SignsAsTold
  BY InvMeansTold
<1> QED
  BY <1>1, <1>2, <1>3, PTL DEF SigningSpec

=============================================================================
