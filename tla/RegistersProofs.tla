-------------------------- MODULE RegistersProofs --------------------------
(***************************************************************************)
(* What the registers promise for every instance of them, whichever one a  *)
(* behaviour works on.                                                     *)
(*                                                                         *)
(* The chits are proved beside their module and lifted here: on its own    *)
(* side a behaviour of Registers is one of the register, and on another    *)
(* side its state stands still.  The registers whose figures are walks,    *)
(* borrowings, lots, deposits and hand loans, are proved in FiguresProofs. *)
(* The snapshots, the rates of exchange and the disclosure are proved      *)
(* here.                                                                   *)
(*                                                                         *)
(* Snapshots: a frozen snapshot is never removed, so what one run has      *)
(* frozen stays; and a run that succeeds freezes all that is due since the *)
(* day it was told, which is the day before or the last success, up to     *)
(* which everything was frozen already.  A run that fails keeps what it    *)
(* built and moves neither end.  What is frozen of everything has every    *)
(* position it is worth, so that two of them differ by the rows.           *)
(*                                                                         *)
(* Rates: a stored rate is never overwritten, so what a gain was converted *)
(* at when its disposal was stamped is in the store for good.              *)
(*                                                                         *)
(* Disclosure: a series that covers the year has a figure on every day     *)
(* that counts, and the peak is the highest worth of finitely many days.   *)
(*                                                                         *)
(* Tax: each figure of a year is whole, and the rounding half up leaves    *)
(* what was asked within half a unit of what is owed.  A slab takes at     *)
(* most the top rate of what an income grows by, the surcharge of a band   *)
(* and the ceiling of its relief at most all of it, and whichever of them  *)
(* is charged, the lesser, does so too.                                    *)
(***************************************************************************)
EXTENDS FiguresProofs

FundsKept == INSTANCE ChitsProofs WITH
               Openings <- OpenedChits, LastMonth <- LastChitMonth, now <- month
---------------------------------------------------------------------------
\* The proofs of a register are about the register that Registers has.
LEMMA SameChits ==
  /\ FundsKept!Init <=> Funds!Init
  /\ FundsKept!Next <=> Funds!Next
  /\ UNCHANGED FundsKept!vars <=> UNCHANGED Funds!vars
  /\ FundsKept!ChitsTypeOK <=> Funds!ChitsTypeOK
<1>1. FundsKept!Init <=> Funds!Init
  BY DEF FundsKept!Init, Funds!Init
<1>2. FundsKept!Next <=> Funds!Next
  BY DEF FundsKept!Next, FundsKept!Open, FundsKept!RecordEmi, FundsKept!Withdraw,
    FundsKept!SetStatus, FundsKept!Edit, FundsKept!Delete, FundsKept!SaveSchedule,
    FundsKept!DeleteSchedule, FundsKept!Session, FundsKept!NextMonth, FundsKept!SaveChit,
    FundsKept!NewChit, FundsKept!WithEmi, FundsKept!Same, FundsKept!Key, FundsKept!Edited,
    FundsKept!Replaceable, FundsKept!Unlocked, FundsKept!Editing, FundsKept!Restrict,
    FundsKept!Cardinality,
    Funds!Next, Funds!Open, Funds!RecordEmi, Funds!Withdraw,
    Funds!SetStatus, Funds!Edit, Funds!Delete, Funds!SaveSchedule,
    Funds!DeleteSchedule, Funds!Session, Funds!NextMonth, Funds!SaveChit,
    Funds!NewChit, Funds!WithEmi, Funds!Same, Funds!Key, Funds!Edited,
    Funds!Replaceable, Funds!Unlocked, Funds!Editing, Funds!Restrict, Funds!Cardinality
<1>3. UNCHANGED FundsKept!vars <=> UNCHANGED Funds!vars
  BY DEF FundsKept!vars, Funds!vars
<1>4. FundsKept!ChitsTypeOK <=> Funds!ChitsTypeOK
  BY DEF FundsKept!ChitsTypeOK, FundsKept!IsChit, FundsKept!Values, FundsKept!Terms,
    FundsKept!ChitId, Funds!ChitsTypeOK, Funds!IsChit, Funds!Values, Funds!Terms, Funds!ChitId
<1>5. QED
  BY <1>1, <1>2, <1>3, <1>4

\* A behaviour works on one register: it is one of Chits, or no chit moves.
OnChits == side = "chits"
LEMMA ChitsSide ==
  /\ RegistersInit => Funds!Init
  /\ OnChits /\ [RegistersNext]_registervars => OnChits' /\ [Funds!Next]_(Funds!vars)
  /\ ~OnChits /\ [RegistersNext]_registervars => (~OnChits)' /\ UNCHANGED chitvars
<1>1. RegistersInit => Funds!Init
  BY DEF RegistersInit
<1>2. OnChits /\ [RegistersNext]_registervars => OnChits' /\ [Funds!Next]_(Funds!vars)
  BY DEF RegistersNext, registervars, Funds!vars, vars, chitvars, OnChits
<1>3. ~OnChits /\ [RegistersNext]_registervars => (~OnChits)' /\ UNCHANGED chitvars
  BY DEF RegistersNext, registervars, OnChits
<1>4. QED
  BY <1>1, <1>2, <1>3

\* On their side, the chits are exactly what ChitsProofs speaks of.
LEMMA ChitsBehave == RegistersSpec /\ OnChits => FundsKept!Spec
<1>1. RegistersInit => FundsKept!Init
  BY ChitsSide, SameChits
<1>2. OnChits /\ [RegistersNext]_registervars => OnChits' /\ [FundsKept!Next]_(FundsKept!vars)
  BY ChitsSide, SameChits
<1>3. QED
  BY <1>1, <1>2, PTL DEF RegistersSpec, FundsKept!Spec

(* Chits keep their types, and status and draw are one story.              *)
THEOREM ChitsKeepTypes == FundsKept!ChitsConstants /\ RegistersSpec => []ChitsTypeOK
<1>1. ~OnChits /\ [RegistersNext]_registervars => (~OnChits)'
  BY ChitsSide
<1>2. ASSUME FundsKept!ChitsConstants
      PROVE  RegistersSpec => []ChitsTypeOK
  <2>1. FundsKept!Spec => []FundsKept!ChitsTypeOK
    BY <1>2, FundsKept!ChitsKeepTypes
  <2>2. FundsKept!ChitsTypeOK => ChitsTypeOK
    BY SameChits DEF ChitsTypeOK
  <2>3. ~OnChits => ChitsTypeOK
    BY DEF ChitsTypeOK, OnChits
  <2>4. QED
    BY <1>1, <2>1, <2>2, <2>3, ChitsBehave, PTL DEF RegistersSpec
<1>3. QED
  BY <1>2

\* The sums of the register's proofs are those of Registers.
LEMMA SameWorth == FundsKept!ChitsWorth <=> Funds!ChitsWorth
  BY DEF FundsKept!ChitsWorth, Funds!ChitsWorth, FundsKept!Carried, Funds!Carried,
    FundsKept!TotalWorth, Funds!TotalWorth, FundsKept!Listed, Funds!Listed,
    FundsKept!View, Funds!View, FundsKept!Total, Funds!Total, FundsKept!Key, Funds!Key,
    FundsKept!PaidBy, Funds!PaidBy, FundsKept!Agreed, Funds!Agreed, FundsKept!Elapsed,
    Funds!Elapsed,
    FundsKept!MapThenSumSet, FundsKept!MapThenFoldSet, Funds!MapThenSumSet, Funds!MapThenFoldSet

(* Net worth and the register agree on the chits, under every filter.      *)
THEOREM ChitsAddUp ==
  FundsKept!ChitsConstants /\ FundsKept!AmountsWhole /\ RegistersSpec => []ChitsWorth
<1>1. ~OnChits /\ [RegistersNext]_registervars => (~OnChits)'
  BY ChitsSide
<1>2. ASSUME FundsKept!ChitsConstants, FundsKept!AmountsWhole
      PROVE  RegistersSpec => []ChitsWorth
  <2>1. FundsKept!Spec => []FundsKept!ChitsWorth
    BY <1>2, FundsKept!RegisterAndNetWorthAgree
  <2>2. FundsKept!ChitsWorth => ChitsWorth
    BY SameWorth DEF ChitsWorth
  <2>3. ~OnChits => ChitsWorth
    BY DEF ChitsWorth, OnChits
  <2>4. QED
    BY <1>1, <2>1, <2>2, <2>3, ChitsBehave, PTL DEF RegistersSpec
<1>3. QED
  BY <1>2

(* What a chit would pay out this month never changes behind its back.     *)
THEOREM PayoutsNeverMove == FundsKept!ChitsConstants /\ RegistersSpec => PayoutStable
<1> DEFINE step == ~Funds!Editing /\ month' = month =>
       \A id \in DOMAIN chits \cap DOMAIN chits' :
         \/ Funds!Payout(id)' = Funds!Payout(id)
         \/ Funds!Payout(id) = None
         \/ \E t \in OpenedChits : Funds!Open(t) /\ id = <<t.org, t.start>>
<1>1. ASSUME FundsKept!ChitsConstants
      PROVE  RegistersSpec => PayoutStable
  <2>1. OnChits /\ ChitsTypeOK /\ [RegistersNext]_registervars => [step]_(Funds!vars)
    <3> SUFFICES ASSUME OnChits, ChitsTypeOK, [RegistersNext]_registervars,
                        ~Funds!Editing, month' = month,
                        NEW id \in DOMAIN chits \cap DOMAIN chits'
                 PROVE  \/ Funds!Payout(id)' = Funds!Payout(id)
                        \/ Funds!Payout(id) = None
                        \/ \E t \in OpenedChits : Funds!Open(t) /\ id = <<t.org, t.start>>
      OBVIOUS
    <3>1. FundsKept!ChitsTypeOK /\ [FundsKept!Next]_(FundsKept!vars) /\ ~FundsKept!Editing
      BY ChitsSide, SameChits DEF ChitsTypeOK, OnChits, FundsKept!Editing, Funds!Editing
    <3>2. \/ FundsKept!Payout(id)' = FundsKept!Payout(id)
          \/ FundsKept!Payout(id) = None
          \/ \E t \in OpenedChits : FundsKept!Open(t) /\ id = <<t.org, t.start>>
      BY <1>1, <3>1, FundsKept!PayoutsStable
    <3>3. QED
      BY <3>2 DEF FundsKept!Payout, FundsKept!View, FundsKept!Agreed, FundsKept!Elapsed,
        Funds!Payout, Funds!View, Funds!Agreed, Funds!Elapsed,
        FundsKept!Open, FundsKept!Unlocked, FundsKept!SaveChit, FundsKept!NewChit,
        Funds!Open, Funds!Unlocked, Funds!SaveChit, Funds!NewChit
  <2>2. ~OnChits /\ [RegistersNext]_registervars => [step]_(Funds!vars)
    <3> SUFFICES ASSUME ~OnChits, [RegistersNext]_registervars, NEW id
                 PROVE  Funds!Payout(id)' = Funds!Payout(id)
      OBVIOUS
    <3>1. UNCHANGED chitvars
      BY ChitsSide
    <3>2. QED
      BY <3>1 DEF chitvars, Funds!Payout, Funds!View, Funds!Agreed, Funds!Elapsed
  <2> HIDE DEF step
  <2>3. RegistersSpec => [][step]_(Funds!vars)
    BY <1>1, <2>1, <2>2, ChitsKeepTypes, PTL DEF RegistersSpec
  <2>4. QED
    BY <2>3 DEF PayoutStable, Funds!PayoutStable, step
<1>2. QED
  BY <1>1
---------------------------------------------------------------------------
\* A step of another register may protect records, and pays nothing.
LEMMA OthersProtect ==
  /\ RegistersInit => Funds!Book!Init /\ Owed!Book!Init
  /\ ~OnChits /\ [RegistersNext]_registervars => [Funds!Book!Next]_(Funds!Book!vars)
  /\ ~OnBorrowings /\ [RegistersNext]_registervars => [Owed!Book!Next]_(Owed!Book!vars)
<1>1. RegistersInit => Funds!Book!Init /\ Owed!Book!Init
  BY DEF RegistersInit, Funds!Init, Owed!Init, Funds!Book!Init, Owed!Book!Init,
    Funds!Editing, Owed!Editing
<1>2. ~OnChits /\ [RegistersNext]_registervars => [Funds!Book!Next]_(Funds!Book!vars)
  <2> SUFFICES ASSUME ~OnChits, [RegistersNext]_registervars
               PROVE  Funds!Book!Protect
    BY DEF Funds!Book!Next
  <2>1. chits' = chits
    BY ChitsSide DEF chitvars
  <2>2. QED
    BY <2>1 DEF Funds!Book!Protect, Funds!Editing, Funds!Key
<1>3. ~OnBorrowings /\ [RegistersNext]_registervars => [Owed!Book!Next]_(Owed!Book!vars)
  <2> SUFFICES ASSUME ~OnBorrowings, [RegistersNext]_registervars
               PROVE  Owed!Book!Protect
    BY DEF Owed!Book!Next
  <2>1. owed' = owed
    BY BorrowingsSide DEF owedvars
  <2>2. QED
    BY <2>1 DEF Owed!Book!Protect, Owed!Editing
<1>4. QED
  BY <1>1, <1>2, <1>3

\* A step of its own is one of the passbook, as the register's proofs have it.
LEMMA OwnStepsKept ==
  ASSUME FundsKept!ChitsConstants, FundsKept!ChitsTypeOK, [FundsKept!Next]_(FundsKept!vars)
  PROVE  [Funds!Book!Next]_(Funds!Book!vars)
<1>1. [FundsKept!Book!Next]_(FundsKept!Book!vars)
  BY FundsKept!StepsKept
<1>2. QED
  BY <1>1 DEF FundsKept!Book!Next, FundsKept!Book!Open, FundsKept!Book!Pay,
      FundsKept!Book!Remove,
    FundsKept!Book!Protect, FundsKept!Book!vars, FundsKept!Editing, FundsKept!Key,
    FundsKept!ChitId,
    Funds!Book!Next, Funds!Book!Open, Funds!Book!Pay, Funds!Book!Remove,
    Funds!Book!Protect, Funds!Book!vars, Funds!Editing, Funds!Key, Funds!ChitId

(* Both registers of instalments are passbooks: an instalment told twice   *)
(* is one, and none is taken away outside edit mode; a chit opened again   *)
(* starts empty, a loan is opened once.                                    *)
THEOREM RegistersArePassbooks == FundsKept!ChitsConstants /\ RegistersSpec => PassbooksKept
<1> DEFINE typed == OnBorrowings => BorrowingsTyped
<1>1. RegistersInit => typed
  <2>1. Owed!Init => BorrowingsTyped
    BY DEF Owed!Init, BorrowingsTyped
  <2>2. QED
    BY <2>1, BorrowingsSide
<1>2. typed /\ [RegistersNext]_registervars => typed' /\ [Owed!Book!Next]_(Owed!Book!vars)
  <2>1. CASE OnBorrowings
    <3> SUFFICES ASSUME BorrowingsTyped, [RegistersNext]_registervars
                 PROVE  BorrowingsTyped' /\ [Owed!Book!Next]_(Owed!Book!vars)
      BY <2>1
    <3>1. [Owed!Next]_(Owed!vars)
      BY <2>1, BorrowingsSide
    <3>2. BorrowingsTyped'
      BY <3>1, BorrowingsTypedInductive
    <3>3. QED
      BY <3>1, <3>2, StepsKept
  <2>2. CASE ~OnBorrowings
    BY <2>2, BorrowingsSide, OthersProtect
  <2>3. QED
    BY <2>1, <2>2
<1> HIDE DEF typed
<1>3. ASSUME FundsKept!ChitsConstants
      PROVE  RegistersSpec => PassbooksKept
  <2>1. ChitsTypeOK /\ [RegistersNext]_registervars => [Funds!Book!Next]_(Funds!Book!vars)
    <3>1. CASE OnChits
      BY <1>3, <3>1, ChitsSide, SameChits, OwnStepsKept DEF ChitsTypeOK, OnChits
    <3>2. CASE ~OnChits
      BY <3>2, OthersProtect
    <3>3. QED
      BY <3>1, <3>2
  <2>2. RegistersSpec => []ChitsTypeOK
    BY <1>3, ChitsKeepTypes
  <2>3. RegistersInit => Funds!Book!Init /\ Owed!Book!Init
    BY OthersProtect
  <2>4. QED
    BY <1>1, <1>2, <2>1, <2>2, <2>3, PTL DEF RegistersSpec, PassbooksKept, Funds!ChitsKept,
      Owed!BorrowingsKept, Funds!Book!Spec, Owed!Book!Spec
<1>4. QED
  BY <1>3
---------------------------------------------------------------------------
\* A freeze point is a day.
BoundariesDated == \A b \in Boundaries : b.at \in Int

Clocked == day \in Int /\ (last # None => last \in Int)
CatchingUp == Clocked /\ Frozen!CaughtUp
---------------------------------------------------------------------------
\* persistImmutable and the scheduler only ever add snapshots.
LEMMA SnapshotsStay ==
  ASSUME [Frozen!SnapNext]_snapvars
  PROVE  DOMAIN snapshots \subseteq DOMAIN snapshots'
<1>1. CASE \E since \in {last, None}, crash \in BOOLEAN : Frozen!RunScheduler(since, crash)
  BY <1>1 DEF Frozen!RunScheduler, Frozen!Frozen
<1>2. CASE \E d \in Chosen : Frozen!Custom(d)
  BY <1>2 DEF Frozen!Custom, Frozen!PersistImmutable
<1>3. CASE \/ \E p \in Quotes : Frozen!Hold(p[1], p[2])
           \/ \E a \in DomesticAssets \cup ForeignAssets : Frozen!Liquidate(a)
           \/ \E d \in Liabilities : Frozen!Owe(d)
           \/ \E d \in Unrated : Frozen!RateFiled(d)
           \/ \E b \in BOOLEAN : Frozen!Unlock(b)
           \/ Frozen!NextDay
           \/ UNCHANGED snapvars
  BY <1>3 DEF Frozen!Hold, Frozen!Liquidate, Frozen!Owe, Frozen!RateFiled, Frozen!Unlock,
      Frozen!NextDay, snapvars
<1>4. QED
  BY <1>1, <1>2, <1>3 DEF Frozen!SnapNext

\* A run that succeeds leaves nothing unfrozen since the day it was told.
LEMMA SuccessFreezes ==
  ASSUME NEW from, NEW b \in Boundaries, from < b.at, b.at <= day,
         snapshots' = Frozen!Frozen(Frozen!DueSnapshots(from))
  PROVE  Frozen!Id(b) \in DOMAIN snapshots'
<1>1. CASE Frozen!Id(b) \in DOMAIN snapshots
  BY <1>1 DEF Frozen!Frozen
<1>2. CASE Frozen!Id(b) \notin DOMAIN snapshots
  <2>1. b \in Frozen!DueSnapshots(from)
    BY <1>2 DEF Frozen!DueSnapshots
  <2>2. QED
    BY <2>1 DEF Frozen!Frozen
<1>3. QED
  BY <1>1, <1>2

\* A run keeps the scheduler caught up, whether it succeeds or not.
LEMMA RunCatchesUp ==
  ASSUME BoundariesDated, CatchingUp, Frozen!SnapNext,
         NEW since \in {last, None}, NEW crash \in BOOLEAN, Frozen!RunScheduler(since, crash)
  PROVE  CatchingUp'
<1> DEFINE from == IF since # None THEN since ELSE Frozen!DefaultSince
           due == Frozen!DueSnapshots(from)
           built == IF crash THEN {b \in Frozen!Buildable(due) : b.at < day} ELSE Frozen!Buildable(due)
<1>1. /\ snapshots' = Frozen!Frozen(built)
      /\ day' = day
      /\ IF built = due /\ ~crash
         THEN /\ last' = day
              /\ covered' = IF last = None \/ since # last THEN from ELSE covered
         ELSE UNCHANGED <<last, covered>>
  BY DEF Frozen!RunScheduler
<1>2. DOMAIN snapshots \subseteq DOMAIN snapshots'
  BY SnapshotsStay
<1>3. day \in Int
  BY DEF CatchingUp, Clocked
<1>4. CASE ~(built = due /\ ~crash)
  BY <1>1, <1>2, <1>4 DEF CatchingUp, Clocked, Frozen!CaughtUp
<1>5. CASE built = due /\ ~crash
  <2>1. snapshots' = Frozen!Frozen(Frozen!DueSnapshots(from)) /\ last' = day
    BY <1>1, <1>5
  <2>2. Clocked'
    BY <1>1, <1>3, <2>1 DEF Clocked
  <2>3. ASSUME NEW b \in Boundaries, covered' < b.at, b.at <= last'
        PROVE  Frozen!Id(b) \in DOMAIN snapshots'
    <3>1. b.at <= day
      BY <2>1, <2>3
    <3>2. CASE last = None \/ since # last
      <4>1. from < b.at
        BY <1>1, <1>5, <2>3, <3>2
      <4>2. QED
        BY <2>1, <3>1, <4>1, SuccessFreezes
    <3>3. CASE last # None /\ since = last
      <4>1. covered' = covered /\ from = last /\ last \in Int
        BY <1>1, <1>5, <3>3 DEF CatchingUp, Clocked
      <4>2. CASE b.at <= last
        BY <1>2, <2>3, <3>3, <4>1, <4>2 DEF CatchingUp, Frozen!CaughtUp
      <4>3. CASE from < b.at
        BY <2>1, <3>1, <4>3, SuccessFreezes
      <4>4. QED
        BY <4>1, <4>2, <4>3 DEF BoundariesDated
    <3>4. QED
      BY <3>2, <3>3
  <2>4. QED
    BY <2>2, <2>3 DEF CatchingUp, Frozen!CaughtUp, Frozen!Id
<1>6. QED
  BY <1>4, <1>5

\* Whatever else happens moves neither end of what was covered.
LEMMA CatchingUpInductive ==
  ASSUME BoundariesDated, CatchingUp, [Frozen!SnapNext]_snapvars
  PROVE  CatchingUp'
<1>1. CASE \E since \in {last, None}, crash \in BOOLEAN : Frozen!RunScheduler(since, crash)
  BY <1>1, RunCatchesUp DEF Frozen!SnapNext
<1>2. CASE ~\E since \in {last, None}, crash \in BOOLEAN : Frozen!RunScheduler(since, crash)
  <2>1. last' = last /\ covered' = covered
    BY <1>2 DEF Frozen!SnapNext, Frozen!Custom, Frozen!Hold, Frozen!Liquidate,
        Frozen!Owe, Frozen!RateFiled, Frozen!Unlock, Frozen!NextDay, snapvars
  <2>2. day' = day \/ day' = day + 1
    BY <1>2 DEF Frozen!SnapNext, Frozen!Custom, Frozen!Hold, Frozen!Liquidate,
        Frozen!Owe, Frozen!RateFiled, Frozen!Unlock, Frozen!NextDay, snapvars
  <2>3. QED
    BY <2>1, <2>2, SnapshotsStay DEF CatchingUp, Clocked, Frozen!CaughtUp, Frozen!Id
<1>3. QED
  BY <1>1, <1>2


OnSnapshots == side = "snapshots"
LEMMA SnapshotsSide ==
  /\ RegistersInit => Frozen!SnapInit
  /\ OnSnapshots /\ [RegistersNext]_registervars => OnSnapshots' /\ [Frozen!SnapNext]_snapvars
  /\ ~OnSnapshots /\ [RegistersNext]_registervars => (~OnSnapshots)'
<1>1. RegistersInit => Frozen!SnapInit
  BY DEF RegistersInit
<1>2. OnSnapshots /\ [RegistersNext]_registervars => OnSnapshots' /\ [Frozen!SnapNext]_snapvars
  BY DEF RegistersNext, registervars, snapvars, OnSnapshots
<1>3. ~OnSnapshots /\ [RegistersNext]_registervars => (~OnSnapshots)'
  BY DEF RegistersNext, registervars, OnSnapshots
<1>4. QED
  BY <1>1, <1>2, <1>3

(* Every freeze point between the first day a run of GenerateSnapshotUC    *)
(* looked back to and its last success is frozen, whatever runs failed     *)
(* for a missing rate or died midway in between.                           *)
THEOREM SchedulerCatchesUp == BoundariesDated /\ RegistersSpec => []CaughtUp
<1> DEFINE inv == OnSnapshots => CatchingUp
<1>1. RegistersInit => inv
  BY SnapshotsSide DEF Frozen!SnapInit, CatchingUp, Clocked, Frozen!CaughtUp
<1>2. ASSUME BoundariesDated
      PROVE  RegistersSpec => []CaughtUp
  <2>1. inv /\ [RegistersNext]_registervars => inv'
    BY <1>2, SnapshotsSide, CatchingUpInductive
  <2>2. inv => CaughtUp
    BY DEF CatchingUp, CaughtUp, OnSnapshots
  <2> HIDE DEF inv
  <2>3. QED
    BY <1>1, <2>1, <2>2, PTL DEF RegistersSpec
<1>3. QED
  BY <1>2
---------------------------------------------------------------------------
(* A holding is domestic or foreign and its value whole, and so is what is *)
(* owed; each day of the clock has a rate of exchange; snapshots are of    *)
(* days of the clock.                                                      *)
AllAssets == DomesticAssets \cup ForeignAssets
QuotesWhole ==
  /\ IsFiniteSet(AllAssets)
  /\ \A p \in Quotes : p[1] \in AllAssets /\ p[2] \in Int
  /\ Liabilities \subseteq Int
  /\ LastDay \in Nat \ {0}
  /\ \A d \in 1..LastDay : FxOn[d] \in Int
  /\ \A b \in Boundaries : b.at \in 1..LastDay
  /\ Chosen \subseteq 1..LastDay

(* What is compared: positions of assets, whole, and worth what they are   *)
(* less what is owed.                                                      *)
Whole(compared) ==
  /\ DOMAIN compared.positions \subseteq AllAssets
  /\ \A a \in DOMAIN compared.positions :
       compared.positions[a].native \in Int /\ compared.positions[a].rate \in Int
  /\ compared.owed \in Int
  /\ compared.worth = Frozen!Gross(compared.positions) - compared.owed
Explained ==
  /\ day \in 1..LastDay
  /\ liabilities \in Int
  /\ DOMAIN holdings \subseteq AllAssets
  /\ \A a \in DOMAIN holdings : holdings[a] \in Int
  /\ \A id \in DOMAIN snapshots : id[1] = "ALL" => Whole(snapshots[id])

\* The ledger valued for any day of the clock.
LEMMA ValuationIsWhole ==
  ASSUME QuotesWhole, Explained, NEW filed \in 1..LastDay
  PROVE  /\ DOMAIN Frozen!Valuation(filed) \subseteq AllAssets
         /\ \A a \in DOMAIN Frozen!Valuation(filed) :
              /\ Frozen!Valuation(filed)[a].native \in Int
              /\ Frozen!Valuation(filed)[a].rate \in Int
<1>1. \A a \in DOMAIN holdings : holdings[a] \in Int /\ Frozen!RateOf(a, filed) \in Int
  BY DEF QuotesWhole, Explained, Frozen!RateOf
<1>2. QED
  BY <1>1 DEF Explained, Frozen!Valuation

LEMMA LiveIsWhole ==
  ASSUME QuotesWhole, Explained
  PROVE  Whole(Frozen!Live)
<1>1. day \in 1..LastDay /\ liabilities \in Int
  BY DEF Explained
<1>2. QED
  BY <1>1, ValuationIsWhole DEF Whole, Frozen!Live

\* A snapshot of everything has every position of the ledger.
LEMMA ContentIsWhole ==
  ASSUME QuotesWhole, Explained, NEW filed \in 1..LastDay, NEW created
  PROVE  Whole(Frozen!Content("ALL", filed, created))
<1> DEFINE content == Frozen!Content("ALL", filed, created)
           valuation == Frozen!Valuation(filed)
<1>1. /\ content.positions
           = Frozen!Restrict(valuation, DOMAIN holdings \cap Frozen!InScope("ALL"))
      /\ content.worth = Frozen!Gross(valuation) - liabilities
      /\ content.owed = liabilities
  BY DEF Frozen!Content
<1>2. DOMAIN holdings \cap Frozen!InScope("ALL") = DOMAIN valuation
  BY DEF Frozen!InScope, Frozen!Valuation, Explained, AllAssets
<1>3. content.positions = valuation
  <2>1. content.positions = [a \in DOMAIN valuation |-> valuation[a]]
    BY <1>1, <1>2 DEF Frozen!Restrict
  <2>2. QED
    BY <2>1 DEF Frozen!Valuation
<1>4. /\ DOMAIN valuation \subseteq AllAssets
      /\ \A a \in DOMAIN valuation : valuation[a].native \in Int /\ valuation[a].rate \in Int
  BY ValuationIsWhole
<1> HIDE DEF content, valuation
<1>5. Whole(content)
  BY <1>1, <1>3, <1>4 DEF Whole, Explained
<1>6. QED
  BY <1>5 DEF content

\* A step that freezes nothing.
LEMMA RecordStays ==
  ASSUME Explained, snapshots' = snapshots, day' \in 1..LastDay \/ day' = day,
         liabilities' \in Int,
         DOMAIN holdings' \subseteq AllAssets, \A a \in DOMAIN holdings' : holdings'[a] \in Int
  PROVE  Explained'
<1>1. \A id \in DOMAIN snapshots' : id[1] = "ALL" => Whole(snapshots'[id])
  BY DEF Explained
<1>2. day' \in 1..LastDay
  BY DEF Explained
<1>3. QED
  BY <1>1, <1>2 DEF Explained, Whole, Frozen!Gross, Frozen!Market, Frozen!MapThenSumSet,
      Frozen!MapThenFoldSet

LEMMA ExplainedInductive ==
  ASSUME QuotesWhole, Explained, [Frozen!SnapNext]_snapvars
  PROVE  Explained'
<1>1. ASSUME NEW since \in {last, None}, NEW crash \in BOOLEAN, Frozen!RunScheduler(since, crash)
      PROVE  Explained'
  <2>1. PICK built \in SUBSET Boundaries : snapshots' = Frozen!Frozen(built)
    BY <1>1 DEF Frozen!RunScheduler, Frozen!Buildable, Frozen!DueSnapshots
  <2>2. holdings' = holdings /\ day' = day /\ liabilities' = liabilities
    BY <1>1 DEF Frozen!RunScheduler
  <2>3. ASSUME NEW id \in DOMAIN snapshots', id[1] = "ALL"
        PROVE  Whole(snapshots'[id])
    <3>1. snapshots'[id] = IF id \in DOMAIN snapshots THEN snapshots[id]
                           ELSE Frozen!Content("ALL", id[2], day)
      BY <2>1, <2>3 DEF Frozen!Frozen
    <3>2. CASE id \in DOMAIN snapshots
      BY <2>3, <3>1, <3>2 DEF Explained
    <3>3. CASE id \notin DOMAIN snapshots
      <4>1. PICK b \in built : id = Frozen!Id(b)
        BY <2>1, <2>3, <3>3 DEF Frozen!Frozen
      <4>2. id[2] \in 1..LastDay
        BY <4>1 DEF Frozen!Id, QuotesWhole
      <4>3. QED
        BY <3>1, <3>3, <4>2, ContentIsWhole
    <3>4. QED
      BY <3>2, <3>3
  <2>4. QED
    BY <2>2, <2>3 DEF Explained, Whole, Frozen!Gross, Frozen!Market, Frozen!MapThenSumSet,
        Frozen!MapThenFoldSet
<1>2. ASSUME NEW d \in Chosen, Frozen!Custom(d)
      PROVE  Explained'
  <2>1. /\ holdings' = holdings /\ day' = day /\ liabilities' = liabilities
        /\ snapshots' = Frozen!PersistImmutable(<<"ALL", d>>, Frozen!Content("ALL", d, day))
    BY <1>2 DEF Frozen!Custom
  <2>2. \A id \in DOMAIN snapshots' : id[1] = "ALL" => Whole(snapshots'[id])
    <3>1. d \in 1..LastDay
      BY DEF QuotesWhole
    <3>2. Whole(Frozen!Content("ALL", d, day))
      BY <3>1, ContentIsWhole
    <3>3. QED
      BY <2>1, <3>2 DEF Frozen!PersistImmutable, Explained
  <2>3. QED
    BY <2>1, <2>2 DEF Explained, Whole, Frozen!Gross, Frozen!Market, Frozen!MapThenSumSet,
        Frozen!MapThenFoldSet
<1>3. ASSUME NEW p \in Quotes, Frozen!Hold(p[1], p[2])
      PROVE  Explained'
  <2>1. snapshots' = snapshots /\ day' = day /\ liabilities' \in Int
    BY <1>3 DEF Frozen!Hold, Explained
  <2>2. DOMAIN holdings' \subseteq AllAssets /\ \A a \in DOMAIN holdings' : holdings'[a] \in Int
    BY <1>3 DEF QuotesWhole, Explained, Frozen!Hold
  <2>3. QED
    BY <2>1, <2>2, RecordStays
<1>4. ASSUME NEW a \in AllAssets, Frozen!Liquidate(a)
      PROVE  Explained'
  <2>1. snapshots' = snapshots /\ day' = day /\ liabilities' \in Int
    BY <1>4 DEF Frozen!Liquidate, Explained
  <2>2. DOMAIN holdings' \subseteq AllAssets /\ \A b \in DOMAIN holdings' : holdings'[b] \in Int
    BY <1>4 DEF Explained, Frozen!Liquidate, Frozen!Restrict
  <2>3. QED
    BY <2>1, <2>2, RecordStays
<1>5. CASE \/ \E d \in Liabilities : Frozen!Owe(d)
           \/ \E d \in Unrated : Frozen!RateFiled(d)
           \/ \E b \in BOOLEAN : Frozen!Unlock(b)
           \/ Frozen!NextDay
           \/ UNCHANGED snapvars
  <2>1. holdings' = holdings /\ snapshots' = snapshots
    BY <1>5 DEF Frozen!Owe, Frozen!RateFiled, Frozen!Unlock, Frozen!NextDay, snapvars
  <2>2. day' \in 1..LastDay /\ liabilities' \in Int
    BY <1>5 DEF QuotesWhole, Explained, Frozen!Owe, Frozen!RateFiled, Frozen!Unlock,
        Frozen!NextDay, snapvars
  <2>3. QED
    BY <2>1, <2>2, RecordStays DEF Explained
<1>6. QED
  BY <1>1, <1>2, <1>3, <1>4, <1>5 DEF Frozen!SnapNext, AllAssets

\* What positions are worth, as a sum of a function.
LEMMA GrossIsSum ==
  ASSUME NEW positions
  PROVE  Frozen!Gross(positions)
           = SumFunctionOnSet([a \in DOMAIN positions |-> Frozen!Market(positions[a])],
                              DOMAIN positions)
<1> DEFINE D == DOMAIN positions
           f == [a \in D |-> Frozen!Market(positions[a])]
           Table(h) == h = [s \in SUBSET D |->
             IF s = {} THEN 0 ELSE Frozen!Market(positions[FirstOf(s)]) + h[s \ {FirstOf(s)}]]
           Known(h) == h = [s \in SUBSET D |->
             IF s = {} THEN 0 ELSE f[FirstOf(s)] + h[s \ {FirstOf(s)}]]
<1>1. ASSUME NEW h PROVE Table(h) <=> Known(h)
  BY FirstOfIn
<1>2. Frozen!Gross(positions) = (CHOOSE h : Table(h))[D]
  BY DEF Frozen!Gross, Frozen!MapThenSumSet, Frozen!MapThenFoldSet, FirstOf
<1>3. SumFunctionOnSet(f, D) = (CHOOSE h : Known(h))[D]
  BY DEF SumFunctionOnSet, FoldFunctionOnSet, MapThenFoldSet, FirstOf
<1> HIDE DEF Table, Known
<1>4. (CHOOSE h : Table(h)) = (CHOOSE h : Known(h))
  BY <1>1
<1>5. QED
  BY <1>2, <1>3, <1>4

\* An asset one side does not have adds nothing to it.
LEMMA WorthOverAll ==
  ASSUME QuotesWhole, NEW compared, Whole(compared),
         NEW D \in SUBSET AllAssets, DOMAIN compared.positions \subseteq D
  PROVE  LET f == [a \in D |-> Frozen!Market(Frozen!At(compared.positions, a))]
         IN  /\ compared.worth + compared.owed = SumFunctionOnSet(f, D)
             /\ compared.owed \in Int
             /\ \A a \in D : f[a] \in Int
<1> DEFINE positions == compared.positions
           f == [a \in D |-> Frozen!Market(Frozen!At(positions, a))]
           g == [a \in DOMAIN positions |-> Frozen!Market(positions[a])]
<1>1. \A a \in DOMAIN positions :
        positions[a].native * positions[a].rate \in Int
  BY DEF Whole
<1>2. \A a \in DOMAIN positions : f[a] = g[a] /\ f[a] \in Int
  BY <1>1 DEF Frozen!At, Frozen!Market
<1>3. \A a \in D \ DOMAIN positions : f[a] = 0
  BY DEF Frozen!At, Frozen!Market, Frozen!NoPosition
<1>4. Frozen!Gross(positions) = SumFunctionOnSet(g, DOMAIN positions)
  BY GrossIsSum
<1> DEFINE P == DOMAIN positions
<1>5. IsFiniteSet(D) /\ IsFiniteSet(P) /\ P \in SUBSET D
  BY FS_Subset DEF QuotesWhole
<1>6. ASSUME NEW a \in D
      PROVE  f[a] \in Int
  <2> HIDE DEF f, g, positions
  <2>1. CASE a \in DOMAIN positions
    BY <1>2, <2>1
  <2>2. CASE a \notin DOMAIN positions
    BY <1>3, <2>2
  <2>3. QED
    BY <2>1, <2>2
<1> HIDE DEF f, g, P
<1>7. SumFunctionOnSet(f, P) = SumFunctionOnSet(g, P)
  BY <1>2, <1>5, SumSame DEF P
<1>8. SumFunctionOnSet(f, D) = SumFunctionOnSet(f, P)
  BY <1>3, <1>5, <1>6, SumSupport DEF P
<1>9. SumFunctionOnSet(f, D) \in Int
  BY <1>5, <1>6, SumInt
<1>10. compared.owed \in Int /\ compared.worth = Frozen!Gross(positions) - compared.owed
  BY DEF Whole
<1>11. compared.worth + compared.owed = SumFunctionOnSet(f, D)
  BY <1>4, <1>7, <1>8, <1>9, <1>10 DEF P
<1>12. QED
  BY <1>6, <1>10, <1>11 DEF f

\* A row of a holding on both sides is the price's effect and the currency's.
LEMMA RowSplits ==
  ASSUME NEW before, NEW after, Whole(before), Whole(after),
         NEW a \in DOMAIN before.positions \cap DOMAIN after.positions
  PROVE  LET row == Frozen!Delta(before.positions, after.positions, a)
         IN  row.priceEffect + row.currencyEffect = row.value
<1> DEFINE n == before.positions[a].native
           r == before.positions[a].rate
           m == after.positions[a].native
           s == after.positions[a].rate
           row == Frozen!Delta(before.positions, after.positions, a)
<1>1. n \in Int /\ r \in Int /\ m \in Int /\ s \in Int
  BY DEF Whole
<1>2. /\ row.value = m * s - n * r
      /\ row.priceEffect = (m - n) * r
      /\ row.currencyEffect = m * (s - r)
  BY DEF Frozen!Delta, Frozen!At, Frozen!Market
<1> HIDE DEF n, r, m, s, row
<1>3. (m - n) * r = m * r - n * r /\ m * (s - r) = m * s - m * r
  BY <1>1
<1>4. m * r \in Int /\ n * r \in Int /\ m * s \in Int
  BY <1>1
<1>5. row.priceEffect + row.currencyEffect = row.value
  BY <1>2, <1>3, <1>4
<1>6. QED
  BY <1>5 DEF row

LEMMA WorthIsInt ==
  ASSUME QuotesWhole, NEW compared, Whole(compared)
  PROVE  compared.worth \in Int
<1> DEFINE positions == compared.positions
           g == [a \in DOMAIN positions |-> Frozen!Market(positions[a])]
<1>1. \A a \in DOMAIN positions : g[a] \in Int
  BY DEF Whole, Frozen!Market
<1>2. IsFiniteSet(DOMAIN positions)
  BY FS_Subset DEF QuotesWhole, Whole
<1>3. Frozen!Gross(positions) = SumFunctionOnSet(g, DOMAIN positions)
  BY GrossIsSum
<1> HIDE DEF g
<1>4. Frozen!Gross(positions) \in Int
  BY <1>1, <1>2, <1>3, SumInt
<1>5. QED
  BY <1>4 DEF Whole

LEMMA RowsAddUp ==
  ASSUME QuotesWhole, NEW before, NEW after, Whole(before), Whole(after)
  PROVE  LET rows == Frozen!Compare(before.positions, after.positions)
         IN  Frozen!MapThenSumSet(LAMBDA a : rows[a].value, DOMAIN rows)
               = (after.worth - before.worth) + (after.owed - before.owed)
<1> DEFINE rows == Frozen!Compare(before.positions, after.positions)
           D == DOMAIN rows
           v == [a \in D |-> rows[a].value]
           f == [a \in D |-> Frozen!Market(Frozen!At(after.positions, a))]
           g == [a \in D |-> Frozen!Market(Frozen!At(before.positions, a))]
           Table(h) == h = [s \in SUBSET D |->
             IF s = {} THEN 0 ELSE rows[FirstOf(s)].value + h[s \ {FirstOf(s)}]]
           Known(h) == h = [s \in SUBSET D |->
             IF s = {} THEN 0 ELSE v[FirstOf(s)] + h[s \ {FirstOf(s)}]]
           total == Frozen!MapThenSumSet(LAMBDA a : rows[a].value, D)
<1>1. total = SumFunctionOnSet(v, D)
  <2>1. ASSUME NEW h PROVE Table(h) <=> Known(h)
    <3> HIDE DEF rows
    <3>1. QED
      BY FirstOfIn
  <2>2. total = (CHOOSE h : Table(h))[D]
    <3> HIDE DEF rows
    <3>1. QED
      BY DEF Frozen!MapThenSumSet, Frozen!MapThenFoldSet, FirstOf
  <2>3. SumFunctionOnSet(v, D) = (CHOOSE h : Known(h))[D]
    <3> HIDE DEF rows
    <3>1. QED
      BY DEF SumFunctionOnSet, FoldFunctionOnSet, MapThenFoldSet, FirstOf
  <2> HIDE DEF Table, Known, total, v, D
  <2>4. (CHOOSE h : Table(h)) = (CHOOSE h : Known(h))
    BY <2>1
  <2>5. QED
    BY <2>2, <2>3, <2>4
<1>2. D = DOMAIN before.positions \cup DOMAIN after.positions
  BY DEF Frozen!Compare
<1>3. \A a \in D : v[a] = f[a] - g[a]
  BY DEF Frozen!Compare, Frozen!Delta
<1>4. D \in SUBSET AllAssets
  BY <1>2 DEF Whole
<1>5. /\ after.worth + after.owed = SumFunctionOnSet(f, D) /\ \A a \in D : f[a] \in Int
      /\ before.worth + before.owed = SumFunctionOnSet(g, D) /\ \A a \in D : g[a] \in Int
  <2> HIDE DEF D
  <2>1. QED
    BY <1>2, <1>4, WorthOverAll
<1>6. IsFiniteSet(D)
  BY <1>4, FS_Subset DEF QuotesWhole
<1> HIDE DEF v, f, g, D
<1>7. SumFunctionOnSet(v, D) = SumFunctionOnSet(f, D) - SumFunctionOnSet(g, D)
  BY <1>3, <1>5, <1>6, SumMinus
<1> HIDE DEF total
<1>8. after.worth \in Int /\ before.worth \in Int /\ after.owed \in Int /\ before.owed \in Int
  BY WorthIsInt DEF Whole
<1>9. total = (after.worth - before.worth) + (after.owed - before.owed)
  BY <1>1, <1>5, <1>7, <1>8
<1>10. QED
  BY <1>9 DEF total, D

(* The rows of any comparison of two frozen snapshots of everything, or of *)
(* one and the live ledger, add up to the change of net worth and of what  *)
(* is owed together, and the row of a foreign holding on both sides is the *)
(* price's effect and the currency's, whatever was bought, sold, borrowed, *)
(* repaid, frozen or repriced in between.                                  *)
THEOREM DeltasAlwaysExplain == QuotesWhole /\ RegistersSpec => []DeltasExplain
<1> DEFINE inv == OnSnapshots => Explained
<1>1. ASSUME QuotesWhole
      PROVE  RegistersSpec => []DeltasExplain
  <2>1. RegistersInit => inv
    <3>1. Frozen!SnapInit => Explained
      BY <1>1 DEF Frozen!SnapInit, Explained, QuotesWhole
    <3>2. QED
      BY <3>1, SnapshotsSide
  <2>2. inv /\ [RegistersNext]_registervars => inv'
    BY <1>1, SnapshotsSide, ExplainedInductive
  <2>3. inv => DeltasExplain
    <3> SUFFICES ASSUME Explained, NEW before \in Frozen!Compared, NEW after \in Frozen!Compared
                 PROVE  LET rows == Frozen!Compare(before.positions, after.positions)
                        IN  /\ Frozen!MapThenSumSet(LAMBDA a : rows[a].value, DOMAIN rows)
                                 = (after.worth - before.worth) + (after.owed - before.owed)
                            /\ \A a \in DOMAIN rows \cap ForeignAssets :
                                 rows[a].bucket = "HELD" =>
                                   rows[a].priceEffect + rows[a].currencyEffect = rows[a].value
      BY DEF DeltasExplain, Frozen!DeltasExplain, OnSnapshots
    <3>1. Whole(before) /\ Whole(after)
      BY <1>1, LiveIsWhole DEF Frozen!Compared, Explained
    <3> DEFINE rows == Frozen!Compare(before.positions, after.positions)
    <3>2. ASSUME NEW a \in DOMAIN rows \cap ForeignAssets, rows[a].bucket = "HELD"
          PROVE  rows[a].priceEffect + rows[a].currencyEffect = rows[a].value
      <4>1. rows[a] = Frozen!Delta(before.positions, after.positions, a)
        BY DEF Frozen!Compare
      <4>2. a \in DOMAIN before.positions \cap DOMAIN after.positions
        BY <3>2, <4>1 DEF Frozen!Delta
      <4>3. QED
        BY <3>1, <4>1, <4>2, RowSplits
    <3>3. Frozen!MapThenSumSet(LAMBDA a : rows[a].value, DOMAIN rows)
            = (after.worth - before.worth) + (after.owed - before.owed)
      BY <1>1, <3>1, RowsAddUp
    <3>4. QED
      BY <3>2, <3>3
  <2> HIDE DEF inv
  <2>4. QED
    BY <2>1, <2>2, <2>3, PTL DEF RegistersSpec
<1>2. QED
  BY <1>1
---------------------------------------------------------------------------
(* Days are whole numbers, and a month has some.                           *)
RatesDated ==
  /\ \A x \in RateSales : x.sold \in Int /\ \A a \in x.slices : a.acquired \in Int
  /\ \A file \in Archives : \A c \in file : c.day \in Int
  /\ \A t \in TypedRates : t[1] \in Int
  /\ MonthDays \in Nat \ {0}

(* The store is dated, and what is stamped on a disposal can be defended.  *)
StampsDefensible ==
  /\ DOMAIN rates \subseteq Int
  /\ DOMAIN disposals \subseteq RateSales
  /\ \A x \in DOMAIN disposals :
       disposals[x].gain # None => Itbr!Defensible(x, disposals[x].gain)

\* A set of days that ends has a last one.
LEMMA LastDayExists ==
  ASSUME NEW S \in SUBSET Int, S # {}, NEW b \in Int, \A x \in S : x <= b
  PROVE  \E x \in S : \A y \in S : x >= y
<1> DEFINE N == {b - x : x \in S}
<1>1. N \subseteq Nat /\ N # {}
  <2>1. \A x \in S : b - x \in Nat
    OBVIOUS
  <2>2. QED
    BY <2>1
<1> HIDE DEF N
<1>2. PICK n \in N : \A m \in N : ~(<<m, n>> \in OpToRel(<, Nat))
  BY <1>1, NatLessThanWellFounded, WFMin
<1>3. PICK x \in S : n = b - x
  BY <1>2 DEF N
<1>4. ASSUME NEW y \in S PROVE x >= y
  <2>1. b - y \in N
    BY DEF N
  <2>2. ~(b - y < n)
    BY <1>1, <1>2, <2>1 DEF OpToRel
  <2>3. QED
    BY <1>3, <2>2
<1>5. QED
  BY <1>4

\* A rate resolved for tax is one the store holds for that basis.
LEMMA ResolvedIsBasis ==
  ASSUME RatesDated, DOMAIN rates \subseteq Int, NEW d \in Int, Itbr!RatesFor(d) # None
  PROVE  Itbr!RatesFor(d).tax \in Itbr!BasisRates(d)
<1> DEFINE b == Itbr!Basis(d)
           near == Itbr!Near(b)
<1>1. b \in Int
  BY DEF RatesDated, Itbr!Basis
<1>2. Itbr!Resolved(b) # None /\ Itbr!RatesFor(d).tax = Itbr!Resolved(b)
  BY DEF Itbr!RatesFor
<1>3. near \subseteq DOMAIN rates /\ \A x \in near : x <= b
  BY DEF Itbr!Near
<1> HIDE DEF near
<1>4. near # {} /\ Itbr!Resolved(b) = rates[Itbr!Max(near)]
  BY <1>2 DEF Itbr!Resolved, near
<1> HIDE DEF b
<1>5. \E x \in near : \A y \in near : x >= y
  BY <1>1, <1>3, <1>4, LastDayExists
<1>6. Itbr!Max(near) \in near
  BY <1>5 DEF Itbr!Max
<1>7. QED
  BY <1>2, <1>4, <1>6 DEF Itbr!BasisRates, near, b

\* What rule115Legs computes today can be defended today.
LEMMA LegsDefensible ==
  ASSUME RatesDated, DOMAIN rates \subseteq Int, NEW x \in RateSales, Itbr!Legs(x) # None
  PROVE  Itbr!Defensible(x, Itbr!Legs(x))
<1> DEFINE r == Itbr!RatesFor(x.sold).tax
           legs == [a \in x.slices |-> Itbr!RatesFor(a.acquired).tax]
           Table(h) == h = [s \in SUBSET x.slices |->
             IF s = {} THEN 0
             ELSE FirstOf(s).cost * Itbr!RatesFor(FirstOf(s).acquired).tax + h[s \ {FirstOf(s)}]]
           Known(h) == h = [s \in SUBSET x.slices |->
             IF s = {} THEN 0 ELSE FirstOf(s).cost * legs[FirstOf(s)] + h[s \ {FirstOf(s)}]]
           cost == Itbr!MapThenSumSet(LAMBDA a : a.cost * legs[a], x.slices)
<1>1. /\ \A a \in x.slices : Itbr!RatesFor(a.acquired) # None
      /\ Itbr!RatesFor(x.sold) # None
  BY DEF Itbr!Legs
<1>2. r \in Itbr!BasisRates(x.sold)
  BY <1>1, ResolvedIsBasis DEF RatesDated
<1>3. \A a \in x.slices : legs[a] \in Itbr!BasisRates(a.acquired)
  BY <1>1, ResolvedIsBasis DEF RatesDated
<1>4. CASE x.slices = {}
  <2>1. Itbr!Legs(x) = x.gain * r
    BY <1>1, <1>4 DEF Itbr!Legs
  <2>2. QED
    BY <1>2, <1>4, <2>1 DEF Itbr!Defensible
<1>5. CASE x.slices # {}
  <2>1. Itbr!Legs(x) = Itbr!Cardinality(x.slices) * x.price * r - Itbr!Cost(x)
    BY <1>1, <1>5 DEF Itbr!Legs, Itbr!Proceeds
  <2>2. Itbr!Cost(x) = cost
    <3>1. Itbr!Cost(x) = (CHOOSE h : Table(h))[x.slices]
      BY DEF Itbr!Cost, Itbr!MapThenSumSet, Itbr!MapThenFoldSet, FirstOf
    <3>2. cost = (CHOOSE h : Known(h))[x.slices]
      BY DEF Itbr!MapThenSumSet, Itbr!MapThenFoldSet, FirstOf
    <3>3. ASSUME NEW h PROVE Table(h) <=> Known(h)
      BY FirstOfIn
    <3> HIDE DEF Table, Known, cost
    <3>4. (CHOOSE h : Table(h)) = (CHOOSE h : Known(h))
      BY <3>3
    <3>5. QED
      BY <3>1, <3>2, <3>4
  <2>3. legs \in [x.slices -> UNION {Itbr!BasisRates(a.acquired) : a \in x.slices}]
    BY <1>3
  <2> HIDE DEF r, legs
  <2>4. Itbr!Legs(x) = Itbr!Cardinality(x.slices) * x.price * r
          - Itbr!MapThenSumSet(LAMBDA a : a.cost * legs[a], x.slices)
    BY <2>1, <2>2
  <2>5. QED
    BY <1>2, <1>3, <1>5, <2>3, <2>4 DEF Itbr!Defensible
<1>6. QED
  BY <1>4, <1>5

\* A stored rate stays: what could be defended still can.
LEMMA DefensibleStays ==
  ASSUME NEW x, NEW gain, Itbr!Defensible(x, gain), DOMAIN rates \subseteq DOMAIN rates',
         \A d \in DOMAIN rates : rates'[d] = rates[d]
  PROVE  Itbr!Defensible(x, gain)'
<1>1. ASSUME NEW d
      PROVE  Itbr!BasisRates(d) \subseteq Itbr!BasisRates(d)'
  <2>1. Itbr!Near(Itbr!Basis(d)) \subseteq Itbr!Near(Itbr!Basis(d))'
    BY DEF Itbr!Near, Itbr!Basis
  <2>2. ASSUME NEW y \in Itbr!Near(Itbr!Basis(d))
        PROVE  rates[y] \in Itbr!BasisRates(d)'
    <3>1. y \in DOMAIN rates
      BY <2>2 DEF Itbr!Near
    <3>2. rates[y] = rates'[y] /\ y \in Itbr!Near(Itbr!Basis(d))'
      BY <2>1, <2>2, <3>1
    <3>3. QED
      BY <3>2 DEF Itbr!BasisRates
  <2>3. QED
    BY <2>2 DEF Itbr!BasisRates
<1>2. CASE x.slices = {}
  BY <1>1, <1>2 DEF Itbr!Defensible
<1>3. CASE x.slices # {}
  <2> DEFINE all == UNION {Itbr!BasisRates(a.acquired) : a \in x.slices}
  <2>1. PICK r \in Itbr!BasisRates(x.sold), legs \in [x.slices -> all] :
          /\ \A a \in x.slices : legs[a] \in Itbr!BasisRates(a.acquired)
          /\ gain = Itbr!Cardinality(x.slices) * x.price * r
                      - Itbr!MapThenSumSet(LAMBDA a : a.cost * legs[a], x.slices)
    BY <1>3 DEF Itbr!Defensible
  <2>2. r \in Itbr!BasisRates(x.sold)' /\ \A a \in x.slices : legs[a] \in Itbr!BasisRates(a.acquired)'
    BY <1>1, <2>1
  <2>3. legs \in [x.slices -> UNION {Itbr!BasisRates(a.acquired)' : a \in x.slices}]
    BY <2>1, <2>2
  <2>4. QED
    BY <1>3, <2>1, <2>2, <2>3
      DEF Itbr!Defensible, Itbr!Cardinality, Itbr!MapThenSumSet, Itbr!MapThenFoldSet
<1>4. QED
  BY <1>2, <1>3

LEMMA StampsInductive ==
  ASSUME RatesDated, StampsDefensible, [Itbr!RatesNext]_(Itbr!ratevars)
  PROVE  StampsDefensible'
<1>1. ASSUME NEW cards, DOMAIN cards \subseteq Int, Itbr!PutAll(cards)
      PROVE  StampsDefensible'
  <2>1. /\ DOMAIN rates' = DOMAIN rates \cup DOMAIN cards
        /\ \A d \in DOMAIN rates : rates'[d] = rates[d]
        /\ disposals' = disposals
    BY <1>1 DEF Itbr!PutAll, Itbr!Agrees
  <2>2. ASSUME NEW x \in DOMAIN disposals', disposals'[x].gain # None
        PROVE  Itbr!Defensible(x, disposals[x].gain)'
    <3>1. Itbr!Defensible(x, disposals[x].gain)
      BY <2>1, <2>2 DEF StampsDefensible
    <3> DEFINE gain == disposals[x].gain
    <3> SUFFICES ASSUME NEW g, Itbr!Defensible(x, g) PROVE Itbr!Defensible(x, g)'
      BY <2>1, <3>1
    <3>2. QED
      BY <2>1, DefensibleStays
  <2>3. DOMAIN rates' \subseteq Int /\ DOMAIN disposals' \subseteq RateSales
    BY <1>1, <2>1 DEF StampsDefensible
  <2>4. \A x \in DOMAIN disposals' :
          disposals'[x].gain # None => Itbr!Defensible(x, disposals[x].gain)'
    BY <2>2
  <2>5. QED
    BY <2>3, <2>4 DEF StampsDefensible
<1>2. ASSUME NEW file \in Archives, NEW policy \in {"FIRST", "LAST"}, Itbr!ImportArchive(file, policy)
      PROVE  StampsDefensible'
  <2>1. DOMAIN Itbr!Parsed(file, policy) \subseteq Int
    BY DEF Itbr!Parsed, Itbr!Quoted, RatesDated
  <2>2. QED
    BY <1>1, <1>2, <2>1 DEF Itbr!ImportArchive
<1>3. ASSUME NEW t \in TypedRates, Itbr!Record(t[1], t[2])
      PROVE  StampsDefensible'
  <2>1. DOMAIN [d \in {t[1]} |-> t[2]] \subseteq Int
    BY DEF RatesDated
  <2>2. QED
    BY <1>1, <1>3, <2>1 DEF Itbr!Record
<1>4. ASSUME NEW new \in SUBSET RateSales, Itbr!ImportStatement(new)
      PROVE  StampsDefensible'
  <2>1. /\ rates' = rates
        /\ disposals' = [x \in DOMAIN disposals \cup new |->
                            IF x \in DOMAIN disposals THEN disposals[x] ELSE Itbr!Stamped(x)]
    BY <1>4 DEF Itbr!ImportStatement
  <2>2. ASSUME NEW x \in DOMAIN disposals', disposals'[x].gain # None
        PROVE  Itbr!Defensible(x, disposals'[x].gain)
    <3>1. CASE x \in DOMAIN disposals
      BY <2>1, <2>2, <3>1 DEF StampsDefensible
    <3>2. CASE x \notin DOMAIN disposals
      <4>1. x \in RateSales /\ disposals'[x] = Itbr!Stamped(x)
        BY <2>1, <3>2
      <4>2. disposals'[x].gain = Itbr!Legs(x) /\ Itbr!Legs(x) # None
        BY <2>2, <4>1 DEF Itbr!Stamped
      <4>3. QED
        BY <4>1, <4>2, LegsDefensible DEF StampsDefensible
    <3>3. QED
      BY <3>1, <3>2
  <2>3. ASSUME NEW x \in DOMAIN disposals', disposals'[x].gain # None
        PROVE  Itbr!Defensible(x, disposals[x].gain)'
    <3> SUFFICES ASSUME NEW g, Itbr!Defensible(x, g) PROVE Itbr!Defensible(x, g)'
      BY <2>2, <2>3
    <3>1. QED
      BY <2>1, DefensibleStays
  <2>4. DOMAIN rates' \subseteq Int /\ DOMAIN disposals' \subseteq RateSales
    BY <2>1 DEF StampsDefensible
  <2>5. QED
    BY <2>3, <2>4 DEF StampsDefensible
<1>5. CASE (\E x \in DOMAIN disposals : Itbr!DeleteExit(x)) \/ Itbr!Session \/ UNCHANGED Itbr!ratevars
  <2>1. /\ rates' = rates /\ DOMAIN disposals' \subseteq DOMAIN disposals
        /\ \A x \in DOMAIN disposals' : disposals'[x] = disposals[x]
    BY <1>5 DEF Itbr!DeleteExit, Itbr!Session, Itbr!ratevars, Itbr!Restrict
  <2>2. ASSUME NEW x \in DOMAIN disposals', disposals'[x].gain # None
        PROVE  Itbr!Defensible(x, disposals[x].gain)'
    <3>1. Itbr!Defensible(x, disposals'[x].gain)
      BY <2>1, <2>2 DEF StampsDefensible
    <3> SUFFICES ASSUME NEW g, Itbr!Defensible(x, g) PROVE Itbr!Defensible(x, g)'
      BY <3>1
    <3>2. QED
      BY <2>1, DefensibleStays
  <2>3. DOMAIN rates' \subseteq Int /\ DOMAIN disposals' \subseteq RateSales
    BY <2>1 DEF StampsDefensible
  <2>4. QED
    BY <2>2, <2>3 DEF StampsDefensible
<1>6. QED
  BY <1>2, <1>3, <1>4, <1>5 DEF Itbr!RatesNext

OnRates == side = "rates"
LEMMA RatesSide ==
  /\ RegistersInit => Itbr!RatesInit
  /\ OnRates /\ [RegistersNext]_registervars => OnRates' /\ [Itbr!RatesNext]_(Itbr!ratevars)
  /\ ~OnRates /\ [RegistersNext]_registervars => (~OnRates)'
<1>1. RegistersInit => Itbr!RatesInit
  BY DEF RegistersInit
<1>2. OnRates /\ [RegistersNext]_registervars => OnRates' /\ [Itbr!RatesNext]_(Itbr!ratevars)
  BY DEF RegistersNext, registervars, vars, ratevars, Itbr!ratevars, OnRates
<1>3. ~OnRates /\ [RegistersNext]_registervars => (~OnRates)'
  BY DEF RegistersNext, registervars, OnRates
<1>4. QED
  BY <1>1, <1>2, <1>3

(* A gain that is reported, from its stamp or computed today, converted    *)
(* each leg at a rate the store still holds, of a day on or before the end *)
(* of the month before that leg and within the lookback, however many      *)
(* archives were imported and rates typed in since.                        *)
THEOREM GainsStayDefensible == RatesDated /\ RegistersSpec => []GainsDefensible
<1> DEFINE inv == OnRates => StampsDefensible
<1>1. ASSUME RatesDated
      PROVE  RegistersSpec => []GainsDefensible
  <2>1. RegistersInit => inv
    <3>1. Itbr!RatesInit => StampsDefensible
      BY DEF Itbr!RatesInit, StampsDefensible
    <3>2. QED
      BY <3>1, RatesSide
  <2>2. inv /\ [RegistersNext]_registervars => inv'
    BY <1>1, RatesSide, StampsInductive
  <2>3. inv => GainsDefensible
    <3> SUFFICES ASSUME StampsDefensible, NEW x \in DOMAIN disposals, Itbr!ReportedGain(x) # None
                 PROVE  Itbr!Defensible(x, Itbr!ReportedGain(x))
      BY DEF GainsDefensible, Itbr!GainsDefensible, OnRates
    <3>1. x \in RateSales /\ DOMAIN rates \subseteq Int
      BY DEF StampsDefensible
    <3>2. QED
      BY <1>1, <3>1, LegsDefensible DEF StampsDefensible, Itbr!ReportedGain
  <2> HIDE DEF inv
  <2>4. QED
    BY <2>1, <2>2, <2>3, PTL DEF RegistersSpec
<1>2. QED
  BY <1>1
---------------------------------------------------------------------------
\* A set of days that begins has a first one.
LEMMA FirstDayExists ==
  ASSUME NEW S \in SUBSET Int, S # {}, NEW b \in Int, \A x \in S : b <= x
  PROVE  \E x \in S : \A y \in S : x <= y
<1> DEFINE N == {-x : x \in S}
<1>1. N \in SUBSET Int /\ N # {} /\ -b \in Int /\ \A n \in N : n <= -b
  <2>1. \A x \in S : -x \in Int /\ -x <= -b
    OBVIOUS
  <2>2. N # {} /\ -b \in Int
    <3>1. PICK x \in S : TRUE
      OBVIOUS
    <3>2. -x \in N
      BY <3>1
    <3> HIDE DEF N
    <3>3. QED
      BY <3>2
  <2>3. \A n \in N : \E x \in S : n = -x
    OBVIOUS
  <2> HIDE DEF N
  <2>4. \A n \in N : n \in Int /\ n <= -b
    BY <2>1, <2>3
  <2>5. QED
    BY <2>2, <2>4
<1> HIDE DEF N
<1>2. PICK n \in N : \A m \in N : n >= m
  BY <1>1, LastDayExists
<1>3. PICK x \in S : n = -x
  BY <1>2 DEF N
<1>4. ASSUME NEW y \in S PROVE x <= y
  <2>1. -y \in N
    BY DEF N
  <2>2. n >= -y
    BY <1>2, <2>1
  <2>3. QED
    BY <1>3, <2>2
<1>5. QED
  BY <1>4

\* Of finitely many, one has the highest value.
LEMMA HighestExists ==
  ASSUME NEW D, IsFiniteSet(D), D # {}, NEW f, \A i \in D : f[i] \in Int
  PROVE  \E i \in D : \A j \in D : f[j] <= f[i]
<1> DEFINE T == {s \in SUBSET D : s # {} => \E i \in s : \A j \in s : f[j] <= f[i]}
<1>1. ASSUME NEW s \in SUBSET D, \A t \in SUBSET s : t # s => t \in T
      PROVE  s \in T
  <2> DEFINE c == FirstOf(s)
             r == s \ {c}
  <2>1. CASE s = {}
    BY <2>1
  <2>2. CASE s # {}
    <3>1. c \in s /\ r \in T
      BY <1>1, <2>2, FirstOfIn
    <3>2. CASE r = {}
      <4>1. \A j \in s : j = c
        BY <3>2
      <4>2. QED
        BY <3>1, <4>1
    <3>3. CASE r # {}
      <4>1. PICK i \in r : \A j \in r : f[j] <= f[i]
        BY <3>1, <3>3
      <4>2. f[c] \in Int /\ f[i] \in Int /\ \A j \in s : f[j] \in Int
        BY <3>1
      <4>3. \A j \in s : j = c \/ j \in r
        OBVIOUS
      <4> HIDE DEF c, r
      <4>4. CASE f[c] <= f[i]
        <5>1. \A j \in s : f[j] <= f[i]
          BY <4>1, <4>3, <4>4
        <5>2. i \in s
          BY DEF r
        <5>3. QED
          BY <5>1, <5>2
      <4>5. CASE ~(f[c] <= f[i])
        <5>1. \A j \in s : f[j] <= f[c]
          BY <4>1, <4>2, <4>3, <4>5
        <5>2. QED
          BY <3>1, <5>1
      <4>6. QED
        BY <4>4, <4>5
    <3>4. QED
      BY <3>2, <3>3
  <2>3. QED
    BY <2>1, <2>2
<1> HIDE DEF T
<1>2. \A s \in SUBSET D : s \in T
  BY <1>1, SubsetInduction
<1>3. D \in T
  BY <1>2
<1>4. QED
  BY <1>3 DEF T
---------------------------------------------------------------------------
(* Days, quantities and prices are whole, and prices and rates are not     *)
(* negative.                                                               *)
DisclosureWhole ==
  /\ YearStart \in Int /\ YearEnd \in Int /\ Closure \in Nat
  /\ \A t \in Trades : t.day \in Int /\ t.change \in Int
  /\ \A p \in Published : p[2] \in Nat
  /\ \A s \in Stated : s[3] \in Nat
  /\ \A o \in Observed : o[3] \in Nat
  /\ \A d \in TypedDates : d # None => d \in Int

MarksWhole ==
  /\ \A k \in DOMAIN marks : marks[k] \in Nat
  /\ \A k \in DOMAIN prices : prices[k] \in Nat
  /\ \A d \in DOMAIN sheet : sheet[d] \in Nat
  /\ trades \subseteq Trades /\ IsFiniteSet(trades)
  /\ \A h \in DOMAIN details : details[h] # None => details[h] \in Int

LEMMA MarksInductive ==
  ASSUME DisclosureWhole, MarksWhole, [Abroad!DisclosureNext]_(Abroad!disclosurevars)
  PROVE  MarksWhole'
<1>1. ASSUME NEW r, NEW p, \A d \in DOMAIN r : r[d] \in Nat, \A k \in DOMAIN p : p[k] \in Nat
      PROVE  \A k \in DOMAIN Abroad!Sync(r, p) : Abroad!Sync(r, p)[k] \in Nat
  BY <1>1 DEF Abroad!Sync, Abroad!Under, MarksWhole
<1>2. ASSUME NEW s \in Stated, Abroad!ImportPrices(s[1], s[2], s[3])
      PROVE  MarksWhole'
  <2>1. \A k \in DOMAIN prices' : prices'[k] \in Nat
    BY <1>2 DEF Abroad!ImportPrices, Abroad!With, MarksWhole, DisclosureWhole
  <2>2. \A k \in DOMAIN marks' : marks'[k] \in Nat
    BY <1>1, <1>2, <2>1 DEF Abroad!ImportPrices, MarksWhole
  <2>3. QED
    BY <1>2, <2>1, <2>2 DEF Abroad!ImportPrices, MarksWhole
<1>3. ASSUME NEW p \in Published, Abroad!Publish(p[1], p[2])
      PROVE  MarksWhole'
  BY <1>3 DEF Abroad!Publish, Abroad!With, MarksWhole, DisclosureWhole
<1>4. CASE Abroad!SyncMarks
  <2>1. \A k \in DOMAIN marks' : marks'[k] \in Nat
    BY <1>1, <1>4 DEF Abroad!SyncMarks, MarksWhole
  <2>2. QED
    BY <1>4, <2>1 DEF Abroad!SyncMarks, MarksWhole
<1>5. ASSUME NEW o \in Observed, Abroad!RecordMark(o[1], o[2], o[3])
      PROVE  MarksWhole'
  BY <1>5 DEF Abroad!RecordMark, Abroad!With, MarksWhole, DisclosureWhole
<1>6. ASSUME NEW h \in Disclosed, NEW typed \in TypedDates, Abroad!RecordDetail(h, typed)
      PROVE  MarksWhole'
  BY <1>6 DEF Abroad!RecordDetail, Abroad!With, MarksWhole, DisclosureWhole
<1>7. ASSUME NEW t \in Trades, Abroad!TradeArrives(t)
      PROVE  MarksWhole'
  <2>1. IsFiniteSet(trades \cup {t})
    BY FS_AddElement DEF MarksWhole
  <2>2. QED
    BY <1>7, <2>1 DEF Abroad!TradeArrives, MarksWhole
<1>8. ASSUME trades' \in SUBSET trades, marks' = marks, prices' = prices, sheet' = sheet,
             \A h \in DOMAIN details' : h \in DOMAIN details /\ details'[h] = details[h]
      PROVE  MarksWhole'
  <2>1. IsFiniteSet(trades')
    BY <1>8, FS_Subset DEF MarksWhole
  <2>2. QED
    BY <1>8, <2>1 DEF MarksWhole
<1>9. ASSUME NEW t \in trades, Abroad!SaleDeleted(t)
      PROVE  MarksWhole'
  BY <1>8, <1>9 DEF Abroad!SaleDeleted
<1>10. ASSUME NEW h \in Abroad!Foreign, Abroad!HoldingDeleted(h)
       PROVE  MarksWhole'
  BY <1>8, <1>10 DEF Abroad!HoldingDeleted, Abroad!Restrict
<1>11. CASE Abroad!Freeze \/ Abroad!Session \/ UNCHANGED Abroad!disclosurevars
  BY <1>8, <1>11 DEF Abroad!Freeze, Abroad!Session, Abroad!disclosurevars
<1>12. QED
  BY <1>2, <1>3, <1>4, <1>5, <1>6, <1>7, <1>9, <1>10, <1>11 DEF Abroad!DisclosureNext

\* The earliest and the latest of days within bounds.
LEMMA MinOf ==
  ASSUME NEW S \in SUBSET Int, S # {}, NEW b \in Int, \A x \in S : b <= x
  PROVE  Abroad!Min(S) \in S /\ \A x \in S : Abroad!Min(S) <= x
<1>1. \E x \in S : \A y \in S : x <= y
  BY FirstDayExists
<1>2. QED
  BY <1>1 DEF Abroad!Min
LEMMA MaxOf ==
  ASSUME NEW S \in SUBSET Int, S # {}, NEW b \in Int, \A x \in S : x <= b
  PROVE  Abroad!Max(S) \in S /\ \A x \in S : x <= Abroad!Max(S)
<1>1. \E x \in S : \A y \in S : x >= y
  BY LastDayExists
<1>2. Abroad!Max(S) \in S /\ \A y \in S : Abroad!Max(S) >= y
  BY <1>1 DEF Abroad!Max
<1>3. QED
  BY <1>2

\* The last mark on or before a day.
LEMMA LatestMark ==
  ASSUME NEW key, NEW from \in Int, NEW x \in Int, Abroad!Marked(key, from, x) # {}
  PROVE  LET m == Abroad!Max(Abroad!Marked(key, from, x))
         IN  /\ m \in from..x /\ <<key, m>> \in DOMAIN marks
             /\ \A d \in from..x : <<key, d>> \in DOMAIN marks => d <= m
<1> DEFINE S == Abroad!Marked(key, from, x)
<1>1. S \in SUBSET Int /\ S # {} /\ \A d \in S : d <= x
  BY DEF Abroad!Marked
<1> HIDE DEF S
<1>2. Abroad!Max(S) \in S /\ \A d \in S : d <= Abroad!Max(S)
  BY <1>1, MaxOf
<1>3. QED
  BY <1>2 DEF S, Abroad!Marked

\* The day a mark stands until: the next mark, or the end of the window.
LEMMA NextMark ==
  ASSUME NEW key, NEW d \in Int, NEW to \in Int
  PROVE  LET u == Abroad!Until(key, d, to)
         IN  /\ u = to \/ (u \in (d + 1)..to /\ <<key, u>> \in DOMAIN marks)
             /\ u <= to /\ u \in Int
             /\ \A y \in (d + 1)..to : <<key, y>> \in DOMAIN marks => u <= y
<1> DEFINE S == {to} \cup Abroad!Marked(key, d + 1, to)
           b == IF d + 1 <= to THEN d + 1 ELSE to
<1>1. b \in Int /\ S \in SUBSET Int /\ S # {} /\ \A x \in S : b <= x
  BY DEF Abroad!Marked
<1>2. Abroad!Until(key, d, to) = Abroad!Min(S)
  BY DEF Abroad!Until
<1> HIDE DEF S, b
<1>3. Abroad!Min(S) \in S /\ \A x \in S : Abroad!Min(S) <= x
  BY <1>1, MinOf
<1>4. QED
  BY <1>2, <1>3 DEF S, Abroad!Marked

\* A covered series has no break.
LEMMA CoveredUnbroken ==
  ASSUME DisclosureWhole, NEW key, NEW from \in Int, Abroad!Covers(key, from, YearEnd)
  PROVE  ~Abroad!Broken(key, from)
<1> SUFFICES ASSUME NEW d \in from..YearEnd, d + Closure < YearEnd,
                    Abroad!Marked(key, d, d + Closure) = {}
             PROVE  FALSE
  BY DEF Abroad!Broken
<1>0. YearEnd \in Int /\ Closure \in Nat /\ d \in Int /\ from <= d /\ d <= YearEnd
  BY DEF DisclosureWhole
<1> DEFINE all == Abroad!Marked(key, from, YearEnd)
           m == Abroad!Max(Abroad!Marked(key, from, d))
           u == Abroad!Until(key, m, YearEnd)
           low == Abroad!Min(all)
<1>1. \A x : x \in all <=> x \in from..YearEnd /\ <<key, x>> \in DOMAIN marks
  BY DEF Abroad!Marked
<1>a. all # {} /\ low - from <= Closure /\ \A x \in all : Abroad!Until(key, x, YearEnd) - x <= Closure
  BY DEF Abroad!Covers
<1>2. low \in all /\ \A x \in all : low <= x
  <2>1. \A x \in all : x \in Int /\ from <= x
    BY <1>0 DEF Abroad!Marked
  <2> HIDE DEF all
  <2>2. QED
    BY <1>a, <2>1, MinOf
<1> HIDE DEF all, low
<1>4. \A y \in d..(d + Closure) : <<key, y>> \notin DOMAIN marks
  BY DEF Abroad!Marked
<1>5. low \in Int /\ from <= low /\ low < d /\ <<key, low>> \in DOMAIN marks
  <2>1. low \in Int /\ from <= low /\ <<key, low>> \in DOMAIN marks
    BY <1>0, <1>1, <1>2
  <2>2. low <= d + Closure
    BY <1>0, <1>a, <2>1
  <2>3. QED
    BY <1>0, <1>4, <2>1, <2>2
<1>6. Abroad!Marked(key, from, d) # {}
  <2>1. low \in from..d
    BY <1>0, <1>5
  <2>2. QED
    BY <1>5, <2>1 DEF Abroad!Marked
<1>7. /\ m \in from..d /\ <<key, m>> \in DOMAIN marks
      /\ \A x \in from..d : <<key, x>> \in DOMAIN marks => x <= m
  BY <1>0, <1>6, LatestMark
<1>10. m \in Int => (u = YearEnd \/ (u \in (m + 1)..YearEnd /\ <<key, u>> \in DOMAIN marks)) /\ u \in Int
  BY <1>0, NextMark
<1>9. m \in all => u - m <= Closure
  BY <1>a
<1> HIDE DEF m, u
<1>8. m \in Int /\ m < d /\ m \in all
  <2>1. m \in Int /\ from <= m /\ m <= d
    BY <1>0, <1>7
  <2>2. m # d
    BY <1>0, <1>4, <1>7
  <2>3. m \in from..YearEnd
    BY <1>0, <2>1
  <2>4. QED
    BY <1>0, <1>1, <1>7, <2>1, <2>2, <2>3
<1>11. CASE u = YearEnd
  BY <1>0, <1>8, <1>9, <1>11
<1>12. CASE u \in (m + 1)..YearEnd /\ <<key, u>> \in DOMAIN marks
  <2>1. u <= d + Closure
    BY <1>0, <1>8, <1>9, <1>12
  <2>2. ~(u >= d)
    BY <1>0, <1>4, <1>8, <1>10, <1>12, <2>1
  <2>3. u \in from..d
    BY <1>0, <1>7, <1>8, <1>12, <2>2
  <2>4. QED
    BY <1>0, <1>7, <1>8, <1>12, <2>3
<1>13. QED
  BY <1>8, <1>10, <1>11, <1>12

\* Before the year's end a covered series has a figure from its first mark on.
LEMMA CoveredDay ==
  ASSUME NEW key, NEW from \in Int, NEW to \in Int, Abroad!Covers(key, from, to),
         Closure \in Nat,
         NEW x \in from..to, x < to \/ <<key, x>> \in DOMAIN marks,
         Abroad!Marked(key, from, x) # {}
  PROVE  x \in DOMAIN Abroad!SeriesFor(key, from, to)
<1> DEFINE m == Abroad!Max(Abroad!Marked(key, from, x))
           u == Abroad!Until(key, m, to)
<1>1. /\ m \in from..x /\ <<key, m>> \in DOMAIN marks
      /\ \A d \in from..x : <<key, d>> \in DOMAIN marks => d <= m
  BY LatestMark
<1>2. m \in Abroad!Marked(key, from, to) /\ m \in Int /\ m <= x
  <2> HIDE DEF m
  <2>1. QED
    BY <1>1 DEF Abroad!Marked
<1>3. u - m <= Closure
  BY <1>2 DEF Abroad!Covers
<1>4. u = to \/ (u \in (m + 1)..to /\ <<key, u>> \in DOMAIN marks)
  BY <1>2, NextMark
<1>5. u \in Int
  BY <1>2, NextMark
<1>6. Abroad!Carried(key, m, to) = {m} \cup IF u - m > Closure THEN {} ELSE (m + 1)..(u - 1)
  BY DEF Abroad!Carried
<1> HIDE DEF m, u
<1>b. ~(u - m > Closure) => x \in Abroad!Carried(key, m, to)
  <2>1. CASE x = m
    BY <1>6, <2>1
  <2>2. CASE x # m
    <3>1. m < x /\ x < to
      BY <1>1, <1>2, <2>2
    <3>2. x < u
      BY <1>1, <1>2, <1>4, <1>5, <3>1
    <3>3. x \in (m + 1)..(u - 1)
      BY <1>2, <1>5, <3>1, <3>2
    <3>4. QED
      BY <1>6, <3>3
  <2>3. QED
    BY <2>1, <2>2
<1>7. DOMAIN Abroad!SeriesFor(key, from, to)
        = UNION {Abroad!Carried(key, d, to) : d \in Abroad!Marked(key, from, to)}
  BY DEF Abroad!SeriesFor
<1>c. x \in Abroad!Carried(key, m, to)
  BY <1>3, <1>5, <1>2, <1>b
<1>8. QED
  BY <1>2, <1>7, <1>c

\* A figure of a series is a mark, and on a marked day that day's mark.
LEMMA SeriesFigure ==
  ASSUME MarksWhole, Closure \in Nat, NEW key, NEW from \in Int, NEW to \in Int,
         NEW x \in DOMAIN Abroad!SeriesFor(key, from, to)
  PROVE  /\ x \in from..to
         /\ Abroad!SeriesFor(key, from, to)[x] \in Nat
         /\ <<key, x>> \in DOMAIN marks => Abroad!SeriesFor(key, from, to)[x] = marks[<<key, x>>]
<1>1. PICK e \in Abroad!Marked(key, from, to) : x \in Abroad!Carried(key, e, to)
  BY DEF Abroad!SeriesFor
<1>2. e \in from..to /\ <<key, e>> \in DOMAIN marks /\ e \in Int
  BY <1>1 DEF Abroad!Marked
<1> DEFINE u == Abroad!Until(key, e, to)
           S == Abroad!Marked(key, from, x)
           m == Abroad!Max(S)
<1>3. u <= to /\ u \in Int
  BY <1>2, NextMark
<1>4. x = e \/ x \in (e + 1)..(u - 1)
  BY <1>1 DEF Abroad!Carried
<1>5. x \in from..to /\ x \in Int /\ e <= x
  <2> HIDE DEF u
  <2>1. QED
    BY <1>2, <1>3, <1>4
<1>6. S # {}
  BY <1>2, <1>5 DEF Abroad!Marked
<1>7. /\ m \in from..x /\ <<key, m>> \in DOMAIN marks
      /\ \A d \in from..x : <<key, d>> \in DOMAIN marks => d <= m
  BY <1>5, <1>6, LatestMark
<1>8. Abroad!SeriesFor(key, from, to)[x] = marks[<<key, m>>]
  BY DEF Abroad!SeriesFor
<1> HIDE DEF m, S, u
<1>9. <<key, x>> \in DOMAIN marks => m = x
  BY <1>5, <1>7
<1>10. marks[<<key, m>>] \in Nat
  BY <1>7 DEF MarksWhole
<1>11. QED
  BY <1>5, <1>8, <1>9, <1>10

\* What was held on a day is at most the quantity the table counts with.
LEMMA QuantityCountsHeld ==
  ASSUME DisclosureWhole, MarksWhole, NEW h, NEW day0 \in Int
  PROVE  /\ Abroad!Quantity(h, day0) \in Nat /\ Abroad!HeldOn(h, day0) \in Int
         /\ Abroad!HeldOn(h, day0) <= Abroad!Quantity(h, day0)
<1> DEFINE D == Abroad!Of(h)
           A == {t \in D : t.day <= day0}
           f == [t \in D |-> IF t.day <= day0 THEN t.change ELSE 0]
           g == [t \in A |-> t.change]
           TableD(k) == k = [s \in SUBSET D |->
             IF s = {} THEN 0
             ELSE (IF FirstOf(s).day <= day0 THEN FirstOf(s).change ELSE 0) + k[s \ {FirstOf(s)}]]
           KnownD(k) == k = [s \in SUBSET D |->
             IF s = {} THEN 0 ELSE f[FirstOf(s)] + k[s \ {FirstOf(s)}]]
           TableA(k) == k = [s \in SUBSET A |->
             IF s = {} THEN 0 ELSE FirstOf(s).change + k[s \ {FirstOf(s)}]]
           KnownA(k) == k = [s \in SUBSET A |->
             IF s = {} THEN 0 ELSE g[FirstOf(s)] + k[s \ {FirstOf(s)}]]
           held == Abroad!HeldOn(h, day0)
           moved == Abroad!MapThenSumSet(LAMBDA t : t.change, A)
<1>1. \A t \in D : t.day \in Int /\ t.change \in Int
  BY DEF DisclosureWhole, MarksWhole, Abroad!Of
<1>2. IsFiniteSet(D) /\ IsFiniteSet(A) /\ A \in SUBSET D
  <2>1. D \subseteq trades /\ A \subseteq trades
    BY DEF Abroad!Of
  <2>2. QED
    BY <2>1, FS_Subset DEF MarksWhole
<1>3. held = SumFunctionOnSet(f, D)
  <2>1. ASSUME NEW k PROVE TableD(k) <=> KnownD(k)
    <3> HIDE DEF D
    <3>1. QED
      BY FirstOfIn
  <2>2. held = (CHOOSE k : TableD(k))[D]
    BY DEF Abroad!HeldOn, Abroad!MapThenSumSet, Abroad!MapThenFoldSet, FirstOf
  <2>3. SumFunctionOnSet(f, D) = (CHOOSE k : KnownD(k))[D]
    <3> HIDE DEF D
    <3>1. QED
      BY DEF SumFunctionOnSet, FoldFunctionOnSet, MapThenFoldSet, FirstOf
  <2> HIDE DEF TableD, KnownD, held, f, D
  <2>4. (CHOOSE k : TableD(k)) = (CHOOSE k : KnownD(k))
    BY <2>1
  <2>5. QED
    BY <2>2, <2>3, <2>4
<1>4. moved = SumFunctionOnSet(g, A)
  <2>1. ASSUME NEW k PROVE TableA(k) <=> KnownA(k)
    <3> HIDE DEF A
    <3>1. QED
      BY FirstOfIn
  <2> HIDE DEF A
  <2>2. moved = (CHOOSE k : TableA(k))[A]
    BY DEF Abroad!MapThenSumSet, Abroad!MapThenFoldSet, FirstOf
  <2>3. SumFunctionOnSet(g, A) = (CHOOSE k : KnownA(k))[A]
    BY DEF SumFunctionOnSet, FoldFunctionOnSet, MapThenFoldSet, FirstOf
  <2> HIDE DEF TableA, KnownA, moved, g
  <2>4. (CHOOSE k : TableA(k)) = (CHOOSE k : KnownA(k))
    BY <2>1
  <2>5. QED
    BY <2>2, <2>3, <2>4
<1>5. \A t \in D : f[t] \in Int
  <2> HIDE DEF D
  <2>1. QED
    BY <1>1
<1>6. \A t \in A : g[t] \in Int /\ f[t] = g[t]
  <2> HIDE DEF D
  <2>1. QED
    BY <1>1
<1>7. \A t \in D \ A : f[t] = 0
  <2> HIDE DEF D
  <2>1. QED
    OBVIOUS
<1> HIDE DEF f, g, A, D, held, moved
<1>8. SumFunctionOnSet(f, D) = SumFunctionOnSet(f, A)
  BY <1>2, <1>5, <1>7, SumSupport
<1>9. SumFunctionOnSet(f, A) = SumFunctionOnSet(g, A)
  BY <1>2, <1>6, SumSame
<1>10. held = moved
  BY <1>3, <1>4, <1>8, <1>9
<1>11. moved \in Int
  BY <1>2, <1>4, <1>6, SumInt
<1>12. Abroad!Quantity(h, day0) = Abroad!Max({0, moved})
  BY DEF Abroad!Quantity, moved, A, D
<1> DEFINE top == IF moved > 0 THEN moved ELSE 0
<1>13. {0, moved} \in SUBSET Int /\ top \in Int /\ \A x \in {0, moved} : x <= top
  BY <1>11
<1>14. /\ Abroad!Max({0, moved}) \in {0, moved}
       /\ \A x \in {0, moved} : x <= Abroad!Max({0, moved})
  <2> HIDE DEF top
  <2>1. {0, moved} # {}
    OBVIOUS
  <2>2. QED
    BY <1>13, <2>1, MaxOf
<1>15. held = Abroad!HeldOn(h, day0)
  BY DEF held
<1>16. QED
  BY <1>10, <1>11, <1>12, <1>14, <1>15

\* A foreign holding was first bought on a day.
LEMMA FirstBought ==
  ASSUME DisclosureWhole, MarksWhole, NEW h \in Abroad!Foreign
  PROVE  Abroad!FirstAcquisition(h) \in Int /\ Abroad!From(h) \in Int
<1> DEFINE L == Abroad!Lots(h)
           f == [t \in L |-> 0 - t.day]
           days == {t.day : t \in L}
<1>1. L # {} /\ IsFiniteSet(L) /\ \A t \in L : t.day \in Int
  <2>1. L \subseteq trades
    BY DEF Abroad!Lots, Abroad!Of
  <2>2. QED
    BY <2>1, FS_Subset DEF MarksWhole, DisclosureWhole, Abroad!Foreign
<1>2. \A t \in L : f[t] \in Int /\ f[t] = 0 - t.day
  <2> HIDE DEF L
  <2>1. QED
    BY <1>1
<1> HIDE DEF L, f
<1>3. PICK first \in L : \A t \in L : f[t] <= f[first]
  BY <1>1, <1>2, HighestExists
<1>4. \A d \in days : d \in Int /\ first.day <= d
  BY <1>1, <1>2, <1>3
<1>5. first.day \in days
  BY <1>3
<1>6. Abroad!FirstAcquisition(h) = Abroad!Min(days)
  BY DEF Abroad!FirstAcquisition, L
<1>7. Abroad!Min(days) \in days
  <2> HIDE DEF days
  <2>1. first.day \in Int
    BY <1>4, <1>5
  <2>2. QED
    BY <1>4, <1>5, <2>1, MinOf
<1>8. Abroad!FirstAcquisition(h) \in Int
  BY <1>4, <1>6, <1>7
<1> DEFINE a == Abroad!FirstAcquisition(h)
           top == IF a > YearStart THEN a ELSE YearStart
<1> HIDE DEF a
<1>9. a \in Int /\ YearStart \in Int
  BY <1>8 DEF a, DisclosureWhole
<1>10. {YearStart, a} \in SUBSET Int /\ top \in Int /\ (\A x \in {YearStart, a} : x <= top)
  BY <1>9
<1>11. Abroad!Max({YearStart, a}) \in {YearStart, a}
  <2> HIDE DEF top
  <2>1. {YearStart, a} # {}
    OBVIOUS
  <2>2. QED
    BY <1>10, <2>1, MaxOf
<1>12. QED
  BY <1>8, <1>9, <1>11 DEF Abroad!From, a

\* The peak is the worth of a day the table values, and no day is worth more.
LEMMA PeakIsHighest ==
  ASSUME DisclosureWhole, MarksWhole, NEW h \in Abroad!Foreign,
         Abroad!Acquired(h) \in Int, Abroad!Valued(h) # {}
  PROVE  /\ \A d \in Abroad!Valued(h) : Abroad!Worth(h, d) <= Abroad!Peak(h).native
         /\ \A d \in Abroad!Valued(h) : Abroad!Worth(h, d) \in Nat
         /\ Abroad!Peak(h).native \in Nat
<1> DEFINE V == Abroad!Valued(h)
           w == [d \in V |-> Abroad!Worth(h, d)]
           high == {d \in V : \A e \in V : Abroad!Worth(h, e) <= Abroad!Worth(h, d)}
<1>0. Abroad!From(h) \in Int /\ YearEnd \in Int /\ Closure \in Nat
  BY FirstBought DEF DisclosureWhole
<1>1. \A d \in V : d \in DOMAIN Abroad!Price(h)
  BY DEF Abroad!Valued
<1>2. ASSUME NEW d \in V
      PROVE  d \in Abroad!From(h)..YearEnd /\ d \in Int /\ Abroad!Worth(h, d) \in Nat
  <2>1. d \in Abroad!From(h)..YearEnd /\ Abroad!Price(h)[d] \in Nat
    BY <1>0, <1>1, SeriesFigure DEF Abroad!Price
  <2>2. d \in Int
    BY <1>0, <2>1
  <2>3. Abroad!Quantity(h, d) \in Nat
    BY <2>2, QuantityCountsHeld
  <2>4. QED
    BY <2>1, <2>2, <2>3 DEF Abroad!Worth
<1> HIDE DEF V
<1>3. IsFiniteSet(V)
  <2>1. V \subseteq Abroad!From(h)..YearEnd
    BY <1>2
  <2>2. QED
    BY <1>0, <2>1, FS_Interval, FS_Subset
<1>4. \A d \in V : w[d] \in Int /\ w[d] = Abroad!Worth(h, d)
  BY <1>2
<1>5. V # {}
  BY DEF V
<1>6. PICK top \in V : \A d \in V : w[d] <= w[top]
  <2> HIDE DEF w
  <2>1. \A d \in V : w[d] \in Int
    BY <1>4
  <2>2. QED
    BY <1>3, <1>5, <2>1, HighestExists
<1>7. top \in high
  <2> HIDE DEF w
  <2>1. \A e \in V : Abroad!Worth(h, e) <= Abroad!Worth(h, top)
    BY <1>4, <1>6
  <2>2. QED
    BY <2>1
<1>8. \A d \in high : d \in Int /\ Abroad!From(h) <= d
  BY <1>0, <1>2
<1>9. Abroad!Min(high) \in high
  <2> HIDE DEF high
  <2>1. QED
    BY <1>0, <1>7, <1>8, MinOf
<1>10. Abroad!Peak(h).native = Abroad!Worth(h, Abroad!Min(high))
  BY <1>5 DEF Abroad!Peak, V
<1> DEFINE best == Abroad!Min(high)
<1>11. best \in V /\ \A e \in V : Abroad!Worth(h, e) <= Abroad!Worth(h, best)
  BY <1>9
<1> HIDE DEF best
<1>12. Abroad!Peak(h).native = Abroad!Worth(h, best)
  BY <1>10 DEF best
<1>13. QED
  BY <1>2, <1>11, <1>12 DEF V

\* The peak property of one holding, from the two facts above.
LEMMA NothingUnderstated ==
  ASSUME DisclosureWhole, MarksWhole, NEW h \in Abroad!Foreign, Abroad!Generates(h),
         Abroad!Acquired(h) <= Abroad!From(h)
  PROVE  /\ Abroad!Peak(h).native >= Abroad!Closing(h).native
         /\ \A d \in Abroad!From(h)..YearEnd :
              <<h, d>> \in DOMAIN marks /\ Abroad!Marked(Dollar, Abroad!From(h), d) # {} =>
                Abroad!Peak(h).native >= Abroad!HeldOn(h, d) * marks[<<h, d>>]
<1>0. /\ Abroad!From(h) \in Int /\ YearEnd \in Int /\ Closure \in Nat
      /\ Abroad!FirstAcquisition(h) \in Int
  BY FirstBought DEF DisclosureWhole
<1>1. Abroad!Acquired(h) \in Int
  BY <1>0 DEF Abroad!Acquired, Abroad!Generates, MarksWhole
<1>2. Abroad!Max({Abroad!Acquired(h), Abroad!From(h)}) = Abroad!From(h)
  <2> DEFINE a == Abroad!Acquired(h)
             b == Abroad!From(h)
  <2> HIDE DEF a, b
  <2>1. a \in Int /\ b \in Int /\ a <= b
    BY <1>0, <1>1 DEF a, b
  <2>2. {a, b} \in SUBSET Int /\ {a, b} # {} /\ (\A x \in {a, b} : x <= b)
    BY <2>1
  <2>3. Abroad!Max({a, b}) \in {a, b} /\ b <= Abroad!Max({a, b})
    BY <2>1, <2>2, MaxOf
  <2>4. Abroad!Max({a, b}) = b
    BY <2>1, <2>3
  <2>5. QED
    BY <2>4 DEF a, b
<1>3. \A d \in Abroad!From(h)..YearEnd :
        d \in DOMAIN Abroad!Price(h) /\ d \in DOMAIN Abroad!RateOn(h) => d \in Abroad!Valued(h)
  BY <1>2 DEF Abroad!Valued
<1>4. YearEnd \in Abroad!Valued(h)
  <2>1. YearEnd \in DOMAIN Abroad!Price(h) /\ YearEnd \in DOMAIN Abroad!RateOn(h)
    BY DEF Abroad!Generates
  <2>2. YearEnd \in Abroad!From(h)..YearEnd
    BY <1>0, <2>1, SeriesFigure DEF Abroad!Price
  <2>3. QED
    BY <1>3, <2>1, <2>2
<1>5. /\ \A d \in Abroad!Valued(h) : Abroad!Worth(h, d) <= Abroad!Peak(h).native
      /\ \A d \in Abroad!Valued(h) : Abroad!Worth(h, d) \in Nat
      /\ Abroad!Peak(h).native \in Nat
  BY <1>1, <1>4, PeakIsHighest
<1>6. Abroad!Peak(h).native >= Abroad!Closing(h).native
  <2>1. Abroad!Closing(h).native = Abroad!Worth(h, YearEnd)
    BY DEF Abroad!Closing
  <2>2. QED
    BY <1>4, <1>5, <2>1
<1>7. ASSUME NEW d \in Abroad!From(h)..YearEnd, <<h, d>> \in DOMAIN marks,
             Abroad!Marked(Dollar, Abroad!From(h), d) # {}
      PROVE  Abroad!Peak(h).native >= Abroad!HeldOn(h, d) * marks[<<h, d>>]
  <2>1. Abroad!Marked(h, Abroad!From(h), d) # {}
    BY <1>0, <1>7 DEF Abroad!Marked
  <2>2. Abroad!Covers(h, Abroad!From(h), YearEnd) /\ Abroad!Covers(Dollar, Abroad!From(h), YearEnd)
    BY DEF Abroad!Generates
  <2>3. d \in DOMAIN Abroad!Price(h)
    BY <1>0, <1>7, <2>1, <2>2, CoveredDay DEF Abroad!Price
  <2>4. d \in DOMAIN Abroad!RateOn(h)
    <3>1. CASE d = YearEnd
      BY <3>1 DEF Abroad!Generates
    <3>2. CASE d # YearEnd
      <4>1. d < YearEnd
        BY <1>0, <1>7, <3>2
      <4>2. QED
        BY <1>0, <1>7, <2>2, <4>1, CoveredDay DEF Abroad!RateOn
    <3>3. QED
      BY <3>1, <3>2
  <2>5. d \in Abroad!Valued(h)
    BY <1>3, <1>7, <2>3, <2>4
  <2>6. Abroad!Price(h)[d] = marks[<<h, d>>] /\ Abroad!Price(h)[d] \in Nat
    BY <1>0, <1>7, <2>3, SeriesFigure DEF Abroad!Price
  <2>7. /\ Abroad!Quantity(h, d) \in Nat /\ Abroad!HeldOn(h, d) \in Int
        /\ Abroad!HeldOn(h, d) <= Abroad!Quantity(h, d)
    <3>1. d \in Int
      BY <1>0, <1>7
    <3>2. QED
      BY <3>1, QuantityCountsHeld
  <2>8. Abroad!Worth(h, d) = Abroad!Quantity(h, d) * marks[<<h, d>>]
    BY <2>6 DEF Abroad!Worth
  <2>9. Abroad!Worth(h, d) <= Abroad!Peak(h).native /\ Abroad!Worth(h, d) \in Nat
    BY <1>5, <2>5
  <2>10. ASSUME NEW q \in Nat, NEW r \in Int, r <= q, NEW p \in Nat
         PROVE  r * p <= q * p /\ r * p \in Int
    BY <2>10
  <2>11. Abroad!HeldOn(h, d) * marks[<<h, d>>] <= Abroad!Worth(h, d)
         /\ Abroad!HeldOn(h, d) * marks[<<h, d>>] \in Int
    BY <2>6, <2>7, <2>8, <2>10
  <2>12. QED
    BY <1>5, <2>9, <2>11
<1>8. QED
  BY <1>6, <1>7

OnDisclosure == side = "disclosure"
LEMMA DisclosureSide ==
  /\ RegistersInit => Abroad!DisclosureInit
  /\ OnDisclosure /\ [RegistersNext]_registervars
       => OnDisclosure' /\ [Abroad!DisclosureNext]_(Abroad!disclosurevars)
  /\ ~OnDisclosure /\ [RegistersNext]_registervars => (~OnDisclosure)'
<1>1. RegistersInit => Abroad!DisclosureInit
  BY DEF RegistersInit
<1>2. OnDisclosure /\ [RegistersNext]_registervars
        => OnDisclosure' /\ [Abroad!DisclosureNext]_(Abroad!disclosurevars)
  BY DEF RegistersNext, registervars, vars, disclosurevars, Abroad!disclosurevars, OnDisclosure
<1>3. ~OnDisclosure /\ [RegistersNext]_registervars => (~OnDisclosure)'
  BY DEF RegistersNext, registervars, OnDisclosure
<1>4. QED
  BY <1>1, <1>2, <1>3

(* A disclosure table that is generated does not understate: no break in   *)
(* the marks it rests on is longer than a closed market, and its peak is   *)
(* at least the closing value and what was held on each day at its mark    *)
(* (GenerateComplianceUC.scheduleFaA3, peakValue).                         *)
THEOREM PeaksReached == DisclosureWhole /\ RegistersSpec => []PeakReached
<1> DEFINE inv == OnDisclosure => MarksWhole
<1>1. ASSUME DisclosureWhole
      PROVE  RegistersSpec => []PeakReached
  <2>1. RegistersInit => inv
    <3>1. Abroad!DisclosureInit => MarksWhole
      BY FS_EmptySet DEF MarksWhole, Abroad!DisclosureInit
    <3>2. QED
      BY <3>1, DisclosureSide
  <2>2. inv /\ [RegistersNext]_registervars => inv'
    BY <1>1, DisclosureSide, MarksInductive
  <2>3. inv => PeakReached
    <3> SUFFICES ASSUME MarksWhole, Abroad!Generated, NEW h \in Abroad!Foreign
                 PROVE  /\ ~Abroad!Broken(h, Abroad!From(h))
                        /\ ~Abroad!Broken(Dollar, Abroad!From(h))
                        /\ Abroad!Acquired(h) <= Abroad!From(h) =>
                             /\ Abroad!Peak(h).native >= Abroad!Closing(h).native
                             /\ \A d \in Abroad!From(h)..YearEnd :
                                  /\ <<h, d>> \in DOMAIN marks
                                  /\ Abroad!Marked(Dollar, Abroad!From(h), d) # {}
                                  => Abroad!Peak(h).native
                                       >= Abroad!HeldOn(h, d) * marks[<<h, d>>]
      BY DEF PeakReached, Abroad!PeakReached, OnDisclosure
    <3>1. Abroad!Generates(h)
      BY DEF Abroad!Generated
    <3>2. Abroad!From(h) \in Int
      BY <1>1, FirstBought
    <3>3. ~Abroad!Broken(h, Abroad!From(h)) /\ ~Abroad!Broken(Dollar, Abroad!From(h))
      BY <1>1, <3>1, <3>2, CoveredUnbroken DEF Abroad!Generates
    <3>4. QED
      BY <1>1, <3>1, <3>3, NothingUnderstated
  <2> HIDE DEF inv
  <2>4. QED
    BY <2>1, <2>2, <2>3, PTL DEF RegistersSpec
<1>2. QED
  BY <1>1
---------------------------------------------------------------------------
(* Amounts, gains and rates of tax are whole in their units, and a payment *)
(* is of something (AdvanceTaxUC refuses one that is not).                 *)
Wholes == [salary : Int, exempt : Int, deductions : Int, other : Int, withheld : Int]
TaxWhole ==
  /\ IsFiniteSet(Accruals)
  /\ \A a \in Accruals, y \in Years : a.opening[y] \in Int /\ a.closing[y] \in Int
  /\ \A r \in Receivable : r.amount \in Int
  /\ \A s \in Saleable : s.gain \in Int
  /\ \A p \in Payable : p.year \in Years /\ p.quarter \in Tax!Quarters /\ p.amount \in Nat \ {0}
  /\ Profiles \subseteq Wholes
  /\ Rules.unit \in Nat \ {0}
  /\ {Rules.cess, Rules.cap, Rules.top, Rules.ltcg, Rules.stcg, Rules.vda,
      Rules.exemption, Rules.standard["NEW"]} \subseteq Int
  /\ \E n \in Nat : DOMAIN Rules.slabs["NEW"] = 1..n
  /\ \A i \in DOMAIN Rules.slabs["NEW"] :
       /\ Rules.slabs["NEW"][i].rate \in Int
       /\ Rules.slabs["NEW"][i].upTo # None => Rules.slabs["NEW"][i].upTo \in Int
  /\ IsFiniteSet(Rules.bands)
  /\ \A b \in Rules.bands : b.above \in Int /\ b.rate \in Int

\* What the year's figures are read from.
TaxBooks ==
  /\ profile # None => profile \in Wholes
  /\ IsFiniteSet(DOMAIN receipts) /\ \A id \in DOMAIN receipts : receipts[id].amount \in Int
  /\ IsFiniteSet(exits) /\ exits \subseteq Saleable
  /\ IsFiniteSet(payments) /\ payments \subseteq Payable

LEMMA TaxBooksInductive ==
  ASSUME TaxWhole, TaxBooks, [Tax!TaxNext]_(Tax!taxvars)
  PROVE  TaxBooks'
<1>1. ASSUME NEW r \in Receivable, Tax!Receive(r) PROVE TaxBooks'
  <2>1. IsFiniteSet(DOMAIN receipts') /\ \A id \in DOMAIN receipts' : receipts'[id].amount \in Int
    <3>1. CASE receipts' = receipts
      BY <3>1 DEF TaxBooks
    <3>2. CASE receipts' = [id \in DOMAIN receipts \cup {Tax!NextId} |->
                              IF id = Tax!NextId THEN r ELSE receipts[id]]
      <4>1. IsFiniteSet(DOMAIN receipts \cup {Tax!NextId})
        BY FS_AddElement DEF TaxBooks
      <4>2. QED
        BY <3>2, <4>1 DEF TaxBooks, TaxWhole
    <3>3. QED
      BY <1>1, <3>1, <3>2 DEF Tax!Receive
  <2>2. QED
    BY <1>1, <2>1 DEF Tax!Receive, TaxBooks
<1>2. ASSUME NEW s \in Saleable, Tax!Sell(s) \/ Tax!Undo(s) PROVE TaxBooks'
  <2>1. IsFiniteSet(exits \cup {s}) /\ IsFiniteSet(exits \ {s})
    BY FS_AddElement, FS_RemoveElement DEF TaxBooks
  <2>2. QED
    BY <1>2, <2>1 DEF Tax!Sell, Tax!Undo, TaxBooks
<1>3. ASSUME NEW p \in Payable, Tax!Pay(p) \/ Tax!Unpay(p) PROVE TaxBooks'
  <2>1. IsFiniteSet(payments \cup {p}) /\ IsFiniteSet(payments \ {p})
    BY FS_AddElement, FS_RemoveElement DEF TaxBooks
  <2>2. QED
    BY <1>3, <2>1 DEF Tax!Pay, Tax!Unpay, TaxBooks
<1>4. ASSUME NEW p \in Profiles, Tax!SaveProfile(p) PROVE TaxBooks'
  BY <1>4 DEF Tax!SaveProfile, TaxBooks, TaxWhole
<1>5. ASSUME UNCHANGED <<profile, receipts, exits, payments>> PROVE TaxBooks'
  BY <1>5 DEF TaxBooks
<1>6. QED
  BY <1>1, <1>2, <1>3, <1>4, <1>5
    DEF Tax!TaxNext, Tax!taxvars, Tax!Include, Tax!Session, Tax!Restart
---------------------------------------------------------------------------
\* What accrued in a year.
LEMMA AccruedWhole == ASSUME TaxWhole, NEW y \in Years PROVE Tax!Accrued(y) \in Int
<1> DEFINE D == {a \in Accruals : /\ a.kind # "pf"
                                  /\ a.kind \in Tax!Positions => a.kind \in inclusions}
           f == [a \in D |-> Tax!During(a, y)]
           Table(h) == h = [s \in SUBSET D |->
             IF s = {} THEN 0 ELSE Tax!During(FirstOf(s), y) + h[s \ {FirstOf(s)}]]
           Known(h) == h = [s \in SUBSET D |->
             IF s = {} THEN 0 ELSE f[FirstOf(s)] + h[s \ {FirstOf(s)}]]
<1>1. IsFiniteSet(D) /\ \A a \in D : f[a] \in Int
  BY FS_Subset DEF TaxWhole, Tax!During, Tax!NotBelow
<1>2. Tax!Accrued(y) = (CHOOSE h : Table(h))[D]
  BY DEF Tax!Accrued, Tax!MapThenSumSet, Tax!MapThenFoldSet, FirstOf
<1> HIDE DEF D
<1>3. SumFunctionOnSet(f, D) = (CHOOSE h : Known(h))[D]
  BY DEF SumFunctionOnSet, FoldFunctionOnSet, MapThenFoldSet, FirstOf
<1>4. ASSUME NEW h PROVE Table(h) <=> Known(h)
  BY FirstOfIn
<1> HIDE DEF Table, Known, f
<1>5. (CHOOSE h : Table(h)) = (CHOOSE h : Known(h))
  BY <1>4
<1>6. QED
  BY <1>1, <1>2, <1>3, <1>5, SumInt

\* What was received in a year.
LEMMA DerivedWhole == ASSUME TaxWhole, TaxBooks, NEW y \in Years PROVE Tax!Derived(y) \in Int
<1> DEFINE D == Tax!Received(y)
           total == Tax!MapThenSumSet(LAMBDA id : receipts[id].amount, D)
           f == [id \in D |-> receipts[id].amount]
           Table(h) == h = [s \in SUBSET D |->
             IF s = {} THEN 0 ELSE receipts[FirstOf(s)].amount + h[s \ {FirstOf(s)}]]
           Known(h) == h = [s \in SUBSET D |->
             IF s = {} THEN 0 ELSE f[FirstOf(s)] + h[s \ {FirstOf(s)}]]
<1>1. IsFiniteSet(D) /\ \A id \in D : f[id] \in Int
  BY FS_Subset DEF TaxBooks, Tax!Received
<1>a. Tax!Derived(y) = Tax!Accrued(y) + total
  BY DEF Tax!Derived
<1> HIDE DEF D
<1>2. total = (CHOOSE h : Table(h))[D]
  BY DEF Tax!MapThenSumSet, Tax!MapThenFoldSet, FirstOf
<1>3. SumFunctionOnSet(f, D) = (CHOOSE h : Known(h))[D]
  BY DEF SumFunctionOnSet, FoldFunctionOnSet, MapThenFoldSet, FirstOf
<1>4. ASSUME NEW h PROVE Table(h) <=> Known(h)
  BY FirstOfIn
<1> HIDE DEF Table, Known, f, total
<1>5. (CHOOSE h : Table(h)) = (CHOOSE h : Known(h))
  BY <1>4
<1>6. total = SumFunctionOnSet(f, D)
  BY <1>2, <1>3, <1>5
<1>7. SumFunctionOnSet(f, D) \in Int
  BY <1>1, SumInt
<1>8. Tax!Accrued(y) \in Int
  BY AccruedWhole
<1>9. QED
  BY <1>6, <1>7, <1>8, <1>a

\* The income the slabs tax.
LEMMA TaxableWhole ==
  ASSUME TaxWhole, TaxBooks, NEW y \in Years
  PROVE  /\ Tax!Taxable(Tax!Effective(y), "NEW") \in Int
         /\ Tax!ProfileFor.withheld \in Int
<1>1. Tax!ProfileFor \in Wholes
  BY DEF Tax!ProfileFor, Tax!Zero, TaxBooks, Wholes
<1>2. Tax!Effective(y) \in Wholes
  BY <1>1, DerivedWhole DEF Tax!Effective, Wholes
<1>3. Rules.standard["NEW"] \in Int
  BY DEF TaxWhole
<1>4. QED
  BY <1>1, <1>2, <1>3 DEF Tax!Taxable, Tax!NotBelow, Wholes

\* What each slab taxes of an amount.
OnSlab(amount) ==
  [i \in DOMAIN Rules.slabs["NEW"] |->
     (Tax!Ceiling(Rules.slabs["NEW"], i, amount) - Tax!Ceiling(Rules.slabs["NEW"], i - 1, amount))
       * Rules.slabs["NEW"][i].rate]
LEMMA SlabTaxIsSum ==
  ASSUME TaxWhole, NEW amount \in Int
  PROVE  /\ Tax!SlabTax(amount, "NEW") = SumFunctionOnSet(OnSlab(amount), DOMAIN Rules.slabs["NEW"])
         /\ \A i \in DOMAIN Rules.slabs["NEW"] : OnSlab(amount)[i] \in Int
<1> DEFINE slabs == Rules.slabs["NEW"]
           D == DOMAIN slabs
           Slice(i) == Tax!Ceiling(slabs, i, amount) - Tax!Ceiling(slabs, i - 1, amount)
           f == [i \in D |-> Slice(i) * slabs[i].rate]
           Table(h) == h = [s \in SUBSET D |->
             IF s = {} THEN 0
             ELSE Slice(FirstOf(s)) * slabs[FirstOf(s)].rate + h[s \ {FirstOf(s)}]]
           Known(h) == h = [s \in SUBSET D |->
             IF s = {} THEN 0 ELSE f[FirstOf(s)] + h[s \ {FirstOf(s)}]]
<1>0. PICK n \in Nat : D = 1..n
  BY DEF TaxWhole
<1>a. \A i \in D : slabs[i].rate \in Int /\ (slabs[i].upTo # None => slabs[i].upTo \in Int)
  BY DEF TaxWhole
<1>b. Tax!SlabTax(amount, "NEW") = (CHOOSE h : Table(h))[D]
  BY DEF Tax!SlabTax, Tax!MapThenSumSet, Tax!MapThenFoldSet, FirstOf
<1>c. OnSlab(amount) = f
  BY DEF OnSlab
<1>1. \A i \in D : Tax!Ceiling(slabs, i, amount) \in Int /\ Tax!Ceiling(slabs, i - 1, amount) \in Int
  <2> HIDE DEF slabs
  <2>1. ASSUME NEW i \in Int, i = 0 \/ i \in D PROVE Tax!Ceiling(slabs, i, amount) \in Int
    BY <1>a, <2>1 DEF Tax!Ceiling, Tax!AtMost
  <2>2. \A i \in D : i \in Int /\ i - 1 \in Int /\ (i - 1 = 0 \/ i - 1 \in D)
    BY <1>0
  <2>3. QED
    BY <2>1, <2>2
<1>d. D = DOMAIN Rules.slabs["NEW"]
  OBVIOUS
<1> HIDE DEF slabs
<1>2. \A i \in D : f[i] \in Int
  BY <1>1, <1>a
<1> HIDE DEF D, Slice
<1>4. SumFunctionOnSet(f, D) = (CHOOSE h : Known(h))[D]
  BY DEF SumFunctionOnSet, FoldFunctionOnSet, MapThenFoldSet, FirstOf
<1>5. ASSUME NEW h PROVE Table(h) <=> Known(h)
  BY FirstOfIn
<1> HIDE DEF Table, Known, f
<1>6. (CHOOSE h : Table(h)) = (CHOOSE h : Known(h))
  BY <1>5
<1>7. QED
  BY <1>2, <1>4, <1>6, <1>b, <1>c, <1>d

LEMMA SlabTaxWhole ==
  ASSUME TaxWhole, NEW amount \in Int
  PROVE  Tax!SlabTax(amount, "NEW") \in Int
<1>1. IsFiniteSet(DOMAIN Rules.slabs["NEW"])
  BY FS_Interval DEF TaxWhole
<1>2. QED
  BY <1>1, SlabTaxIsSum, SumInt

LEMMA GainsWhole ==
  ASSUME TaxWhole, NEW sales \in SUBSET Saleable, IsFiniteSet(sales), NEW kind
  PROVE  Tax!GainsOf(sales, kind) \in Int
<1> DEFINE D == {s \in Tax!Charged(sales) : Tax!Kind(s) = kind}
           f == [s \in D |-> s.gain]
           Table(h) == h = [s \in SUBSET D |->
             IF s = {} THEN 0 ELSE FirstOf(s).gain + h[s \ {FirstOf(s)}]]
           Known(h) == h = [s \in SUBSET D |->
             IF s = {} THEN 0 ELSE f[FirstOf(s)] + h[s \ {FirstOf(s)}]]
<1>1. IsFiniteSet(D) /\ D \subseteq Saleable
  <2>1. D \subseteq sales
    BY DEF Tax!Charged
  <2> HIDE DEF D
  <2>2. QED
    BY <2>1, FS_Subset
<1>2. Tax!GainsOf(sales, kind) = (CHOOSE h : Table(h))[D]
  BY DEF Tax!GainsOf, Tax!MapThenSumSet, Tax!MapThenFoldSet, FirstOf
<1> HIDE DEF D
<1>a. \A s \in D : f[s] \in Int
  BY <1>1 DEF TaxWhole
<1>3. SumFunctionOnSet(f, D) = (CHOOSE h : Known(h))[D]
  BY DEF SumFunctionOnSet, FoldFunctionOnSet, MapThenFoldSet, FirstOf
<1>4. ASSUME NEW h PROVE Table(h) <=> Known(h)
  BY FirstOfIn
<1> HIDE DEF Table, Known, f
<1>5. (CHOOSE h : Table(h)) = (CHOOSE h : Known(h))
  BY <1>4
<1>6. QED
  BY <1>1, <1>2, <1>3, <1>5, <1>a, SumInt

LEMMA GainsTaxWhole ==
  ASSUME TaxWhole, NEW sales \in SUBSET Saleable, IsFiniteSet(sales)
  PROVE  Tax!GainsTax(sales) \in Int /\ Tax!GainsOf(sales, "STCG") \in Int
<1>1. /\ Tax!GainsOf(sales, "LTCG") \in Int /\ Tax!GainsOf(sales, "STCG") \in Int
      /\ Tax!GainsOf(sales, "VDA_GAIN") \in Int
  BY GainsWhole
<1>2. /\ Rules.ltcg \in Int /\ Rules.stcg \in Int /\ Rules.vda \in Int /\ Rules.exemption \in Int
  BY DEF TaxWhole
<1>3. Tax!TaxableLtcg(sales) \in Int
  BY <1>1, <1>2 DEF Tax!TaxableLtcg, Tax!NotBelow, Tax!AtMost
<1>4. QED
  BY <1>1, <1>2, <1>3 DEF Tax!GainsTax

\* The band of an income above some threshold is the highest it exceeds.
LEMMA BandIsHighest ==
  ASSUME TaxWhole, NEW total, Tax!BandsOf(total) # {}
  PROVE  /\ Tax!BandOf(total) \in Tax!BandsOf(total)
         /\ \A b \in Tax!BandsOf(total) : b.above <= Tax!BandOf(total).above
         /\ Tax!BandOf(total).above \in Int /\ Tax!BandOf(total).rate \in Int
<1> DEFINE B == Tax!BandsOf(total)
           f == [b \in B |-> b.above]
<1>1. IsFiniteSet(B) /\ \A b \in B : b.above \in Int /\ b.rate \in Int
  BY FS_Subset DEF TaxWhole, Tax!BandsOf
<1> HIDE DEF B
<1>2. \A b \in B : f[b] \in Int /\ f[b] = b.above
  BY <1>1
<1>a. B # {}
  BY DEF B
<1>3. PICK top \in B : \A b \in B : f[b] <= f[top]
  <2> HIDE DEF f
  <2>1. QED
    BY <1>a, <1>1, <1>2, HighestExists
<1>4. \A b \in B : b.above <= top.above
  BY <1>2, <1>3
<1>5. Tax!BandOf(total) \in B /\ \A b \in B : b.above <= Tax!BandOf(total).above
  BY <1>4 DEF Tax!BandOf, B
<1>6. QED
  BY <1>1, <1>5 DEF B

(* The tax of a band: what slabs and gains make with the surcharge, but no *)
(* more than the ceiling over the threshold leaves, nor less than without. *)
Plain(base, gains) == 10 * (base + gains)
Full(base, gains, band) == Plain(base, gains) + Tax!Headline(base, gains, band)
Capped(base, excess) == 10 * Tax!NotBelow(0, base - excess * Rules.top) + 100 * excess
MostOf(base, gains, total) == Full(base, gains, Tax!BandOf(total))
CapOf(base, total) == Capped(base, total - Tax!BandOf(total).above)
WithSurcharge(base, gains, total) == Plain(base, gains) + Tax!Surcharge(base, gains, total)
LEMMA SurchargeOfBand ==
  ASSUME TaxWhole, NEW base \in Int, NEW gains \in Int, NEW total \in Int,
         Tax!BandsOf(total) # {}
  PROVE  /\ MostOf(base, gains, total) \in Int /\ CapOf(base, total) \in Int
         /\ Tax!Surcharge(base, gains, total) \in Int
         /\ Plain(base, gains) \in Int
         /\ Plain(base, gains) <= MostOf(base, gains, total) =>
              WithSurcharge(base, gains, total)
                = IF MostOf(base, gains, total) <= CapOf(base, total) THEN MostOf(base, gains, total)
                  ELSE IF Plain(base, gains) <= CapOf(base, total) THEN CapOf(base, total)
                  ELSE Plain(base, gains)
<1> DEFINE band == Tax!BandOf(total)
           full == MostOf(base, gains, total)
           capped == CapOf(base, total)
           whole == WithSurcharge(base, gains, total)
           excess == total - band.above
           headline == Tax!Headline(base, gains, band)
           plain == Plain(base, gains)
           relief == Tax!Relief(base, gains, excess, headline)
<1>1. band.above \in Int /\ band.rate \in Int /\ Rules.cap \in Int /\ Rules.top \in Int
  BY BandIsHighest DEF TaxWhole
<1>2. Tax!Surcharge(base, gains, total) = headline - relief
  BY DEF Tax!Surcharge
<1>3. full = plain + headline /\ capped = Capped(base, excess)
  BY DEF Full, MostOf, CapOf
<1>4. relief = IF full > capped THEN Tax!AtMost(headline, full - capped) ELSE 0
  BY <1>3 DEF Tax!Relief, Capped, Plain
<1>a. whole = plain + (headline - relief)
  BY <1>2 DEF WithSurcharge
<1> HIDE DEF full, capped, whole, band
<1>5. headline \in Int
  BY <1>1 DEF Tax!Headline, Tax!AtMost
<1>6. excess \in Int
  BY <1>1
<1>7. capped \in Int
  BY <1>1, <1>3, <1>6 DEF Capped, Tax!NotBelow
<1>8. plain \in Int
  BY DEF Plain
<1> HIDE DEF headline, plain, relief
<1>9. /\ full \in Int /\ headline - relief \in Int
      /\ plain <= full =>
           whole = IF full <= capped THEN full ELSE IF plain <= capped THEN capped ELSE plain
  BY <1>3, <1>4, <1>5, <1>7, <1>8, <1>a DEF Tax!AtMost
<1>10. QED
  BY <1>2, <1>7, <1>8, <1>9 DEF plain, full, capped, whole

LEMMA SurchargeWhole ==
  ASSUME TaxWhole, NEW base \in Int, NEW gains \in Int, NEW total \in Int
  PROVE  Tax!Surcharge(base, gains, total) \in Int
<1>1. CASE Tax!BandsOf(total) = {}
  BY <1>1 DEF Tax!Surcharge
<1>2. CASE Tax!BandsOf(total) # {}
  BY <1>2, SurchargeOfBand
<1>3. QED
  BY <1>1, <1>2

\* What a quarter requires is a whole amount.
LEMMA RequiredWhole ==
  ASSUME TaxWhole, TaxBooks, NEW y \in Years, NEW q \in Tax!Quarters
  PROVE  Tax!Required(y, q) \in Int
<1> DEFINE sales == Tax!SoldBy(y, q)
           income == Tax!Effective(y)
           base == Tax!BaseTax(income)
           gains == Tax!GainsTax(sales)
           total == Tax!TotalIncome(income, sales)
           extra == Tax!Surcharge(base, gains, total)
<1>1. sales \in SUBSET Saleable /\ IsFiniteSet(sales)
  BY FS_Subset DEF Tax!SoldBy, TaxBooks
<1>2. Tax!Taxable(income, "NEW") \in Int
  BY TaxableWhole
<1>3. base \in Int
  BY <1>2, SlabTaxWhole DEF Tax!BaseTax
<1>4. gains \in Int /\ Tax!GainsOf(sales, "STCG") \in Int
  BY <1>1, GainsTaxWhole
<1>5. total \in Int
  BY <1>2, <1>4 DEF Tax!TotalIncome
<1>6. extra \in Int
  <2> HIDE DEF base, gains, total
  <2>1. QED
    BY <1>3, <1>4, <1>5, SurchargeWhole
<1>7. Tax!Liability(y, q) = (10 * (base + gains) + extra) * (100 + Rules.cess)
  BY DEF Tax!Liability, Tax!BeforeCess
<1> HIDE DEF base, gains, extra
<1>8. Tax!Liability(y, q) \in Int
  <2>1. Rules.cess \in Int
    BY DEF TaxWhole
  <2>2. QED
    BY <1>3, <1>4, <1>6, <1>7, <2>1
<1>9. Tax!Share[q] \in Int
  BY DEF Tax!Share, Tax!Quarters
<1>10. QED
  BY <1>8, <1>9 DEF Tax!Required
---------------------------------------------------------------------------
\* What a set of payments comes to.
AmountsOf(S) == Tax!MapThenSumSet(LAMBDA p : p.amount, S)
LEMMA AmountsAdd ==
  ASSUME NEW S \in SUBSET Payable, IsFiniteSet(S), TaxWhole
  PROVE  /\ AmountsOf(S) \in Int
         /\ \A x \in Payable \ S : AmountsOf(S \cup {x}) = AmountsOf(S) + x.amount
<1> DEFINE amount == [x \in Payable |-> x.amount]
<1>1. ASSUME NEW T \in SUBSET Payable PROVE AmountsOf(T) = SumFunctionOnSet(amount, T)
  <2> DEFINE Table(h) == h = [s \in SUBSET T |->
               IF s = {} THEN 0 ELSE FirstOf(s).amount + h[s \ {FirstOf(s)}]]
             Known(h) == h = [s \in SUBSET T |->
               IF s = {} THEN 0 ELSE amount[FirstOf(s)] + h[s \ {FirstOf(s)}]]
  <2>1. AmountsOf(T) = (CHOOSE h : Table(h))[T]
    BY DEF AmountsOf, Tax!MapThenSumSet, Tax!MapThenFoldSet, FirstOf
  <2>2. SumFunctionOnSet(amount, T) = (CHOOSE h : Known(h))[T]
    BY DEF SumFunctionOnSet, FoldFunctionOnSet, MapThenFoldSet, FirstOf
  <2>3. ASSUME NEW h PROVE Table(h) <=> Known(h)
    BY FirstOfIn
  <2> HIDE DEF Table, Known, amount
  <2>4. (CHOOSE h : Table(h)) = (CHOOSE h : Known(h))
    BY <2>3
  <2>5. QED
    BY <2>1, <2>2, <2>4
<1>2. \A x \in Payable : amount[x] \in Int /\ amount[x] = x.amount
  BY DEF TaxWhole
<1> HIDE DEF amount
<1>3. AmountsOf(S) \in Int
  BY <1>1, <1>2, SumInt
<1>4. ASSUME NEW x \in Payable \ S
      PROVE  AmountsOf(S \cup {x}) = AmountsOf(S) + x.amount
  <2>1. SumFunctionOnSet(amount, S \cup {x}) = amount[x] + SumFunctionOnSet(amount, S)
    BY <1>2, SumAdd
  <2>2. AmountsOf(S \cup {x}) = SumFunctionOnSet(amount, S \cup {x})
    BY <1>1
  <2>3. AmountsOf(S) = SumFunctionOnSet(amount, S)
    BY <1>1
  <2>4. QED
    BY <1>2, <1>3, <2>1, <2>2, <2>3
<1>5. QED
  BY <1>3, <1>4

LEMMA WholeQuotient ==
  ASSUME NEW a \in Nat, NEW b \in Nat \ {0}
  PROVE  a \div b \in Nat /\ b * (a \div b) <= a /\ a < b * (a \div b) + b
OBVIOUS

\* Rounding half up is within half a unit.
HalfUp(due, scale, unit) == ((2 * due + scale * unit) \div (2 * scale * unit)) * unit
LEMMA RoundedHalfUp ==
  ASSUME NEW due \in Nat, NEW scale \in Nat \ {0}, NEW unit \in Nat \ {0}
  PROVE  /\ HalfUp(due, scale, unit) \in Nat
         /\ 2 * (scale * HalfUp(due, scale, unit) - due) \in -(scale * unit)..(scale * unit)
         /\ due = 0 => HalfUp(due, scale, unit) = 0
<1> DEFINE su == scale * unit
           k == (2 * due + su) \div (2 * su)
<1>1. su \in Nat \ {0} /\ 2 * scale * unit = 2 * su
  OBVIOUS
<1> HIDE DEF su
<1>2. k \in Nat /\ 2 * su * k <= 2 * due + su /\ 2 * due + su < 2 * su * k + 2 * su
  <2>1. 2 * due + su \in Nat /\ 2 * su \in Nat \ {0}
    BY <1>1
  <2>2. QED
    BY <2>1, WholeQuotient
<1>3. scale * (k * unit) = su * k
  <2> HIDE DEF k
  <2>1. QED
    BY <1>2 DEF su
<1>4. due = 0 => k = 0
  BY <1>1
<1> HIDE DEF k
<1>5. (2 * due + scale * unit) \div (2 * scale * unit) = k
  BY <1>1 DEF k, su
<1> DEFINE m == su * k
<1>6. m \in Nat /\ 2 * su * k = 2 * m
  BY <1>1, <1>2
<1>7. 2 * (m - due) <= su /\ -su <= 2 * (m - due) /\ 2 * (m - due) \in Int
  <2> HIDE DEF m
  <2>1. QED
    BY <1>1, <1>2, <1>6
<1>8. k * unit \in Nat /\ scale * (k * unit) = m
  BY <1>2, <1>3
<1> HIDE DEF m
<1>9. 2 * (scale * (k * unit) - due) \in -su..su
  BY <1>1, <1>7, <1>8
<1>10. HalfUp(due, scale, unit) = k * unit
  BY <1>5 DEF HalfUp
<1>11. QED
  BY <1>4, <1>8, <1>9, <1>10 DEF su

\* Paying what is asked, one payment.
LEMMA PaymentSettles ==
  ASSUME TaxWhole, TaxBooks, NEW p \in Payable \ payments, payments' = payments \cup {p},
         p.amount = Tax!Net(p.year, p.quarter)
  PROVE  2 * (Tax!Scale * (Tax!ProfileFor.withheld + Tax!InAll(p.year)')
                - Tax!Required(p.year, p.quarter))
           \in -(Tax!Scale * Rules.unit)..(Tax!Scale * Rules.unit)
<1> DEFINE y == p.year
           q == p.quarter
           S == {x \in payments : x.year = y}
           due == Tax!NotBelow(0, Tax!Outstanding(y, q))
           required == Tax!Required(y, q)
           withheld == Tax!ProfileFor.withheld
           before == AmountsOf(S)
           net == Tax!Net(y, q)
           scale == Tax!Scale
           unit == Rules.unit
<1>1. y \in Years /\ q \in Tax!Quarters /\ p.amount \in Nat \ {0} /\ unit \in Nat \ {0}
  BY DEF TaxWhole
<1>2. required \in Int /\ withheld \in Int
  BY <1>1, RequiredWhole, TaxableWhole
<1>3. S \in SUBSET Payable /\ IsFiniteSet(S) /\ p \in Payable \ S
  BY FS_Subset DEF TaxBooks
<1>4. before \in Int /\ AmountsOf(S \cup {p}) = before + p.amount
  <2> HIDE DEF S
  <2>1. QED
    BY <1>3, AmountsAdd
<1>5. Tax!InAll(y)' = AmountsOf(S \cup {p})
  <2>1. Tax!InAll(y)' = AmountsOf({x \in payments' : x.year = y})
    BY DEF Tax!InAll, AmountsOf, Tax!MapThenSumSet, Tax!MapThenFoldSet
  <2>2. {x \in payments' : x.year = y} = S \cup {p}
    OBVIOUS
  <2>3. QED
    BY <2>1, <2>2, Zenon
<1>6. Tax!Outstanding(y, q) = required - scale * (withheld + before)
  BY DEF Tax!Outstanding, Tax!Paid, Tax!Credited, AmountsOf
<1>7. scale = 200000
  BY DEF Tax!Scale
<1>8. net = HalfUp(due, scale, unit)
  BY DEF Tax!Net, HalfUp
<1>9. p.amount = net
  OBVIOUS
<1> HIDE DEF S, required, withheld, before, net, scale, unit
<1>10. due \in Nat /\ (due # 0 => due = required - scale * (withheld + before))
  <2>1. required - scale * (withheld + before) \in Int
    BY <1>2, <1>4, <1>7
  <2>2. QED
    BY <1>6, <2>1 DEF Tax!NotBelow
<1> HIDE DEF due
<1>11. /\ net \in Nat /\ 2 * (scale * net - due) \in -(scale * unit)..(scale * unit)
       /\ due = 0 => net = 0
  <2>1. scale \in Nat \ {0} /\ due \in Nat
    BY <1>7, <1>10
  <2>2. QED
    BY <1>1, <1>8, <2>1, RoundedHalfUp
<1>12. due = required - scale * (withheld + before)
  BY <1>1, <1>9, <1>10, <1>11
<1>13. scale * net - due = scale * (withheld + (before + net)) - required
  BY <1>2, <1>4, <1>7, <1>11, <1>12
<1>14. Tax!InAll(y)' = before + net
  BY <1>4, <1>5, <1>9
<1>15. QED
  BY <1>11, <1>13, <1>14 DEF required, withheld, scale, unit
---------------------------------------------------------------------------
(* Slabs ascend, no slab takes more than the top rate, and the top rate    *)
(* with the surcharge of a band is no more than the whole.                 *)
RatesProgressive ==
  /\ Rules.top \in 0..10 /\ Rules.cap >= 0
  /\ \A i \in DOMAIN Rules.slabs["NEW"] :
       /\ Rules.slabs["NEW"][i].rate \in 0..Rules.top
       /\ Rules.slabs["NEW"][i].upTo # None => Rules.slabs["NEW"][i].upTo >= 0
       /\ i # 1 =>
            /\ Rules.slabs["NEW"][i - 1].upTo # None
            /\ Rules.slabs["NEW"][i].upTo # None =>
                 Rules.slabs["NEW"][i - 1].upTo <= Rules.slabs["NEW"][i].upTo
  /\ \A b \in Rules.bands : b.rate >= 0 /\ (10 + b.rate) * Rules.top <= 100
  /\ \A r \in Receivable : r.amount >= 0

\* More income leaves no slab with less, and a slab takes no more than it got.
LEMMA SlicesGrow ==
  ASSUME TaxWhole, RatesProgressive, NEW a \in Nat, NEW b \in Nat, a <= b,
         NEW i \in DOMAIN Rules.slabs["NEW"]
  PROVE  LET before == Tax!Ceiling(Rules.slabs["NEW"], i, a)
             under == Tax!Ceiling(Rules.slabs["NEW"], i - 1, a)
             after == Tax!Ceiling(Rules.slabs["NEW"], i, b)
             over == Tax!Ceiling(Rules.slabs["NEW"], i - 1, b)
         IN  /\ before \in Int /\ under \in Int /\ after \in Int /\ over \in Int
             /\ before - under >= 0 /\ after - over >= before - under
             /\ after - before <= b - a /\ after >= before
<1> DEFINE slabs == Rules.slabs["NEW"]
<1>1. PICK n \in Nat : DOMAIN slabs = 1..n
  BY DEF TaxWhole
<1>2. /\ slabs[i].upTo # None => slabs[i].upTo \in Nat
      /\ i # 1 => /\ i - 1 \in DOMAIN slabs /\ slabs[i - 1].upTo \in Nat
                  /\ slabs[i - 1].upTo # None
                  /\ slabs[i].upTo # None => slabs[i - 1].upTo <= slabs[i].upTo
      /\ i \in Nat \ {0}
  <2>1. i \in 1..n /\ i \in DOMAIN slabs
    BY <1>1
  <2>2. i # 1 => i - 1 \in DOMAIN slabs
    BY <1>1, <2>1
  <2>3. \A j \in DOMAIN slabs : slabs[j].upTo # None => slabs[j].upTo \in Int /\ slabs[j].upTo >= 0
    BY DEF TaxWhole, RatesProgressive
  <2>4. i # 1 => /\ slabs[i - 1].upTo # None
                 /\ slabs[i].upTo # None => slabs[i - 1].upTo <= slabs[i].upTo
    BY DEF RatesProgressive
  <2> HIDE DEF slabs
  <2>5. QED
    BY <2>1, <2>2, <2>3, <2>4
<1> HIDE DEF slabs
<1>3. ASSUME NEW x \in Nat
      PROVE  /\ Tax!Ceiling(slabs, i, x)
                  = IF slabs[i].upTo = None THEN x
                    ELSE IF x <= slabs[i].upTo THEN x ELSE slabs[i].upTo
             /\ Tax!Ceiling(slabs, i - 1, x)
                  = IF i = 1 THEN 0 ELSE IF x <= slabs[i - 1].upTo THEN x ELSE slabs[i - 1].upTo
  BY <1>2 DEF Tax!Ceiling, Tax!AtMost
<1>4. /\ Tax!Ceiling(slabs, i, a) \in Int /\ Tax!Ceiling(slabs, i - 1, a) \in Int
      /\ Tax!Ceiling(slabs, i, b) \in Int /\ Tax!Ceiling(slabs, i - 1, b) \in Int
      /\ Tax!Ceiling(slabs, i, a) - Tax!Ceiling(slabs, i - 1, a) >= 0
      /\ Tax!Ceiling(slabs, i, b) - Tax!Ceiling(slabs, i - 1, b)
           >= Tax!Ceiling(slabs, i, a) - Tax!Ceiling(slabs, i - 1, a)
      /\ Tax!Ceiling(slabs, i, b) - Tax!Ceiling(slabs, i, a) <= b - a
      /\ Tax!Ceiling(slabs, i, b) >= Tax!Ceiling(slabs, i, a)
  BY <1>2, <1>3
<1>5. QED
  BY <1>4 DEF slabs

\* A sum over a finite range takes its last member apart.
LEMMA SumUpTo ==
  ASSUME NEW f, NEW n \in Nat, \A i \in 1..n : f[i] \in Int, NEW k \in 1..n
  PROVE  /\ SumFunctionOnSet(f, 1..k) \in Int /\ SumFunctionOnSet(f, 1..(k - 1)) \in Int
         /\ SumFunctionOnSet(f, 1..k) = f[k] + SumFunctionOnSet(f, 1..(k - 1))
<1>1. IsFiniteSet(1..k) /\ IsFiniteSet(1..(k - 1))
  BY FS_Interval
<1>2. (1..k) \ {k} = 1..(k - 1)
  OBVIOUS
<1>3. (\A i \in 1..k : f[i] \in Int) /\ (\A i \in 1..(k - 1) : f[i] \in Int) /\ k \in 1..k
  OBVIOUS
<1>4. SumFunctionOnSet(f, 1..k) \in Int /\ SumFunctionOnSet(f, 1..(k - 1)) \in Int
  BY <1>1, <1>3, SumInt
<1>5. SumFunctionOnSet(f, 1..k) = f[k] + SumFunctionOnSet(f, (1..k) \ {k})
  BY <1>1, <1>3, SumRemove
<1>6. QED
  BY <1>2, <1>4, <1>5

(* The slabs tax no income negatively, and of an income added at most the  *)
(* top rate, at least nothing.                                             *)
LEMMA SlabTaxGrows ==
  ASSUME TaxWhole, RatesProgressive, NEW a \in Nat, NEW b \in Nat, a <= b
  PROVE  /\ Tax!SlabTax(a, "NEW") \in Nat /\ Tax!SlabTax(b, "NEW") \in Nat
         /\ Tax!SlabTax(a, "NEW") <= Tax!SlabTax(b, "NEW")
         /\ Tax!SlabTax(b, "NEW") - Tax!SlabTax(a, "NEW") <= Rules.top * (b - a)
<1> DEFINE slabs == Rules.slabs["NEW"]
           D == DOMAIN slabs
           top == Rules.top
           f == OnSlab(a)
           g == OnSlab(b)
           C(i, x) == Tax!Ceiling(slabs, i, x)
           F(k) == SumFunctionOnSet(f, 1..k)
           G(k) == SumFunctionOnSet(g, 1..k)
           P(k) == /\ F(k) <= G(k) /\ G(k) - F(k) <= top * (C(k, b) - C(k, a))
                   /\ C(k, b) \in Int /\ C(k, a) \in Int /\ C(k, b) - C(k, a) <= b - a
                   /\ F(k) \in Nat /\ G(k) \in Int
<1>1. PICK n \in Nat : D = 1..n
  BY DEF TaxWhole
<1>2. \A i \in D : f[i] \in Int /\ g[i] \in Int
  BY SlabTaxIsSum
<1>3. Tax!SlabTax(a, "NEW") = F(n) /\ Tax!SlabTax(b, "NEW") = G(n)
  BY <1>1, SlabTaxIsSum
<1>4. top \in 0..10 /\ \A i \in D : slabs[i].rate \in 0..top
  BY DEF RatesProgressive
<1>5. \A i \in D : /\ f[i] = (C(i, a) - C(i - 1, a)) * slabs[i].rate
                   /\ g[i] = (C(i, b) - C(i - 1, b)) * slabs[i].rate
  BY DEF OnSlab
<1>6. \A i \in D : /\ C(i, a) \in Int /\ C(i - 1, a) \in Int
                   /\ C(i, b) \in Int /\ C(i - 1, b) \in Int
                   /\ C(i, a) - C(i - 1, a) >= 0
                   /\ C(i, b) - C(i - 1, b) >= C(i, a) - C(i - 1, a)
                   /\ C(i, b) - C(i, a) <= b - a /\ C(i, b) >= C(i, a)
  BY SlicesGrow
<1>7. P(0)
  <2>1. 1..0 = {}
    OBVIOUS
  <2>2. F(0) = 0 /\ G(0) = 0
    BY <2>1, SumEmpty
  <2>3. C(0, a) = 0 /\ C(0, b) = 0
    BY DEF Tax!Ceiling
  <2> HIDE DEF F, G, C
  <2>4. top * (C(0, b) - C(0, a)) = 0
    BY <1>4, <2>3
  <2>5. QED
    BY <2>2, <2>3, <2>4
<1> HIDE DEF slabs, f, g, C, D, top
<1>8. ASSUME NEW k \in 1..n, P(k - 1)
      PROVE  P(k)
  <2>1. k \in D
    BY <1>1
  <2>2. /\ F(k) \in Int /\ F(k - 1) \in Int /\ F(k) = f[k] + F(k - 1)
    BY <1>1, <1>2, SumUpTo
  <2>3. /\ G(k) \in Int /\ G(k - 1) \in Int /\ G(k) = g[k] + G(k - 1)
    BY <1>1, <1>2, SumUpTo
  <2> DEFINE rate == slabs[k].rate
             was == C(k, a) - C(k - 1, a)
             is == C(k, b) - C(k - 1, b)
             low == C(k - 1, b) - C(k - 1, a)
             high == C(k, b) - C(k, a)
  <2>4. was \in Nat /\ is \in Nat /\ was <= is /\ rate \in 0..top /\ top \in Nat
    BY <1>4, <1>6, <2>1
  <2>5. f[k] = was * rate /\ g[k] = is * rate
    BY <1>5, <2>1
  <2>6. high = low + (is - was) /\ low \in Int /\ high \in Int /\ high <= b - a
    BY <1>6, <2>1
  <2>7. F(k - 1) <= G(k - 1) /\ G(k - 1) - F(k - 1) <= top * low /\ F(k - 1) \in Nat
    BY <1>8
  <2>8. C(k, b) \in Int /\ C(k, a) \in Int
    BY <1>6, <2>1
  <2> HIDE DEF F, G, rate, was, is, low, high
  <2>9. /\ was * rate \in Nat /\ is * rate \in Nat /\ was * rate <= is * rate
        /\ is * rate - was * rate <= top * (is - was)
    <3>1. (is - was) * rate <= (is - was) * top
      BY <2>4
    <3>2. is * rate - was * rate = (is - was) * rate /\ (is - was) * rate \in Nat
      BY <2>4
    <3>3. was * rate \in Nat /\ is * rate \in Nat
      BY <2>4
    <3>4. (is - was) * top = top * (is - was)
      BY <2>4
    <3>5. QED
      BY <3>1, <3>2, <3>3, <3>4
  <2>10. top * high = top * low + top * (is - was)
    BY <2>4, <2>6
  <2>a. top * low \in Int /\ top * (is - was) \in Int
    BY <2>4, <2>6
  <2>11. F(k) \in Nat /\ F(k) <= G(k)
    BY <2>2, <2>3, <2>5, <2>7, <2>9
  <2>12. G(k) - F(k) <= top * high
    BY <2>2, <2>3, <2>5, <2>7, <2>9, <2>10, <2>a
  <2>13. QED
    BY <2>3, <2>6, <2>8, <2>11, <2>12 DEF high
<1> DEFINE bad == {k \in 0..n : ~P(k)}
<1>9. bad = {}
  <2> SUFFICES ASSUME bad # {} PROVE FALSE
    OBVIOUS
  <2>0. \A k \in bad : k \in 0..n /\ ~P(k)
    OBVIOUS
  <2>a. \A k \in 0..n : k \notin bad => P(k)
    OBVIOUS
  <2> HIDE DEF bad, P
  <2>1. PICK k \in bad : \A j \in bad : k <= j
    <3>1. bad \in SUBSET Int /\ bad # {} /\ \A j \in bad : 0 <= j
      BY <2>0
    <3>2. \E k \in bad : \A j \in bad : k <= j
      BY <3>1, FirstDayExists
    <3>3. QED
      BY <3>2
  <2>2. k \in 1..n
    BY <1>7, <2>0, <2>1
  <2>3. k - 1 \in 0..n /\ k - 1 \notin bad
    BY <2>1, <2>2
  <2>4. QED
    BY <1>8, <2>0, <2>1, <2>2, <2>3, <2>a
<1>10. P(n)
  <2> HIDE DEF P
  <2>1. QED
    BY <1>9
<1>11. /\ F(n) \in Nat /\ G(n) \in Int /\ F(n) <= G(n)
       /\ G(n) - F(n) <= top * (C(n, b) - C(n, a)) /\ C(n, b) - C(n, a) <= b - a
       /\ C(n, b) \in Int /\ C(n, a) \in Int
  BY <1>10
<1> HIDE DEF F, G
<1>12. top * (C(n, b) - C(n, a)) <= top * (b - a)
  <2> DEFINE e == C(n, b) - C(n, a)
  <2>1. e \in Int /\ e <= b - a /\ top \in Nat
    BY <1>4, <1>11
  <2> HIDE DEF e
  <2>2. top * e <= top * (b - a)
    BY <2>1
  <2>3. QED
    BY <2>2 DEF e
<1>13. top * (C(n, b) - C(n, a)) \in Int /\ top * (b - a) \in Int
  BY <1>4, <1>11
<1>14. QED
  BY <1>3, <1>11, <1>12, <1>13 DEF top

\* A share of a whole is no more than the whole.
LEMMA ShareOf ==
  ASSUME NEW share \in Nat, share <= 10, NEW amount \in Nat
  PROVE  share * amount \in Nat /\ share * amount <= 10 * amount
OBVIOUS

LEMMA Scaled ==
  ASSUME NEW factor \in Nat, NEW a \in Int, NEW b \in Int, a <= b
  PROVE  factor * a <= factor * b /\ factor * a \in Int /\ factor * b \in Int
OBVIOUS

(* In one band of surcharge more income costs no less, and no more than    *)
(* it is.                                                                  *)
FullAt(base, gains, rate, share) == 10 * (base + gains) + (base * rate + gains * share)
CappedAt(base, excess, top) == 10 * Tax!NotBelow(0, base - excess * top) + 100 * excess
Bounded(rate, top) == (10 + rate) * top <= 100
Slope(was, is, excess, later, top) ==
  excess <= later /\ was <= is /\ is - was <= top * (later - excess)
Gentle(was, is, excess, later) ==
  was \in Int /\ is \in Int /\ was <= is /\ is <= was + 100 * (later - excess)
LEMMA WithinBand ==
  ASSUME NEW top \in 0..10, NEW rate \in Nat, NEW gains \in Nat, NEW share \in Nat,
         Bounded(rate, top),
         NEW was \in Nat, NEW is \in Nat, NEW excess \in Int, NEW later \in Int,
         Slope(was, is, excess, later, top)
  PROVE  /\ Gentle(FullAt(was, gains, rate, share), FullAt(is, gains, rate, share), excess, later)
         /\ Gentle(CappedAt(was, excess, top), CappedAt(is, later, top), excess, later)
<1> DEFINE more == later - excess
           wasFull == FullAt(was, gains, rate, share)
           isFull == FullAt(is, gains, rate, share)
           wasCapped == CappedAt(was, excess, top)
           isCapped == CappedAt(is, later, top)
<1>x. /\ later = excess + more /\ more \in Nat /\ is - was <= top * more /\ was <= is
      /\ (10 + rate) * top <= 100
      /\ wasFull = 10 * (was + gains) + (was * rate + gains * share)
      /\ isFull = 10 * (is + gains) + (is * rate + gains * share)
      /\ wasCapped = 10 * Tax!NotBelow(0, was - excess * top) + 100 * excess
      /\ isCapped = 10 * Tax!NotBelow(0, is - later * top) + 100 * later
  BY DEF FullAt, CappedAt, Bounded, Slope
<1> HIDE DEF more, wasFull, isFull, wasCapped, isCapped
<1> DEFINE rise == is - was
           wr == was * rate
           ir == is * rate
           gs == gains * share
           tm == top * more
           te == excess * top
<1>0. top \in Nat /\ top <= 10
  OBVIOUS
<1>1. rise \in Nat /\ rise <= tm
  BY <1>x
<1>2. tm \in Nat /\ tm <= 10 * more /\ more \in Nat
  BY <1>0, <1>x, ShareOf
<1>3. wr \in Nat /\ ir \in Nat /\ gs \in Nat /\ ir - wr = rise * rate /\ ir - wr \in Nat
  <2>1. gs \in Nat /\ wr \in Nat /\ ir \in Nat
    OBVIOUS
  <2>2. ir - wr = rise * rate
    OBVIOUS
  <2>3. rise * rate \in Nat
    <3> HIDE DEF rise
    <3>1. QED
      BY <1>1
  <2> HIDE DEF gs, wr, ir
  <2>4. QED
    BY <2>1, <2>2, <2>3
<1>4. (10 + rate) * rise <= 100 * more
  <2>1. (10 + rate) * rise <= (10 + rate) * tm
    <3> HIDE DEF rise, tm
    <3>1. QED
      BY <1>1, <1>2, Scaled
  <2>2. (10 + rate) * tm = ((10 + rate) * top) * more
    BY <1>0, <1>x
  <2>3. ((10 + rate) * top) * more <= 100 * more
    <3> DEFINE both == (10 + rate) * top
    <3>1. both \in Int /\ both <= 100
      BY <1>0, <1>x
    <3> HIDE DEF both
    <3>2. more * both <= more * 100
      BY <1>x, <3>1, Scaled
    <3>3. QED
      BY <1>x, <3>1, <3>2
  <2>4. (10 + rate) * rise \in Int /\ (10 + rate) * tm \in Int
    <3> HIDE DEF rise, tm
    <3>1. QED
      BY <1>1, <1>2
  <2> HIDE DEF rise, tm
  <2>5. QED
    BY <1>x, <2>1, <2>2, <2>3, <2>4
<1>5. (10 + rate) * rise = 10 * rise + rise * rate /\ rise * rate \in Int
  <2> HIDE DEF rise
  <2>1. QED
    BY <1>1
<1>6. later * top = te + tm /\ te \in Int
  BY <1>0, <1>x
<1> DEFINE rr == rise * rate
           full == 10 * (was + gains) + (wr + gs)
           grown == 10 * (is + gains) + (ir + gs)
<1>7. wasFull = full /\ isFull = grown
  BY <1>x
<1> HIDE DEF wr, ir, gs
<1>8. is = was + rise
  OBVIOUS
<1> HIDE DEF rise, tm, te
<1>a. ir - wr = rr /\ rr \in Nat /\ 10 * rise + rr <= 100 * more
  BY <1>3, <1>4, <1>5
<1> HIDE DEF rr
<1>9. /\ full \in Int /\ grown \in Int
      /\ full <= grown /\ grown <= full + 100 * more
  BY <1>1, <1>2, <1>3, <1>8, <1>a
<1> HIDE DEF full, grown
<1>10. /\ wasCapped = 10 * Tax!NotBelow(0, was - te) + 100 * excess
       /\ isCapped = 10 * Tax!NotBelow(0, is - (te + tm)) + 100 * (excess + more)
  BY <1>6, <1>x DEF te
<1>11. /\ wasCapped \in Int /\ isCapped \in Int
       /\ wasCapped <= isCapped /\ isCapped <= wasCapped + 100 * more
  BY <1>1, <1>2, <1>6, <1>8, <1>10 DEF Tax!NotBelow
<1>12. QED
  BY <1>7, <1>9, <1>11 DEF more, wasFull, isFull, wasCapped, isCapped, Gentle

\* Entering a band costs no more than the income that entered it.
LEMMA IntoBand ==
  ASSUME NEW top \in 0..10, NEW gains \in Nat,
         NEW was \in Nat, NEW is \in Nat, NEW more \in Nat, NEW excess \in Nat, excess <= more,
         was <= is, is - was <= top * more
  PROVE  10 * Tax!NotBelow(0, is - excess * top) + 100 * excess
           <= 10 * (was + gains) + 100 * more
<1> DEFINE tm == top * more
           te == excess * top
           rest == more - excess
           tr == top * rest
<1>1. tm \in Int /\ te \in Int /\ tr = tm - te
  OBVIOUS
<1>2. rest \in Nat /\ tr <= 10 * rest /\ tr \in Nat
  <2>1. rest \in Nat /\ top \in Nat /\ top <= 10
    OBVIOUS
  <2> HIDE DEF rest
  <2>2. QED
    BY <2>1, ShareOf
<1>3. is - was <= tm /\ rest = more - excess
  OBVIOUS
<1> HIDE DEF tm, te, rest, tr
<1>4. 10 * Tax!NotBelow(0, is - te) + 100 * excess <= 10 * (was + gains) + 100 * more
  BY <1>1, <1>2, <1>3 DEF Tax!NotBelow
<1>5. QED
  BY <1>4 DEF te
---------------------------------------------------------------------------
(* Receipts and the tax on them.                                           *)
TaxOn(taxable, gains, short) ==
  WithSurcharge(Tax!SlabTax(taxable, "NEW"), gains, taxable + short)

\* A surcharge is not negative before its relief.
LEMMA HeadlineAdds ==
  ASSUME NEW base \in Nat, NEW gains \in Nat, NEW rate \in Nat, NEW share \in Nat
  PROVE  base * rate + gains * share \in Nat
<1>1. base * rate \in Nat /\ gains * share \in Nat
  OBVIOUS
<1>2. QED
  BY <1>1

LEMMA FullAbove ==
  ASSUME TaxWhole, RatesProgressive, NEW base \in Nat, NEW gains \in Nat, NEW band \in Rules.bands
  PROVE  /\ band.rate \in Nat /\ Tax!AtMost(band.rate, Rules.cap) \in Nat
         /\ (10 + band.rate) * Rules.top <= 100
         /\ Full(base, gains, band) \in Int /\ Plain(base, gains) <= Full(base, gains, band)
<1> DEFINE share == Tax!AtMost(band.rate, Rules.cap)
<1>1. /\ band.rate \in Nat /\ share \in Nat
      /\ (10 + band.rate) * Rules.top <= 100
  BY DEF TaxWhole, RatesProgressive, Tax!AtMost
<1>2. Tax!Headline(base, gains, band) = base * band.rate + gains * share
  BY DEF Tax!Headline
<1> HIDE DEF share
<1>3. base * band.rate + gains * share \in Nat
  BY <1>1, HeadlineAdds
<1>4. Full(base, gains, band) \in Int /\ Plain(base, gains) <= Full(base, gains, band)
  BY <1>2, <1>3 DEF Full, Plain
<1>5. QED
  BY <1>1, <1>4 DEF share

\* The tax in a band, of an income that is no loss.
LEMMA BandTax ==
  ASSUME TaxWhole, RatesProgressive, NEW base \in Nat, NEW gains \in Nat, NEW total \in Int,
         Tax!BandsOf(total) # {}
  PROVE  /\ MostOf(base, gains, total) \in Int /\ CapOf(base, total) \in Int
         /\ Tax!Surcharge(base, gains, total) \in Int
         /\ Plain(base, gains) \in Int /\ Plain(base, gains) <= MostOf(base, gains, total)
         /\ WithSurcharge(base, gains, total)
              = IF MostOf(base, gains, total) <= CapOf(base, total) THEN MostOf(base, gains, total)
                ELSE IF Plain(base, gains) <= CapOf(base, total) THEN CapOf(base, total)
                ELSE Plain(base, gains)
<1>1. Tax!BandOf(total) \in Rules.bands
  BY BandIsHighest DEF Tax!BandsOf
<1>2. Plain(base, gains) <= MostOf(base, gains, total)
  BY <1>1, FullAbove DEF MostOf
<1>3. base \in Int /\ gains \in Int
  OBVIOUS
<1>4. QED
  BY <1>2, <1>3, SurchargeOfBand

LEMMA SurchargeAdds ==
  ASSUME TaxWhole, RatesProgressive, NEW base \in Nat, NEW gains \in Nat, NEW total \in Int
  PROVE  /\ Plain(base, gains) \in Int /\ WithSurcharge(base, gains, total) \in Int
         /\ Plain(base, gains) <= WithSurcharge(base, gains, total)
         /\ Tax!BandsOf(total) = {} => WithSurcharge(base, gains, total) = Plain(base, gains)
<1>1. Plain(base, gains) \in Int
  BY DEF Plain
<1>2. CASE Tax!BandsOf(total) = {}
  <2>1. Tax!Surcharge(base, gains, total) = 0
    BY <1>2 DEF Tax!Surcharge
  <2>2. QED
    BY <1>1, <2>1 DEF WithSurcharge
<1>3. CASE Tax!BandsOf(total) # {}
  BY <1>3, BandTax
<1>4. QED
  BY <1>2, <1>3

\* A step of income moves what is taxed without surcharge gently.
LEMMA PlainGentle ==
  ASSUME TaxWhole, RatesProgressive, NEW was \in Nat, NEW is \in Nat, NEW gains \in Nat,
         NEW old \in Int, NEW new \in Int, Slope(was, is, old, new, Rules.top)
  PROVE  Gentle(Plain(was, gains), Plain(is, gains), old, new)
<1> DEFINE more == new - old
           part == Rules.top * more
<1>1. more \in Nat /\ is - was <= part /\ was <= is
  BY DEF Slope
<1>2. part \in Nat /\ part <= 10 * more
  <2>1. Rules.top \in Nat /\ Rules.top <= 10
    BY DEF RatesProgressive
  <2> HIDE DEF more
  <2>2. QED
    BY <1>1, <2>1, ShareOf
<1> HIDE DEF part
<1>3. QED
  BY <1>1, <1>2 DEF Gentle, Plain

\* Of two steps of the same height, the capped one is as gentle.
LEMMA LesserGentle ==
  ASSUME NEW old, NEW new, NEW p, NEW q, NEW f, NEW g, NEW c, NEW d,
         old \in Int, new \in Int, p <= f, q <= g,
         Gentle(p, q, old, new), Gentle(f, g, old, new), Gentle(c, d, old, new)
  PROVE  Gentle(IF f <= c THEN f ELSE IF p <= c THEN c ELSE p,
                IF g <= d THEN g ELSE IF q <= d THEN d ELSE q, old, new)
BY DEF Gentle

\* More income in the same band.
LEMMA SameBand ==
  ASSUME TaxWhole, RatesProgressive, NEW was \in Nat, NEW is \in Nat, NEW gains \in Nat,
         NEW old \in Int, NEW new \in Int, Slope(was, is, old, new, Rules.top),
         Tax!BandsOf(old) # {}, Tax!BandsOf(new) = Tax!BandsOf(old)
  PROVE  Gentle(WithSurcharge(was, gains, old), WithSurcharge(is, gains, new), old, new)
<1> DEFINE band == Tax!BandOf(new)
           rate == band.rate
           share == Tax!AtMost(rate, Rules.cap)
           low == old - band.above
           high == new - band.above
<1>1. band \in Rules.bands /\ band.above \in Int /\ Tax!BandsOf(new) # {}
  BY BandIsHighest DEF Tax!BandsOf
<1>2. band = Tax!BandOf(old)
  BY DEF Tax!BandOf
<1>3. rate \in Nat /\ share \in Nat /\ Bounded(rate, Rules.top)
  BY <1>1, FullAbove DEF Bounded
<1>4. low \in Int /\ high \in Int /\ high - low = new - old
  BY <1>1
<1>5. /\ MostOf(was, gains, old) = FullAt(was, gains, rate, share)
      /\ MostOf(is, gains, new) = FullAt(is, gains, rate, share)
      /\ CapOf(was, old) = CappedAt(was, low, Rules.top)
      /\ CapOf(is, new) = CappedAt(is, high, Rules.top)
  BY <1>2 DEF MostOf, CapOf, Full, Plain, Capped, Tax!Headline, FullAt, CappedAt
<1>6. Slope(was, is, low, high, Rules.top)
  <2> HIDE DEF band
  <2>1. (low <= high <=> old <= new) /\ high - low = new - old
    BY <1>1
  <2> HIDE DEF low, high
  <2>2. QED
    BY <2>1 DEF Slope
<1>7. \A x, y : Gentle(x, y, low, high) <=> Gentle(x, y, old, new)
  BY <1>4 DEF Gentle
<1> HIDE DEF low, high, share, rate, band
<1>8. /\ Gentle(FullAt(was, gains, rate, share), FullAt(is, gains, rate, share), low, high)
      /\ Gentle(CappedAt(was, low, Rules.top), CappedAt(is, high, Rules.top), low, high)
  <2>1. Rules.top \in 0..10
    BY DEF RatesProgressive
  <2>2. QED
    BY <1>3, <1>4, <1>6, <2>1, WithinBand
<1>9. /\ Gentle(MostOf(was, gains, old), MostOf(is, gains, new), old, new)
      /\ Gentle(CapOf(was, old), CapOf(is, new), old, new)
  BY <1>5, <1>7, <1>8
<1>10. Gentle(Plain(was, gains), Plain(is, gains), old, new)
  BY PlainGentle
<1>11. /\ Plain(was, gains) <= MostOf(was, gains, old)
       /\ WithSurcharge(was, gains, old)
            = IF MostOf(was, gains, old) <= CapOf(was, old) THEN MostOf(was, gains, old)
              ELSE IF Plain(was, gains) <= CapOf(was, old) THEN CapOf(was, old)
              ELSE Plain(was, gains)
  BY BandTax
<1>12. /\ Plain(is, gains) <= MostOf(is, gains, new)
       /\ WithSurcharge(is, gains, new)
            = IF MostOf(is, gains, new) <= CapOf(is, new) THEN MostOf(is, gains, new)
              ELSE IF Plain(is, gains) <= CapOf(is, new) THEN CapOf(is, new)
              ELSE Plain(is, gains)
  BY <1>1, BandTax
<1>13. QED
  BY <1>9, <1>10, <1>11, <1>12, LesserGentle

\* More income that enters a higher band.
LEMMA HigherBand ==
  ASSUME TaxWhole, RatesProgressive, NEW was \in Nat, NEW is \in Nat, NEW gains \in Nat,
         NEW old \in Int, NEW new \in Int, Slope(was, is, old, new, Rules.top),
         Tax!BandsOf(new) # {}, Tax!BandsOf(new) # Tax!BandsOf(old)
  PROVE  WithSurcharge(is, gains, new) <= WithSurcharge(was, gains, old) + 100 * (new - old)
<1> DEFINE band == Tax!BandOf(new)
           above == band.above
           excess == new - above
           more == new - old
<1>0. \A c \in Rules.bands : c.above \in Int
  BY DEF TaxWhole
<1>1. /\ above \in Int /\ new > above
      /\ \A c \in Rules.bands : new > c.above => c.above <= above
  BY BandIsHighest DEF Tax!BandsOf
<1>2. CapOf(is, new) = 10 * Tax!NotBelow(0, is - excess * Rules.top) + 100 * excess
  BY DEF CapOf, Capped
<1> HIDE DEF above
<1>3. old <= new
  BY DEF Slope
<1>4. old <= above
  <2> SUFFICES ASSUME old > above PROVE FALSE
    BY <1>1
  <2>1. \A c \in Rules.bands : new > c.above <=> old > c.above
    BY <1>0, <1>1, <1>3
  <2>2. QED
    BY <2>1 DEF Tax!BandsOf
<1>5. excess \in Nat /\ excess <= more /\ more \in Nat
  BY <1>1, <1>3, <1>4
<1>6. CapOf(is, new) \in Int /\ CapOf(is, new) <= Plain(was, gains) + 100 * more
  <2>1. was <= is /\ is - was <= Rules.top * more /\ Rules.top \in 0..10
    BY DEF Slope, RatesProgressive
  <2> HIDE DEF excess, more
  <2>2. 10 * Tax!NotBelow(0, is - excess * Rules.top) + 100 * excess
          <= 10 * (was + gains) + 100 * more
    BY <1>5, <2>1, IntoBand
  <2>3. CapOf(is, new) \in Int
    BY BandTax
  <2>4. QED
    BY <1>2, <2>2, <2>3 DEF Plain
<1>7. /\ Plain(is, gains) <= MostOf(is, gains, new) /\ MostOf(is, gains, new) \in Int
      /\ WithSurcharge(is, gains, new)
           = IF MostOf(is, gains, new) <= CapOf(is, new) THEN MostOf(is, gains, new)
             ELSE IF Plain(is, gains) <= CapOf(is, new) THEN CapOf(is, new)
             ELSE Plain(is, gains)
  BY BandTax
<1>8. /\ Plain(is, gains) \in Int /\ Plain(was, gains) \in Int
      /\ Plain(is, gains) <= Plain(was, gains) + 100 * more
  BY PlainGentle DEF Gentle
<1>9. WithSurcharge(was, gains, old) \in Int /\ Plain(was, gains) <= WithSurcharge(was, gains, old)
  BY SurchargeAdds
<1>10. WithSurcharge(is, gains, new) <= WithSurcharge(was, gains, old) + 100 * more
  BY <1>5, <1>6, <1>7, <1>8, <1>9
<1>11. QED
  BY <1>10

(* More income costs no more than it is, and less than nothing only where  *)
(* it enters a higher band.                                                *)
LEMMA ReceiptCosts ==
  ASSUME TaxWhole, RatesProgressive, NEW a \in Nat, NEW b \in Nat, a <= b,
         NEW gains \in Nat, NEW short \in Int
  PROVE  /\ TaxOn(a, gains, short) \in Int /\ TaxOn(b, gains, short) \in Int
         /\ TaxOn(b, gains, short) <= TaxOn(a, gains, short) + 100 * (b - a)
         /\ \/ TaxOn(a, gains, short) <= TaxOn(b, gains, short)
            \/ Tax!BandsOf(b + short) # Tax!BandsOf(a + short)
<1> DEFINE was == Tax!SlabTax(a, "NEW")
           is == Tax!SlabTax(b, "NEW")
           old == a + short
           new == b + short
           before == WithSurcharge(was, gains, old)
           after == WithSurcharge(is, gains, new)
<1>1. /\ was \in Nat /\ is \in Nat /\ was <= is /\ is - was <= Rules.top * (b - a)
  BY SlabTaxGrows
<1>2. old \in Int /\ new \in Int /\ old <= new /\ new - old = b - a
  OBVIOUS
<1>3. before = TaxOn(a, gains, short) /\ after = TaxOn(b, gains, short)
  BY DEF TaxOn
<1> HIDE DEF was, is, old, new
<1>4. Slope(was, is, old, new, Rules.top)
  BY <1>1, <1>2 DEF Slope
<1>5. before \in Int /\ after \in Int
  BY <1>1, <1>2, SurchargeAdds
<1>6. CASE Tax!BandsOf(new) = {}
  <2>1. Tax!BandsOf(old) = {}
    BY <1>2, <1>6 DEF Tax!BandsOf, TaxWhole
  <2>2. before = Plain(was, gains) /\ after = Plain(is, gains)
    BY <1>1, <1>2, <1>6, <2>1, SurchargeAdds
  <2>3. Gentle(Plain(was, gains), Plain(is, gains), old, new)
    BY <1>1, <1>2, <1>4, PlainGentle
  <2>4. before <= after /\ after <= before + 100 * (b - a)
    BY <1>2, <2>2, <2>3 DEF Gentle
  <2>5. QED
    BY <1>3, <1>5, <2>4
<1>7. CASE Tax!BandsOf(new) # {} /\ Tax!BandsOf(new) = Tax!BandsOf(old)
  <2>1. Gentle(before, after, old, new)
    BY <1>1, <1>2, <1>4, <1>7, SameBand
  <2>2. before <= after /\ after <= before + 100 * (b - a)
    BY <1>2, <2>1 DEF Gentle
  <2>3. QED
    BY <1>3, <1>5, <2>2
<1>8. CASE Tax!BandsOf(new) # {} /\ Tax!BandsOf(new) # Tax!BandsOf(old)
  <2>1. after <= before + 100 * (new - old)
    BY <1>1, <1>2, <1>4, <1>8, HigherBand
  <2>2. after <= before + 100 * (b - a)
    BY <1>2, <2>1
  <2>3. QED
    BY <1>3, <1>5, <1>8, <2>2 DEF new, old
<1>9. QED
  BY <1>6, <1>7, <1>8

\* Something added to the other income of a year.
LEMMA OtherIncomeCosts ==
  ASSUME TaxWhole, RatesProgressive, NEW income \in Wholes, NEW d \in Nat,
         NEW more, more = [income EXCEPT !.other = @ + d],
         NEW sales \in SUBSET Saleable, IsFiniteSet(sales), Tax!GainsTax(sales) >= 0
  PROVE  /\ Tax!BeforeCess(more, sales) - Tax!BeforeCess(income, sales) <= 100 * d
         /\ \/ Tax!BeforeCess(more, sales) - Tax!BeforeCess(income, sales) >= 0
            \/ Tax!BandsOf(Tax!TotalIncome(more, sales))
                 # Tax!BandsOf(Tax!TotalIncome(income, sales))
<1> DEFINE a == Tax!Taxable(income, "NEW")
           b == Tax!Taxable(more, "NEW")
           gains == Tax!GainsTax(sales)
           short == Tax!GainsOf(sales, "STCG")
           before == Tax!BeforeCess(income, sales)
           after == Tax!BeforeCess(more, sales)
<1>1. a \in Nat /\ b \in Nat /\ a <= b /\ b - a <= d
  <2> DEFINE rest == income.salary + income.other - income.exempt - Rules.standard["NEW"]
  <2>1. rest \in Int /\ Rules.standard["NEW"] \in Int
    BY DEF TaxWhole, Wholes
  <2>2. ASSUME NEW r \in Wholes
        PROVE  Tax!Taxable(r, "NEW")
                 = Tax!NotBelow(0, r.salary + r.other - r.exempt - Rules.standard["NEW"])
    <3>1. r.salary \in Int /\ r.other \in Int /\ r.exempt \in Int
      BY DEF Wholes
    <3>2. "NEW" # "OLD"
      OBVIOUS
    <3>3. QED
      BY <2>1, <3>1, <3>2 DEF Tax!Taxable, Tax!NotBelow
  <2>3. a = Tax!NotBelow(0, rest) /\ b = Tax!NotBelow(0, rest + d)
    <3>1. /\ more.salary = income.salary /\ more.exempt = income.exempt
          /\ more.other = income.other + d /\ more \in Wholes
      BY DEF Wholes
    <3>2. /\ income.salary \in Int /\ income.other \in Int /\ income.exempt \in Int
      BY DEF Wholes
    <3>3. more.salary + more.other - more.exempt - Rules.standard["NEW"] = rest + d
      BY <2>1, <3>1, <3>2
    <3> HIDE DEF rest
    <3>4. a = Tax!NotBelow(0, rest)
      BY <2>2 DEF rest
    <3>5. b = Tax!NotBelow(0, rest + d)
      BY <2>2, <3>1, <3>3
    <3>6. QED
      BY <3>4, <3>5
  <2> HIDE DEF a, b, rest
  <2>4. QED
    BY <2>1, <2>2, <2>3 DEF Tax!NotBelow
<1>2. gains \in Nat /\ short \in Int
  <2>1. gains \in Int /\ short \in Int
    BY GainsTaxWhole
  <2>2. gains >= 0
    OBVIOUS
  <2> HIDE DEF gains, short
  <2>3. QED
    BY <2>1, <2>2
<1>3. before = TaxOn(a, gains, short) /\ after = TaxOn(b, gains, short)
  BY DEF Tax!BeforeCess, Tax!BaseTax, Tax!TotalIncome, TaxOn, WithSurcharge, Plain
<1>4. Tax!TotalIncome(income, sales) = a + short /\ Tax!TotalIncome(more, sales) = b + short
  BY DEF Tax!TotalIncome
<1> HIDE DEF a, b, gains, short, before, after
<1>5. /\ TaxOn(a, gains, short) \in Int /\ TaxOn(b, gains, short) \in Int
      /\ TaxOn(b, gains, short) <= TaxOn(a, gains, short) + 100 * (b - a)
      /\ \/ TaxOn(a, gains, short) <= TaxOn(b, gains, short)
         \/ Tax!BandsOf(b + short) # Tax!BandsOf(a + short)
  BY <1>1, <1>2, ReceiptCosts
<1>6. after - before <= 100 * d
  BY <1>1, <1>3, <1>5
<1>7. after - before >= 0 \/ Tax!BandsOf(b + short) # Tax!BandsOf(a + short)
  BY <1>3, <1>5
<1>8. QED
  BY <1>4, <1>6, <1>7 DEF before, after

\* What receipts add up to.
ReceiptSum(stored, D) == Tax!MapThenSumSet(LAMBDA id : stored[id].amount, D)
Amounts(stored, D) == [id \in D |-> stored[id].amount]
LEMMA ReceiptSumIs ==
  ASSUME NEW stored, NEW D, IsFiniteSet(D)
  PROVE  ReceiptSum(stored, D) = SumFunctionOnSet(Amounts(stored, D), D)
<1> DEFINE f == Amounts(stored, D)
           Table(h) == h = [s \in SUBSET D |->
             IF s = {} THEN 0 ELSE stored[FirstOf(s)].amount + h[s \ {FirstOf(s)}]]
           Known(h) == h = [s \in SUBSET D |->
             IF s = {} THEN 0 ELSE f[FirstOf(s)] + h[s \ {FirstOf(s)}]]
<1>1. ReceiptSum(stored, D) = (CHOOSE h : Table(h))[D]
  BY DEF ReceiptSum, Tax!MapThenSumSet, Tax!MapThenFoldSet, FirstOf
<1>2. SumFunctionOnSet(f, D) = (CHOOSE h : Known(h))[D]
  BY DEF SumFunctionOnSet, FoldFunctionOnSet, MapThenFoldSet, FirstOf
<1>3. ASSUME NEW h PROVE Table(h) <=> Known(h)
  BY FirstOfIn DEF Amounts
<1> HIDE DEF Table, Known, f
<1>4. (CHOOSE h : Table(h)) = (CHOOSE h : Known(h))
  BY <1>3
<1>5. QED
  BY <1>1, <1>2, <1>4 DEF f

LEMMA ReceiptSums ==
  ASSUME NEW stored, NEW D, IsFiniteSet(D), NEW x, x \notin D,
         \A id \in D \cup {x} : stored[id].amount \in Int
  PROVE  /\ ReceiptSum(stored, D \cup {x}) = stored[x].amount + ReceiptSum(stored, D)
         /\ ReceiptSum(stored, D) \in Int
<1> DEFINE E == D \cup {x}
           f == Amounts(stored, E)
           g == Amounts(stored, D)
<1>1. IsFiniteSet(E)
  BY FS_AddElement
<1>2. /\ \A id \in E : f[id] = stored[id].amount
      /\ \A id \in D : g[id] = stored[id].amount
  BY DEF Amounts
<1> HIDE DEF f, g
<1>3. SumFunctionOnSet(f, E) = f[x] + SumFunctionOnSet(f, D)
  BY <1>2, SumAdd
<1>4. SumFunctionOnSet(f, D) = SumFunctionOnSet(g, D)
  BY <1>2, SumSame
<1>5. SumFunctionOnSet(g, D) \in Int
  BY <1>2, SumInt
<1>6. ReceiptSum(stored, E) = SumFunctionOnSet(f, E) /\ ReceiptSum(stored, D) = SumFunctionOnSet(g, D)
  BY <1>1, ReceiptSumIs DEF f, g
<1>7. f[x] = stored[x].amount
  BY <1>2
<1>8. QED
  BY <1>3, <1>4, <1>5, <1>6, <1>7

LEMMA ReceiptSumSame ==
  ASSUME NEW old, NEW new, NEW D, IsFiniteSet(D), \A id \in D : old[id] = new[id]
  PROVE  ReceiptSum(old, D) = ReceiptSum(new, D)
<1>1. \A id \in D : Amounts(old, D)[id] = Amounts(new, D)[id]
  BY DEF Amounts
<1>2. SumFunctionOnSet(Amounts(old, D), D) = SumFunctionOnSet(Amounts(new, D), D)
  BY <1>1, SumSame
<1>3. QED
  BY <1>2, ReceiptSumIs

LEMMA NoReceipts == ReceiptSum(receipts', {}) = 0
<1>1. IsFiniteSet({})
  BY FS_EmptySet
<1>2. QED
  BY <1>1, ReceiptSumIs, SumEmpty

\* What accrued hangs on the inclusions.
AccruedUnder(switched, y) ==
  Tax!MapThenSumSet(LAMBDA a : Tax!During(a, y),
                    {a \in Accruals : /\ a.kind # "pf"
                                      /\ a.kind \in Tax!Positions => a.kind \in switched})

\* A receipt adds what it is to its own year, and nothing else moves.
LEMMA ReceiptIsDerived ==
  ASSUME TaxWhole, RatesProgressive, TaxBooks, [Tax!TaxNext]_(Tax!taxvars), Tax!Fresh # {},
         NEW y \in Years
  PROVE  /\ Tax!FreshIn(y) \in Nat
         /\ Tax!Derived(y)' = Tax!Derived(y) + Tax!FreshIn(y)
         /\ profile' = profile
<1>1. PICK r \in Receivable : Tax!Receive(r)
  BY DEF Tax!TaxNext, Tax!taxvars, Tax!Sell, Tax!Undo, Tax!Pay, Tax!Unpay, Tax!SaveProfile,
       Tax!Include, Tax!Session, Tax!Restart, Tax!Fresh
<1> DEFINE new == Tax!NextId
           D == Tax!Received(y)
           F == {id \in Tax!Fresh : receipts'[id].year = y}
<1>2. /\ receipts' = [id \in DOMAIN receipts \cup {new} |-> IF id = new THEN r ELSE receipts[id]]
      /\ new \notin DOMAIN receipts
      /\ inclusions' = inclusions /\ profile' = profile
  BY <1>1 DEF Tax!Receive, Tax!Fresh
<1>3. /\ r.amount \in Nat
      /\ \A id \in DOMAIN receipts : receipts[id].amount \in Int
      /\ IsFiniteSet(DOMAIN receipts)
  BY DEF TaxWhole, RatesProgressive, TaxBooks
<1>4. D \subseteq DOMAIN receipts /\ IsFiniteSet(D)
  <2>1. D \subseteq DOMAIN receipts
    BY DEF Tax!Received
  <2> HIDE DEF D
  <2>2. QED
    BY <1>3, <2>1, FS_Subset
<1> HIDE DEF new
<1>5. /\ new \notin D
      /\ \A id \in D : receipts'[id] = receipts[id]
      /\ receipts'[new] = r /\ DOMAIN receipts' = DOMAIN receipts \cup {new}
      /\ \A id \in D \cup {new} : receipts'[id].amount \in Int
  BY <1>2, <1>3, <1>4
<1>6. Tax!Derived(y) = AccruedUnder(inclusions, y) + ReceiptSum(receipts, D)
  BY DEF Tax!Derived, Tax!Accrued, AccruedUnder, ReceiptSum
<1>7. Tax!Derived(y)' = AccruedUnder(inclusions', y) + ReceiptSum(receipts', D')
  BY DEF Tax!Derived, Tax!Accrued, AccruedUnder, ReceiptSum, Tax!MapThenSumSet,
       Tax!MapThenFoldSet, Tax!During, Tax!NotBelow, Tax!Positions
<1>8. Tax!FreshIn(y) = ReceiptSum(receipts', F)
  BY DEF Tax!FreshIn, ReceiptSum
<1>9. ReceiptSum(receipts', D) = ReceiptSum(receipts, D) /\ ReceiptSum(receipts, D) \in Int
  <2>1. ReceiptSum(receipts', D) = ReceiptSum(receipts, D)
    <3> HIDE DEF D
    <3>1. QED
      BY <1>4, <1>5, ReceiptSumSame
  <2>2. ReceiptSum(receipts', D) \in Int
    <3> HIDE DEF D
    <3>1. QED
      BY <1>4, <1>5, ReceiptSums
  <2>3. QED
    BY <2>1, <2>2
<1>10. AccruedUnder(inclusions, y) \in Int
  <2>1. AccruedUnder(inclusions, y) = Tax!Accrued(y)
    BY DEF AccruedUnder, Tax!Accrued
  <2>2. QED
    BY <2>1, AccruedWhole
<1>11. F = IF r.year = y THEN {new} ELSE {}
  BY <1>2, <1>5 DEF Tax!Fresh
<1>12. D' = IF r.year = y THEN D \cup {new} ELSE D
  BY <1>2, <1>5 DEF Tax!Received
<1>13. CASE r.year = y
  <2>1. ReceiptSum(receipts', D') = r.amount + ReceiptSum(receipts', D)
    <3>1. D' = D \cup {new}
      BY <1>12, <1>13
    <3> HIDE DEF D
    <3>2. ReceiptSum(receipts', D \cup {new}) = r.amount + ReceiptSum(receipts', D)
      BY <1>4, <1>5, ReceiptSums
    <3>3. ReceiptSum(receipts', D') = ReceiptSum(receipts', D \cup {new})
      BY <3>1, Zenon
    <3>4. QED
      BY <3>2, <3>3
  <2>2. ReceiptSum(receipts', F) = r.amount
    <3>1. F = {} \cup {new}
      BY <1>11, <1>13
    <3>2. ReceiptSum(receipts', {} \cup {new}) = r.amount + ReceiptSum(receipts', {})
      <4>1. IsFiniteSet({}) /\ new \notin {} /\ \A id \in {} \cup {new} : receipts'[id].amount \in Int
        BY <1>5, FS_EmptySet
      <4>2. ReceiptSum(receipts', {} \cup {new}) = receipts'[new].amount + ReceiptSum(receipts', {})
        BY <4>1, ReceiptSums
      <4>3. QED
        BY <1>5, <4>2
    <3>3. ReceiptSum(receipts', F) = ReceiptSum(receipts', {} \cup {new})
      BY <3>1, Zenon
    <3>4. QED
      BY <1>3, <3>2, <3>3, NoReceipts
  <2> HIDE DEF D, F
  <2>3. QED
    BY <1>2, <1>3, <1>6, <1>7, <1>8, <1>9, <1>10, <2>1, <2>2
<1>14. CASE r.year # y
  <2>1. ReceiptSum(receipts', D') = ReceiptSum(receipts', D)
    BY <1>12, <1>14, Zenon
  <2>2. ReceiptSum(receipts', F) = 0
    <3>1. F = {}
      BY <1>11, <1>14
    <3>2. ReceiptSum(receipts', F) = ReceiptSum(receipts', {})
      BY <3>1, Zenon
    <3>3. QED
      BY <3>2, NoReceipts
  <2> HIDE DEF D, F
  <2>3. QED
    BY <1>2, <1>6, <1>7, <1>8, <1>9, <1>10, <2>1, <2>2
<1>15. QED
  BY <1>13, <1>14
---------------------------------------------------------------------------
\* Only the tax side moves its books.
OnTax == side = "tax"
LEMMA TaxSide ==
  /\ RegistersInit => Tax!TaxInit
  /\ OnTax /\ [RegistersNext]_registervars => OnTax' /\ [Tax!TaxNext]_(Tax!taxvars)
  /\ ~OnTax /\ [RegistersNext]_registervars => (~OnTax)' /\ UNCHANGED taxvars
<1>1. RegistersInit => Tax!TaxInit
  BY DEF RegistersInit
<1>2. OnTax /\ [RegistersNext]_registervars => OnTax' /\ [Tax!TaxNext]_(Tax!taxvars)
  BY DEF RegistersNext, registervars, vars, taxvars, Tax!taxvars, OnTax
<1>3. ~OnTax /\ [RegistersNext]_registervars => (~OnTax)' /\ UNCHANGED taxvars
  BY DEF RegistersNext, registervars, OnTax
<1>4. QED
  BY <1>1, <1>2, <1>3

(* Paying the instalment demanded settles the year so far, whichever       *)
(* quarters were skipped, part paid or overpaid and whatever was withheld  *)
(* (advance-tax.ts, AdvanceTaxUC.record).                                  *)
THEOREM PaymentsSettle == TaxWhole /\ RegistersSpec => PayingSettles
<1> DEFINE inv == OnTax => TaxBooks
           step == \A p \in payments' \ payments :
                     p.amount = Tax!Net(p.year, p.quarter) =>
                       2 * (Tax!Scale * (Tax!ProfileFor.withheld + Tax!InAll(p.year)')
                              - Tax!Required(p.year, p.quarter))
                         \in -(Tax!Scale * Rules.unit)..(Tax!Scale * Rules.unit)
<1>1. ASSUME TaxWhole
      PROVE  RegistersSpec => PayingSettles
  <2>1. RegistersInit => inv
    <3>1. Tax!TaxInit => TaxBooks
      BY FS_EmptySet DEF TaxBooks, Tax!TaxInit
    <3>2. QED
      BY <3>1, TaxSide
  <2>2. inv /\ [RegistersNext]_registervars => inv'
    BY <1>1, TaxSide, TaxBooksInductive
  <2>3. inv /\ [RegistersNext]_registervars => [step]_(Tax!taxvars)
    <3> SUFFICES ASSUME inv, [RegistersNext]_registervars, NEW p \in payments' \ payments,
                        p.amount = Tax!Net(p.year, p.quarter)
                 PROVE  2 * (Tax!Scale * (Tax!ProfileFor.withheld + Tax!InAll(p.year)')
                               - Tax!Required(p.year, p.quarter))
                          \in -(Tax!Scale * Rules.unit)..(Tax!Scale * Rules.unit)
      OBVIOUS
    <3>1. OnTax /\ TaxBooks /\ [Tax!TaxNext]_(Tax!taxvars)
      BY TaxSide DEF taxvars
    <3>2. PICK x \in Payable : Tax!Pay(x)
      BY <3>1 DEF Tax!TaxNext, Tax!taxvars, Tax!Receive, Tax!Sell, Tax!Undo, Tax!Unpay,
           Tax!SaveProfile, Tax!Include, Tax!Session, Tax!Restart
    <3>3. x = p /\ p \in Payable \ payments /\ payments' = payments \cup {p}
      BY <3>2 DEF Tax!Pay
    <3>4. QED
      BY <1>1, <3>1, <3>3, PaymentSettles
  <2> HIDE DEF inv, step
  <2>4. RegistersSpec => [][step]_(Tax!taxvars)
    BY <2>1, <2>2, <2>3, PTL DEF RegistersSpec
  <2>5. QED
    BY <2>4 DEF PayingSettles, Tax!PayingSettles, step
<1>2. QED
  BY <1>1

\* Other income added twice is added together.
RaisedBy(p, d) == [p EXCEPT !.other = @ + d]
LEMMA OtherAdds ==
  ASSUME NEW p \in Wholes, NEW d \in Int, NEW e \in Int
  PROVE  RaisedBy(p, d) \in Wholes /\ RaisedBy(p, d + e) = RaisedBy(RaisedBy(p, d), e)
<1>1. p.other \in Int /\ p.other + (d + e) = (p.other + d) + e
  BY DEF Wholes
<1>2. ASSUME NEW r \in Wholes, NEW x \in Int
      PROVE  [r EXCEPT !.other = x]
               = [salary |-> r.salary, exempt |-> r.exempt, deductions |-> r.deductions,
                  other |-> x, withheld |-> r.withheld]
  BY DEF Wholes
<1>3. ASSUME NEW r \in Wholes, NEW x \in Int
      PROVE  [r EXCEPT !.other = x] \in Wholes /\ [r EXCEPT !.other = x].other = x
  BY DEF Wholes
<1> DEFINE t == [p EXCEPT !.other = p.other + d]
<1>4. t \in Wholes /\ t.other = p.other + d /\ t.salary = p.salary /\ t.exempt = p.exempt
      /\ t.deductions = p.deductions /\ t.withheld = p.withheld
  BY <1>1 DEF Wholes
<1>5. [t EXCEPT !.other = t.other + e] = [p EXCEPT !.other = p.other + (d + e)]
  <2> HIDE DEF t
  <2>1. t.other + e = p.other + (d + e) /\ t.other + e \in Int
    BY <1>1, <1>4
  <2>2. QED
    BY <1>2, <1>4, <2>1
<1>6. QED
  BY <1>4, <1>5 DEF RaisedBy

(* A receipt moves the tax of its own year only, by at most its amount,    *)
(* and lowers it only by entering a higher band of surcharge: for all      *)
(* slabs that ascend and bands that leave something of a rupee             *)
(* (IncomeUC.record, computeAdvanceTax, the surcharge with its relief).    *)
THEOREM ReceiptsCostNoMoreThanTheyAre ==
  TaxWhole /\ RatesProgressive /\ RegistersSpec => ReceiptMovesTax
<1> DEFINE inv == OnTax => TaxBooks
<1>1. ASSUME TaxWhole, RatesProgressive
      PROVE  RegistersSpec => ReceiptMovesTax
  <2>1. RegistersInit => inv
    <3>1. Tax!TaxInit => TaxBooks
      BY FS_EmptySet DEF TaxBooks, Tax!TaxInit
    <3>2. QED
      BY <3>1, TaxSide
  <2>2. inv /\ [RegistersNext]_registervars => inv'
    BY <1>1, TaxSide, TaxBooksInductive
  <2>3. inv /\ [RegistersNext]_registervars => [Tax!ReceiptCost]_(Tax!taxvars)
    <3> SUFFICES ASSUME inv, [RegistersNext]_registervars, ~(UNCHANGED Tax!taxvars),
                        Tax!Fresh # {},
                        NEW y \in Years, NEW q \in Tax!Quarters,
                        Tax!GainsTax(Tax!SoldBy(y, q)) >= 0
                 PROVE  /\ Tax!BeforeCess(Tax!Effective(y)', Tax!SoldBy(y, q))
                             - Tax!BeforeCess(Tax!Effective(y), Tax!SoldBy(y, q))
                             <= 100 * Tax!FreshIn(y)
                        /\ \/ Tax!BeforeCess(Tax!Effective(y)', Tax!SoldBy(y, q))
                                - Tax!BeforeCess(Tax!Effective(y), Tax!SoldBy(y, q)) >= 0
                           \/ Tax!BandsOf(Tax!TotalIncome(Tax!Effective(y)', Tax!SoldBy(y, q)))
                                # Tax!BandsOf(Tax!TotalIncome(Tax!Effective(y), Tax!SoldBy(y, q)))
      BY Zenon DEF Tax!ReceiptCost
    <3> DEFINE income == Tax!Effective(y)
               d == Tax!FreshIn(y)
               more == [income EXCEPT !.other = @ + d]
               sales == Tax!SoldBy(y, q)
    <3>1. OnTax /\ TaxBooks /\ [Tax!TaxNext]_(Tax!taxvars)
      BY TaxSide DEF taxvars, Tax!taxvars
    <3>2. d \in Nat /\ Tax!Derived(y)' = Tax!Derived(y) + d /\ profile' = profile
      BY <1>1, <3>1, ReceiptIsDerived
    <3>3. Tax!ProfileFor \in Wholes /\ Tax!Derived(y) \in Int
      BY <1>1, <3>1, DerivedWhole DEF Tax!ProfileFor, Tax!Zero, TaxBooks, Wholes
    <3>4. income = RaisedBy(Tax!ProfileFor, Tax!Derived(y))
      BY DEF Tax!Effective, RaisedBy
    <3>5. Tax!Effective(y)' = RaisedBy(Tax!ProfileFor, Tax!Derived(y)')
      BY <3>2 DEF Tax!Effective, Tax!ProfileFor, RaisedBy
    <3> HIDE DEF income, d
    <3>6. income \in Wholes /\ Tax!Effective(y)' = more
      <4> DEFINE p == Tax!ProfileFor
                 e == Tax!Derived(y)
      <4>1. p \in Wholes /\ e \in Int /\ d \in Int
        BY <3>2, <3>3
      <4>2. Tax!Effective(y)' = RaisedBy(p, e + d) /\ income = RaisedBy(p, e)
        BY <3>2, <3>4, <3>5
      <4> HIDE DEF p, e
      <4>3. income \in Wholes /\ RaisedBy(p, e + d) = RaisedBy(income, d)
        BY <4>1, <4>2, OtherAdds
      <4>4. QED
        BY <4>2, <4>3 DEF RaisedBy
    <3>7. sales \in SUBSET Saleable /\ IsFiniteSet(sales)
      <4>1. sales \subseteq exits
        BY DEF Tax!SoldBy
      <4> HIDE DEF sales
      <4>2. QED
        BY <3>1, <4>1, FS_Subset DEF TaxBooks
    <3> HIDE DEF sales, more
    <3>8. Tax!GainsTax(sales) >= 0
      BY DEF sales
    <3>9. /\ Tax!BeforeCess(more, sales) - Tax!BeforeCess(income, sales) <= 100 * d
          /\ \/ Tax!BeforeCess(more, sales) - Tax!BeforeCess(income, sales) >= 0
             \/ Tax!BandsOf(Tax!TotalIncome(more, sales))
                  # Tax!BandsOf(Tax!TotalIncome(income, sales))
      <4>1. more = [income EXCEPT !.other = @ + d]
        BY DEF more
      <4>2. QED
        BY <1>1, <3>2, <3>6, <3>7, <3>8, <4>1, OtherIncomeCosts
    <3>10. QED
      BY <3>6, <3>9 DEF income, d, sales
  <2> HIDE DEF inv
  <2>4. RegistersSpec => [][Tax!ReceiptCost]_(Tax!taxvars)
    BY <2>1, <2>2, <2>3, PTL DEF RegistersSpec
  <2>5. QED
    BY <2>4 DEF ReceiptMovesTax, Tax!ReceiptMovesTax
<1>2. QED
  BY <1>1
=============================================================================
