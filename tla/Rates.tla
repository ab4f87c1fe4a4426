------------------------------- MODULE Rates -------------------------------
(***************************************************************************)
(* Exchange rates: the archive import and the rate typed in by hand        *)
(* (RatesUC), the write-once store (RateRepository), the walk back over    *)
(* days without a rate (resolveWithFallback, rule115BasisDate) and the     *)
(* rupee figures stamped on lots and disposals when a statement is         *)
(* imported (stampForeignRates, rule115Legs).                              *)
(*                                                                         *)
(* Abstractions: one foreign currency; one source, since nothing writes a  *)
(* rate of the other three; a rate is a whole number; one unit is sold per *)
(* allocation; the lot of a vest is named by its day.  An operation is one *)
(* transaction; a refused one changes nothing and is no step.              *)
(***************************************************************************)
EXTENDS Integers, FiniteSets, FiniteSetsExt, Functions

CONSTANTS
  Archives,   \* the archive files: sets of cards [day, at, rate], 0 for no rate
  Typed,      \* the rates typed in: sets <<day, rate>>
  Sales,      \* the disposals a statement brings
  Plausible,  \* the rates within the plausible band
  MonthDays,  \* the days of a month
  Lookback,   \* how far a day may borrow its rate
  Comparable, \* how far apart two cards are still compared
  MaxMove,    \* the largest credible move between them, in percent
  None        \* no rate, not converted

VARIABLES
  rates,      \* the stored rates by day
  mode,       \* the vault: locked, unlocked, or unlocked in edit mode
  lots,       \* the rates stamped on the lots, by the day of the vest
  exits       \* the figures stamped on the disposals

ratevars == <<rates, mode, lots, exits>>
---------------------------------------------------------------------------
Unlocked == mode # "locked"
Editing == mode = "editing"
Absolute(n) == IF n < 0 THEN -n ELSE n

(* Reading an archive.  A day may carry several cards; a card without a    *)
(* rate is passed over; one out of the band, or a move that looks like a   *)
(* slipped decimal point, refuses the whole file.                          *)
Quoted(file) == {c \in file : c.rate # 0}
CardOf(file, day, policy) ==
  CHOOSE c \in Quoted(file) :
    /\ c.day = day
    /\ \A other \in Quoted(file) : other.day = day =>
         IF policy = "FIRST" THEN c.at <= other.at ELSE c.at >= other.at
Parsed(file, policy) ==
  [day \in {c.day : c \in Quoted(file)} |-> CardOf(file, day, policy).rate]
Slipped(old, new) == Absolute(new - old) * 100 > MaxMove * old
Credible(sheet) ==
  \A d, e \in DOMAIN sheet :
    d < e /\ e - d <= Comparable /\ (\A between \in DOMAIN sheet : between <= d \/ between >= e)
      => ~Slipped(sheet[d], sheet[e])
Readable(file, policy) ==
  /\ Quoted(file) # {}
  /\ \A c \in Quoted(file) : c.rate \in Plausible
  /\ Credible(Parsed(file, policy))

(* A stored rate is never overwritten, and a sheet that conflicts with one *)
(* is refused whole.                                                       *)
Agrees(sheet) == \A d \in DOMAIN sheet \cap DOMAIN rates : sheet[d] = rates[d]
PutAll(sheet) ==
  /\ Agrees(sheet)
  /\ rates' = [d \in DOMAIN rates \cup DOMAIN sheet |->
                 IF d \in DOMAIN sheet THEN sheet[d] ELSE rates[d]]
  /\ UNCHANGED <<mode, lots, exits>>

ImportArchive(file, policy) ==
  /\ Editing
  /\ Readable(file, policy)
  /\ PutAll(Parsed(file, policy))
\* By hand there is no band and no comparison.
Record(day, rate) ==
  /\ Editing
  /\ PutAll([d \in {day} |-> rate])
---------------------------------------------------------------------------
(* Resolution: the latest day on or before the one asked for, within the   *)
(* lookback; for tax, asked for the last day of the month before.          *)
Near(day) == {d \in DOMAIN rates : d <= day /\ day - d <= Lookback}
Resolved(day) == IF Near(day) = {} THEN None ELSE rates[Max(Near(day))]
Basis(day) == ((day - 1) \div MonthDays) * MonthDays
RatesFor(day) ==
  IF Resolved(day) = None \/ Resolved(Basis(day)) = None THEN None
  ELSE [valuation |-> Resolved(day), tax |-> Resolved(Basis(day))]

(* rule115Legs: each leg at the rate for its own date; a gain that came    *)
(* without lots is converted whole, at the sale's.                         *)
\* Fault: the whole sale at one rate.
CostAtSale(x) == MapThenSumSet(LAMBDA a : a.cost * RatesFor(x.sold).tax, x.slices)
Cost(x) == MapThenSumSet(LAMBDA a : a.cost * RatesFor(a.acquired).tax, x.slices)
Proceeds(x) == Cardinality(x.slices) * x.price * RatesFor(x.sold).tax
Legs(x) ==
  IF RatesFor(x.sold) = None \/ \E a \in x.slices : RatesFor(a.acquired) = None THEN None
  ELSE IF x.slices = {} THEN x.gain * RatesFor(x.sold).tax
  ELSE Proceeds(x) - Cost(x)

(* Every lot not yet stamped is, at every import; a disposal is at its own *)
(* import or never.                                                        *)
Stamped(x) == IF RatesFor(x.sold) = None THEN [fx |-> None, gain |-> None]
              ELSE [fx |-> RatesFor(x.sold), gain |-> Legs(x)]
ImportStatement(new) ==
  /\ Unlocked
  /\ LET vested == DOMAIN lots \cup UNION {{a.acquired : a \in x.slices} : x \in new}
     IN  lots' = [d \in vested |->
                    IF d \in DOMAIN lots /\ lots[d] # None THEN lots[d] ELSE RatesFor(d)]
  /\ exits' = [x \in DOMAIN exits \cup new |->
                 IF x \in DOMAIN exits THEN exits[x] ELSE Stamped(x)]
  /\ UNCHANGED <<rates, mode>>

DeleteExit(x) ==
  /\ Editing
  /\ exits' = Restrict(exits, DOMAIN exits \ {x})
  /\ UNCHANGED <<rates, mode, lots>>

\* taxableGainInr: the stored figure, else today's.
ReportedGain(x) == IF exits[x].gain # None THEN exits[x].gain ELSE Legs(x)

Session ==
  /\ mode' \in {"locked", "unlocked", "editing"} \ {mode}
  /\ UNCHANGED <<rates, lots, exits>>

RatesInit == rates = <<>> /\ mode = "locked" /\ lots = <<>> /\ exits = <<>>
RatesNext ==
  \/ \E file \in Archives, policy \in {"FIRST", "LAST"} : ImportArchive(file, policy)
  \/ \E t \in Typed : Record(t[1], t[2])
  \/ \E new \in SUBSET Sales : ImportStatement(new)
  \/ \E x \in DOMAIN exits : DeleteExit(x)
  \/ Session
---------------------------------------------------------------------------
(* A reported gain can be defended years later: each leg was converted at a *)
(* rate the store still holds, of a day on or before the end of the month  *)
(* before that leg, no further back than the lookback.                     *)
BasisRates(day) == {rates[d] : d \in Near(Basis(day))}
Defensible(x, gain) ==
  IF x.slices = {} THEN \E r \in BasisRates(x.sold) : gain = x.gain * r
  ELSE \E r \in BasisRates(x.sold), legs \in [x.slices -> UNION {BasisRates(a.acquired) : a \in x.slices}] :
         /\ \A a \in x.slices : legs[a] \in BasisRates(a.acquired)
         /\ gain = Cardinality(x.slices) * x.price * r
                     - MapThenSumSet(LAMBDA a : a.cost * legs[a], x.slices)
GainsDefensible ==
  \A x \in DOMAIN exits : ReportedGain(x) # None => Defensible(x, ReportedGain(x))
=============================================================================
