----------------------------- MODULE Disclosure -----------------------------
(***************************************************************************)
(* Schedule FA, table A3, of one calendar year: the daily marks            *)
(* (MarkRepository, MarksUC), the entity detail of a foreign holding       *)
(* (ForeignDisclosureUC), the report of what is missing (readiness) and    *)
(* the table itself (GenerateComplianceUC.scheduleFaA3, peak-value.ts).    *)
(*                                                                         *)
(* Abstractions: holdings are of one foreign currency, and each is its own *)
(* instrument; of the entity's detail only the acquisition date typed with *)
(* it matters here; dividends, proceeds and the first investment are left  *)
(* out of the row; the rates are those of Rates, the trades those of       *)
(* Ledger, and both arrive here as they are stored.                        *)
(***************************************************************************)
EXTENDS Integers, FiniteSets, FiniteSetsExt, Functions

CONSTANTS
  Holdings,   \* the foreign holdings
  Trades,     \* purchases and sales: [holding, day, change]
  Published,  \* <<day, rate>>: the rates an archive may bring
  Stated,     \* <<holding, day, price>>: the prices a statement may state
  Observed,   \* <<key, day, value>>: the marks recorded by hand
  Dates,      \* the acquisition dates typed with a detail, None for none
  YearStart, YearEnd,
  Closure,    \* the days a market may stay closed
  Rate,       \* the key of the currency's marks
  None

VARIABLES
  rates,      \* the stored rates by day
  prices,     \* the stored prices by holding and day
  marks,      \* the daily marks, by key and day
  trades,     \* the purchases and sales on the ledger
  details,    \* the entity detail by holding: its typed date, or None
  frozen,     \* the 31 December snapshot exists
  mode        \* the vault: locked, unlocked, or unlocked in edit mode

disclosurevars == <<rates, prices, marks, trades, details, frozen, mode>>
---------------------------------------------------------------------------
Unlocked == mode # "locked"
Editing == mode = "editing"
With(f, key, value) == [k \in DOMAIN f \cup {key} |-> IF k = key THEN value ELSE f[k]]
Under(f, g) == [k \in DOMAIN f \cup DOMAIN g |-> IF k \in DOMAIN f THEN f[k] ELSE g[k]]

(* The series of a key over a window: a mark stands for the closed days    *)
(* after it, up to the next mark or the end of the window.                 *)
Marked(key, from, to) == {d \in from..to : <<key, d>> \in DOMAIN marks}
Until(key, d, to) == Min({to} \cup Marked(key, d + 1, to))
Carried(key, d, to) ==
  {d} \cup IF Until(key, d, to) - d > Closure THEN {} ELSE (d + 1)..(Until(key, d, to) - 1)
SeriesFor(key, from, to) ==
  LET days == UNION {Carried(key, d, to) : d \in Marked(key, from, to)}
  IN  [x \in days |-> marks[<<key, Max(Marked(key, from, x))>>]]

(* A series covers the window when no break in it, at either end or        *)
(* between two marks, is longer than a closed market.                      *)
\* Fault: a series may begin late and end early.
CoversInside(key, from, to) ==
  /\ Marked(key, from, to) # {}
  /\ \A d \in Marked(key, from, to) \ {Max(Marked(key, from, to))} : Until(key, d, to) - d <= Closure
Covers(key, from, to) ==
  /\ Marked(key, from, to) # {}
  /\ Min(Marked(key, from, to)) - from <= Closure
  /\ \A d \in Marked(key, from, to) : Until(key, d, to) - d <= Closure

Of(h) == {t \in trades : t.holding = h}
Lots(h) == {t \in Of(h) : t.change > 0}
Foreign == {h \in Holdings : Lots(h) # {}}
FirstAcquisition(h) == Min({t.day : t \in Lots(h)})
From(h) == Max({YearStart, FirstAcquisition(h)})

(* dailyQuantities: the moves up to the day, never less than nothing.      *)
Quantity(h, day) == Max({0, MapThenSumSet(LAMBDA t : t.change, {t \in Of(h) : t.day <= day})})

(* The peak is the first day of the highest value in the holding's own     *)
(* currency, from the acquisition date typed with the detail, if any; a    *)
(* day without a price or a rate is passed over.                           *)
Acquired(h) == IF details[h] # None THEN details[h] ELSE FirstAcquisition(h)
Price(h) == SeriesFor(h, From(h), YearEnd)
RateOn(h) == SeriesFor(Rate, From(h), YearEnd)
Worth(h, day) == Quantity(h, day) * Price(h)[day]
Valued(h) ==
  {d \in Max({Acquired(h), From(h)})..YearEnd : d \in DOMAIN Price(h) \cap DOMAIN RateOn(h)}
Peak(h) ==
  LET high == {d \in Valued(h) : \A e \in Valued(h) : Worth(h, e) <= Worth(h, d)}
      day == Min(high)
  IN  IF Valued(h) = {} THEN [native |-> 0, inr |-> 0]
      ELSE [native |-> Worth(h, day), inr |-> Worth(h, day) * RateOn(h)[day]]
Closing(h) == [native |-> Worth(h, YearEnd), inr |-> Worth(h, YearEnd) * RateOn(h)[YearEnd]]

(* What stands between the vault and the table, holding by holding.        *)
Ready ==
  \A h \in Foreign :
    h \in DOMAIN details /\ Covers(h, From(h), YearEnd) /\ Covers(Rate, From(h), YearEnd)

(* The table is generated, or every holding it fails on is named.          *)
Generates(h) ==
  /\ h \in DOMAIN details
  /\ Covers(h, From(h), YearEnd) /\ Covers(Rate, From(h), YearEnd)
  /\ YearEnd \in DOMAIN Price(h) \cap DOMAIN RateOn(h)
Generated == frozen /\ \A h \in Foreign : Generates(h)
---------------------------------------------------------------------------
Sync(r, p) ==
  Under(marks, Under([k \in {Rate} \X DOMAIN r |-> r[k[2]]], p))

(* An import stores the prices a statement states, the newest wins, and    *)
(* folds what the vault holds into the marks, where the oldest wins.       *)
ImportPrices(h, day, price) ==
  /\ Unlocked
  /\ prices' = With(prices, <<h, day>>, price)
  /\ marks' = Sync(rates, prices')
  /\ UNCHANGED <<rates, trades, details, frozen, mode>>

\* An archive reaches the marks at the next import, or by the button.
Publish(day, rate) ==
  /\ Editing /\ day \notin DOMAIN rates
  /\ rates' = With(rates, day, rate)
  /\ UNCHANGED <<prices, marks, trades, details, frozen, mode>>
SyncMarks ==
  /\ Unlocked
  /\ marks' = Sync(rates, prices)
  /\ UNCHANGED <<rates, prices, trades, details, frozen, mode>>

\* A mark recorded by hand replaces whatever the day has.
RecordMark(key, day, value) ==
  /\ Unlocked
  /\ marks' = With(marks, <<key, day>>, value)
  /\ UNCHANGED <<rates, prices, trades, details, frozen, mode>>

RecordDetail(h, date) ==
  /\ Unlocked
  /\ h \in Foreign
  /\ h \in DOMAIN details => Editing
  /\ details' = With(details, h, date)
  /\ UNCHANGED <<rates, prices, marks, trades, frozen, mode>>

\* Ledger and Snapshots: a trade arrives or is deleted, the year is frozen.
TradeArrives(t) ==
  /\ Unlocked /\ t \notin trades
  /\ trades' = trades \cup {t}
  /\ UNCHANGED <<rates, prices, marks, details, frozen, mode>>
SaleDeleted(t) ==
  /\ Editing /\ t.change < 0
  /\ trades' = trades \ {t}
  /\ UNCHANGED <<rates, prices, marks, details, frozen, mode>>
\* The detail goes with its holding.
HoldingDeleted(h) ==
  /\ Editing
  /\ trades' = trades \ Of(h)
  /\ details' = Restrict(details, DOMAIN details \ {h})
  /\ UNCHANGED <<rates, prices, marks, frozen, mode>>
Freeze ==
  /\ Unlocked /\ ~frozen
  /\ frozen' = TRUE
  /\ UNCHANGED <<rates, prices, marks, trades, details, mode>>

Session ==
  /\ mode' \in {"locked", "unlocked", "editing"} \ {mode}
  /\ UNCHANGED <<rates, prices, marks, trades, details, frozen>>

DisclosureInit ==
  /\ rates = <<>> /\ prices = <<>> /\ marks = <<>> /\ details = <<>>
  /\ trades = {} /\ frozen = FALSE /\ mode = "locked"
DisclosureNext ==
  \/ \E s \in Stated : ImportPrices(s[1], s[2], s[3])
  \/ \E p \in Published : Publish(p[1], p[2])
  \/ SyncMarks
  \/ \E o \in Observed : RecordMark(o[1], o[2], o[3])
  \/ \E h \in Holdings, date \in Dates : RecordDetail(h, date)
  \/ \E t \in Trades : TradeArrives(t)
  \/ \E t \in trades : SaleDeleted(t)
  \/ \E h \in Foreign : HoldingDeleted(h)
  \/ Freeze
  \/ Session
---------------------------------------------------------------------------
(* A table that is generated does not understate: while the holding        *)
(* existed no break in its marks was longer than a closed market, and the  *)
(* peak is at least the closing value, and at least what was held on each  *)
(* day times the price marked for it, unless the date typed with the       *)
(* detail is later than the purchase or the day had no rate yet.           *)
Broken(key, from) ==
  \E d \in from..YearEnd : d + Closure < YearEnd /\ Marked(key, d, d + Closure) = {}
HeldOn(h, day) ==
  MapThenSumSet(LAMBDA t : IF t.day <= day THEN t.change ELSE 0, Of(h))
PeakReached ==
  Generated =>
    \A h \in Foreign :
      /\ ~Broken(h, From(h)) /\ ~Broken(Rate, From(h))
      /\ Acquired(h) <= From(h) =>
           /\ Peak(h).native >= Closing(h).native
           /\ \A d \in From(h)..YearEnd :
                <<h, d>> \in DOMAIN marks /\ Marked(Rate, From(h), d) # {} =>
                  Peak(h).native >= HeldOn(h, d) * marks[<<h, d>>]

(* foreign-disclosure-uc.ts: when readiness reports nothing outstanding,   *)
(* the table of a frozen year is generated.                                *)
ReadyGenerates == frozen /\ Ready => Generated
=============================================================================
