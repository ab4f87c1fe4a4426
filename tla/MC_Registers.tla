---------------------------- MODULE MC_Registers ----------------------------
(***************************************************************************)
(* Small instances of the registers: what each is given, chosen so that    *)
(* its interesting cases happen.                                           *)
(***************************************************************************)
EXTENDS Registers, TLC

CONSTANTS Shriram, Margadarsi, Plan

Chit(o, t, s) == [org |-> o, start |-> 0, months |-> 2, type |-> t, schedule |-> s]
MCOpenings == {Chit(Shriram, "CONSTANT", Plan), Chit(Margadarsi, "VARYING", None)}
MCEdits == {"org" :> Margadarsi, ("type" :> "CONSTANT") @@ ("schedule" :> Plan),
            ("type" :> "VARYING") @@ ("schedule" :> None)}
Paying(d, m, t) == [date |-> d, amount |-> 2, mode |-> m, to |-> t]
MCEmis == {Paying(1, "CASH", "branch"), Paying(1, "CASH", "agent"),
           Paying(1, "UPI", "branch")}
MCDraws == {[date |-> 2, amount |-> 7]}
MCTables == {1 :> 5, (1 :> 7) @@ (2 :> 8)}
Account(kind, opening, opened, rate, monthly, maturity, certificate) ==
  [label |-> kind, kind |-> kind, opening |-> opening, opened |-> opened, rate |-> rate,
   monthly |-> monthly, maturity |-> maturity, certificate |-> certificate, closed |-> None]
MCAccounts ==
  {Account("TERM_DEPOSIT", 4, 0, 1, 0, 2, None), Account("TERM_DEPOSIT", 4, 0, 1, 0, 2, 20),
   Account("TERM_DEPOSIT", 4, 1, None, 0, None, None), Account("TERM_DEPOSIT", 4, 1, 1, 0, 3, 6),
   Account("RECURRING_DEPOSIT", 0, 0, 1, 2, 3, None), Account("RECURRING_DEPOSIT", 3, 1, 2, 1, None, None),
   Account("RECURRING_DEPOSIT", 0, 2, None, 1, None, None), Account("RECURRING_DEPOSIT", 3, 0, 1, 0, None, None),
   Account("PROVIDENT_FUND", 3, 0, 1, 2, None, None), Account("PROVIDENT_FUND", 3, 1, None, 2, None, None),
   Account("GRATUITY", 0, 0, None, 2, None, None), Account("STATED_BALANCE", 3, 1, None, 0, None, None)}

Lent(p, r) == [lender |-> p, start |-> 1, principal |-> 16, rate |-> r]
MCBorrowed == {Lent("bank", 1), Lent("bank", 0), [Lent("uncle", 0) EXCEPT !.start = 0]}
Sum(d, a, p) == [date |-> d, amount |-> a, prepayment |-> p]
MCPayments == {Sum(3, 4, FALSE), Sum(5, 20, FALSE), Sum(5, 8, TRUE), Sum(0, 4, FALSE)}

(* A world whose first surcharge starts at 500 and second at 1000, where   *)
(* tax is 126 at the first.                                                *)
MCRules ==
  [standard |-> ("OLD" :> 1) @@ ("NEW" :> 2), unit |-> 10, cess |-> 4, cap |-> 1, top |-> 3,
   slabs |-> [r \in {"OLD", "NEW"} |->
                <<[upTo |-> 40, rate |-> 0], [upTo |-> 100, rate |-> 1],
                  [upTo |-> None, rate |-> 3]>>],
   bands |-> {[above |-> 500, rate |-> 1], [above |-> 1000, rate |-> 2]},
   ltcg |-> 1, stcg |-> 2, vda |-> 3, exemption |-> 25,
   months |-> [c \in {"EQUITY"} |-> 12], alwaysSlab |-> {"DEBT"}]
Earner(salary, withheld) ==
  [salary |-> salary, exempt |-> 0, deductions |-> 9, other |-> 0, withheld |-> withheld]
Grown(kind, first, then) ==
  [kind |-> kind, opening |-> <<first, then>>, closing |-> <<then, then>>]
Sale(slot, class, months, gain, cover) ==
  [year |-> 1, slot |-> slot, class |-> class, months |-> months, gain |-> gain, cover |-> cover]
Challan(q, d, amount) == [year |-> 1, quarter |-> q, day |-> d, amount |-> amount]

MCReceivable == {[year |-> 1, amount |-> 5, foreign |-> FALSE],
                 [year |-> 2, amount |-> 9, foreign |-> TRUE]}
MCAccruals == {Grown("loan", 1, 4), Grown("deposit", 0, 0), Grown("chit", 0, 495),
               Grown("pf", 0, 7)}
MCSales == {Sale(2, "EQUITY", 6, 20, TRUE), Sale(4, "EQUITY", 20, 30, FALSE),
            Sale(1, "DEBT", 40, 50, FALSE), Sale(3, "CRYPTO", 1, -60, FALSE)}
MCChallans == {Challan(1, 1, 20), Challan(2, 2, 40), Challan(2, 2, 60)}
MCStances == {{}, {"cover"}, {"loan", "chit"}}
MCProfiles == {Earner(502, 0), Earner(497, 20)}

MCBoundaries == {[scope |-> "DOMESTIC", at |-> 2], [scope |-> "FOREIGN", at |-> 3]}
MCQuotes == {<<"fund", 1>>, <<"stock", 1>>, <<"stock", 2>>}
MCRates == <<1, 2, 1>>

Card(d, a, r) == [day |-> d, at |-> a, rate |-> r]
MCArchives == {{Card(2, 1, 8), Card(2, 2, 9), Card(3, 1, 0)}, {Card(3, 1, 8), Card(6, 1, 10)},
               {Card(5, 1, 9), Card(6, 1, 90)}, {Card(6, 1, 12)}}
MCPlausible == 5..99
MCTyped == {<<3, 8>>, <<5, 11>>}
MCRateSales == {[sold |-> 7, price |-> 3, gain |-> 0, slices |-> {[acquired |-> 4, cost |-> 2]}],
                [sold |-> 7, price |-> 3, gain |-> 0,
                 slices |-> {[acquired |-> 4, cost |-> 1], [acquired |-> 7, cost |-> 2]}],
                [sold |-> 8, price |-> 0, gain |-> 4, slices |-> {}]}

Traded(d, c) == [holding |-> "stock", day |-> d, change |-> c]
MCTrades == {Traded(1, 2), Traded(3, -1), Traded(6, 1)}
MCPublished == {<<2, 8>>, <<4, 9>>}
MCStated == {<<"stock", 3, 2>>}
MCObserved == {<<"stock", 2, 4>>, <<"stock", 3, 3>>, <<"stock", 4, 2>>, <<"stock", 5, 2>>, <<"usd", 5, 7>>}
MCTypedDates == {None, 4}

(* One loan, two spellings of one payment, and a clock that need not move  *)
(* between two operations.                                                 *)
MCEntered == {[borrower |-> Shriram, principal |-> 1, start |-> 1, closed |-> None]}
MCLoanEdits == {("principal" :> 2) @@ ("closed" :> 3)}
MCPaid == {[date |-> 2, amount |-> 1, spelling |-> 1]}
=============================================================================
