--------------------------- MODULE MCEntryRuntime ---------------------------
(* Instances of EntryRuntime for TLC. *)
EXTENDS EntryRuntime, TLC

CONSTANTS car, van, stranger

SelectedProviders == (car :> Providers) @@ (van :> {"parkdepot"})
UpperCase  == ("eur" :> "EUR") @@ ("EUR" :> "EUR")
\* A service writes the car's plate with a space.
PlainPlate == ("C AR" :> car) @@ ("VAN" :> van) @@ ("OTHER" :> stranger)

Listed(items) == [status |-> "ok", body |-> "list", items |-> items]
Unlisted(status, body) == [status |-> status, body |-> body, items |-> <<>>]
TooMany == Unlisted("too_many_requests", "misshapen")
Lost    == Unlisted("ok", "lost")

Fee1 == [id |-> "one", pending |-> TRUE, stopped |-> FALSE, currency |-> "eur", value |-> 1]
Free == [id |-> "two", pending |-> FALSE, stopped |-> FALSE, currency |-> Absent, value |-> Absent]
Gone == [id |-> "gone", pending |-> FALSE, stopped |-> TRUE, currency |-> "eur", value |-> Garbled]

CarOrder == [id |-> "three", plate |-> "C AR", currency |-> "EUR", price |-> 5, discounted |-> 2]
VanOrder == [id |-> "four", plate |-> "VAN", currency |-> "EUR", price |-> 3, discounted |-> Absent]
Foreign  == [id |-> "five", plate |-> "OTHER", currency |-> Absent, price |-> Absent, discounted |-> Absent]

\* Services that answer, with one record per plate or none.
Findings == [betterpark |-> {Listed(<<Fee1>>), Listed(<<Gone, Free>>)},
             parkdepot  |-> {Listed(<<>>), Listed(<<CarOrder>>)}]

\* ParkDepot may also report on both plates, in an order of its own, or mix an
\* order of a stranger in; BetterPark may limit the rate.
Mixed == [betterpark |-> Findings.betterpark \cup {TooMany, Lost},
          parkdepot  |-> Findings.parkdepot \cup
                           {Listed(<<VanOrder, CarOrder>>), Listed(<<VanOrder, Foreign>>)}]

\* A service that changed its format.
Changed == [q \in Providers |-> {Unlisted("ok", "misshapen"), Unlisted("other", "list")}]
=============================================================================
