--------------------------- MODULE ProviderAdapters ---------------------------
(***************************************************************************)
(* The adapters of the two parking services (providers/betterpark.py and   *)
(* providers/parkdepot.py): which response of a service becomes which      *)
(* sessions of which plate, and which one becomes which provider error.    *)
(* A service may answer anything.                                          *)
(***************************************************************************)
EXTENDS ParkingModels, Sequences

CONSTANTS
  Plates,         \* normalized plates
  NormalizePlate, \* normalize_plate on what services write for a plate
  RecordIds,      \* ids services give to their records
  Absent,         \* a field that is missing, null or of another type
  Garbled         \* an amount that is no decimal number

Providers == {"betterpark", "parkdepot"}
Batching  == {"parkdepot"}

Amounts == Int \cup {Absent, Garbled}

\* A process of BetterPark: isPending, whether stop is set, parkingFee.
Process == [id : RecordIds \cup {Absent}, pending : BOOLEAN, stopped : BOOLEAN,
            currency : Currencies \cup {Absent}, value : Amounts]

\* An order of ParkDepot: two prices, of which the discounted one counts.
Order == [id : RecordIds \cup {Absent}, plate : (DOMAIN NormalizePlate) \cup {Absent},
          currency : Currencies \cup {Absent}, price : Amounts, discounted : Amounts]

\* A response.  "lost": the connection failed or the body is not JSON;
\* "misshapen": JSON that is not the list of records it should be.
ResponseOf(items) ==
  [status : {"ok", "too_many_requests", "other"}, body : {"lost", "misshapen", "list"}, items : Seq(items)]

----------------------------------------------------------------------------
(* normalize_response *)

\* The body is read before the status is looked at.
Verdict(response, malformed) ==
  CASE response.body = "lost" -> "untyped"
    [] response.body # "lost" /\ response.status = "too_many_requests" -> "rate_limited"
    [] OTHER -> IF response.status # "ok" \/ response.body = "misshapen" \/ malformed
                  THEN "format" ELSE "results"

Sessions == [provider : Providers, id : RecordIds, nth : Nat, confidence : Confidences,
             fee : Fee \cup {NoFee}]

Session(provider, item, nth, fee) ==
  [provider |-> provider, id |-> item.id, nth |-> nth, confidence |-> "confirmed", fee |-> fee]

FeeOf(item, amount, meaning) ==
  IF item.currency = Absent \/ amount = Absent THEN NoFee
  ELSE [amount |-> amount, currency |-> item.currency, meaning |-> meaning]

\* Mutant: a ParkingStatus is reported where a ProviderOutcome is due.
FoundAsStatus(sessions) ==
  [outcome |-> IF sessions = {} THEN "not_parked" ELSE "success", sessions |-> sessions]

Found(sessions) ==
  [outcome |-> IF sessions = {} THEN "no_parking" ELSE "success", sessions |-> sessions]

\* BetterPark lists the processes of one plate; those that have ended are
\* skipped before their fee is looked at.
Running(process) == process.pending \/ ~process.stopped

BetterParkMalformed(items) ==
  \E i \in DOMAIN items :
    \/ items[i].id = Absent
    \/ Running(items[i]) /\ items[i].currency # Absent /\ items[i].value \in {Absent, Garbled}

BetterParkSessions(items) ==
  {Session("betterpark", items[i], i, FeeOf(items[i], items[i].value, "accrued_estimate")) :
     i \in {j \in DOMAIN items : Running(items[j])}}

\* ParkDepot lists the orders of all plates of a request.  One order of
\* another plate, however the plate is written, spoils the whole response.
Price(order) == IF order.discounted # Absent THEN order.discounted ELSE order.price

ParkDepotMalformed(plates, items) ==
  \E i \in DOMAIN items :
    \/ items[i].id = Absent \/ items[i].plate = Absent
    \/ items[i].currency # Absent /\ Price(items[i]) = Garbled
    \/ items[i].plate # Absent /\ NormalizePlate[items[i].plate] \notin plates

\* Mutant: every plate of the request gets every order.
OrdersOfAll(plate, items) == DOMAIN items

OrdersOf(plate, items) == {i \in DOMAIN items : NormalizePlate[items[i].plate] = plate}

ParkDepotSessions(plate, items) ==
  {Session("parkdepot", items[i], i, FeeOf(items[i], Price(items[i]), "amount_due")) :
     i \in OrdersOf(plate, items)}

\* Mutant: only plates with an order are in the results.
PlatesWithOrder(provider, plates, items) ==
  {p \in plates : provider = "parkdepot" => OrdersOf(p, items) # {}}

PlatesAnswered(provider, plates, items) == plates

----------------------------------------------------------------------------
(* async_query.  BetterPark is asked for one plate at a time. *)

VerdictOf(provider, plates, response) ==
  Verdict(response, IF provider = "betterpark" THEN BetterParkMalformed(response.items)
                    ELSE ParkDepotMalformed(plates, response.items))

ResultsOf(provider, plates, response) ==
  [p \in PlatesAnswered(provider, plates, response.items) |->
     Found(IF provider = "betterpark" THEN BetterParkSessions(response.items)
           ELSE ParkDepotSessions(p, response.items))]
=============================================================================
