---------------------------- MODULE ParkingModels ----------------------------
(***************************************************************************)
(* The pure functions of models.py: what one provider result does to the   *)
(* sessions known of a plate, and how these sessions are summed up for the *)
(* entities.  A session is a record of the provider it comes from, its     *)
(* record id there and its place in the answer, how sure the provider is   *)
(* of it, and its fee; times and the location are copied along and nothing *)
(* depends on them.  The sessions of a plate are a set: their place keeps  *)
(* two records with one id apart, and only the choice of the four details  *)
(* an attribute shows depends on the order of the code's tuple.            *)
(***************************************************************************)
EXTENDS Integers, FiniteSets, Functions

CONSTANTS
  NoFee,      \* session.fee is None
  Currencies, \* spellings of currencies as providers send them
  Upper       \* str.upper() on them

ASSUME CurrencyAssumption ==
  Upper \in [Currencies -> Currencies] /\ \A c \in Currencies : Upper[Upper[c]] = Upper[c]

Confidences == {"confirmed", "possibly_active", "closed", "unknown"}
FeeMeanings == {"accrued_estimate", "amount_due", "final_charge", "unknown"}
Outcomes    == {"success", "no_parking", "rate_limited", "error"}

Fee == [amount : Int, currency : Currencies, meaning : FeeMeanings]

----------------------------------------------------------------------------
(* apply_provider_result *)

Of(sessions, provider) == {s \in sessions : s.provider = provider}

\* Mutants: a provider that finds nothing closes what it reported before; the
\* sessions of the other providers are not retained.
Closed(sessions) == {}
RetainedNone(sessions, provider) == {}

Doubted(sessions) ==
  {[s EXCEPT !.confidence = "possibly_active"] : s \in {t \in sessions : t.confidence = "confirmed"}}
Retained(sessions, provider) == sessions \ Of(sessions, provider)

ApplyProviderResult(sessions, provider, result) ==
  CASE result.outcome = "success" ->
         Retained(sessions, provider) \cup result.sessions
    [] result.outcome = "no_parking" ->
         Retained(sessions, provider) \cup Doubted(Of(sessions, provider))
    [] OTHER -> sessions

----------------------------------------------------------------------------
(* aggregate_sessions *)

Active(sessions) == {s \in sessions : s.confidence \in {"confirmed", "possibly_active"}}
FeeKnown(s) == s.fee # NoFee /\ s.fee.meaning # "unknown"

\* Mutant: currencies are compared as they are spelled.
CurrencyAsSpelled(s) == s.fee.currency

CurrencyOf(s) == Upper[s.fee.currency]
Amount(known) == [s \in known |-> s.fee.amount]

Totals(active) ==
  LET known == {s \in active : FeeKnown(s)}
  IN  [c \in {CurrencyOf(s) : s \in known} |->
         SumFunctionOnSet(Amount(known), {s \in known : CurrencyOf(s) = c})]

Status(active) ==
  CASE active = {} -> "not_parked"
    [] Cardinality(active) > 1 -> "multiple_sessions"
    [] OTHER -> IF \E s \in active : s.confidence = "possibly_active"
                  THEN "uncertain" ELSE "parking"

AggregateSessions(sessions) ==
  LET active == Active(sessions)
  IN  [status        |-> Status(active),
       count         |-> Cardinality(active),
       sessions      |-> active,
       fee_totals    |-> Totals(active),
       fees_complete |-> active # {} /\ \A s \in active : FeeKnown(s)]
=============================================================================
