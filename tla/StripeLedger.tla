---------------------------- MODULE StripeLedger ----------------------------
(***************************************************************************)
(* Stripe as the code uses it: PaymentIntents raised off-session or by a   *)
(* paid link, payment links, transfers to the expert, the idempotency keys *)
(* the code sends, and the events Stripe owes the webhook.  An event stays *)
(* in the inbox until a delivery of it is acknowledged; the inbox is a set,*)
(* so deliveries come in any order.                                        *)
(***************************************************************************)
EXTENDS MoneyGuards

CONSTANTS
    MaxIntents,   \* bound on PaymentIntents
    MaxLinks      \* bound on payment links

ASSUME LedgerAssumption == MaxIntents \in Nat /\ MaxLinks \in Nat

Intent == 1 .. MaxIntents
Link == 1 .. MaxLinks

\* id is what the charge was raised for: the call or fee, or None.
Charge == ChargeId \cup {None}

VARIABLES
    intents,    \* [via, id, amt, st]; amt is the billable minutes charged
    links,      \* [id, amt, st]
    chargeKey,  \* charge:<project>:<expert>:<callId> -> the intent it replays
    refundKey,  \* mismatch-refund:...:<callId> -> the intent it refunded
    payKey,     \* expert-payout:...:<callId> -> the minutes it transferred
    sends,      \* transfers made per charge id
    inbox       \* events not yet acknowledged: [kind, of]

moneyVars == <<intents, links, chargeKey, refundKey, payKey, sends>>

\* "declined" when it was asked for, "failed" after Stripe had accepted it;
\* "refunded" also stands for charged back.
IntentState == {"unused", "processing", "succeeded", "declined", "failed", "refunded"}

EventOf(kind, i) == [kind |-> kind, of |-> i]
NoEvent == EventOf("none", 0)

Event == [kind : {"paid", "failed", "refunded", "disputed"}, of : Intent]
         \cup {EventOf("account", 0)}

LedgerTypeOK ==
    /\ intents \in [Intent -> [via : {"card", "link"}, id : Charge,
                               amt : Amount,
                               st : IntentState]]
    /\ links \in [Link -> [id : Charge, amt : Amount, st : {"unused", "created", "active", "off", "paid"}]]
    /\ chargeKey \in [Charge -> 0 .. MaxIntents]
    /\ refundKey \in [Charge -> 0 .. MaxIntents]
    /\ payKey \in [Charge -> Amount]
    /\ sends \in [Charge -> Nat]
    /\ inbox \subseteq Event

LedgerInit ==
    /\ intents = [i \in Intent |-> [via |-> "card", id |-> None, amt |-> 0,
                                    st |-> "unused"]]
    /\ links = [l \in Link |-> [id |-> None, amt |-> 0, st |-> "unused"]]
    /\ chargeKey = [c \in Charge |-> 0]
    /\ refundKey = [c \in Charge |-> 0]
    /\ payKey = [c \in Charge |-> 0]
    /\ sends = [c \in Charge |-> 0]
    /\ inbox = {}

-----------------------------------------------------------------------------
\* Objects are used in the order of their numbers.
FreshIntent(i) == intents[i].st = "unused" /\ \A j \in 1 .. i - 1 : intents[j].st # "unused"
FreshLink(l) == links[l].st = "unused" /\ \A k \in 1 .. l - 1 : links[k].st # "unused"

\* Mutant: a payment counts as made before it settles.
MutPaymentEvents(st, i) ==
    CASE st \in {"processing", "succeeded", "refunded"} -> {EventOf("paid", i)}
      [] st \in {"declined", "failed"}                  -> {EventOf("failed", i)}
      [] OTHER                                          -> {}

\* The payment event an intent's state causes: payment_intent.succeeded or
\* .payment_failed, and for a link the checkout session's, which counts only
\* when the session is paid.
PaymentEvents(st, i) ==
    CASE st \in {"succeeded", "refunded"} -> {EventOf("paid", i)}
      [] st \in {"declined", "failed"}    -> {EventOf("failed", i)}
      [] OTHER                            -> {}

Raise(i, via, id, amt, st) ==
    intents' = [intents EXCEPT ![i] = [via |-> via, id |-> id, amt |-> amt, st |-> st]]

\* The card charges of `id` the client has paid, or is paying, and has not got
\* back.
KeptCharges(id) ==
    {i \in Intent : /\ intents[i].via = "card" /\ intents[i].id = id
                    /\ intents[i].st \in {"processing", "succeeded"}}
=============================================================================
