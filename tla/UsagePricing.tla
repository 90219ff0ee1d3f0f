---------------------------- MODULE UsagePricing ----------------------------
(* What an observation tells of its tokens and what they cost by the catalog.
   A value is a record of its state and a number that is 0 unless it is known; a
   price is a set of lines, at most one of each category. *)
EXTENDS Naturals, FiniteSets, FiniteSetsExt

CONSTANTS None,
          Catalog, \* of a provider and a model: [base, tiers, valid], the tiers by their boundary
          Alias,   \* the provider in the catalog of some providers
          Limit    \* counts from 2^63 on are invalid

Categories == {"input", "output", "cache_read", "cache_write"}
Prompt == Categories \ {"output"}
Measures == Categories \cup {"total"}
Unknown == [state |-> "unknown", n |-> 0]
Invalid == [state |-> "invalid_count", n |-> 0]
Known(n) == [state |-> "known", n |-> n]

Subtotal(r) == MapThenSumSet(LAMBDA c : r.value[c].n, Categories)
AllKnown(r) == \A c \in Categories : r.value[c].state = "known"
Total(r) ==
  LET all == AllKnown(r)  sum == Subtotal(r) IN
  CASE (\E c \in Categories : r.value[c] = Invalid) \/ sum >= Limit -> Invalid
    [] OTHER ->
       CASE r.reported.state = "known" ->
              IF r.reported.n < sum \/ (all /\ sum # r.reported.n) THEN Unknown ELSE r.reported
         [] r.reported = Invalid -> Invalid
         [] OTHER -> IF all THEN Known(sum) ELSE Unknown

-----------------------------------------------------------------------------
Provider(model) == IF model.provider \in DOMAIN Alias THEN Alias[model.provider] ELSE model.provider
Profile(model) == LET key == <<Provider(model), model.name>> IN IF key \in DOMAIN Catalog THEN Catalog[key] ELSE None
Tiered(model) == Profile(model) # None /\ Profile(model).valid /\ DOMAIN Profile(model).tiers # {}
Boundaries(model) == IF Tiered(model) THEN DOMAIN Profile(model).tiers ELSE {}

(* One rate whatever the context was. *)
OneRate(profile, c) ==
  profile.base[c] # None /\ \A t \in DOMAIN profile.tiers : profile.tiers[t][c] = profile.base[c]
CategoryReason(model, c, context, long) ==
  LET profile == Profile(model) IN
  CASE c = "cache_write" /\ long -> "unsupported_cache_write_duration"
    [] profile = None -> "model_not_in_catalog"
    [] ~profile.valid -> "unsupported_pricing_tier"
    [] OTHER -> IF context # None /\ OneRate(profile, c) THEN None ELSE context

(* A category without tokens needs no price.  Slip: nor does one without a rate. *)
RatesOnly(count, rate) == count = 0 \/ rate = None
Free(count, rate) == count = 0

(* price_group: counts of several observations that have the rest in common. *)
PriceGroup(model, counts, states, threshold, context, long) ==
  LET profile == Profile(model)
      rates == CASE profile = None -> [c \in Categories |-> None]
                 [] profile.valid /\ threshold # None -> profile.tiers[threshold]
                 [] OTHER -> profile.base
      Line(c) ==
        LET count == IF states[c] = "selected" THEN counts[c] ELSE None
            why == CategoryReason(model, c, context, long)
            reason == CASE states[c] # "selected" -> "unresolved_tokens"
                        [] count = None -> "unknown_tokens"
                        [] OTHER -> IF why = None /\ rates[c] = None THEN "missing_category_rate" ELSE why
        IN [model |-> model, category |-> c, tokens |-> count, rate |-> IF why = None THEN rates[c] ELSE None,
            threshold |-> threshold, reason |-> reason, amount |-> IF reason = None THEN count * rates[c] ELSE 0]
  IN {Line(c) : c \in {c \in Categories : states[c] # "excluded"
                                           /\ ~(states[c] = "selected" /\ Free(counts[c], rates[c]))}}

(* Nothing tells the number of a value that is neither known nor zero. *)
Count(v) == IF v.state \in {"known", "not_applicable"} THEN v.n ELSE None
PromptKnown(r) == \A c \in Prompt : r.value[c].state \in {"known", "not_applicable"}
PromptSize(r) == MapThenSumSet(LAMBDA c : r.value[c].n, Prompt)
(* price: the tier is that of the response, known only for one response. *)
Price(r, model) ==
  LET single == r.time.kind = "point"
      context == CASE ~Tiered(model) -> None
                   [] ~single -> "aggregate_context"
                   [] OTHER -> IF PromptKnown(r) THEN None ELSE "unknown_context_size"
      below == {t \in Boundaries(model) : PromptSize(r) > t}
      threshold == IF Tiered(model) /\ context = None /\ below # {} THEN Max(below) ELSE None
  IN PriceGroup(model, [c \in Categories |-> Count(r.value[c])], r.decision, threshold, context,
                r.long)

Unpriced(lines) == \E l \in lines : l.reason # None
(* aggregate: lines that differ only in their tokens become one. *)
Same(l) == [l EXCEPT !.tokens = None, !.amount = 0]
Bill(price) ==
  LET all == UNION {{<<i, l>> : l \in price[i]} : i \in DOMAIN price}
      Merged(k) == LET of == {x \in all : Same(x[2]) = k} IN
                   IF \E x \in of : x[2].tokens = None THEN None ELSE MapThenSumSet(LAMBDA x : x[2].tokens, of)
  IN [known |-> MapThenSumSet(LAMBDA x : x[2].amount, all), lines |-> [k \in {Same(x[2]) : x \in all} |-> Merged(k)]]
=============================================================================
