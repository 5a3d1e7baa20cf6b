------------------------------ MODULE PriceLists ------------------------------
(***************************************************************************)
(* PriceListService: the price of one product for a customer and a date,   *)
(* from the customer's lists, the general ones or the product itself, kept *)
(* in a cache that every change of prices empties after it has committed.  *)
(***************************************************************************)
EXTENDS Integers

CONSTANTS
    Lists, Customers, Days, Prices,
    NoCustomer, NoDay, NoPrice,
    Keys,               \* the <<customer, day>> of which prices are asked
    Callers,            \* of getActivePrice
    Editors             \* who change lists and the product

VARIABLES
    list,               \* [state, customer, from, to, active, price] of each list
    selling,            \* selling_price of the product
    cached,             \* the cached result of each key, or {}
    caller, editor,     \* calls under way
    late                \* keys whose result was read before a change and cached after

priceVars == <<list, selling, cached, caller, editor, late>>

Idle == [pc |-> "idle"]
NoList == [state |-> "absent"]
Live(l) == list[l].state = "live"

PriceInit ==
    /\ list = [l \in Lists |-> NoList]
    /\ selling \in Prices
    /\ cached = [k \in Keys |-> {}]
    /\ caller = [c \in Callers |-> Idle] /\ editor = [e \in Editors |-> Idle]
    /\ late = {}

-----------------------------------------------------------------------------
(* getActivePrice *)

\* Lists in force on a day that have the product.
InForce(day) ==
    {l \in Lists : /\ Live(l) /\ list[l].active /\ list[l].price # NoPrice
                   /\ list[l].from <= day /\ (list[l].to # NoDay => day <= list[l].to)}

\* Of the lists for customer, those that began last.
Latest(customer, day) ==
    LET ls == {l \in InForce(day) : list[l].customer = customer}
    IN  {l \in ls : \A m \in ls : list[m].from <= list[l].from}

\* The results the query may have: more than one if lists begin on one day.
ActivePrice(k) ==
    LET own == IF k[1] = NoCustomer THEN {} ELSE Latest(k[1], k[2])
        general == Latest(NoCustomer, k[2])
    IN  IF own # {} THEN {[price |-> list[l].price, source |-> "customer"] : l \in own}
        ELSE IF general # {} THEN {[price |-> list[l].price, source |-> "general"] : l \in general}
        ELSE {[price |-> selling, source |-> "default"]}

\* A result in the cache is the answer; otherwise the lists are read ...
PriceRead(c, k) ==
    /\ caller[c] = Idle /\ cached[k] = {}
    /\ \E result \in ActivePrice(k) :
          caller' = [caller EXCEPT ![c] = [pc |-> "set", key |-> k, result |-> {result},
                                           overtaken |-> FALSE]]
    /\ UNCHANGED <<list, selling, cached, editor, late>>

\* ... and the result is stored.
PriceSet(c) ==
    LET call == caller[c] IN
    /\ call.pc = "set"
    /\ cached' = [cached EXCEPT ![call.key] = call.result]
    /\ late' = IF call.overtaken THEN late \cup {call.key} ELSE late \ {call.key}
    /\ caller' = [caller EXCEPT ![c] = Idle]
    /\ UNCHANGED <<list, selling, editor>>

\* The time to live of an entry ends.
Expires(k) ==
    /\ cached[k] # {}
    /\ cached' = [cached EXCEPT ![k] = {}] /\ late' = late \ {k}
    /\ UNCHANGED <<list, selling, caller, editor>>

-----------------------------------------------------------------------------
(* Changes *)

\* Results that callers have read and not stored are overtaken by a change.
Overtake ==
    caller' = [c \in Callers |-> IF caller[c].pc = "set"
                                 THEN [caller[c] EXCEPT !.overtaken = TRUE] ELSE caller[c]]

\* A change has committed; its call empties the cache next.
Committed(e) ==
    /\ editor' = [editor EXCEPT ![e] = [pc |-> "empty"]]
    /\ Overtake /\ UNCHANGED <<cached, late>>

\* delByPattern('active_price:*').
EmptyCache(e) ==
    /\ editor[e].pc = "empty"
    /\ cached' = [k \in Keys |-> {}] /\ late' = {}
    /\ editor' = [editor EXCEPT ![e] = Idle]
    /\ UNCHANGED <<list, selling, caller>>

Follows(from, to) == to # NoDay => from < to

\* createPriceList: a new list has no prices, and the cache stays.
CreateList(e, l, customer, from, to) ==
    /\ editor[e] = Idle /\ list[l] = NoList /\ Follows(from, to)
    /\ list' = [list EXCEPT ![l] = [state |-> "live", customer |-> customer, from |-> from,
                                    to |-> to, active |-> TRUE, price |-> NoPrice,
                                    moved |-> FALSE]]
    /\ UNCHANGED <<selling, cached, caller, editor, late>>

\* The new end of a period is compared with its beginning, a new beginning alone with nothing.
EndFits(from, to) == Follows(from, to)

\* updatePriceList, of customer, dates or is_active: reads the list ...
UpdateListRead(e, l, field, value) ==
    /\ editor[e] = Idle /\ Live(l)
    /\ field = "to" => EndFits(list[l].from, value)
    /\ editor' = [editor EXCEPT ![e] = [pc |-> "update", list |-> l, field |-> field,
                                        value |-> value]]
    /\ UNCHANGED <<list, selling, cached, caller, late>>

Edited(l, field, value) ==
    [state |-> l.state, customer |-> l.customer,
     from |-> IF field = "from" THEN value ELSE l.from,
     to |-> IF field = "to" THEN value ELSE l.to,
     active |-> IF field = "active" THEN value ELSE l.active,
     price |-> l.price, moved |-> l.moved \/ field = "from"]

\* ... and writes what has changed.
UpdateListWrite(e) ==
    LET u == editor[e] IN
    /\ u.pc = "update"
    /\ list' = [list EXCEPT ![u.list] = Edited(list[u.list], u.field, u.value)]
    /\ Committed(e)
    /\ UNCHANGED selling

\* updatePrices and deactivate read that the list is there, and write.
PricesRead(e, l, price) ==
    /\ editor[e] = Idle /\ Live(l)
    /\ editor' = [editor EXCEPT ![e] = [pc |-> "prices", list |-> l, price |-> price]]
    /\ UNCHANGED <<list, selling, cached, caller, late>>

\* Mutant: the cache is not emptied.
PricesWriteOnly(e) ==
    /\ editor[e].pc = "prices"
    /\ list' = [list EXCEPT ![editor[e].list].price = editor[e].price]
    /\ editor' = [editor EXCEPT ![e] = Idle] /\ Overtake
    /\ UNCHANGED <<selling, cached, late>>

PricesWrite(e) ==
    /\ editor[e].pc = "prices"
    /\ list' = [list EXCEPT ![editor[e].list].price = editor[e].price]
    /\ Committed(e)
    /\ UNCHANGED selling

DeactivateRead(e, l) ==
    /\ editor[e] = Idle /\ Live(l)
    /\ editor' = [editor EXCEPT ![e] = [pc |-> "deactivate", list |-> l]]
    /\ UNCHANGED <<list, selling, cached, caller, late>>

DeactivateWrite(e) ==
    /\ editor[e].pc = "deactivate"
    /\ list' = [list EXCEPT ![editor[e].list].state = "deleted"]
    /\ Committed(e)
    /\ UNCHANGED selling

\* ProductService.update, of the selling_price.
SellingPrice(e, price) ==
    /\ editor[e] = Idle
    /\ selling' = price
    /\ Committed(e)
    /\ UNCHANGED list

PriceNext ==
    \/ \E c \in Callers : PriceSet(c) \/ \E k \in Keys : PriceRead(c, k)
    \/ \E k \in Keys : Expires(k)
    \/ \E e \in Editors :
          \/ \E l \in Lists :
                \/ \E customer \in Customers \cup {NoCustomer}, from \in Days,
                      to \in Days \cup {NoDay} : CreateList(e, l, customer, from, to)
                \/ \E day \in Days : \/ UpdateListRead(e, l, "from", day)
                                     \/ UpdateListRead(e, l, "to", day)
                \/ UpdateListRead(e, l, "to", NoDay)
                \/ \E b \in BOOLEAN : UpdateListRead(e, l, "active", b)
                \/ \E price \in Prices : PricesRead(e, l, price)
                \/ DeactivateRead(e, l)
          \/ \E price \in Prices : SellingPrice(e, price)
          \/ UpdateListWrite(e) \/ PricesWrite(e) \/ DeactivateWrite(e) \/ EmptyCache(e)

-----------------------------------------------------------------------------
(* Properties *)

\* A cached price is the one the lists give, unless a change has committed whose call has
\* not emptied the cache yet, or the result was read before a change and stored after it:
\* then it is wrong until it expires or prices change again.
CachedPriceIsActive ==
    (\A e \in Editors : editor[e].pc # "empty") =>
        \A k \in Keys \ late : cached[k] \subseteq ActivePrice(k)

\* The period of a list ends after it begins, unless an update moved its beginning: a
\* new beginning is compared with no end.
PeriodsAreSound ==
    \A l \in Lists : list[l] # NoList /\ ~list[l].moved => Follows(list[l].from, list[l].to)

\* Prices that are cached are those in force, of lists whose period is one.
PricesHold == CachedPriceIsActive /\ PeriodsAreSound
=============================================================================
