------------------------------- MODULE MCForms -------------------------------
(***************************************************************************)
(* The services and the forms for which BookingEntry is checked, one of    *)
(* each shape the platform sells, and what they should cost.               *)
(***************************************************************************)
EXTENDS Integers, Sequences, SequencesExt, TLC

Missing == "no_key"

Field(key, options) == [key |-> key, by |-> Missing, required |-> TRUE, groups |-> [flat |-> options]]
Plain == [weekly |-> FALSE, delivery |-> FALSE, perSession |-> FALSE, minDays |-> 1, weeks |-> <<>>,
          fields |-> <<>>, itemFields |-> <<>>, least |-> 0, most |-> 2, minItems |-> 0, maxItems |-> 0,
          base |-> <<>>, matrix |-> <<>>, surcharge |-> <<>>, extras |-> <<>>, discount |-> <<>>,
          unit |-> <<>>, special |-> 0]

\* A package of sessions on chosen weekdays.
Package == [Plain EXCEPT
    !.weekly = TRUE, !.perSession = TRUE, !.weeks = [one |-> 1, two |-> 2],
    !.fields = <<Field("size", {"small", "large"}), Field("package", {"one", "two"})>>,
    !.base = [small |-> 7, large |-> 10], !.extras = [cook |-> 3], !.discount = [two |-> 15]]

\* One visit: the second choice depends on the first, and both may be "other".
Visit == [Plain EXCEPT
    !.delivery = TRUE,
    !.fields = <<Field("room", {"flat", "other"}),
                 [key |-> "size", by |-> "room", required |-> TRUE,
                  groups |-> [flat |-> {"small", "other"}, other |-> {"large"}]],
                 Field("pets", {"yes", "no"})>>,
    !.matrix = [flat |-> [small |-> 4, other |-> 5], other |-> [large |-> 9]],
    !.surcharge = [yes |-> 2]]

\* Machines, each of a kind and a power.
Machines == [Plain EXCEPT
    !.itemFields = <<Field("kind", {"wall", "floor"}),
                     [key |-> "power", by |-> "kind", required |-> TRUE,
                      groups |-> [wall |-> {"low", "high"}, floor |-> {"high"}]]>>,
    !.minItems = 1, !.maxItems = 2,
    !.unit = (<<"wall", "low">> :> 3 @@ <<"wall", "high">> :> 4 @@ <<"floor", "high">> :> 6),
    !.special = 1]

BlankForm == [pick |-> <<>>, extras |-> <<>>, days |-> <<>>, items |-> <<>>, on |-> 1,
              at |-> 2, length |-> 1, method |-> "WALLET", delivery |-> FALSE]

PackageForms ==
    {[BlankForm EXCEPT !.pick = [size |-> size, package |-> package], !.days = days,
                       !.extras = extras, !.at = at, !.method = method] :
        size \in {"small", "large", Missing}, package \in {"one", "two"},
        days \in {<<>>, <<0>>, <<2, 0>>, <<0, 0>>, <<1, 5, 6>>},
        extras \in {<<>>, <<"cook">>, <<"cook", "cook">>}, at \in 1..3, method \in {"CASH", "WALLET"}}

VisitForms ==
    {[BlankForm EXCEPT !.pick = [room |-> room, size |-> size, pets |-> pets], !.on = on,
                       !.method = method, !.delivery = delivery] :
        room \in {"flat", "other", Missing}, size \in {"small", "other", "large", Missing},
        pets \in {"yes", "no"}, on \in 0..2, method \in {"CASH", "WALLET"}, delivery \in BOOLEAN}

Machine ==
    [pick : [kind : {"wall", "floor"}, power : {"low", "high", Missing}], quantity : 0..3, special : BOOLEAN]

MachineForms ==
    {[BlankForm EXCEPT !.items = items] :
        items \in {<<>>} \cup {<<m>> : m \in Machine} \cup
                  {<<m, n>> : m \in Machine, n \in {x \in Machine : x.quantity \in 1..2}}}

EntryForms(o) == CASE o = Package -> PackageForms [] o = Visit -> VisitForms [] o = Machines -> MachineForms

\* Each thing that is named costs what its table says, the sessions of a package less
\* its discount: found by the keys of the fields, which the code does not use.
ListedPrice(o, d, sessions) ==
    CASE o = Package ->
           LET one == o.base[d.pick.size] + 3 * Len(d.extras)
           IN  (2 * one * sessions * (IF d.pick.package = "two" THEN 85 ELSE 100) + 100) \div 200
      [] o = Visit -> o.matrix[d.pick.room][d.pick.size] + (IF d.pick.pets = "yes" THEN 2 ELSE 0)
      [] o = Machines ->
           FoldLeft(LAMBDA sum, m : sum + m.quantity *
                        (o.unit[<<m.pick.kind, m.pick.power>>] + (IF m.special THEN 1 ELSE 0)),
                    0, d.items)
=============================================================================
