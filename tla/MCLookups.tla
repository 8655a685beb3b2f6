------------------------------- MODULE MCLookups -------------------------------
(* Instances of Lookups for TLC: a zone inside another, wildcards, names     *)
(* that exist only because of those below them, and what New refuses.        *)
EXTENDS Lookups, TLC

N(labels)     == [labels |-> labels, plain |-> TRUE]
Other(labels) == [labels |-> labels, plain |-> FALSE]

R(labels, type) == [name |-> N(labels), type |-> type, data |-> "d1", parses |-> TRUE]
Z(labels, records) == [name |-> Other(labels), revision |-> 1, records |-> records]

\* Every zone of at most three of these records, alone or around another zone.
Pool == {R(<<"*", "a">>, "A"), R(<<"b", "a">>, "A"), R(<<"*", "b", "a">>, "CNAME"),
         R(<<"a", "b", "b", "a">>, "A"), R(<<"a">>, "A"), R(<<"a">>, "NS"),
         [R(<<"b", "a">>, "A") EXCEPT !.data = "d2", !.name.plain = FALSE]}
Outer == {Z(<<"a">>, records) : records \in {s \in SUBSET Pool : Cardinality(s) <= 3}}
Inner == Z(<<"b", "a">>, {R(<<"b", "a">>, "A"), R(<<"*", "b", "a">>, "A")})
Bare  == Z(<<"a">>, {})

MCZoneInputs ==
    {<<z>> : z \in Outer} \union {<<z, Inner>> : z \in {y \in Outer : Cardinality(y.records) <= 2}} \union
    {<<>>, <<Z(<<"b">>, {}), Bare>>,
     \* refused: an alias beside a record, at the apex, NS inside, outside, twice, no revision
     <<Z(<<"a">>, {R(<<"b", "a">>, "CNAME"), R(<<"b", "a">>, "A")})>>,
     <<Z(<<"a">>, {R(<<"a">>, "CNAME")})>>,
     <<Z(<<"a">>, {R(<<"b", "a">>, "NS")})>>,
     <<Z(<<"a">>, {R(<<"a", "b">>, "A")})>>,
     <<Bare, Inner, Bare>>,
     <<[Bare EXCEPT !.revision = 0]>>}

MCRecordInputs ==
    {{},
     {R(<<"*", "a">>, "A"), R(<<"*", "b", "a">>, "CNAME"), [R(<<"b", "a">>, "A") EXCEPT !.name.plain = FALSE]},
     {R(<<"a">>, "CNAME"), R(<<"a">>, "A")},
     {[R(<<"a">>, "A") EXCEPT !.parses = FALSE]}}

W(labels)         == [name |-> Other(labels), valid |-> TRUE, skip |-> FALSE]
L(kind, words)    == [kind |-> kind, words |-> words]
S(lines)          == [readable |-> TRUE, lines |-> lines]
Blocking(labels)  == L("block", <<W(labels)>>)
Excepting(labels) == L("except", <<W(labels)>>)

MCListInputs ==
    {[block |-> {N(<<"a">>), N(<<"b", "b">>)}, allow |-> {N(<<"b", "a">>), Other(<<"b", "b">>)}, sources |-> <<>>],
     [block |-> {}, allow |-> {N(<<"b">>)},
      sources |-> <<S(<<L("hosts", <<[W(<<"b">>) EXCEPT !.skip = TRUE], W(<<"b", "a">>)>>),
                        Excepting(<<"a">>)>>),
                    S(<<L("word", <<W(<<"a", "b">>)>>), L("block", <<[W(<<"b", "b">>) EXCEPT !.valid = FALSE]>>)>>)>>],
     [block |-> {}, allow |-> {}, sources |-> <<S(<<Blocking(<<"a">>), Blocking(<<"b">>), Blocking(<<"a", "a">>), Excepting(<<"a">>)>>)>>],
     [block |-> {N(<<"a">>)}, allow |-> {}, sources |-> <<[S(<<>>) EXCEPT !.readable = FALSE]>>]}

Asked == UNION {[1..n -> {"a", "b"}] : n \in 0..3} \union {<<"*", "a">>, <<"a", "*", "a">>, <<"a", "b", "b", "a">>,
                                                             <<"b", "b", "b", "a">>, <<"b", "b", "a", "a">>}

MCQuestions ==
    {[name |-> N(l), type |-> t, class |-> "IN"] : l \in Asked, t \in {"A", "NS", "SOA", "ANY"}}
    \union {[name |-> Other(<<"a">>), type |-> "A", class |-> "other"]}
================================================================================
