------------------------------ MODULE MCCalls ------------------------------
EXTENDS Calls

\* Parameter lists of one to three types, for candidates and for sole functions.
Lists == { << >>,
           <<Plain("integer")>>, <<Plain("number")>>, <<Plain("string")>>, <<Plain("class")>>,
           <<Plain("class*")>>, <<Plain("unique")>>, <<Plain("stream")>>,
           <<Pair("integer", "string")>>, <<Optional("integer")>>,
           <<Plain("variadic_args")>>,
           <<Plain("integer"), Plain("integer")>>,
           <<Plain("integer"), Plain("variadic_args")>>,
           <<Plain("class"), Plain("class")>>,
           <<Plain("this_state"), Plain("nil"), Plain("object")>>,
           <<Plain("bool"), Variant("integer", "string")>>,
           <<Plain("function"), Plain("table")>>,
           <<Plain("string"), Plain("this_state"), Optional("integer")>>,
           <<Optional("integer"), Optional("string")>>,
           <<Optional("string"), Plain("integer")>>,
           <<Optional("lua_table"), Plain("integer")>>,
           <<Plain("integer"), Pair("integer", "string")>>,
           <<Pair("integer", "string"), Plain("integer")>> }

ArgKinds == {"nil", "bool", "int", "frac", "str", "callable", "T", "D"}
          \cup (IF "bare_userdata" \in CallCorners THEN {"bare"} ELSE {})
ShortArgs == UNION {[1 .. n -> ArgKinds] : n \in 0 .. 2}
LongArgs == UNION {[1 .. n -> {"nil", "int", "str"}] : n \in 3 .. 3}
Arguments2 == ShortArgs \cup LongArgs \cup {<<"u">>, <<"other">>, <<"file">>, <<"fun", "table">>}

Bound(how, into, sigs, policies, gives, args) ==
    [how |-> how, into |-> into, sigs |-> sigs, policies |-> policies, gives |-> gives, args |-> args]

NoPolicies == << >>
Keeping(target, deps) == [self |-> FALSE, target |-> target, deps |-> deps]
Self(deps) == [self |-> TRUE, target |-> -1, deps |-> deps]
Objects2 == [1 .. 2 -> {"T"}] \cup {<<"T", "D">>}

\* Functions, and overload sets of one or two candidates.
Single == {<<l>> : l \in Lists}
Double == {<<l, m>> : l \in Lists, m \in Lists \ {<<Optional("lua_table"), Plain("integer")>>}}
Binds == ({"function"} \X {"set_function"} \X Single) \cup ({"protect"} \X {"usertype"} \X Single)
         \cup ({"overload"} \X {"set"} \X (Single \cup Double))
Functions == {Bound(b[1], b[2], b[3], NoPolicies, "value", a) : b \in Binds, a \in Arguments2}
Members == {Bound(how, "usertype", <<l>>, NoPolicies, g, <<s>> \o a) :
              how \in {"method", "setter"}, l \in {<<Plain("integer")>>, <<Plain("class")>>},
              g \in {"nothing", "object"}, s \in {"T", "nil", "int", "other", "u"}, a \in [1 .. 1 -> {"int", "T", "str"}]}
           \cup {Bound("setter", "set", <<<<Plain("integer")>>>>, NoPolicies, "nothing", <<"T", "str", a>>) : a \in {"int", "T"}}
CtorLists == {<< >>, <<Plain("integer")>>, <<Plain("class")>>, <<Plain("integer"), Optional("string")>>}
CtorArgs == {<< >>, <<"int">>, <<"T">>, <<"nil">>, <<"int", "str">>, <<"str">>}
Constructions ==
    {Bound(how, IF how = "plain" THEN "set" ELSE "usertype", sigs, NoPolicies, "nothing", a) :
        how \in {"constructors", "plain", "initializers", "factories"},
        sigs \in {<<l, m>> : l, m \in CtorLists} \cup {<<l>> : l \in CtorLists},
        a \in CtorArgs \cup {<<"class">> \o b : b \in CtorArgs}}
Policied ==
    {Bound(how, into, <<<<Plain("class"), Plain("class")>>>>, p, g, a) : into \in {"usertype", "set"},
        how \in {"function", "overload", "constructors", "initializers"}, g \in {"nothing", "reference", "object"}, a \in Objects2,
        p \in {<<Keeping(-1, {1})>>, <<Keeping(-1, {1, 2})>>, <<Keeping(1, {2})>>, <<Self({})>>, <<Self({2})>>,
               <<Keeping(-1, {1}), Keeping(-1, {2})>>}}
    \cup {Bound("method", "usertype", <<<<Plain("class")>>>>, p, g, a) :
        g \in {"nothing", "reference", "object"}, a \in Objects2,
        p \in {<<Keeping(-1, {1})>>, <<Keeping(1, {2})>>, <<Self({})>>, <<Self({2})>>}}

\* What a table of the program's own may hold.
InTables == {Bound(how, "set", <<<<Plain("integer")>>>>, NoPolicies, "object", <<a>>) : how \in {"function", "protect"}, a \in ArgKinds}
          \cup {Bound("initializers", "set", <<l>>, NoPolicies, "nothing", a) : l \in CtorLists, a \in CtorArgs}

Calls == Members \cup
         {c \in Constructions : c.how = "factories" => c.args # << >> /\ c.args[1] = "class"} \cup
         {c \in Policied : /\ Constructing(c) => c.gives = "nothing"
                           /\ c.how = "constructors" => c.into = "usertype"} \cup InTables \cup Functions
=============================================================================
