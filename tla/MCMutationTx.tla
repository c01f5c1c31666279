---------------------------- MODULE MCMutationTx ----------------------------
EXTENDS MutationTx

CONSTANTS e1, e2

\* Two executions that were handed one context object.
OneContext == [e \in Execution |-> e1]
OwnContext == [e \in Execution |-> e]

\* Every mix the protocol tells apart: fields that share, one that does not coerce before,
\* between or after them, and the documents that share nothing.
AllDocuments ==
  {<<"plain", "hooked", "plain">>, <<"hooked", "uncoercible", "nested">>,
   <<"uncoercible", "hooked", "plain">>, <<"nested", "hooked", "uncoercible">>,
   <<"hooked", "foreign", "nested">>, <<"hooked">>, <<"nested", "uncoercible">>}

\* One execution that runs while another has nothing to do, or writes as well.
Beside(first, second) == {[e \in Execution |-> IF e = e1 THEN d ELSE second] : d \in first}

Alone  == Beside(AllDocuments, <<>>)
AtOnce == Alone \cup Beside({<<"hooked", "plain">>, <<"nested", "hooked", "uncoercible">>, <<"plain">>},
                            <<"hooked", "plain">>)
=============================================================================
