----------------------------- MODULE MCRequests -----------------------------
(***************************************************************************)
(* Requests for TLC: two goroutines, one upstream of each kind, exports of *)
(* one dataset.                                                            *)
(***************************************************************************)
EXTENDS Requests

Field(key, type, required, options) ==
    [key |-> key, type |-> type, required |-> required, options |-> options]

\* Fields of every type, one declared twice, one without a name.
AllDescriptors ==
    {[formats |-> {"csv"}, columns |-> {"id", "name"}, fields |-> fields] :
        fields \in {<<>>,
                    <<Field("a", "string", TRUE, {})>>,
                    <<Field("a", "string", FALSE, {"text"}), Field("", "integer", TRUE, {})>>,
                    <<Field("a", "datetime", FALSE, {})>>,
                    <<Field("a", "integer", FALSE, {}), Field("b", "boolean", TRUE, {})>>,
                    <<Field("a", "number", TRUE, {}), Field("a", "string", FALSE, {})>>,
                    <<Field("a", "decimal", FALSE, {})>>}}

Queries == UNION {[keys -> QueryValues] : keys \in {{}, {"a"}}} \cup
           {[a |-> v, b |-> "flag"] : v \in {"whole", "fraction"}}

AllInputs ==
    {[format |-> "csv", query |-> query, selected |-> <<"name", "id">>] : query \in Queries}
    \cup {[format |-> format, query |-> [k \in {} |-> "null"], selected |-> selected] :
            format \in {"csv", "xlsx"}, selected \in {<<>>, <<"id", "id">>, <<"secret">>}}
=============================================================================
